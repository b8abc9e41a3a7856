---------------------------- MODULE SubagentRuntime ----------------------------
(***************************************************************************)
(* How a subagent session of OpenClaw gets its conversation: the hooks of  *)
(* index.ts and materializeOpenClawSubagentSession, the binding adapter,   *)
(* the turns that come in from the app (packages/openclaw-channel), and    *)
(* the bridge's POST /api/plugin/conversations, which finds a conversation *)
(* by its session key or creates it.                                       *)
(*                                                                         *)
(* Each part of a call between two awaits is one action.  A call outlives  *)
(* the runtime it began in: stop() aborts no request.  The socket is       *)
(* modelled in PluginClient, a reply's way to the bridge in MessageFlow.   *)
(***************************************************************************)
EXTENDS Naturals

CONSTANTS
    Sessions,        \* session keys of subagents
    Conversations,   \* ids of conversations that have a session key
    Calls,           \* calls of a hook or of bind that await the bridge
    MaxStarts,       \* bound: runtimes started
    None

ASSUME ConstantsAssumption ==
    /\ None \notin Sessions \cup Conversations
    /\ MaxStarts \in Nat

VARIABLES
    key,             \* [Conversations -> Sessions \cup {None}]: the bridge's
                     \* openclaw_session_key; None: no such conversation yet
    deleted,         \* conversations whose row is gone
    runtime,         \* activeRuntime: its number, 0 if there is none
    starts,          \* runtimes started so far
    cache,           \* [Sessions -> Conversations \cup {None}]:
                     \* materializedConversationIdsBySession
    bySession,       \* [Sessions -> Conversations \cup {None}]: the active
                     \* adapter's bySessionKey
    byConversation,  \* [Conversations -> Sessions \cup {None}]: byConversationId
    call,            \* [Calls -> CallRecords]: what awaits the bridge
    turns,           \* conversations whose inbound.message is on its way
    origin,          \* [Sessions -> Conversations \cup {None}]: where
                     \* OpenClaw delivers, as a hook last told it
    lost             \* history: sessions materialised before the active
                     \* runtime or unbound in it, and not bound since

bridgeVars == <<key, deleted>>
adapterVars == <<bySession, byConversation, lost>>
vars == <<key, deleted, runtime, starts, cache, bySession, byConversation,
          call, turns, origin, lost>>

NoCall == [op |-> "none", session |-> None, conv |-> None, life |-> 0]
CallRecords ==
    [op : {"none", "hook", "bind"}, session : Sessions \cup {None},
     conv : Conversations \cup {None}, life : 0..MaxStarts]

TypeOK ==
    /\ key \in [Conversations -> Sessions \cup {None}]
    /\ deleted \subseteq Conversations
    /\ runtime \in 0..MaxStarts
    /\ starts \in 0..MaxStarts
    /\ cache \in [Sessions -> Conversations \cup {None}]
    /\ bySession \in [Sessions -> Conversations \cup {None}]
    /\ byConversation \in [Conversations -> Sessions \cup {None}]
    /\ call \in [Calls -> CallRecords]
    /\ turns \subseteq Conversations
    /\ origin \in [Sessions -> Conversations \cup {None}]
    /\ lost \subseteq Sessions

Unbound == [k \in Sessions |-> None]
Unresolved == [c \in Conversations |-> None]

Init ==
    /\ key = Unresolved
    /\ deleted = {}
    /\ runtime = 0
    /\ starts = 0
    /\ cache = Unbound
    /\ bySession = Unbound
    /\ byConversation = Unresolved
    /\ call = [x \in Calls |-> NoCall]
    /\ turns = {}
    /\ origin = Unbound
    /\ lost = {}

-----------------------------------------------------------------------------
(* Helpers.                                                                *)

Open(c) == key[c] # None /\ c \notin deleted

\* A bug: the record is entered in one map only.
BindOneWay(k, c) ==
    /\ bySession' = [bySession EXCEPT ![k] = c]
    /\ lost' = lost \ {k}
    /\ UNCHANGED byConversation

\* bindExistingConversation, and the end of bind: both maps get the record.
\* What an earlier conversation of the session had in byConversationId stays.
Bind(k, c) ==
    /\ bySession' = [bySession EXCEPT ![k] = c]
    /\ byConversation' = [byConversation EXCEPT ![c] = k]
    /\ lost' = lost \ {k}

\* A bug: the session key is not looked up.
FindOrCreateNew(k, c) ==
    /\ key[c] = None
    /\ key' = [key EXCEPT ![c] = k]

\* BridgeDatabase.createConversation for a session key gives conversation c.
FindOrCreate(k, c) ==
    \/ /\ key[c] = k
       /\ Open(c)
       /\ UNCHANGED key
    \/ /\ key[c] = None
       /\ \A d \in Conversations : Open(d) => key[d] # k
       /\ key' = [key EXCEPT ![c] = k]

-----------------------------------------------------------------------------
(* Actions.                                                                *)

\* startLobsterPotRuntime: the previous runtime is stopped, and its adapter
\* is no longer registered.  The module's cache stays.
Start ==
    /\ starts < MaxStarts
    /\ starts' = starts + 1
    /\ runtime' = starts + 1
    /\ bySession' = Unbound
    /\ byConversation' = Unresolved
    /\ lost' = {k \in Sessions : cache[k] # None}
    /\ UNCHANGED <<bridgeVars, cache, call, turns, origin>>

\* stopLobsterPotRuntime, or a start that finds the configuration invalid.
Stop ==
    /\ runtime # 0
    /\ runtime' = 0
    /\ bySession' = Unbound
    /\ byConversation' = Unresolved
    /\ lost' = {}
    /\ UNCHANGED <<bridgeVars, starts, cache, call, turns, origin>>

\* subagent_spawning or subagent_spawned for a session that has been
\* materialised: the cached conversation, without binding it.
HookFromCache(k) ==
    /\ runtime # 0
    /\ cache[k] # None
    /\ origin' = [origin EXCEPT ![k] = cache[k]]
    /\ UNCHANGED <<bridgeVars, runtime, starts, cache, adapterVars, call, turns>>

\* The same for any other session: the bridge is asked.
HookAsks(x, k) ==
    /\ runtime # 0
    /\ cache[k] = None
    /\ call[x] = NoCall
    /\ call' = [call EXCEPT ![x] =
                  [op |-> "hook", session |-> k, conv |-> None, life |-> runtime]]
    /\ UNCHANGED <<bridgeVars, runtime, starts, cache, adapterVars, turns, origin>>

\* OpenClaw calls bind of the registered adapter, which asks the bridge.
BindAsks(x, k) ==
    /\ runtime # 0
    /\ call[x] = NoCall
    /\ call' = [call EXCEPT ![x] =
                  [op |-> "bind", session |-> k, conv |-> None, life |-> runtime]]
    /\ UNCHANGED <<bridgeVars, runtime, starts, cache, adapterVars, turns, origin>>

\* The bridge handles the request.
BridgeAnswers(x, c) ==
    /\ call[x].op # "none"
    /\ call[x].conv = None
    /\ FindOrCreate(call[x].session, c)
    /\ call' = [call EXCEPT ![x].conv = c]
    /\ UNCHANGED <<deleted, runtime, starts, cache, adapterVars, turns, origin>>

\* The request fails before or after the bridge has handled it: the hook
\* throws, bind returns null.
CallFails(x) ==
    /\ call[x].op # "none"
    /\ call' = [call EXCEPT ![x] = NoCall]
    /\ UNCHANGED <<bridgeVars, runtime, starts, cache, adapterVars, turns, origin>>

\* A bug: the hook goes on with the runtime it began in.
HookResumesWhereItBegan(x) ==
    /\ call[x].op = "hook"
    /\ call[x].conv # None
    /\ LET k == call[x].session
           c == call[x].conv
       IN  /\ cache' = [cache EXCEPT ![k] = c]
           /\ IF runtime = call[x].life
              THEN Bind(k, c) /\ origin' = [origin EXCEPT ![k] = c]
              ELSE UNCHANGED <<adapterVars, origin>>
    /\ call' = [call EXCEPT ![x] = NoCall]
    /\ UNCHANGED <<bridgeVars, runtime, starts, turns>>

\* A hook goes on after its await.  activeRuntime is read again: it may be
\* another one by now, or none, and the hook throws with the cache filled.
HookResumes(x) ==
    /\ call[x].op = "hook"
    /\ call[x].conv # None
    /\ LET k == call[x].session
           c == call[x].conv
       IN  /\ cache' = [cache EXCEPT ![k] = c]
           /\ IF runtime # 0
              THEN Bind(k, c) /\ origin' = [origin EXCEPT ![k] = c]
              ELSE UNCHANGED <<adapterVars, origin>>
    /\ call' = [call EXCEPT ![x] = NoCall]
    /\ UNCHANGED <<bridgeVars, runtime, starts, turns>>

\* bind goes on after its await, in the adapter it was called on: unless
\* that is still the active one, nobody sees its maps.
BindResumes(x) ==
    /\ call[x].op = "bind"
    /\ call[x].conv # None
    /\ IF call[x].life = runtime
       THEN Bind(call[x].session, call[x].conv)
       ELSE UNCHANGED adapterVars
    /\ call' = [call EXCEPT ![x] = NoCall]
    /\ UNCHANGED <<bridgeVars, runtime, starts, cache, turns, origin>>

\* unbind, by the session or by the id of its record.
Unbind(k) ==
    /\ bySession[k] # None
    /\ byConversation' = [byConversation EXCEPT ![bySession[k]] = None]
    /\ bySession' = [bySession EXCEPT ![k] = None]
    /\ lost' = lost \cup {k}
    /\ UNCHANGED <<bridgeVars, runtime, starts, cache, call, turns, origin>>

\* The app writes to a conversation; the bridge sends the frame.
AppWrites(c) ==
    /\ Open(c)
    /\ runtime # 0
    /\ turns' = turns \cup {c}
    /\ UNCHANGED <<bridgeVars, runtime, starts, cache, adapterVars, call, origin>>

\* The connection is lost, and with it what was on its way.
LoseTurns ==
    /\ turns # {}
    /\ turns' = {}
    /\ UNCHANGED <<bridgeVars, runtime, starts, cache, adapterVars, call, origin>>

\* handleInboundMessage binds the conversation to the session it names, in
\* the adapter that is active now, and OpenClaw resolves the turn by that
\* binding.  A socket of a stopped client delivers until it is closed.
InboundMessage(c) ==
    /\ c \in turns
    /\ turns' = turns \ {c}
    /\ IF runtime # 0 THEN Bind(key[c], c) ELSE UNCHANGED adapterVars
    /\ UNCHANGED <<bridgeVars, runtime, starts, cache, call, origin>>

\* The app deletes a conversation at the bridge; the plugin is not told.
DeleteConversation(c) ==
    /\ Open(c)
    /\ deleted' = deleted \cup {c}
    /\ UNCHANGED <<key, runtime, starts, cache, adapterVars, call, turns, origin>>

Next ==
    \/ Start
    \/ Stop
    \/ LoseTurns
    \/ \E k \in Sessions :
        \/ HookFromCache(k)
        \/ Unbind(k)
        \/ \E x \in Calls : HookAsks(x, k) \/ BindAsks(x, k)
    \/ \E x \in Calls :
        \/ CallFails(x)
        \/ HookResumes(x)
        \/ BindResumes(x)
        \/ \E c \in Conversations : BridgeAnswers(x, c)
    \/ \E c \in Conversations :
        AppWrites(c) \/ InboundMessage(c) \/ DeleteConversation(c)

Spec == Init /\ [][Next]_vars
-----------------------------------------------------------------------------
(* Properties.                                                             *)

\* What the plugin holds about session k, wherever it keeps it.
Known(k) ==
    ( {cache[k], bySession[k], origin[k]}
      \cup {c \in Conversations : byConversation[c] = k}
      \cup {call[x].conv : x \in {y \in Calls : call[y].session = k}} ) \ {None}

\* However hooks, binds and inbound turns of a session race, whatever fails
\* or is restarted between, all of them name conversations of this session,
\* and two different ones only if one of them was deleted at the bridge:
\* the app never sees one session in two threads (runtime.ts 121-135,
\* binding-adapter.ts 60-135, db.ts 326-329).
NoSplit ==
    \A k \in Sessions :
        /\ \A c \in Known(k) : key[c] = k
        /\ \A c, d \in Known(k) : c = d \/ c \in deleted \/ d \in deleted

\* The conversation a session's replies go to routes its turns back to the
\* session, and no conversation routes to a session it does not belong to,
\* although the maps are written one after the other by five paths and a
\* rebinding leaves old entries behind (binding-adapter.ts 99-100, 129-130,
\* 162-172).
BoundBothWays ==
    /\ \A k \in Sessions : bySession[k] # None => byConversation[bySession[k]] = k
    /\ \A c \in Conversations : byConversation[c] # None => byConversation[c] = key[c]

\* A hook that finds its session in the cache tells OpenClaw that the thread
\* binding is ready (index.ts 67).  That is so unless the session was
\* materialised before the active runtime was started, or while there was
\* none, or OpenClaw has unbound it: no race of hooks, binds, restarts and
\* failed calls in between leaves another cached session without a binding
\* (runtime.ts 121-135).
ReadyUnlessLost ==
    \A k \in Sessions :
        runtime # 0 /\ cache[k] # None => bySession[k] # None \/ k \in lost

\* What is known of session k, with the turns on their way to it.
Heard(k) == Known(k) \cup {c \in turns : key[c] = k}

\* The plugin and the bridge keep the promise of SessionThreads: a session has
\* one open conversation, and whatever hook, bind, turn or restart comes
\* late, nothing ever learns of a conversation that is deleted by then:
\* it can only still hold it (runtime.ts 121-135, binding-adapter.ts 60-135,
\* db.ts 326-329).
Threads == INSTANCE SessionThreads WITH
    Threads <- Conversations,
    owner   <- key,
    closed  <- deleted,
    known   <- [k \in Sessions |-> Heard(k)]

ImplementsThreads == Threads!Spec

\* Only conversations of the bridge are known; a deleted one has a key.
KeyInv ==
    /\ \A c \in deleted : key[c] # None
    /\ \A c \in turns : key[c] # None
    /\ \A c, d \in Conversations :
        Open(c) /\ Open(d) /\ key[c] = key[d] => c = d
    /\ \A x \in Calls : call[x].op # "none" => call[x].session # None
    /\ \A x \in Calls : call[x].op = "none" => call[x].conv = None

IInv == TypeOK /\ NoSplit /\ BoundBothWays /\ ReadyUnlessLost /\ KeyInv
==============================================================================
