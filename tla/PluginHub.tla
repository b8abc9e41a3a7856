------------------------------ MODULE PluginHub ------------------------------
(***************************************************************************)
(* The bridge's PluginHub (apps/bridge/src/pluginHub.ts) with the rows it  *)
(* keeps in plugin_connections and openclaw_instances (db.ts).  OpenClaw   *)
(* plugins connect by WebSocket and say hello with a bridge token; the hub *)
(* keeps at most one active connection per OpenClaw instance, closes the   *)
(* one it replaces, and sends the messages of the iOS app to it.           *)
(*                                                                         *)
(* The bridge is one Node process with a synchronous SQLite driver, so     *)
(* every handler below is one action.  A socket authenticates once, hence  *)
(* a socket stands for its connectionId.  lastSeenAt, capabilities and the *)
(* names of instances are left out: no property tells them apart.  Frames  *)
(* a plugin sends after hello change no state kept here.                   *)
(***************************************************************************)
EXTENDS Naturals

CONSTANTS
    Sockets,      \* WebSocket connections, each used once
    Instances,    \* ids of OpenClaw instances
    Tokens,       \* bridge tokens the database knows
    Owner,        \* [Tokens -> Instances \cup {None}]: the instance created
                  \* with the token; None for a token of POST /api/setup/token
    MaxBoots,     \* bound: process restarts
    None

ASSUME ConstantsAssumption ==
    /\ None \notin Sockets \cup Instances
    /\ Owner \in [Tokens -> Instances \cup {None}]
    /\ MaxBoots \in Nat

VARIABLES
    sock,         \* [Sockets -> SocketStates]: readyState, seen from the hub
    inst,         \* [Sockets -> Instances \cup {None}]: bound by hello
    active,       \* activeByInstance: the active socket of an instance
    joined,       \* [Instances -> Nat]: when the Map key was inserted
    revoked,      \* openclaw_instances.revoked_at IS NOT NULL
    row,          \* plugin_connections.status of the connection, if any
    updated,      \* plugin_connections.updated_at
    clock,        \* time of the last write of a row
    boots,        \* restarts of the process so far
    epoch,        \* history: the boot at which a socket said hello
    announced,    \* history: the last plugin.* event of an instance since
                  \* the boot
    sent          \* history: the last call of sendToPlugin, if it was the
                  \* last step

vars == <<sock, inst, active, joined, revoked, row, updated, clock, boots,
          epoch, announced, sent>>

SocketStates == {"idle",      \* not connected yet
                 "opening",   \* accepted, the first frame has not come
                 "refused",   \* hello.error sent, close() called
                 "open",      \* authenticated, readyState OPEN
                 "closing",   \* authenticated, readyState CLOSING
                 "closed"}

NoSend == [asked |-> None, to |-> None, made |-> FALSE]

TypeOK ==
    /\ sock \in [Sockets -> SocketStates]
    /\ inst \in [Sockets -> Instances \cup {None}]
    /\ active \in [Instances -> Sockets \cup {None}]
    /\ joined \in [Instances -> Nat]
    /\ revoked \in SUBSET Instances
    /\ row \in [Sockets -> {"none", "connected", "stale"}]
    /\ updated \in [Sockets -> Nat]
    /\ clock \in Nat
    /\ boots \in Nat
    /\ epoch \in [Sockets -> Nat]
    /\ announced \in [Instances -> {"nothing", "connected", "disconnected"}]
    /\ sent \in [asked : Instances \cup {None}, to : Sockets \cup {None},
                 made : BOOLEAN]

Init ==
    /\ sock = [s \in Sockets |-> "idle"]
    /\ inst = [s \in Sockets |-> None]
    /\ active = [i \in Instances |-> None]
    /\ joined = [i \in Instances |-> 0]
    /\ revoked = {}
    /\ row = [s \in Sockets |-> "none"]
    /\ updated = [s \in Sockets |-> 0]
    /\ clock = 0
    /\ boots = 0
    /\ epoch = [s \in Sockets |-> 0]
    /\ announced = [i \in Instances |-> "nothing"]
    /\ sent = NoSend

-----------------------------------------------------------------------------
(* The Map and the rows.                                                   *)

IsOpen(i) == active[i] # None /\ sock[active[i]] = "open"

\* A bug: the first entry of the Map, whether its socket is open or not.
FirstEntry ==
    LET held == {i \in Instances : active[i] # None}
        first == CHOOSE i \in held : \A j \in held : joined[i] <= joined[j]
    IN  IF held = {} \/ ~IsOpen(first) THEN None ELSE active[first]

\* firstActive: the first entry in Map order whose socket is open.  A key
\* that is set again keeps its place.
FirstActive ==
    LET open == {i \in Instances : IsOpen(i)}
    IN  IF open = {} THEN None
        ELSE active[CHOOSE i \in open : \A j \in open : joined[i] <= joined[j]]

\* getOpenClawInstanceByTokenId(token)?.id ?? hello.instanceId
Resolve(t, declared) ==
    IF Owner[t] # None /\ Owner[t] \notin revoked THEN Owner[t] ELSE declared

\* The row ORDER BY updated_at DESC LIMIT 1 picks for an instance.  Two
\* writes of rows of one instance never have the same time here.
Latest(i, s) ==
    /\ inst[s] = i
    /\ row[s] # "none"
    /\ \A u \in Sockets : inst[u] = i /\ row[u] # "none" =>
            updated[u] <= updated[s]

\* The "connected" GET /api/openclaws reports for instance i.
ReportsConnected(i) == \E s \in Sockets : Latest(i, s) /\ row[s] = "connected"

\* A bug: the entry is looked up by the instance of the connection, so the
\* late close of a replaced connection evicts its successor.
OnPluginCloseByInstance(s) ==
    IF inst[s] # None /\ active[inst[s]] # None
    THEN /\ row' = [row EXCEPT ![s] = "stale"]
         /\ updated' = [updated EXCEPT ![s] = clock + 1]
         /\ clock' = clock + 1
         /\ announced' = [announced EXCEPT ![inst[s]] = "disconnected"]
         /\ active' = [active EXCEPT ![inst[s]] = None]
    ELSE UNCHANGED <<row, updated, clock, announced, active>>

\* A bug: the row of a connection is marked stale, and its end announced,
\* even when it was replaced.
OnPluginCloseMarksFirst(s) ==
    /\ row' = [row EXCEPT ![s] = "stale"]
    /\ updated' = [updated EXCEPT ![s] = clock + 1]
    /\ clock' = clock + 1
    /\ announced' = [announced EXCEPT ![inst[s]] = "disconnected"]
    /\ active' = [i \in Instances |-> IF active[i] = s THEN None ELSE active[i]]

\* A bug: the closed connection stays in the Map.
OnPluginCloseKeepsEntry(s) ==
    IF \E i \in Instances : active[i] = s
    THEN LET i == CHOOSE j \in Instances : active[j] = s
         IN  /\ row' = [row EXCEPT ![s] = "stale"]
             /\ updated' = [updated EXCEPT ![s] = clock + 1]
             /\ clock' = clock + 1
             /\ announced' = [announced EXCEPT ![i] = "disconnected"]
             /\ UNCHANGED active
    ELSE UNCHANGED <<row, updated, clock, announced, active>>

\* onPluginClose(connectionId): nothing unless the connection is active.
OnPluginClose(s) ==
    IF \E i \in Instances : active[i] = s
    THEN LET i == CHOOSE j \in Instances : active[j] = s
         IN  /\ row' = [row EXCEPT ![s] = "stale"]
             /\ updated' = [updated EXCEPT ![s] = clock + 1]
             /\ clock' = clock + 1
             /\ announced' = [announced EXCEPT ![i] = "disconnected"]
             /\ active' = [active EXCEPT ![i] = None]
    ELSE UNCHANGED <<row, updated, clock, announced, active>>

-----------------------------------------------------------------------------
(* Actions.                                                                *)

\* attach: an upgrade request for /api/openclaw/connect is accepted.
Upgrade(s) ==
    /\ sock[s] = "idle"
    /\ sock' = [sock EXCEPT ![s] = "opening"]
    /\ sent' = NoSend
    /\ UNCHANGED <<inst, active, joined, revoked, row, updated, clock, boots,
                   epoch, announced>>

\* The first frame is not a hello, or its token is not known.
RefuseHello(s) ==
    /\ sock[s] = "opening"
    /\ sock' = [sock EXCEPT ![s] = "refused"]
    /\ sent' = NoSend
    /\ UNCHANGED <<inst, active, joined, revoked, row, updated, clock, boots,
                   epoch, announced>>

\* A bug: the replaced connection is not closed.
AcceptHelloKeepsPrevious(s, t, declared) ==
    LET i == Resolve(t, declared)
    IN  /\ sock[s] = "opening"
        /\ sock' = [sock EXCEPT ![s] = "open"]
        /\ inst' = [inst EXCEPT ![s] = i]
        /\ active' = [active EXCEPT ![i] = s]
        /\ joined' = IF active[i] = None
                     THEN [joined EXCEPT ![i] = clock + 1] ELSE joined
        /\ row' = [row EXCEPT ![s] = "connected"]
        /\ updated' = [updated EXCEPT ![s] = clock + 1]
        /\ clock' = clock + 1
        /\ epoch' = [epoch EXCEPT ![s] = boots]
        /\ announced' = [announced EXCEPT ![i] = "connected"]
        /\ sent' = NoSend
        /\ UNCHANGED <<revoked, boots>>

\* The first frame is a hello with a known token: the connection becomes the
\* active one of its instance, the one it replaces is closed, the row is
\* written and plugin.connected is published.
AcceptHello(s, t, declared) ==
    LET i == Resolve(t, declared)
        previous == active[i]
    IN  /\ sock[s] = "opening"
        /\ sock' = [u \in Sockets |->
                        IF u = s THEN "open"
                        ELSE IF u = previous /\ sock[u] = "open" THEN "closing"
                        ELSE sock[u]]
        /\ inst' = [inst EXCEPT ![s] = i]
        /\ active' = [active EXCEPT ![i] = s]
        /\ joined' = IF previous = None
                     THEN [joined EXCEPT ![i] = clock + 1] ELSE joined
        /\ row' = [row EXCEPT ![s] = "connected"]
        /\ updated' = [updated EXCEPT ![s] = clock + 1]
        /\ clock' = clock + 1
        /\ epoch' = [epoch EXCEPT ![s] = boots]
        /\ announced' = [announced EXCEPT ![i] = "connected"]
        /\ sent' = NoSend
        /\ UNCHANGED <<revoked, boots>>

\* The peer's close frame, or the end of its TCP stream, has arrived.
PeerCloses(s) ==
    /\ sock[s] = "open"
    /\ sock' = [sock EXCEPT ![s] = "closing"]
    /\ sent' = NoSend
    /\ UNCHANGED <<inst, active, joined, revoked, row, updated, clock, boots,
                   epoch, announced>>

\* "error": ws leaves OPEN first; "close" comes later, for the same
\* connection.  (Before hello there is no handler: see Crash.)
SocketError(s) ==
    /\ sock[s] \in {"open", "closing"}
    /\ sock' = [sock EXCEPT ![s] = "closing"]
    /\ OnPluginClose(s)
    /\ sent' = NoSend
    /\ UNCHANGED <<inst, joined, revoked, boots, epoch>>

\* "close" of a connection that said hello.
SocketCloses(s) ==
    /\ sock[s] = "closing"
    /\ sock' = [sock EXCEPT ![s] = "closed"]
    /\ OnPluginClose(s)
    /\ sent' = NoSend
    /\ UNCHANGED <<inst, joined, revoked, boots, epoch>>

\* "close" of one that did not: the handler does nothing.
StrangerCloses(s) ==
    /\ sock[s] \in {"opening", "refused"}
    /\ sock' = [sock EXCEPT ![s] = "closed"]
    /\ sent' = NoSend
    /\ UNCHANGED <<inst, active, joined, revoked, row, updated, clock, boots,
                   epoch, announced>>

\* sendToPlugin(event, instanceId): asked is None for a conversation that
\* belongs to no instance.
SendToPlugin(asked) ==
    /\ sent' = [asked |-> asked,
                to    |-> IF asked = None THEN FirstActive
                          ELSE IF IsOpen(asked) THEN active[asked] ELSE None,
                made  |-> TRUE]
    /\ UNCHANGED <<sock, inst, active, joined, revoked, row, updated, clock,
                   boots, epoch, announced>>

\* PATCH /api/openclaws/:id {revoked: true}: the connection stays.  (An id
\* that only a plugin declared has no row to revoke.)
Revoke(i) ==
    /\ \E t \in Tokens : Owner[t] = i
    /\ i \notin revoked
    /\ revoked' = revoked \cup {i}
    /\ sent' = NoSend
    /\ UNCHANGED <<sock, inst, active, joined, row, updated, clock, boots,
                   epoch, announced>>

\* The process dies (or an "error" of a socket that has not said hello ends
\* it: the event has no handler; or publish throws in a listener, after the
\* row was written) and is started again.  The Map is empty, the rows stay as
\* they were.
Crash ==
    /\ boots < MaxBoots
    /\ boots' = boots + 1
    /\ sock' = [s \in Sockets |-> IF sock[s] = "idle" THEN "idle" ELSE "closed"]
    /\ active' = [i \in Instances |-> None]
    /\ announced' = [i \in Instances |-> "nothing"]
    /\ sent' = NoSend
    /\ UNCHANGED <<inst, joined, revoked, row, updated, clock, epoch>>

Next ==
    \/ \E s \in Sockets :
        \/ Upgrade(s) \/ RefuseHello(s) \/ PeerCloses(s)
        \/ SocketError(s) \/ SocketCloses(s) \/ StrangerCloses(s)
        \/ \E t \in Tokens, declared \in Instances : AcceptHello(s, t, declared)
    \/ \E asked \in Instances \cup {None} : SendToPlugin(asked)
    \/ \E i \in Instances : Revoke(i)
    \/ Crash

\* ws destroys a socket that stays CLOSING for its close timeout, and Node
\* then emits "close".
Fairness == \A s \in Sockets : WF_vars(SocketCloses(s))

Spec == Init /\ [][Next]_vars /\ Fairness
-----------------------------------------------------------------------------
(* Properties.                                                             *)

\* Instance i accepted a hello since the process started.
Served(i) == \E s \in Sockets : inst[s] = i /\ epoch[s] = boots

\* Two open connections never serve one instance, whatever the order in
\* which hellos, closes and errors arrive: an authenticated socket that is
\* OPEN is the active one of its instance (pluginHub.ts 120-133, 223-233).
OpenIsActive ==
    \A s \in Sockets : sock[s] = "open" =>
        inst[s] # None /\ active[inst[s]] = s

\* Once an instance has connected since the boot, the status the iOS app reads
\* from plugin_connections says "connected" exactly while the hub holds a
\* connection, although replaced connections leave "connected" rows behind
\* (db.ts 217-266).  Right after a restart it may not: see the README.
StatusTruthful ==
    \A i \in Instances : Served(i) =>
        (ReportsConnected(i) <=> active[i] # None)

\* The last plugin.* event published for an instance since the boot agrees
\* with the Map: the late close of a replaced connection is never announced
\* as the loss of its successor (pluginHub.ts 153-163, 223-233).
AnnouncementAgrees ==
    \A i \in Instances : announced[i] = "connected" <=> active[i] # None

\* sendToPlugin hands a message to an open socket that said hello for the
\* instance asked for, and reports failure only if no authenticated socket of
\* that instance (of any instance, when none is asked for) is open
\* (pluginHub.ts 68-86).
SendIsTruthful ==
    sent.made =>
        LET able == {s \in Sockets : sock[s] = "open" /\
                        (sent.asked # None => inst[s] = sent.asked)}
        IN  IF sent.to = None THEN able = {} ELSE sent.to \in able

\* A connection that stopped being open does not hold its instance forever.
DeadIsFreed ==
    \A s \in Sockets, i \in Instances :
        (active[i] = s /\ sock[s] = "closing") ~> (active[i] # s)

\* The hub keeps the promise of ConnectionSlots.
Slots == INSTANCE ConnectionSlots WITH
    Links   <- Sockets,
    holder  <- active,
    up      <- {s \in Sockets : sock[s] = "open"},
    retired <- {s \in Sockets : inst[s] # None /\ active[inst[s]] # s}

ImplementsSlots == Slots!Spec

-----------------------------------------------------------------------------
(* The inductive invariant behind the safety properties.                   *)

\* A socket is bound to an instance exactly from its hello on.
Bound(s) == inst[s] # None

BindingInv ==
    \A s \in Sockets :
        /\ sock[s] \in {"idle", "opening", "refused"} => ~Bound(s)
        /\ sock[s] \in {"open", "closing"} => Bound(s)
        /\ Bound(s) <=> row[s] # "none"
        /\ epoch[s] <= boots

\* An active connection is bound to its instance, is not closed, belongs to
\* this boot and has the newest row of its instance, marked connected.
ActiveInv ==
    \A i \in Instances : active[i] # None =>
        /\ inst[active[i]] = i
        /\ sock[active[i]] \in {"open", "closing"}
        /\ epoch[active[i]] = boots
        /\ row[active[i]] = "connected"
        /\ \A u \in Sockets : inst[u] = i /\ u # active[i] =>
                updated[u] < updated[active[i]]

\* An instance that was served since the boot and has no connection left has
\* a newest row that is stale.
FreedInv ==
    \A i \in Instances : Served(i) /\ active[i] = None =>
        \A s \in Sockets : Latest(i, s) => row[s] = "stale"

ClockInv == \A s \in Sockets : updated[s] <= clock

IInv == /\ TypeOK
        /\ BindingInv
        /\ OpenIsActive
        /\ ActiveInv
        /\ FreedInv
        /\ ClockInv
        /\ AnnouncementAgrees
        /\ SendIsTruthful
==============================================================================
