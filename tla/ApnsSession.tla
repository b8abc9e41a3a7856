------------------------------ MODULE ApnsSession ------------------------------
(***************************************************************************)
(* The relay's APNs provider (apps/push-relay/src/apns.ts): requests share *)
(* one HTTP/2 session, made when it is needed, and one JWT, made again     *)
(* after its lifetime.  The error listeners of every session and of every  *)
(* request destroy whatever session the provider holds by then.            *)
(*                                                                         *)
(* Node destroys the streams of a destroyed session and delivers their     *)
(* events one by one; a send may run in between.  A session that is gone   *)
(* and of which nothing is awaited any more may stand for a later one.     *)
(***************************************************************************)
EXTENDS Naturals

CONSTANTS
    Sessions,     \* ClientHttp2Session objects
    Requests,     \* bound: send() calls under way at a time
    Ttl,          \* TOKEN_TTL_MS
    MaxTime,      \* bound: the clock
    None

ASSUME ConstantsAssumption ==
    /\ None \notin Sessions
    /\ Ttl \in Nat \ {0}
    /\ MaxTime \in Nat

VARIABLES
    state,        \* [Sessions -> SessionStates]
    raising,      \* sessions whose "error" is still to be delivered
    session,      \* this.session
    on,           \* [Requests -> Sessions \cup {None}]: the session of a
                  \* request that is not settled
    builtAt,      \* tokenCache.builtAt, or None
    now,          \* Date.now()
    signed        \* history: [Requests -> Nat]: when the JWT of a request
                  \* was made

vars == <<state, raising, session, on, builtAt, now, signed>>

SessionStates == {"none",       \* no object, or nothing left of it
                  "up",         \* connecting or connected
                  "closed",     \* close() or GOAWAY: no new requests
                  "destroyed"}

TypeOK ==
    /\ state \in [Sessions -> SessionStates]
    /\ raising \in SUBSET Sessions
    /\ session \in Sessions \cup {None}
    /\ on \in [Requests -> Sessions \cup {None}]
    /\ builtAt \in Nat \cup {None}
    /\ now \in Nat
    /\ signed \in [Requests -> Nat]

Init ==
    /\ state = [s \in Sessions |-> "none"]
    /\ raising = {}
    /\ session = None
    /\ on = [r \in Requests |-> None]
    /\ builtAt = None
    /\ now = 0
    /\ signed = [r \in Requests |-> 0]

-----------------------------------------------------------------------------
(* this.session.                                                           *)

\* A bug: the session is let go without being destroyed.
DropsSessionOnly == session' = None /\ UNCHANGED state

\* this.session?.destroy(); this.session = null
DropsSession ==
    /\ session' = None
    /\ state' = [s \in Sessions |->
                    IF s = session /\ state[s] # "none" THEN "destroyed" ELSE state[s]]

\* A bug: any session that is held is taken.
UsableIfHeld == session # None

\* getOrCreateSession keeps the session it has.
Usable == session # None /\ state[session] = "up"

\* getBearerToken finds its cached token young enough.
JwtCached == builtAt # None /\ now < builtAt + Ttl

\* getBearerToken: when the JWT it returns was made.
JwtBuiltAt == IF JwtCached THEN builtAt ELSE now

-----------------------------------------------------------------------------
(* Actions.                                                                *)

\* send(): session, JWT and request, without an await in between.
Send(r) ==
    /\ on[r] = None
    /\ \/ /\ Usable
          /\ on' = [on EXCEPT ![r] = session]
          /\ UNCHANGED <<session, state>>
       \/ /\ ~Usable
          /\ \E s \in Sessions :
                /\ state[s] = "none"
                /\ session' = s
                /\ state' = [state EXCEPT ![s] = "up"]
                /\ on' = [on EXCEPT ![r] = s]
    /\ builtAt' = JwtBuiltAt
    /\ signed' = [signed EXCEPT ![r] = builtAt']
    /\ UNCHANGED <<raising, now>>

\* "end": APNs answered, or the stream of a destroyed session ended.
RequestEnds(r) ==
    /\ on[r] # None
    /\ on' = [on EXCEPT ![r] = None]
    /\ UNCHANGED <<state, raising, session, builtAt, now, signed>>

\* "error" of a request: the stream was reset, or its session destroyed.
RequestFails(r) ==
    /\ on[r] # None
    /\ on' = [on EXCEPT ![r] = None]
    /\ DropsSession
    /\ UNCHANGED <<raising, builtAt, now, signed>>

\* The server sends GOAWAY, or closes: no new requests, those under way go on.
SessionCloses(s) ==
    /\ state[s] = "up"
    /\ state' = [state EXCEPT ![s] = "closed"]
    /\ UNCHANGED <<raising, session, on, builtAt, now, signed>>

\* The connection of s fails: Node destroys it and will deliver "error".
SessionBreaks(s) ==
    /\ state[s] \in {"up", "closed"}
    /\ state' = [state EXCEPT ![s] = "destroyed"]
    /\ raising' = raising \cup {s}
    /\ UNCHANGED <<session, on, builtAt, now, signed>>

\* "error" of session s.
SessionFails(s) ==
    /\ s \in raising
    /\ raising' = raising \ {s}
    /\ DropsSession
    /\ UNCHANGED <<on, builtAt, now, signed>>

\* Nothing is left of a session that is gone.
SessionForgotten(s) ==
    /\ state[s] \in {"closed", "destroyed"}
    /\ s \notin raising
    /\ s # session
    /\ \A r \in Requests : on[r] # s
    /\ state' = [state EXCEPT ![s] = "none"]
    /\ UNCHANGED <<raising, session, on, builtAt, now, signed>>

Tick ==
    /\ now < MaxTime
    /\ now' = now + 1
    /\ UNCHANGED <<state, raising, session, on, builtAt, signed>>

Next ==
    \/ \E r \in Requests : Send(r) \/ RequestEnds(r) \/ RequestFails(r)
    \/ \E s \in Sessions : SessionCloses(s) \/ SessionBreaks(s) \/ SessionFails(s)
                           \/ SessionForgotten(s)
    \/ Tick

Spec == Init /\ [][Next]_vars
-----------------------------------------------------------------------------
(* Properties.                                                             *)

\* The provider never loses hold of a connection: however late the errors of
\* older sessions and requests come, a session that can be used is the one
\* it holds (apns.ts 100-105, 119-128).
NoLeak == \A s \in Sessions : state[s] = "up" => session = s

\* No request is started on a session that takes none, which would throw, or
\* with a JWT older than its lifetime (apns.ts 35, 56-61, 119-134).
StartsWell ==
    [][\A r \in Requests : on[r] = None /\ on'[r] # None =>
            state'[on'[r]] = "up" /\ now < signed'[r] + Ttl]_vars

\* The inductive invariant: what is held or awaited is an object.
IInv == /\ TypeOK
        /\ NoLeak
        /\ session # None => state[session] # "none"
        /\ \A r \in Requests : on[r] # None => state[on[r]] # "none"
        /\ \A s \in raising : state[s] = "destroyed"
        /\ builtAt # None => builtAt <= now
==============================================================================
