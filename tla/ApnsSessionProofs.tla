-------------------------- MODULE ApnsSessionProofs --------------------------
(***************************************************************************)
(* Proofs about ApnsSession, for any number of sessions and of requests    *)
(* under way, any lifetime of the JWT and any bound on the clock.          *)
(***************************************************************************)
EXTENDS ApnsSession, TLAPS

\* What an error listener does keeps the invariant, whichever session or
\* request it belongs to.
LEMMA DropsSessionStep ==
    ASSUME IInv, DropsSession, UNCHANGED <<builtAt, now, signed>>,
           raising' \subseteq raising,
           \/ UNCHANGED on
           \/ \E r \in Requests : on' = [on EXCEPT ![r] = None]
    PROVE  IInv'
  <1> USE ConstantsAssumption DEF IInv, TypeOK, DropsSession, SessionStates
  <1>1. TypeOK'
    OBVIOUS
  <1>2. \A s \in Sessions : state'[s] = IF s = session THEN "destroyed" ELSE state[s]
    OBVIOUS
  <1>3. NoLeak'
    BY <1>2 DEF NoLeak
  <1>4. session' = None
    OBVIOUS
  <1>5. \A r \in Requests : on'[r] # None => state'[on'[r]] # "none"
    BY <1>2
  <1>6. \A s \in raising' : state'[s] = "destroyed"
    BY <1>2
  <1> QED
    BY <1>1, <1>3, <1>4, <1>5, <1>6

\* Every step keeps the invariant.
LEMMA NextIInv == IInv /\ [Next]_vars => IInv'
  <1> SUFFICES ASSUME IInv, [Next]_vars PROVE IInv'
    OBVIOUS
  <1> USE ConstantsAssumption
  <1>1. ASSUME NEW r \in Requests, Send(r) PROVE IInv'
    <2> USE DEF IInv, TypeOK, SessionStates
    <2>1. builtAt' = JwtBuiltAt /\ signed' = [signed EXCEPT ![r] = builtAt']
          /\ UNCHANGED <<raising, now>>
      BY <1>1 DEF Send
    <2>2. builtAt' \in Nat /\ builtAt' <= now'
      BY <2>1 DEF JwtBuiltAt, JwtCached
    <2>3. CASE Usable /\ on' = [on EXCEPT ![r] = session] /\ UNCHANGED <<session, state>>
      BY <2>1, <2>2, <2>3 DEF Usable, NoLeak
    <2>4. ASSUME ~Usable, NEW s \in Sessions, state[s] = "none", session' = s,
                 state' = [state EXCEPT ![s] = "up"], on' = [on EXCEPT ![r] = s]
          PROVE  IInv'
      <3>1. \A u \in Sessions : state[u] # "up"
        BY <2>4 DEF Usable, NoLeak
      <3> QED
        BY <2>1, <2>2, <2>4, <3>1 DEF NoLeak
    <2> QED
      BY <1>1, <2>3, <2>4 DEF Send
  <1>2. ASSUME NEW r \in Requests, RequestEnds(r) PROVE IInv'
    BY <1>2 DEF RequestEnds, IInv, TypeOK, NoLeak
  <1>3. ASSUME NEW r \in Requests, RequestFails(r) PROVE IInv'
    BY <1>3, DropsSessionStep DEF RequestFails
  <1>4. ASSUME NEW s \in Sessions, SessionCloses(s) PROVE IInv'
    BY <1>4 DEF SessionCloses, IInv, TypeOK, SessionStates, NoLeak
  <1>5. ASSUME NEW s \in Sessions, SessionBreaks(s) PROVE IInv'
    BY <1>5 DEF SessionBreaks, IInv, TypeOK, SessionStates, NoLeak
  <1>6. ASSUME NEW s \in Sessions, SessionFails(s) PROVE IInv'
    BY <1>6, DropsSessionStep DEF SessionFails
  <1>7. ASSUME NEW s \in Sessions, SessionForgotten(s) PROVE IInv'
    BY <1>7 DEF SessionForgotten, IInv, TypeOK, SessionStates, NoLeak
  <1>8. CASE Tick
    BY <1>8 DEF Tick, IInv, TypeOK, NoLeak
  <1>9. CASE UNCHANGED vars
    BY <1>9 DEF vars, IInv, TypeOK, NoLeak
  <1> QED
    BY <1>1, <1>2, <1>3, <1>4, <1>5, <1>6, <1>7, <1>8, <1>9 DEF Next

\* The inductive invariant holds in every reachable state.
THEOREM Invariance == Spec => []IInv
  <1>1. Init => IInv
    BY ConstantsAssumption DEF Init, IInv, TypeOK, SessionStates, NoLeak
  <1> QED
    BY <1>1, NextIInv, PTL DEF Spec

\* Every variable has its type in every reachable state.
THEOREM TypeCorrect == Spec => []TypeOK
  <1>1. IInv => TypeOK
    BY DEF IInv
  <1> QED
    BY <1>1, Invariance, PTL

\* The provider never loses hold of a session that can be used, however late
\* and in whatever order the errors of others come (apns.ts 100-105, 119-128).
THEOREM NoSessionLeaks == Spec => []NoLeak
  <1>1. IInv => NoLeak
    BY DEF IInv
  <1> QED
    BY <1>1, Invariance, PTL

\* A request is started on a usable session, with a JWT that is younger than
\* its lifetime (apns.ts 56-61, 119-134).
THEOREM RequestsStartWell == Spec => StartsWell
  <1> DEFINE Starts ==
        \A r \in Requests : on[r] = None /\ on'[r] # None =>
            state'[on'[r]] = "up" /\ now < signed'[r] + Ttl
  <1>1. IInv /\ [Next]_vars => [Starts]_vars
    <2> SUFFICES ASSUME IInv, Next PROVE Starts
      OBVIOUS
    <2> USE ConstantsAssumption DEF IInv, TypeOK
    <2>1. ASSUME NEW r \in Requests, Send(r) PROVE Starts
      <3>1. builtAt' \in Nat /\ now < builtAt' + Ttl
        BY <2>1 DEF Send, JwtBuiltAt, JwtCached
      <3>2. \A q \in Requests : q # r => on'[q] = on[q]
        BY <2>1 DEF Send
      <3>3. state'[on'[r]] = "up"
        BY <2>1 DEF Send, Usable
      <3>4. signed'[r] = builtAt'
        BY <2>1 DEF Send
      <3> QED
        BY <3>1, <3>2, <3>3, <3>4
    <2>2. ASSUME NEW r \in Requests, RequestEnds(r) \/ RequestFails(r) PROVE Starts
      BY <2>2 DEF RequestEnds, RequestFails
    <2>3. CASE UNCHANGED on
      BY <2>3
    <2> QED
      BY <2>1, <2>2, <2>3
         DEF Next, SessionCloses, SessionBreaks, SessionFails, SessionForgotten, Tick
  <1> QED
    BY <1>1, Invariance, PTL DEF Spec, StartsWell
==============================================================================
