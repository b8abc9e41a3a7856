------------------------ MODULE SubagentRuntimeProofs ------------------------
(***************************************************************************)
(* Proofs about SubagentRuntime, for any number of sessions, conversations *)
(* and calls under way and any number of restarts.                         *)
(*                                                                         *)
(* The argument: whatever the plugin holds was once the bridge's answer    *)
(* for that session, and the bridge never changes a key.  So two           *)
(* conversations known for one session have the same key, and the bridge   *)
(* has at most one open conversation with a key.                           *)
(***************************************************************************)
EXTENDS SubagentRuntime, TLAPS

\* The key of whatever the plugin holds about a session is that session.
HeldInv ==
    /\ \A k \in Sessions : cache[k] # None => key[cache[k]] = k
    /\ \A k \in Sessions : bySession[k] # None => key[bySession[k]] = k
    /\ \A k \in Sessions : origin[k] # None => key[origin[k]] = k
    /\ \A c \in Conversations : byConversation[c] # None => key[c] = byConversation[c]
    /\ \A x \in Calls : call[x].conv # None => key[call[x].conv] = call[x].session

\* HeldInv says of each variable what NoSplit says of Known.
LEMMA KnownKeys ==
    ASSUME TypeOK, KeyInv
    PROVE  HeldInv <=> \A k \in Sessions : \A c \in Known(k) : key[c] = k
  <1> USE ConstantsAssumption DEF TypeOK
  <1>0. \A x \in Calls : call[x] \in CallRecords
    OBVIOUS
  <1>1. ASSUME HeldInv, NEW k \in Sessions, NEW c \in Known(k) PROVE key[c] = k
    BY <1>0, <1>1 DEF HeldInv, Known, CallRecords
  <1>2. ASSUME \A k \in Sessions : \A c \in Known(k) : key[c] = k PROVE HeldInv
    <2>1. \A k \in Sessions : cache[k] # None => key[cache[k]] = k
      BY <1>2 DEF Known
    <2>2. \A k \in Sessions : bySession[k] # None => key[bySession[k]] = k
      BY <1>2 DEF Known
    <2>3. \A k \in Sessions : origin[k] # None => key[origin[k]] = k
      BY <1>2 DEF Known
    <2>4. \A c \in Conversations : byConversation[c] # None => key[c] = byConversation[c]
      BY <1>2 DEF Known
    <2>5. \A x \in Calls : call[x].conv # None => key[call[x].conv] = call[x].session
      BY <1>0, <1>2 DEF Known, CallRecords, KeyInv
    <2> QED
      BY <2>1, <2>2, <2>3, <2>4, <2>5 DEF HeldInv
  <1> QED
    BY <1>1, <1>2

\* Everything known is a conversation.
LEMMA KnownType ==
    ASSUME TypeOK, NEW k \in Sessions PROVE Known(k) \subseteq Conversations
  BY DEF TypeOK, Known, CallRecords

\* What is left to prove of a step, and what may be assumed before it.
Core == TypeOK /\ HeldInv /\ BoundBothWays /\ ReadyUnlessLost /\ KeyInv

\* Two open conversations of one key are the same, so NoSplit follows.
LEMMA CoreIsEnough == Core <=> IInv
  <1>1. ASSUME IInv PROVE Core
    BY <1>1, KnownKeys DEF IInv, Core, NoSplit
  <1>2. ASSUME Core PROVE IInv
    <2>1. \A k \in Sessions : \A c \in Known(k) : key[c] = k
      BY <1>2, KnownKeys DEF Core
    <2>2. \A k \in Sessions : \A c, d \in Known(k) : c = d \/ c \in deleted \/ d \in deleted
      BY <1>2, <2>1, KnownType, ConstantsAssumption DEF Core, KeyInv, Open
    <2> QED
      BY <1>2, <2>1, <2>2 DEF Core, IInv, NoSplit
  <1> QED
    BY <1>1, <1>2

\* Entering conversation c for session k in both maps keeps them right.
LEMMA BindStep ==
    ASSUME Core, NEW k \in Sessions, NEW c \in Conversations, key[c] = k, Bind(k, c)
    PROVE  /\ bySession' \in [Sessions -> Conversations \cup {None}]
           /\ byConversation' \in [Conversations -> Sessions \cup {None}]
           /\ lost' \subseteq Sessions
           /\ \A j \in Sessions : bySession'[j] # None => key[bySession'[j]] = j
           /\ \A d \in Conversations : byConversation'[d] # None => key[d] = byConversation'[d]
           /\ \A j \in Sessions : bySession'[j] # None => byConversation'[bySession'[j]] = j
           /\ bySession'[k] # None
           /\ \A j \in Sessions : j # k => bySession'[j] = bySession[j] /\ (j \in lost' <=> j \in lost)
  BY ConstantsAssumption DEF Core, Bind, TypeOK, HeldInv, BoundBothWays

\* Every step keeps the core.
LEMMA NextCore == Core /\ [Next]_vars => Core'
  <1> SUFFICES ASSUME Core, [Next]_vars PROVE Core'
    OBVIOUS
  <1> USE ConstantsAssumption
  <1>0. TypeOK /\ HeldInv /\ BoundBothWays /\ ReadyUnlessLost /\ KeyInv
    BY DEF Core
  <1>1. CASE Start
    <2>1. TypeOK'
      BY <1>0, <1>1 DEF Start, bridgeVars, TypeOK, Unbound, Unresolved
    <2>2. HeldInv' /\ BoundBothWays' /\ ReadyUnlessLost' /\ KeyInv'
      BY <1>0, <1>1 DEF Start, bridgeVars, TypeOK, Unbound, Unresolved, HeldInv, BoundBothWays,
                        ReadyUnlessLost, KeyInv, Open
    <2> QED
      BY <2>1, <2>2 DEF Core
  <1>2. CASE Stop
    <2>1. TypeOK'
      BY <1>0, <1>2 DEF Stop, bridgeVars, TypeOK, Unbound, Unresolved
    <2>2. HeldInv' /\ BoundBothWays' /\ ReadyUnlessLost' /\ KeyInv'
      BY <1>0, <1>2 DEF Stop, bridgeVars, TypeOK, Unbound, Unresolved, HeldInv, BoundBothWays,
                        ReadyUnlessLost, KeyInv, Open
    <2> QED
      BY <2>1, <2>2 DEF Core
  <1>3. CASE LoseTurns
    BY <1>0, <1>3 DEF LoseTurns, bridgeVars, adapterVars, Core, TypeOK, HeldInv, BoundBothWays,
                      ReadyUnlessLost, KeyInv, Open
  <1>4. ASSUME NEW k \in Sessions, HookFromCache(k) PROVE Core'
    <2>1. TypeOK' /\ HeldInv'
      BY <1>0, <1>4 DEF HookFromCache, bridgeVars, adapterVars, TypeOK, HeldInv
    <2> QED
      BY <1>0, <1>4, <2>1 DEF HookFromCache, bridgeVars, adapterVars, Core, BoundBothWays,
                              ReadyUnlessLost, KeyInv, Open
  <1>5. ASSUME NEW k \in Sessions, Unbind(k) PROVE Core'
    <2>1. TypeOK'
      BY <1>0, <1>5 DEF Unbind, bridgeVars, TypeOK
    <2>2. HeldInv' /\ KeyInv'
      BY <1>0, <1>5 DEF Unbind, bridgeVars, TypeOK, HeldInv, KeyInv, Open
    <2>3. BoundBothWays'
      BY <1>0, <1>5, <2>2 DEF Unbind, bridgeVars, TypeOK, HeldInv, BoundBothWays
    <2>4. ReadyUnlessLost'
      BY <1>0, <1>5 DEF Unbind, TypeOK, ReadyUnlessLost
    <2> QED
      BY <2>1, <2>2, <2>3, <2>4 DEF Core
  <1>6. ASSUME NEW x \in Calls, NEW k \in Sessions, HookAsks(x, k) \/ BindAsks(x, k) PROVE Core'
    <2>1. PICK op \in {"hook", "bind"} :
            /\ call' = [call EXCEPT ![x] =
                          [op |-> op, session |-> k, conv |-> None, life |-> runtime]]
            /\ UNCHANGED <<bridgeVars, runtime, starts, cache, adapterVars, turns, origin>>
      BY <1>6 DEF HookAsks, BindAsks
    <2>2. TypeOK'
      BY <1>0, <2>1 DEF bridgeVars, adapterVars, TypeOK, CallRecords
    <2>3. \A y \in Calls : call'[y] = IF y = x THEN
            [op |-> op, session |-> k, conv |-> None, life |-> runtime] ELSE call[y]
      BY <1>0, <2>1 DEF TypeOK
    <2> QED
      BY <1>0, <2>1, <2>2, <2>3 DEF bridgeVars, adapterVars, Core, HeldInv, BoundBothWays,
                              ReadyUnlessLost, KeyInv, Open
  <1>7. ASSUME NEW x \in Calls, CallFails(x) PROVE Core'
    <2>1. TypeOK'
      BY <1>0, <1>7 DEF CallFails, bridgeVars, adapterVars, TypeOK, CallRecords, NoCall
    <2>2. \A y \in Calls : call'[y] = IF y = x THEN NoCall ELSE call[y]
      BY <1>0, <1>7 DEF CallFails, TypeOK
    <2> QED
      BY <1>0, <1>7, <2>1, <2>2 DEF CallFails, NoCall, bridgeVars, adapterVars, Core, HeldInv,
                              BoundBothWays, ReadyUnlessLost, KeyInv, Open
  <1>8. ASSUME NEW x \in Calls, HookResumes(x) PROVE Core'
    <2> DEFINE k == call[x].session
               c == call[x].conv
    <2>0. k \in Sessions /\ c \in Conversations /\ key[c] = k
      BY <1>0, <1>8 DEF HookResumes, TypeOK, CallRecords, HeldInv, KeyInv
    <2>1. /\ cache' = [cache EXCEPT ![k] = c]
          /\ call' = [call EXCEPT ![x] = NoCall]
          /\ UNCHANGED <<key, deleted, runtime, starts, turns>>
          /\ \/ runtime # 0 /\ Bind(k, c) /\ origin' = [origin EXCEPT ![k] = c]
             \/ runtime = 0 /\ UNCHANGED <<bySession, byConversation, lost, origin>>
      BY <1>8 DEF HookResumes, bridgeVars, adapterVars
    <2> HIDE DEF k, c
    <2>2. /\ bySession' \in [Sessions -> Conversations \cup {None}]
          /\ byConversation' \in [Conversations -> Sessions \cup {None}]
          /\ lost' \subseteq Sessions
          /\ \A j \in Sessions : bySession'[j] # None => key[bySession'[j]] = j
          /\ \A d \in Conversations : byConversation'[d] # None => key[d] = byConversation'[d]
          /\ BoundBothWays'
          /\ ReadyUnlessLost'
      <3>1. CASE runtime = 0
        BY <1>0, <2>1, <3>1 DEF TypeOK, HeldInv, BoundBothWays, ReadyUnlessLost
      <3>2. CASE runtime # 0
        BY <1>0, <2>0, <2>1, <3>2, BindStep DEF TypeOK, BoundBothWays, ReadyUnlessLost
      <3> QED
        BY <3>1, <3>2
    <2>3. \A y \in Calls : call'[y] = IF y = x THEN NoCall ELSE call[y]
      BY <1>0, <2>1 DEF TypeOK
    <2>4. TypeOK'
      <3>1. call' \in [Calls -> CallRecords]
        BY <1>0, <2>1 DEF TypeOK, CallRecords, NoCall
      <3>2. cache' \in [Sessions -> Conversations \cup {None}]
            /\ origin' \in [Sessions -> Conversations \cup {None}]
        BY <1>0, <2>0, <2>1 DEF TypeOK
      <3> QED
        BY <1>0, <2>1, <2>2, <3>1, <3>2 DEF TypeOK
    <2>5. HeldInv'
      <3>1. \A j \in Sessions : cache'[j] # None => key[cache'[j]] = j
        BY <1>0, <2>0, <2>1 DEF TypeOK, HeldInv
      <3>2. \A j \in Sessions : origin'[j] # None => key[origin'[j]] = j
        BY <1>0, <2>0, <2>1 DEF TypeOK, HeldInv
      <3>3. \A y \in Calls : call'[y].conv # None => key[call'[y].conv] = call'[y].session
        BY <1>0, <2>3 DEF HeldInv, NoCall
      <3> QED
        BY <2>1, <2>2, <3>1, <3>2, <3>3 DEF HeldInv
    <2>6. KeyInv'
      BY <1>0, <2>1, <2>3 DEF KeyInv, Open, NoCall
    <2> QED
      BY <2>2, <2>4, <2>5, <2>6 DEF Core
  <1>9. ASSUME NEW x \in Calls, BindResumes(x) PROVE Core'
    <2> DEFINE k == call[x].session
               c == call[x].conv
    <2>0. k \in Sessions /\ c \in Conversations /\ key[c] = k
      BY <1>0, <1>9 DEF BindResumes, TypeOK, CallRecords, HeldInv, KeyInv
    <2>1. /\ call' = [call EXCEPT ![x] = NoCall]
          /\ UNCHANGED <<key, deleted, runtime, starts, cache, turns, origin>>
          /\ \/ Bind(k, c)
             \/ UNCHANGED <<bySession, byConversation, lost>>
      BY <1>9 DEF BindResumes, bridgeVars, adapterVars
    <2> HIDE DEF k, c
    <2>2. /\ bySession' \in [Sessions -> Conversations \cup {None}]
          /\ byConversation' \in [Conversations -> Sessions \cup {None}]
          /\ lost' \subseteq Sessions
          /\ \A j \in Sessions : bySession'[j] # None => key[bySession'[j]] = j
          /\ \A d \in Conversations : byConversation'[d] # None => key[d] = byConversation'[d]
          /\ BoundBothWays'
          /\ ReadyUnlessLost'
      <3>1. CASE UNCHANGED <<bySession, byConversation, lost>>
        BY <1>0, <2>1, <3>1 DEF TypeOK, HeldInv, BoundBothWays, ReadyUnlessLost
      <3>2. CASE Bind(k, c)
        BY <1>0, <2>0, <2>1, <3>2, BindStep DEF TypeOK, BoundBothWays, ReadyUnlessLost
      <3> QED
        BY <2>1, <3>1, <3>2
    <2>3. \A y \in Calls : call'[y] = IF y = x THEN NoCall ELSE call[y]
      BY <1>0, <2>1 DEF TypeOK
    <2>4. TypeOK'
      <3>1. call' \in [Calls -> CallRecords]
        BY <1>0, <2>1 DEF TypeOK, CallRecords, NoCall
      <3> QED
        BY <1>0, <2>1, <2>2, <3>1 DEF TypeOK
    <2>5. HeldInv' /\ KeyInv'
      BY <1>0, <2>1, <2>2, <2>3 DEF HeldInv, KeyInv, Open, NoCall
    <2> QED
      BY <2>2, <2>4, <2>5 DEF Core
  <1>10. ASSUME NEW x \in Calls, NEW c \in Conversations, BridgeAnswers(x, c) PROVE Core'
    <2> DEFINE k == call[x].session
    <2>0. k \in Sessions
      BY <1>0, <1>10 DEF BridgeAnswers, TypeOK, CallRecords, KeyInv
    <2>1. /\ call' = [call EXCEPT ![x].conv = c]
          /\ call[x].op # "none"
          /\ UNCHANGED <<deleted, runtime, starts, cache, bySession, byConversation, lost,
                         turns, origin>>
          /\ \/ key[c] = k /\ UNCHANGED key
             \/ /\ key[c] = None
                /\ \A d \in Conversations : Open(d) => key[d] # k
                /\ key' = [key EXCEPT ![c] = k]
      BY <1>10 DEF BridgeAnswers, FindOrCreate, bridgeVars, adapterVars
    <2>2. /\ \A y \in Calls : y # x => call'[y] = call[y]
          /\ call'[x].op = call[x].op /\ call'[x].session = k /\ call'[x].conv = c
          /\ call' \in [Calls -> CallRecords]
      BY <1>0, <2>1 DEF TypeOK, CallRecords
    <2> HIDE DEF k
    <2>3. /\ key' \in [Conversations -> Sessions \cup {None}]
          /\ key'[c] = k
          /\ \A d \in Conversations : d # c \/ key[d] # None => key'[d] = key[d]
      BY <1>0, <2>0, <2>1 DEF TypeOK
    <2>4. TypeOK'
      BY <1>0, <2>1, <2>2, <2>3 DEF TypeOK
    <2>5. HeldInv'
      <3>1. \A y \in Calls : call'[y].conv # None => key'[call'[y].conv] = call'[y].session
        BY <1>0, <2>1, <2>2, <2>3 DEF TypeOK, HeldInv, KeyInv, CallRecords
      <3> QED
        BY <1>0, <2>1, <2>3, <3>1 DEF TypeOK, HeldInv
    <2>6. BoundBothWays' /\ ReadyUnlessLost'
      BY <1>0, <2>1, <2>3 DEF TypeOK, BoundBothWays, ReadyUnlessLost
    <2>7. KeyInv'
      <3>1. \A y \in Calls : (call'[y].op # "none" => call'[y].session # None)
                             /\ (call'[y].op = "none" => call'[y].conv = None)
        BY <1>0, <2>0, <2>1, <2>2 DEF KeyInv
      <3>2. \A d, e \in Conversations : Open(d)' /\ Open(e)' /\ key'[d] = key'[e] => d = e
        BY <1>0, <2>0, <2>1, <2>3 DEF KeyInv, Open
      <3>3. \A d \in Conversations : key[d] # None => key'[d] # None
        BY <2>3
      <3> QED
        BY <1>0, <2>1, <3>1, <3>2, <3>3 DEF KeyInv, TypeOK
    <2> QED
      BY <2>4, <2>5, <2>6, <2>7 DEF Core
  <1>11. ASSUME NEW c \in Conversations, AppWrites(c) PROVE Core'
    BY <1>0, <1>11 DEF AppWrites, bridgeVars, adapterVars, Core, TypeOK, HeldInv, BoundBothWays,
                       ReadyUnlessLost, KeyInv, Open
  <1>12. ASSUME NEW c \in Conversations, InboundMessage(c) PROVE Core'
    <2>0. key[c] \in Sessions
      BY <1>0, <1>12 DEF InboundMessage, TypeOK, KeyInv
    <2>1. /\ turns' = turns \ {c}
          /\ UNCHANGED <<key, deleted, runtime, starts, cache, call, origin>>
          /\ Bind(key[c], c) \/ UNCHANGED <<bySession, byConversation, lost>>
      BY <1>12 DEF InboundMessage, bridgeVars, adapterVars
    <2>2. /\ bySession' \in [Sessions -> Conversations \cup {None}]
          /\ byConversation' \in [Conversations -> Sessions \cup {None}]
          /\ lost' \subseteq Sessions
          /\ \A j \in Sessions : bySession'[j] # None => key[bySession'[j]] = j
          /\ \A d \in Conversations : byConversation'[d] # None => key[d] = byConversation'[d]
          /\ BoundBothWays'
          /\ ReadyUnlessLost'
      <3>1. CASE UNCHANGED <<bySession, byConversation, lost>>
        BY <1>0, <2>1, <3>1 DEF TypeOK, HeldInv, BoundBothWays, ReadyUnlessLost
      <3>2. CASE Bind(key[c], c)
        BY <1>0, <2>0, <2>1, <3>2, BindStep DEF TypeOK, BoundBothWays, ReadyUnlessLost
      <3> QED
        BY <2>1, <3>1, <3>2
    <2> QED
      BY <1>0, <2>1, <2>2 DEF Core, TypeOK, HeldInv, KeyInv, Open
  <1>13. ASSUME NEW c \in Conversations, DeleteConversation(c) PROVE Core'
    BY <1>0, <1>13 DEF DeleteConversation, adapterVars, Core, TypeOK, HeldInv, BoundBothWays,
                       ReadyUnlessLost, KeyInv, Open
  <1>14. CASE UNCHANGED vars
    BY <1>0, <1>14 DEF vars, bridgeVars, adapterVars, Core, TypeOK, HeldInv, BoundBothWays,
                       ReadyUnlessLost, KeyInv, Open
  <1> QED
    BY <1>1, <1>2, <1>3, <1>4, <1>5, <1>6, <1>7, <1>8, <1>9, <1>10, <1>11, <1>12, <1>13, <1>14
    DEF Next

\* The inductive invariant holds in every reachable state.
THEOREM Invariance == Spec => []IInv
  <1>1. Init => Core
    BY ConstantsAssumption DEF Init, Core, TypeOK, HeldInv, BoundBothWays, ReadyUnlessLost,
       KeyInv, Unbound, Unresolved, NoCall, CallRecords, Open
  <1>2. Core => IInv
    BY CoreIsEnough
  <1> QED
    BY <1>1, <1>2, NextCore, PTL DEF Spec

\* Every variable has its type in every reachable state.
THEOREM TypeCorrect == Spec => []TypeOK
  <1>1. IInv => TypeOK
    BY DEF IInv
  <1> QED
    BY <1>1, Invariance, PTL

\* One session is never split over two threads of the app, whatever hooks,
\* binds, turns, failures and restarts race (runtime.ts 121-135,
\* binding-adapter.ts 60-135, db.ts 326-329).
THEOREM SessionsStayWhole == Spec => []NoSplit
  <1>1. IInv => NoSplit
    BY DEF IInv
  <1> QED
    BY <1>1, Invariance, PTL

\* The two maps of the adapter agree on every session that is bound
\* (binding-adapter.ts 99-100, 129-130, 162-172).
THEOREM RoutesBackAndForth == Spec => []BoundBothWays
  <1>1. IInv => BoundBothWays
    BY DEF IInv
  <1> QED
    BY <1>1, Invariance, PTL

\* A cached session without a binding was materialised before the active
\* runtime or unbound in it (runtime.ts 121-135, index.ts 67).
THEOREM CachedIsBound == Spec => []ReadyUnlessLost
  <1>1. IInv => ReadyUnlessLost
    BY DEF IInv
  <1> QED
    BY <1>1, Invariance, PTL
-----------------------------------------------------------------------------
(* SubagentRuntime implements SessionThreads.                              *)

\* Where a conversation that is heard of for a session can be found.
HeardBy(k, c) ==
    \/ cache[k] = c
    \/ bySession[k] = c
    \/ origin[k] = c
    \/ byConversation[c] = k
    \/ \E x \in Calls : call[x].session = k /\ call[x].conv = c
    \/ c \in turns /\ key[c] = k

\* Heard is a set of conversations, those of HeardBy.
HeardIsHeardBy ==
    \A k \in Sessions : /\ Heard(k) \subseteq Conversations
                        /\ \A c \in Conversations : c \in Heard(k) <=> HeardBy(k, c)

LEMMA HeardIs == TypeOK => HeardIsHeardBy
  <1> SUFFICES ASSUME TypeOK, NEW k \in Sessions
               PROVE  /\ Heard(k) \subseteq Conversations
                      /\ \A c \in Conversations : c \in Heard(k) <=> HeardBy(k, c)
    BY DEF HeardIsHeardBy
  <1>1. Heard(k) \subseteq Conversations
    BY KnownType DEF Heard, TypeOK
  <1>2. ASSUME NEW c \in Conversations PROVE c \in Heard(k) <=> HeardBy(k, c)
    BY ConstantsAssumption DEF Heard, Known, HeardBy
  <1> QED
    BY <1>1, <1>2

\* A step that makes only the open conversation of one session heard of.
LEMMA LearnRefines ==
    ASSUME TypeOK, TypeOK', NEW k \in Sessions, UNCHANGED <<key, deleted>>,
           \A j \in Sessions, c \in Conversations :
                HeardBy(j, c)' => HeardBy(j, c) \/ (j = k /\ key[c] = k /\ c \notin deleted)
    PROVE  Threads!Learn(k)
  <1>1. HeardIsHeardBy /\ HeardIsHeardBy'
    BY HeardIs, PTL
  <1>2. [j \in Sessions |-> Heard(j)'] \in [Sessions -> SUBSET Conversations]
    BY <1>1 DEF HeardIsHeardBy
  <1>3. \A j \in Sessions : Heard(j)' \subseteq Heard(j) \cup
            (IF j = k THEN {c \in Conversations : key[c] = k /\ c \notin deleted} ELSE {})
    BY <1>1 DEF HeardIsHeardBy
  <1> QED
    BY <1>2, <1>3 DEF Threads!Learn, Threads!Learns, Threads!Live

\* A step that makes nothing heard of.
LEMMA ForgetRefines ==
    ASSUME TypeOK, TypeOK', UNCHANGED <<key, deleted>>,
           \A j \in Sessions, c \in Conversations : HeardBy(j, c)' => HeardBy(j, c)
    PROVE  [Threads!Next]_Threads!threadVars
  <1>1. CASE Sessions = {}
    BY <1>1 DEF Threads!threadVars
  <1>2. ASSUME NEW k \in Sessions PROVE Threads!Next
    BY LearnRefines, <1>2 DEF Threads!Next
  <1> QED
    BY <1>1, <1>2

\* The bridge's answer makes a conversation of the session heard of: the open
\* one, or a new one if there is none.
LEMMA AnswerRefines ==
    ASSUME IInv, TypeOK', NEW x \in Calls, NEW c \in Conversations, BridgeAnswers(x, c)
    PROVE  \E k \in Sessions : Threads!Learn(k) \/ Threads!Open(k, c)
  <1> DEFINE k == call[x].session
  <1>0. TypeOK /\ KeyInv
    BY DEF IInv
  <1>1. k \in Sessions
    BY <1>0, ConstantsAssumption DEF BridgeAnswers, TypeOK, CallRecords, KeyInv
  <1>2. /\ call' = [call EXCEPT ![x].conv = c]
        /\ UNCHANGED <<deleted, cache, bySession, byConversation, turns, origin>>
    BY DEF BridgeAnswers, adapterVars
  <1>3. \A y \in Calls : /\ call'[y].session = call[y].session
                         /\ call'[y].conv = IF y = x THEN c ELSE call[y].conv
    BY <1>0, <1>2 DEF TypeOK, CallRecords
  <1> HIDE DEF k
  <1>4. CASE key[c] = k /\ Open(c) /\ UNCHANGED key
    <2>1. \A j \in Sessions, d \in Conversations :
            HeardBy(j, d)' => HeardBy(j, d) \/ (j = k /\ key[d] = k /\ d \notin deleted)
      BY <1>2, <1>3, <1>4 DEF HeardBy, Open, k
    <2> QED
      BY <1>0, <1>1, <1>2, <1>4, <2>1, LearnRefines
  <1>5. CASE /\ key[c] = None
             /\ \A d \in Conversations : Open(d) => key[d] # k
             /\ key' = [key EXCEPT ![c] = k]
    <2>1. \A j \in Sessions, d \in Conversations :
            HeardBy(j, d)' => HeardBy(j, d) \/ (j = k /\ d = c)
      BY <1>0, <1>2, <1>3, <1>5 DEF HeardBy, TypeOK, KeyInv, k
    <2>2. HeardIsHeardBy /\ HeardIsHeardBy'
      BY <1>0, HeardIs, PTL
    <2>3. [j \in Sessions |-> Heard(j)'] \in [Sessions -> SUBSET Conversations]
      BY <2>2 DEF HeardIsHeardBy
    <2>4. \A j \in Sessions : Heard(j)' \subseteq Heard(j) \cup (IF j = k THEN {c} ELSE {})
      BY <2>1, <2>2 DEF HeardIsHeardBy
    <2>5. {d \in Conversations : key[d] = k /\ d \notin deleted} = {}
      BY <1>1, <1>5, ConstantsAssumption DEF Open
    <2> QED
      BY <1>1, <1>2, <1>5, <2>3, <2>4, <2>5 DEF Threads!Open, Threads!Learns, Threads!Live
  <1> QED
    BY <1>1, <1>4, <1>5 DEF BridgeAnswers, FindOrCreate, k

\* What a call still knows may be entered in both maps.
LEMMA BindHears ==
    ASSUME TypeOK, NEW k \in Sessions, NEW c \in Conversations, HeardBy(k, c), Bind(k, c)
    PROVE  \A j \in Sessions, d \in Conversations :
                bySession'[j] = d \/ byConversation'[d] = j => HeardBy(j, d)
  <1>1. \A j \in Sessions : bySession'[j] = IF j = k THEN c ELSE bySession[j]
    BY DEF Bind, TypeOK
  <1>2. \A d \in Conversations : byConversation'[d] = IF d = c THEN k ELSE byConversation[d]
    BY DEF Bind, TypeOK
  <1> QED
    BY <1>1, <1>2 DEF HeardBy

\* A step that changes neither keys nor deletions makes nothing heard of,
\* except the app's own writing.
LEMMA PluginHears ==
    ASSUME IInv, Next, UNCHANGED <<key, deleted>>,
           ~ \E c \in Conversations : AppWrites(c) \/ \E x \in Calls : BridgeAnswers(x, c)
    PROVE  \A j \in Sessions, d \in Conversations : HeardBy(j, d)' => HeardBy(j, d)
  <1> USE ConstantsAssumption
  <1>0. TypeOK /\ KeyInv
    BY DEF IInv
  <1>1. ASSUME Start \/ Stop \/ LoseTurns
        PROVE  \A j \in Sessions, d \in Conversations : HeardBy(j, d)' => HeardBy(j, d)
    BY <1>1 DEF Start, Stop, LoseTurns, Unbound, Unresolved, adapterVars, HeardBy
  <1>2. ASSUME NEW k \in Sessions, HookFromCache(k) \/ Unbind(k)
        PROVE  \A j \in Sessions, d \in Conversations : HeardBy(j, d)' => HeardBy(j, d)
    BY <1>0, <1>2 DEF HookFromCache, Unbind, adapterVars, HeardBy, TypeOK
  <1>3. ASSUME NEW x \in Calls, NEW k \in Sessions, HookAsks(x, k) \/ BindAsks(x, k)
        PROVE  \A j \in Sessions, d \in Conversations : HeardBy(j, d)' => HeardBy(j, d)
    <2>1. \A y \in Calls : y # x => call'[y] = call[y]
      BY <1>0, <1>3 DEF HookAsks, BindAsks, TypeOK
    <2>2. call'[x].conv = None
      BY <1>0, <1>3 DEF HookAsks, BindAsks, TypeOK
    <2> QED
      BY <1>3, <2>1, <2>2 DEF HookAsks, BindAsks, adapterVars, HeardBy
  <1>4. ASSUME NEW x \in Calls, CallFails(x) \/ HookResumes(x) \/ BindResumes(x)
        PROVE  \A j \in Sessions, d \in Conversations : HeardBy(j, d)' => HeardBy(j, d)
    <2> DEFINE k == call[x].session
               c == call[x].conv
    <2>1. \A y \in Calls : call'[y] = IF y = x THEN NoCall ELSE call[y]
      BY <1>0, <1>4 DEF CallFails, HookResumes, BindResumes, TypeOK
    <2>2. \A j \in Sessions, d \in Conversations :
            (\E y \in Calls : call'[y].session = j /\ call'[y].conv = d) => HeardBy(j, d)
      BY <2>1 DEF NoCall, HeardBy
    <2>3. CASE CallFails(x)
      BY <2>2, <2>3 DEF CallFails, adapterVars, HeardBy
    <2>4. ASSUME HookResumes(x) \/ BindResumes(x)
          PROVE  \A j \in Sessions, d \in Conversations : HeardBy(j, d)' => HeardBy(j, d)
      <3>1. k \in Sessions /\ c \in Conversations /\ HeardBy(k, c)
        BY <1>0, <2>4 DEF HookResumes, BindResumes, TypeOK, CallRecords, KeyInv, HeardBy
      <3>2. Bind(k, c) \/ UNCHANGED <<bySession, byConversation>>
        BY <2>4 DEF HookResumes, BindResumes, adapterVars
      <3>3. /\ cache' = [cache EXCEPT ![k] = c] \/ UNCHANGED cache
            /\ origin' = [origin EXCEPT ![k] = c] \/ UNCHANGED origin
            /\ UNCHANGED <<turns, key>>
        BY <2>4 DEF HookResumes, BindResumes, bridgeVars
      <3> HIDE DEF k, c
      <3>4. \A j \in Sessions, d \in Conversations :
                bySession'[j] = d \/ byConversation'[d] = j => HeardBy(j, d)
        <4>1. CASE Bind(k, c)
          BY <1>0, <3>1, <4>1, BindHears
        <4>2. CASE UNCHANGED <<bySession, byConversation>>
          BY <4>2 DEF HeardBy
        <4> QED
          BY <3>2, <4>1, <4>2
      <3>5. \A j \in Sessions, d \in Conversations : cache'[j] = d => HeardBy(j, d)
        BY <1>0, <3>1, <3>3 DEF TypeOK, HeardBy
      <3>6. \A j \in Sessions, d \in Conversations : origin'[j] = d => HeardBy(j, d)
        BY <1>0, <3>1, <3>3 DEF TypeOK, HeardBy
      <3>7. \A j \in Sessions, d \in Conversations : d \in turns' /\ key'[d] = j => HeardBy(j, d)
        BY <3>3 DEF HeardBy
      <3> QED
        BY <2>2, <3>4, <3>5, <3>6, <3>7 DEF HeardBy
    <2> QED
      BY <1>4, <2>3, <2>4
  <1>5. ASSUME NEW c \in Conversations, InboundMessage(c)
        PROVE  \A j \in Sessions, d \in Conversations : HeardBy(j, d)' => HeardBy(j, d)
    <2>1. key[c] \in Sessions /\ HeardBy(key[c], c)
      BY <1>0, <1>5 DEF InboundMessage, TypeOK, KeyInv, HeardBy
    <2>2. Bind(key[c], c) \/ UNCHANGED <<bySession, byConversation>>
      BY <1>5 DEF InboundMessage, adapterVars
    <2>3. \A j \in Sessions, d \in Conversations :
              bySession'[j] = d \/ byConversation'[d] = j => HeardBy(j, d)
      <3>1. CASE Bind(key[c], c)
        BY <1>0, <2>1, <3>1, BindHears
      <3>2. CASE UNCHANGED <<bySession, byConversation>>
        BY <3>2 DEF HeardBy
      <3> QED
        BY <2>2, <3>1, <3>2
    <2> QED
      BY <1>5, <2>3 DEF InboundMessage, bridgeVars, HeardBy
  <1>6. ASSUME NEW c \in Conversations, DeleteConversation(c) PROVE FALSE
    BY <1>6 DEF DeleteConversation, Open
  <1> QED
    BY <1>1, <1>2, <1>3, <1>4, <1>5, <1>6 DEF Next

\* Every step of the plugin and the bridge is one of SessionThreads, or
\* changes nothing there.
LEMMA NextRefines ==
    IInv /\ TypeOK' /\ [Next]_vars => [Threads!Next]_Threads!threadVars
  <1> SUFFICES ASSUME IInv, TypeOK', [Next]_vars
               PROVE  [Threads!Next]_Threads!threadVars
    OBVIOUS
  <1>0. TypeOK /\ KeyInv
    BY DEF IInv
  <1>1. ASSUME NEW c \in Conversations, NEW x \in Calls, BridgeAnswers(x, c)
        PROVE  Threads!Next
    BY <1>1, AnswerRefines DEF Threads!Next
  <1>2. ASSUME NEW c \in Conversations, AppWrites(c) PROVE Threads!Next
    <2>1. key[c] \in Sessions /\ c \notin deleted
      BY <1>0, <1>2 DEF AppWrites, Open, TypeOK
    <2>2. /\ turns' = turns \cup {c}
          /\ UNCHANGED <<key, deleted, cache, bySession, byConversation, call, origin>>
      BY <1>2 DEF AppWrites, bridgeVars, adapterVars
    <2>3. \A j \in Sessions, d \in Conversations :
            HeardBy(j, d)' =>
                HeardBy(j, d) \/ (j = key[c] /\ key[d] = key[c] /\ d \notin deleted)
      BY <2>1, <2>2 DEF HeardBy
    <2>4. Threads!Learn(key[c])
      BY <1>0, <2>1, <2>2, <2>3, LearnRefines
    <2> QED
      BY <2>1, <2>4 DEF Threads!Next
  <1>3. ASSUME NEW c \in Conversations, DeleteConversation(c) PROVE Threads!Next
    <2>1. \A j \in Sessions : Heard(j)' = Heard(j)
      BY <1>3 DEF DeleteConversation, adapterVars, Heard, Known
    <2>2. [j \in Sessions |-> Heard(j)'] = [j \in Sessions |-> Heard(j)]
      BY <2>1
    <2> QED
      BY <1>3, <2>2 DEF DeleteConversation, Open, Threads!Close, Threads!Next
  <1>4. CASE UNCHANGED vars
    BY <1>4 DEF vars, Threads!threadVars, Heard, Known
  <1>5. CASE /\ Next
             /\ ~ \E c \in Conversations :
                    \/ AppWrites(c) \/ DeleteConversation(c)
                    \/ \E x \in Calls : BridgeAnswers(x, c)
    <2>1. UNCHANGED <<key, deleted>>
      BY <1>5 DEF Next, Start, Stop, LoseTurns, HookFromCache, Unbind, HookAsks, BindAsks,
                  CallFails, HookResumes, BindResumes, InboundMessage, bridgeVars
    <2>2. \A j \in Sessions, d \in Conversations : HeardBy(j, d)' => HeardBy(j, d)
      BY <1>5, <2>1, PluginHears
    <2> QED
      BY <1>0, <2>1, <2>2, ForgetRefines
  <1> QED
    BY <1>1, <1>2, <1>3, <1>4, <1>5

\* The plugin and the bridge implement SessionThreads: a session has one open
\* conversation, and nothing late makes a deleted one known (runtime.ts
\* 121-135, binding-adapter.ts 60-135, db.ts 326-329).
THEOREM Refinement == Spec => ImplementsThreads
  <1>1. Init => Threads!Init
    <2> SUFFICES ASSUME Init PROVE Threads!Init
      OBVIOUS
    <2>1. \A k \in Sessions : Heard(k) = {}
      BY ConstantsAssumption DEF Init, Heard, Known, Unbound, Unresolved, NoCall
    <2> QED
      BY <2>1 DEF Init, Unresolved, Threads!Init
  <1>2. IInv /\ TypeOK' /\ [Next]_vars => [Threads!Next]_Threads!threadVars
    BY NextRefines
  <1> QED
    BY <1>1, <1>2, Invariance, TypeCorrect, PTL DEF Spec, ImplementsThreads, Threads!Spec
==============================================================================
