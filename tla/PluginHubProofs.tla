--------------------------- MODULE PluginHubProofs ---------------------------
(***************************************************************************)
(* Proofs about PluginHub, for any sets of sockets, instances and tokens   *)
(* and any number of restarts.                                             *)
(***************************************************************************)
EXTENDS PluginHub, WellFoundedInduction, TLAPS

\* A non-empty set of naturals has a least element.
LEMMA LeastNat ==
    ASSUME NEW T, T \subseteq Nat, T # {}
    PROVE  \E x \in T : \A y \in T : x <= y
  <1> DEFINE R == OpToRel(<, Nat)
  <1>1. PICK x \in T : \A y \in T : ~(<<y, x>> \in R)
    <2>1. IsWellFoundedOn(R, Nat)
      BY NatLessThanWellFounded, Zenon
    <2> HIDE DEF R
    <2> QED
      BY <2>1, WFMin, Zenon
  <1>2. \A y \in T : <<y, x>> \in R <=> y < x
    BY DEF OpToRel
  <1>3. \A y \in T : x <= y
    <2> HIDE DEF R
    <2>1. \A y \in T : ~(y < x)
      BY <1>1, <1>2
    <2>2. x \in Nat /\ \A y \in T : y \in Nat
      OBVIOUS
    <2> QED
      BY <2>1, <2>2
  <1> QED
    BY <1>3

\* A token resolves to some instance.
LEMMA ResolveType ==
    ASSUME TypeOK, NEW t \in Tokens, NEW d \in Instances
    PROVE  Resolve(t, d) \in Instances
  BY ConstantsAssumption DEF Resolve, TypeOK

\* firstActive returns an open active socket whenever there is one.
LEMMA FirstActiveIsOpen ==
    ASSUME TypeOK
    PROVE  /\ FirstActive = None => \A i \in Instances : ~IsOpen(i)
           /\ FirstActive # None =>
                \E i \in Instances : FirstActive = active[i] /\ IsOpen(i)
  <1> DEFINE open == {i \in Instances : IsOpen(i)}
             Least(i) == \A j \in open : joined[i] <= joined[j]
  <1>1. CASE open = {}
    BY <1>1 DEF FirstActive
  <1>2. CASE open # {}
    <2>1. {joined[i] : i \in open} \subseteq Nat /\ {joined[i] : i \in open} # {}
      BY <1>2 DEF TypeOK
    <2>2. PICK x \in {joined[i] : i \in open} :
                \A y \in {joined[i] : i \in open} : x <= y
      BY <2>1, LeastNat
    <2>3. \E i \in open : Least(i)
      BY <2>2
    <2>4. (CHOOSE i \in open : Least(i)) \in open
      BY <2>3
    <2>5. FirstActive = active[CHOOSE i \in open : Least(i)]
      BY <1>2 DEF FirstActive
    <2> QED
      BY <2>4, <2>5, ConstantsAssumption DEF IsOpen, TypeOK
  <1> QED
    BY <1>1, <1>2

\* The initial state satisfies the inductive invariant.
LEMMA InitIInv == Init => IInv
  <1> SUFFICES ASSUME Init PROVE IInv
    OBVIOUS
  <1> USE ConstantsAssumption DEF Init
  <1>1. TypeOK
    BY DEF TypeOK, SocketStates, NoSend
  <1>2. BindingInv /\ OpenIsActive /\ ActiveInv /\ ClockInv
    BY DEF BindingInv, OpenIsActive, ActiveInv, ClockInv, Bound
  <1>3. FreedInv /\ AnnouncementAgrees /\ SendIsTruthful
    BY DEF FreedInv, AnnouncementAgrees, SendIsTruthful, Served, Latest, NoSend
  <1> QED
    BY <1>1, <1>2, <1>3 DEF IInv

\* The handler of "close" and "error" keeps the invariant, whether the
\* connection is active or was replaced.
LEMMA CloseStep ==
    ASSUME IInv, NEW s \in Sockets, NEW x \in {"closing", "closed"},
           sock[s] \in {"open", "closing"},
           sock' = [sock EXCEPT ![s] = x],
           x = "closed" => sock[s] = "closing",
           OnPluginClose(s),
           sent' = NoSend,
           UNCHANGED <<inst, joined, revoked, boots, epoch>>
    PROVE  IInv'
  <1> USE ConstantsAssumption
  <1>0. TypeOK
    BY DEF IInv
  <1>1. CASE \E i \in Instances : active[i] = s
    <2> DEFINE j == CHOOSE i \in Instances : active[i] = s
    <2>1. j \in Instances /\ active[j] = s
      BY <1>1
    <2>2. /\ row' = [row EXCEPT ![s] = "stale"]
          /\ updated' = [updated EXCEPT ![s] = clock + 1]
          /\ clock' = clock + 1
          /\ announced' = [announced EXCEPT ![j] = "disconnected"]
          /\ active' = [active EXCEPT ![j] = None]
      BY <1>1 DEF OnPluginClose
    <2> HIDE DEF j
    <2>3. inst[s] = j /\ \A i \in Instances : active[i] = s => i = j
      BY <2>1 DEF IInv, ActiveInv
    <2>4. TypeOK'
      BY <1>0, <2>1, <2>2 DEF TypeOK, SocketStates, NoSend
    <2>5. BindingInv'
      BY <1>0, <2>2 DEF IInv, BindingInv, Bound, TypeOK
    <2>6. OpenIsActive'
      BY <1>0, <2>1, <2>2, <2>3 DEF IInv, OpenIsActive, TypeOK
    <2>7. ActiveInv'
      BY <1>0, <2>1, <2>2, <2>3 DEF IInv, ActiveInv, TypeOK
    <2>8. ClockInv'
      BY <1>0, <2>2 DEF IInv, ClockInv, TypeOK
    <2>9. FreedInv'
      <3> SUFFICES ASSUME NEW i \in Instances, Served(i)', active'[i] = None,
                          NEW u \in Sockets, Latest(i, u)'
                   PROVE  row'[u] = "stale"
        BY DEF FreedInv
      <3>1. CASE i = j
        <4>1. inst'[s] = j /\ row'[s] # "none" /\ updated'[s] = clock + 1
          BY <1>0, <2>2, <2>3 DEF TypeOK
        <4>2. updated'[s] <= updated'[u]
          BY <3>1, <4>1 DEF Latest
        <4>3. u = s
          BY <1>0, <2>2, <4>1, <4>2 DEF IInv, ClockInv, TypeOK
        <4> QED
          BY <1>0, <2>2, <4>3 DEF TypeOK
      <3>2. CASE i # j
        <4>1. active[i] = None /\ Served(i)
          BY <1>0, <2>2, <3>2 DEF TypeOK, Served
        <4>2. u # s
          BY <2>3, <3>2 DEF Latest
        <4>3. Latest(i, u)
          BY <1>0, <2>2, <2>3, <3>2 DEF Latest, TypeOK
        <4> QED
          BY <1>0, <2>2, <4>1, <4>2, <4>3 DEF IInv, FreedInv, TypeOK
      <3> QED
        BY <3>1, <3>2
    <2>10. AnnouncementAgrees'
      BY <1>0, <2>1, <2>2 DEF IInv, AnnouncementAgrees, TypeOK
    <2>11. SendIsTruthful'
      BY DEF SendIsTruthful, NoSend
    <2> QED
      BY <2>4, <2>5, <2>6, <2>7, <2>8, <2>9, <2>10, <2>11 DEF IInv
  <1>2. CASE ~ \E i \in Instances : active[i] = s
    <2>1. UNCHANGED <<row, updated, clock, announced, active>>
      BY <1>2 DEF OnPluginClose
    <2>2. TypeOK'
      BY <1>0, <2>1 DEF TypeOK, SocketStates, NoSend
    <2>3. BindingInv' /\ ClockInv'
      BY <1>0, <2>1 DEF IInv, BindingInv, ClockInv, Bound, TypeOK
    <2>4. OpenIsActive' /\ ActiveInv'
      BY <1>0, <1>2, <2>1 DEF IInv, OpenIsActive, ActiveInv, TypeOK
    <2>5. FreedInv' /\ AnnouncementAgrees'
      BY <1>0, <2>1 DEF IInv, FreedInv, AnnouncementAgrees, Served, Latest
    <2>6. SendIsTruthful'
      BY DEF SendIsTruthful, NoSend
    <2> QED
      BY <2>2, <2>3, <2>4, <2>5, <2>6 DEF IInv
  <1> QED
    BY <1>1, <1>2

\* A step that only moves a socket, and neither makes it open nor takes an
\* active one out of {open, closing}, keeps the invariant.
LEMMA SocketStep ==
    ASSUME IInv, NEW s \in Sockets, NEW x \in SocketStates \ {"open"},
           sock' = [sock EXCEPT ![s] = x],
           Bound(s) => x = "closing",
           x = "closing" => Bound(s),
           sent' = NoSend,
           UNCHANGED <<inst, active, joined, revoked, row, updated, clock,
                       boots, epoch, announced>>
    PROVE  IInv'
  <1> USE ConstantsAssumption
  <1>0. TypeOK
    BY DEF IInv
  <1>1. TypeOK'
    BY <1>0 DEF TypeOK, NoSend
  <1>2. BindingInv' /\ ClockInv'
    BY <1>0 DEF IInv, BindingInv, ClockInv, Bound, TypeOK, SocketStates
  <1>3. OpenIsActive' /\ ActiveInv'
    BY <1>0 DEF IInv, OpenIsActive, ActiveInv, Bound, TypeOK, SocketStates
  <1>4. FreedInv' /\ AnnouncementAgrees'
    BY <1>0 DEF IInv, FreedInv, AnnouncementAgrees, Served, Latest
  <1>5. SendIsTruthful'
    BY DEF SendIsTruthful, NoSend
  <1> QED
    BY <1>1, <1>2, <1>3, <1>4, <1>5 DEF IInv

\* A hello keeps the invariant: the new row is the newest of its instance,
\* and the connection it replaces is no longer open.
LEMMA HelloStep ==
    ASSUME IInv, NEW s \in Sockets, NEW t \in Tokens, NEW d \in Instances,
           AcceptHello(s, t, d)
    PROVE  IInv'
  <1> USE ConstantsAssumption
  <1> DEFINE i == Resolve(t, d)
             previous == active[i]
  <1>0. TypeOK
    BY DEF IInv
  <1>1. i \in Instances
    BY <1>0, ResolveType
  <1>2. /\ sock[s] = "opening" /\ ~Bound(s)
        /\ \A j \in Instances : active[j] # s
    BY <1>0 DEF AcceptHello, IInv, BindingInv, ActiveInv
  <1>3. /\ sock' = [u \in Sockets |->
                        IF u = s THEN "open"
                        ELSE IF u = previous /\ sock[u] = "open" THEN "closing"
                        ELSE sock[u]]
        /\ inst' = [inst EXCEPT ![s] = i]
        /\ active' = [active EXCEPT ![i] = s]
        /\ row' = [row EXCEPT ![s] = "connected"]
        /\ updated' = [updated EXCEPT ![s] = clock + 1]
        /\ clock' = clock + 1
        /\ epoch' = [epoch EXCEPT ![s] = boots]
        /\ announced' = [announced EXCEPT ![i] = "connected"]
        /\ sent' = NoSend
        /\ UNCHANGED <<revoked, boots>>
    BY DEF AcceptHello
  <1>4. joined' \in [Instances -> Nat]
    BY <1>0, <1>1 DEF AcceptHello, TypeOK
  <1> HIDE DEF i
  <1>5. sock' \in [Sockets -> SocketStates]
    BY <1>0, <1>3 DEF TypeOK, SocketStates
  <1>6. TypeOK'
    <2>1. sent' \in [asked : Instances \cup {None}, to : Sockets \cup {None},
                     made : BOOLEAN]
      BY <1>3 DEF NoSend
    <2>2. /\ inst' \in [Sockets -> Instances \cup {None}]
          /\ active' \in [Instances -> Sockets \cup {None}]
          /\ row' \in [Sockets -> {"none", "connected", "stale"}]
          /\ announced' \in [Instances -> {"nothing", "connected", "disconnected"}]
      BY <1>0, <1>1, <1>3 DEF TypeOK
    <2>3. /\ updated' \in [Sockets -> Nat] /\ clock' \in Nat
          /\ epoch' \in [Sockets -> Nat] /\ boots' \in Nat
          /\ revoked' \in SUBSET Instances
      BY <1>0, <1>3 DEF TypeOK
    <2> QED
      BY <1>4, <1>5, <2>1, <2>2, <2>3 DEF TypeOK
  <1>7. \A u \in Sockets : u # s =>
            \/ sock'[u] = sock[u]
            \/ u = previous /\ sock[u] = "open" /\ sock'[u] = "closing"
    BY <1>3
  <1>8. sock'[s] = "open" /\ previous # s
    BY <1>1, <1>2, <1>3
  <1>9. BindingInv'
    <2> SUFFICES ASSUME NEW u \in Sockets
                 PROVE  /\ sock'[u] \in {"idle", "opening", "refused"} => inst'[u] = None
                        /\ sock'[u] \in {"open", "closing"} => inst'[u] # None
                        /\ inst'[u] # None <=> row'[u] # "none"
                        /\ epoch'[u] <= boots'
      BY DEF BindingInv, Bound
    <2>1. CASE u = s
      BY <1>0, <1>1, <1>3, <1>8, <2>1 DEF TypeOK
    <2>2. CASE u # s
      BY <1>0, <1>3, <1>7, <2>2 DEF IInv, BindingInv, Bound, TypeOK
    <2> QED
      BY <2>1, <2>2
  <1>10. OpenIsActive'
    <2> SUFFICES ASSUME NEW u \in Sockets, sock'[u] = "open"
                 PROVE  inst'[u] # None /\ active'[inst'[u]] = u
      BY DEF OpenIsActive
    <2>1. CASE u = s
      BY <1>0, <1>1, <1>3, <2>1 DEF TypeOK
    <2>2. CASE u # s
      <3>1. sock[u] = "open" /\ u # previous
        BY <1>3, <2>2
      <3>2. inst[u] # i /\ inst[u] \in Instances /\ active[inst[u]] = u
        BY <1>0, <3>1 DEF IInv, OpenIsActive, TypeOK
      <3> QED
        BY <1>0, <1>3, <2>2, <3>2 DEF TypeOK
    <2> QED
      BY <2>1, <2>2
  <1>11. ActiveInv'
    <2> SUFFICES ASSUME NEW j \in Instances, active'[j] # None
                 PROVE  /\ inst'[active'[j]] = j
                        /\ sock'[active'[j]] \in {"open", "closing"}
                        /\ epoch'[active'[j]] = boots'
                        /\ row'[active'[j]] = "connected"
                        /\ \A u \in Sockets : inst'[u] = j /\ u # active'[j] =>
                                updated'[u] < updated'[active'[j]]
      BY DEF ActiveInv
    <2>1. CASE j = i
      BY <1>0, <1>1, <1>3, <1>8, <2>1 DEF IInv, ClockInv, TypeOK
    <2>2. CASE j # i
      <3>1. active'[j] = active[j] /\ active[j] \in Sockets \ {s}
        BY <1>0, <1>2, <1>3, <2>2 DEF TypeOK
      <3>2. sock'[active[j]] \in {"open", "closing"}
        BY <1>7, <3>1 DEF IInv, ActiveInv
      <3> QED
        BY <1>0, <1>1, <1>3, <2>2, <3>1, <3>2 DEF IInv, ActiveInv, TypeOK
    <2> QED
      BY <2>1, <2>2
  <1>12. ClockInv'
    BY <1>0, <1>3 DEF IInv, ClockInv, TypeOK
  <1>13. FreedInv'
    <2> SUFFICES ASSUME NEW j \in Instances, Served(j)', active'[j] = None,
                        NEW u \in Sockets, Latest(j, u)'
                 PROVE  row'[u] = "stale"
      BY DEF FreedInv
    <2>1. j # i /\ active[j] = None
      BY <1>0, <1>1, <1>3 DEF TypeOK
    <2>2. \A v \in Sockets : inst'[v] = j =>
                /\ v # s /\ inst[v] = j /\ row'[v] = row[v]
                /\ updated'[v] = updated[v] /\ epoch'[v] = epoch[v]
      BY <1>0, <1>3, <2>1 DEF TypeOK
    <2>3. \A v \in Sockets : inst[v] = j => inst'[v] = j
      BY <1>0, <1>1, <1>2, <1>3 DEF TypeOK, Bound
    <2>4. Served(j) /\ Latest(j, u)
      BY <1>3, <2>2, <2>3 DEF Served, Latest
    <2> QED
      BY <2>1, <2>2, <2>4 DEF IInv, FreedInv, Latest
  <1>14. AnnouncementAgrees'
    BY <1>0, <1>1, <1>3 DEF IInv, AnnouncementAgrees, TypeOK
  <1>15. SendIsTruthful'
    BY <1>3 DEF SendIsTruthful, NoSend
  <1> QED
    BY <1>6, <1>9, <1>10, <1>11, <1>12, <1>13, <1>14, <1>15 DEF IInv

\* A message to the plugin keeps the invariant, SendIsTruthful in particular.
LEMMA SendStep ==
    ASSUME IInv, NEW asked \in Instances \cup {None}, SendToPlugin(asked)
    PROVE  IInv'
  <1> USE ConstantsAssumption
  <1>0. TypeOK
    BY DEF IInv
  <1>1. /\ sent'.asked = asked
        /\ sent'.to = IF asked = None THEN FirstActive
                      ELSE IF IsOpen(asked) THEN active[asked] ELSE None
        /\ sent' = [asked |-> asked, to |-> sent'.to, made |-> TRUE]
        /\ UNCHANGED <<sock, inst, active, joined, revoked, row, updated,
                       clock, boots, epoch, announced>>
    BY DEF SendToPlugin
  <1>2. /\ sent'.to \in Sockets \cup {None}
        /\ sent'.to # None => \E i \in Instances :
                sent'.to = active[i] /\ IsOpen(i) /\ (asked # None => i = asked)
        /\ sent'.to = None => \A i \in Instances :
                (asked # None => i = asked) => ~IsOpen(i)
    BY <1>0, <1>1, FirstActiveIsOpen DEF TypeOK, IsOpen
  <1>3. TypeOK'
    <2>1. sent' \in [asked : Instances \cup {None}, to : Sockets \cup {None},
                     made : BOOLEAN]
      <3> DEFINE w == sent'.to
      <3>1. w \in Sockets \cup {None}
            /\ sent' = [asked |-> asked, to |-> w, made |-> TRUE]
        BY <1>1, <1>2
      <3> HIDE DEF w
      <3> QED
        BY <3>1
    <2> QED
      BY <1>0, <1>1, <2>1 DEF TypeOK
  <1>4. SendIsTruthful'
    <2>1. CASE sent'.to = None
      <3>1. \A u \in Sockets : sock[u] = "open" /\ (asked # None => inst[u] = asked)
                => FALSE
        BY <1>0, <1>2, <2>1 DEF IInv, OpenIsActive, IsOpen, TypeOK
      <3> QED
        BY <1>1, <2>1, <3>1 DEF SendIsTruthful
    <2>2. CASE sent'.to # None
      <3>1. PICK i \in Instances : /\ sent'.to = active[i] /\ IsOpen(i)
                                   /\ asked # None => i = asked
        BY <1>2, <2>2
      <3>2. sock[sent'.to] = "open" /\ inst[sent'.to] = i
        BY <3>1 DEF IInv, ActiveInv, IsOpen
      <3> QED
        BY <1>1, <1>2, <2>2, <3>1, <3>2 DEF SendIsTruthful
    <2> QED
      BY <2>1, <2>2
  <1>5. BindingInv' /\ OpenIsActive' /\ ActiveInv' /\ ClockInv'
    BY <1>1 DEF IInv, BindingInv, Bound, OpenIsActive, ActiveInv, ClockInv
  <1>6. FreedInv' /\ AnnouncementAgrees'
    BY <1>1 DEF IInv, FreedInv, AnnouncementAgrees, Served, Latest
  <1> QED
    BY <1>3, <1>4, <1>5, <1>6 DEF IInv

\* A revocation keeps the invariant.
LEMMA RevokeStep ==
    ASSUME IInv, NEW i \in Instances, Revoke(i)
    PROVE  IInv'
  <1> USE ConstantsAssumption
  <1>1. TypeOK'
    BY DEF IInv, TypeOK, Revoke, NoSend
  <1>2. BindingInv' /\ OpenIsActive' /\ ActiveInv' /\ ClockInv'
    BY DEF Revoke, IInv, BindingInv, Bound, OpenIsActive, ActiveInv, ClockInv
  <1>3. FreedInv' /\ AnnouncementAgrees'
    BY DEF Revoke, IInv, FreedInv, AnnouncementAgrees, Served, Latest
  <1>4. SendIsTruthful'
    BY DEF Revoke, SendIsTruthful, NoSend
  <1> QED
    BY <1>1, <1>2, <1>3, <1>4 DEF IInv

\* A crash keeps the invariant: no instance has been served since.
LEMMA CrashStep ==
    ASSUME IInv, Crash
    PROVE  IInv'
  <1> USE ConstantsAssumption
  <1>0. TypeOK
    BY DEF IInv
  <1>1. TypeOK'
    BY <1>0 DEF TypeOK, Crash, NoSend, SocketStates
  <1>2. BindingInv'
    BY <1>0 DEF IInv, Crash, BindingInv, Bound, TypeOK
  <1>3. OpenIsActive' /\ ActiveInv' /\ AnnouncementAgrees'
    BY <1>0 DEF Crash, OpenIsActive, ActiveInv, AnnouncementAgrees, TypeOK
  <1>4. ClockInv'
    BY DEF IInv, Crash, ClockInv
  <1>5. FreedInv'
    <2>1. \A u \in Sockets : epoch'[u] # boots'
      BY <1>0 DEF IInv, BindingInv, Crash, TypeOK
    <2> QED
      BY <2>1 DEF FreedInv, Served
  <1>6. SendIsTruthful'
    BY DEF Crash, SendIsTruthful, NoSend
  <1> QED
    BY <1>1, <1>2, <1>3, <1>4, <1>5, <1>6 DEF IInv

\* Every step keeps the invariant.
LEMMA NextIInv == IInv /\ [Next]_vars => IInv'
  <1> SUFFICES ASSUME IInv, [Next]_vars PROVE IInv'
    OBVIOUS
  <1>0. TypeOK /\ BindingInv
    BY DEF IInv
  <1>1. ASSUME NEW s \in Sockets, Upgrade(s) PROVE IInv'
    BY <1>0, <1>1, SocketStep DEF Upgrade, BindingInv, SocketStates
  <1>2. ASSUME NEW s \in Sockets, RefuseHello(s) PROVE IInv'
    BY <1>0, <1>2, SocketStep DEF RefuseHello, BindingInv, SocketStates
  <1>3. ASSUME NEW s \in Sockets, PeerCloses(s) PROVE IInv'
    BY <1>0, <1>3, SocketStep DEF PeerCloses, BindingInv, SocketStates
  <1>4. ASSUME NEW s \in Sockets, StrangerCloses(s) PROVE IInv'
    BY <1>0, <1>4, SocketStep DEF StrangerCloses, BindingInv, SocketStates
  <1>5. ASSUME NEW s \in Sockets, SocketError(s) PROVE IInv'
    BY <1>5, CloseStep DEF SocketError
  <1>6. ASSUME NEW s \in Sockets, SocketCloses(s) PROVE IInv'
    BY <1>6, CloseStep DEF SocketCloses
  <1>7. ASSUME NEW s \in Sockets, NEW t \in Tokens, NEW d \in Instances,
               AcceptHello(s, t, d)
        PROVE  IInv'
    BY <1>7, HelloStep
  <1>8. ASSUME NEW asked \in Instances \cup {None}, SendToPlugin(asked)
        PROVE  IInv'
    BY <1>8, SendStep
  <1>9. ASSUME NEW i \in Instances, Revoke(i) PROVE IInv'
    BY <1>9, RevokeStep
  <1>10. CASE Crash
    BY <1>10, CrashStep
  <1>11. CASE UNCHANGED vars
    <2>1. TypeOK' /\ BindingInv' /\ OpenIsActive' /\ ActiveInv' /\ ClockInv'
      BY <1>11 DEF vars, IInv, TypeOK, BindingInv, Bound, OpenIsActive,
                   ActiveInv, ClockInv
    <2>2. FreedInv' /\ AnnouncementAgrees' /\ SendIsTruthful'
      BY <1>11 DEF vars, IInv, FreedInv, Served, Latest, AnnouncementAgrees,
                   SendIsTruthful
    <2> QED
      BY <2>1, <2>2 DEF IInv
  <1> QED
    BY <1>1, <1>2, <1>3, <1>4, <1>5, <1>6, <1>7, <1>8, <1>9, <1>10, <1>11
       DEF Next

\* The inductive invariant holds in every reachable state.
THEOREM Invariance == Spec => []IInv
  <1>1. Init => IInv
    BY InitIInv
  <1>2. IInv /\ [Next]_vars => IInv'
    BY NextIInv
  <1> QED
    BY <1>1, <1>2, PTL DEF Spec

\* Every variable keeps its type.
THEOREM TypeCorrect == Spec => []TypeOK
  <1>1. IInv => TypeOK
    BY DEF IInv
  <1> QED
    BY <1>1, Invariance, PTL

\* At most one open connection serves an instance: the active one
\* (pluginHub.ts 120-133, 223-233).
THEOREM OneConnectionPerInstance == Spec => []OpenIsActive
  <1>1. IInv => OpenIsActive
    BY DEF IInv
  <1> QED
    BY <1>1, Invariance, PTL

\* The status read from the rows agrees with the Map for every instance that
\* connected since the boot (db.ts 217-266).
THEOREM StatusIsTruthful == Spec => []StatusTruthful
  <1>1. IInv => StatusTruthful
    <2> SUFFICES ASSUME IInv, NEW i \in Instances, Served(i)
                 PROVE  ReportsConnected(i) <=> active[i] # None
      BY DEF StatusTruthful
    <2>1. CASE active[i] # None
      <3>1. /\ active[i] \in Sockets /\ inst[active[i]] = i
            /\ row[active[i]] = "connected"
            /\ \A u \in Sockets : inst[u] = i => updated[u] <= updated[active[i]]
        BY <2>1 DEF IInv, ActiveInv, TypeOK
      <3> QED
        BY <2>1, <3>1 DEF ReportsConnected, Latest
    <2>2. CASE active[i] = None
      BY <2>2 DEF IInv, FreedInv, ReportsConnected
    <2> QED
      BY <2>1, <2>2
  <1> QED
    BY <1>1, Invariance, PTL

\* The last plugin.* event of an instance agrees with the Map
\* (pluginHub.ts 153-163, 223-233).
THEOREM AnnouncementsAgree == Spec => []AnnouncementAgrees
  <1>1. IInv => AnnouncementAgrees
    BY DEF IInv
  <1> QED
    BY <1>1, Invariance, PTL

\* A message goes to an open connection of the instance it is for, and is
\* refused only when there is none (pluginHub.ts 68-86).
THEOREM SendsAreTruthful == Spec => []SendIsTruthful
  <1>1. IInv => SendIsTruthful
    BY DEF IInv
  <1> QED
    BY <1>1, Invariance, PTL

\* The links of ConnectionSlots, by the refinement mapping.
Up == {s \in Sockets : sock[s] = "open"}
Retired == {s \in Sockets : inst[s] # None /\ active[inst[s]] # s}

\* Steps that leave the Map and the bindings alone change the slots at most
\* by a link that goes down.
LEMMA SocketRefines ==
    ASSUME IInv, NEW s \in Sockets, NEW x \in SocketStates \ {"open"},
           sock' = [sock EXCEPT ![s] = x], UNCHANGED <<inst, active>>
    PROVE  Slots!Drop(s) \/ UNCHANGED Slots!slotVars
  <1>1. TypeOK
    BY DEF IInv
  <1>2. Retired' = Retired
    BY DEF Retired
  <1>3. CASE s \in Up
    <2>1. Up' = Up \ {s}
      BY <1>1 DEF Up, TypeOK
    <2> QED
      BY <1>2, <1>3, <2>1 DEF Slots!Drop, Up, Retired
  <1>4. CASE s \notin Up
    <2>1. Up' = Up
      BY <1>1, <1>4 DEF Up, TypeOK
    <2> QED
      BY <1>2, <2>1 DEF Slots!slotVars, Up, Retired
  <1> QED
    BY <1>3, <1>4

\* The close or error of the active connection releases its slot; that of a
\* replaced one changes no slot.
LEMMA CloseRefines ==
    ASSUME IInv, NEW s \in Sockets, NEW x \in {"closing", "closed"},
           sock' = [sock EXCEPT ![s] = x],
           sock[s] \in {"open", "closing"},
           x = "closed" => sock[s] = "closing",
           OnPluginClose(s), UNCHANGED inst
    PROVE  \/ \E i \in Instances : Slots!Release(i)
           \/ UNCHANGED Slots!slotVars
  <1>1. TypeOK
    BY DEF IInv
  <1>2. CASE \E i \in Instances : active[i] = s
    <2> DEFINE j == CHOOSE i \in Instances : active[i] = s
    <2>1. j \in Instances /\ active[j] = s
      BY <1>2
    <2>2. active' = [active EXCEPT ![j] = None]
      BY <1>2 DEF OnPluginClose
    <2> HIDE DEF j
    <2>3. inst[s] = j
      BY <2>1, ConstantsAssumption DEF IInv, ActiveInv
    <2>4. Up' = Up \ {s}
      BY <1>1 DEF Up, TypeOK
    <2>5. Retired' = Retired \cup {s}
      <3>1. ASSUME NEW u \in Sockets
            PROVE  u \in Retired' <=> u \in Retired \cup {s}
        <4>1. CASE inst[u] = j
          BY <1>1, <2>1, <2>2, <2>3, <4>1, ConstantsAssumption DEF Retired, TypeOK
        <4>2. CASE inst[u] # j
          BY <1>1, <2>1, <2>2, <2>3, <4>2, ConstantsAssumption DEF Retired, TypeOK
        <4> QED
          BY <4>1, <4>2
      <3>2. Retired \subseteq Sockets /\ Retired' \subseteq Sockets
        BY DEF Retired
      <3> QED
        BY <3>1, <3>2
    <2> QED
      BY <2>1, <2>2, <2>4, <2>5, ConstantsAssumption DEF Slots!Release, Up, Retired
  <1>3. CASE ~ \E i \in Instances : active[i] = s
    <2>1. UNCHANGED active
      BY <1>3 DEF OnPluginClose
    <2>2. sock[s] # "open"
      BY <1>1, <1>3 DEF IInv, OpenIsActive, TypeOK
    <2>3. Up' = Up /\ Retired' = Retired
      BY <1>1, <2>1, <2>2 DEF Up, Retired, TypeOK
    <2> QED
      BY <2>1, <2>3 DEF Slots!slotVars, Up, Retired
  <1> QED
    BY <1>2, <1>3

\* A hello takes the slot of its instance.
LEMMA HelloRefines ==
    ASSUME IInv, NEW s \in Sockets, NEW t \in Tokens, NEW d \in Instances,
           AcceptHello(s, t, d)
    PROVE  \E i \in Instances : Slots!Take(i, s)
  <1> DEFINE i == Resolve(t, d)
             previous == active[i]
  <1>0. TypeOK
    BY DEF IInv
  <1>1. i \in Instances
    BY <1>0, ResolveType
  <1>2. inst[s] = None /\ \A j \in Instances : active[j] # s
    BY <1>0, ConstantsAssumption
       DEF AcceptHello, IInv, BindingInv, ActiveInv, Bound
  <1>3. /\ sock' = [u \in Sockets |->
                        IF u = s THEN "open"
                        ELSE IF u = previous /\ sock[u] = "open" THEN "closing"
                        ELSE sock[u]]
        /\ inst' = [inst EXCEPT ![s] = i]
        /\ active' = [active EXCEPT ![i] = s]
    BY DEF AcceptHello
  <1> HIDE DEF i
  <1>4. Up' = (Up \ {previous}) \cup {s}
    BY <1>3 DEF Up
  <1>5. Retired' = Retired \cup ({previous} \ {None})
    <2>1. ASSUME NEW u \in Sockets
          PROVE  u \in Retired' <=> u \in Retired \cup ({previous} \ {None})
      <3>1. CASE u = s
        BY <1>0, <1>1, <1>2, <1>3, <3>1 DEF Retired, TypeOK
      <3>2. CASE u # s /\ inst[u] = i
        <4>1. inst'[u] = i /\ active'[i] = s
          BY <1>0, <1>1, <1>3, <3>2 DEF TypeOK
        <4> QED
          BY <1>1, <3>2, <4>1, ConstantsAssumption DEF Retired
      <3>3. CASE u # s /\ inst[u] # i
        <4>1. u # previous
          BY <1>1, <3>3, ConstantsAssumption DEF IInv, ActiveInv
        <4> QED
          BY <1>0, <1>1, <1>3, <3>3, <4>1 DEF Retired, TypeOK
      <3> QED
        BY <3>1, <3>2, <3>3
    <2>2. /\ Retired \subseteq Sockets /\ Retired' \subseteq Sockets
          /\ {previous} \ {None} \subseteq Sockets
      BY <1>0, <1>1 DEF Retired, TypeOK
    <2> QED
      BY <2>1, <2>2
  <1>6. s \notin Slots!Holders \cup Retired
    BY <1>2 DEF Slots!Holders, Retired
  <1>7. Slots!Take(i, s)
    BY <1>3, <1>4, <1>5, <1>6 DEF Slots!Take, Up, Retired
  <1> QED
    BY <1>1, <1>7

\* A crash frees all slots and retires their holders.
LEMMA CrashRefines ==
    ASSUME IInv, Crash
    PROVE  Slots!Reset
  <1>0. TypeOK
    BY DEF IInv
  <1>1. active' = [i \in Instances |-> None] /\ UNCHANGED inst
    BY DEF Crash
  <1>2. Up' = {}
    BY DEF Crash, Up
  <1>3. Retired' = Retired \cup Slots!Holders
    <2>1. ASSUME NEW u \in Sockets
          PROVE  u \in Retired' <=> u \in Retired \cup Slots!Holders
      <3>1. u \in Retired' <=> inst[u] # None
        BY <1>0, <1>1, ConstantsAssumption DEF Retired, TypeOK
      <3>2. u \in Slots!Holders <=> \E i \in Instances : active[i] = u
        BY ConstantsAssumption DEF Slots!Holders
      <3>3. \A i \in Instances : active[i] = u => inst[u] = i
        BY ConstantsAssumption DEF IInv, ActiveInv
      <3> QED
        BY <1>0, <3>1, <3>2, <3>3, ConstantsAssumption DEF Retired, TypeOK
    <2>2. /\ Retired \subseteq Sockets /\ Retired' \subseteq Sockets
          /\ Slots!Holders \subseteq Sockets
      BY <1>0 DEF Retired, Slots!Holders, TypeOK
    <2> QED
      BY <2>1, <2>2
  <1> QED
    BY <1>1, <1>2, <1>3 DEF Slots!Reset, Up, Retired

\* Every step of the hub is a step of ConnectionSlots or changes no slot.
LEMMA NextRefines == IInv /\ [Next]_vars => [Slots!Next]_Slots!slotVars
  <1> SUFFICES ASSUME IInv, [Next]_vars PROVE [Slots!Next]_Slots!slotVars
    OBVIOUS
  <1> USE DEF Slots!Next
  <1>1. ASSUME NEW s \in Sockets,
               Upgrade(s) \/ RefuseHello(s) \/ PeerCloses(s) \/ StrangerCloses(s)
        PROVE  [Slots!Next]_Slots!slotVars
    BY <1>1, SocketRefines
       DEF Upgrade, RefuseHello, PeerCloses, StrangerCloses, SocketStates
  <1>2. ASSUME NEW s \in Sockets, SocketError(s) \/ SocketCloses(s)
        PROVE  [Slots!Next]_Slots!slotVars
    BY <1>2, CloseRefines DEF SocketError, SocketCloses
  <1>3. ASSUME NEW s \in Sockets, NEW t \in Tokens, NEW d \in Instances,
               AcceptHello(s, t, d)
        PROVE  [Slots!Next]_Slots!slotVars
    BY <1>3, HelloRefines
  <1>4. CASE Crash
    BY <1>4, CrashRefines
  <1>5. ASSUME UNCHANGED <<sock, inst, active>>
        PROVE  UNCHANGED Slots!slotVars
    BY <1>5 DEF Slots!slotVars
  <1> QED
    BY <1>1, <1>2, <1>3, <1>4, <1>5 DEF Next, SendToPlugin, Revoke, vars

\* The hub implements ConnectionSlots: an open link holds exactly one slot, a
\* slot is given up only when its link is down, a link that lost its slot
\* never gets one again (pluginHub.ts 88-170, 223-234).
THEOREM Refinement == Spec => ImplementsSlots
  <1>1. Init => Slots!Init
    BY DEF Init, Slots!Init
  <1>2. IInv /\ [Next]_vars => [Slots!Next]_Slots!slotVars
    BY NextRefines
  <1> QED
    BY <1>1, <1>2, Invariance, PTL DEF Spec, ImplementsSlots, Slots!Spec
==============================================================================
