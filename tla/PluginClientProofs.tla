-------------------------- MODULE PluginClientProofs --------------------------
(***************************************************************************)
(* Proofs about PluginClient, for any number of runtimes and of sockets.   *)
(***************************************************************************)
EXTENDS PluginClient, Sequences, TLAPS

\* The initial state satisfies the inductive invariant.
LEMMA InitIInv == Init => IInv
  <1> SUFFICES ASSUME Init PROVE IInv
    OBVIOUS
  <1> USE ConstantsAssumption DEF Init, InitialDelay
  <1>1. TypeOK
    BY DEF TypeOK, SocketStates, Phases
  <1>2. OwnerInv /\ LineInv
    BY DEF OwnerInv, LineInv
  <1>3. OneLine /\ StoppedIsSilent /\ BackoffDoubles /\ DelayInv
    BY DEF OneLine, StoppedIsSilent, BackoffDoubles, DelayInv, Delays, Live
  <1> QED
    BY <1>1, <1>2, <1>3 DEF IInv

\* What stop() does to the sockets: the one of its client, if it has one that
\* is connecting or open, begins to close.
LEMMA HungType ==
    ASSUME TypeOK, NEW c \in Clients \cup {None}
    PROVE  /\ Hung(c) \in [Sockets -> SocketStates]
           /\ \A s \in Sockets :
                /\ Hung(c)[s] = "free" <=> sock[s] = "free"
                /\ Hung(c)[s] \in Live =>
                     sock[s] \in Live /\ Hung(c)[s] = sock[s] /\ (c # None => s # socket[c])
                /\ sock[s] \in {"free", "closing"} => Hung(c)[s] = sock[s]
  BY DEF Hung, TypeOK, SocketStates, Live

\* stop() keeps the invariant, whoever calls it and in whatever state.
LEMMA StopStep ==
    ASSUME IInv, NEW c \in Clients, Stop(c),
           current' # current => current' = None /\ c = current,
           UNCHANGED <<owner, delay, losses>>
    PROVE  IInv'
  <1> USE ConstantsAssumption
  <1>0. TypeOK
    BY DEF IInv
  <1>1. /\ sock' \in [Sockets -> SocketStates]
        /\ \A s \in Sockets :
             /\ sock'[s] = "free" <=> sock[s] = "free"
             /\ sock'[s] \in Live => sock[s] \in Live /\ s # socket[c]
             /\ sock[s] \in {"free", "closing"} => sock'[s] = sock[s]
    BY <1>0, HungType DEF Stop
  <1>2. TypeOK'
    BY <1>0, <1>1 DEF Stop, TypeOK, Phases
  <1>3. OwnerInv'
    BY <1>0, <1>1 DEF Stop, IInv, OwnerInv, TypeOK
  <1>4. \A s \in Sockets : owner[s] = c => sock'[s] = "closing"
    BY <1>0, <1>1 DEF IInv, OwnerInv, LineInv, TypeOK, SocketStates, Live, Phases
  <1>5. LineInv'
    BY <1>0, <1>1, <1>4 DEF Stop, IInv, LineInv, TypeOK
  <1>6. OneLine'
    BY <1>0, <1>1, <1>4 DEF Stop, IInv, OneLine, OwnerInv, LineInv, TypeOK
  <1>7. StoppedIsSilent'
    BY <1>0, <1>1, <1>4 DEF Stop, IInv, StoppedIsSilent, TypeOK
  <1>8. BackoffDoubles' /\ DelayInv'
    BY <1>0 DEF Stop, IInv, BackoffDoubles, DelayInv, TypeOK
  <1> QED
    BY <1>2, <1>3, <1>5, <1>6, <1>7, <1>8 DEF IInv

\* The "close" of a socket that is connecting, open or closing keeps it.
LEMMA CloseStep ==
    ASSUME IInv, NEW s \in Sockets, sock[s] # "free", OnClose(s)
    PROVE  IInv'
  <1> USE ConstantsAssumption
  <1> DEFINE c == owner[s]
  <1>0. TypeOK /\ c \in Clients /\ phase[c] \in {"started", "stopped"}
    BY DEF IInv, OwnerInv, TypeOK, Phases
  <1>1. /\ sock' = [sock EXCEPT ![s] = "free"]
        /\ owner' = [owner EXCEPT ![s] = None]
        /\ losses' = [losses EXCEPT ![c] = Least(@ + 1, 5)]
        /\ UNCHANGED <<socket, phase, delay, current>>
    BY DEF OnClose
  <1>2. \/ phase[c] = "stopped" /\ UNCHANGED <<timer, wait>>
        \/ /\ phase[c] = "started"
           /\ timer' = [timer EXCEPT ![c] = TRUE]
           /\ wait' = [wait EXCEPT ![c] = delay[c]]
    BY <1>0 DEF OnClose, ScheduleReconnect
  <1> HIDE DEF c
  <1>3. c = owner[s]
    BY DEF c
  <1>4. losses'[c] = IF losses[c] < 5 THEN losses[c] + 1 ELSE 5
    BY <1>0, <1>1 DEF Least, TypeOK
  <1>5. TypeOK'
    <2>1. losses' \in [Clients -> 0..5]
      BY <1>0, <1>1, <1>4 DEF TypeOK
    <2>2. timer' \in [Clients -> BOOLEAN]
      BY <1>0, <1>2, Zenon DEF TypeOK
    <2>3. wait' \in [Clients -> {0, 2, 4, 8, 16, 30}]
      <3>1. delay[c] \in {2, 4, 8, 16, 30}
        BY <1>0, Zenon DEF TypeOK
      <3>2. wait \in [Clients -> {0, 2, 4, 8, 16, 30}]
        BY <1>0, Zenon DEF TypeOK
      <3> QED
        BY <1>0, <1>2, <3>1, <3>2
    <2> QED
      BY <1>0, <1>1, <2>1, <2>2, <2>3 DEF TypeOK, SocketStates
  <1>6. OwnerInv'
    BY <1>0, <1>1 DEF IInv, OwnerInv, TypeOK
  <1>7. \A u \in Sockets : phase[c] = "started" /\ owner[u] = c => u = s
    BY <1>0, <1>3 DEF IInv, OwnerInv, TypeOK
  <1>8. LineInv'
    BY <1>0, <1>1, <1>2, <1>3, <1>7 DEF IInv, LineInv, TypeOK
  <1>9. OneLine'
    <2>1. \A u \in Sockets : sock'[u] \in Live => u # s /\ sock[u] \in Live
      BY <1>0, <1>1 DEF Live, TypeOK
    <2>2. \A u \in Sockets :
            sock[u] \in Live /\ u # s /\ phase[c] = "started" => current # c
      BY <1>0, <1>3, <1>7 DEF IInv, OneLine, OwnerInv, LineInv, TypeOK, SocketStates, Live
    <2> QED
      BY <1>0, <1>1, <1>2, <2>1, <2>2 DEF IInv, OneLine, TypeOK
  <1>10. StoppedIsSilent'
    BY <1>0, <1>1, <1>2, <1>3 DEF IInv, StoppedIsSilent, TypeOK
  <1>11. BackoffDoubles' /\ DelayInv'
    <2>1. ~timer[c]
      BY <1>0, <1>3 DEF IInv, LineInv, TypeOK
    <2>2. phase[c] = "started" => delay[c] = Delays[losses'[c]] /\ losses'[c] >= 1
      BY <1>0, <1>4, <2>1 DEF IInv, DelayInv, Delays, TypeOK
    <2> QED
      BY <1>0, <1>1, <1>2, <2>1, <2>2 DEF IInv, BackoffDoubles, DelayInv, TypeOK
  <1> QED
    BY <1>5, <1>6, <1>8, <1>9, <1>10, <1>11 DEF IInv

\* A new runtime keeps the invariant: its predecessor's client is stopped.
LEMMA StartStep ==
    ASSUME IInv, NEW c \in Clients, NEW s \in Sockets, StartRuntime(c, s)
    PROVE  IInv'
  <1> USE ConstantsAssumption
  <1>0. TypeOK /\ phase[c] = "new" /\ sock[s] = "free" /\ current' = c
        /\ UNCHANGED <<delay, losses>>
    BY DEF IInv, StartRuntime
  <1>1. /\ sock' \in [Sockets -> SocketStates]
        /\ sock'[s] = "connecting"
        /\ \A u \in Sockets : u # s =>
             /\ sock'[u] = "free" <=> sock[u] = "free"
             /\ sock'[u] \notin Live
             /\ sock[u] = "closing" => sock'[u] = "closing"
    <2>1. /\ Hung(current) \in [Sockets -> SocketStates]
          /\ \A u \in Sockets :
               /\ Hung(current)[u] = "free" <=> sock[u] = "free"
               /\ Hung(current)[u] \notin Live
               /\ sock[u] = "closing" => Hung(current)[u] = "closing"
      BY <1>0, HungType DEF IInv, OneLine, TypeOK
    <2> QED
      BY <2>1 DEF StartRuntime, SocketStates
  <1>2. /\ owner' = [owner EXCEPT ![s] = c]
        /\ phase' = [d \in Clients |-> IF d = c THEN "started"
                                       ELSE IF d = current THEN "stopped" ELSE phase[d]]
        /\ socket' = [d \in Clients |-> IF d = c THEN s
                                        ELSE IF d = current THEN None ELSE socket[d]]
        /\ timer' = [d \in Clients |-> d # current /\ timer[d]]
        /\ wait' = [d \in Clients |-> IF d = current THEN 0 ELSE wait[d]]
    BY DEF StartRuntime
  <1>3. \A u \in Sockets : u # s /\ owner[u] # None => sock'[u] = "closing"
    BY <1>0, <1>1 DEF IInv, OwnerInv, TypeOK, SocketStates, Live
  <1>4. \A u \in Sockets : owner[u] # c
    BY <1>0 DEF IInv, OwnerInv, TypeOK
  <1>5. \A d \in Clients : ~timer'[d]
    BY <1>0, <1>2 DEF IInv, LineInv, TypeOK, Phases
  <1>6. \A d \in Clients : d # c => phase'[d] # "started" /\ (phase'[d] = "new" => phase[d] = "new")
    BY <1>0, <1>2 DEF IInv, LineInv, TypeOK
  <1>7. TypeOK'
    <2>1. owner' \in [Sockets -> Clients \cup {None}] /\ socket' \in [Clients -> Sockets \cup {None}]
      BY <1>0, <1>2 DEF TypeOK
    <2>2. phase' \in [Clients -> Phases]
      BY <1>0, <1>2 DEF TypeOK, Phases
    <2>3. timer' \in [Clients -> BOOLEAN]
      BY <1>2
    <2>4. wait' \in [Clients -> {0, 2, 4, 8, 16, 30}]
      BY <1>0, <1>2 DEF TypeOK
    <2> QED
      BY <1>0, <1>1, <2>1, <2>2, <2>3, <2>4 DEF TypeOK
  <1>8. OwnerInv'
    <2> SUFFICES ASSUME NEW u \in Sockets
                 PROVE  /\ owner'[u] = None <=> sock'[u] = "free"
                        /\ owner'[u] # None => phase'[owner'[u]] # "new"
                        /\ owner'[u] # None /\ phase'[owner'[u]] = "started"
                             => socket'[owner'[u]] = u
      BY DEF OwnerInv
    <2>1. CASE u = s
      BY <1>0, <1>1, <1>2, <2>1 DEF TypeOK
    <2>2. CASE u # s
      BY <1>0, <1>1, <1>2, <1>4, <1>6, <2>2 DEF IInv, OwnerInv, TypeOK
    <2> QED
      BY <2>1, <2>2
  <1>9. LineInv'
    <2> SUFFICES ASSUME NEW d \in Clients
                 PROVE  /\ phase'[d] = "started" =>
                             d = current' /\ (~timer'[d] <=> \E u \in Sockets : owner'[u] = d)
                        /\ phase'[d] # "started" =>
                             /\ ~timer'[d]
                             /\ socket'[d] = None
                             /\ \A u \in Sockets : owner'[u] = d => sock'[u] = "closing"
                        /\ phase'[d] = "new" => d # current' /\ delay'[d] = 2 /\ losses'[d] = 0
      BY DEF LineInv
    <2>1. CASE d = c
      BY <1>0, <1>2, <1>5, <2>1 DEF TypeOK
    <2>2. CASE d # c
      BY <1>0, <1>2, <1>3, <1>5, <1>6, <2>2 DEF IInv, LineInv, TypeOK
    <2> QED
      BY <2>1, <2>2
  <1>10. OneLine'
    BY <1>0, <1>1, <1>2, <1>5 DEF OneLine
  <1>11. StoppedIsSilent'
    BY <1>9 DEF StoppedIsSilent, LineInv
  <1>12. BackoffDoubles'
    BY <1>5 DEF BackoffDoubles
  <1>13. DelayInv'
    BY <1>0, <1>2, <1>5, <1>6 DEF IInv, LineInv, DelayInv, Delays, TypeOK, Phases
  <1> QED
    BY <1>7, <1>8, <1>9, <1>10, <1>11, <1>12, <1>13 DEF IInv

\* A timer that fires keeps the invariant: it was the only line of its client.
LEMMA TimerStep ==
    ASSUME IInv, NEW c \in Clients, NEW s \in Sockets, TimerFires(c, s)
    PROVE  IInv'
  <1> USE ConstantsAssumption
  <1>0. TypeOK /\ timer[c] /\ sock[s] = "free" /\ phase[c] = "started" /\ current = c
    BY DEF IInv, LineInv, TimerFires, TypeOK
  <1>1. /\ timer' = [timer EXCEPT ![c] = FALSE]
        /\ wait' = [wait EXCEPT ![c] = 0]
        /\ delay' = [delay EXCEPT ![c] = Least(2 * delay[c], 30)]
        /\ sock' = [sock EXCEPT ![s] = "connecting"]
        /\ owner' = [owner EXCEPT ![s] = c]
        /\ socket' = [socket EXCEPT ![c] = s]
        /\ UNCHANGED <<phase, current, losses>>
    BY DEF TimerFires, MaxDelay
  <1>2. /\ \A u \in Sockets : owner[u] # c /\ sock[u] \notin Live
        /\ \A d \in Clients : ~timer'[d]
    BY <1>0, <1>1 DEF IInv, LineInv, OneLine, TypeOK
  <1>3. Least(2 * delay[c], 30) = IF delay[c] = 30 THEN 30 ELSE
          IF delay[c] = 16 THEN 30 ELSE 2 * delay[c]
    BY <1>0 DEF Least, TypeOK
  <1>4. TypeOK'
    <2>1. Least(2 * delay[c], 30) \in {2, 4, 8, 16, 30}
      BY <1>0, <1>3 DEF TypeOK
    <2>2. delay' \in [Clients -> {2, 4, 8, 16, 30}] /\ wait' \in [Clients -> {0, 2, 4, 8, 16, 30}]
      BY <1>0, <1>1, <2>1 DEF TypeOK
    <2>3. timer' \in [Clients -> BOOLEAN]
      BY <1>0, <1>1, Zenon DEF TypeOK
    <2> QED
      BY <1>0, <1>1, <2>2, <2>3 DEF TypeOK, SocketStates
  <1>5. OwnerInv'
    BY <1>0, <1>1, <1>2 DEF IInv, OwnerInv, TypeOK
  <1>6. LineInv'
    BY <1>0, <1>1, <1>2 DEF IInv, LineInv, TypeOK
  <1>7. OneLine'
    BY <1>0, <1>1, <1>2 DEF OneLine, TypeOK
  <1>8. StoppedIsSilent'
    BY <1>6 DEF LineInv, StoppedIsSilent
  <1>9. BackoffDoubles'
    BY <1>2 DEF BackoffDoubles
  <1>10. DelayInv'
    <2>1. delay[c] = wait[c] /\ losses[c] \in 1..5 /\ wait[c] = Delays[losses[c]]
      BY <1>0 DEF IInv, DelayInv, BackoffDoubles, TypeOK
    <2>2. Least(2 * delay[c], 30) = Delays[losses[c] + 1]
      BY <1>3, <2>1 DEF Delays
    <2> QED
      BY <1>0, <1>1, <1>2, <2>2 DEF IInv, DelayInv, TypeOK
  <1> QED
    BY <1>4, <1>5, <1>6, <1>7, <1>8, <1>9, <1>10 DEF IInv

\* Every step keeps the invariant.
LEMMA NextIInv == IInv /\ [Next]_vars => IInv'
  <1> SUFFICES ASSUME IInv, [Next]_vars PROVE IInv'
    OBVIOUS
  <1> USE ConstantsAssumption
  <1>1. ASSUME NEW s \in Sockets, Opened(s) PROVE IInv'
    <2>0. TypeOK /\ sock[s] = "connecting" /\ owner[s] \in Clients /\ phase[owner[s]] = "started"
          /\ ~timer[owner[s]]
      BY <1>1 DEF Opened, IInv, OwnerInv, LineInv, TypeOK, Phases
    <2>1. TypeOK'
      BY <1>1, <2>0 DEF Opened, TypeOK, SocketStates, InitialDelay
    <2>2. OwnerInv' /\ LineInv' /\ StoppedIsSilent'
      BY <1>1, <2>0 DEF Opened, IInv, OwnerInv, LineInv, StoppedIsSilent, TypeOK
    <2>3. OneLine'
      BY <1>1, <2>0 DEF Opened, IInv, OneLine, Live, TypeOK
    <2>4. BackoffDoubles' /\ DelayInv'
      BY <1>1, <2>0 DEF Opened, IInv, BackoffDoubles, DelayInv, Delays, InitialDelay, TypeOK
    <2> QED
      BY <2>1, <2>2, <2>3, <2>4 DEF IInv
  <1>2. ASSUME NEW s \in Sockets, PeerCloses(s) PROVE IInv'
    <2>1. TypeOK'
      BY <1>2 DEF PeerCloses, IInv, TypeOK, SocketStates
    <2>2. OwnerInv' /\ LineInv' /\ StoppedIsSilent'
      BY <1>2 DEF PeerCloses, IInv, OwnerInv, LineInv, StoppedIsSilent, TypeOK
    <2>3. OneLine'
      BY <1>2 DEF PeerCloses, IInv, OneLine, Live, TypeOK
    <2>4. BackoffDoubles' /\ DelayInv'
      BY <1>2 DEF PeerCloses, IInv, BackoffDoubles, DelayInv, TypeOK
    <2> QED
      BY <2>1, <2>2, <2>3, <2>4 DEF IInv
  <1>3. ASSUME NEW s \in Sockets, Breaks(s) \/ Closed(s) PROVE IInv'
    BY <1>3, CloseStep DEF Breaks, Closed, Live
  <1>4. ASSUME NEW s \in Sockets, HelloError(s) PROVE IInv'
    <2>1. owner[s] \in Clients
      BY <1>4 DEF HelloError, IInv, OwnerInv, TypeOK
    <2> QED
      BY <1>4, <2>1, StopStep DEF HelloError
  <1>5. ASSUME NEW c \in Clients, NEW s \in Sockets, StartRuntime(c, s) PROVE IInv'
    BY <1>5, StartStep
  <1>6. ASSUME NEW c \in Clients, NEW s \in Sockets, TimerFires(c, s) PROVE IInv'
    BY <1>6, TimerStep
  <1>7. CASE StopRuntime
    <2>1. current \in Clients
      BY <1>7 DEF StopRuntime, IInv, TypeOK
    <2> QED
      BY <1>7, <2>1, StopStep DEF StopRuntime
  <1>8. CASE UNCHANGED vars
    BY <1>8 DEF vars, IInv, TypeOK, OwnerInv, LineInv, OneLine, StoppedIsSilent,
                BackoffDoubles, DelayInv
  <1> QED
    BY <1>1, <1>2, <1>3, <1>4, <1>5, <1>6, <1>7, <1>8 DEF Next

\* The inductive invariant holds in every reachable state.
THEOREM Invariance == Spec => []IInv
  BY InitIInv, NextIInv, PTL DEF Spec

\* Every variable has its type in every reachable state.
THEOREM TypeCorrect == Spec => []TypeOK
  <1>1. IInv => TypeOK
    BY DEF IInv
  <1> QED
    BY <1>1, Invariance, PTL

\* Never two connections, nor a connection and a timer, however many runtimes
\* have replaced each other (bridge-client.ts 107-150, 175-182; runtime.ts
\* 44-46, 90-97).
THEOREM OneLineOnly == Spec => []OneLine
  <1>1. IInv => OneLine
    BY DEF IInv
  <1> QED
    BY <1>1, Invariance, PTL

\* A stopped client never connects again, although the close that stop()
\* causes comes after it (bridge-client.ts 41-46, 175-176).
THEOREM StoppedStaysSilent == Spec => []StoppedIsSilent
  <1>1. IInv => StoppedIsSilent
    BY DEF IInv
  <1> QED
    BY <1>1, Invariance, PTL

\* The delay doubles with every close in a row, up to 30 seconds
\* (bridge-client.ts 118, 175-182).
THEOREM DelaysDouble == Spec => []BackoffDoubles
  <1>1. IInv => BackoffDoubles
    BY DEF IInv
  <1> QED
    BY <1>1, Invariance, PTL


-----------------------------------------------------------------------------
(* The refinement of Line.                                                 *)

\* What is connecting or open belongs to the active runtime's client, and
\* that client is started.
LEMMA LiveIsTheLine ==
    ASSUME IInv, NEW s \in Sockets, sock[s] \in Live
    PROVE  /\ current \in Clients
           /\ owner[s] = current
           /\ socket[current] = s
           /\ phase[current] = "started"
           /\ ~timer[current]
  BY ConstantsAssumption
  DEF IInv, OneLine, OwnerInv, LineInv, TypeOK, SocketStates, Phases, Live

\* Only the active runtime's client is started.
LEMMA StartedIsActive ==
    ASSUME IInv, NEW c \in Clients, phase[c] = "started"
    PROVE  /\ current = c
           /\ {d \in Clients : phase[d] = "started"} = {c}
  BY DEF IInv, LineInv

\* A stop of a client that is started gives the line up; of another, changes
\* nothing that Line sees.
LEMMA StopRefines ==
    ASSUME IInv, NEW c \in Clients, Stop(c), phase[c] # "new", UNCHANGED losses
    PROVE  Lines!GiveUp \/ UNCHANGED Lines!lineVars
  <1> USE ConstantsAssumption
  <1>0. TypeOK
    BY DEF IInv
  <1>1. /\ phase' = [phase EXCEPT ![c] = "stopped"]
        /\ timer' = [timer EXCEPT ![c] = FALSE]
        /\ wait' = [wait EXCEPT ![c] = 0]
        /\ sock' = Hung(c)
    BY DEF Stop
  <1>2. \A s \in Sockets : sock'[s] \in Live =>
          sock[s] \in Live /\ sock'[s] = sock[s] /\ s # socket[c]
    BY <1>0, <1>1, HungType
  <1>3. CASE phase[c] = "started"
    <2>1. current = c /\ {d \in Clients : phase[d] = "started"} = {c}
      BY <1>3, StartedIsActive
    <2>2. \A s \in Sockets : LineOf(s)' = "none"
      BY <1>2, <2>1, LiveIsTheLine DEF LineOf
    <2>3. \A d \in Clients : phase'[d] # "started" /\ ~timer'[d]
      BY <1>0, <1>1, <2>1 DEF IInv, LineInv, TypeOK
    <2>4. \A d \in Clients : PauseOf(d)' = 0 /\ FailuresOf(d)' = 0
      BY <2>3 DEF PauseOf, FailuresOf
    <2>5. {d \in Clients : phase'[d] = "stopped"} = {d \in Clients : phase[d] = "stopped"} \cup {c}
      BY <1>0, <1>1 DEF TypeOK
    <2> QED
      BY <2>1, <2>2, <2>3, <2>4, <2>5 DEF Lines!GiveUp, Lines!NoLine, Lines!Zero
  <1>4. CASE phase[c] # "started"
    <2>1. phase[c] = "stopped" /\ ~timer[c]
      BY <1>0, <1>4 DEF IInv, LineInv, TypeOK, Phases
    <2>2. phase' = phase
      BY <1>0, <1>1, <2>1 DEF TypeOK
    <2>3. \A s \in Sockets : LineOf(s)' = LineOf(s)
      <3>1. socket[c] = None
        BY <1>4 DEF IInv, LineInv
      <3>2. sock' = [s \in Sockets |-> sock[s]]
        BY <1>1, <3>1 DEF Hung
      <3> QED
        BY <3>2 DEF LineOf
    <2>4. \A d \in Clients : PauseOf(d)' = PauseOf(d) /\ FailuresOf(d)' = FailuresOf(d)
      BY <1>0, <1>1, <2>1, <2>2 DEF PauseOf, FailuresOf, TypeOK
    <2> QED
      BY <2>2, <2>3, <2>4 DEF Lines!lineVars
  <1> QED
    BY <1>3, <1>4

\* A new runtime's client takes the line over.
LEMMA StartRefines ==
    ASSUME IInv, NEW c \in Clients, NEW s \in Sockets, StartRuntime(c, s)
    PROVE  Lines!Take(c, s)
  <1> USE ConstantsAssumption
  <1>0. TypeOK /\ phase[c] = "new" /\ losses[c] = 0 /\ c # current
    BY DEF IInv, LineInv, StartRuntime
  <1>1. /\ phase' = [d \in Clients |-> IF d = c THEN "started"
                                       ELSE IF d = current THEN "stopped" ELSE phase[d]]
        /\ timer' = [d \in Clients |-> d # current /\ timer[d]]
        /\ losses' = losses
    BY DEF StartRuntime
  <1>2. \A d \in Clients : phase[d] = "started" => d = current
    BY StartedIsActive
  <1>3. {d \in Clients : phase'[d] = "started"} = {c}
    BY <1>1, <1>2
  <1>4. {d \in Clients : phase'[d] = "stopped"}
          = {d \in Clients : phase[d] = "stopped"} \cup {d \in Clients : phase[d] = "started"}
    <2>1. \A d \in Clients : d = current => phase[d] \in {"started", "stopped"}
      BY <1>0 DEF IInv, LineInv, TypeOK, Phases
    <2> QED
      BY <1>0, <1>1, <1>2, <2>1
  <1>5. \A u \in Sockets : LineOf(u)' = IF u = s THEN "connecting" ELSE "none"
    <2>1. sock' = [Hung(current) EXCEPT ![s] = "connecting"]
      BY DEF StartRuntime
    <2>2. Hung(current) \in [Sockets -> SocketStates]
      BY <1>0, HungType DEF TypeOK
    <2>3. \A u \in Sockets : Hung(current)[u] \notin Live
      BY <1>0, HungType, LiveIsTheLine DEF TypeOK
    <2> QED
      BY <2>1, <2>2, <2>3 DEF LineOf, Live
  <1>6. \A d \in Clients : PauseOf(d)' = 0
    BY <1>1, <1>2 DEF IInv, LineInv, PauseOf
  <1>7. \A d \in Clients : FailuresOf(d)' = 0
    BY <1>0, <1>1, <1>2 DEF FailuresOf
  <1>8. c \notin {d \in Clients : phase[d] = "started"} \cup {d \in Clients : phase[d] = "stopped"}
    BY <1>0
  <1> QED
    BY <1>3, <1>4, <1>5, <1>6, <1>7, <1>8 DEF Lines!Take, Lines!Calling, Lines!Zero

\* "open" is the answer.
LEMMA OpenedRefines ==
    ASSUME IInv, NEW s \in Sockets, Opened(s)
    PROVE  current \in Clients /\ Lines!Answered(current, s)
  <1>0. TypeOK /\ sock[s] = "connecting"
    BY DEF IInv, Opened
  <1>1. current \in Clients /\ owner[s] = current /\ phase[current] = "started"
    BY <1>0, LiveIsTheLine DEF Live
  <1>2. /\ sock' = [sock EXCEPT ![s] = "open"]
        /\ losses' = [losses EXCEPT ![current] = 0]
        /\ UNCHANGED <<timer, phase, wait>>
    BY <1>1 DEF Opened
  <1>3. LineOf(s) = "connecting"
        /\ \A u \in Sockets : LineOf(u)' = IF u = s THEN "open" ELSE LineOf(u)
    BY <1>0, <1>2 DEF LineOf, Live, TypeOK
  <1>4. \A d \in Clients : /\ PauseOf(d)' = PauseOf(d)
                           /\ FailuresOf(d)' = IF d = current THEN 0 ELSE FailuresOf(d)
    BY <1>0, <1>2 DEF PauseOf, FailuresOf, TypeOK
  <1>5. [u \in Sockets |-> LineOf(u)'] = [[u \in Sockets |-> LineOf(u)] EXCEPT ![s] = "open"]
    BY <1>3
  <1>6. [d \in Clients |-> FailuresOf(d)']
          = [[d \in Clients |-> FailuresOf(d)] EXCEPT ![current] = 0]
    BY <1>4
  <1> QED
    BY <1>1, <1>2, <1>3, <1>4, <1>5, <1>6 DEF Lines!Answered

\* What the other end closes was the connection.
LEMMA PeerClosesRefines ==
    ASSUME IInv, NEW s \in Sockets, PeerCloses(s)
    PROVE  Lines!HungUp(s)
  <1>0. TypeOK /\ sock[s] = "open" /\ sock' = [sock EXCEPT ![s] = "closing"]
        /\ UNCHANGED <<timer, phase, losses, wait>>
    BY DEF IInv, PeerCloses
  <1>1. LineOf(s) = "open" /\ \A u \in Sockets : LineOf(u)' = "none"
    <2>1. \A u \in Sockets : sock[u] \in Live => u = s
      BY <1>0, LiveIsTheLine DEF Live
    <2> QED
      BY <1>0, <2>1 DEF LineOf, Live, TypeOK
  <1>2. \A d \in Clients : PauseOf(d)' = PauseOf(d) /\ FailuresOf(d)' = FailuresOf(d)
    BY <1>0 DEF PauseOf, FailuresOf
  <1> QED
    BY <1>0, <1>1, <1>2 DEF Lines!HungUp, Lines!NoLine

\* The "close" of a socket of the started client makes it wait; of another,
\* changes nothing that Line sees.
LEMMA CloseRefines ==
    ASSUME IInv, NEW s \in Sockets, sock[s] # "free", OnClose(s)
    PROVE  (\E c \in Clients : Lines!Wait(c)) \/ UNCHANGED Lines!lineVars
  <1> USE ConstantsAssumption
  <1> DEFINE c == owner[s]
  <1>0. TypeOK /\ c \in Clients /\ phase[c] \in {"started", "stopped"}
    BY DEF IInv, OwnerInv, TypeOK, Phases
  <1>1. /\ sock' = [sock EXCEPT ![s] = "free"]
        /\ losses' = [losses EXCEPT ![c] = Least(@ + 1, 5)]
        /\ phase' = phase
    BY DEF OnClose
  <1>2. CASE phase[c] = "started"
    <2>1. /\ timer' = [timer EXCEPT ![c] = TRUE]
          /\ wait' = [wait EXCEPT ![c] = delay[c]]
      BY <1>2 DEF OnClose, ScheduleReconnect
    <2>2. current = c /\ ~timer[c]
      BY <1>0, <1>2 DEF IInv, LineInv
    <2>3. delay[c] = Delays[losses[c] + 1]
      BY <1>0, <1>2, <2>2 DEF IInv, DelayInv
    <2>4. \A u \in Sockets : LineOf(u)' = "none"
      <3>1. \A u \in Sockets : sock[u] \in Live => u = s
        BY <1>0, <1>2, <2>2, LiveIsTheLine DEF IInv, OwnerInv, TypeOK
      <3> QED
        BY <1>0, <1>1, <3>1 DEF LineOf, Live, TypeOK
    <2>5. PauseOf(c) = 0 /\ FailuresOf(c) = losses[c] /\ losses[c] \in 0..5
      BY <1>0, <1>2, <2>2 DEF PauseOf, FailuresOf, TypeOK
    <2>6. \A d \in Clients : PauseOf(d)' = IF d = c THEN Delays[losses[c] + 1] ELSE PauseOf(d)
      BY <1>0, <2>1, <2>3 DEF PauseOf, TypeOK
    <2> DEFINE n == IF losses[c] + 1 < 6 THEN losses[c] + 1 ELSE losses[c]
    <2>7. \A d \in Clients : FailuresOf(d)' = IF d = c THEN n ELSE FailuresOf(d)
      BY <1>0, <1>1, <1>2 DEF FailuresOf, Least, TypeOK
    <2>10. Len(Delays) = 6
      BY DEF Delays
    <2>11. n = IF losses[c] + 1 < Len(Delays) THEN losses[c] + 1 ELSE losses[c]
      BY <2>10
    <2>8. [d \in Clients |-> PauseOf(d)']
            = [[d \in Clients |-> PauseOf(d)] EXCEPT ![c] = Delays[losses[c] + 1]]
      BY <2>6
    <2>9. [d \in Clients |-> FailuresOf(d)']
            = [[d \in Clients |-> FailuresOf(d)] EXCEPT ![c] = n]
      <3> HIDE DEF n, c
      <3> QED
        BY <2>7
    <2> HIDE DEF c, n
    <2>12. Lines!Wait(c)
      BY <1>0, <1>1, <1>2, <2>4, <2>5, <2>8, <2>9, <2>11 DEF Lines!Wait, Lines!NoLine
    <2> QED
      BY <1>0, <2>12
  <1>3. CASE phase[c] = "stopped"
    <2>1. UNCHANGED <<timer, wait>>
      BY <1>3 DEF OnClose, ScheduleReconnect
    <2>2. sock[s] \notin Live
      BY <1>0, <1>3, LiveIsTheLine
    <2>3. \A u \in Sockets : LineOf(u)' = LineOf(u)
      BY <1>0, <1>1, <2>2 DEF LineOf, Live, TypeOK
    <2>4. \A d \in Clients : PauseOf(d)' = PauseOf(d) /\ FailuresOf(d)' = FailuresOf(d)
      BY <1>0, <1>1, <1>3, <2>1 DEF PauseOf, FailuresOf, TypeOK
    <2> QED
      BY <1>1, <2>3, <2>4 DEF Lines!lineVars
  <1> QED
    BY <1>0, <1>2, <1>3

\* The timer that fires was what the client waited for.
LEMMA TimerRefines ==
    ASSUME IInv, NEW c \in Clients, NEW s \in Sockets, TimerFires(c, s)
    PROVE  Lines!Retry(c, s)
  <1>0. TypeOK /\ timer[c] /\ sock[s] = "free" /\ phase[c] = "started" /\ current = c
    BY DEF IInv, LineInv, TimerFires, TypeOK
  <1>1. /\ timer' = [timer EXCEPT ![c] = FALSE]
        /\ sock' = [sock EXCEPT ![s] = "connecting"]
        /\ UNCHANGED <<phase, losses>>
        /\ wait' = [wait EXCEPT ![c] = 0]
    BY DEF TimerFires
  <1>2. \A u \in Sockets : /\ LineOf(u) = "none"
                           /\ LineOf(u)' = IF u = s THEN "connecting" ELSE "none"
    <2>1. \A u \in Sockets : sock[u] \notin Live
      BY <1>0, LiveIsTheLine
    <2> QED
      BY <1>0, <1>1, <2>1 DEF LineOf, Live, TypeOK
  <1>3. PauseOf(c) # 0
    <2>1. losses[c] \in 1..5 /\ wait[c] = Delays[losses[c]]
      BY <1>0 DEF IInv, BackoffDoubles, TypeOK
    <2> QED
      BY <1>0, <2>1 DEF PauseOf, Delays
  <1>4. \A d \in Clients : /\ PauseOf(d)' = IF d = c THEN 0 ELSE PauseOf(d)
                           /\ FailuresOf(d)' = FailuresOf(d)
    BY <1>0, <1>1 DEF PauseOf, FailuresOf, TypeOK
  <1>5. [d \in Clients |-> PauseOf(d)'] = [[d \in Clients |-> PauseOf(d)] EXCEPT ![c] = 0]
    BY <1>4
  <1> QED
    BY <1>0, <1>1, <1>2, <1>3, <1>4, <1>5 DEF Lines!Retry, Lines!NoLine, Lines!Calling

\* Every step is a step of Line or changes nothing that Line sees.
LEMMA NextRefines == IInv /\ [Next]_vars => [Lines!Next]_(Lines!lineVars)
  <1> SUFFICES ASSUME IInv, [Next]_vars PROVE Lines!Next \/ UNCHANGED Lines!lineVars
    OBVIOUS
  <1> USE ConstantsAssumption
  <1>1. ASSUME NEW s \in Sockets, Opened(s) PROVE Lines!Next
    BY <1>1, OpenedRefines DEF Lines!Next
  <1>2. ASSUME NEW s \in Sockets, PeerCloses(s) PROVE Lines!Next
    BY <1>2, PeerClosesRefines DEF Lines!Next
  <1>3. ASSUME NEW s \in Sockets, Breaks(s) \/ Closed(s)
        PROVE  Lines!Next \/ UNCHANGED Lines!lineVars
    <2>1. sock[s] # "free" /\ OnClose(s)
      BY <1>3 DEF Breaks, Closed, Live
    <2> QED
      BY <2>1, CloseRefines DEF Lines!Next
  <1>4. ASSUME NEW s \in Sockets, HelloError(s) PROVE Lines!Next \/ UNCHANGED Lines!lineVars
    <2>1. owner[s] \in Clients /\ phase[owner[s]] # "new" /\ Stop(owner[s]) /\ losses' = losses
      BY <1>4 DEF HelloError, IInv, OwnerInv, TypeOK
    <2> QED
      BY <2>1, StopRefines DEF Lines!Next
  <1>5. ASSUME NEW c \in Clients, NEW s \in Sockets, StartRuntime(c, s) PROVE Lines!Next
    BY <1>5, StartRefines DEF Lines!Next
  <1>6. ASSUME NEW c \in Clients, NEW s \in Sockets, TimerFires(c, s) PROVE Lines!Next
    BY <1>6, TimerRefines DEF Lines!Next
  <1>7. CASE StopRuntime
    <2>1. current \in Clients /\ phase[current] # "new" /\ Stop(current) /\ losses' = losses
      BY <1>7 DEF StopRuntime, IInv, LineInv, TypeOK
    <2>2. Lines!GiveUp \/ UNCHANGED Lines!lineVars
      BY <2>1, StopRefines
    <2> QED
      BY <2>2 DEF Lines!Next
  <1>8. CASE UNCHANGED vars
    <2>1. UNCHANGED <<sock, timer, phase, losses, wait>>
      BY <1>8 DEF vars
    <2>2. \A u \in Sockets : LineOf(u)' = LineOf(u)
      BY <2>1 DEF LineOf
    <2>3. \A d \in Clients : PauseOf(d)' = PauseOf(d) /\ FailuresOf(d)' = FailuresOf(d)
      BY <2>1 DEF PauseOf, FailuresOf
    <2> QED
      BY <2>1, <2>2, <2>3 DEF Lines!lineVars
  <1> QED
    BY <1>1, <1>2, <1>3, <1>4, <1>5, <1>6, <1>7, <1>8 DEF Next

\* The client and its runtime keep the promise of Line, for any number of
\* runtimes and sockets: one client at a time has one connection, waits or
\* is about to, the waits double, and a client that was stopped never
\* connects again (bridge-client.ts 41-46, 107-150, 175-182; runtime.ts
\* 44-46, 90-97).
THEOREM Refinement == Spec => ImplementsLine
  <1>1. Init => Lines!Init
    BY DEF Init, LineOf, PauseOf, FailuresOf, Live,
           Lines!Init, Lines!NoLine, Lines!Zero
  <1> QED
    BY <1>1, NextRefines, Invariance, PTL DEF Spec, ImplementsLine, Lines!Spec
==============================================================================
