--------------------------------- MODULE Line ---------------------------------
(***************************************************************************)
(* What the plugin promises of its connection to the bridge, without       *)
(* runtimes, listeners, timers or sockets that are closing: one client at  *)
(* a time has the line, a later one takes it over, and none gets it back.  *)
(* The client that has it makes one connection at a time; when that ends   *)
(* it waits, each time longer unless the connection had been made, and     *)
(* makes another.  PluginClient implements this.                           *)
(***************************************************************************)
EXTENDS Naturals, Sequences

CONSTANTS
    Clients,
    Sockets,
    Waits       \* how long to wait after the first, the second, ... failure

VARIABLES
    turn,       \* the client that has the line, as a set
    past,       \* clients that had it
    line,       \* [Sockets -> {"none", "connecting", "open"}]
    pause,      \* [Clients -> Nat]: how long the client waits, 0: it does not
    failures    \* [Clients -> Nat]: in a row, counted up to the longest wait

lineVars == <<turn, past, line, pause, failures>>

NoLine == [s \in Sockets |-> "none"]
Calling(s) == [t \in Sockets |-> IF t = s THEN "connecting" ELSE "none"]
Zero == [c \in Clients |-> 0]

Init == /\ turn = {}
        /\ past = {}
        /\ line = NoLine
        /\ pause = Zero
        /\ failures = Zero

\* A client that has not had the line takes it over, and connects.
Take(c, s) ==
    /\ c \notin turn \cup past
    /\ turn' = {c}
    /\ past' = past \cup turn
    /\ line' = Calling(s)
    /\ pause' = Zero
    /\ failures' = Zero

\* The client that has the line gives it up, in whatever state it is.
GiveUp ==
    /\ turn # {}
    /\ turn' = {}
    /\ past' = past \cup turn
    /\ line' = NoLine
    /\ pause' = Zero
    /\ failures' = Zero

\* The connection is made.
Answered(c, s) ==
    /\ c \in turn
    /\ line[s] = "connecting"
    /\ line' = [line EXCEPT ![s] = "open"]
    /\ failures' = [failures EXCEPT ![c] = 0]
    /\ UNCHANGED <<turn, past, pause>>

\* The other end hangs up.
HungUp(s) ==
    /\ line[s] = "open"
    /\ line' = NoLine
    /\ UNCHANGED <<turn, past, pause, failures>>

\* There is no connection, or no longer: the client waits.
Wait(c) ==
    /\ c \in turn
    /\ pause[c] = 0
    /\ line' = NoLine
    /\ pause' = [pause EXCEPT ![c] = Waits[failures[c] + 1]]
    /\ failures' = [failures EXCEPT ![c] = IF @ + 1 < Len(Waits) THEN @ + 1 ELSE @]
    /\ UNCHANGED <<turn, past>>

\* It has waited, and connects again.
Retry(c, s) ==
    /\ c \in turn
    /\ pause[c] # 0
    /\ line = NoLine
    /\ line' = Calling(s)
    /\ pause' = [pause EXCEPT ![c] = 0]
    /\ UNCHANGED <<turn, past, failures>>

Next == \/ \E c \in Clients : \/ Wait(c)
                              \/ \E s \in Sockets : Take(c, s) \/ Answered(c, s) \/ Retry(c, s)
        \/ \E s \in Sockets : HungUp(s)
        \/ GiveUp

Spec == Init /\ [][Next]_lineVars
==============================================================================
