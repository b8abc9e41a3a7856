----------------------------- MODULE PluginClient -----------------------------
(***************************************************************************)
(* The plugin's end of the WebSocket: LobsterPotBridgeClient               *)
(* (packages/openclaw-channel/src/bridge-client.ts) and the runtime that   *)
(* owns one (runtime.ts).  A client connects, says hello, waits with a     *)
(* growing delay after every close and connects again, until the runtime   *)
(* or a hello.error stops it.  A new runtime has a new client.             *)
(*                                                                         *)
(* A socket object whose "close" was delivered is free and may stand for a *)
(* later object.  Node runs one callback at a time, so each is one action. *)
(* Frames other than hello.error change nothing here: an inbound.message   *)
(* is modelled in SubagentRuntime, a heartbeat is echoed.                  *)
(***************************************************************************)
EXTENDS Naturals

CONSTANTS
    Clients,      \* LobsterPotBridgeClient objects, one per runtime
    Sockets,      \* WebSocket objects
    None

ASSUME ConstantsAssumption == None \notin Clients \cup Sockets

VARIABLES
    sock,         \* [Sockets -> SocketStates]: readyState; free: no object,
                  \* or CLOSED and "close" delivered
    owner,        \* [Sockets -> Clients \cup {None}]: whose listeners it has
    socket,       \* [Clients -> Sockets \cup {None}]: this.socket
    timer,        \* [Clients -> BOOLEAN]: reconnectTimer is pending
    phase,        \* [Clients -> Phases]: start() called, this.stopped
    delay,        \* [Clients -> Nat]: reconnectDelayMs, in seconds
    current,      \* activeRuntime: its client
    losses,       \* history: closes since the last "open", counted to five
    wait          \* history: the delay the pending timer was set with

vars == <<sock, owner, socket, timer, phase, delay, current, losses, wait>>

SocketStates == {"free", "connecting", "open", "closing"}
Live == {"connecting", "open"}
Phases == {"new", "started", "stopped"}

InitialDelay == 2
MaxDelay == 30
Least(a, b) == IF a <= b THEN a ELSE b

TypeOK ==
    /\ sock \in [Sockets -> SocketStates]
    /\ owner \in [Sockets -> Clients \cup {None}]
    /\ socket \in [Clients -> Sockets \cup {None}]
    /\ timer \in [Clients -> BOOLEAN]
    /\ phase \in [Clients -> Phases]
    /\ delay \in [Clients -> {2, 4, 8, 16, 30}]
    /\ current \in Clients \cup {None}
    /\ losses \in [Clients -> 0..5]
    /\ wait \in [Clients -> {0, 2, 4, 8, 16, 30}]

Init ==
    /\ sock = [s \in Sockets |-> "free"]
    /\ owner = [s \in Sockets |-> None]
    /\ socket = [c \in Clients |-> None]
    /\ timer = [c \in Clients |-> FALSE]
    /\ phase = [c \in Clients |-> "new"]
    /\ delay = [c \in Clients |-> InitialDelay]
    /\ current = None
    /\ losses = [c \in Clients |-> 0]
    /\ wait = [c \in Clients |-> 0]

-----------------------------------------------------------------------------
(* connect, stop and scheduleReconnect, called by the handlers.            *)

\* What sock is once stop() has called close() on the socket of c, if any:
\* a connecting or open socket is then CLOSING.
Hung(c) ==
    [s \in Sockets |->
        IF c # None /\ s = socket[c] /\ sock[s] \in Live THEN "closing" ELSE sock[s]]

\* A bug: stop() leaves the timer.
StopKeepsTimer(c) ==
    /\ phase' = [phase EXCEPT ![c] = "stopped"]
    /\ sock' = Hung(c)
    /\ socket' = [socket EXCEPT ![c] = None]
    /\ UNCHANGED <<timer, wait>>

\* stop().
Stop(c) ==
    /\ phase' = [phase EXCEPT ![c] = "stopped"]
    /\ timer' = [timer EXCEPT ![c] = FALSE]
    /\ wait' = [wait EXCEPT ![c] = 0]
    /\ sock' = Hung(c)
    /\ socket' = [socket EXCEPT ![c] = None]

\* scheduleReconnect(): a pending timer is replaced.
ScheduleReconnect(c) ==
    IF phase[c] = "stopped" THEN UNCHANGED <<timer, wait>>
    ELSE /\ timer' = [timer EXCEPT ![c] = TRUE]
         /\ wait' = [wait EXCEPT ![c] = delay[c]]

\* A bug: a connection that closed is not followed by another.
OnCloseForgets(s) ==
    LET c == owner[s]
    IN  /\ sock' = [sock EXCEPT ![s] = "free"]
        /\ owner' = [owner EXCEPT ![s] = None]
        /\ losses' = [losses EXCEPT ![c] = Least(@ + 1, 5)]
        /\ UNCHANGED <<socket, timer, wait, phase, delay, current>>

\* The "close" listener, the same for every way a socket ends.
OnClose(s) ==
    LET c == owner[s]
    IN  /\ sock' = [sock EXCEPT ![s] = "free"]
        /\ owner' = [owner EXCEPT ![s] = None]
        /\ losses' = [losses EXCEPT ![c] = Least(@ + 1, 5)]
        /\ ScheduleReconnect(c)
        /\ UNCHANGED <<socket, phase, delay, current>>

-----------------------------------------------------------------------------
(* Actions.                                                                *)

\* A bug: the previous runtime is not stopped.
StartRuntimeBeside(c, s) ==
    /\ phase[c] = "new"
    /\ sock[s] = "free"
    /\ phase' = [phase EXCEPT ![c] = "started"]
    /\ sock' = [sock EXCEPT ![s] = "connecting"]
    /\ owner' = [owner EXCEPT ![s] = c]
    /\ socket' = [socket EXCEPT ![c] = s]
    /\ current' = c
    /\ UNCHANGED <<timer, wait, delay, losses>>

\* startLobsterPotRuntime: the previous runtime is stopped, a new client is
\* made and connects to the bridge.
StartRuntime(c, s) ==
    /\ phase[c] = "new"
    /\ sock[s] = "free"
    /\ phase' = [d \in Clients |-> IF d = c THEN "started"
                                   ELSE IF d = current THEN "stopped" ELSE phase[d]]
    /\ sock' = [Hung(current) EXCEPT ![s] = "connecting"]
    /\ owner' = [owner EXCEPT ![s] = c]
    /\ socket' = [d \in Clients |-> IF d = c THEN s
                                    ELSE IF d = current THEN None ELSE socket[d]]
    /\ timer' = [d \in Clients |-> d # current /\ timer[d]]
    /\ wait' = [d \in Clients |-> IF d = current THEN 0 ELSE wait[d]]
    /\ current' = c
    /\ UNCHANGED <<delay, losses>>

\* stopLobsterPotRuntime; or startLobsterPotRuntime with a configuration that
\* is not valid, which has stopped the previous runtime by then.
StopRuntime ==
    /\ current # None
    /\ Stop(current)
    /\ current' = None
    /\ UNCHANGED <<owner, delay, losses>>

\* "open": the delay is reset, hello is sent.
Opened(s) ==
    /\ sock[s] = "connecting"
    /\ sock' = [sock EXCEPT ![s] = "open"]
    /\ delay' = [delay EXCEPT ![owner[s]] = InitialDelay]
    /\ losses' = [losses EXCEPT ![owner[s]] = 0]
    /\ UNCHANGED <<owner, socket, timer, phase, current, wait>>

\* A close frame, or the end of the stream, arrives; "close" comes later.
PeerCloses(s) ==
    /\ sock[s] = "open"
    /\ sock' = [sock EXCEPT ![s] = "closing"]
    /\ UNCHANGED <<owner, socket, timer, phase, delay, current, losses, wait>>

\* The connection cannot be made, or breaks: "error", then "close".
Breaks(s) == sock[s] \in Live /\ OnClose(s)

\* "close" of a socket that was closing.
Closed(s) == sock[s] = "closing" /\ OnClose(s)

\* hello.error stops the client; the runtime stays the active one.  ws
\* delivers frames to a closing socket too.
HelloError(s) ==
    /\ sock[s] \in {"open", "closing"}
    /\ Stop(owner[s])
    /\ UNCHANGED <<owner, delay, current, losses>>

\* A bug: the timer is set again when it fires.
TimerFiresAndStays(c, s) ==
    /\ timer[c]
    /\ sock[s] = "free"
    /\ delay' = [delay EXCEPT ![c] = Least(2 * delay[c], MaxDelay)]
    /\ sock' = [sock EXCEPT ![s] = "connecting"]
    /\ owner' = [owner EXCEPT ![s] = c]
    /\ socket' = [socket EXCEPT ![c] = s]
    /\ UNCHANGED <<timer, wait, phase, current, losses>>

\* The timer of scheduleReconnect.  (stop() cleared it, so connect() never
\* returns early here.)
TimerFires(c, s) ==
    /\ timer[c]
    /\ sock[s] = "free"
    /\ timer' = [timer EXCEPT ![c] = FALSE]
    /\ wait' = [wait EXCEPT ![c] = 0]
    /\ delay' = [delay EXCEPT ![c] = Least(2 * delay[c], MaxDelay)]
    /\ sock' = [sock EXCEPT ![s] = "connecting"]
    /\ owner' = [owner EXCEPT ![s] = c]
    /\ socket' = [socket EXCEPT ![c] = s]
    /\ UNCHANGED <<phase, current, losses>>

Next ==
    \/ \E s \in Sockets :
        \/ Opened(s) \/ PeerCloses(s) \/ Breaks(s) \/ Closed(s) \/ HelloError(s)
        \/ \E c \in Clients : StartRuntime(c, s) \/ TimerFires(c, s)
    \/ StopRuntime

\* Node fires a timer that is due; ws ends a socket that stays CLOSING.
Fairness ==
    /\ \A c \in Clients : WF_vars(\E s \in Sockets : TimerFires(c, s))
    /\ \A s \in Sockets : WF_vars(Closed(s))

Spec == Init /\ [][Next]_vars /\ Fairness
-----------------------------------------------------------------------------
(* Properties.                                                             *)

\* The plugin never keeps two connections to the bridge, nor a connection
\* and a timer that would make another: whatever is connecting or open is the
\* socket of the active runtime's client, although runtimes replace each
\* other and every close of every socket may set a timer (bridge-client.ts
\* 107-150, 175-182; runtime.ts 44-46, 90-97).
OneLine ==
    \A s \in Sockets : sock[s] \in Live =>
        current # None /\ socket[current] = s /\ ~timer[current]

\* Nothing comes back after stop(): neither a timer that was pending nor the
\* close that stop() itself causes makes a connection (bridge-client.ts
\* 41-46, 175-176).
StoppedIsSilent ==
    \A c \in Clients : phase[c] = "stopped" =>
        ~timer[c] /\ \A s \in Sockets : owner[s] = c => sock[s] = "closing"

\* The powers of two, up to 30.
Delays == <<2, 4, 8, 16, 30, 30>>

\* The n-th close in a row without an "open" in between waits 2^n seconds,
\* and never more than 30 (bridge-client.ts 118, 175-182).
BackoffDoubles ==
    \A c \in Clients : timer[c] =>
        losses[c] >= 1 /\ wait[c] = Delays[losses[c]]

\* A client that is not stopped and has no connection tries again
\* (bridge-client.ts 142-145, 175-182).
KeepsTrying ==
    \A c \in Clients :
        (phase[c] = "started" /\ ~\E s \in Sockets : owner[s] = c /\ sock[s] \in Live)
            ~> (phase[c] = "stopped"
                \/ \E s \in Sockets : owner[s] = c /\ sock[s] = "connecting")

\* What Line calls the state of socket s, the pause and the failures of client
\* c: those of a client that is stopped do not matter.
LineOf(s) == IF sock[s] \in Live THEN sock[s] ELSE "none"
PauseOf(c) == IF timer[c] THEN wait[c] ELSE 0
FailuresOf(c) == IF phase[c] = "started" THEN losses[c] ELSE 0

\* The plugin keeps the promise of Line: in whatever order runtimes start and
\* stop, sockets of either close, answer or refuse and timers fire, one
\* client at a time has one connection, waits or is about to; its waits
\* double; and a client that was stopped never connects again
\* (bridge-client.ts 41-46, 107-150, 175-182; runtime.ts 44-46, 90-97).
Lines == INSTANCE Line WITH
    Waits    <- Delays,
    turn     <- {c \in Clients : phase[c] = "started"},
    past     <- {c \in Clients : phase[c] = "stopped"},
    line     <- [s \in Sockets |-> LineOf(s)],
    pause    <- [c \in Clients |-> PauseOf(c)],
    failures <- [c \in Clients |-> FailuresOf(c)]

ImplementsLine == Lines!Spec

-----------------------------------------------------------------------------
(* The inductive invariant behind the safety properties.                   *)

\* A socket that is not free has an owner that was started; only a socket of
\* a stopped client is not this.socket of its owner.
OwnerInv ==
    \A s \in Sockets :
        /\ owner[s] = None <=> sock[s] = "free"
        /\ owner[s] # None => phase[owner[s]] # "new"
        /\ owner[s] # None /\ phase[owner[s]] = "started" => socket[owner[s]] = s

\* A started client is the active runtime's; it has either a pending timer
\* and no socket, or a socket and no timer.  One not started is nobody's.
LineInv ==
    \A c \in Clients :
        /\ phase[c] = "started" =>
            /\ c = current
            /\ ~timer[c] <=> \E s \in Sockets : owner[s] = c
        /\ phase[c] # "started" =>
            /\ ~timer[c]
            /\ socket[c] = None
            /\ \A s \in Sockets : owner[s] = c => sock[s] = "closing"
        /\ phase[c] = "new" => c # current /\ delay[c] = 2 /\ losses[c] = 0

\* What the next timer will wait, while none is pending.
DelayInv ==
    \A c \in Clients : phase[c] # "stopped" =>
        delay[c] = IF timer[c] THEN wait[c] ELSE Delays[losses[c] + 1]

IInv == /\ TypeOK
        /\ OwnerInv
        /\ LineInv
        /\ OneLine
        /\ StoppedIsSilent
        /\ BackoffDoubles
        /\ DelayInv
==============================================================================
