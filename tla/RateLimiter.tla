------------------------------ MODULE RateLimiter ------------------------------
(***************************************************************************)
(* The fixed-window limiters in front of the bridge's public routes        *)
(* (apps/bridge/src/routes.ts 16-59, 139-147): each counts the requests of *)
(* a client address and opens a window at the first request after the      *)
(* last window ended.  A module that uses them adds their actions to its   *)
(* own; the clock only goes forward.                                       *)
(***************************************************************************)
EXTENDS Naturals, Sequences

CONSTANTS
    Limiters,     \* pairStartLimiter, pairFinishLimiter, setupTokenLimiter
    Keys,         \* client addresses, as clientIp reads them
    Max,          \* [Limiters -> Nat \ {0}]: max of each
    Window,       \* [Limiters -> Nat \ {0}]: windowMs of each
    MaxTime,      \* bound: the clock
    None

ASSUME LimiterAssumption ==
    /\ Max \in [Limiters -> Nat \ {0}]
    /\ Window \in [Limiters -> Nat \ {0}]
    /\ MaxTime \in Nat

VARIABLES
    now,          \* Date.now()
    counts,       \* [Limiters -> [Keys -> Entry \cup {NoEntry}]]
    passed        \* history: the checks that returned true since the boot,
                  \* with their time and the place of the first one of their
                  \* window

limiterVars == <<now, counts, passed>>

Entry == [count : Nat \ {0}, resetAt : Nat]
NoEntry == [count |-> 0, resetAt |-> 0]
Pass == [at : Nat, first : Nat \ {0}]

LimiterTypeOK ==
    /\ now \in Nat
    /\ counts \in [Limiters -> [Keys -> Entry \cup {NoEntry}]]
    /\ passed \in [Limiters -> [Keys -> Seq(Pass)]]

LimiterInit ==
    /\ now = 0
    /\ counts = [l \in Limiters |-> [k \in Keys |-> NoEntry]]
    /\ passed = [l \in Limiters |-> [k \in Keys |-> <<>>]]

Expired(l, k) == now >= counts[l][k].resetAt

\* A bug: one request more than max is let through.
AllowedOneMore(l, k) ==
    counts[l][k] = NoEntry \/ Expired(l, k) \/ counts[l][k].count <= Max[l]

\* check(key) returns true.
Allowed(l, k) == counts[l][k] = NoEntry \/ Expired(l, k) \/ counts[l][k].count < Max[l]

\* A bug: every request moves the end of the window, so that the count of an
\* address that never pauses goes on for ever.
CheckExtends(l, k) ==
    LET fresh == counts[l][k] = NoEntry \/ Expired(l, k)
        place == Len(passed[l][k]) + 1
    IN  /\ Allowed(l, k)
        /\ counts' = [counts EXCEPT ![l][k] =
                [count |-> IF fresh THEN 1 ELSE @.count + 1, resetAt |-> now + Window[l]]]
        /\ passed' = [passed EXCEPT ![l][k] = Append(@,
                [at |-> now, first |-> IF fresh THEN place ELSE @[Len(@)].first])]
        /\ UNCHANGED now

\* check(key) returning true: a new window, or one more in the running one.
Check(l, k) ==
    LET fresh == counts[l][k] = NoEntry \/ Expired(l, k)
        place == Len(passed[l][k]) + 1
    IN  /\ Allowed(l, k)
        /\ counts' = [counts EXCEPT ![l][k] =
                IF fresh THEN [count |-> 1, resetAt |-> now + Window[l]]
                ELSE [count |-> @.count + 1, resetAt |-> @.resetAt]]
        /\ passed' = [passed EXCEPT ![l][k] = Append(@,
                [at |-> now, first |-> IF fresh THEN place ELSE @[Len(@)].first])]
        /\ UNCHANGED now

\* A bug: prune forgets every window.
PruneAll ==
    /\ counts' = [l \in Limiters |-> [k \in Keys |-> NoEntry]]
    /\ UNCHANGED <<now, passed>>

\* The timer of 10 minutes calls prune() of all limiters.
Prune ==
    /\ counts' = [l \in Limiters |-> [k \in Keys |->
                    IF Expired(l, k) THEN NoEntry ELSE counts[l][k]]]
    /\ UNCHANGED <<now, passed>>

\* The limiters live in memory: a restart forgets them.
ForgetCounts ==
    /\ counts' = [l \in Limiters |-> [k \in Keys |-> NoEntry]]
    /\ passed' = [l \in Limiters |-> [k \in Keys |-> <<>>]]

Tick == now < MaxTime /\ now' = now + 1 /\ UNCHANGED <<counts, passed>>

-----------------------------------------------------------------------------
(* Properties.                                                             *)

\* However windows begin, end and are pruned, an address passes at most
\* 2 * max - 1 times in any stretch of time as long as a window: 2 * max
\* passes in a row take at least windowMs (routes.ts 24-41, 143-147).
RateIsBounded ==
    \A l \in Limiters, k \in Keys : \A i \in 1..Len(passed[l][k]) :
        LET j == i + 2 * Max[l] - 1
        IN  j <= Len(passed[l][k]) =>
                passed[l][k][j].at >= passed[l][k][i].at + Window[l]

\* An address that was refused is let in again when its window, counted from
\* the first request in it, is over, however often it asked meanwhile
\* (routes.ts 27-33).
RefusedNotForever ==
    \A l \in Limiters, k \in Keys : passed[l][k] # <<>> =>
        LET p == passed[l][k]
            opened == p[p[Len(p)].first].at
        IN  now >= opened + Window[l] => Allowed(l, k)

-----------------------------------------------------------------------------
(* The inductive invariant behind them.                                    *)

\* Passes are in the order of time; those of one window are next to each
\* other, at most Max, and begin Window after the window before.
PassesInv ==
    \A l \in Limiters, k \in Keys :
        LET p == passed[l][k]
        IN  \A i \in 1..Len(p) :
                /\ p[i].at <= now
                /\ p[i].first <= i
                /\ i < p[i].first + Max[l]
                /\ \A j \in 1..i : p[j].at <= p[i].at
                /\ p[i].first > 1 =>
                        LET g == p[p[i].first - 1].first
                        IN  p[p[i].first].at >= p[g].at + Window[l]

\* The entry of an address describes its newest window; it is gone only when
\* that window is over.
EntryInv ==
    \A l \in Limiters, k \in Keys :
        LET p == passed[l][k]
            e == counts[l][k]
            f == p[Len(p)].first
        IN  /\ e # NoEntry =>
                /\ p # <<>>
                /\ e.count = Len(p) - f + 1
                /\ e.resetAt = p[f].at + Window[l]
            /\ e = NoEntry /\ p # <<>> => now >= p[f].at + Window[l]

LimiterInv == LimiterTypeOK /\ PassesInv /\ EntryInv
==============================================================================
