------------------------------ MODULE PushTarget ------------------------------
(***************************************************************************)
(* What the bridge and the relay promise of the token they notify, without *)
(* boots, requests, grants or a network: there is one target for ever; the *)
(* token it holds was told to it, and each telling arrives once or is      *)
(* lost, in any order; a notification takes the token held when it starts; *)
(* only a refusal takes the token away, whichever it is by then; a target  *)
(* that was closed never holds a token again.  PushRelay implements this.  *)
(***************************************************************************)
CONSTANTS Targets, Tokens, Tellings, Notices, None

VARIABLES
    target,     \* the target, as a set
    closed,     \* it was closed
    held,       \* the token it holds, as a set
    coming,     \* [Tellings -> Tokens \cup {None}]: what is on its way to it
    notice      \* [Notices -> Tokens \cup {None}]: whom a notification is for

targetVars == <<target, closed, held, coming, notice>>

Init == /\ target = {}
        /\ closed = FALSE
        /\ held = {}
        /\ coming = [u \in Tellings |-> None]
        /\ notice = [x \in Notices |-> None]

Settle(h) ==
    /\ target = {}
    /\ target' = {h}
    /\ UNCHANGED <<closed, held, coming, notice>>

Close ==
    /\ target # {}
    /\ closed' = TRUE
    /\ held' = {}
    /\ UNCHANGED <<target, coming, notice>>

Tell(u, t) ==
    /\ target # {}
    /\ coming[u] = None
    /\ coming' = [coming EXCEPT ![u] = t]
    /\ UNCHANGED <<target, closed, held, notice>>

Arrive(u) ==
    /\ coming[u] # None
    /\ held' = IF closed THEN {} ELSE {coming[u]}
    /\ coming' = [coming EXCEPT ![u] = None]
    /\ UNCHANGED <<target, closed, notice>>

Notify(x, t) ==
    /\ t \in held
    /\ notice[x] = None
    /\ notice' = [notice EXCEPT ![x] = t]
    /\ UNCHANGED <<target, closed, held, coming>>

Refuse(x) ==
    /\ notice[x] # None
    /\ held' = {}
    /\ notice' = [notice EXCEPT ![x] = None]
    /\ UNCHANGED <<target, closed, coming>>

\* Tellings are lost; notifications are lost, or delivered.
Drop ==
    /\ coming' \in [Tellings -> Tokens \cup {None}]
    /\ notice' \in [Notices -> Tokens \cup {None}]
    /\ \A u \in Tellings : coming'[u] \in {coming[u], None}
    /\ \A x \in Notices : notice'[x] \in {notice[x], None}
    /\ UNCHANGED <<target, closed, held>>

Next == \/ \E h \in Targets : Settle(h)
        \/ \E u \in Tellings : Arrive(u) \/ \E t \in Tokens : Tell(u, t)
        \/ \E x \in Notices : Refuse(x) \/ \E t \in Tokens : Notify(x, t)
        \/ Close \/ Drop

Spec == Init /\ [][Next]_targetVars
==============================================================================
