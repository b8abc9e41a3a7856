--------------------------- MODULE ConnectionSlots ---------------------------
(***************************************************************************)
(* What the bridge's plugin hub promises, without sockets, rows or events: *)
(* every OpenClaw instance has one slot; a link that is up holds exactly   *)
(* one slot; a slot is given up only once its link is down; a link that    *)
(* lost its slot never gets one again.  PluginHub implements this.         *)
(***************************************************************************)
CONSTANTS Links, Instances, None

VARIABLES
    holder,     \* [Instances -> Links \cup {None}]: who holds each slot
    up,         \* the links that can carry a message
    retired     \* the links that lost their slot

slotVars == <<holder, up, retired>>

Init == /\ holder = [i \in Instances |-> None]
        /\ up = {}
        /\ retired = {}

Holders == {holder[i] : i \in Instances} \ {None}

\* A new link takes the slot of i; the link that held it is down at once.
Take(i, c) ==
    /\ c \notin Holders \cup retired
    /\ holder' = [holder EXCEPT ![i] = c]
    /\ up' = (up \ {holder[i]}) \cup {c}
    /\ retired' = retired \cup ({holder[i]} \ {None})

\* A link goes down and still holds its slot.
Drop(c) ==
    /\ c \in up
    /\ up' = up \ {c}
    /\ UNCHANGED <<holder, retired>>

\* The slot of i is given up by a link that is down after the step.
Release(i) ==
    /\ holder[i] # None
    /\ holder' = [holder EXCEPT ![i] = None]
    /\ up' = up \ {holder[i]}
    /\ retired' = retired \cup {holder[i]}

\* The process that keeps the slots dies: they are all free, and no link
\* of before is used again.
Reset ==
    /\ holder' = [i \in Instances |-> None]
    /\ up' = {}
    /\ retired' = retired \cup Holders

Next == \/ \E i \in Instances : Release(i) \/ \E c \in Links : Take(i, c)
        \/ \E c \in Links : Drop(c)
        \/ Reset

Spec == Init /\ [][Next]_slotVars
==============================================================================
