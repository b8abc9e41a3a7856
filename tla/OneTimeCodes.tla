----------------------------- MODULE OneTimeCodes -----------------------------
(***************************************************************************)
(* What pairing promises, without requests, limiters, challenges or a      *)
(* clock: no two offers ever have the same code; an offer is valid until   *)
(* it expires or is used; using it gives one device at most, to one        *)
(* holder, or to none; nothing makes it valid again.  Pairing implements   *)
(* this.                                                                   *)
(***************************************************************************)
EXTENDS Naturals

CONSTANTS Offers, Codes, Holders, None

VARIABLES
    code,       \* [Offers -> Codes \cup {None}]: the code of an offer made
    state,      \* [Offers -> {"none", "valid", "expired", "used"}]
    devices,    \* [Offers -> Nat]: the devices an offer has given
    holds       \* [Offers -> SUBSET Holders]: who holds its device

codeVars == <<code, state, devices, holds>>

Init == /\ code = [p \in Offers |-> None]
        /\ state = [p \in Offers |-> "none"]
        /\ devices = [p \in Offers |-> 0]
        /\ holds = [p \in Offers |-> {}]

\* Holders may let go of the devices they hold, and add none but new, a set
\* of pairs of an offer and a holder.
Holds(new) ==
    /\ holds' \in [Offers -> SUBSET Holders]
    /\ \A p \in Offers, k \in Holders : k \in holds'[p] => k \in holds[p] \/ <<p, k>> \in new

\* A new offer, with a code no offer had before.
Offer(p, c) ==
    /\ code[p] = None
    /\ state[p] = "none"
    /\ \A q \in Offers : code[q] # c
    /\ code' = [code EXCEPT ![p] = c]
    /\ state' = [state EXCEPT ![p] = "valid"]
    /\ Holds({})
    /\ UNCHANGED devices

\* A valid offer gives its device; holder k gets it, or it is lost.
Give(p, k) ==
    /\ state[p] = "valid"
    /\ state' = [state EXCEPT ![p] = "used"]
    /\ devices' = [devices EXCEPT ![p] = @ + 1]
    /\ Holds({<<p, k>>})
    /\ UNCHANGED code

\* A valid offer is used up without giving anything.
Waste(p) ==
    /\ state[p] = "valid"
    /\ state' = [state EXCEPT ![p] = "used"]
    /\ UNCHANGED <<code, devices, holds>>

\* Time passes: some valid offers expire.
Expire ==
    /\ \A p \in Offers : state'[p] # state[p] => state[p] = "valid" /\ state'[p] = "expired"
    /\ state' \in [Offers -> {"none", "valid", "expired", "used"}]
    /\ UNCHANGED <<code, devices, holds>>

Next == \/ \E p \in Offers : \/ \E c \in Codes : Offer(p, c)
                             \/ \E k \in Holders : Give(p, k)
                             \/ Waste(p)
        \/ Expire

Spec == Init /\ [][Next]_codeVars
==============================================================================
