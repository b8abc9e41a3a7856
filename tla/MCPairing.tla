------------------------------ MODULE MCPairing ------------------------------
(***************************************************************************)
(* Pairing for TLC: one address, two pairings and two codes, which are     *)
(* interchangeable; one start and two finishes in a window.                *)
(***************************************************************************)
EXTENDS Pairing, TLC

CONSTANTS k1, p1, p2, a, b

MCKeys == {k1}
MCPairings == {p1, p2}
MCCodes == {a, b}
MCLimiters == {"start", "finish"}
MCMax == [l \in MCLimiters |-> IF l = "start" THEN 1 ELSE 2]
MCWindow == [l \in MCLimiters |-> 2]

Symmetry == Permutations(MCPairings) \cup Permutations(MCCodes)
==============================================================================
