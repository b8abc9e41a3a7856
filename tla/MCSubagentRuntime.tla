-------------------------- MODULE MCSubagentRuntime --------------------------
(***************************************************************************)
(* SubagentRuntime for TLC: two sessions, three conversations (a session   *)
(* may get a second one after a deletion), two calls that race, and a      *)
(* restart.                                                                *)
(***************************************************************************)
EXTENDS SubagentRuntime, TLC

CONSTANTS s1, s2, c1, c2, c3, x1, x2

MCSessions == {s1, s2}
MCConversations == {c1, c2, c3}
MCCalls == {x1, x2}

Symmetry == Permutations(MCSessions) \cup Permutations(MCConversations)
                \cup Permutations(MCCalls)
==============================================================================
