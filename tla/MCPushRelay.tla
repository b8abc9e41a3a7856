----------------------------- MODULE MCPushRelay -----------------------------
(***************************************************************************)
(* PushRelay for TLC: two handles, so that one can be orphaned, three      *)
(* tokens, two updates and two sends under way.                            *)
(***************************************************************************)
EXTENDS PushRelay

CONSTANTS h1, h2, t1, t2, t3, u1, u2, x1, x2

MCHandles == {h1, h2}
MCTokens == {t1, t2, t3}
MCUpdates == {u1, u2}
MCSends == {x1, x2}
==============================================================================
