----------------------------- MODULE MCPluginHub -----------------------------
(***************************************************************************)
(* PluginHub for TLC: three connections, two instances, a token of the     *)
(* first instance and a set-up token that belongs to none.                 *)
(***************************************************************************)
EXTENDS PluginHub

CONSTANTS s1, s2, s3, i1, i2, tokenOfI1, setupToken

MCSockets == {s1, s2, s3}
MCInstances == {i1, i2}
MCTokens == {tokenOfI1, setupToken}
MCOwner == [t \in MCTokens |-> IF t = tokenOfI1 THEN i1 ELSE None]
==============================================================================
