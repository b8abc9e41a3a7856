---------------------------- MODULE MCApnsSession ----------------------------
(***************************************************************************)
(* ApnsSession for TLC: three sessions and three requests, enough for      *)
(* errors of two older sessions while a third is in use.                   *)
(***************************************************************************)
EXTENDS ApnsSession, TLC

CONSTANTS s1, s2, s3, r1, r2, r3

MCSessions == {s1, s2, s3}
MCRequests == {r1, r2, r3}

Symmetry == Permutations(MCSessions) \cup Permutations(MCRequests)
==============================================================================
