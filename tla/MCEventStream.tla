---------------------------- MODULE MCEventStream ----------------------------
(***************************************************************************)
(* EventStream for TLC: one app, since streams share nothing but the       *)
(* table, and one conversation beside the events of no conversation.       *)
(***************************************************************************)
EXTENDS EventStream

CONSTANTS phone, specialist

MCClients == {phone}
MCConvs == {specialist}
==============================================================================
