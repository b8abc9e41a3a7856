---------------------------- MODULE MCPluginClient ----------------------------
(***************************************************************************)
(* PluginClient for TLC: three runtimes one after the other, and three     *)
(* socket objects, so that sockets of stopped clients are still closing    *)
(* when a new one connects.                                                *)
(***************************************************************************)
EXTENDS PluginClient

CONSTANTS c1, c2, c3, s1, s2, s3

MCClients == {c1, c2, c3}
MCSockets == {s1, s2, s3}
==============================================================================
