---------------------------- MODULE MCMessageFlow ----------------------------
(***************************************************************************)
(* MessageFlow for TLC: the main conversation of an instance and one without *)
(* an instance, which may be deleted; a request or frame each way; an      *)
(* upload with a name and one without.                                     *)
(***************************************************************************)
EXTENDS MessageFlow, TLC

CONSTANTS e1, e2, main, c1, i1, i2, a1, a2

MCIds == {e1, e2}
MCConversations == {main, c1}
MCInstances == {i1, i2}
MCMains == {main}
MCInstanceOf == (main :> i1) @@ (c1 :> None)
MCAttachments == {a1, a2}
MCNameless == {a2}
MCLists == {<<>>, <<a1>>, <<a1, a1>>, <<a2>>}

\* Bounds: one upload, made before the restart and before a message is stored;
\* a file that is left partial is followed no further, as no row ever names it;
\* nor a torn row of an update, an action or progress of the main conversation,
\* which stays for ever, as one of no conversation does.
Bounded ==
    /\ Cardinality({a \in Attachments : file[a] # "none"}) <= 1
    /\ uploading # {} => boots = 0 /\ messages = {}
    /\ OtherRow(main) \notin torn
    /\ \A a \in Attachments : file[a] = "partial" => a \in uploading

Symmetry == Permutations(MCIds)
==============================================================================
