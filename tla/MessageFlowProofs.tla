--------------------------- MODULE MessageFlowProofs ---------------------------
(***************************************************************************)
(* Proofs about MessageFlow, for any number of requests and frames,        *)
(* conversations, instances, attachments and restarts.                     *)
(***************************************************************************)
EXTENDS MessageFlow, TLAPS

\* What may become of requests and frames that store no message.
MoveOn(others) ==
    \A e \in others :
        \/ /\ via'[e] = via[e]
           /\ \/ at'[e] = at[e]
              \/ at[e] = "toPlugin" /\ at'[e] = "atPlugin"
              \/ at[e] # "unused" /\ at'[e] = "over"
        \/ at[e] = "action" /\ at'[e] = "toPlugin"

\* What may become of the events with one that log does not keep.
LogsOther ==
    \/ UNCHANGED logVars
    \/ /\ log' = log
       /\ \E c \in Conversations \cup {None} : /\ torn' = {OtherRow(c)}
                                               /\ c # None => conv[c] # "none"

\* publish and a publish that throws are such a change.
LEMMA OtherLogged ==
    ASSUME NEW c \in Conversations \cup {None}, c # None => conv[c] # "none",
           PublishOther \/ PublishOtherFails(c)
    PROVE  LogsOther
  BY DEF PublishOther, PublishOtherFails, PublishFails, LogsOther, logVars

\* A step that moves requests and frames on without a new message or answer
\* keeps what the tables and the log say of them.
LEMMA MoveStep ==
    ASSUME TablesInv, UNCHANGED <<conv, messages, about, answer, named, file, rows>>, LogsOther,
           link' \subseteq Instances, uploading' \subseteq uploading, boots' \in 0..MaxBoots,
           at' \in [Ids -> Places], via' \in [Ids -> Instances \cup {None}], MoveOn(Ids)
    PROVE  TablesInv'
  <1> USE ConstantsAssumption DEF MoveOn
  <1>0. /\ log' = log
        /\ \A r \in torn' : r \in torn \/ \E c \in Conversations \cup {None} :
                                r = OtherRow(c) /\ (c # None => conv[c] # "none")
    BY DEF LogsOther, logVars
  <1>1. \A c : OtherRow(c).type = "other" /\ OtherRow(c).id = None /\ OtherRow(c).conv = c
    BY DEF OtherRow, Row
  <1>2. TypeOK'
    <2>1. torn' \subseteq Events \cup Others
      BY <1>0 DEF TablesInv, TypeOK, Others
    <2> QED
      BY <1>0, <2>1 DEF TablesInv, TypeOK
  <1>3. NothingOrphaned' /\ AttachmentsAreThere'
    BY DEF TablesInv, NothingOrphaned, AttachmentsAreThere
  <1>4. LogAgrees'
    BY <1>0, <1>1 DEF TablesInv, LogAgrees, MessageTypes
  <1>5. \A e \in Ids : answer[e] # 0 => via'[e] = via[e]
    BY DEF TablesInv, FlowInv
  <1>6. AnswersAreTrue'
    <2> SUFFICES ASSUME NEW e \in Ids PROVE AnswerIsTrue(e)'
      BY DEF AnswersAreTrue
    <2>1. \A r \in torn' : r \in torn \/ r.id # e
      BY <1>0, <1>1
    <2>2. AnswerIsTrue(e) /\ (answer[e] # 0 => via'[e] = via[e])
      BY <1>5 DEF TablesInv, AnswersAreTrue
    <2> QED
      BY <1>0, <2>1, <2>2 DEF AnswerIsTrue, Row
  <1>7. FlowInv'
    <2>1. \A r \in log' \cup torn' : r.id # None =>
             /\ at'[r.id] \in {"toPlugin", "atPlugin", "over"}
             /\ about'[r.id] = r.conv
      <3> SUFFICES ASSUME NEW r \in log' \cup torn', r.id # None
                   PROVE  /\ at'[r.id] \in {"toPlugin", "atPlugin", "over"}
                          /\ about[r.id] = r.conv
        OBVIOUS
      <3>1. r \in log \cup torn
        BY <1>0, <1>1
      <3>2. r.id \in Ids
        BY <1>1, <3>1 DEF TablesInv, TypeOK, Events, Others
      <3>3. at[r.id] \in {"toPlugin", "atPlugin", "over"} /\ about[r.id] = r.conv
        BY <3>1 DEF TablesInv, FlowInv
      <3> QED
        BY <3>2, <3>3
    <2>2. \A r \in log' \cup torn' : r.conv # None => conv'[r.conv] # "none"
      BY <1>0, <1>1 DEF TablesInv, FlowInv
    <2>3. /\ \A e \in Ids : at'[e] # "unused" <=> about'[e] # None
          /\ \A e \in Ids : answer'[e] # 0 => at'[e] \in {"toPlugin", "atPlugin", "over"}
          /\ \A e \in messages' : at'[e] \in {"toPlugin", "atPlugin", "over"}
          /\ \A e \in Ids : at'[e] \in {"unused", "message", "action"} => via'[e] = None
      BY DEF TablesInv, FlowInv, TypeOK
    <2>4. /\ \A e \in Ids : about'[e] # None => conv'[about'[e]] # "none"
          /\ \A e \in Ids : named'[e] # {} => e \in messages'
          /\ \A c \in Mains : conv'[c] # "deleted"
          /\ \A a \in uploading' : file'[a] = "partial"
          /\ uploading' \cap rows' = {}
      BY DEF TablesInv, FlowInv
    <2> QED
      BY <2>1, <2>2, <2>3, <2>4 DEF FlowInv
  <1> QED
    BY <1>2, <1>3, <1>4, <1>6, <1>7 DEF TablesInv

\* A request or a frame that begins keeps the invariant.
LEMMA BeginStep ==
    ASSUME TablesInv, NEW e \in Ids, NEW c \in Conversations,
           NEW p \in {"message", "action", "reply", "progress"},
           at[e] = "unused", conv[c] # "none",
           at' = [at EXCEPT ![e] = p], about' = [about EXCEPT ![e] = c],
           via' \in [Ids -> Instances \cup {None}], \A d \in Ids : d # e => via'[d] = via[d],
           p \in {"message", "action"} => via'[e] = None,
           UNCHANGED <<conv, messages, logVars, answer, named, link, fileVars, boots>>
    PROVE  TablesInv'
  <1> USE ConstantsAssumption DEF fileVars, logVars
  <1>0. /\ about[e] = None /\ e \notin messages /\ answer[e] = 0
        /\ \A r \in log \cup torn : r.id # e
    BY DEF TablesInv, FlowInv, TypeOK
  <1>1. TypeOK'
    BY DEF TablesInv, TypeOK, Places
  <1>2. NothingOrphaned' /\ LogAgrees' /\ AttachmentsAreThere'
    BY <1>0 DEF TablesInv, NothingOrphaned, LogAgrees, AttachmentsAreThere, TypeOK
  <1>3. AnswersAreTrue'
    BY <1>0 DEF TablesInv, AnswersAreTrue, AnswerIsTrue, Row, TypeOK
  <1>4. FlowInv'
    <2>1. \A r \in log \cup torn : r.id # None => r.id \in Ids
      BY DEF TablesInv, TypeOK, Events, Others, OtherRow, Row
    <2>2. \A d \in Ids : /\ at'[d] = IF d = e THEN p ELSE at[d]
                         /\ about'[d] = IF d = e THEN c ELSE about[d]
      BY DEF TablesInv, TypeOK
    <2>3. \A r \in log' \cup torn' : r.id # None =>
             /\ at'[r.id] \in {"toPlugin", "atPlugin", "over"}
             /\ about'[r.id] = r.conv
      BY <1>0, <2>1, <2>2 DEF TablesInv, FlowInv
    <2>4. /\ \A d \in Ids : at'[d] # "unused" <=> about'[d] # None
          /\ \A d \in Ids : about'[d] # None => conv'[about'[d]] # "none"
          /\ \A d \in Ids : answer'[d] # 0 => at'[d] \in {"toPlugin", "atPlugin", "over"}
          /\ \A d \in messages' : at'[d] \in {"toPlugin", "atPlugin", "over"}
          /\ \A d \in Ids : at'[d] \in {"unused", "message", "action"} => via'[d] = None
      BY <1>0, <2>2 DEF TablesInv, FlowInv, TypeOK
    <2> QED
      BY <2>3, <2>4 DEF TablesInv, FlowInv
  <1> QED
    BY <1>1, <1>2, <1>3, <1>4 DEF TablesInv

\* What may become of the events with the message of e.
LogsMessage(e) ==
    \/ log' = log /\ torn' = torn
    \/ \E t \in MessageTypes : PublishOrFail(log, torn, Row(t, about[e], e))

\* A message that is stored, logged or not and answered or not, keeps the
\* invariant, if its conversation is there, its attachments are, and the
\* answer is right.
LEMMA StoreStep ==
    ASSUME TablesInv, NEW e \in Ids, NEW as, as \subseteq rows,
           at[e] \in {"message", "reply"}, conv[about[e]] = "open",
           messages' = messages \cup {e}, named' = [named EXCEPT ![e] = as],
           at' \in [Ids -> Places], at'[e] \in {"toPlugin", "over"}, MoveOn(Ids \ {e}),
           LogsMessage(e), AnswerIsTrue(e)', answer' \in [Ids -> {0, 202, 400, 500, 503}],
           \A d \in Ids : d # e => answer'[d] = answer[d],
           link' \subseteq Instances, uploading' \subseteq uploading, boots' \in 0..MaxBoots,
           via' \in [Ids -> Instances \cup {None}], UNCHANGED <<conv, about, file, rows>>
    PROVE  TablesInv'
  <1> USE ConstantsAssumption
  <1>0. /\ about[e] \in Conversations /\ e \notin messages /\ answer[e] = 0
        /\ \A r \in log \cup torn : r.id # e
    BY DEF TablesInv, FlowInv, TypeOK
  <1>1. /\ log \subseteq log'
        /\ \A r \in log' \cup torn' :
              r \in log \cup torn \/ \E t \in MessageTypes : r = Row(t, about[e], e)
        /\ \A r \in log' : r \in log \/ \E t \in MessageTypes : r = Row(t, about[e], e)
        /\ log' \subseteq log \cup {Row(t, about[e], e) : t \in MessageTypes}
    BY DEF LogsMessage, PublishOrFail, Publish, PublishFails, logVars
  <1>2. \A d \in Ids : named'[d] = IF d = e THEN as ELSE named[d]
    BY DEF TablesInv, TypeOK
  <1>3. \A t \in MessageTypes : /\ Row(t, about[e], e) \in Events
                                /\ Row(t, about[e], e).id = e
                                /\ Row(t, about[e], e).conv = about[e]
                                /\ Row(t, about[e], e).type \in MessageTypes
    BY <1>0 DEF Row, Events
  <1>4. TypeOK'
    <2>1. log' \subseteq Events /\ torn' \subseteq Events \cup Others
      BY <1>1, <1>3 DEF TablesInv, TypeOK
    <2>2. named' \in [Ids -> SUBSET Attachments] /\ messages' \subseteq Ids
      <3>1. as \in SUBSET Attachments
        BY DEF TablesInv, TypeOK
      <3>2. named \in [Ids -> SUBSET Attachments] /\ messages \subseteq Ids
        BY DEF TablesInv, TypeOK
      <3>3. named' \in [Ids -> SUBSET Attachments]
        BY <3>1, <3>2, Zenon
      <3> QED
        BY <3>2, <3>3
    <2> QED
      BY <2>1, <2>2 DEF TablesInv, TypeOK
  <1>5. NothingOrphaned'
    BY <1>0 DEF TablesInv, NothingOrphaned
  <1>6. LogAgrees'
    BY <1>0, <1>1, <1>3 DEF TablesInv, LogAgrees, MessageTypes
  <1>7. AttachmentsAreThere'
    <2>1. \A d \in Ids : named'[d] \subseteq rows
      <3> TAKE d \in Ids
      <3>1. CASE d = e
        BY ONLY <1>2, <3>1, as \subseteq rows, d \in Ids
      <3>2. CASE d # e
        BY <1>2, <3>2 DEF TablesInv, AttachmentsAreThere
      <3> QED
        BY <3>1, <3>2
    <2> QED
      BY <2>1 DEF TablesInv, AttachmentsAreThere
  <1>8. AnswersAreTrue'
    <2> SUFFICES ASSUME NEW d \in Ids, d # e PROVE AnswerIsTrue(d)'
      BY DEF AnswersAreTrue
    <2>1. answer'[d] = answer[d] /\ AnswerIsTrue(d)
      BY DEF TablesInv, AnswersAreTrue
    <2>2. answer[d] # 0 => via'[d] = via[d]
      BY DEF MoveOn, TablesInv, FlowInv
    <2>3. /\ \A r \in log' \cup torn' : r \in log \cup torn \/ r.id = e
          /\ \A r \in log' : r \in log \/ r.id = e
      BY <1>1, <1>3
    <2>4. named'[d] = named[d] /\ (d \in messages' <=> d \in messages)
      BY <1>2
    <2>5. Row("inbound.message", about[d], d)' = Row("inbound.message", about[d], d)
      BY DEF Row
    <2> QED
      BY <1>1, <2>1, <2>2, <2>3, <2>4, <2>5 DEF AnswerIsTrue
  <1>9. FlowInv'
    <2>1. \A r \in log' \cup torn' : r \in log \cup torn \/ (r.id = e /\ r.conv = about[e])
      BY <1>1, <1>3
    <2>2. \A d \in Ids : answer'[d] # 0 => answer[d] # 0 \/ d = e
      OBVIOUS
    <2>3. \A d \in Ids : named'[d] # {} => named[d] # {} \/ d = e
      BY ONLY <1>2
    <2>4. \A d \in Ids : at[d] \in {"toPlugin", "atPlugin", "over"} \/ d = e =>
                           at'[d] \in {"toPlugin", "atPlugin", "over"}
      BY DEF MoveOn
    <2>5. \A d \in Ids : at'[d] # "unused" <=> at[d] # "unused"
      BY DEF MoveOn, TablesInv, TypeOK
    <2>6. \A r \in log' \cup torn' : r.id # None =>
             at'[r.id] \in {"toPlugin", "atPlugin", "over"} /\ about[r.id] = r.conv
      <3>1. \A r \in log \cup torn : r.id # None => r.id \in Ids
        BY DEF TablesInv, TypeOK, Events, Others, OtherRow, Row
      <3> QED
        BY <2>1, <2>4, <3>1 DEF TablesInv, FlowInv
    <2>7. \A r \in log' \cup torn' : r.conv # None => conv[r.conv] # "none"
      BY <1>0, <2>1 DEF TablesInv, FlowInv
    <2>8. \A d \in messages' : at'[d] \in {"toPlugin", "atPlugin", "over"}
      BY <1>0, <2>4 DEF TablesInv, FlowInv, TypeOK
    <2>9. \A d \in Ids : at'[d] \in {"unused", "message", "action"} => via'[d] = None
      BY DEF MoveOn, TablesInv, FlowInv
    <2> QED
      <3>1. /\ \A d \in Ids : at'[d] # "unused" <=> about'[d] # None
            /\ \A d \in Ids : about'[d] # None => conv'[about'[d]] # "none"
            /\ \A d \in Ids : answer'[d] # 0 => at'[d] \in {"toPlugin", "atPlugin", "over"}
        BY <2>2, <2>4, <2>5 DEF TablesInv, FlowInv
      <3>2. /\ \A d \in Ids : named'[d] # {} => d \in messages'
            /\ \A c \in Mains : conv'[c] # "deleted"
            /\ \A a \in uploading' : file'[a] = "partial"
            /\ uploading' \cap rows' = {}
        BY <2>3 DEF TablesInv, FlowInv
      <3> QED
        BY <2>6, <2>7, <2>8, <2>9, <3>1, <3>2 DEF FlowInv
  <1> QED
    BY <1>4, <1>5, <1>6, <1>7, <1>8, <1>9 DEF TablesInv

\* A message that is refused or fails before it is stored keeps the invariant.
LEMMA RefuseStep ==
    ASSUME TablesInv, NEW e \in Ids, FailMessage(e) \/ \E ids \in Lists : RefuseMessage(e, ids)
    PROVE  TablesInv'
  <1> USE ConstantsAssumption
  <1>0. PICK n \in {400, 500} :
          /\ at[e] = "message"
          /\ at' = [at EXCEPT ![e] = "over"]
          /\ answer' = [answer EXCEPT ![e] = n]
          /\ UNCHANGED <<conv, messages, log, torn, about, named, link, via, file, uploading,
                         rows, boots>>
    BY DEF FailMessage, RefuseMessage, frameVars, fileVars, logVars
  <1>1. e \notin messages /\ via[e] = None /\ \A r \in log \cup torn : r.id # e
    BY <1>0 DEF TablesInv, FlowInv, TypeOK
  <1>2. TypeOK'
    BY <1>0 DEF TablesInv, TypeOK, Places
  <1>3. NothingOrphaned' /\ LogAgrees' /\ AttachmentsAreThere'
    BY <1>0 DEF TablesInv, NothingOrphaned, LogAgrees, AttachmentsAreThere
  <1>4. AnswersAreTrue'
    BY <1>0, <1>1 DEF TablesInv, AnswersAreTrue, AnswerIsTrue, Row, TypeOK
  <1>5. FlowInv'
    <2>1. \A r \in log \cup torn : r.id # None => r.id \in Ids
      BY DEF TablesInv, TypeOK, Events, Others, OtherRow, Row
    <2> QED
      BY <1>0, <1>1, <2>1 DEF TablesInv, FlowInv, TypeOK
  <1> QED
    BY <1>2, <1>3, <1>4, <1>5 DEF TablesInv

\* What sendToPlugin returns and leaves behind.
LEMMA SendResult ==
    ASSUME TablesInv, NEW e \in Ids, NEW c \in Conversations, NEW accepted \in BOOLEAN,
           Send(e, c, accepted)
    PROVE  /\ via' \in [Ids -> Instances \cup {None}]
           /\ \E q \in {"toPlugin", "over"} : at' = [at EXCEPT ![e] = q]
           /\ \A d \in Ids : d # e => via'[d] = via[d] /\ at'[d] = at[d]
           /\ accepted => via'[e] # None /\ at'[e] = "toPlugin"
           /\ ~accepted => via'[e] = via[e] /\ at'[e] = "over"
  BY ConstantsAssumption DEF Send, Targets, TablesInv, TypeOK

\* What there is of events after a publication, or after one that failed.
LEMMA Published ==
    ASSUME NEW l, NEW t, NEW r, PublishOrFail(l, t, r)
    PROVE  l \subseteq log' /\ log' \subseteq l \cup {r} /\ torn' \subseteq t \cup {r}
  BY DEF PublishOrFail, Publish, PublishFails

\* What is known of the torn rows and the events.
LEMMA RowsKnown ==
    ASSUME TablesInv, NEW r \in log \cup torn
    PROVE  /\ r.id \in Ids \cup {None} /\ r.conv \in Conversations \cup {None}
           /\ r.id # None => at[r.id] \in {"toPlugin", "atPlugin", "over"} /\ about[r.id] = r.conv
           /\ r.conv # None => conv[r.conv] # "none"
           /\ r.type \in MessageTypes => r.id \in messages
           /\ r.type = "conversation.deleted" => conv[r.conv] = "deleted"
           /\ r.type = "conversation.created" => conv[r.conv] = "open"
  <1>1. r.id \in Ids \cup {None} /\ r.conv \in Conversations \cup {None}
    BY DEF TablesInv, TypeOK, Events, Others, OtherRow, Row
  <1> QED
    BY <1>1 DEF TablesInv, FlowInv, LogAgrees

\* A conversation that is opened, announced or not, keeps the invariant.
LEMMA OpenStep ==
    ASSUME TablesInv, NEW c \in Conversations, conv[c] # "deleted",
           conv' = [conv EXCEPT ![c] = "open"],
           \/ log' = log /\ torn' = torn
           \/ PublishOrFail(log, torn, Row("conversation.created", c, None)),
           UNCHANGED <<messages, at, about, answer, named, link, via, file, uploading, rows, boots>>
    PROVE  TablesInv'
  <1> USE ConstantsAssumption
  <1> DEFINE r0 == Row("conversation.created", c, None)
  <1>1. log \subseteq log' /\ log' \subseteq log \cup {r0} /\ torn' \subseteq torn \cup {r0}
    BY Published
  <1>2. /\ r0 \in Events /\ r0.type = "conversation.created" /\ r0.id = None /\ r0.conv = c
    BY DEF Row, Events
  <1>3. /\ \A d \in Conversations : conv'[d] = IF d = c THEN "open" ELSE conv[d]
        /\ conv' \in [Conversations -> {"none", "open", "deleted"}]
    BY DEF TablesInv, TypeOK
  <1> HIDE DEF r0
  <1>4. TypeOK'
    <2>1. log' \subseteq Events /\ torn' \subseteq Events \cup Others
      BY <1>1, <1>2 DEF TablesInv, TypeOK
    <2> QED
      BY <1>3, <2>1 DEF TablesInv, TypeOK
  <1>5. NothingOrphaned' /\ AttachmentsAreThere'
    BY <1>3 DEF TablesInv, TypeOK, NothingOrphaned, AttachmentsAreThere
  <1>6. LogAgrees'
    <2> SUFFICES ASSUME NEW r \in log' \cup torn'
                 PROVE  /\ r.type \in MessageTypes => r.id \in messages
                        /\ r.type = "conversation.deleted" => conv'[r.conv] = "deleted"
                        /\ r.type = "conversation.created" => conv'[r.conv] = "open"
      BY DEF LogAgrees
    <2>1. CASE r = r0
      BY <1>2, <1>3, <2>1 DEF MessageTypes
    <2>2. CASE r \in log \cup torn
      <3>1. r.type # "other" => r.conv \in Conversations
        BY <2>2 DEF TablesInv, TypeOK, Events, Others, OtherRow, Row
      <3> QED
        BY <1>3, <2>2, <3>1, RowsKnown
    <2> QED
      BY <1>1, <2>1, <2>2
  <1>7. AnswersAreTrue'
    <2> SUFFICES ASSUME NEW e \in Ids PROVE AnswerIsTrue(e)'
      BY DEF AnswersAreTrue
    <2>1. /\ \A r \in log' \cup torn' : r \in log \cup torn \/ r.id # e
          /\ \A r \in log' : r \in log \/ r.id # e
      BY <1>1, <1>2
    <2>2. AnswerIsTrue(e) /\ (answer[e] # 0 => about[e] \in Conversations)
      BY DEF TablesInv, AnswersAreTrue, FlowInv, TypeOK
    <2>3. answer[e] # 0 /\ conv[about[e]] = "deleted" => conv'[about[e]] = "deleted"
      BY <1>3, <2>2
    <2>4. Row("inbound.message", about[e], e)' = Row("inbound.message", about[e], e)
      BY DEF Row
    <2> QED
      BY <1>1, <2>1, <2>2, <2>3, <2>4 DEF AnswerIsTrue
  <1>8. FlowInv'
    <2>1. ASSUME NEW r \in log' \cup torn'
          PROVE  /\ r.id # None => /\ at'[r.id] \in {"toPlugin", "atPlugin", "over"}
                                   /\ about'[r.id] = r.conv
                 /\ r.conv # None => conv'[r.conv] # "none"
      <3>1. CASE r = r0
        BY <1>2, <1>3, <3>1
      <3>2. CASE r \in log \cup torn
        BY <1>3, <3>2, RowsKnown
      <3> QED
        BY <1>1, <3>1, <3>2
    <2>2. /\ \A e \in Ids : about'[e] # None => conv'[about'[e]] # "none"
          /\ \A d \in Mains : conv'[d] # "deleted"
      BY <1>3 DEF TablesInv, FlowInv, TypeOK
    <2> QED
      BY <2>1, <2>2 DEF TablesInv, FlowInv
  <1> QED
    BY <1>4, <1>5, <1>6, <1>7, <1>8 DEF TablesInv

\* A conversation that is deleted keeps the invariant.
LEMMA DeleteStep ==
    ASSUME TablesInv, NEW c \in Conversations, DeleteConversation(c)
    PROVE  TablesInv'
  <1> USE ConstantsAssumption
  <1> DEFINE r0 == Row("conversation.deleted", c, None)
  <1>0. /\ conv[c] = "open" /\ c \notin Mains /\ conv' = [conv EXCEPT ![c] = "deleted"]
        /\ messages' = {e \in messages : about[e] # c}
        /\ named' = [e \in Ids |-> IF e \in messages' THEN named[e] ELSE {}]
        /\ UNCHANGED <<at, about, answer, link, via, file, uploading, rows, boots>>
    BY DEF DeleteConversation, frameVars, fileVars
  <1>1. NotOf(c, log) \subseteq log' /\ log' \subseteq NotOf(c, log) \cup {r0}
        /\ torn' \subseteq NotOf(c, torn) \cup {r0}
    BY Published DEF DeleteConversation
  <1>2. r0 \in Events /\ r0.type = "conversation.deleted" /\ r0.id = None /\ r0.conv = c
    BY DEF Row, Events
  <1>3. /\ \A d \in Conversations : conv'[d] = IF d = c THEN "deleted" ELSE conv[d]
        /\ conv' \in [Conversations -> {"none", "open", "deleted"}]
    BY <1>0 DEF TablesInv, TypeOK
  <1> HIDE DEF r0
  <1>4. ASSUME NEW r \in log' \cup torn' PROVE r = r0 \/ (r \in log \cup torn /\ r.conv # c)
    BY <1>1 DEF NotOf
  <1>5. TypeOK'
    <2>1. log' \subseteq Events /\ torn' \subseteq Events \cup Others
      BY <1>1, <1>2 DEF NotOf, TablesInv, TypeOK
    <2>2. messages' \subseteq Ids /\ named' \in [Ids -> SUBSET Attachments]
      BY <1>0 DEF TablesInv, TypeOK
    <2> QED
      BY <1>0, <1>3, <2>1, <2>2 DEF TablesInv, TypeOK
  <1>6. NothingOrphaned'
    BY <1>0, <1>3 DEF TablesInv, TypeOK, NothingOrphaned, FlowInv
  <1>7. AttachmentsAreThere'
    BY <1>0 DEF TablesInv, AttachmentsAreThere
  <1>8. LogAgrees'
    <2> SUFFICES ASSUME NEW r \in log' \cup torn'
                 PROVE  /\ r.type \in MessageTypes => r.id \in messages'
                        /\ r.type = "conversation.deleted" => conv'[r.conv] = "deleted"
                        /\ r.type = "conversation.created" => conv'[r.conv] = "open"
      BY DEF LogAgrees
    <2>1. CASE r = r0
      BY <1>2, <1>3, <2>1 DEF MessageTypes
    <2>2. CASE r \in log \cup torn /\ r.conv # c
      <3>1. r.type # "other" => r.conv \in Conversations
        BY <2>2 DEF TablesInv, TypeOK, Events, Others, OtherRow, Row
      <3>2. messages \subseteq Ids
        BY DEF TablesInv, TypeOK
      <3> QED
        BY <1>0, <1>3, <2>2, <3>1, <3>2, RowsKnown
    <2> QED
      BY <1>4, <2>1, <2>2
  <1>9. AnswersAreTrue'
    <2> SUFFICES ASSUME NEW e \in Ids PROVE AnswerIsTrue(e)'
      BY DEF AnswersAreTrue
    <2>1. /\ \A r \in log' \cup torn' : r \in log \cup torn \/ r.id # e
          /\ \A r \in log' : r \in log \/ r.id # e
      BY <1>1, <1>2 DEF NotOf
    <2>2. AnswerIsTrue(e) /\ (answer[e] # 0 => about[e] \in Conversations)
      BY DEF TablesInv, AnswersAreTrue, FlowInv, TypeOK
    <2>3. answer[e] # 0 => /\ (conv[about[e]] = "deleted" \/ about[e] = c) =>
                                  conv'[about[e]] = "deleted"
                           /\ e \in messages' <=> e \in messages /\ about[e] # c
                           /\ e \in messages' => named'[e] = named[e]
      BY <1>0, <1>3, <2>2
    <2>4. Row("inbound.message", about[e], e)' = Row("inbound.message", about[e], e)
      BY <1>0 DEF Row
    <2>5. about[e] # c /\ Row("inbound.message", about[e], e) \in log =>
                          Row("inbound.message", about[e], e) \in log'
      BY <1>1 DEF NotOf, Row
    <2> QED
      BY <1>0, <2>1, <2>2, <2>3, <2>4, <2>5 DEF AnswerIsTrue
  <1>10. FlowInv'
    <2>1. ASSUME NEW r \in log' \cup torn'
          PROVE  /\ r.id # None => /\ at'[r.id] \in {"toPlugin", "atPlugin", "over"}
                                   /\ about'[r.id] = r.conv
                 /\ r.conv # None => conv'[r.conv] # "none"
      <3>1. CASE r = r0
        BY <1>2, <1>3, <3>1
      <3>2. CASE r \in log \cup torn
        BY <1>0, <1>3, <3>2, RowsKnown
      <3> QED
        BY <1>4, <3>1, <3>2
    <2>2. /\ \A e \in Ids : about'[e] # None => conv'[about'[e]] # "none"
          /\ \A d \in Mains : conv'[d] # "deleted"
      BY <1>0, <1>3 DEF TablesInv, FlowInv, TypeOK
    <2>3. /\ \A e \in Ids : named'[e] # {} => e \in messages'
          /\ \A e \in messages' : at'[e] \in {"toPlugin", "atPlugin", "over"}
      BY <1>0 DEF TablesInv, FlowInv
    <2> QED
      BY <1>0, <2>1, <2>2, <2>3 DEF TablesInv, FlowInv
  <1> QED
    BY <1>5, <1>6, <1>7, <1>8, <1>9, <1>10 DEF TablesInv

\* An upload keeps the invariant.
LEMMA UploadStep ==
    ASSUME TablesInv, NEW a \in Attachments, BeginUpload(a) \/ FinishUpload(a) \/ FailUpload(a)
    PROVE  TablesInv'
  <1>0. UNCHANGED <<conv, messages, log, torn, at, about, answer, named, link, via, boots>>
    BY DEF BeginUpload, FinishUpload, FailUpload, frameVars, logVars
  <1>1. TypeOK'
    BY <1>0 DEF BeginUpload, FinishUpload, FailUpload, CreateAttachment, TablesInv, TypeOK
  <1>2. NothingOrphaned' /\ LogAgrees'
    BY <1>0 DEF TablesInv, NothingOrphaned, LogAgrees
  <1>3. AnswersAreTrue'
    BY <1>0 DEF TablesInv, AnswersAreTrue, AnswerIsTrue, Row
  <1>4. AttachmentsAreThere'
    BY <1>0 DEF BeginUpload, FinishUpload, FailUpload, CreateAttachment, TablesInv, TypeOK,
                AttachmentsAreThere
  <1>5. FlowInv'
    <2>1. /\ \A d \in uploading' : file'[d] = "partial"
          /\ uploading' \cap rows' = {}
      BY <1>0 DEF BeginUpload, FinishUpload, FailUpload, CreateAttachment, TablesInv, TypeOK,
                  FlowInv, AttachmentsAreThere
    <2> QED
      BY <1>0, <2>1 DEF TablesInv, FlowInv
  <1> QED
    BY <1>1, <1>2, <1>3, <1>4, <1>5 DEF TablesInv

\* A message that is stored, sent and published, or whose publication fails.
LEMMA FinishStep ==
    ASSUME TablesInv, NEW e \in Ids, NEW ids \in Lists, FinishMessage(e, ids)
    PROVE  TablesInv'
  <1> USE ConstantsAssumption
  <1> DEFINE as == ToSet(ids)
             r0 == Row("inbound.message", about[e], e)
  <1>0. /\ at[e] = "message" /\ conv[about[e]] = "open" /\ as \subseteq rows
        /\ messages' = messages \cup {e} /\ named' = [named EXCEPT ![e] = as]
        /\ UNCHANGED <<conv, about, link, file, uploading, rows, boots>>
    BY DEF FinishMessage, CreateMessage, AllFound, fileVars
  <1>1. /\ about[e] \in Conversations /\ via[e] = None /\ e \in messages'
        /\ \A r \in log \cup torn : r.id # e
    BY <1>0 DEF TablesInv, FlowInv, TypeOK
  <1>2. PICK accepted \in BOOLEAN :
          /\ Send(e, about[e], accepted)
          /\ \/ /\ Publish(log, torn, r0)
                /\ answer' = [answer EXCEPT ![e] = IF accepted THEN 202 ELSE 503]
             \/ /\ PublishFails(log, torn, r0)
                /\ answer' = [answer EXCEPT ![e] = 500]
    BY DEF FinishMessage
  <1>3. /\ via' \in [Ids -> Instances \cup {None}]
        /\ \E q \in {"toPlugin", "over"} : at' = [at EXCEPT ![e] = q]
        /\ \A d \in Ids : d # e => via'[d] = via[d] /\ at'[d] = at[d]
        /\ accepted => via'[e] # None
        /\ ~accepted => via'[e] = None
    BY <1>1, <1>2, SendResult
  <1>4. at' \in [Ids -> Places] /\ at'[e] \in {"toPlugin", "over"} /\ MoveOn(Ids \ {e})
    BY <1>3 DEF TablesInv, TypeOK, Places, MoveOn
  <1>5. /\ answer' \in [Ids -> {0, 202, 400, 500, 503}]
        /\ \A d \in Ids : d # e => answer'[d] = answer[d]
        /\ \/ Publish(log, torn, r0) /\ answer'[e] = IF accepted THEN 202 ELSE 503
           \/ PublishFails(log, torn, r0) /\ answer'[e] = 500
    BY <1>2 DEF TablesInv, TypeOK
  <1>6. AnswerIsTrue(e)'
    <2>1. Row("inbound.message", about[e], e)' = r0
      BY <1>0 DEF Row
    <2>2. CASE Publish(log, torn, r0) /\ answer'[e] = IF accepted THEN 202 ELSE 503
      <3>1. r0 \in log'
        BY <2>2 DEF Publish
      <3> QED
        BY <1>1, <1>3, <2>1, <2>2, <3>1 DEF AnswerIsTrue
    <2>3. CASE PublishFails(log, torn, r0) /\ answer'[e] = 500
      <3>1. log' = log
        BY <2>3 DEF PublishFails
      <3> QED
        BY <1>1, <2>3, <3>1 DEF AnswerIsTrue
    <2> QED
      BY <1>5, <2>2, <2>3
  <1>7. LogsMessage(e)
    BY <1>5 DEF LogsMessage, PublishOrFail, MessageTypes
  <1>8. link' \subseteq Instances /\ boots' \in 0..MaxBoots
    BY <1>0 DEF TablesInv, TypeOK
  <1> HIDE DEF as
  <1> QED
    BY <1>0, <1>3, <1>4, <1>5, <1>6, <1>7, <1>8, StoreStep

\* A message that is stored and goes no further.
LEMMA RejectStep ==
    ASSUME TablesInv, NEW e \in Ids, NEW ids \in Lists, RejectMessage(e, ids)
    PROVE  TablesInv'
  <1> USE ConstantsAssumption
  <1> DEFINE as == ToSet(ids)
  <1>0. /\ at[e] = "message" /\ conv[about[e]] = "open" /\ as \subseteq rows
        /\ messages' = messages \cup {e} /\ named' = [named EXCEPT ![e] = as]
        /\ at' = [at EXCEPT ![e] = "over"]
        /\ \/ as \cap Nameless # {} /\ answer' = [answer EXCEPT ![e] = 400]
           \/ answer' = [answer EXCEPT ![e] = 500]
        /\ UNCHANGED <<conv, log, torn, about, link, via, file, uploading, rows, boots>>
    BY DEF RejectMessage, CreateMessage, AllFound, AllNamed, fileVars, frameVars, logVars
  <1>1. via[e] = None /\ \A r \in log \cup torn : r.id # e
    BY <1>0 DEF TablesInv, FlowInv, TypeOK
  <1>2. at' \in [Ids -> Places] /\ at'[e] \in {"toPlugin", "over"} /\ MoveOn(Ids \ {e})
    BY <1>0 DEF TablesInv, TypeOK, Places, MoveOn
  <1>a. answer \in [Ids -> {0, 202, 400, 500, 503}]
    BY DEF TablesInv, TypeOK
  <1>4. named'[e] = as
    BY <1>0 DEF TablesInv, TypeOK
  <1> DEFINE bad == as \cap Nameless # {}
  <1>b. \/ bad /\ answer' = [answer EXCEPT ![e] = 400]
        \/ answer' = [answer EXCEPT ![e] = 500]
    BY ONLY <1>0
  <1>c. bad => as \cap Nameless # {}
    OBVIOUS
  <1> HIDE DEF as, bad
  <1>3. /\ answer' \in [Ids -> {0, 202, 400, 500, 503}]
        /\ answer'[e] = 500 \/ (answer'[e] = 400 /\ bad)
        /\ \A d \in Ids : d # e => answer'[d] = answer[d]
    <2>1. CASE bad /\ answer' = [answer EXCEPT ![e] = 400]
      BY ONLY <2>1, <1>a, e \in Ids
    <2>2. CASE answer' = [answer EXCEPT ![e] = 500]
      BY ONLY <2>2, <1>a, e \in Ids
    <2> QED
      BY ONLY <1>b, <2>1, <2>2
  <1>5. AnswerIsTrue(e)'
    <2>1. /\ via'[e] = None /\ \A r \in log' \cup torn' : r.id # e
      BY <1>0, <1>1
    <2>2. answer'[e] = 500 \/ (answer'[e] = 400 /\ named'[e] \cap Nameless # {})
      BY ONLY <1>3, <1>4, <1>c
    <2> QED
      BY ONLY <2>1, <2>2 DEF AnswerIsTrue
  <1>6. /\ link' \subseteq Instances /\ boots' \in 0..MaxBoots
        /\ via' \in [Ids -> Instances \cup {None}]
    BY <1>0 DEF TablesInv, TypeOK
  <1>7. LogsMessage(e)
    BY <1>0 DEF LogsMessage
  <1> QED
    BY <1>0, <1>2, <1>3, <1>5, <1>6, <1>7, StoreStep

\* A message that is stored, and perhaps logged, without an answer.
LEMMA UnansweredStep ==
    ASSUME TablesInv, NEW e \in Ids, NEW as, as \subseteq rows,
           at[e] \in {"message", "reply"}, CreateMessage(e, about[e], as),
           at' \in [Ids -> Places], at'[e] \in {"toPlugin", "over"}, MoveOn(Ids \ {e}),
           LogsMessage(e), link' \subseteq Instances, uploading' \subseteq uploading,
           boots' \in 0..MaxBoots, via' \in [Ids -> Instances \cup {None}],
           UNCHANGED <<conv, about, answer, file, rows>>
    PROVE  TablesInv'
  <1>1. /\ messages' = messages \cup {e} /\ named' = [named EXCEPT ![e] = as]
        /\ conv[about[e]] = "open"
    BY DEF CreateMessage
  <1>2. answer' \in [Ids -> {0, 202, 400, 500, 503}]
    BY DEF TablesInv, TypeOK
  <1>3. answer'[e] = 0
    BY DEF TablesInv, FlowInv, TypeOK
  <1>4. AnswerIsTrue(e)'
    BY <1>3 DEF AnswerIsTrue
  <1> QED
    BY <1>1, <1>2, <1>4, StoreStep

\* What the end of the process leaves of requests and frames.
LEMMA RestartResult ==
    ASSUME TablesInv, NEW sent \in SUBSET Ids, Restart(sent)
    PROVE  /\ at' \in [Ids -> Places] /\ boots' \in 0..MaxBoots /\ link' \subseteq Instances
           /\ uploading' \subseteq uploading
           /\ \A e \in sent : at'[e] = "toPlugin"
           /\ \A e \in Ids \ sent : at'[e] = at[e] \/ (at[e] # "unused" /\ at'[e] = "over")
           /\ \A e \in Ids \ sent : at[e] \in {"message", "reply"} => at'[e] = "over"
           /\ UNCHANGED <<conv, about, answer, file, rows>>
  <1>1. \A e \in Ids : at'[e] = IF e \in sent THEN "toPlugin"
                               ELSE IF at[e] \in {"unused", "atPlugin"} THEN at[e] ELSE "over"
    BY DEF Restart
  <1>2. at' \in [Ids -> Places]
    <2>1. at' = [e \in Ids |-> at'[e]]
      BY DEF Restart
    <2>2. \A e \in Ids : at'[e] \in Places
      BY <1>1 DEF Places, TablesInv, TypeOK
    <2> QED
      BY ONLY <2>1, <2>2
  <1>3. /\ boots' \in 0..MaxBoots /\ link' \subseteq Instances /\ uploading' \subseteq uploading
        /\ UNCHANGED <<conv, about, answer, file, rows>>
    BY ConstantsAssumption DEF Restart, TablesInv, TypeOK
  <1>4. \A e \in sent : at'[e] = "toPlugin"
    BY ONLY <1>1, sent \in SUBSET Ids
  <1>5. \A e \in Ids \ sent : at'[e] = at[e] \/ (at[e] # "unused" /\ at'[e] = "over")
    BY ONLY <1>1
  <1>6. \A e \in Ids \ sent : at[e] \in {"message", "reply"} => at'[e] = "over"
    BY ONLY <1>1
  <1> QED
    BY ONLY <1>2, <1>3, <1>4, <1>5, <1>6, Zenon

\* The end of the process keeps the invariant, with a message stored or not.
LEMMA CrashStep ==
    ASSUME TablesInv, NEW e \in Ids,
           \/ DieOfReply(e) \/ CrashInReply(e) \/ CrashInProgress(e) \/ Crash
           \/ \E ids \in Lists : CrashInMessage(e, ids)
    PROVE  TablesInv'
  <1>0. via \in [Ids -> Instances \cup {None}]
    BY DEF TablesInv, TypeOK
  <1>1. ASSUME Restart({}), LogsOther, UNCHANGED <<messages, named, via>> PROVE TablesInv'
    <2>1. /\ at' \in [Ids -> Places] /\ boots' \in 0..MaxBoots /\ link' \subseteq Instances
          /\ uploading' \subseteq uploading
          /\ \A d \in Ids : at'[d] = at[d] \/ (at[d] # "unused" /\ at'[d] = "over")
          /\ UNCHANGED <<conv, about, answer, file, rows>>
      BY <1>1, RestartResult
    <2>2. MoveOn(Ids)
      BY <1>1, <2>1 DEF MoveOn
    <2> QED
      BY <1>0, <1>1, <2>1, <2>2, MoveStep
  <1>2. CASE DieOfReply(e)
    BY <1>1, <1>2 DEF DieOfReply, LogsOther
  <1>3. CASE CrashInProgress(e)
    <2>1. about[e] \in Conversations \cup {None} /\ (about[e] # None => conv[about[e]] # "none")
      BY DEF TablesInv, FlowInv, TypeOK
    <2> QED
      BY <1>1, <1>3, <2>1, OtherLogged DEF CrashInProgress
  <1>4. CASE Crash
    BY <1>1, <1>4, OtherLogged DEF Crash
  <1>5. ASSUME NEW sent \in {{}, {e}}, Restart(sent), at[e] \in {"message", "reply"},
               NEW as, as \subseteq rows, CreateMessage(e, about[e], as), LogsMessage(e),
               via' \in [Ids -> Instances \cup {None}],
               \A d \in Ids : d # e => via'[d] = via[d]
        PROVE  TablesInv'
    <2>1. /\ at' \in [Ids -> Places] /\ boots' \in 0..MaxBoots /\ link' \subseteq Instances
          /\ uploading' \subseteq uploading
          /\ at'[e] \in {"toPlugin", "over"}
          /\ \A d \in Ids \ {e} : at'[d] = at[d] \/ (at[d] # "unused" /\ at'[d] = "over")
          /\ UNCHANGED <<conv, about, answer, file, rows>>
      BY <1>5, RestartResult
    <2>2. MoveOn(Ids \ {e})
      BY <1>5, <2>1 DEF MoveOn
    <2> QED
      BY <1>5, <2>1, <2>2, UnansweredStep
  <1>6. CASE CrashInReply(e)
    <2>1. /\ at[e] = "reply" /\ Restart({}) /\ via' = via
          /\ PublishOrFail(log, torn, Row("outbound.message", about[e], e))
      BY <1>6 DEF CrashInReply
    <2>2. LogsMessage(e)
      BY <2>1 DEF LogsMessage, MessageTypes
    <2> DEFINE as == {}
    <2>3. as \subseteq rows /\ CreateMessage(e, about[e], as)
      BY <1>6 DEF CrashInReply
    <2> HIDE DEF as
    <2> QED
      BY <1>0, <1>5, <2>1, <2>2, <2>3
  <1>7. ASSUME NEW ids \in Lists, CrashInMessage(e, ids) PROVE TablesInv'
    <2> DEFINE as == ToSet(ids)
    <2>1. at[e] = "message" /\ as \subseteq rows /\ CreateMessage(e, about[e], as)
      BY <1>7 DEF CrashInMessage, AllFound
    <2>2. \/ Restart({}) /\ UNCHANGED <<logVars, via>>
          \/ /\ PublishOrFail(log, torn, Row("inbound.message", about[e], e))
             /\ \/ /\ \E i \in Targets(about[e]) : via' = [via EXCEPT ![e] = i]
                   /\ Restart({e})
                \/ Restart({}) /\ UNCHANGED via
      BY <1>7 DEF CrashInMessage
    <2>3. LogsMessage(e)
      BY <2>2 DEF LogsMessage, MessageTypes, logVars
    <2>4. /\ via' \in [Ids -> Instances \cup {None}]
          /\ \A d \in Ids : d # e => via'[d] = via[d]
      <3>1. Targets(about[e]) \subseteq Instances
        BY DEF Targets, TablesInv, TypeOK
      <3> QED
        BY <1>0, <2>2, <3>1
    <2>5. Restart({}) \/ Restart({e})
      BY <2>2
    <2> HIDE DEF as
    <2> QED
      BY <1>5, <2>1, <2>3, <2>4, <2>5
  <1> QED
    BY <1>2, <1>3, <1>4, <1>6, <1>7

\* A request or a frame that moves on alone, with an event or without.
LEMMA MoveOne ==
    ASSUME TablesInv, NEW e \in Ids,
           \/ PluginReceives(e) \/ PublishProgress(e) \/ FinishAction(e)
    PROVE  TablesInv'
  <1>0. /\ via \in [Ids -> Instances \cup {None}] /\ link \subseteq Instances
        /\ boots \in 0..MaxBoots /\ at \in [Ids -> Places]
        /\ about[e] \in Conversations \cup {None} /\ (about[e] # None => conv[about[e]] # "none")
        /\ (at[e] # "unused" => about[e] \in Conversations)
    BY DEF TablesInv, FlowInv, TypeOK
  <1>1. CASE PluginReceives(e)
    <2>1. at' \in [Ids -> Places] /\ MoveOn(Ids)
      BY <1>0, <1>1 DEF PluginReceives, MoveOn, Places, frameVars
    <2> QED
      BY <1>0, <1>1, <2>1, MoveStep DEF PluginReceives, fileVars, frameVars, LogsOther
  <1>2. CASE PublishProgress(e)
    <2>1. at' \in [Ids -> Places] /\ MoveOn(Ids)
      BY <1>0, <1>2 DEF PublishProgress, MoveOn, Places, frameVars
    <2>2. LogsOther
      BY <1>0, <1>2, OtherLogged DEF PublishProgress
    <2> QED
      BY <1>0, <1>2, <2>1, <2>2, MoveStep DEF PublishProgress, fileVars, frameVars
  <1>3. CASE FinishAction(e)
    <2>1. /\ at[e] = "action"
          /\ UNCHANGED <<conv, messages, about, answer, named, link, file, uploading, rows, boots>>
      BY <1>3 DEF FinishAction, fileVars
    <2>2. LogsOther
      BY <1>0, <1>3, OtherLogged DEF FinishAction
    <2> DEFINE Moved ==
                  /\ via' \in [Ids -> Instances \cup {None}] /\ at' \in [Ids -> Places]
                  /\ at'[e] \in {"toPlugin", "over"} /\ (at'[e] = "over" => via'[e] = via[e])
                  /\ \A d \in Ids : d # e => via'[d] = via[d] /\ at'[d] = at[d]
    <2>3. Moved
      <3>1. ASSUME NEW accepted \in BOOLEAN, Send(e, about[e], accepted) PROVE Moved
        <4>1. /\ via' \in [Ids -> Instances \cup {None}]
              /\ \E q \in {"toPlugin", "over"} : at' = [at EXCEPT ![e] = q]
              /\ \A d \in Ids : d # e => via'[d] = via[d] /\ at'[d] = at[d]
              /\ accepted => via'[e] # None /\ at'[e] = "toPlugin"
              /\ ~accepted => via'[e] = via[e] /\ at'[e] = "over"
          BY <1>0, <2>1, <3>1, SendResult
        <4>2. at' \in [Ids -> Places]
          BY <1>0, <4>1 DEF Places
        <4> QED
          BY <4>1, <4>2
      <3>2. ASSUME at' = [at EXCEPT ![e] = "over"], via' = via PROVE Moved
        BY <1>0, <3>2 DEF Places
      <3> QED
        BY <1>3, <3>1, <3>2 DEF FinishAction
    <2>4. MoveOn(Ids)
      BY <2>1, <2>3 DEF MoveOn
    <2> QED
      BY <1>0, <2>1, <2>2, <2>3, <2>4, MoveStep
  <1> QED
    BY <1>1, <1>2, <1>3

\* Every step keeps what the tables say.
LEMMA NextTables == TablesInv /\ [Next]_vars => TablesInv'
  <1> SUFFICES ASSUME TablesInv, [Next]_vars PROVE TablesInv'
    OBVIOUS
  <1>0. /\ via \in [Ids -> Instances \cup {None}] /\ link \subseteq Instances
        /\ boots \in 0..MaxBoots /\ at \in [Ids -> Places]
    BY DEF TablesInv, TypeOK
  <1>1. ASSUME NEW c \in Conversations, CreateConversation(c) PROVE TablesInv'
    BY <1>1, OpenStep DEF CreateConversation, frameVars, fileVars
  <1>2. ASSUME NEW c \in Conversations, CreateMain(c) PROVE TablesInv'
    BY <1>2, OpenStep DEF CreateMain, frameVars, fileVars, logVars
  <1>3. ASSUME NEW c \in Conversations, UpdateConversation(c) PROVE TablesInv'
    <2>1. LogsOther
      BY <1>3, OtherLogged DEF UpdateConversation
    <2>2. MoveOn(Ids)
      BY <1>3 DEF UpdateConversation, MoveOn, frameVars
    <2> QED
      BY <1>0, <1>3, <2>1, <2>2, MoveStep DEF UpdateConversation, frameVars, fileVars
  <1>4. ASSUME NEW c \in Conversations, DeleteConversation(c) PROVE TablesInv'
    BY <1>4, DeleteStep
  <1>5. ASSUME NEW a \in Attachments, BeginUpload(a) \/ FinishUpload(a) \/ FailUpload(a)
        PROVE  TablesInv'
    BY <1>5, UploadStep
  <1>6. ASSUME NEW i \in Instances, Connect(i) PROVE TablesInv'
    <2>1. LogsOther
      BY <1>6, OtherLogged DEF Connect
    <2>2. MoveOn(Ids)
      BY <1>6 DEF Connect, MoveOn
    <2> QED
      BY <1>0, <1>6, <2>1, <2>2, MoveStep DEF Connect, fileVars
  <1>7. ASSUME NEW i \in Instances, Disconnect(i) PROVE TablesInv'
    <2>1. at' \in [Ids -> Places] /\ MoveOn(Ids)
      BY <1>0, <1>7 DEF Disconnect, Lost, MoveOn, Places
    <2> QED
      BY <1>0, <1>7, <2>1, MoveStep DEF Disconnect, fileVars, LogsOther
  <1>8. ASSUME NEW e \in Ids, PluginReceives(e) \/ PublishProgress(e) \/ FinishAction(e)
        PROVE  TablesInv'
    BY <1>8, MoveOne
  <1>9. ASSUME NEW e \in Ids, NEW c \in Conversations, NEW p \in {"message", "action"},
               BeginRequest(e, c, p)
        PROVE  TablesInv'
    <2>1. via[e] = None
      BY <1>9 DEF BeginRequest, TablesInv, FlowInv
    <2> QED
      BY <1>0, <1>9, <2>1, BeginStep DEF BeginRequest, frameVars
  <1>10. ASSUME NEW e \in Ids, NEW c \in Conversations, NEW i \in Instances,
                NEW p \in {"reply", "progress"}, PluginSends(e, i, c, p)
         PROVE  TablesInv'
    <2>1. /\ via' \in [Ids -> Instances \cup {None}]
          /\ \A d \in Ids : d # e => via'[d] = via[d]
      BY <1>0, <1>10 DEF PluginSends
    <2>2. p \notin {"message", "action"}
      BY <1>10
    <2> QED
      BY <1>10, <2>1, <2>2, BeginStep DEF PluginSends
  <1>11. ASSUME NEW e \in Ids, FailMessage(e) \/ \E ids \in Lists : RefuseMessage(e, ids)
         PROVE  TablesInv'
    BY <1>11, RefuseStep
  <1>12. ASSUME NEW e \in Ids, NEW ids \in Lists, FinishMessage(e, ids) \/ RejectMessage(e, ids)
         PROVE  TablesInv'
    BY <1>12, FinishStep, RejectStep
  <1>13. ASSUME NEW e \in Ids, StoreReply(e) PROVE TablesInv'
    <2> DEFINE as == {}
    <2>1. /\ at[e] = "reply" /\ as \subseteq rows /\ CreateMessage(e, about[e], as)
          /\ Publish(log, torn, Row("outbound.message", about[e], e))
          /\ at' = [at EXCEPT ![e] = "over"]
          /\ UNCHANGED <<conv, about, answer, link, via, file, uploading, rows, boots>>
      BY <1>13 DEF StoreReply, fileVars, frameVars
    <2>2. at' \in [Ids -> Places] /\ at'[e] \in {"toPlugin", "over"} /\ MoveOn(Ids \ {e})
      BY <1>0, <2>1 DEF Places, MoveOn
    <2>3. LogsMessage(e)
      BY <2>1 DEF LogsMessage, PublishOrFail, MessageTypes
    <2> HIDE DEF as
    <2> QED
      BY <1>0, <2>1, <2>2, <2>3, UnansweredStep
  <1>14. ASSUME NEW e \in Ids, \/ DieOfReply(e) \/ CrashInReply(e) \/ CrashInProgress(e)
                               \/ \E ids \in Lists : CrashInMessage(e, ids)
         PROVE  TablesInv'
    BY <1>14, CrashStep
  <1>15. CASE Crash
    <2>1. Restart({}) /\ LogsOther /\ UNCHANGED <<messages, named, via>>
      BY <1>15, OtherLogged DEF Crash
    <2>2. /\ at' \in [Ids -> Places] /\ boots' \in 0..MaxBoots /\ link' \subseteq Instances
          /\ uploading' \subseteq uploading /\ UNCHANGED <<conv, about, answer, file, rows>>
          /\ \A d \in Ids : at'[d] = at[d] \/ (at[d] # "unused" /\ at'[d] = "over")
      BY <2>1, RestartResult
    <2>3. MoveOn(Ids)
      BY <2>1, <2>2 DEF MoveOn
    <2> QED
      BY <1>0, <2>1, <2>2, <2>3, MoveStep
  <1>16. CASE UNCHANGED vars
    <2>1. LogsOther /\ MoveOn(Ids)
      BY <1>16 DEF vars, LogsOther, MoveOn, logVars
    <2> QED
      BY <1>0, <1>16, <2>1, MoveStep DEF vars
  <1> QED
    BY <1>1, <1>2, <1>3, <1>4, <1>5, <1>6, <1>7, <1>8, <1>9, <1>10, <1>11, <1>12, <1>13, <1>14,
       <1>15, <1>16 DEF Next

\* A step that sends nothing.
LEMMA NothingSent ==
    ASSUME IInv, UNCHANGED <<about, via>>,
           \A e \in Ids : at'[e] \in {"toPlugin", "atPlugin"} => at[e] \in {"toPlugin", "atPlugin"}
    PROVE  SentInv'
  BY DEF IInv, SentInv

\* A step that sends e to one of its plugins, if there is one.
LEMMA SendSent ==
    ASSUME IInv, NEW e \in Ids, at[e] # "unused", about' = about,
           \A d \in Ids : d # e => via'[d] = via[d] /\ at'[d] = at[d],
           at'[e] = "atPlugin" => FALSE,
           at'[e] = "toPlugin" => \E i \in Targets(about[e]) : via' = [via EXCEPT ![e] = i]
    PROVE  SentInv'
  <1>1. TypeOK /\ SentInv /\ about[e] \in Conversations
    BY DEF IInv, TablesInv, FlowInv, TypeOK
  <1>2. at'[e] = "toPlugin" => via'[e] # None /\ InstanceOf[about[e]] \in {None, via'[e]}
    BY <1>1, ConstantsAssumption DEF Targets, TypeOK
  <1> QED
    BY <1>1, <1>2 DEF SentInv

\* Every step keeps what was sent with the right plugin.
LEMMA NextSent == IInv /\ [Next]_vars => SentInv'
  <1> SUFFICES ASSUME IInv, [Next]_vars PROVE SentInv'
    OBVIOUS
  <1>0. TypeOK /\ SentInv
    BY DEF IInv, TablesInv
  <1>1. ASSUME NEW c \in Conversations,
               \/ CreateConversation(c) \/ CreateMain(c)
               \/ UpdateConversation(c) \/ DeleteConversation(c)
        PROVE  SentInv'
    BY <1>0, <1>1 DEF CreateConversation, CreateMain, UpdateConversation, DeleteConversation,
                      frameVars, SentInv
  <1>2. ASSUME NEW a \in Attachments, BeginUpload(a) \/ FinishUpload(a) \/ FailUpload(a)
        PROVE  SentInv'
    BY <1>0, <1>2 DEF BeginUpload, FinishUpload, FailUpload, frameVars, SentInv
  <1>3. ASSUME NEW i \in Instances, Connect(i) \/ Disconnect(i) PROVE SentInv'
    BY <1>3, NothingSent DEF Connect, Disconnect, Lost
  <1>4. ASSUME NEW e \in Ids, NEW c \in Conversations,
               NEW p \in {"message", "action", "reply", "progress"},
               at[e] = "unused", at' = [at EXCEPT ![e] = p], about' = [about EXCEPT ![e] = c],
               \A d \in Ids : d # e => via'[d] = via[d]
        PROVE  SentInv'
    BY <1>0, <1>4 DEF SentInv, TypeOK
  <1>5. ASSUME NEW e \in Ids, NEW c \in Conversations, NEW p \in {"message", "action"},
               BeginRequest(e, c, p)
        PROVE  SentInv'
    BY <1>4, <1>5 DEF BeginRequest, frameVars
  <1>6. ASSUME NEW e \in Ids, NEW c \in Conversations, NEW i \in Instances,
               NEW p \in {"reply", "progress"}, PluginSends(e, i, c, p)
        PROVE  SentInv'
    <2>1. \A d \in Ids : d # e => via'[d] = via[d]
      BY <1>0, <1>6 DEF PluginSends, TypeOK
    <2> QED
      BY <1>4, <1>6, <2>1 DEF PluginSends
  <1>7. ASSUME NEW e \in Ids,
               \/ FailMessage(e) \/ PluginReceives(e) \/ StoreReply(e) \/ PublishProgress(e)
               \/ \E ids \in Lists : RefuseMessage(e, ids) \/ RejectMessage(e, ids)
        PROVE  SentInv'
    <2>1. UNCHANGED <<about, via>>
      BY <1>7 DEF FailMessage, PluginReceives, StoreReply, PublishProgress, RefuseMessage,
                  RejectMessage, frameVars
    <2>2. \A d \in Ids : at'[d] \in {"toPlugin", "atPlugin"} => at[d] \in {"toPlugin", "atPlugin"}
      BY <1>0, <1>7 DEF FailMessage, PluginReceives, StoreReply, PublishProgress, RefuseMessage,
                        RejectMessage, TypeOK
    <2> QED
      BY <2>1, <2>2, NothingSent
  <1>8. ASSUME NEW e \in Ids, NEW accepted \in BOOLEAN, Send(e, about[e], accepted),
               at[e] # "unused", about' = about
        PROVE  SentInv'
    <2>1. \A d \in Ids : d # e => via'[d] = via[d] /\ at'[d] = at[d]
      BY <1>0, <1>8 DEF Send, TypeOK
    <2>2. /\ at'[e] = "atPlugin" => FALSE
          /\ at'[e] = "toPlugin" => \E i \in Targets(about[e]) : via' = [via EXCEPT ![e] = i]
      BY <1>0, <1>8 DEF Send, TypeOK
    <2> QED
      BY <1>8, <2>1, <2>2, SendSent
  <1>9. ASSUME NEW e \in Ids, NEW ids \in Lists, FinishMessage(e, ids) PROVE SentInv'
    BY <1>8, <1>9 DEF FinishMessage
  <1>10. ASSUME NEW e \in Ids, FinishAction(e) PROVE SentInv'
    <2>1. CASE at' = [at EXCEPT ![e] = "over"] /\ via' = via /\ about' = about
      BY <1>0, <2>1, NothingSent DEF TypeOK
    <2> QED
      BY <1>8, <1>10, <2>1 DEF FinishAction
  <1>11. ASSUME Restart({}), via' = via PROVE SentInv'
    BY <1>11, NothingSent DEF Restart
  <1>12. ASSUME NEW e \in Ids, DieOfReply(e) \/ CrashInReply(e) \/ CrashInProgress(e)
         PROVE  SentInv'
    BY <1>11, <1>12 DEF DieOfReply, CrashInReply, CrashInProgress
  <1>13. ASSUME NEW e \in Ids, NEW ids \in Lists, CrashInMessage(e, ids) PROVE SentInv'
    <2>1. CASE Restart({}) /\ via' = via
      BY <1>11, <2>1
    <2>2. ASSUME Restart({e}), NEW i \in Targets(about[e]), via' = [via EXCEPT ![e] = i]
          PROVE  SentInv'
      <3>1. TablesInv /\ about[e] \in Conversations
        BY <1>13 DEF CrashInMessage, IInv, TablesInv, FlowInv, TypeOK
      <3>2. i \in Instances /\ InstanceOf[about[e]] \in {None, i}
        BY <2>2, <3>1, ConstantsAssumption DEF Targets, TablesInv, TypeOK
      <3>3. \A d \in Ids : via'[d] = IF d = e THEN i ELSE via[d]
        BY <1>0, <2>2 DEF TypeOK
      <3>4. /\ about' = about
            /\ \A d \in Ids : d # e /\ at'[d] \in {"toPlugin", "atPlugin"} =>
                                  at[d] \in {"toPlugin", "atPlugin"}
        BY <2>2 DEF Restart
      <3> QED
        BY <1>0, <3>2, <3>3, <3>4, ConstantsAssumption DEF SentInv
    <2> QED
      BY <1>13, <2>1, <2>2 DEF CrashInMessage
  <1>14. CASE Crash
    BY <1>11, <1>14 DEF Crash
  <1>15. CASE UNCHANGED vars
    BY <1>0, <1>15 DEF vars, SentInv
  <1> QED
    BY <1>1, <1>2, <1>3, <1>5, <1>6, <1>7, <1>9, <1>10, <1>12, <1>13, <1>14, <1>15 DEF Next

-----------------------------------------------------------------------------
\* The inductive invariant holds in every reachable state.
THEOREM Invariance == Spec => []IInv
  <1>1. Init => TablesInv
    <2> SUFFICES ASSUME Init PROVE TablesInv
      OBVIOUS
    <2>1. TypeOK
      BY ConstantsAssumption DEF Init, TypeOK, Places
    <2>2. NothingOrphaned /\ LogAgrees /\ AttachmentsAreThere
      BY DEF Init, NothingOrphaned, LogAgrees, AttachmentsAreThere
    <2>3. AnswersAreTrue
      BY DEF Init, AnswersAreTrue, AnswerIsTrue
    <2>4. FlowInv
      BY ConstantsAssumption DEF Init, FlowInv
    <2> QED
      BY <2>1, <2>2, <2>3, <2>4 DEF TablesInv
  <1>2. Init => SentInv
    BY DEF Init, SentInv
  <1>3. IInv /\ [Next]_vars => IInv'
    BY NextTables, NextSent DEF IInv
  <1> QED
    BY <1>1, <1>2, <1>3, PTL DEF Spec, IInv

\* Every variable has its type in every reachable state.
THEOREM TypeCorrect == Spec => []TypeOK
  <1>1. IInv => TypeOK
    BY DEF IInv, TablesInv
  <1> QED
    BY <1>1, Invariance, PTL

\* A stored message belongs to a conversation that is there, whatever was
\* deleted during the route's awaits (routes.ts 338-359, pluginHub.ts 189,
\* db.ts 364-374, 385-409).
THEOREM NoOrphans == Spec => []NothingOrphaned
  <1>1. IInv => NothingOrphaned
    BY DEF IInv, TablesInv
  <1> QED
    BY <1>1, Invariance, PTL

\* No row of the log, be it torn, contradicts the tables, whatever statement
\* failed and wherever the process died (routes.ts 290-300, 352-386; db.ts
\* 364-374, 459-482).
THEOREM LogIsTrue == Spec => []LogAgrees
  <1>1. IInv => LogAgrees
    BY DEF IInv, TablesInv
  <1> QED
    BY <1>1, Invariance, PTL

\* The answer to a message says what became of it, also when it was stored
\* and then refused, or sent and then not published because the log was dead
\* (routes.ts 341-392; db.ts 467-472).
THEOREM AnswersHold == Spec => []AnswersAreTrue
  <1>1. IInv => AnswersAreTrue
    BY DEF IInv, TablesInv
  <1> QED
    BY <1>1, Invariance, PTL

\* A message's attachments have rows and their files are whole (routes.ts
\* 308-325, 342-345; db.ts 400-405).
THEOREM AttachmentsStay == Spec => []AttachmentsAreThere
  <1>1. IInv => AttachmentsAreThere
    BY DEF IInv, TablesInv
  <1> QED
    BY <1>1, Invariance, PTL

-----------------------------------------------------------------------------
(* MessageFlow implements Chat.                                            *)

\* What Chat sees of an id, of the log and of the conversations.
LEMMA Parts ==
    ASSUME IInv
    PROVE  /\ Done \subseteq Ids /\ Shown \subseteq Ids /\ messages \subseteq Ids
           /\ \A e \in Ids : e \in Done <=> at[e] \in {"toPlugin", "atPlugin", "over"}
           /\ \A e \in Ids : at[e] # "unused" <=> about[e] # None
           /\ \A e \in Ids : about[e] # None => about[e] \in Conversations
  BY ConstantsAssumption DEF IInv, TablesInv, TypeOK, FlowInv, Done, Shown

\* Events that are no messages are not shown, be they logged or torn.
LEMMA NoMoreShown ==
    ASSUME NEW r, r.type \notin MessageTypes, PublishOrFail(log, torn, r)
    PROVE  Shown' = Shown
  BY DEF Shown, PublishOrFail, Publish, PublishFails

\* Nor are those that log does not keep.
LEMMA OthersAreNotShown ==
    ASSUME NEW c, PublishOther \/ PublishOtherFails(c)
    PROVE  Shown' = Shown
  <1>1. OtherRow(c).type \notin MessageTypes
    BY DEF OtherRow, Row, MessageTypes
  <1>2. CASE PublishOther
    BY <1>2 DEF PublishOther, logVars, Shown
  <1>3. CASE PublishOtherFails(c)
    BY <1>1, <1>3, NoMoreShown DEF PublishOtherFails, PublishOrFail
  <1> QED
    BY <1>2, <1>3

\* The event of a message shows it; one that could not be published may.
LEMMA OneMoreShown ==
    ASSUME NEW e \in Ids, NEW t \in MessageTypes, NEW c, PublishOrFail(log, torn, Row(t, c, e))
    PROVE  /\ Publish(log, torn, Row(t, c, e)) => Shown' = Shown \cup {e}
           /\ Shown' = Shown \/ Shown' = Shown \cup {e}
  <1> DEFINE r0 == Row(t, c, e)
  <1>1. r0.type \in MessageTypes /\ r0.id = e
    BY DEF Row
  <1>2. Shown' \subseteq Ids /\ Shown \subseteq Ids
    BY DEF Shown
  <1> HIDE DEF r0
  <1>3. ASSUME log' \cup torn' = log \cup torn \cup {r0} PROVE Shown' = Shown \cup {e}
    <2>1. ASSUME NEW d \in Ids PROVE d \in Shown' <=> d \in Shown \/ d = e
      BY <1>1, <1>3 DEF Shown
    <2> QED
      BY <1>2, <2>1
  <1>4. ASSUME log' \cup torn' = log \cup torn PROVE Shown' = Shown
    BY <1>4 DEF Shown
  <1>5. Publish(log, torn, r0) => log' \cup torn' = log \cup torn \cup {r0}
    BY DEF Publish
  <1>6. PublishFails(log, torn, r0) => \/ log' \cup torn' = log \cup torn \cup {r0}
                                       \/ log' \cup torn' = log \cup torn
    BY DEF PublishFails
  <1> QED
    BY <1>3, <1>4, <1>5, <1>6 DEF PublishOrFail, r0

\* A step that leaves alone what Chat sees.
LEMMA StutterRefines ==
    ASSUME UNCHANGED <<conv, messages, at, about, answer, via>>, Shown' = Shown
    PROVE  UNCHANGED ChatSpec!chatVars
  BY DEF ChatSpec!chatVars, RoomOf, Done, Told, DueTo, HandedTo

\* A conversation that is created, or there already, and announced or not.
LEMMA OpenRefines ==
    ASSUME IInv, NEW c \in Conversations, CreateConversation(c) \/ CreateMain(c)
    PROVE  ChatSpec!Open(c) \/ UNCHANGED ChatSpec!chatVars
  <1>0. TypeOK
    BY DEF IInv, TablesInv
  <1>1. /\ conv[c] # "deleted" /\ conv' = [conv EXCEPT ![c] = "open"]
        /\ UNCHANGED <<messages, at, about, answer, via>>
    BY DEF CreateConversation, CreateMain, frameVars
  <1>2. Shown' = Shown
    <2>1. CASE CreateConversation(c)
      <3>1. Row("conversation.created", c, None).type \notin MessageTypes
        BY DEF Row, MessageTypes
      <3> QED
        BY <2>1, <3>1, NoMoreShown DEF CreateConversation
    <2>2. CASE CreateMain(c)
      BY <2>2 DEF CreateMain, Shown, logVars
    <2> QED
      BY <2>1, <2>2
  <1>3. CASE conv[c] = "open"
    <2>1. conv' = conv
      BY <1>0, <1>1, <1>3 DEF TypeOK
    <2> QED
      BY <1>1, <1>2, <2>1, StutterRefines
  <1>4. CASE conv[c] = "none"
    <2>1. [d \in Conversations |-> RoomOf(d)'] =
              [[d \in Conversations |-> RoomOf(d)] EXCEPT ![c] = "open"]
      <3>1. \A d \in Conversations : RoomOf(d)' = IF d = c THEN "open" ELSE RoomOf(d)
        BY <1>0, <1>1 DEF RoomOf, TypeOK
      <3> QED
        BY <3>1
    <2>2. RoomOf(c) = "none"
      BY <1>4 DEF RoomOf
    <2>3. Done' = Done
      BY <1>1 DEF Done
    <2>4. \A e \in Ids : DueTo(e)' = DueTo(e) /\ HandedTo(e)' = HandedTo(e) /\ Told(e)' = Told(e)
      BY <1>1 DEF DueTo, HandedTo, Told
    <2> QED
      BY <1>1, <1>2, <2>1, <2>2, <2>3, <2>4 DEF ChatSpec!Open
  <1> QED
    BY <1>0, <1>1, <1>3, <1>4 DEF TypeOK

\* A conversation that is deleted is closed, with its messages.
LEMMA CloseRefines ==
    ASSUME IInv, NEW c \in Conversations, DeleteConversation(c)
    PROVE  ChatSpec!Close(c)
  <1>0. TypeOK /\ FlowInv
    BY DEF IInv, TablesInv
  <1>1. [d \in Conversations |-> RoomOf(d)'] =
            [[d \in Conversations |-> RoomOf(d)] EXCEPT ![c] = "closed"]
    <2>1. \A d \in Conversations : RoomOf(d)' = IF d = c THEN "closed" ELSE RoomOf(d)
      BY <1>0 DEF DeleteConversation, RoomOf, TypeOK
    <2> QED
      BY <2>1
  <1>2. RoomOf(c) = "open"
    BY DEF DeleteConversation, RoomOf
  <1>3. Shown' = {e \in Shown : about[e] # c}
    <2> DEFINE r0 == Row("conversation.deleted", c, None)
    <2>1. r0.type \notin MessageTypes
      BY DEF Row, MessageTypes
    <2>2. \/ log' \cup torn' = NotOf(c, log \cup torn) \cup {r0}
          \/ log' \cup torn' = NotOf(c, log \cup torn)
      BY DEF DeleteConversation, PublishOrFail, Publish, PublishFails, NotOf
    <2> HIDE DEF r0
    <2>3. ASSUME NEW e \in Ids PROVE e \in Shown' <=> e \in Shown /\ about[e] # c
      <3>1. \A r \in log \cup torn : r.id = e => about[e] = r.conv
        BY <1>0, ConstantsAssumption DEF FlowInv
      <3> QED
        BY <2>1, <2>2, <3>1 DEF Shown, NotOf
    <2>4. Shown' \subseteq Ids /\ Shown \subseteq Ids
      BY DEF Shown
    <2> QED
      BY <2>3, <2>4
  <1>4. Done' = Done
    BY DEF DeleteConversation, Done
  <1>5. \A e \in Ids : DueTo(e)' = DueTo(e) /\ HandedTo(e)' = HandedTo(e) /\ Told(e)' = Told(e)
    BY DEF DeleteConversation, DueTo, HandedTo, Told, frameVars
  <1>6. /\ c \notin Mains /\ messages' = {e \in messages : about[e] # c} /\ about' = about
    BY DEF DeleteConversation
  <1> QED
    BY <1>1, <1>2, <1>3, <1>4, <1>5, <1>6 DEF ChatSpec!Close

\* A request or a frame that begins is a draft.
LEMMA DraftRefines ==
    ASSUME IInv, NEW e \in Ids, NEW c \in Conversations,
           NEW p \in {"message", "action", "reply", "progress"},
           at[e] = "unused", conv[c] # "none",
           at' = [at EXCEPT ![e] = p], about' = [about EXCEPT ![e] = c],
           \A d \in Ids : d # e => via'[d] = via[d],
           UNCHANGED <<conv, messages, log, torn, answer>>
    PROVE  ChatSpec!Draft(e, c)
  <1>0. TypeOK /\ about[e] = None
    BY DEF IInv, TablesInv, FlowInv
  <1>1. \A d \in Ids : at'[d] = IF d = e THEN p ELSE at[d]
    BY <1>0 DEF TypeOK
  <1>2. Done' = Done
    BY <1>1 DEF Done
  <1>3. Shown' = Shown
    BY DEF Shown
  <1>4. \A d \in Ids : DueTo(d)' = DueTo(d) /\ HandedTo(d)' = HandedTo(d) /\ Told(d)' = Told(d)
    BY <1>1 DEF DueTo, HandedTo, Told
  <1>5. \A d \in Conversations : RoomOf(d)' = RoomOf(d)
    BY DEF RoomOf
  <1>6. RoomOf(c) # "none"
    BY DEF RoomOf
  <1> QED
    BY <1>0, <1>2, <1>3, <1>4, <1>5, <1>6 DEF ChatSpec!Draft

\* The plugins sendToPlugin may choose are those Chat allows.
LEMMA TargetsAllowed ==
    ASSUME IInv, NEW e \in Ids, about[e] \in Conversations
    PROVE  Targets(about[e]) \subseteq ChatSpec!PluginsFor(e)
  BY ConstantsAssumption DEF Targets, ChatSpec!PluginsFor, IInv, TablesInv, TypeOK

\* What sendToPlugin does for draft e is Address, or leaves due alone.
LEMMA SendRefines ==
    ASSUME IInv, NEW e \in Ids, at[e] \in {"message", "action", "reply", "progress"},
           NEW accepted \in BOOLEAN, Send(e, about[e], accepted)
    PROVE  /\ Done' = Done \cup {e}
           /\ \A d \in Ids : HandedTo(d)' = HandedTo(d)
           /\ accepted => ChatSpec!Address(e)
           /\ ~accepted => \A d \in Ids : DueTo(d)' = DueTo(d)
  <1>0. TypeOK /\ about[e] \in Conversations
    BY DEF IInv, TablesInv, FlowInv, TypeOK
  <1>1. \A d \in Ids : d # e => at'[d] = at[d] /\ via'[d] = via[d]
    BY <1>0 DEF Send, TypeOK
  <1>2. at'[e] = IF accepted THEN "toPlugin" ELSE "over"
    BY <1>0 DEF Send, TypeOK
  <1>3. Done' = Done \cup {e}
    BY <1>1, <1>2 DEF Done
  <1>4. \A d \in Ids : HandedTo(d)' = HandedTo(d)
    BY <1>1, <1>2 DEF HandedTo
  <1>5. ASSUME accepted PROVE ChatSpec!Address(e)
    <2>1. PICK i \in Targets(about[e]) : via' = [via EXCEPT ![e] = i]
      BY <1>5 DEF Send
    <2>2. i \in ChatSpec!PluginsFor(e)
      BY <1>0, <2>1, TargetsAllowed
    <2>3. \A d \in Ids : DueTo(d)' = IF d = e THEN i ELSE DueTo(d)
      BY <1>0, <1>1, <1>2, <1>5, <2>1 DEF DueTo, TypeOK
    <2>4. [d \in Ids |-> DueTo(d)'] = [[d \in Ids |-> DueTo(d)] EXCEPT ![e] = i]
      BY <2>3
    <2> QED
      BY <2>2, <2>4 DEF ChatSpec!Address
  <1>6. ASSUME ~accepted PROVE \A d \in Ids : DueTo(d)' = DueTo(d)
    BY <1>1, <1>2, <1>6 DEF DueTo
  <1> QED
    BY <1>3, <1>4, <1>5, <1>6

\* The answer to e changes what is told of e, and only that.
LEMMA AnswerTells ==
    ASSUME NEW e \in Ids, \A d \in Ids : d # e => answer'[d] = answer[d]
    PROVE  [d \in Ids |-> Told(d)'] = [[d \in Ids |-> Told(d)] EXCEPT ![e] = Told(e)']
  <1> DEFINE new == [d \in Ids |-> Told(d)']
             old == [d \in Ids |-> Told(d)]
  <1>1. \A d \in Ids : d # e => Told(d)' = Told(d)
    BY DEF Told
  <1>2. \A d \in Ids : d # e => new[d] = old[d]
    BY <1>1
  <1>3. new[e] = Told(e)' /\ DOMAIN new = Ids /\ DOMAIN old = Ids
    OBVIOUS
  <1>4. new = [d \in Ids |-> new[d]] /\ old = [d \in Ids |-> old[d]]
    OBVIOUS
  <1> HIDE DEF new, old
  <1>5. new = [old EXCEPT ![e] = new[e]]
    BY <1>2, <1>3, <1>4
  <1> QED
    BY <1>3, <1>5 DEF new, old

\* A message that is stored, sent, published and answered is posted; one that
\* could not be published has failed.
LEMMA FinishRefines ==
    ASSUME IInv, NEW e \in Ids, NEW ids \in Lists, FinishMessage(e, ids)
    PROVE  ChatSpec!Post(e) \/ ChatSpec!Fail(e)
  <1> DEFINE r0 == Row("inbound.message", about[e], e)
  <1>0. TypeOK
    BY DEF IInv, TablesInv
  <1>1. PICK accepted \in BOOLEAN :
            /\ Send(e, about[e], accepted)
            /\ \/ /\ Publish(log, torn, r0)
                  /\ answer' = [answer EXCEPT ![e] = IF accepted THEN 202 ELSE 503]
               \/ /\ PublishFails(log, torn, r0)
                  /\ answer' = [answer EXCEPT ![e] = 500]
    BY DEF FinishMessage
  <1>2. /\ at[e] = "message" /\ conv[about[e]] = "open" /\ messages' = messages \cup {e}
        /\ UNCHANGED <<conv, about>>
    BY DEF FinishMessage, CreateMessage
  <1>3. /\ Done' = Done \cup {e}
        /\ \A d \in Ids : HandedTo(d)' = HandedTo(d)
        /\ accepted => ChatSpec!Address(e)
        /\ ~accepted => \A d \in Ids : DueTo(d)' = DueTo(d)
    BY <1>1, <1>2, SendRefines
  <1>4. /\ Publish(log, torn, r0) => Shown' = Shown \cup {e}
        /\ Shown' = Shown \/ Shown' = Shown \cup {e}
    BY <1>1, OneMoreShown DEF MessageTypes, PublishOrFail
  <1>5. [d \in Ids |-> Told(d)'] = [[d \in Ids |-> Told(d)] EXCEPT ![e] = Told(e)']
    <2>1. \A d \in Ids : d # e => answer'[d] = answer[d]
      BY <1>0, <1>1 DEF TypeOK
    <2> QED
      BY <2>1, AnswerTells
  <1>6. ChatSpec!IsDraft(e) /\ ChatSpec!Keep(e)
    <2>1. about[e] \in Conversations /\ about[e] # None /\ e \notin Done
      BY <1>2, Parts
    <2>2. RoomOf(about[e]) = "open"
      BY <1>2 DEF RoomOf
    <2> QED
      BY <1>2, <2>1, <2>2 DEF ChatSpec!IsDraft, ChatSpec!Keep
  <1>7. \A c \in Conversations : RoomOf(c)' = RoomOf(c)
    BY <1>2 DEF RoomOf
  <1> HIDE DEF r0
  <1>8. CASE /\ Publish(log, torn, r0)
             /\ answer' = [answer EXCEPT ![e] = IF accepted THEN 202 ELSE 503]
    <2>1. Told(e)' = IF accepted THEN "accepted" ELSE "unserved"
      BY <1>0, <1>8 DEF Told, TypeOK
    <2>2. CASE accepted
      BY <1>2, <1>3, <1>4, <1>5, <1>6, <1>7, <1>8, <2>1, <2>2 DEF ChatSpec!Post
    <2>3. CASE ~accepted
      BY <1>2, <1>3, <1>4, <1>5, <1>6, <1>7, <1>8, <2>1, <2>3 DEF ChatSpec!Post
    <2> QED
      BY <2>2, <2>3
  <1>9. CASE PublishFails(log, torn, r0) /\ answer' = [answer EXCEPT ![e] = 500]
    <2>1. Told(e)' = "failed"
      BY <1>0, <1>9 DEF Told, TypeOK
    <2>2. CASE accepted
      BY <1>2, <1>3, <1>4, <1>5, <1>6, <1>7, <2>1, <2>2 DEF ChatSpec!Fail
    <2>3. CASE ~accepted
      BY <1>2, <1>3, <1>4, <1>5, <1>6, <1>7, <2>1, <2>3 DEF ChatSpec!Fail
    <2> QED
      BY <2>2, <2>3
  <1> QED
    BY <1>1, <1>8, <1>9

\* A reply of a plugin is posted, without an answer.
LEMMA ReplyRefines ==
    ASSUME IInv, NEW e \in Ids, StoreReply(e)
    PROVE  ChatSpec!Post(e)
  <1>0. TypeOK
    BY DEF IInv, TablesInv
  <1>1. /\ at[e] = "reply" /\ conv[about[e]] = "open" /\ messages' = messages \cup {e}
        /\ Publish(log, torn, Row("outbound.message", about[e], e))
        /\ UNCHANGED <<conv, about, answer, via>>
    BY DEF StoreReply, CreateMessage, frameVars
  <1>2. \A d \in Ids : at'[d] = IF d = e THEN "over" ELSE at[d]
    BY <1>0 DEF StoreReply, TypeOK
  <1>3. Done' = Done \cup {e}
    BY <1>2 DEF Done
  <1>4. \A d \in Ids : DueTo(d)' = DueTo(d) /\ HandedTo(d)' = HandedTo(d) /\ Told(d)' = Told(d)
    BY <1>1, <1>2 DEF DueTo, HandedTo, Told
  <1>5. Shown' = Shown \cup {e}
    BY <1>1, OneMoreShown DEF MessageTypes, PublishOrFail
  <1>6. ChatSpec!IsDraft(e) /\ ChatSpec!Keep(e)
    <2>1. about[e] \in Conversations /\ about[e] # None /\ e \notin Done
      BY <1>1, Parts
    <2>2. RoomOf(about[e]) = "open"
      BY <1>1 DEF RoomOf
    <2> QED
      BY <1>1, <2>1, <2>2 DEF ChatSpec!IsDraft, ChatSpec!Keep
  <1>7. \A c \in Conversations : RoomOf(c)' = RoomOf(c)
    BY <1>1 DEF RoomOf
  <1> QED
    BY <1>1, <1>3, <1>4, <1>5, <1>6, <1>7 DEF ChatSpec!Post

\* A message that is answered 400 is refused, one that is answered 500 has
\* failed, stored or not.
LEMMA RefuseRefines ==
    ASSUME IInv, NEW e \in Ids,
           \/ FailMessage(e)
           \/ \E ids \in Lists : RefuseMessage(e, ids) \/ RejectMessage(e, ids)
    PROVE  ChatSpec!Refuse(e) \/ ChatSpec!Fail(e)
  <1>0. TypeOK
    BY DEF IInv, TablesInv
  <1>1. PICK n \in {400, 500} :
          /\ at[e] = "message"
          /\ at' = [at EXCEPT ![e] = "over"]
          /\ answer' = [answer EXCEPT ![e] = n]
          /\ \/ messages' = messages
             \/ conv[about[e]] = "open" /\ messages' = messages \cup {e}
          /\ UNCHANGED <<conv, log, torn, about, via>>
    BY DEF FailMessage, RefuseMessage, RejectMessage, CreateMessage, frameVars, logVars
  <1>2. \A d \in Ids : at'[d] = IF d = e THEN "over" ELSE at[d]
    BY <1>0, <1>1 DEF TypeOK
  <1>3. Done' = Done \cup {e} /\ Shown' = Shown
    BY <1>1, <1>2 DEF Done, Shown
  <1>4. \A d \in Ids : DueTo(d)' = DueTo(d) /\ HandedTo(d)' = HandedTo(d)
    BY <1>1, <1>2 DEF DueTo, HandedTo
  <1>5. /\ [d \in Ids |-> Told(d)'] = [[d \in Ids |-> Told(d)] EXCEPT ![e] = Told(e)']
        /\ Told(e)' = IF n = 400 THEN "refused" ELSE "failed"
    <2>1. answer'[e] = n /\ \A d \in Ids : d # e => answer'[d] = answer[d]
      BY <1>0, <1>1 DEF TypeOK
    <2>2. Told(e)' = IF n = 400 THEN "refused" ELSE "failed"
      BY <2>1 DEF Told
    <2> QED
      BY <2>1, <2>2, AnswerTells
  <1>6. ChatSpec!IsDraft(e) /\ \A c \in Conversations : RoomOf(c)' = RoomOf(c)
    BY <1>1, Parts DEF ChatSpec!IsDraft, RoomOf
  <1>7. \/ messages' = messages
        \/ ChatSpec!Keep(e)
    <2>1. about[e] \in Conversations
      BY <1>1, Parts
    <2> QED
      BY <1>1, <2>1 DEF ChatSpec!Keep, RoomOf
  <1>8. CASE n = 400
    BY <1>1, <1>3, <1>4, <1>5, <1>6, <1>7, <1>8 DEF ChatSpec!Refuse
  <1>9. CASE n = 500
    BY <1>1, <1>3, <1>4, <1>5, <1>6, <1>7, <1>9 DEF ChatSpec!Fail
  <1> QED
    BY <1>8, <1>9

\* An action or a progress frame passes.
LEMMA PassRefines ==
    ASSUME IInv, NEW e \in Ids, FinishAction(e) \/ PublishProgress(e)
    PROVE  ChatSpec!Pass(e)
  <1>0. TypeOK
    BY DEF IInv, TablesInv
  <1>1. /\ at[e] \in {"action", "progress"}
        /\ UNCHANGED <<conv, messages, about, answer>>
    BY DEF FinishAction, PublishProgress
  <1>2. Shown' = Shown
    BY OthersAreNotShown DEF FinishAction, PublishProgress
  <1>3. ASSUME \A d \in Ids : at'[d] = IF d = e THEN "over" ELSE at[d], via' = via
        PROVE  Done' = Done \cup {e} /\ \A d \in Ids : HandedTo(d)' = HandedTo(d)
                                                      /\ DueTo(d)' = DueTo(d)
    BY <1>1, <1>3 DEF Done, DueTo, HandedTo
  <1> DEFINE Passed ==
                /\ Done' = Done \cup {e}
                /\ \A d \in Ids : HandedTo(d)' = HandedTo(d)
                /\ ChatSpec!Address(e) \/ \A d \in Ids : DueTo(d)' = DueTo(d)
  <1>4. Passed
    <2>1. ASSUME NEW accepted \in BOOLEAN, Send(e, about[e], accepted) PROVE Passed
      BY <1>1, <2>1, SendRefines
    <2>2. CASE at' = [at EXCEPT ![e] = "over"] /\ via' = via
      BY <1>0, <1>3, <2>2 DEF TypeOK
    <2> QED
      BY <2>1, <2>2 DEF FinishAction, PublishProgress, frameVars
  <1>5. \A d \in Ids : Told(d)' = Told(d)
    BY <1>1 DEF Told
  <1>6. ChatSpec!IsDraft(e) /\ \A c \in Conversations : RoomOf(c)' = RoomOf(c)
    BY <1>1, Parts DEF ChatSpec!IsDraft, RoomOf
  <1> QED
    BY <1>1, <1>2, <1>4, <1>5, <1>6 DEF ChatSpec!Pass

\* A plugin that receives a frame is handed what was due.
LEMMA HandRefines ==
    ASSUME IInv, NEW e \in Ids, PluginReceives(e)
    PROVE  ChatSpec!Hand(e)
  <1>0. TypeOK
    BY DEF IInv, TablesInv
  <1>1. /\ at[e] = "toPlugin" /\ via[e] # None
        /\ UNCHANGED <<conv, messages, log, torn, about, answer, via>>
    BY DEF PluginReceives, frameVars, logVars, IInv, SentInv
  <1>2. \A d \in Ids : at'[d] = IF d = e THEN "atPlugin" ELSE at[d]
    BY <1>0 DEF PluginReceives, TypeOK
  <1>3. Done' = Done /\ Shown' = Shown
    BY <1>1, <1>2 DEF Done, Shown
  <1>4. /\ DueTo(e) # None /\ HandedTo(e) = None
        /\ \A d \in Ids : HandedTo(d)' = IF d = e THEN DueTo(e) ELSE HandedTo(d)
        /\ \A d \in Ids : DueTo(d)' = IF d = e THEN None ELSE DueTo(d)
    BY <1>1, <1>2 DEF DueTo, HandedTo
  <1>5. /\ [d \in Ids |-> HandedTo(d)'] = [[d \in Ids |-> HandedTo(d)] EXCEPT ![e] = DueTo(e)]
        /\ [d \in Ids |-> DueTo(d)'] = [[d \in Ids |-> DueTo(d)] EXCEPT ![e] = None]
    BY <1>4
  <1>6. (\A d \in Ids : Told(d)' = Told(d)) /\ \A c \in Conversations : RoomOf(c)' = RoomOf(c)
    BY <1>1 DEF Told, RoomOf
  <1> QED
    BY <1>1, <1>3, <1>4, <1>5, <1>6 DEF ChatSpec!Hand

\* What a lost connection or the end of the process may do to an id.
GivenUp(e) ==
    /\ via'[e] = via[e]
    /\ \/ at'[e] = at[e]
       \/ at[e] \in {"message", "action", "reply", "progress", "toPlugin"} /\ at'[e] = "over"

\* What the end of the process may leave of a message that was just stored.
Survives(e) ==
    /\ at[e] \in {"message", "reply"} /\ conv[about[e]] = "open"
    /\ \/ at'[e] = "over"
       \/ at'[e] = "toPlugin" /\ via'[e] \in Targets(about[e])

\* Connections that are lost, and a process that dies, give drafts up, one of
\* them perhaps stored, with its event recorded or its frame on its way.
LEMMA LoseRefines ==
    ASSUME IInv, NEW stored \in SUBSET Ids, \A e, f \in stored : e = f,
           \A e \in Ids \ stored : GivenUp(e), \A e \in stored : Survives(e),
           messages' = messages \cup stored,
           Shown' = Shown \/ Shown' = Shown \cup stored,
           UNCHANGED <<conv, about, answer>>
    PROVE  ChatSpec!Lose(stored)
  <1>0. TypeOK
    BY DEF IInv, TablesInv
  <1>1. \A e \in stored : e \in Ids /\ ChatSpec!IsDraft(e) /\ RoomOf(about[e]) = "open"
    BY Parts DEF ChatSpec!IsDraft, Survives, RoomOf
  <1>2. Done \cup stored \subseteq Done'
    BY Parts DEF Done, GivenUp, Survives
  <1>3. \A e \in Done' \ Done : ChatSpec!IsDraft(e)
    <2> SUFFICES ASSUME NEW e \in Ids, e \in Done', e \notin Done PROVE ChatSpec!IsDraft(e)
      BY DEF Done
    <2>1. at[e] # "unused"
      BY <1>1, Parts DEF Done, GivenUp, ChatSpec!IsDraft
    <2> QED
      BY <2>1, Parts DEF ChatSpec!IsDraft
  <1>4. \A e \in Ids : HandedTo(e)' = HandedTo(e)
    <2> TAKE e \in Ids
    <2>1. CASE e \in stored
      BY <2>1 DEF HandedTo, Survives
    <2>2. CASE e \notin stored
      BY <2>2 DEF HandedTo, GivenUp
    <2> QED
      BY <2>1, <2>2
  <1>5. \A e \in Ids : /\ e \notin stored => DueTo(e)' \in {DueTo(e), None}
                       /\ e \in stored => DueTo(e)' \in {None} \cup ChatSpec!PluginsFor(e)
    <2> TAKE e \in Ids
    <2>1. CASE e \in stored
      <3>1. Survives(e) /\ about[e] \in Conversations
        BY <2>1, Parts DEF Survives
      <3>2. at'[e] = "toPlugin" => via'[e] \in ChatSpec!PluginsFor(e)
        BY <3>1, TargetsAllowed DEF Survives
      <3> QED
        BY <2>1, <3>2 DEF DueTo
    <2>2. CASE e \notin stored
      BY <2>2 DEF DueTo, GivenUp
    <2> QED
      BY <2>1, <2>2
  <1>6. \A e \in Ids : DueTo(e)' \in Instances \cup {None}
    <2>1. \A e \in Ids : /\ DueTo(e) \in Instances \cup {None}
                         /\ ChatSpec!PluginsFor(e) \subseteq Instances
      BY <1>0 DEF DueTo, TypeOK, ChatSpec!PluginsFor
    <2> QED
      BY <1>5, <2>1
  <1>7. [e \in Ids |-> DueTo(e)'] \in [Ids -> Instances \cup {None}]
    BY ONLY <1>6
  <1>8. \A e \in Ids : DueTo(e)' \in {DueTo(e), None}
                            \cup (IF e \in stored THEN ChatSpec!PluginsFor(e) ELSE {})
    BY <1>5
  <1>9. (\A e \in Ids : Told(e)' = Told(e)) /\ \A c \in Conversations : RoomOf(c)' = RoomOf(c)
    BY DEF Told, RoomOf
  <1>10. \A e \in Ids : [d \in Ids |-> DueTo(d)'][e] \in {[d \in Ids |-> DueTo(d)][e], None}
                            \cup (IF e \in stored THEN ChatSpec!PluginsFor(e) ELSE {})
    BY <1>8
  <1>11. /\ [e \in Ids |-> Told(e)'] = [e \in Ids |-> Told(e)]
         /\ [e \in Ids |-> HandedTo(e)'] = [e \in Ids |-> HandedTo(e)]
         /\ [c \in Conversations |-> RoomOf(c)'] = [c \in Conversations |-> RoomOf(c)]
    BY <1>4, <1>9
  <1>12. \A e \in stored : /\ ChatSpec!IsDraft(e)
                           /\ [c \in Conversations |-> RoomOf(c)][about[e]] = "open"
    BY <1>1, Parts DEF ChatSpec!IsDraft
  <1> QED
    BY <1>2, <1>3, <1>7, <1>10, <1>11, <1>12 DEF ChatSpec!Lose

\* The process dies with no message stored.
LEMMA DieRefines ==
    ASSUME IInv, Restart({}), UNCHANGED <<messages, via>>, Shown' = Shown
    PROVE  ChatSpec!Next
  <1>1. \A e \in Ids : GivenUp(e)
    BY DEF Restart, GivenUp, IInv, TablesInv, TypeOK, Places
  <1>2. UNCHANGED <<conv, about, answer>>
    BY DEF Restart
  <1>3. ChatSpec!Lose({})
    BY <1>1, <1>2, LoseRefines
  <1> QED
    BY <1>3 DEF ChatSpec!Next

\* The process dies with message e stored, and perhaps recorded or sent.
LEMMA DieStoredRefines ==
    ASSUME IInv, NEW e \in Ids, CrashInReply(e) \/ \E ids \in Lists : CrashInMessage(e, ids)
    PROVE  ChatSpec!Next
  <1>0. TypeOK
    BY DEF IInv, TablesInv
  <1>1. /\ at[e] \in {"message", "reply"} /\ conv[about[e]] = "open"
        /\ messages' = messages \cup {e}
        /\ \/ Restart({}) /\ via' = via
           \/ Restart({e}) /\ \E i \in Targets(about[e]) : via' = [via EXCEPT ![e] = i]
    BY DEF CrashInReply, CrashInMessage, CreateMessage
  <1>2. Shown' = Shown \/ Shown' = Shown \cup {e}
    <2>1. CASE UNCHANGED logVars
      BY <2>1 DEF logVars, Shown
    <2>2. ASSUME NEW t \in MessageTypes, PublishOrFail(log, torn, Row(t, about[e], e))
          PROVE  Shown' = Shown \/ Shown' = Shown \cup {e}
      BY <2>2, OneMoreShown
    <2> QED
      BY <2>1, <2>2 DEF CrashInReply, CrashInMessage, MessageTypes
  <1>3. UNCHANGED <<conv, about, answer>>
    BY <1>1 DEF Restart
  <1>4. \A d \in Ids \ {e} : GivenUp(d)
    <2>1. \A d \in Ids \ {e} : via'[d] = via[d]
      BY <1>0, <1>1 DEF TypeOK
    <2>2. \A d \in Ids \ {e} : at'[d] = IF at[d] \in {"unused", "atPlugin"} THEN at[d] ELSE "over"
      BY <1>1 DEF Restart
    <2> QED
      BY <1>0, <2>1, <2>2 DEF GivenUp, TypeOK, Places
  <1>5. Survives(e)
    <2>1. CASE Restart({}) /\ via' = via
      BY <1>1, <2>1 DEF Restart, Survives
    <2>2. ASSUME Restart({e}), NEW i \in Targets(about[e]), via' = [via EXCEPT ![e] = i]
          PROVE  Survives(e)
      BY <1>0, <1>1, <2>2 DEF Restart, Survives, TypeOK
    <2> QED
      BY <1>1, <2>1, <2>2
  <1>6. ChatSpec!Lose({e})
    BY <1>1, <1>2, <1>3, <1>4, <1>5, LoseRefines
  <1> QED
    BY <1>6 DEF ChatSpec!Next

\* Every step is one of Chat or changes nothing there.
LEMMA NextRefines == IInv /\ [Next]_vars => [ChatSpec!Next]_ChatSpec!chatVars
  <1> SUFFICES ASSUME IInv, [Next]_vars PROVE [ChatSpec!Next]_ChatSpec!chatVars
    OBVIOUS
  <1>0. TypeOK
    BY DEF IInv, TablesInv
  <1>1. ASSUME NEW c \in Conversations, CreateConversation(c) \/ CreateMain(c)
        PROVE  [ChatSpec!Next]_ChatSpec!chatVars
    BY <1>1, OpenRefines DEF ChatSpec!Next
  <1>2. ASSUME NEW c \in Conversations, UpdateConversation(c)
        PROVE  UNCHANGED ChatSpec!chatVars
    <2>1. Shown' = Shown
      BY <1>2, OthersAreNotShown DEF UpdateConversation
    <2> QED
      BY <1>2, <2>1, StutterRefines DEF UpdateConversation, frameVars
  <1>3. ASSUME NEW c \in Conversations, DeleteConversation(c) PROVE ChatSpec!Next
    BY <1>3, CloseRefines DEF ChatSpec!Next
  <1>4. ASSUME NEW a \in Attachments, BeginUpload(a) \/ FinishUpload(a) \/ FailUpload(a)
        PROVE  UNCHANGED ChatSpec!chatVars
    <2>1. UNCHANGED <<conv, messages, log, torn, at, about, answer, via>>
      BY <1>4 DEF BeginUpload, FinishUpload, FailUpload, frameVars, logVars
    <2> QED
      BY <2>1, StutterRefines DEF Shown
  <1>5. ASSUME NEW i \in Instances, Connect(i) PROVE UNCHANGED ChatSpec!chatVars
    <2>1. Shown' = Shown
      BY <1>5, OthersAreNotShown DEF Connect
    <2> QED
      BY <1>5, <2>1, StutterRefines DEF Connect
  <1>6. ASSUME NEW i \in Instances, Disconnect(i) PROVE ChatSpec!Next
    <2>1. /\ \A e \in Ids : GivenUp(e)
          /\ UNCHANGED <<conv, messages, about, answer>> /\ Shown' = Shown
      BY <1>6 DEF Disconnect, Lost, GivenUp, Shown, logVars
    <2>2. ChatSpec!Lose({})
      BY <2>1, LoseRefines
    <2> QED
      BY <2>2 DEF ChatSpec!Next
  <1>7. ASSUME NEW e \in Ids, NEW c \in Conversations, NEW p \in {"message", "action"},
               BeginRequest(e, c, p)
        PROVE  ChatSpec!Next
    <2>1. ChatSpec!Draft(e, c)
      BY <1>7, DraftRefines DEF BeginRequest, frameVars, logVars
    <2> QED
      BY <2>1 DEF ChatSpec!Next
  <1>8. ASSUME NEW e \in Ids, NEW c \in Conversations, NEW i \in Instances,
               NEW p \in {"reply", "progress"}, PluginSends(e, i, c, p)
        PROVE  ChatSpec!Next
    <2>1. \A d \in Ids : d # e => via'[d] = via[d]
      BY <1>0, <1>8 DEF PluginSends, TypeOK
    <2>2. ChatSpec!Draft(e, c)
      BY <1>8, <2>1, DraftRefines DEF PluginSends, logVars
    <2> QED
      BY <2>2 DEF ChatSpec!Next
  <1>9. ASSUME NEW e \in Ids, \/ FailMessage(e)
                              \/ \E ids \in Lists : RefuseMessage(e, ids) \/ RejectMessage(e, ids)
        PROVE  ChatSpec!Next
    BY <1>9, RefuseRefines DEF ChatSpec!Next
  <1>10. ASSUME NEW e \in Ids, StoreReply(e) \/ \E ids \in Lists : FinishMessage(e, ids)
         PROVE  ChatSpec!Next
    BY <1>10, FinishRefines, ReplyRefines DEF ChatSpec!Next
  <1>11. ASSUME NEW e \in Ids, FinishAction(e) \/ PublishProgress(e) PROVE ChatSpec!Next
    BY <1>11, PassRefines DEF ChatSpec!Next
  <1>12. ASSUME NEW e \in Ids, PluginReceives(e) PROVE ChatSpec!Next
    BY <1>12, HandRefines DEF ChatSpec!Next
  <1>13. ASSUME Crash \/ \E e \in Ids : DieOfReply(e) \/ CrashInProgress(e) PROVE ChatSpec!Next
    <2>1. Restart({}) /\ messages' = messages /\ via' = via
      BY <1>13 DEF Crash, DieOfReply, CrashInProgress
    <2>2. Shown' = Shown
      <3>1. CASE UNCHANGED logVars
        BY <3>1 DEF logVars, Shown
      <3> QED
        BY <1>13, <3>1, OthersAreNotShown DEF Crash, DieOfReply, CrashInProgress
    <2> QED
      BY <2>1, <2>2, DieRefines
  <1>14. ASSUME NEW e \in Ids, CrashInReply(e) \/ \E ids \in Lists : CrashInMessage(e, ids)
         PROVE  ChatSpec!Next
    BY <1>14, DieStoredRefines
  <1>15. CASE UNCHANGED vars
    BY <1>15, StutterRefines DEF vars, Shown
  <1> QED
    BY <1>1, <1>2, <1>3, <1>4, <1>5, <1>6, <1>7, <1>8, <1>9, <1>10, <1>11, <1>12, <1>13, <1>14,
       <1>15 DEF Next

\* The bridge implements Chat: a message is posted, refused or failed once,
\* stays until its conversation is deleted, and only one that was stored goes
\* to a plugin, the right one, at most once, also when its publication fails
\* or the process dies in it (routes.ts 290-300, 336-406; pluginHub.ts 60-86,
\* 172-221; db.ts 459-482).
THEOREM Refinement == Spec => ImplementsChat
  <1>1. Init => ChatSpec!Init
    BY DEF Init, ChatSpec!Init, RoomOf, Done, Shown, Told, DueTo, HandedTo
  <1>2. IInv /\ [Next]_vars => [ChatSpec!Next]_ChatSpec!chatVars
    BY NextRefines
  <1> QED
    BY <1>1, <1>2, Invariance, PTL DEF Spec, ImplementsChat, ChatSpec!Spec
=====
