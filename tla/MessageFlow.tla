----------------------------- MODULE MessageFlow -----------------------------
(***************************************************************************)
(* A message's way through the bridge: the routes of conversations,        *)
(* attachments, messages and actions (apps/bridge/src/routes.ts 277-406),  *)
(* the plugin's frames (pluginHub.ts 172-221) and the tables they write    *)
(* (db.ts 313-436), with foreign keys on.                                  *)
(*                                                                         *)
(* An id stands for one request of the app or one frame of a plugin, with  *)
(* the event and the message it gives rise to.  A route runs undisturbed   *)
(* between two awaits; the process may die at any moment, and a statement  *)
(* of the database may fail.  Connections are modelled in PluginHub,       *)
(* streams and the order of the log in EventStream; here the log is a set. *)
(***************************************************************************)
EXTENDS Naturals, Sequences, SequencesExt, FiniteSets

CONSTANTS
    Ids,            \* requests and frames
    Conversations,  \* ids of conversations
    Mains,          \* those of kind main
    Instances,      \* OpenClaw instances
    InstanceOf,     \* [Conversations -> Instances \cup {None}]:
                    \* openclaw_instance_id, which never changes
    Attachments,    \* uploads
    Nameless,       \* those whose filename is ''
    Lists,          \* the lists of attachmentIds a message may name
    MaxBoots,       \* bound: restarts of the bridge
    None

ASSUME ConstantsAssumption ==
    /\ Mains \subseteq Conversations
    /\ None \notin Ids \cup Instances \cup Conversations
    /\ InstanceOf \in [Conversations -> Instances \cup {None}]
    /\ Nameless \subseteq Attachments
    /\ Lists \subseteq Seq(Attachments)
    /\ MaxBoots \in Nat

VARIABLES
    conv,           \* [Conversations -> {"none", "open", "deleted"}]: its row
    messages,       \* ids whose message is in the table
    log,            \* set of [type, conv, id]: rows of events, where a
                    \* property tells them apart
    torn,           \* those whose cursor is '', as the INSERT leaves it
    at,             \* [Ids -> Places]: where the request or the frame is
    about,          \* [Ids -> Conversations \cup {None}]: its conversation
    answer,         \* [Ids -> {0, 202, 400, 500, 503}]: of POST messages, 0:
                    \* none yet
    named,          \* [Ids -> SUBSET Attachments]: message_attachments
    link,           \* instances whose plugin has an open connection
    via,            \* [Ids -> Instances \cup {None}]: the frame's connection
    file,           \* [Attachments -> {"none", "partial", "whole"}]
    uploading,      \* attachments whose route awaits its file
    rows,           \* rows of attachments
    boots           \* restarts so far

fileVars == <<file, uploading, rows>>
frameVars == <<link, via>>
logVars == <<log, torn>>
vars == <<conv, messages, log, torn, at, about, answer, named, link, via,
          file, uploading, rows, boots>>

\* unused; in a route that awaits its body; on its way to a plugin; there; on
\* its way from one; over.
Places == {"unused", "message", "action", "toPlugin", "atPlugin",
           "reply", "progress", "over"}
MessageTypes == {"inbound.message", "outbound.message"}
Events == [type : MessageTypes \cup {"conversation.created", "conversation.deleted"},
           conv : Conversations, id : Ids \cup {None}]

Row(type, c, e) == [type |-> type, conv |-> c, id |-> e]

\* Any other event, of conversation c or, with None, of no conversation: an
\* update, an action, progress, a connection.  Only a torn row of it matters.
OtherRow(c) == Row("other", c, None)
Others == {OtherRow(c) : c \in Conversations \cup {None}}

TypeOK ==
    /\ conv \in [Conversations -> {"none", "open", "deleted"}]
    /\ messages \subseteq Ids
    /\ log \subseteq Events
    /\ torn \subseteq Events \cup Others
    /\ at \in [Ids -> Places]
    /\ about \in [Ids -> Conversations \cup {None}]
    /\ answer \in [Ids -> {0, 202, 400, 500, 503}]
    /\ named \in [Ids -> SUBSET Attachments]
    /\ link \subseteq Instances
    /\ via \in [Ids -> Instances \cup {None}]
    /\ file \in [Attachments -> {"none", "partial", "whole"}]
    /\ uploading \subseteq Attachments
    /\ rows \subseteq Attachments
    /\ boots \in 0..MaxBoots

Init ==
    /\ conv = [c \in Conversations |-> "none"]
    /\ messages = {}
    /\ log = {}
    /\ torn = {}
    /\ at = [e \in Ids |-> "unused"]
    /\ about = [e \in Ids |-> None]
    /\ answer = [e \in Ids |-> 0]
    /\ named = [e \in Ids |-> {}]
    /\ link = {}
    /\ via = [e \in Ids |-> None]
    /\ file = [a \in Attachments |-> "none"]
    /\ uploading = {}
    /\ rows = {}
    /\ boots = 0

-----------------------------------------------------------------------------
(* Calls of the database, the bus and the hub.                             *)

\* publish has recorded r, beside the events l and the torn ones t.
Publish(l, t, r) ==
    /\ t = {}
    /\ log' = l \cup {r}
    /\ torn' = {}

\* publish throws, or the process dies in it: the INSERT failed, as it always
\* does beside a torn row, or the UPDATE did.
PublishFails(l, t, r) ==
    /\ log' = l
    /\ torn' = t \/ (t = {} /\ torn' = {r})

PublishOrFail(l, t, r) == Publish(l, t, r) \/ PublishFails(l, t, r)

\* The same with an event that is not kept in log.
PublishOther == torn = {} /\ UNCHANGED logVars
PublishOtherFails(c) == PublishFails(log, torn, OtherRow(c))

\* A bug: the foreign key of messages is not enforced.
CreateMessageUnchecked(e, c, as) ==
    /\ messages' = messages \cup {e}
    /\ named' = [named EXCEPT ![e] = as]

\* createMessage: the row, and with it the attachments; without a
\* conversation the INSERT throws, and the step is not taken.
CreateMessage(e, c, as) ==
    /\ conv[c] = "open"
    /\ messages' = messages \cup {e}
    /\ named' = [named EXCEPT ![e] = as]

\* The plugins sendToPlugin may choose for conversation c.
Targets(c) ==
    IF InstanceOf[c] # None THEN link \cap {InstanceOf[c]} ELSE link

\* sendToPlugin for the event of request e, with what it returns.
Send(e, c, accepted) ==
    \/ /\ accepted
       /\ \E i \in Targets(c) : via' = [via EXCEPT ![e] = i]
       /\ at' = [at EXCEPT ![e] = "toPlugin"]
    \/ /\ ~accepted
       /\ Targets(c) = {}
       /\ at' = [at EXCEPT ![e] = "over"]
       /\ UNCHANGED via

\* What at is once connections of the instances in ls are gone.
Lost(ls) ==
    [e \in Ids |-> IF via[e] \in ls /\ at[e] \in {"toPlugin", "reply", "progress"}
                   THEN "over" ELSE at[e]]

-----------------------------------------------------------------------------
(* Conversations.                                                          *)

\* POST of a conversation, by the app or the plugin; one that is found by its
\* session key is announced again.
CreateConversation(c) ==
    /\ conv[c] # "deleted"
    /\ conv' = [conv EXCEPT ![c] = "open"]
    /\ PublishOrFail(log, torn, Row("conversation.created", c, None))
    /\ UNCHANGED <<messages, at, about, answer, named, frameVars, fileVars, boots>>

\* POST /api/openclaws: a new instance has a main conversation, which is not
\* announced.
CreateMain(c) ==
    /\ c \in Mains
    /\ conv[c] = "none"
    /\ conv' = [conv EXCEPT ![c] = "open"]
    /\ UNCHANGED <<messages, logVars, at, about, answer, named, frameVars, fileVars, boots>>

\* PATCH: the title, purpose, pin or archive mark, all in one statement.
UpdateConversation(c) ==
    /\ conv[c] = "open"
    /\ PublishOther \/ PublishOtherFails(c)
    /\ UNCHANGED <<conv, messages, at, about, answer, named, frameVars, fileVars, boots>>

\* A bug: the events stay.
DeleteConversationKeepsEvents(c) ==
    /\ conv[c] = "open"
    /\ c \notin Mains
    /\ conv' = [conv EXCEPT ![c] = "deleted"]
    /\ messages' = {e \in messages : about[e] # c}
    /\ named' = [e \in Ids |-> IF e \in messages' THEN named[e] ELSE {}]
    /\ PublishOrFail(log, torn, Row("conversation.deleted", c, None))
    /\ UNCHANGED <<at, about, answer, frameVars, fileVars, boots>>

NotOf(c, rs) == {r \in rs : r.conv # c}

\* DELETE: the conversation's messages and events go in one transaction
\* with it; then the deletion is published.
DeleteConversation(c) ==
    /\ conv[c] = "open"
    /\ c \notin Mains
    /\ conv' = [conv EXCEPT ![c] = "deleted"]
    /\ messages' = {e \in messages : about[e] # c}
    /\ named' = [e \in Ids |-> IF e \in messages' THEN named[e] ELSE {}]
    /\ PublishOrFail(NotOf(c, log), NotOf(c, torn), Row("conversation.deleted", c, None))
    /\ UNCHANGED <<at, about, answer, frameVars, fileVars, boots>>

-----------------------------------------------------------------------------
(* Attachments.                                                            *)

\* POST /api/attachments has its form and begins to write the file.
BeginUpload(a) ==
    /\ file[a] = "none"
    /\ file' = [file EXCEPT ![a] = "partial"]
    /\ uploading' = uploading \cup {a}
    /\ UNCHANGED <<conv, messages, logVars, at, about, answer, named, frameVars, rows, boots>>

\* createAttachment.
CreateAttachment(a) == rows' = rows \cup {a}

\* A bug: the row is inserted before the file is written.
FinishUploadRowFirst(a) ==
    /\ a \in uploading
    /\ a \notin rows
    /\ CreateAttachment(a)
    /\ UNCHANGED <<conv, messages, logVars, at, about, answer, named, frameVars,
                   file, uploading, boots>>

\* The file is written; then its row.
FinishUpload(a) ==
    /\ a \in uploading
    /\ file' = [file EXCEPT ![a] = "whole"]
    /\ uploading' = uploading \ {a}
    /\ CreateAttachment(a)
    /\ UNCHANGED <<conv, messages, logVars, at, about, answer, named, frameVars, boots>>

\* writeFile fails, and the route throws.
FailUpload(a) ==
    /\ a \in uploading
    /\ uploading' = uploading \ {a}
    /\ UNCHANGED <<conv, messages, logVars, at, about, answer, named, frameVars, file, rows, boots>>

-----------------------------------------------------------------------------
(* Messages and actions of the app.                                        *)

\* POST of a message or an action: the conversation is read, and the body
\* awaited.  (Without a conversation the answer is 404.)
BeginRequest(e, c, place) ==
    /\ at[e] = "unused"
    /\ conv[c] = "open"
    /\ at' = [at EXCEPT ![e] = place]
    /\ about' = [about EXCEPT ![e] = c]
    /\ UNCHANGED <<conv, messages, logVars, answer, named, frameVars, fileVars, boots>>

\* getAttachments gives each row once: as many rows as ids are found when
\* all are there and none is named twice.
AllFound(ids) == IsInjective(ids) /\ ToSet(ids) \subseteq rows

\* attachmentSchema: a filename has at least one character.
AllNamed(ids) == ToSet(ids) \cap Nameless = {}

\* The body names attachments of which not all are found; or it names none
\* and has no text, which the schema refuses.
RefuseMessage(e, ids) ==
    /\ at[e] = "message"
    /\ ~AllFound(ids) \/ ids = <<>>
    /\ at' = [at EXCEPT ![e] = "over"]
    /\ answer' = [answer EXCEPT ![e] = 400]
    /\ UNCHANGED <<conv, messages, logVars, about, named, frameVars, fileVars, boots>>

\* A bug: the plugin is sent the message before it is stored.
FinishMessageSendsFirst(e, ids) ==
    /\ at[e] = "message"
    /\ AllFound(ids) /\ AllNamed(ids)
    /\ \E accepted \in BOOLEAN :
        /\ Send(e, about[e], accepted)
        /\ IF conv[about[e]] = "open"
           THEN /\ CreateMessage(e, about[e], ToSet(ids))
                /\ Publish(log, torn, Row("inbound.message", about[e], e))
                /\ answer' = [answer EXCEPT ![e] = IF accepted THEN 202 ELSE 503]
           ELSE /\ answer' = [answer EXCEPT ![e] = 500]
                /\ UNCHANGED <<messages, named, logVars>>
    /\ UNCHANGED <<conv, about, link, fileVars, boots>>

\* A bug: the answer does not depend on the publication.
FinishMessageUnpublished(e, ids) ==
    /\ at[e] = "message"
    /\ AllFound(ids) /\ AllNamed(ids)
    /\ CreateMessage(e, about[e], ToSet(ids))
    /\ \E accepted \in BOOLEAN :
        /\ Send(e, about[e], accepted)
        /\ PublishOrFail(log, torn, Row("inbound.message", about[e], e))
        /\ answer' = [answer EXCEPT ![e] = IF accepted THEN 202 ELSE 503]
    /\ UNCHANGED <<conv, about, link, fileVars, boots>>

\* Otherwise it is stored, sent and published, in this order, with the
\* conversation as it was read before the await; 500 when publish throws,
\* with the message stored and perhaps sent.
FinishMessage(e, ids) ==
    /\ at[e] = "message"
    /\ AllFound(ids) /\ AllNamed(ids)
    /\ CreateMessage(e, about[e], ToSet(ids))
    /\ \E accepted \in BOOLEAN :
        /\ Send(e, about[e], accepted)
        /\ \/ /\ Publish(log, torn, Row("inbound.message", about[e], e))
              /\ answer' = [answer EXCEPT ![e] = IF accepted THEN 202 ELSE 503]
           \/ /\ PublishFails(log, torn, Row("inbound.message", about[e], e))
              /\ answer' = [answer EXCEPT ![e] = 500]
    /\ UNCHANGED <<conv, about, link, fileVars, boots>>

\* The message is stored, but goes no further: inboundMessageSchema refuses
\* an attachment without a name, or the row cannot be read back.
RejectMessage(e, ids) ==
    /\ at[e] = "message"
    /\ AllFound(ids)
    /\ CreateMessage(e, about[e], ToSet(ids))
    /\ at' = [at EXCEPT ![e] = "over"]
    /\ \/ ~AllNamed(ids) /\ answer' = [answer EXCEPT ![e] = 400]
       \/ answer' = [answer EXCEPT ![e] = 500]
    /\ UNCHANGED <<conv, logVars, about, frameVars, fileVars, boots>>

\* createMessage throws: the conversation was deleted meanwhile, or a
\* statement fails.
FailMessage(e) ==
    /\ at[e] = "message"
    /\ at' = [at EXCEPT ![e] = "over"]
    /\ answer' = [answer EXCEPT ![e] = 500]
    /\ UNCHANGED <<conv, messages, logVars, about, named, frameVars, fileVars, boots>>

\* An action is published, then sent, whether its conversation is still
\* there or not; it is not sent when publish throws.
FinishAction(e) ==
    /\ at[e] = "action"
    /\ \/ /\ PublishOther
          /\ \E accepted \in BOOLEAN : Send(e, about[e], accepted)
       \/ /\ PublishOtherFails(about[e])
          /\ at' = [at EXCEPT ![e] = "over"]
          /\ UNCHANGED via
    /\ UNCHANGED <<conv, messages, about, answer, named, link, fileVars, boots>>

-----------------------------------------------------------------------------
(* Plugins.  A listener of a socket catches nothing: when publish throws in *)
(* one, the process ends (below).                                           *)

\* A hello is answered and published.
Connect(i) ==
    /\ i \notin link
    /\ PublishOther
    /\ link' = link \cup {i}
    /\ UNCHANGED <<conv, messages, at, about, answer, named, via, fileVars, boots>>

\* A connection is open no longer; what is under way on it is lost.
Disconnect(i) ==
    /\ i \in link
    /\ link' = link \ {i}
    /\ at' = Lost({i})
    /\ UNCHANGED <<conv, messages, logVars, about, answer, named, via, fileVars, boots>>

PluginReceives(e) ==
    /\ at[e] = "toPlugin"
    /\ at' = [at EXCEPT ![e] = "atPlugin"]
    /\ UNCHANGED <<conv, messages, logVars, about, answer, named, frameVars, fileVars, boots>>

\* A plugin sends a text or its progress for a conversation it has heard of,
\* be it still there or not.
PluginSends(e, i, c, place) ==
    /\ at[e] = "unused"
    /\ i \in link
    /\ conv[c] # "none"
    /\ at' = [at EXCEPT ![e] = place]
    /\ about' = [about EXCEPT ![e] = c]
    /\ via' = [via EXCEPT ![e] = i]
    /\ UNCHANGED <<conv, messages, logVars, answer, named, link, fileVars, boots>>

\* handlePluginEvent: outbound.message is stored and published.
StoreReply(e) ==
    /\ at[e] = "reply"
    /\ CreateMessage(e, about[e], {})
    /\ Publish(log, torn, Row("outbound.message", about[e], e))
    /\ at' = [at EXCEPT ![e] = "over"]
    /\ UNCHANGED <<conv, about, answer, frameVars, fileVars, boots>>

\* The other frames are published only.
PublishProgress(e) ==
    /\ at[e] = "progress"
    /\ PublishOther
    /\ at' = [at EXCEPT ![e] = "over"]
    /\ UNCHANGED <<conv, messages, about, answer, named, frameVars, fileVars, boots>>

-----------------------------------------------------------------------------
(* The end of the process.  Routes, connections and unwritten files end    *)
(* with it; the tables, what a plugin has received and the frames in sent, *)
(* which the operating system has taken over, remain.  In the route of a   *)
(* conversation or an action it leaves what a failed publish leaves: that  *)
(* action, then Crash.                                                     *)

Restart(sent) ==
    /\ boots < MaxBoots
    /\ boots' = boots + 1
    /\ at' = [e \in Ids |-> IF e \in sent THEN "toPlugin"
                            ELSE IF at[e] \in {"unused", "atPlugin"} THEN at[e]
                            ELSE "over"]
    /\ link' = {}
    /\ uploading' = {}
    /\ UNCHANGED <<conv, about, answer, file, rows>>

\* A reply to a deleted conversation: createMessage throws in the listener
\* of a socket, and nothing catches that.
DieOfReply(e) ==
    /\ at[e] = "reply"
    /\ conv[about[e]] = "deleted"
    /\ Restart({})
    /\ UNCHANGED <<messages, logVars, named, via>>

\* It dies at any other moment between two requests or frames, or in the
\* publication of an event that belongs to no conversation.
Crash ==
    /\ Restart({})
    /\ PublishOther \/ PublishOtherFails(None)
    /\ UNCHANGED <<messages, named, via>>

\* It dies after a message was stored: before it is sent, or during or after
\* its publication, with the frame on its way if there was a plugin for it.
CrashInMessage(e, ids) ==
    /\ at[e] = "message"
    /\ AllFound(ids)
    /\ CreateMessage(e, about[e], ToSet(ids))
    /\ \/ Restart({}) /\ UNCHANGED <<logVars, via>>
       \/ /\ AllNamed(ids)
          /\ PublishOrFail(log, torn, Row("inbound.message", about[e], e))
          /\ \/ /\ \E i \in Targets(about[e]) : via' = [via EXCEPT ![e] = i]
                /\ Restart({e})
             \/ /\ Targets(about[e]) = {}
                /\ Restart({})
                /\ UNCHANGED via

\* It dies after a reply was stored, or because its publication throws.
CrashInReply(e) ==
    /\ at[e] = "reply"
    /\ CreateMessage(e, about[e], {})
    /\ PublishOrFail(log, torn, Row("outbound.message", about[e], e))
    /\ Restart({})
    /\ UNCHANGED via

\* The same with another frame, which is not stored.
CrashInProgress(e) ==
    /\ at[e] = "progress"
    /\ PublishOther \/ PublishOtherFails(about[e])
    /\ Restart({})
    /\ UNCHANGED <<messages, named, via>>

Next ==
    \/ \E c \in Conversations :
        \/ CreateConversation(c) \/ CreateMain(c)
        \/ UpdateConversation(c) \/ DeleteConversation(c)
    \/ \E a \in Attachments : BeginUpload(a) \/ FinishUpload(a) \/ FailUpload(a)
    \/ \E i \in Instances : Connect(i) \/ Disconnect(i)
    \/ \E e \in Ids :
        \/ \E c \in Conversations :
            \/ \E p \in {"message", "action"} : BeginRequest(e, c, p)
            \/ \E i \in Instances, p \in {"reply", "progress"} : PluginSends(e, i, c, p)
        \/ \E ids \in Lists :
            \/ RefuseMessage(e, ids) \/ RejectMessage(e, ids)
            \/ FinishMessage(e, ids) \/ CrashInMessage(e, ids)
        \/ FailMessage(e)
        \/ FinishAction(e)
        \/ PluginReceives(e)
        \/ StoreReply(e)
        \/ PublishProgress(e)
        \/ DieOfReply(e) \/ CrashInReply(e) \/ CrashInProgress(e)
    \/ Crash

Spec == Init /\ [][Next]_vars
-----------------------------------------------------------------------------
(* Properties.                                                             *)

\* Whatever was deleted between a route's first statement and its last, or
\* between a plugin's decision to reply and its reply, a stored message
\* belongs to a conversation that is there (routes.ts 338-359, pluginHub.ts
\* 189, db.ts 364-374, 385-409).
NothingOrphaned == \A e \in messages : conv[about[e]] = "open"

\* A message event, be its row torn, has its message in the table; a
\* conversation that is there has no deletion among the events, and of a
\* deleted one there is no creation, whatever failed or died between a store
\* and its publication (routes.ts 290-300, 352-386; db.ts 364-374, 467-472).
LogAgrees ==
    \A r \in log \cup torn :
        /\ r.type \in MessageTypes => r.id \in messages
        /\ r.type = "conversation.deleted" => conv[r.conv] = "deleted"
        /\ r.type = "conversation.created" => conv[r.conv] = "open"

\* What the answer to e tells.
AnswerIsTrue(e) ==
    /\ answer[e] \in {202, 503} =>
          \/ conv[about[e]] = "deleted"
          \/ e \in messages /\ Row("inbound.message", about[e], e) \in log
    /\ answer[e] = 202 => via[e] # None
    /\ answer[e] \in {400, 503} => via[e] = None
    /\ answer[e] = 400 =>
          /\ e \in messages => named[e] \cap Nameless # {}
          /\ \A r \in log \cup torn : r.id # e
    /\ answer[e] = 500 =>
          /\ \A r \in log : r.id # e
          /\ via[e] # None => e \in messages \/ conv[about[e]] = "deleted"

\* An answer tells the app the truth.  After 202, and after 503 as well, the
\* message is stored and logged until its conversation is deleted; 202 was
\* sent to a plugin, 503 to none.  After 400 nothing was sent or logged, and
\* what is stored names an attachment without a name.  After 500 the event
\* has no cursor, and only what was stored was sent (routes.ts 341-392).
AnswersAreTrue == \A e \in Ids : AnswerIsTrue(e)

\* The attachments of a stored message have rows, and a row's file was
\* written to its end, even if the process died on the way (routes.ts
\* 308-325, 342-345; db.ts 400-405).
AttachmentsAreThere ==
    /\ \A e \in Ids : named[e] \subseteq rows
    /\ \A a \in rows : file[a] = "whole"

\* What Chat calls the room, the drafts that are done, what is shown and told,
\* and where a message is due or was handed to.
RoomOf(c) == IF conv[c] = "deleted" THEN "closed" ELSE conv[c]
Done == {e \in Ids : at[e] \in {"toPlugin", "atPlugin", "over"}}
Shown == {e \in Ids : \E r \in log \cup torn : r.type \in MessageTypes /\ r.id = e}
Told(e) ==
    IF answer[e] = 0 THEN "nothing"
    ELSE IF answer[e] = 202 THEN "accepted"
    ELSE IF answer[e] = 503 THEN "unserved"
    ELSE IF answer[e] = 400 THEN "refused" ELSE "failed"
DueTo(e) == IF at[e] = "toPlugin" THEN via[e] ELSE None
HandedTo(e) == IF at[e] = "atPlugin" THEN via[e] ELSE None

\* The bridge keeps the promise of Chat: however deletions, lost connections,
\* failed statements and crashes fall between a route's steps, a message is
\* posted, refused or failed once, stays until its conversation is deleted and
\* never comes back; only a stored one goes to a plugin, the right one, at
\* most once, and a refused one never does (routes.ts 290-300, 336-406;
\* pluginHub.ts 60-86, 172-221).
ChatSpec == INSTANCE Chat WITH
    Rooms    <- Conversations,
    Lasting  <- Mains,
    Plugins  <- Instances,
    PluginOf <- InstanceOf,
    room     <- [c \in Conversations |-> RoomOf(c)],
    home     <- about,
    done     <- Done,
    kept     <- messages,
    shown    <- Shown,
    told     <- [e \in Ids |-> Told(e)],
    due      <- [e \in Ids |-> DueTo(e)],
    handed   <- [e \in Ids |-> HandedTo(e)]

ImplementsChat == ChatSpec!Spec

\* What is under way has a conversation, and what is told or stored is done.
FlowInv ==
    /\ \A e \in Ids : at[e] # "unused" <=> about[e] # None
    /\ \A e \in Ids : about[e] # None => conv[about[e]] # "none"
    /\ \A e \in Ids : answer[e] # 0 => at[e] \in {"toPlugin", "atPlugin", "over"}
    /\ \A e \in messages : at[e] \in {"toPlugin", "atPlugin", "over"}
    /\ \A e \in Ids : named[e] # {} => e \in messages
    /\ \A e \in Ids : at[e] \in {"unused", "message", "action"} => via[e] = None
    /\ \A r \in log \cup torn : r.id # None =>
            /\ at[r.id] \in {"toPlugin", "atPlugin", "over"}
            /\ about[r.id] = r.conv
    /\ \A r \in log \cup torn : r.conv # None => conv[r.conv] # "none"
    /\ \A c \in Mains : conv[c] # "deleted"
    /\ \A a \in uploading : file[a] = "partial"
    /\ uploading \cap rows = {}

TablesInv ==
    /\ TypeOK
    /\ NothingOrphaned
    /\ LogAgrees
    /\ AnswersAreTrue
    /\ AttachmentsAreThere
    /\ FlowInv

\* What was put on its way to a plugin went to the conversation's own, if it
\* has one.
SentInv ==
    \A e \in Ids : at[e] \in {"toPlugin", "atPlugin"} =>
        via[e] # None /\ InstanceOf[about[e]] \in {None, via[e]}

IInv == TablesInv /\ SentInv
==============================================================================
