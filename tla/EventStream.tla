----------------------------- MODULE EventStream -----------------------------
(***************************************************************************)
(* The bridge's event log and the SSE stream that carries it to the iOS    *)
(* app: BridgeDatabase.recordEvent and listEventsAfter (db.ts), EventBus,  *)
(* GET /api/events (routes.ts), the conversation routes that publish, and  *)
(* the client's cursor (BridgeClient.swift).                               *)
(*                                                                         *)
(* The bridge yields only at an await, so a handler is one action up to    *)
(* its next await: a stream's replay awaits each write, everything else    *)
(* here is synchronous.  SQLite commits each statement of recordEvent by   *)
(* itself, so a crash may fall between them.  Events have a uid, their     *)
(* place in the order of publication, which the program does not know.     *)
(***************************************************************************)
EXTENDS Naturals, Sequences, FiniteSets

CONSTANTS
    Clients,      \* app installations, each with one stream at a time
    Convs,        \* ids of conversations that may be deleted
    ReplayLimit,  \* LIMIT of listEventsAfter, 100 in the code
    MaxEvents,    \* bound: events recorded
    MaxDeletes,   \* bound: conversations deleted
    MaxBoots,     \* bound: process restarts
    None

ASSUME ConstantsAssumption ==
    /\ None \notin Convs
    /\ ReplayLimit \in Nat \ {0}
    /\ MaxEvents \in Nat
    /\ MaxDeletes \in Nat
    /\ MaxBoots \in Nat

VARIABLES
    events,     \* the rows of the table events
    convs,      \* [Convs -> {"new", "live", "deleted"}]: conversations
    handler,    \* [Clients -> {"none", "replaying", "live"}]: the request of
                \* GET /api/events
    todo,       \* rows a replaying handler has read and not yet written
    wire,       \* [Clients -> Seq(Event)]: written, not yet received
    cursor,     \* BridgeClient.lastEventCursor, 0 for nil
    boots,      \* restarts of the process so far
    published,  \* history: events recorded so far
    last,       \* history: uid of the event the cursor came from
    got,        \* history: uids a client received
    since,      \* history: value of published when the handler subscribed
    missed      \* history: uids published during a replay, or cut off by its
                \* LIMIT

vars == <<events, convs, handler, todo, wire, cursor, boots, published, last,
          got, since, missed>>

Kinds == {"conversation.created", "conversation.deleted", "other"}

\* A row.  Its cursor is its rowid, or 0 for the '' of an unfinished
\* recordEvent.
Event == [uid : Nat \ {0}, rowid : Nat \ {0}, cursor : Nat, kind : Kinds,
          conv : Convs \cup {None}]

TypeOK ==
    /\ events \in SUBSET Event
    /\ convs \in [Convs -> {"new", "live", "deleted"}]
    /\ handler \in [Clients -> {"none", "replaying", "live"}]
    /\ todo \in [Clients -> SUBSET Event]
    /\ wire \in [Clients -> Seq(Event)]
    /\ cursor \in [Clients -> Nat]
    /\ boots \in Nat
    /\ published \in Nat
    /\ last \in [Clients -> Nat]
    /\ got \in [Clients -> SUBSET Nat]
    /\ since \in [Clients -> Nat]
    /\ missed \in [Clients -> SUBSET Nat]

Init ==
    /\ events = {}
    /\ convs = [v \in Convs |-> "new"]
    /\ handler = [c \in Clients |-> "none"]
    /\ todo = [c \in Clients |-> {}]
    /\ wire = [c \in Clients |-> <<>>]
    /\ cursor = [c \in Clients |-> 0]
    /\ boots = 0
    /\ published = 0
    /\ last = [c \in Clients |-> 0]
    /\ got = [c \in Clients |-> {}]
    /\ since = [c \in Clients |-> 0]
    /\ missed = [c \in Clients |-> {}]

-----------------------------------------------------------------------------
(* The table.                                                              *)

\* A bug: the cursor counts the rows.
NextRowByCount(rows) == Cardinality(rows) + 1

\* The rowid SQLite gives the next row of a table without AUTOINCREMENT.
NextRow(rows) ==
    IF rows = {} THEN 1
    ELSE 1 + (CHOOSE r \in {e.rowid : e \in rows} :
                \A e \in rows : e.rowid <= r)

NewEvent(rows, kind, v) ==
    [uid |-> published + 1, rowid |-> NextRow(rows), cursor |-> NextRow(rows),
     kind |-> kind, conv |-> v]

\* A row left by a crash between INSERT (cursor '') and UPDATE.  The next
\* INSERT violates UNIQUE(cursor) and recordEvent throws.
Torn(rows) == \E e \in rows : e.cursor = 0

\* A bug: the cursor is an inclusive bound.
FromCursor(c) == IF cursor[c] = 0 THEN events
                 ELSE {e \in events : e.cursor >= cursor[c]}

\* A bug: off by one the other way.
BeyondNext(c) == IF cursor[c] = 0 THEN events
                 ELSE {e \in events : e.cursor > cursor[c] + 1}

\* The rows beyond the cursor of a client.
Beyond(c) == IF cursor[c] = 0 THEN events
             ELSE {e \in events : e.cursor > cursor[c]}

\* listEventsAfter(cursor): the first ReplayLimit rows beyond the cursor;
\* without a cursor, the last ReplayLimit rows.
ListEventsAfter(c) ==
    {e \in Beyond(c) :
        Cardinality({f \in Beyond(c) : IF cursor[c] = 0
                                       THEN f.cursor > e.cursor
                                       ELSE f.cursor < e.cursor}) < ReplayLimit}

\* Rows without those of conversation v.
Without(rows, v) == {e \in rows : e.conv # v}

-----------------------------------------------------------------------------
(* EventBus.publish.                                                       *)

\* A bug: an event is dropped for a stream that is still writing another.
PublishDropsWhenBusy(rows, kind, v) ==
    LET new == NewEvent(rows, kind, v)
    IN  /\ published < MaxEvents
        /\ ~Torn(rows)
        /\ events' = rows \cup {new}
        /\ published' = published + 1
        /\ wire' = [c \in Clients |-> IF handler[c] = "live" /\ wire[c] = <<>>
                                      THEN <<new>> ELSE wire[c]]
        /\ missed' = [c \in Clients |->
                        IF handler[c] = "replaying"
                        THEN missed[c] \cup {new.uid} ELSE missed[c]]

\* The event is recorded and written to every subscribed stream.  Streams
\* that are still replaying have read their rows already: they never write
\* it.
Publish(rows, kind, v) ==
    LET new == NewEvent(rows, kind, v)
    IN  /\ published < MaxEvents
        /\ ~Torn(rows)
        /\ events' = rows \cup {new}
        /\ published' = published + 1
        /\ wire' = [c \in Clients |-> IF handler[c] = "live"
                                      THEN Append(wire[c], new) ELSE wire[c]]
        /\ missed' = [c \in Clients |->
                        IF handler[c] = "replaying"
                        THEN missed[c] \cup {new.uid} ELSE missed[c]]

\* A route that changed a conversation publishes; if recordEvent throws, the
\* answer is an error and the change stays.
PublishOrThrow(rows, kind, v) ==
    \/ Publish(rows, kind, v)
    \/ /\ Torn(rows)
       /\ events' = rows
       /\ UNCHANGED <<published, wire, missed>>

-----------------------------------------------------------------------------
(* The routes and the plugin's frames.                                     *)

\* POST /api/conversations and POST /api/plugin/conversations: published
\* also when the conversation was there already.
CreateConversation(v) ==
    /\ convs[v] # "deleted"
    /\ convs' = [convs EXCEPT ![v] = "live"]
    /\ PublishOrThrow(events, "conversation.created", v)
    /\ UNCHANGED <<handler, todo, cursor, boots, last, got, since>>

Deletions == Cardinality({v \in Convs : convs[v] = "deleted"})

\* DELETE /api/conversations/:id: one transaction deletes the conversation
\* and its events, then conversation.deleted is published.
DeleteConversation(v) ==
    /\ convs[v] = "live"
    /\ Deletions < MaxDeletes
    /\ convs' = [convs EXCEPT ![v] = "deleted"]
    /\ PublishOrThrow(Without(events, v), "conversation.deleted", v)
    /\ UNCHANGED <<handler, todo, cursor, boots, last, got, since>>

\* Any other event: of no conversation (plugin.connected), or of one that
\* exists or did (the plugin's progress is not checked against the table).
PublishOther(v) ==
    /\ v # None => convs[v] # "new"
    /\ Publish(events, "other", v)
    /\ UNCHANGED <<convs, handler, todo, cursor, boots, last, got, since>>

-----------------------------------------------------------------------------
(* GET /api/events.                                                        *)

\* The handler reads the rows to replay; with none to replay it subscribes at
\* once.
Connect(c) ==
    /\ handler[c] = "none"
    /\ todo' = [todo EXCEPT ![c] = ListEventsAfter(c)]
    /\ handler' = [handler EXCEPT ![c] = IF ListEventsAfter(c) = {}
                                         THEN "live" ELSE "replaying"]
    /\ since' = [since EXCEPT ![c] = published]
    /\ missed' = [missed EXCEPT ![c] =
            @ \cup {e.uid : e \in Beyond(c) \ ListEventsAfter(c)}]
    /\ UNCHANGED <<events, convs, wire, cursor, boots, published, last, got>>

\* The next row, in the order of the cursors, is written; the handler awaits.
WriteReplay(c) ==
    \E e \in todo[c] :
        /\ \A f \in todo[c] : e.cursor <= f.cursor
        /\ todo' = [todo EXCEPT ![c] = @ \ {e}]
        /\ wire' = [wire EXCEPT ![c] = Append(@, e)]
        /\ UNCHANGED <<events, convs, handler, cursor, boots, published, last,
                       got, since, missed>>

\* A bug: the handler subscribes after the first write and drops the rest.
SubscribeEarly(c) ==
    /\ handler[c] = "replaying"
    /\ handler' = [handler EXCEPT ![c] = "live"]
    /\ todo' = [todo EXCEPT ![c] = {}]
    /\ since' = [since EXCEPT ![c] = published]
    /\ UNCHANGED <<events, convs, wire, cursor, boots, published, last, got,
                   missed>>

\* All rows are written: the handler subscribes to the bus.
Subscribe(c) ==
    /\ handler[c] = "replaying"
    /\ todo[c] = {}
    /\ handler' = [handler EXCEPT ![c] = "live"]
    /\ since' = [since EXCEPT ![c] = published]
    /\ UNCHANGED <<events, convs, todo, wire, cursor, boots, published, last,
                   got, missed>>

\* The client receives an event; one without an id leaves its cursor alone.
Receive(c) ==
    /\ wire[c] # <<>>
    /\ wire' = [wire EXCEPT ![c] = Tail(@)]
    /\ got' = [got EXCEPT ![c] = @ \cup {Head(wire[c]).uid}]
    /\ IF Head(wire[c]).cursor = 0
       THEN UNCHANGED <<cursor, last>>
       ELSE /\ cursor' = [cursor EXCEPT ![c] = Head(wire[c]).cursor]
            /\ last' = [last EXCEPT ![c] = Head(wire[c]).uid]
    /\ UNCHANGED <<events, convs, handler, todo, boots, published, since, missed>>

\* The connection ends, with what was under way on it.
Disconnect(c) ==
    /\ handler[c] # "none"
    /\ handler' = [handler EXCEPT ![c] = "none"]
    /\ todo' = [todo EXCEPT ![c] = {}]
    /\ wire' = [wire EXCEPT ![c] = <<>>]
    /\ UNCHANGED <<events, convs, cursor, boots, published, last, got, since,
                   missed>>

\* The app starts again, or comes back to this workspace: a new BridgeClient,
\* without a cursor, beside lists that are loaded anew.
Relaunch(c) ==
    /\ handler' = [handler EXCEPT ![c] = "none"]
    /\ todo' = [todo EXCEPT ![c] = {}]
    /\ wire' = [wire EXCEPT ![c] = <<>>]
    /\ cursor' = [cursor EXCEPT ![c] = 0]
    /\ last' = [last EXCEPT ![c] = 0]
    /\ got' = [got EXCEPT ![c] = {}]
    /\ missed' = [missed EXCEPT ![c] = {}]
    /\ UNCHANGED <<events, convs, boots, published, since>>

-----------------------------------------------------------------------------
(* Crashes.                                                                *)

\* The process dies and starts again: streams end, the database stays.
Restart ==
    /\ boots < MaxBoots
    /\ boots' = boots + 1
    /\ handler' = [c \in Clients |-> "none"]
    /\ todo' = [c \in Clients |-> {}]
    /\ wire' = [c \in Clients |-> <<>>]
    /\ UNCHANGED <<cursor, last, got, since, missed>>

\* recordEvent has got as far as nothing, or as its INSERT.
RecordInterrupted(rows, kind, v) ==
    \/ events' = rows /\ UNCHANGED published
    \/ /\ published < MaxEvents
       /\ ~Torn(rows)
       /\ events' = rows \cup {[NewEvent(rows, kind, v) EXCEPT !.cursor = 0]}
       /\ published' = published + 1

CrashInCreate(v) ==
    /\ convs[v] # "deleted"
    /\ convs' = [convs EXCEPT ![v] = "live"]
    /\ RecordInterrupted(events, "conversation.created", v)
    /\ Restart

CrashInDelete(v) ==
    /\ convs[v] = "live"
    /\ Deletions < MaxDeletes
    /\ convs' = [convs EXCEPT ![v] = "deleted"]
    /\ RecordInterrupted(Without(events, v), "conversation.deleted", v)
    /\ Restart

\* In any other publication, or between two requests.
CrashInPublish(v) ==
    /\ v # None => convs[v] # "new"
    /\ RecordInterrupted(events, "other", v)
    /\ UNCHANGED convs
    /\ Restart

-----------------------------------------------------------------------------
Next ==
    \/ \E v \in Convs : \/ CreateConversation(v) \/ DeleteConversation(v)
                        \/ CrashInCreate(v) \/ CrashInDelete(v)
    \/ \E v \in Convs \cup {None} : PublishOther(v) \/ CrashInPublish(v)
    \/ \E c \in Clients : \/ Connect(c) \/ WriteReplay(c) \/ Subscribe(c)
                          \/ Receive(c) \/ Disconnect(c) \/ Relaunch(c)

\* A handler whose write was accepted goes on, and what is on the wire
\* arrives or the connection ends.
Fairness == \A c \in Clients : /\ WF_vars(WriteReplay(c))
                               /\ WF_vars(Subscribe(c))
                               /\ WF_vars(Receive(c))

Spec == Init /\ [][Next]_vars /\ Fairness

-----------------------------------------------------------------------------
(* Properties.                                                             *)

Elems(q) == {q[k] : k \in DOMAIN q}
OnWire(c) == Elems(wire[c])

\* The rows are in the order of publication when sorted by rowid, although
\* the rowids of deleted rows are used again (db.ts 459-488).
RowOrder ==
    \A e, f \in events : e.rowid < f.rowid <=> e.uid < f.uid

\* A client never receives an event again, nor one published before an event
\* it has received, through replays, live events, lost connections, deleted
\* conversations and restarts (routes.ts 429-456, BridgeClient.swift 33-41).
\* Said of the events that carry an id.
InOrder ==
    \A c \in Clients : \A k \in DOMAIN wire[c] : wire[c][k].cursor # 0 =>
        /\ last[c] < wire[c][k].uid
        /\ \A j \in 1..(k - 1) : wire[c][j].cursor # 0 =>
                wire[c][j].uid < wire[c][k].uid

\* A subscribed stream carries every event published since it subscribed, up
\* to what the client has received (eventBus.ts 11-29).
LiveHasNoGap ==
    \A c \in Clients : handler[c] = "live" =>
        \A u \in (since[c] + 1)..published :
            u \in got[c] \/ \E e \in OnWire(c) : e.uid = u

NothingDeleted == \A v \in Convs : convs[v] # "deleted"

\* While no conversation is deleted, an event a connected client does not get
\* was published while its replay was going on, or was cut off by the LIMIT
\* of a replay: nothing else loses events (routes.ts 429-446).
NoOtherLoss ==
    NothingDeleted =>
        \A c \in Clients : handler[c] = "live" =>
            \A e \in events : e.cursor # 0 =>
                e.uid \in got[c] \cup missed[c] \/ e \in OnWire(c)

\* What is written to a stream is received unless the connection ends, also
\* behind a replay.
Delivered ==
    \A c \in Clients : \A u \in 1..MaxEvents :
        (\E e \in todo[c] \cup OnWire(c) : e.uid = u)
            ~> (u \in got[c] \/ handler[c] = "none")

-----------------------------------------------------------------------------
(* What the repository says and the code does not do.                      *)

\* bridge.test.ts 357: "listEventsAfter returns events after the given
\* cursor": for the cursor of any event a client received, it returns the
\* events recorded after that one.
AfterCursorIsComplete ==
    \A c \in Clients : cursor[c] # 0 =>
        \A e \in events : e.cursor # 0 /\ e.uid > last[c] => e \in Beyond(c)

\* binding-adapter.ts 10: "iOS sees a new conversation row appear via the
\* bridge SSE stream": a connected app that has received all there is to
\* receive knows every conversation there is an event for.
NewConversationIsSeen ==
    \A c \in Clients : handler[c] = "live" /\ wire[c] = <<>> =>
        \A e \in events : e.kind = "conversation.created" =>
            \E f \in events : /\ f.kind = "conversation.created"
                              /\ f.conv = e.conv
                              /\ f.uid \in got[c]

\* While no conversation is deleted, the rows beyond a client's cursor are all
\* that were recorded after the event it came from, through crashes and rows
\* without a cursor: deletion is the one reason why AfterCursorIsComplete
\* fails (db.ts 459-488).
CursorsHold == NothingDeleted => AfterCursorIsComplete

-----------------------------------------------------------------------------
(* The inductive invariant behind the safety properties.                   *)

Stamped(e) == e.cursor # 0

\* Rows are no further than their place in the order of publication; only the
\* newest row can be unfinished.
RowsInv ==
    /\ \A e \in events : /\ e.rowid <= e.uid /\ e.uid <= published
                         /\ Stamped(e) => e.cursor = e.rowid
    /\ \A e, f \in events : e.uid = f.uid => e = f
    /\ \A e, f \in events : ~Stamped(e) => f.rowid <= e.rowid

\* What a stream still has to bring is in order, and newer than what it has
\* brought.
StreamInv ==
    \A c \in Clients :
        /\ handler[c] = "none" => wire[c] = <<>>
        /\ handler[c] # "replaying" => todo[c] = {}
        /\ last[c] <= published
        /\ cursor[c] = 0 => last[c] = 0
        /\ \A e \in todo[c] \cup OnWire(c) :
                e.uid <= published /\ (Stamped(e) => e.cursor = e.rowid)
        /\ \A e, f \in todo[c] : /\ e.rowid < f.rowid <=> e.uid < f.uid
                                 /\ e.uid = f.uid => e = f
        /\ \A f \in todo[c] : Stamped(f) =>
                /\ last[c] < f.uid
                /\ \A e \in OnWire(c) : Stamped(e) => e.uid < f.uid

\* A row beyond an event that was sent, or beyond a cursor, is newer than it.
\* (A row that is newer need not be beyond: see AfterCursorIsComplete.)
CursorInv ==
    \A c \in Clients : \A g \in events :
        /\ \A e \in todo[c] \cup OnWire(c) :
                Stamped(e) /\ e.rowid < g.rowid => e.uid < g.uid
        /\ cursor[c] # 0 /\ cursor[c] < g.rowid => last[c] < g.uid

\* Without deletions: what was sent is in the table, a cursor is that of the
\* row it came from, and every row up to the cursor is accounted for.
AccountInv ==
    NothingDeleted =>
        \A c \in Clients :
            /\ todo[c] \cup OnWire(c) \subseteq events
            /\ cursor[c] # 0 =>
                    \E e \in events : e.rowid = cursor[c] /\ e.uid = last[c]
            /\ \A e \in events : Stamped(e) =>
                    /\ e.cursor <= cursor[c] => e.uid \in got[c] \cup missed[c]
                    /\ handler[c] # "none" =>
                            \/ e.uid \in got[c] \cup missed[c]
                            \/ e \in todo[c] \cup OnWire(c)

IInv == /\ TypeOK
        /\ RowsInv
        /\ RowOrder
        /\ StreamInv
        /\ InOrder
        /\ CursorInv
        /\ LiveHasNoGap
        /\ AccountInv
==============================================================================
