--------------------------------- MODULE Chat ---------------------------------
(***************************************************************************)
(* What the bridge promises of messages, without connections, awaits or an *)
(* event log.  A draft becomes a message or is given up, once.  A posted   *)
(* message is kept and shown until its room is closed, and is never kept   *)
(* or shown again after that; one answered "accepted" is on its way to one *)
(* plugin, the room's own if it has one, and is handed to that plugin at   *)
(* most once; one answered "unserved" goes to none.  What is refused is    *)
(* not shown and goes nowhere, though it may be kept.  What fails, or is   *)
(* under way when the process dies, may be kept; only then may it be shown *)
(* or go to a plugin.  MessageFlow implements this.                        *)
(***************************************************************************)
CONSTANTS Ids, Rooms, Lasting, Plugins, PluginOf, None

VARIABLES
    room,       \* [Rooms -> {"none", "open", "closed"}]
    home,       \* [Ids -> Rooms \cup {None}]: the room a draft is for
    done,       \* drafts that were posted or given up
    kept,       \* messages that are stored
    shown,      \* messages the app is shown
    told,       \* [Ids -> {"nothing", "accepted", "unserved", "refused",
                \* "failed"}]
    due,        \* [Ids -> Plugins \cup {None}]: on its way to this plugin
    handed      \* [Ids -> Plugins \cup {None}]: given to this plugin

chatVars == <<room, home, done, kept, shown, told, due, handed>>

Init == /\ room = [c \in Rooms |-> "none"]
        /\ home = [e \in Ids |-> None]
        /\ done = {}
        /\ kept = {}
        /\ shown = {}
        /\ told = [e \in Ids |-> "nothing"]
        /\ due = [e \in Ids |-> None]
        /\ handed = [e \in Ids |-> None]

Open(c) ==
    /\ room[c] = "none"
    /\ room' = [room EXCEPT ![c] = "open"]
    /\ UNCHANGED <<home, done, kept, shown, told, due, handed>>

\* A room is closed for ever, with what was kept and shown in it.
Close(c) ==
    /\ room[c] = "open"
    /\ c \notin Lasting
    /\ room' = [room EXCEPT ![c] = "closed"]
    /\ kept' = {e \in kept : home[e] # c}
    /\ shown' = {e \in shown : home[e] # c}
    /\ UNCHANGED <<home, done, told, due, handed>>

\* Someone begins to write to a room, which may close meanwhile.
Draft(e, c) ==
    /\ home[e] = None
    /\ room[c] # "none"
    /\ home' = [home EXCEPT ![e] = c]
    /\ UNCHANGED <<room, done, kept, shown, told, due, handed>>

IsDraft(e) == home[e] # None /\ e \notin done

\* The plugins that may have e.
PluginsFor(e) == {i \in Plugins : PluginOf[home[e]] \in {None, i}}

\* e is put on its way to one of them.
Address(e) == \E i \in PluginsFor(e) : due' = [due EXCEPT ![e] = i]

\* e is kept, in a room that is open.
Keep(e) ==
    /\ room[home[e]] = "open"
    /\ kept' = kept \cup {e}

\* A draft becomes a message: kept and shown, and either answered to the app
\* that wrote it or, if a plugin wrote it, not.
Post(e) ==
    /\ IsDraft(e)
    /\ done' = done \cup {e}
    /\ Keep(e)
    /\ shown' = shown \cup {e}
    /\ \/ told' = [told EXCEPT ![e] = "accepted"] /\ Address(e)
       \/ told' = [told EXCEPT ![e] = "unserved"] /\ UNCHANGED due
       \/ UNCHANGED <<told, due>>
    /\ UNCHANGED <<room, home, handed>>

\* A draft is refused: perhaps kept, never shown.
Refuse(e) ==
    /\ IsDraft(e)
    /\ done' = done \cup {e}
    /\ told' = [told EXCEPT ![e] = "refused"]
    /\ Keep(e) \/ UNCHANGED kept
    /\ UNCHANGED <<room, home, shown, due, handed>>

\* A draft fails, before it is kept or after.
Fail(e) ==
    /\ IsDraft(e)
    /\ done' = done \cup {e}
    /\ told' = [told EXCEPT ![e] = "failed"]
    /\ \/ UNCHANGED <<kept, shown, due>>
       \/ /\ Keep(e)
          /\ shown' = shown \/ shown' = shown \cup {e}
          /\ Address(e) \/ UNCHANGED due
    /\ UNCHANGED <<room, home, handed>>

\* A draft that is no message goes to a plugin, or to none.
Pass(e) ==
    /\ IsDraft(e)
    /\ done' = done \cup {e}
    /\ Address(e) \/ UNCHANGED due
    /\ UNCHANGED <<room, home, kept, shown, told, handed>>

\* The plugin gets what was on its way to it.
Hand(e) ==
    /\ due[e] # None
    /\ handed[e] = None
    /\ handed' = [handed EXCEPT ![e] = due[e]]
    /\ due' = [due EXCEPT ![e] = None]
    /\ UNCHANGED <<room, home, done, kept, shown, told>>

\* Drafts are given up, and what was on its way does not arrive; one of the
\* drafts, in an open room, may have been kept, and then shown or put on its
\* way.
Lose(stored) ==
    /\ kept' = kept \cup stored
    /\ UNCHANGED <<home, room, told, handed>>
    /\ shown' = shown \/ shown' = shown \cup stored
    /\ done \cup stored \subseteq done'
    /\ \A e \in done' \ done : IsDraft(e)
    /\ \A e \in stored : IsDraft(e) /\ room[home[e]] = "open"
    /\ \A e, f \in stored : e = f
    /\ due' \in [Ids -> Plugins \cup {None}]
    /\ \A e \in Ids : due'[e] \in {due[e], None} \cup (IF e \in stored THEN PluginsFor(e) ELSE {})

Next == \/ Lose({})
        \/ \E e \in Ids : \/ \E c \in Rooms : Draft(e, c)
                          \/ Post(e) \/ Refuse(e) \/ Fail(e)
                          \/ Pass(e) \/ Hand(e) \/ Lose({e})
        \/ \E c \in Rooms : Open(c) \/ Close(c)

Spec == Init /\ [][Next]_chatVars
==============================================================================
