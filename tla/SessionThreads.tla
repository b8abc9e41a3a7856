---------------------------- MODULE SessionThreads ----------------------------
(***************************************************************************)
(* What a subagent session of OpenClaw is promised, without hooks, maps,   *)
(* runtimes or requests: it has one open thread of the app at a time; a    *)
(* thread belongs to one session for ever; and what is known of a session  *)
(* anywhere was its open thread when it became known, and is otherwise     *)
(* only forgotten.  SubagentRuntime implements this.                       *)
(***************************************************************************)
CONSTANTS Sessions, Threads, None

VARIABLES
    owner,      \* [Threads -> Sessions \cup {None}]: whose thread it is
    closed,     \* the threads the app has deleted
    known       \* [Sessions -> SUBSET Threads]: what is known of a session

threadVars == <<owner, closed, known>>

Init == /\ owner = [t \in Threads |-> None]
        /\ closed = {}
        /\ known = [k \in Sessions |-> {}]

\* The open thread of session k, as a set.
Live(k) == {t \in Threads : owner[t] = k /\ t \notin closed}

\* At most ts becomes known of session k; of the others nothing does.
Learns(k, ts) ==
    /\ known' \in [Sessions -> SUBSET Threads]
    /\ \A j \in Sessions : known'[j] \subseteq known[j] \cup (IF j = k THEN ts ELSE {})

\* A session without an open thread gets a new one.
Open(k, t) ==
    /\ Live(k) = {}
    /\ owner[t] = None
    /\ owner' = [owner EXCEPT ![t] = k]
    /\ Learns(k, {t})
    /\ UNCHANGED closed

\* The open thread of k becomes known, or something is forgotten.
Learn(k) == Learns(k, Live(k)) /\ UNCHANGED <<owner, closed>>

\* A thread is closed; who knows it is not told.
Close(t) ==
    /\ owner[t] # None
    /\ t \notin closed
    /\ closed' = closed \cup {t}
    /\ UNCHANGED <<owner, known>>

Next == \/ \E k \in Sessions : Learn(k) \/ \E t \in Threads : Open(k, t)
        \/ \E t \in Threads : Close(t)

Spec == Init /\ [][Next]_threadVars
==============================================================================
