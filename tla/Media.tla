-------------------------------- MODULE Media --------------------------------
(***************************************************************************)
(* Media generation: a task is written before the upstream is called once, *)
(* its identifier is saved when the upstream accepted, and clients and the *)
(* scheduler's two workers then query it, one upstream query at a time per *)
(* task (mediaChecks).  Calls, saves and permissions may fail, callers may *)
(* leave, and the process may restart; the upstream never answers twice.   *)
(***************************************************************************)
EXTENDS Integers, FiniteSets

CONSTANTS
    Tasks,
    Clients,     \* requests that poll or wait for a transcription
    Workers,     \* of reconcileMediaTasks
    MaxRestarts,
    Nobody

Callers == Clients \cup Workers
Terminal == {"completed", "failed"}

VARIABLES
    task,      \* row of media_tasks: status, upstream identifier saved, due
    upstream,  \* what became of the task there
    submit,    \* progress of handleMedia
    told,      \* what handleMedia answered
    flight,    \* task -> leader of the query under way
    caller,    \* caller -> what it is doing
    allowed,   \* key, model and account of the tasks are permitted
    queries,   \* task -> upstream queries in progress
    restarts

vars == <<task, upstream, submit, told, flight, caller, allowed, queries, restarts>>

Idle == [at |-> "idle"]

Init ==
    /\ task = [t \in Tasks |-> [status |-> "none", saved |-> FALSE, due |-> FALSE]]
    /\ upstream = [t \in Tasks |-> "none"]
    /\ submit = [t \in Tasks |-> "new"]
    /\ told = [t \in Tasks |-> "nothing"]
    /\ flight = [t \in Tasks |-> Nobody]
    /\ caller = [c \in Callers |-> Idle]
    /\ allowed = TRUE
    /\ queries = [t \in Tasks |-> 0]
    /\ restarts = 0

-----------------------------------------------------------------------------
\* handleMedia.

\* UpdateMediaTask: a task that ended is left alone.
Updated(t, status, saved) ==
    IF task[t].status \in Terminal THEN task
    ELSE [task EXCEPT ![t] = [status |-> status, saved |-> @.saved \/ saved, due |-> FALSE]]

\* The permission is read, and CreateMediaTask commits before anything is sent.
CreateMediaTask(t) ==
    /\ submit[t] = "new" /\ allowed
    /\ task' = [task EXCEPT ![t].status = "submitting"]
    /\ submit' = [submit EXCEPT ![t] = "call"]
    /\ UNCHANGED <<upstream, told, flight, caller, allowed, queries, restarts>>

\* The one call: accepted, refused, or accepted with the answer lost.
Call(t) ==
    /\ submit[t] = "call"
    /\ \E up \in {"running", "refused"}, heard \in BOOLEAN :
        /\ upstream' = [upstream EXCEPT ![t] = up]
        /\ submit' = [submit EXCEPT ![t] =
                        IF ~heard THEN "lost" ELSE IF up = "running" THEN "accepted" ELSE "refused"]
    /\ UNCHANGED <<task, told, flight, caller, allowed, queries, restarts>>

\* Mutant: the answer does not depend on whether the identifier was saved.
AnswerAccepted(saved) == "accepted"

AnswerAfterSave(saved) == IF saved THEN "accepted" ELSE "unknown"

\* The status that each outcome of the call gives to the row.
Outcome == [lost |-> "unknown", accepted |-> "queued", refused |-> "failed"]

\* The outcome is saved, if it can be, and the client is told.
Record(t, saves) ==
    /\ submit[t] \in {"lost", "accepted", "refused"}
    /\ task' = IF saves THEN Updated(t, Outcome[submit[t]], submit[t] = "accepted") ELSE task
    /\ told' = [told EXCEPT ![t] =
                    IF submit[t] = "accepted" THEN AnswerAfterSave(saves) ELSE Outcome[submit[t]]]
    /\ submit' = [submit EXCEPT ![t] = "done"]
    /\ UNCHANGED <<upstream, flight, caller, allowed, queries, restarts>>

\* The upstream finishes.
Finish(t) ==
    /\ upstream[t] = "running"
    /\ \E end \in Terminal : upstream' = [upstream EXCEPT ![t] = end]
    /\ UNCHANGED <<task, submit, told, flight, caller, allowed, queries, restarts>>

-----------------------------------------------------------------------------
\* queryMediaTask.

Become(c, p) == caller' = [caller EXCEPT ![c] = p]

\* Mutant: no caller joins another's query.
AlwaysLead(c, t) ==
    /\ Become(c, [at |-> "fetch", task |-> t])
    /\ flight' = [flight EXCEPT ![t] = c]

\* The first caller leads, the others wait for its result.
Join(c, t) ==
    IF flight[t] = Nobody
    THEN Become(c, [at |-> "fetch", task |-> t]) /\ flight' = [flight EXCEPT ![t] = c]
    ELSE Become(c, [at |-> "wait", task |-> t, leader |-> flight[t]]) /\ UNCHANGED flight

\* handleVideoTask and awaitTranscription ask for a task the client knows;
\* the scheduler takes one that is due.
Ask(c, t) ==
    /\ caller[c] = Idle
    /\ IF c \in Clients THEN told[t] # "nothing" /\ allowed
       ELSE task[t].saved /\ task[t].status \notin Terminal /\ task[t].due
    /\ Join(c, t)
    /\ UNCHANGED <<task, upstream, submit, told, allowed, queries, restarts>>

\* Mutant: a flight that failed is not removed.
LandHolding(c, ok, rows) ==
    LET t == caller[c].task IN
    /\ flight' = IF ok THEN [flight EXCEPT ![t] = Nobody] ELSE flight
    /\ caller' = [caller EXCEPT ![c] = Idle]
    /\ task' = IF ok THEN rows ELSE [rows EXCEPT ![t].due = FALSE]

\* The result of a flight reaches the leader and everyone who waits; a worker
\* that failed defers the next check.  The flight is removed in any case.
Land(c, ok, rows) ==
    LET t == caller[c].task
        joined == {d \in Callers : caller[d].at = "wait" /\ caller[d].task = t
                                    /\ caller[d].leader = c}
        failing == ~ok /\ (joined \cup {c}) \cap Workers # {}
    IN  /\ flight' = [flight EXCEPT ![t] = Nobody]
        /\ caller' = [d \in Callers |-> IF d = c \/ d \in joined THEN Idle ELSE caller[d]]
        /\ task' = IF failing THEN [rows EXCEPT ![t].due = FALSE] ELSE rows

\* fetchMediaTask: what is over, or cannot be asked for, needs no query.
Fetch(c) ==
    LET t == caller[c].task IN
    /\ caller[c].at = "fetch"
    /\ IF ~allowed THEN Land(c, FALSE, task) /\ UNCHANGED queries
       ELSE IF task[t].status \in Terminal \/ ~task[t].saved
       THEN Land(c, TRUE, task) /\ UNCHANGED queries
       ELSE /\ Become(c, [at |-> "query", task |-> t])
            /\ queries' = [queries EXCEPT ![t] = @ + 1]
            /\ UNCHANGED <<flight, task>>
    /\ UNCHANGED <<upstream, submit, told, allowed, restarts>>

\* The upstream's state is saved.
QueryAnswered(c) ==
    LET t == caller[c].task IN
    /\ caller[c].at = "query"
    /\ queries' = [queries EXCEPT ![t] = @ - 1]
    /\ Land(c, TRUE, Updated(t, IF upstream[t] = "running" THEN "in_progress"
                                ELSE upstream[t], FALSE))
    /\ UNCHANGED <<upstream, submit, told, allowed, restarts>>

\* The query, its check, its time or the save fails.
QueryFails(c) ==
    /\ caller[c].at = "query"
    /\ queries' = [queries EXCEPT ![caller[c].task] = @ - 1]
    /\ Land(c, FALSE, task)
    /\ UNCHANGED <<upstream, submit, told, allowed, restarts>>

\* A caller's context ends while it waits for another's query.
Leave(c) ==
    /\ caller[c].at = "wait"
    /\ Become(c, Idle)
    /\ UNCHANGED <<task, upstream, submit, told, flight, allowed, queries, restarts>>

\* next_check_at passes.
Due(t) ==
    /\ task[t].saved /\ task[t].status \notin Terminal /\ ~task[t].due
    /\ task' = [task EXCEPT ![t].due = TRUE]
    /\ UNCHANGED <<upstream, submit, told, flight, caller, allowed, queries, restarts>>

\* Keys, models and accounts are revoked and restored.
Regrant ==
    /\ allowed' = ~allowed
    /\ UNCHANGED <<task, upstream, submit, told, flight, caller, queries, restarts>>

\* The process restarts: the rows remain, a call under way is never repeated.
Restart ==
    /\ restarts < MaxRestarts
    /\ restarts' = restarts + 1
    /\ flight' = [t \in Tasks |-> Nobody]
    /\ caller' = [c \in Callers |-> Idle]
    /\ submit' = [t \in Tasks |-> IF submit[t] = "new" THEN "new" ELSE "done"]
    /\ queries' = [t \in Tasks |-> 0]
    /\ UNCHANGED <<task, upstream, told, allowed>>

Next ==
    \/ \E t \in Tasks :
        \/ CreateMediaTask(t) \/ Call(t) \/ Finish(t) \/ Due(t)
        \/ \E saves \in BOOLEAN : Record(t, saves)
    \/ \E c \in Callers :
        \/ \E t \in Tasks : Ask(c, t)
        \/ Fetch(c) \/ QueryAnswered(c) \/ QueryFails(c) \/ Leave(c)
    \/ Regrant \/ Restart

Spec == Init /\ [][Next]_vars

\* The scheduler runs; every query ends in time; one that is repeated without
\* end is answered at some point.
Fairness ==
    /\ \A t \in Tasks : WF_vars(Due(t))
    /\ \A c \in Callers : WF_vars(Fetch(c)) /\ WF_vars(QueryAnswered(c) \/ QueryFails(c))
    /\ SF_vars(\E c \in Callers : QueryAnswered(c))
    /\ \A w \in Workers, t \in Tasks : WF_vars(Ask(w, t))

FairSpec == Spec /\ Fairness

-----------------------------------------------------------------------------
\* What the client was told is what can be relied on: an accepted task can be
\* asked for, a failed one never runs upstream; and no end is reported that the
\* upstream did not reach.
ToldTruthful ==
    \A t \in Tasks :
        /\ told[t] = "accepted" => task[t].saved
        /\ told[t] = "failed" => upstream[t] = "refused"
        /\ task[t].status \in Terminal =>
            upstream[t] = task[t].status \/ (upstream[t] = "refused" /\ task[t].status = "failed")

\* However many callers ask, the upstream is asked once at a time.
OneQuery == \A t \in Tasks : queries[t] <= 1

\* A task that the gateway said it accepted ends here once it ended upstream,
\* unless it stays forbidden.
Owed(t) == told[t] = "accepted" /\ upstream[t] \in Terminal
HasEnded(t) == task[t].status \in Terminal
AcceptedSettles == \A t \in Tasks : <>[]allowed => (Owed(t) ~> HasEnded(t))
===============================================================================
