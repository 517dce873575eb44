----------------------------- MODULE UsageUpkeep -----------------------------
(***************************************************************************)
(* Usage records and how they are kept within their limits: rows expire    *)
(* and are capped, the texts they hold expire and are budgeted, and media  *)
(* tasks expire with their results.  A round works in short batches, each  *)
(* a transaction of its own; calls are logged in between, and a round that *)
(* runs out of time is taken up by a new one.                              *)
(***************************************************************************)
EXTENDS Integers, Sequences, FiniteSets, FiniteSetsExt

CONSTANTS
    Policies,    \* [days, rows, contentDays, budget]; zero is no limit
    Batch,       \* of rows in one transaction
    Films,       \* media tasks
    MaxId, LastDay, MaxSize, MaxCancels  \* bounds

VARIABLES
    policy, clock,
    written,     \* every row that was written: its day and the size of its texts
    logged,      \* usage_logs, the rows that are left: id -> what is left of the texts
    film,        \* media_tasks
    stage, round,
    cancels

uvars == <<policy, clock, written, logged, film, stage, round, cancels>>

Rows == DOMAIN logged
NoRound == [now |-> 0, cutoff |-> 0, total |-> 0, picked |-> {}, released |-> 0, last |-> 0,
            measured |-> 0]
NoTask == [status |-> "none", updated |-> 0, cleared |-> FALSE]

\* Rows of an older version do not know the size of their texts.
Init ==
    /\ policy \in Policies /\ clock = 0
    /\ \E n \in 0..1 : written \in [1..n -> [ts : {0}, size : 1..MaxSize]]
    /\ logged = [i \in DOMAIN written |->
                    [bytes |-> written[i].size, sized |-> FALSE, cleared |-> FALSE]]
    /\ film = [f \in Films |-> NoTask]
    /\ stage = "idle" /\ round = NoRound /\ cancels = 0

-----------------------------------------------------------------------------
\* The gateway meanwhile.

DayPasses ==
    /\ clock < LastDay /\ clock' = clock + 1
    /\ UNCHANGED <<policy, written, logged, film, stage, round, cancels>>

\* Identifiers are never used again.
Last == Len(written)
Insert(bytes) ==
    /\ Last < MaxId
    /\ written' = Append(written, [ts |-> clock, size |-> bytes])
    /\ logged' = [i \in Rows \cup {Last + 1} |->
                     IF i \in Rows THEN logged[i]
                     ELSE [bytes |-> bytes, sized |-> TRUE, cleared |-> FALSE]]

LogUsage(size) ==
    /\ Insert(size)
    /\ UNCHANGED <<policy, clock, film, stage, round, cancels>>

\* A task has a row of its own, without texts.
CreateMediaTask(f) ==
    /\ film[f] = NoTask /\ Insert(0)
    /\ film' = [film EXCEPT ![f] = [status |-> "running", updated |-> clock,
                                       cleared |-> FALSE]]
    /\ UNCHANGED <<policy, clock, stage, round, cancels>>

\* Seen running, or ended with a result.
UpdateMediaTask(f) ==
    /\ film[f].status = "running"
    /\ \E status \in {"running", "ended"} :
           film' = [film EXCEPT ![f] = [status |-> status, updated |-> clock,
                                        cleared |-> FALSE]]
    /\ UNCHANGED <<policy, clock, written, logged, stage, round, cancels>>

-----------------------------------------------------------------------------
\* MaintainUsage

SizeOf(ids) == MapThenSumSet(LAMBDA i : logged[i].bytes, ids)
Without(ids) == [i \in Rows \ ids |-> logged[i]]
Cleared(ids) ==
    [i \in Rows |-> IF i \in ids
                    THEN [logged[i] EXCEPT !.bytes = 0, !.sized = TRUE, !.cleared = TRUE]
                    ELSE logged[i]]

\* A batch of at most Batch rows of `from`, the lowest identifiers first, which
\* are the earliest too.
Oldest(from) ==
    {i \in from : Cardinality({j \in from : j < i}) < Batch}
\* A loop ends with the first batch that is not full.
After(ids, here, next) == IF Cardinality(ids) < Batch THEN next ELSE here

Begin ==
    /\ stage \in {"idle", "over"}
    /\ stage' = "expire" /\ round' = [NoRound EXCEPT !.now = clock]
    /\ UNCHANGED <<policy, clock, written, logged, film, cancels>>

Expire ==
    LET ids == Oldest({i \in Rows : policy.days > 0 /\ written[i].ts < round.now - policy.days}) IN
    /\ stage = "expire"
    /\ logged' = Without(ids) /\ stage' = After(ids, "expire", "count")
    /\ UNCHANGED <<policy, clock, written, film, round, cancels>>

\* Mutant: the last row that may stay goes too.
BeyondLast == {i \in Rows : Cardinality({j \in Rows : j > i}) >= policy.rows - 1}

\* What has as many newer rows as may be kept.
Beyond == {i \in Rows : Cardinality({j \in Rows : j > i}) >= policy.rows}

\* The cutoff is found once: new rows are of the next round.
Count ==
    /\ stage = "count"
    /\ round' = [round EXCEPT !.last = Last,
                              !.cutoff = IF policy.rows = 0 THEN 0 ELSE Max(Beyond \cup {0})]
    /\ stage' = "trim"
    /\ UNCHANGED <<policy, clock, written, logged, film, cancels>>

Trim ==
    LET ids == Oldest({i \in Rows : i <= round.cutoff}) IN
    /\ stage = "trim"
    /\ logged' = Without(ids) /\ stage' = After(ids, "trim", "strip")
    /\ UNCHANGED <<policy, clock, written, film, round, cancels>>

Stale(day) == policy.contentDays > 0 /\ day < round.now - policy.contentDays

Strip ==
    LET ids == Oldest({i \in Rows : Stale(written[i].ts) /\ logged[i].bytes > 0}) IN
    /\ stage = "strip"
    /\ logged' = Cleared(ids) /\ stage' = After(ids, "strip", "tasks")
    /\ UNCHANGED <<policy, clock, written, film, round, cancels>>

\* One task is never more than a batch.
ExpireTasks ==
    /\ stage = "tasks"
    /\ film' = [f \in Films |->
           IF policy.days > 0 /\ film[f].updated < round.now - policy.days
              /\ film[f].status \notin {"none", "gone"}
           THEN [film[f] EXCEPT !.status = "gone"] ELSE film[f]]
    /\ stage' = "results"
    /\ UNCHANGED <<policy, clock, written, logged, round, cancels>>

\* Mutant: what a client still asks for is taken for a result.
HasResultAny(f) == film[f].status \in {"running", "ended"}

HasResult(f) == film[f].status = "ended"

ClearResults ==
    /\ stage = "results"
    /\ film' = [f \in Films |-> IF Stale(film[f].updated) /\ HasResult(f)
                                THEN [film[f] EXCEPT !.cleared = TRUE] ELSE film[f]]
    /\ stage' = IF policy.budget = 0 THEN "over" ELSE "measure"
    /\ UNCHANGED <<policy, clock, written, logged, round, cancels>>

\* Mutant: sizes that are not known are left to the next round.
UnsizedNone == {}

Unsized == {i \in Rows : ~logged[i].sized}

Measure ==
    LET ids == Oldest(Unsized) IN
    /\ stage = "measure"
    /\ logged' = [i \in Rows |-> IF i \in ids THEN [logged[i] EXCEPT !.sized = TRUE]
                                              ELSE logged[i]]
    /\ stage' = After(ids, "measure", "sum")
    /\ UNCHANGED <<policy, clock, written, film, round, cancels>>

\* The sum counts the sizes that are known; it is taken once.
AfterSum(total) == IF total > policy.budget THEN "pick" ELSE "over"
Sum ==
    LET total == SizeOf({i \in Rows : logged[i].sized}) IN
    /\ stage = "sum"
    /\ round' = [round EXCEPT !.total = total, !.measured = Last]
    /\ stage' = AfterSum(total)
    /\ UNCHANGED <<policy, clock, written, logged, film, cancels>>

Held == {i \in Rows : logged[i].sized /\ logged[i].bytes > 0}

\* Mutant: the texts that were written last are the first to go.
EarliestLast(i) == {j \in Held : j > i}

Earlier(i) == {j \in Held : j < i}

\* As many of the oldest texts as the budget asks for, a batch at most.
Pick ==
    LET ids == {i \in Held : /\ Cardinality(Earlier(i)) < Batch
                             /\ round.total - SizeOf(Earlier(i)) > policy.budget} IN
    /\ stage = "pick"
    /\ round' = [round EXCEPT !.picked = ids, !.released = SizeOf(ids)]
    /\ stage' = IF ids = {} THEN "over" ELSE "clear"
    /\ UNCHANGED <<policy, clock, written, logged, film, cancels>>

\* Mutant: the total is not brought up to date.
LeftAll == round.total

Left == round.total - round.released

Clear ==
    /\ stage = "clear"
    /\ logged' = Cleared(round.picked)
    /\ round' = [round EXCEPT !.total = Left, !.picked = {}, !.released = 0]
    /\ stage' = AfterSum(Left)
    /\ UNCHANGED <<policy, clock, written, film, cancels>>

\* The second is over, the process stops or a statement fails.
GiveUp ==
    /\ stage \notin {"idle", "over"} /\ cancels < MaxCancels
    /\ stage' = "idle" /\ round' = NoRound /\ cancels' = cancels + 1
    /\ UNCHANGED <<policy, clock, written, logged, film>>

Next ==
    \/ DayPasses \/ \E size \in 1..MaxSize : LogUsage(size)
    \/ \E f \in Films : CreateMediaTask(f) \/ UpdateMediaTask(f)
    \/ Begin \/ Expire \/ Count \/ Trim \/ Strip \/ ExpireTasks \/ ClearResults
    \/ Measure \/ Sum \/ Pick \/ Clear \/ GiveUp

-----------------------------------------------------------------------------
Old(day, days) == days > 0 /\ day < clock - days

\* A round that ended did what it is for, whatever was logged meanwhile: of
\* what it found nothing is too old, too many or too large.
RoundsSuffice ==
    stage = "over" =>
        /\ \A i \in Rows :
            /\ policy.days > 0 => written[i].ts >= round.now - policy.days
            /\ Stale(written[i].ts) => logged[i].bytes = 0
        /\ policy.rows > 0 => Cardinality({i \in Rows : i <= round.last}) <= policy.rows
        /\ policy.budget > 0 =>
               SizeOf({i \in Rows : i <= round.measured}) <= policy.budget

SizeWritten(ids) == MapThenSumSet(LAMBDA i : written[i].size, ids)

\* No more is given up than the limits ask for, over any number of rounds that
\* were cut off: a row that is missing is old or has enough newer ones; a text
\* is gone with newer ones that fill the budget; a result after its time.
NothingWasted ==
    /\ \A i \in DOMAIN written \ Rows :
        \/ Old(written[i].ts, policy.days)
        \/ policy.rows > 0 /\ Cardinality({j \in Rows : j > i}) >= policy.rows
    /\ \A i \in Rows : logged[i].cleared =>
        \/ Old(written[i].ts, policy.contentDays)
        \/ policy.budget > 0
           /\ SizeWritten({j \in DOMAIN written : j >= i}) > policy.budget
    /\ \A f \in Films :
        /\ film[f].status = "gone" => Old(film[f].updated, policy.days)
        /\ film[f].cleared => film[f].status # "running"
        /\ film[f].cleared => Old(film[f].updated, policy.contentDays)

UpkeepFits == RoundsSuffice /\ NothingWasted
===============================================================================
