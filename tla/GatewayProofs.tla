----------------------------- MODULE GatewayProofs -----------------------------
(***************************************************************************)
(* Proofs about the gateway that MCGateway composes: media tasks, lent     *)
(* accounts, account checks, the quota ledger, what requests are lent and  *)
(* may be sent to, and the gateway's people, for any number of them.       *)
(***************************************************************************)
EXTENDS MCGateway, IdentityProofs

-----------------------------------------------------------------------------
\* Media tasks, for any number of tasks, clients and workers.

TaskRow ==
    [status : {"none", "submitting", "unknown", "queued", "in_progress"} \cup Generation!Terminal,
     saved : BOOLEAN, due : BOOLEAN]

Errands ==
    {Generation!Idle} \cup [at : {"fetch", "query"}, task : Tasks]
           \cup [at : {"wait"}, task : Tasks, leader : Generation!Callers]

TasksTyped ==
    /\ task \in [Tasks -> TaskRow]
    /\ upstream \in [Tasks -> {"none", "running", "refused"} \cup Generation!Terminal]
    /\ submit \in [Tasks -> {"new", "call", "lost", "accepted", "refused", "done"}]
    /\ told \in [Tasks -> {"nothing", "accepted", "unknown", "failed"}]
    /\ query \in [Tasks -> Generation!Callers \cup {Absent}]
    /\ poller \in [Generation!Callers -> Errands]
    /\ allowed \in BOOLEAN
    /\ queries \in [Tasks -> {0, 1}]

Taken == {"running"} \cup Generation!Terminal

\* How far a submission is agrees with what the upstream did and with what was
\* told; and a row knows of the upstream only what happened there.
Submitted(t) ==
    /\ submit[t] \in {"new", "call"} => upstream[t] = "none"
    /\ submit[t] = "accepted" => upstream[t] \in Taken
    /\ submit[t] = "refused" => upstream[t] = "refused"
    /\ submit[t] # "done" =>
        ~task[t].saved /\ task[t].status \notin Generation!Terminal /\ told[t] = "nothing"
    /\ task[t].saved => upstream[t] \in Taken

\* The first caller of a flight, and it alone, fetches and queries; only a task
\* with an identifier is queried, and its query is counted.
QueriesLed ==
    /\ \A c \in Generation!Callers :
        poller[c].at \in {"fetch", "query"} => query[poller[c].task] = c
    /\ \A c \in Generation!Callers : poller[c].at = "query" =>
        task[poller[c].task].saved /\ queries[poller[c].task] = 1
    /\ \A t \in Tasks : queries[t] = 1 =>
        /\ query[t] \in Generation!Callers
        /\ poller[query[t]] = [at |-> "query", task |-> t]

MediaInv ==
    /\ TasksTyped /\ \A t \in Tasks : Submitted(t)
    /\ Generation!ToldTruthful /\ QueriesLed

-----------------------------------------------------------------------------
\* Before anything was submitted the invariant holds.
LEMMA MediaInit == Generation!Init => MediaInv
BY DEF Generation!Init, MediaInv, TasksTyped, TaskRow, Errands, Generation!Idle,
       Submitted, Generation!ToldTruthful, QueriesLed, Generation!Terminal

-----------------------------------------------------------------------------
\* handleMedia and the upstream change one row and nobody's errand.

LEMMA MediaCreated ==
    ASSUME MediaInv, NEW t \in Tasks, Generation!CreateMediaTask(t)
    PROVE  MediaInv'
<1> USE DEF MediaInv, Generation!CreateMediaTask
<1>1. TasksTyped' BY DEF TasksTyped, TaskRow
<1>2. \A u \in Tasks : Submitted(u)'
  BY DEF TasksTyped, TaskRow, Submitted, Generation!Terminal
<1>3. Generation!ToldTruthful'
  BY DEF TasksTyped, TaskRow, Submitted, Generation!ToldTruthful, Generation!Terminal
<1>4. QueriesLed'
  BY DEF TasksTyped, TaskRow, QueriesLed
<1> QED BY <1>1, <1>2, <1>3, <1>4

LEMMA MediaCalled ==
    ASSUME MediaInv, NEW t \in Tasks, Generation!Call(t)
    PROVE  MediaInv'
<1> USE DEF MediaInv, Generation!Call
<1>1. TasksTyped' BY DEF TasksTyped
<1>2. \A u \in Tasks : Submitted(u)'
  BY DEF TasksTyped, Submitted, Taken
<1>3. Generation!ToldTruthful'
  BY DEF TasksTyped, Submitted, Generation!ToldTruthful, Generation!Terminal, Taken
<1>4. QueriesLed'
  BY DEF TasksTyped, QueriesLed
<1> QED BY <1>1, <1>2, <1>3, <1>4

LEMMA MediaRecorded ==
    ASSUME MediaInv, NEW t \in Tasks, NEW saves \in BOOLEAN, Generation!Record(t, saves)
    PROVE  MediaInv'
<1> USE DEF MediaInv, Generation!Record, Generation!Outcome
<1>1. task' \in [Tasks -> TaskRow]
  BY DEF TasksTyped, TaskRow, Generation!Updated, Generation!Terminal
<1>2. TasksTyped'
  BY <1>1 DEF TasksTyped, Generation!AnswerAfterSave
<1>3. \A u \in Tasks : Submitted(u)'
  BY DEF TasksTyped, TaskRow, Submitted, Taken, Generation!Updated,
         Generation!AnswerAfterSave
<1>4. Generation!ToldTruthful'
  <2>1. ASSUME NEW u \in Tasks, u # t
        PROVE  task'[u] = task[u] /\ told'[u] = told[u]
    BY <2>1 DEF TasksTyped, Generation!Updated
  <2>2. told'[t] = "accepted" => task'[t].saved
    BY DEF TasksTyped, TaskRow, Submitted, Generation!ToldTruthful, Generation!Terminal,
           Taken, Generation!Updated, Generation!AnswerAfterSave
  <2>3. told'[t] = "failed" => upstream[t] = "refused"
    BY DEF TasksTyped, Submitted, Generation!AnswerAfterSave
  <2>4. task'[t].status \in Generation!Terminal =>
            \/ upstream[t] = task'[t].status
            \/ upstream[t] = "refused" /\ task'[t].status = "failed"
    <3>1. CASE task[t].status \in Generation!Terminal \/ ~saves
      BY <3>1 DEF Generation!Updated, Generation!ToldTruthful
    <3>2. CASE task[t].status \notin Generation!Terminal /\ saves
      <4>1. task'[t].status = Generation!Outcome[submit[t]]
        BY <3>2 DEF TasksTyped, Generation!Updated
      <4> QED BY <4>1 DEF Submitted, Generation!Terminal
    <3> QED BY <3>1, <3>2
  <2> QED
    BY <2>1, <2>2, <2>3, <2>4 DEF Generation!ToldTruthful
<1>5. QueriesLed'
  BY DEF TasksTyped, TaskRow, QueriesLed, Generation!Updated
<1> QED BY <1>2, <1>3, <1>4, <1>5

LEMMA MediaFinished ==
    ASSUME MediaInv, NEW t \in Tasks, Generation!Finish(t)
    PROVE  MediaInv'
<1> USE DEF MediaInv, Generation!Finish
<1>1. TasksTyped' BY DEF TasksTyped
<1>2. \A u \in Tasks : Submitted(u)'
  BY DEF TasksTyped, Submitted, Taken, Generation!Terminal
<1>3. Generation!ToldTruthful'
  BY DEF TasksTyped, Submitted, Generation!ToldTruthful, Generation!Terminal
<1>4. QueriesLed'
  BY DEF TasksTyped, QueriesLed
<1> QED BY <1>1, <1>2, <1>3, <1>4

-----------------------------------------------------------------------------
\* queryMediaTask.

\* A caller that has nothing under way asks: it leads a new flight, or joins.
LEMMA MediaAsked ==
    ASSUME MediaInv, Absent \notin Generation!Callers,
           NEW c \in Generation!Callers, NEW t \in Tasks, Generation!Ask(c, t)
    PROVE  MediaInv'
<1> USE DEF MediaInv, Generation!Ask, Generation!Join, Generation!Become, Generation!Idle
<1>1. TasksTyped' BY DEF TasksTyped, Errands
<1>2. \A u \in Tasks : Submitted(u)'
  BY DEF Submitted
<1>3. Generation!ToldTruthful'
  BY DEF Generation!ToldTruthful
<1>4. QueriesLed'
  BY DEF TasksTyped, Errands, QueriesLed
<1> QED BY <1>1, <1>2, <1>3, <1>4

\* Without its leader's query none is counted.
LEMMA Uncounted ==
    ASSUME MediaInv, NEW c \in Generation!Callers, NEW t \in Tasks, query[t] = c,
           poller[c].at # "query"
    PROVE  queries[t] # 1
<1>1. SUFFICES ASSUME queries[t] = 1 PROVE FALSE
  OBVIOUS
<1>2. poller[c] = [at |-> "query", task |-> t]
  BY <1>1 DEF MediaInv, QueriesLed
<1> QED BY <1>2

\* A flight lands: it leaves nobody behind, and no other flight.
LEMMA LandLeads ==
    ASSUME MediaInv, Absent \notin Generation!Callers,
           NEW c \in Generation!Callers, poller[c].at \in {"fetch", "query"},
           NEW ok \in BOOLEAN, NEW rows \in [Tasks -> TaskRow],
           \A t \in Tasks : task[t].saved => rows[t].saved,
           Generation!Land(c, ok, rows),
           \/ poller[c].at = "fetch" /\ UNCHANGED queries
           \/ poller[c].at = "query" /\ queries' = [queries EXCEPT ![poller[c].task] = @ - 1]
    PROVE  /\ query' \in [Tasks -> Generation!Callers \cup {Absent}]
           /\ poller' \in [Generation!Callers -> Errands]
           /\ queries' \in [Tasks -> {0, 1}]
           /\ task' \in [Tasks -> TaskRow]
           /\ QueriesLed'
           /\ \A t \in Tasks : task'[t].saved = rows[t].saved /\ task'[t].status = rows[t].status
<1> USE DEF MediaInv
<1> DEFINE t == poller[c].task
<1>1. t \in Tasks /\ query[t] = c
  BY DEF TasksTyped, Errands, Generation!Idle, QueriesLed
<1>2. query' \in [Tasks -> Generation!Callers \cup {Absent}]
  BY <1>1 DEF TasksTyped, Generation!Land
<1>3. poller' \in [Generation!Callers -> Errands]
  BY DEF TasksTyped, Generation!Land, Errands
<1>4. /\ task' \in [Tasks -> TaskRow]
      /\ \A u \in Tasks : task'[u].saved = rows[u].saved /\ task'[u].status = rows[u].status
  <2>1. task' = rows \/ task' = [rows EXCEPT ![t].due = FALSE]
    BY DEF Generation!Land
  <2>2. CASE task' = rows
    BY <2>2
  <2>3. CASE task' = [rows EXCEPT ![t].due = FALSE]
    <3>1. ASSUME NEW u \in Tasks
          PROVE  /\ task'[u] \in TaskRow
                 /\ task'[u].saved = rows[u].saved /\ task'[u].status = rows[u].status
      <4>1. CASE u = t
        <5>1. task'[t] = [rows[t] EXCEPT !.due = FALSE] /\ rows[t] \in TaskRow
          BY <1>1, <2>3
        <5> QED BY <4>1, <5>1 DEF TaskRow
      <4>2. CASE u # t
        BY <2>3, <4>2
      <4> QED BY <4>1, <4>2
    <3>2. task' = [u \in Tasks |-> task'[u]]
      BY <2>3
    <3> QED BY <3>1, <3>2
  <2> QED BY <2>1, <2>2, <2>3
<1>5. /\ queries' \in [Tasks -> {0, 1}]
      /\ queries'[t] = 0
      /\ \A u \in Tasks \ {t} : queries'[u] = queries[u]
  <2>1. CASE poller[c].at = "fetch" /\ UNCHANGED queries
    <3>1. queries[t] # 1
      BY <1>1, <2>1, Uncounted
    <3> QED BY <1>1, <2>1, <3>1 DEF TasksTyped
  <2>2. CASE poller[c].at = "query" /\ queries' = [queries EXCEPT ![t] = @ - 1]
    <3>1. queries[t] = 1
      BY <1>1, <2>2 DEF QueriesLed
    <3> QED BY <1>1, <2>2, <3>1 DEF TasksTyped
  <2> QED BY <2>1, <2>2
<1>6. \A d \in Generation!Callers : poller'[d].at \in {"fetch", "query"} =>
        poller'[d] = poller[d] /\ d # c
  BY DEF Generation!Land, Generation!Idle
<1>7. \A d \in Generation!Callers :
         poller'[d].at \in {"fetch", "query"} => poller[d].task # t
  BY <1>1, <1>6 DEF QueriesLed
<1>8. QueriesLed'
  <2>1. ASSUME NEW d \in Generation!Callers, poller'[d].at \in {"fetch", "query"}
        PROVE  query'[poller'[d].task] = d
    BY <2>1, <1>6, <1>7 DEF TasksTyped, Generation!Land, QueriesLed
  <2>2. ASSUME NEW d \in Generation!Callers, poller'[d].at = "query"
        PROVE  task'[poller'[d].task].saved /\ queries'[poller'[d].task] = 1
    <3>1. poller[d].task \in Tasks
      BY <2>2, <1>6 DEF TasksTyped, Errands, Generation!Idle
    <3> QED BY <2>2, <3>1, <1>4, <1>5, <1>6, <1>7 DEF QueriesLed
  <2>3. ASSUME NEW u \in Tasks, queries'[u] = 1
        PROVE  /\ query'[u] \in Generation!Callers
               /\ poller'[query'[u]] = [at |-> "query", task |-> u]
    <3>1. u # t /\ queries[u] = 1
      BY <2>3, <1>5
    <3>2. query'[u] = query[u]
      BY <3>1, <1>1 DEF TasksTyped, Generation!Land
    <3>3. poller[query[u]] = [at |-> "query", task |-> u] /\ query[u] \in Generation!Callers
      BY <3>1 DEF QueriesLed
    <3>4. poller'[query[u]] = poller[query[u]]
      BY <3>1, <3>3 DEF Generation!Land
    <3> QED BY <3>2, <3>3, <3>4
  <2> QED BY <2>1, <2>2, <2>3 DEF QueriesLed
<1> QED BY <1>2, <1>3, <1>4, <1>5, <1>8

LEMMA MediaFetched ==
    ASSUME MediaInv, Absent \notin Generation!Callers, NEW c \in Generation!Callers,
           Generation!Fetch(c)
    PROVE  MediaInv'
<1> USE DEF MediaInv
<1> DEFINE t == poller[c].task
<1>1. t \in Tasks /\ query[t] = c /\ poller[c] = [at |-> "fetch", task |-> t]
  BY DEF Generation!Fetch, TasksTyped, Errands, Generation!Idle, QueriesLed
<1>2. ASSUME NEW ok \in BOOLEAN, Generation!Land(c, ok, task), UNCHANGED queries
      PROVE  MediaInv'
  <2>1. /\ query' \in [Tasks -> Generation!Callers \cup {Absent}]
        /\ poller' \in [Generation!Callers -> Errands]
        /\ queries' \in [Tasks -> {0, 1}]
        /\ task' \in [Tasks -> TaskRow]
        /\ QueriesLed'
        /\ \A u \in Tasks : task'[u].saved = task[u].saved /\ task'[u].status = task[u].status
    BY <1>1, <1>2, LandLeads DEF TasksTyped, Generation!Fetch
  <2>2. TasksTyped' BY <2>1 DEF TasksTyped, Generation!Fetch
  <2>3. \A u \in Tasks : Submitted(u)' BY <2>1 DEF Submitted, Generation!Fetch
  <2>4. Generation!ToldTruthful' BY <2>1 DEF Generation!ToldTruthful, Generation!Fetch
  <2> QED BY <2>1, <2>2, <2>3, <2>4
<1>3. ASSUME allowed, task[t].saved,
             Generation!Become(c, [at |-> "query", task |-> t]),
             queries' = [queries EXCEPT ![t] = @ + 1], UNCHANGED <<query, task>>
      PROVE  MediaInv'
  <2>1. queries[t] = 0
    <3>1. poller[c].at # "query"
      BY <1>1
    <3>2. queries[t] # 1
      BY <1>1, <3>1, Uncounted
    <3> QED BY <1>1, <3>2 DEF TasksTyped
  <2>2. queries' \in [Tasks -> {0, 1}] /\ queries'[t] = 1
    BY <1>1, <1>3, <2>1 DEF TasksTyped
  <2>3. poller' = [poller EXCEPT ![c] = [at |-> "query", task |-> t]]
    BY <1>3 DEF Generation!Become
  <2>4. TasksTyped' BY <1>1, <1>3, <2>2, <2>3 DEF TasksTyped, Errands, Generation!Fetch
  <2>5. \A u \in Tasks : Submitted(u)' BY <1>3 DEF Submitted, Generation!Fetch
  <2>6. Generation!ToldTruthful' BY <1>3 DEF Generation!ToldTruthful, Generation!Fetch
  <2>7. QueriesLed' BY <1>1, <1>3, <2>1, <2>2, <2>3 DEF TasksTyped, QueriesLed
  <2> QED BY <2>4, <2>5, <2>6, <2>7
<1> QED BY <1>2, <1>3 DEF Generation!Fetch

\* What the upstream says of a task is recorded; the row keeps its identifier.
LEMMA MediaAnswered ==
    ASSUME MediaInv, Absent \notin Generation!Callers, NEW c \in Generation!Callers,
           Generation!QueryAnswered(c)
    PROVE  MediaInv'
<1> USE DEF MediaInv
<1> DEFINE t == poller[c].task
           status == IF upstream[t] = "running" THEN "in_progress" ELSE upstream[t]
           rows == Generation!Updated(t, status, FALSE)
<1>1. t \in Tasks /\ poller[c].at = "query" /\ task[t].saved /\ upstream[t] \in Taken
  BY DEF Generation!QueryAnswered, TasksTyped, Errands, Generation!Idle, QueriesLed,
         Submitted
<1>2. status \in {"in_progress"} \cup Generation!Terminal
  BY <1>1 DEF Taken
<1>3. rows \in [Tasks -> TaskRow]
  BY <1>1, <1>2 DEF TasksTyped, TaskRow, Generation!Updated
<1>4. \A u \in Tasks : rows[u].saved = task[u].saved
  BY <1>1, <1>2 DEF TasksTyped, TaskRow, Generation!Updated
<1>5. \A u \in Tasks : rows[u].status = task[u].status \/ (u = t /\ rows[u].status = status)
  BY <1>1, <1>2 DEF TasksTyped, TaskRow, Generation!Updated
<1>6. Generation!Land(c, TRUE, rows) /\ queries' = [queries EXCEPT ![t] = @ - 1]
  BY DEF Generation!QueryAnswered
<1> HIDE DEF rows
<1>7. /\ query' \in [Tasks -> Generation!Callers \cup {Absent}]
      /\ poller' \in [Generation!Callers -> Errands]
      /\ queries' \in [Tasks -> {0, 1}]
      /\ task' \in [Tasks -> TaskRow]
      /\ QueriesLed'
      /\ \A u \in Tasks : task'[u].saved = rows[u].saved /\ task'[u].status = rows[u].status
  BY <1>1, <1>3, <1>4, <1>6, LandLeads
<1>8. TasksTyped' BY <1>7 DEF TasksTyped, Generation!QueryAnswered
<1>9. \A u \in Tasks : Submitted(u)'
  BY <1>1, <1>4, <1>5, <1>7 DEF Submitted, Generation!QueryAnswered
<1>10. Generation!ToldTruthful'
  BY <1>1, <1>2, <1>4, <1>5, <1>7 DEF Generation!ToldTruthful, Generation!QueryAnswered,
                                      Taken, Generation!Terminal
<1> QED BY <1>7, <1>8, <1>9, <1>10

LEMMA MediaFailed ==
    ASSUME MediaInv, Absent \notin Generation!Callers, NEW c \in Generation!Callers,
           Generation!QueryFails(c)
    PROVE  MediaInv'
<1> USE DEF MediaInv
<1>1. /\ query' \in [Tasks -> Generation!Callers \cup {Absent}]
      /\ poller' \in [Generation!Callers -> Errands]
      /\ queries' \in [Tasks -> {0, 1}]
      /\ task' \in [Tasks -> TaskRow]
      /\ QueriesLed'
      /\ \A u \in Tasks : task'[u].saved = task[u].saved /\ task'[u].status = task[u].status
  BY LandLeads DEF TasksTyped, Generation!QueryFails
<1>2. TasksTyped' BY <1>1 DEF TasksTyped, Generation!QueryFails
<1>3. \A u \in Tasks : Submitted(u)' BY <1>1 DEF Submitted, Generation!QueryFails
<1>4. Generation!ToldTruthful' BY <1>1 DEF Generation!ToldTruthful, Generation!QueryFails
<1> QED BY <1>1, <1>2, <1>3, <1>4

\* A caller that waits leaves; a check becomes due; permissions change.
LEMMA MediaElse ==
    ASSUME MediaInv,
           \/ \E c \in Generation!Callers : Generation!Leave(c)
           \/ \E t \in Tasks : Generation!Due(t)
           \/ Generation!Regrant
    PROVE  MediaInv'
<1> USE DEF MediaInv
<1>1. ASSUME NEW c \in Generation!Callers, Generation!Leave(c) PROVE MediaInv'
  <2> USE <1>1 DEF Generation!Leave, Generation!Become
  <2>1. TasksTyped' BY DEF TasksTyped, Errands
  <2>2. QueriesLed' BY DEF TasksTyped, QueriesLed, Generation!Idle
  <2> QED BY <2>1, <2>2 DEF Submitted, Generation!ToldTruthful
<1>2. ASSUME NEW t \in Tasks, Generation!Due(t) PROVE MediaInv'
  <2>1. task' = [task EXCEPT ![t].due = TRUE]
    BY <1>2 DEF Generation!Due
  <2>0. task \in [Tasks -> TaskRow] BY DEF TasksTyped
  <2>2. /\ task' \in [Tasks -> TaskRow]
        /\ \A u \in Tasks : task'[u].saved = task[u].saved /\ task'[u].status = task[u].status
    <3>1. /\ [task[t] EXCEPT !.due = TRUE] \in TaskRow
          /\ [task[t] EXCEPT !.due = TRUE].saved = task[t].saved
          /\ [task[t] EXCEPT !.due = TRUE].status = task[t].status
      BY <1>2, <2>0 DEF TaskRow
    <3> QED BY <1>2, <2>0, <2>1, <3>1
  <2>3. TasksTyped' BY <1>2, <2>2 DEF TasksTyped, Generation!Due
  <2>4. QueriesLed'
    BY <1>2, <2>2 DEF TasksTyped, Errands, Generation!Idle, QueriesLed, Generation!Due
  <2>5. Generation!ToldTruthful' BY <1>2, <2>2 DEF Generation!ToldTruthful, Generation!Due
  <2> QED BY <1>2, <2>2, <2>3, <2>4, <2>5 DEF Submitted, Generation!Due
<1>3. ASSUME Generation!Regrant PROVE MediaInv'
  BY <1>3 DEF Generation!Regrant, TasksTyped, Submitted, Generation!ToldTruthful, QueriesLed
<1> QED BY <1>1, <1>2, <1>3

\* After a restart nobody asks, and a submission under way is over.
LEMMA MediaRestarted ==
    ASSUME MediaInv, Generation!Restart
    PROVE  MediaInv'
<1> USE DEF MediaInv, Generation!Restart
<1>1. TasksTyped' BY DEF TasksTyped, Errands
<1>2. \A t \in Tasks : Submitted(t)' BY DEF TasksTyped, Submitted
<1>3. Generation!ToldTruthful' BY DEF Generation!ToldTruthful
<1>4. QueriesLed' BY DEF QueriesLed, Generation!Idle
<1> QED BY <1>1, <1>2, <1>3, <1>4

-----------------------------------------------------------------------------
\* Every step preserves the invariant.
LEMMA MediaStep ==
    ASSUME Absent \notin Generation!Callers
    PROVE  MediaInv /\ [Generation!Next]_(Generation!vars) => MediaInv'
<1> SUFFICES ASSUME MediaInv, [Generation!Next]_(Generation!vars) PROVE MediaInv'
  OBVIOUS
<1>1. ASSUME NEW t \in Tasks,
             \/ Generation!CreateMediaTask(t) \/ Generation!Call(t) \/ Generation!Finish(t)
             \/ \E saves \in BOOLEAN : Generation!Record(t, saves)
      PROVE  MediaInv'
  BY <1>1, MediaCreated, MediaCalled, MediaFinished, MediaRecorded
<1>2. ASSUME NEW c \in Generation!Callers,
             \/ \E t \in Tasks : Generation!Ask(c, t)
             \/ Generation!Fetch(c) \/ Generation!QueryAnswered(c) \/ Generation!QueryFails(c)
      PROVE  MediaInv'
  BY <1>2, MediaAsked, MediaFetched, MediaAnswered, MediaFailed
<1>3. CASE UNCHANGED Generation!vars
  BY <1>3 DEF Generation!vars, MediaInv, TasksTyped, Submitted, Generation!ToldTruthful,
              QueriesLed
<1> QED
  BY <1>1, <1>2, <1>3, MediaElse, MediaRestarted DEF Generation!Next
\* In the gateway, what handleMedia told its client can be relied on, and an
\* upstream is asked about a task once at a time (mediaChecks).
THEOREM ToldHolds == GatewaySpec => []ToldTruthful
<1> DEFINE Inv == part = "media" => MediaInv
<1>1. GatewayInit => Inv BY MediaInit DEF GatewayInit
<1>2. Inv /\ [GatewayNext]_gateway => Inv'
  <2> SUFFICES ASSUME Inv, [GatewayNext]_gateway, part' = "media" PROVE MediaInv'
    OBVIOUS
  <2>1. part = "media" /\ (Generation!Next \/ UNCHANGED making)
    BY DEF gateway, GatewayNext, PeopleNext, InvitesNext, ScansNext, ImportsNext,
           MediaNext, QuotaNext, ChecksNext, CapacityNext
  <2>2. UNCHANGED making => UNCHANGED Generation!vars BY DEF making, Generation!vars
  <2>3. Absent \notin Generation!Callers BY GatewayAssumption DEF Generation!Callers
  <2> QED BY <2>1, <2>2, <2>3, MediaStep
<1>3. Inv => ToldTruthful
  BY DEF ToldTruthful, MediaInv, TasksTyped, Generation!OneQuery
<1> QED BY <1>1, <1>2, <1>3, PTL DEF GatewaySpec

-----------------------------------------------------------------------------
\* The accounts that users lend, by scans and by imports.
ScanLogins == INSTANCE ContributionsProofs
    WITH Users <- Lenders, Scanned <- {Lent}, Channel <- {}, MaxPerUser <- 1, MaxTasks <- 2,
         Nobody <- Absent,
         active <- x1, settled <- x2, task <- x3, contribution <- x4, file <- x5,
         pool <- x6, holder <- x7, proc <- x8, consent <- x9, cancelled <- x10,
         activator <- x11

ImportLogins == INSTANCE ContributionsProofs
    WITH Users <- Lenders, Scanned <- {}, Channel <- {Lent},
         Tasks <- {CHOOSE t \in Tasks : TRUE},
         MaxPerUser <- 1, MaxTasks <- 2, Nobody <- Absent,
         active <- x1, settled <- x2, task <- x3, contribution <- x4, file <- x5,
         pool <- x6, holder <- x7, proc <- x8, consent <- x9, cancelled <- x10,
         activator <- x11

LEMMA SameScans ==
    /\ Scans!Init <=> ScanLogins!Init
    /\ Scans!Next <=> ScanLogins!Next
    /\ Scans!SharedByConsent <=> ScanLogins!SharedByConsent
    /\ Scans!TasksCapped <=> ScanLogins!TasksCapped
    /\ Scans!SharersLive <=> ScanLogins!SharersLive
  BY DEF
      Scans!Cardinality, ScanLogins!Cardinality,
      Scans!IsFiniteSet, ScanLogins!IsFiniteSet,
      Scans!Accounts, ScanLogins!Accounts, Scans!Admins, ScanLogins!Admins,
      Scans!vars, ScanLogins!vars, Scans!people, ScanLogins!people,
      Scans!accounts, ScanLogins!accounts, Scans!Idle, ScanLogins!Idle,
      Scans!NoTask, ScanLogins!NoTask, Scans!Unowned, ScanLogins!Unowned,
      Scans!Held, ScanLogins!Held, Scans!Gone, ScanLogins!Gone, Scans!Live,
      ScanLogins!Live, Scans!Init, ScanLogins!Init, Scans!Become,
      ScanLogins!Become, Scans!Answer, ScanLogins!Answer, Scans!Swept,
      ScanLogins!Swept, Scans!Room, ScanLogins!Room, Scans!Begin,
      ScanLogins!Begin, Scans!BeginAnswered, ScanLogins!BeginAnswered,
      Scans!Expire, ScanLogins!Expire, Scans!Poll, ScanLogins!Poll,
      Scans!PollWaits, ScanLogins!PollWaits, Scans!PollReady,
      ScanLogins!PollReady, Scans!Cancel, ScanLogins!Cancel,
      Scans!Claimable, ScanLogins!Claimable, Scans!Reserve,
      ScanLogins!Reserve, Scans!Activates, ScanLogins!Activates,
      Scans!ActivateContribution, ScanLogins!ActivateContribution,
      Scans!CompleteClaim, ScanLogins!CompleteClaim, Scans!CompleteInstall,
      ScanLogins!CompleteInstall, Scans!CompleteFails,
      ScanLogins!CompleteFails, Scans!CompleteActivate,
      ScanLogins!CompleteActivate, Scans!ClaimLooks, ScanLogins!ClaimLooks,
      Scans!ReserveChannel, ScanLogins!ReserveChannel, Scans!SaveChannel,
      ScanLogins!SaveChannel, Scans!ImportActivate,
      ScanLogins!ImportActivate, Scans!QoderPoll, ScanLogins!QoderPoll,
      Scans!QoderCommit, ScanLogins!QoderCommit, Scans!Revoke,
      ScanLogins!Revoke, Scans!Share, ScanLogins!Share, Scans!SetUserStatus,
      ScanLogins!SetUserStatus, Scans!ResetPassword,
      ScanLogins!ResetPassword, Scans!AdminUpload, ScanLogins!AdminUpload,
      Scans!AdminDelete, ScanLogins!AdminDelete, Scans!Next,
      ScanLogins!Next, Scans!SharedByConsent, ScanLogins!SharedByConsent,
      Scans!TasksCapped, ScanLogins!TasksCapped, Scans!SharersLive,
      ScanLogins!SharersLive

LEMMA SameImports ==
    /\ Imports!Init <=> ImportLogins!Init
    /\ Imports!Next <=> ImportLogins!Next
    /\ Imports!SharedByConsent <=> ImportLogins!SharedByConsent
    /\ Imports!TasksCapped <=> ImportLogins!TasksCapped
    /\ Imports!SharersLive <=> ImportLogins!SharersLive
  BY DEF
      Imports!Cardinality, ImportLogins!Cardinality,
      Imports!IsFiniteSet, ImportLogins!IsFiniteSet,
      Imports!Accounts, ImportLogins!Accounts, Imports!Admins,
      ImportLogins!Admins, Imports!vars, ImportLogins!vars, Imports!people,
      ImportLogins!people, Imports!accounts, ImportLogins!accounts,
      Imports!Idle, ImportLogins!Idle, Imports!NoTask, ImportLogins!NoTask,
      Imports!Unowned, ImportLogins!Unowned, Imports!Held,
      ImportLogins!Held, Imports!Gone, ImportLogins!Gone, Imports!Live,
      ImportLogins!Live, Imports!Init, ImportLogins!Init, Imports!Become,
      ImportLogins!Become, Imports!Answer, ImportLogins!Answer,
      Imports!Swept, ImportLogins!Swept, Imports!Room, ImportLogins!Room,
      Imports!Begin, ImportLogins!Begin, Imports!BeginAnswered,
      ImportLogins!BeginAnswered, Imports!Expire, ImportLogins!Expire,
      Imports!Poll, ImportLogins!Poll, Imports!PollWaits,
      ImportLogins!PollWaits, Imports!PollReady, ImportLogins!PollReady,
      Imports!Cancel, ImportLogins!Cancel, Imports!Claimable,
      ImportLogins!Claimable, Imports!Reserve, ImportLogins!Reserve,
      Imports!Activates, ImportLogins!Activates,
      Imports!ActivateContribution, ImportLogins!ActivateContribution,
      Imports!CompleteClaim, ImportLogins!CompleteClaim,
      Imports!CompleteInstall, ImportLogins!CompleteInstall,
      Imports!CompleteFails, ImportLogins!CompleteFails,
      Imports!CompleteActivate, ImportLogins!CompleteActivate,
      Imports!ClaimLooks, ImportLogins!ClaimLooks, Imports!ReserveChannel,
      ImportLogins!ReserveChannel, Imports!SaveChannel,
      ImportLogins!SaveChannel, Imports!ImportActivate,
      ImportLogins!ImportActivate, Imports!QoderPoll,
      ImportLogins!QoderPoll, Imports!QoderCommit, ImportLogins!QoderCommit,
      Imports!Revoke, ImportLogins!Revoke, Imports!Share,
      ImportLogins!Share, Imports!SetUserStatus, ImportLogins!SetUserStatus,
      Imports!ResetPassword, ImportLogins!ResetPassword,
      Imports!AdminUpload, ImportLogins!AdminUpload, Imports!AdminDelete,
      ImportLogins!AdminDelete, Imports!Next, ImportLogins!Next,
      Imports!SharedByConsent, ImportLogins!SharedByConsent,
      Imports!TasksCapped, ImportLogins!TasksCapped, Imports!SharersLive,
      ImportLogins!SharersLive

LEMMA ScansStep ==
    ASSUME ScanLogins!Bounds, part = "scans", ScanLogins!ContributionInv,
           [GatewayNext]_gateway
    PROVE  part' = "scans" /\ ScanLogins!ContributionInv' /\ ScanLogins!SharersLive
<1>1. part' = "scans" /\ (ScanLogins!Next \/ UNCHANGED rest)
  BY SameScans DEF gateway, GatewayNext, PeopleNext, InvitesNext, ScansNext, ImportsNext,
           MediaNext, QuotaNext, ChecksNext, CapacityNext
<1>2. UNCHANGED rest => UNCHANGED ScanLogins!vars
  BY DEF rest, ScanLogins!vars
<1> QED BY <1>1, <1>2, ScanLogins!StepInv, ScanLogins!StepSharers

LEMMA ImportsStep ==
    ASSUME ImportLogins!Bounds, part = "imports", ImportLogins!ContributionInv,
           [GatewayNext]_gateway
    PROVE  part' = "imports" /\ ImportLogins!ContributionInv' /\ ImportLogins!SharersLive
<1>1. part' = "imports" /\ (ImportLogins!Next \/ UNCHANGED rest)
  BY SameImports DEF gateway, GatewayNext, PeopleNext, InvitesNext, ScansNext, ImportsNext,
           MediaNext, QuotaNext, ChecksNext, CapacityNext
<1>2. UNCHANGED rest => UNCHANGED ImportLogins!vars
  BY DEF rest, ImportLogins!vars
<1> QED BY <1>1, <1>2, ImportLogins!StepInv, ImportLogins!StepSharers

\* In the gateway, accounts are shared only by their owner's consent, logins are
\* capped, and no account starts to be shared for a disabled user
\* (completePortalContribution, portalQoderOAuth, ActivateContribution).
THEOREM ConsentHolds == GatewaySpec => SharedByConsent
<1> DEFINE Inv == /\ part = "scans" => ScanLogins!ContributionInv
                  /\ part = "imports" => ImportLogins!ContributionInv
           Shared == /\ part = "scans" => Scans!SharedByConsent /\ Scans!TasksCapped
                     /\ part = "imports" => Imports!SharedByConsent /\ Imports!TasksCapped
           Live == /\ part = "scans" => Scans!SharersLive
                   /\ part = "imports" => Imports!SharersLive
<1>1. ScanLogins!Bounds
  BY GatewayAssumption DEF ScanLogins!Bounds, ScanLogins!IsFiniteSet, IsFiniteSet
<1>2. ImportLogins!Bounds
  <2>1. (CHOOSE t \in Tasks : TRUE) \in Tasks BY GatewayAssumption
  <2> QED
    BY <2>1, GatewayAssumption, FS_Singleton
    DEF ImportLogins!Bounds, ImportLogins!IsFiniteSet, IsFiniteSet
<1>3. GatewayInit => Inv
  BY <1>1, <1>2, ScanLogins!InitInv, ImportLogins!InitInv, SameScans, SameImports
  DEF GatewayInit
<1>4. ASSUME Inv, [GatewayNext]_gateway PROVE Inv' /\ Live
  <2>1. part' = part
    BY <1>4 DEF gateway, GatewayNext, PeopleNext, InvitesNext, ScansNext, ImportsNext,
       MediaNext, QuotaNext, ChecksNext, CapacityNext
  <2>2. CASE part = "scans" BY <1>1, <1>4, <2>1, <2>2, ScansStep, SameScans
  <2>3. CASE part = "imports" BY <1>2, <1>4, <2>1, <2>3, ImportsStep, SameImports
  <2>4. CASE part \notin {"scans", "imports"} BY <2>1, <2>4
  <2> QED BY <2>2, <2>3, <2>4
<1>5. Inv => Shared
  BY <1>1, <1>2, ScanLogins!InvConsent, ImportLogins!InvConsent, SameScans, SameImports
     DEF ScanLogins!ContributionInv, ImportLogins!ContributionInv
<1>6. Inv /\ [GatewayNext]_gateway => Inv' BY <1>4
<1>7. Inv /\ [GatewayNext]_gateway => [Live]_<<x1, x4>> BY <1>4
<1> QED BY <1>3, <1>5, <1>6, <1>7, PTL DEF GatewaySpec, SharedByConsent

-----------------------------------------------------------------------------
\* Account checks, for any number of accounts, callers, slots and changes.  Every
\* caller remembers numbers of credentials: they only grow, so two that are equal
\* stand for the same credentials all the while between them.

CheckBounds == IsFiniteSet(Handlers) /\ Absent \notin Handlers /\ CheckSlots \in Nat

Leading == {"lead", "slot", "probe", "landing"}
CheckRow == [identity : Nat, by : Nat, due : BOOLEAN]
Asking == [at : {"enter", "wait", "answered", "test"} \cup Leading,
           account : Checked, identity : Nat, by : Nat]
Woken == [at : {"woken"}, account : Checked, identity : Nat, for : Nat, by : Nat]

ChecksTyped ==
    /\ changes \in Nat
    /\ cred \in [Checked -> Nat] /\ identity \in [Checked -> Nat]
    /\ \A a \in Checked : cred[a] <= changes + 1 /\ identity[a] \in {0, cred[a]}
    /\ flight \in [Checked -> Handlers \cup {Absent}]
    /\ entry \in [Checked -> CheckRow] /\ tested \in [Checked -> CheckRow]
    /\ caller \in [Handlers -> {Checks!Idle} \cup Asking \cup Woken]

\* What says something of credentials says it of those with its identity.
Speaks(id, by) == id # 0 => by \in {id, 0}

\* Seen no later than now.
Past(a, n) == n <= changes + 1 /\ (cred[a] # 0 => n <= cred[a])

Knows(p) ==
    /\ p.at # "idle" => Past(p.account, p.identity)
    /\ p.at \in {"probe", "test"} =>
        Past(p.account, p.by) /\ (p.by = 0 \/ p.identity <= p.by)
    /\ p.at \in {"enter", "wait", "lead", "slot"} => p.by = 0
    /\ p.at \in {"landing", "answered"} => Speaks(p.identity, p.by)
    /\ p.at = "woken" => Speaks(p.for, p.by)

CallersKnow == \A c \in Handlers : Knows(caller[c])

RowsSpeak ==
    \A a \in Checked : /\ Speaks(entry[a].identity, entry[a].by)
                        /\ Speaks(tested[a].identity, tested[a].by)

Leads(c, a) == caller[c].at \in Leading /\ caller[c].account = a

FlightsLed == \A a \in Checked : \A c \in Handlers : Leads(c, a) <=> flight[a] = c

SlotsHeld == Cardinality(Checks!InSlot) <= CheckSlots

ChecksInv == ChecksTyped /\ CallersKnow /\ RowsSpeak /\ FlightsLed /\ SlotsHeld

-----------------------------------------------------------------------------
\* The instance counts with the library's Cardinality.
LEMMA SameChecks == \A S : Checks!Cardinality(S) = Cardinality(S)
BY DEF Checks!Cardinality, Checks!IsFiniteSet, Cardinality, IsFiniteSet

LEMMA CallersTyped ==
    ASSUME NEW p \in {Checks!Idle} \cup Asking \cup Woken
    PROVE  /\ p.at = "idle" => p = Checks!Idle
           /\ p.at \in {"enter", "wait", "answered", "test"} \cup Leading => p \in Asking
           /\ p.at = "woken" => p \in Woken
           /\ p.at \in {"idle", "woken", "enter", "wait", "answered", "test"} \cup Leading
BY DEF Checks!Idle, Asking, Woken, Leading

\* What a caller knows stays true while credentials change.
LEMMA KnowsStays ==
    ASSUME NEW p \in {Checks!Idle} \cup Asking \cup Woken, Knows(p),
           ChecksTyped, changes' \in Nat, changes <= changes',
           \A a \in Checked : cred'[a] \in {cred[a], changes + 2, 0}
    PROVE  /\ p.at # "idle" => Past(p.account, p.identity)'
           /\ p.at \in {"probe", "test"} =>
                Past(p.account, p.by)' /\ (p.by = 0 \/ p.identity <= p.by)
           /\ p.at \in {"enter", "wait", "lead", "slot"} => p.by = 0
           /\ p.at \in {"landing", "answered"} => Speaks(p.identity, p.by)
           /\ p.at = "woken" => Speaks(p.for, p.by)
<1>1. p.at # "idle" => p.account \in Checked /\ p.identity \in Nat
  BY CallersTyped DEF Asking, Woken
<1>2. p.at \in {"probe", "test"} => p.account \in Checked /\ p.by \in Nat
  BY CallersTyped DEF Asking, Leading
<1> QED BY <1>1, <1>2 DEF Knows, Past, ChecksTyped

\* Slots are counted: one caller more, or none.
LEMMA SlotsStay ==
    ASSUME CheckBounds, SlotsHeld, NEW c \in Handlers,
           \A d \in Handlers \ {c} : caller'[d].at \in {"slot", "probe"}
                => caller[d].at \in {"slot", "probe"},
           caller'[c].at \in {"slot", "probe"}
                => caller[c].at \in {"slot", "probe"} \/ Cardinality(Checks!InSlot) < CheckSlots
    PROVE  SlotsHeld'
<1>1. IsFiniteSet(Checks!InSlot) /\ IsFiniteSet(Checks!InSlot')
  BY FS_Subset DEF CheckBounds, Checks!InSlot
<1>2. Cardinality(Checks!InSlot) \in Nat /\ Cardinality(Checks!InSlot') \in Nat
  BY <1>1, FS_CardinalityType
<1>3. CASE Checks!InSlot' \subseteq Checks!InSlot
  BY <1>1, <1>2, <1>3, FS_Subset DEF SlotsHeld, CheckBounds
<1>4. CASE ~(Checks!InSlot' \subseteq Checks!InSlot)
  <2>1. /\ Checks!InSlot' \subseteq Checks!InSlot \cup {c}
        /\ Cardinality(Checks!InSlot) < CheckSlots
    BY <1>4 DEF Checks!InSlot
  <2>2. IsFiniteSet(Checks!InSlot \cup {c})
        /\ Cardinality(Checks!InSlot \cup {c}) \in
             {Cardinality(Checks!InSlot), Cardinality(Checks!InSlot) + 1}
    BY <1>1, FS_AddElement
  <2>3. Cardinality(Checks!InSlot') <= Cardinality(Checks!InSlot \cup {c})
    BY <2>1, <2>2, FS_Subset
  <2> QED BY <1>2, <2>1, <2>2, <2>3 DEF SlotsHeld, CheckBounds
<1> QED BY <1>3, <1>4

\* One caller moves.
LEMMA CallerMoves ==
    ASSUME CheckBounds, ChecksInv, NEW c \in Handlers,
           NEW q \in {Checks!Idle} \cup Asking \cup Woken,
           Checks!Become(c, q), Knows(q), UNCHANGED Checks!accounts,
           flight' \in [Checked -> Handlers \cup {Absent}],
           entry' \in [Checked -> CheckRow], tested' \in [Checked -> CheckRow], RowsSpeak',
           q.at \in {"slot", "probe"}
                => caller[c].at \in {"slot", "probe"}
                   \/ Cardinality(Checks!InSlot) < CheckSlots,
           \/ /\ flight' = flight
              /\ q.at \in Leading <=> caller[c].at \in Leading
              /\ q.at \in Leading => q.account = caller[c].account
           \/ /\ caller[c].at = "enter" /\ q.at = "lead" /\ q.account \in Checked
              /\ flight[q.account] = Absent /\ flight' = [flight EXCEPT ![q.account] = c]
    PROVE  ChecksInv'
<1>1. ChecksTyped BY DEF ChecksInv
<1>2. /\ caller' \in [Handlers -> {Checks!Idle} \cup Asking \cup Woken] /\ caller'[c] = q
      /\ \A d \in Handlers \ {c} : caller'[d] = caller[d]
  BY <1>1 DEF ChecksTyped, Checks!Become
<1>3. ChecksTyped' BY <1>1, <1>2 DEF ChecksTyped, Checks!accounts
<1>4. CallersKnow' BY <1>1, <1>2 DEF CallersKnow, ChecksInv, Knows, Past, Checks!accounts
<1>5. FlightsLed'
  <2>1. CASE flight' = flight
    <3>1. /\ q.at \in Leading <=> caller[c].at \in Leading
          /\ q.at \in Leading => q.account = caller[c].account
      BY <1>1, <2>1 DEF ChecksTyped, Leading, CheckBounds
    <3> QED BY <1>2, <2>1, <3>1 DEF FlightsLed, Leads, ChecksInv
  <2>2. CASE flight' # flight
    <3>1. /\ caller[c].at = "enter" /\ q.at = "lead" /\ q.account \in Checked
          /\ flight[q.account] = Absent /\ flight' = [flight EXCEPT ![q.account] = c]
      BY <2>2
    <3>2. flight'[q.account] = c
          /\ \A a \in Checked \ {q.account} : flight'[a] = flight[a]
      BY <1>1, <3>1 DEF ChecksTyped
    <3>3. \A a \in Checked : flight[a] # c
      BY <3>1 DEF FlightsLed, Leads, Leading, ChecksInv
    <3>4. ASSUME NEW a \in Checked, NEW d \in Handlers
          PROVE  Leads(d, a)' <=> flight'[a] = d
      <4>1. CASE d = c BY <1>2, <3>1, <3>2, <3>3, <4>1 DEF Leads, Leading
      <4>2. CASE d # c
        <5>1. Leads(d, a)' <=> Leads(d, a) BY <1>2, <4>2 DEF Leads
        <5>2. Leads(d, a) <=> flight[a] = d BY DEF FlightsLed, ChecksInv
        <5> QED BY <3>1, <3>2, <4>2, <5>1, <5>2 DEF CheckBounds
      <4> QED BY <4>1, <4>2
    <3> QED BY <3>4 DEF FlightsLed
  <2> QED BY <2>1, <2>2
<1>6. SlotsHeld' BY <1>2, SlotsStay DEF ChecksInv
<1> QED BY <1>3, <1>4, <1>5, <1>6 DEF ChecksInv

\* One caller moves and nothing else.
LEMMA CallerWorks ==
    ASSUME CheckBounds, ChecksInv, NEW c \in Handlers,
           NEW q \in {Checks!Idle} \cup Asking \cup Woken,
           Checks!Become(c, q), Knows(q), UNCHANGED <<Checks!accounts, flight, entry, tested>>,
           q.at \in {"slot", "probe"}
                => caller[c].at \in {"slot", "probe"}
                   \/ Cardinality(Checks!InSlot) < CheckSlots,
           q.at \in Leading <=> caller[c].at \in Leading,
           q.at \in Leading => q.account = caller[c].account
    PROVE  ChecksInv'
<1>1. RowsSpeak' BY DEF RowsSpeak, ChecksInv
<1> QED BY <1>1, CallerMoves DEF ChecksInv, ChecksTyped

\* Where a caller goes.
LEMMA AtTyped ==
    ASSUME NEW at \in {"enter", "wait", "answered", "test"} \cup Leading,
           NEW a \in Checked, NEW id \in Nat, NEW by \in Nat
    PROVE  /\ Checks!At(at, a, id, by) \in Asking
           /\ Checks!At(at, a, id, by).at = at /\ Checks!At(at, a, id, by).account = a
           /\ Checks!At(at, a, id, by).identity = id /\ Checks!At(at, a, id, by).by = by
BY DEF Checks!At, Asking

LEMMA AtAsked ==
    ASSUME NEW p \in Asking
    PROVE  /\ p = Checks!At(p.at, p.account, p.identity, p.by)
           /\ \A at : [p EXCEPT !.at = at] = Checks!At(at, p.account, p.identity, p.by)
           /\ \A by : [p EXCEPT !.by = by] = Checks!At(p.at, p.account, p.identity, by)
           /\ p.account \in Checked /\ p.identity \in Nat /\ p.by \in Nat
BY DEF Checks!At, Asking

-----------------------------------------------------------------------------
LEMMA EnterInv ==
    ASSUME CheckBounds, ChecksInv, NEW c \in Handlers, NEW a \in Checked, Checks!Enter(c, a)
    PROVE  ChecksInv'
<1> DEFINE q == Checks!At("enter", a, identity[a], 0)
<1>1. /\ ChecksTyped /\ caller[c] = Checks!Idle /\ Checks!Become(c, q)
      /\ UNCHANGED <<Checks!accounts, flight, entry, tested>>
  BY DEF Checks!Enter, ChecksInv, Checks!book
<1>2. identity[a] \in Nat /\ Past(a, identity[a])
  BY <1>1 DEF ChecksTyped, Past
<1>3. q \in Asking /\ q.at = "enter" /\ q.account = a /\ q.identity = identity[a] /\ q.by = 0
  BY <1>2, AtTyped
<1> HIDE DEF q
<1>4. Knows(q) BY <1>2, <1>3 DEF Knows
<1> QED BY <1>1, <1>3, <1>4, CallerWorks DEF Leading, Checks!Idle

LEMMA LookInv ==
    ASSUME CheckBounds, ChecksInv, NEW c \in Handlers,
           NEW force \in BOOLEAN, Checks!Look(c, force)
    PROVE  ChecksInv'
<1> DEFINE p == caller[c]
<1>1. /\ ChecksTyped /\ RowsSpeak /\ p \in Asking /\ p.at = "enter" /\ Knows(p)
      /\ UNCHANGED <<Checks!accounts, entry, tested>>
  BY CallersTyped DEF Checks!Look, ChecksInv, ChecksTyped, CallersKnow
<1>2. p.account \in Checked /\ p.identity \in Nat /\ p.by = 0
      /\ Past(p.account, p.identity)
      /\ \A at : [p EXCEPT !.at = at] = Checks!At(at, p.account, p.identity, 0)
  BY <1>1, AtAsked DEF Knows
<1>3. CASE flight[p.account] # Absent
  <2> DEFINE q == Checks!At("wait", p.account, p.identity, 0)
  <2>1. Checks!Become(c, q) /\ flight' = flight BY <1>2, <1>3 DEF Checks!Look
  <2>2. q \in Asking /\ q.at = "wait" /\ q.account = p.account /\ q.identity = p.identity
        /\ q.by = 0
    BY <1>2, AtTyped
  <2> HIDE DEF q
  <2>3. Knows(q) BY <1>2, <2>2 DEF Knows
  <2> QED BY <1>1, <2>1, <2>2, <2>3, CallerWorks DEF Leading
<1>4. CASE flight[p.account] = Absent /\ ~force /\ entry[p.account].identity = p.identity
           /\ ~entry[p.account].due
  <2> DEFINE q == Checks!At("answered", p.account, p.identity, entry[p.account].by)
  <2>1. Checks!Become(c, q) /\ flight' = flight BY <1>4 DEF Checks!Look
  <2>2. entry[p.account].by \in Nat /\ Speaks(p.identity, entry[p.account].by)
    BY <1>1, <1>2, <1>4 DEF ChecksTyped, CheckRow, RowsSpeak
  <2>3. q \in Asking /\ q.at = "answered" /\ q.account = p.account /\ q.identity = p.identity
        /\ q.by = entry[p.account].by
    BY <1>2, <2>2, AtTyped
  <2> HIDE DEF q
  <2>4. Knows(q) BY <1>2, <2>2, <2>3 DEF Knows
  <2> QED BY <1>1, <2>1, <2>3, <2>4, CallerWorks DEF Leading
<1>5. CASE flight[p.account] = Absent
           /\ ~(~force /\ entry[p.account].identity = p.identity /\ ~entry[p.account].due)
  <2> DEFINE q == Checks!At("lead", p.account, p.identity, 0)
  <2>1. Checks!Become(c, q) /\ flight' = [flight EXCEPT ![p.account] = c]
    BY <1>2, <1>5 DEF Checks!Look
  <2>2. q \in Asking /\ q.at = "lead" /\ q.account = p.account /\ q.identity = p.identity
        /\ q.by = 0
    BY <1>2, AtTyped DEF Leading
  <2> HIDE DEF q
  <2>3. Knows(q) BY <1>2, <2>2 DEF Knows
  <2>4. flight' \in [Checked -> Handlers \cup {Absent}] BY <1>1, <2>1 DEF ChecksTyped
  <2>5. entry' \in [Checked -> CheckRow] /\ tested' \in [Checked -> CheckRow] /\ RowsSpeak'
    BY <1>1 DEF ChecksTyped, RowsSpeak
  <2> QED BY <1>1, <1>2, <1>5, <2>1, <2>2, <2>3, <2>4, <2>5, CallerMoves
<1> QED BY <1>3, <1>4, <1>5

LEMMA TakeSlotInv ==
    ASSUME CheckBounds, ChecksInv, NEW c \in Handlers, Checks!TakeSlot(c)
    PROVE  ChecksInv'
<1> DEFINE p == caller[c]
           q == Checks!At("slot", p.account, p.identity, 0)
<1>1. /\ ChecksTyped /\ p \in Asking /\ p.at = "lead" /\ Knows(p)
      /\ UNCHANGED <<Checks!accounts, flight, entry, tested>>
      /\ Cardinality(Checks!InSlot) < CheckSlots
  BY CallersTyped, SameChecks
  DEF Checks!TakeSlot, ChecksInv, ChecksTyped, CallersKnow, Checks!book, Leading
<1>2. p.account \in Checked /\ p.identity \in Nat /\ p.by = 0
      /\ Past(p.account, p.identity) /\ Checks!Become(c, q)
  BY <1>1, AtAsked DEF Knows, Checks!TakeSlot
<1>3. q \in Asking /\ q.at = "slot" /\ q.account = p.account /\ q.identity = p.identity
      /\ q.by = 0
  BY <1>2, AtTyped DEF Leading
<1> HIDE DEF q
<1>4. Knows(q) BY <1>2, <1>3 DEF Knows
<1> QED BY <1>1, <1>2, <1>3, <1>4, CallerWorks DEF Leading

LEMMA ProbeInv ==
    ASSUME CheckBounds, ChecksInv, NEW c \in Handlers, Checks!Probe(c)
    PROVE  ChecksInv'
<1> DEFINE p == caller[c]
<1>1. /\ ChecksTyped /\ p \in Asking /\ p.at = "slot" /\ Knows(p)
      /\ UNCHANGED <<Checks!accounts, flight, entry, tested>>
  BY CallersTyped DEF Checks!Probe, ChecksInv, ChecksTyped, CallersKnow, Checks!book, Leading
<1>2. PICK at \in {"landing", "probe"} : Checks!Become(c, [p EXCEPT !.at = at])
  BY DEF Checks!Probe
<1> DEFINE q == Checks!At(at, p.account, p.identity, 0)
<1>3. p.account \in Checked /\ p.identity \in Nat /\ p.by = 0
      /\ Past(p.account, p.identity) /\ Checks!Become(c, q)
  BY <1>1, <1>2, AtAsked DEF Knows
<1>4. q \in Asking /\ q.at = at /\ q.account = p.account /\ q.identity = p.identity
      /\ q.by = 0
  BY <1>3, AtTyped DEF Leading
<1> HIDE DEF q
<1>5. Past(p.account, 0) BY <1>1, <1>3 DEF Past, ChecksTyped
<1>6. Knows(q) BY <1>3, <1>4, <1>5 DEF Knows, Speaks
<1> QED BY <1>1, <1>3, <1>4, <1>6, CallerWorks DEF Leading

\* What is tried is no older than the identity that was read.
LEMMA Tried ==
    ASSUME ChecksTyped, NEW a \in Checked, NEW id \in Nat, Past(a, id)
    PROVE  cred[a] \in Nat /\ Past(a, cred[a]) /\ (cred[a] = 0 \/ id <= cred[a])
BY DEF ChecksTyped, Past

LEMMA TryInv ==
    ASSUME CheckBounds, ChecksInv, NEW c \in Handlers, Checks!Try(c)
    PROVE  ChecksInv'
<1> DEFINE p == caller[c]
           q == Checks!At("probe", p.account, p.identity, cred[p.account])
<1>1. /\ ChecksTyped /\ p \in Asking /\ p.at = "probe" /\ Knows(p)
      /\ UNCHANGED <<Checks!accounts, flight, entry, tested>>
  BY CallersTyped DEF Checks!Try, ChecksInv, ChecksTyped, CallersKnow, Checks!book, Leading
<1>2. p.account \in Checked /\ p.identity \in Nat
      /\ Past(p.account, p.identity) /\ Checks!Become(c, q)
  BY <1>1, AtAsked DEF Knows, Checks!Try
<1>3. cred[p.account] \in Nat /\ Past(p.account, cred[p.account])
      /\ (cred[p.account] = 0 \/ p.identity <= cred[p.account])
  BY <1>1, <1>2, Tried
<1>4. q \in Asking /\ q.at = "probe" /\ q.account = p.account /\ q.identity = p.identity
      /\ q.by = cred[p.account]
  BY <1>2, <1>3, AtTyped DEF Leading
<1> HIDE DEF q
<1>5. Knows(q) BY <1>2, <1>3, <1>4 DEF Knows
<1> QED BY <1>1, <1>2, <1>4, <1>5, CallerWorks DEF Leading

\* The identity is the one that was read: what was tried in between is the same.
LEMMA StillSpeaks ==
    ASSUME ChecksTyped, NEW a \in Checked, NEW id \in Nat, NEW by \in Nat,
           Past(a, by), by = 0 \/ id <= by, Checks!StillFits(id, a)
    PROVE  Speaks(id, by)
BY DEF ChecksTyped, Past, Checks!StillFits, Speaks

LEMMA PublishInv ==
    ASSUME CheckBounds, ChecksInv, NEW c \in Handlers, Checks!Publish(c)
    PROVE  ChecksInv'
<1> DEFINE p == caller[c]
<1>1. /\ ChecksTyped /\ RowsSpeak /\ p \in Asking /\ p.at = "probe" /\ Knows(p)
      /\ UNCHANGED <<Checks!accounts, flight, tested>>
  BY CallersTyped DEF Checks!Publish, ChecksInv, ChecksTyped, CallersKnow, Leading
<1>2. p.account \in Checked /\ p.identity \in Nat /\ p.by \in Nat
      /\ Past(p.account, p.identity) /\ Past(p.account, p.by)
      /\ (p.by = 0 \/ p.identity <= p.by)
  BY <1>1, AtAsked DEF Knows
<1>3. PICK by \in {p.by, 0} :
        /\ Checks!Become(c, Checks!At("landing", p.account, p.identity, by))
        /\ \/ by = 0 /\ entry' = entry
           \/ /\ Checks!StillFits(p.identity, p.account)
              /\ entry' = [entry EXCEPT ![p.account] =
                              [identity |-> p.identity, by |-> by, due |-> FALSE]]
  BY DEF Checks!Publish
<1> DEFINE q == Checks!At("landing", p.account, p.identity, by)
           r == [identity |-> p.identity, by |-> by, due |-> FALSE]
<1>4. Speaks(p.identity, by)
  BY <1>1, <1>2, <1>3, StillSpeaks DEF Speaks
<1>5. q \in Asking /\ q.at = "landing" /\ q.account = p.account /\ q.identity = p.identity
      /\ q.by = by
  BY <1>2, AtTyped DEF Leading
<1>6. r \in CheckRow /\ r.identity = p.identity /\ r.by = by BY <1>2 DEF CheckRow
<1>7. entry' = entry \/ entry' = [entry EXCEPT ![p.account] = r] BY <1>3
<1>8. Checks!Become(c, q) BY <1>3
<1> HIDE DEF q, r
<1>9. entry' \in [Checked -> CheckRow] /\ tested' \in [Checked -> CheckRow] /\ RowsSpeak'
  BY <1>1, <1>2, <1>4, <1>6, <1>7 DEF ChecksTyped, RowsSpeak
<1>10. Knows(q) BY <1>2, <1>4, <1>5 DEF Knows
<1>11. flight' \in [Checked -> Handlers \cup {Absent}] BY <1>1 DEF ChecksTyped
<1> QED BY <1>1, <1>5, <1>8, <1>9, <1>10, <1>11, CallerMoves DEF Leading

LEMMA LandInv ==
    ASSUME CheckBounds, ChecksInv, NEW c \in Handlers, Checks!Land(c)
    PROVE  ChecksInv'
<1> DEFINE p == caller[c]
           done == Checks!At("answered", p.account, p.identity, p.by)
           Told(d) == [at |-> "woken", account |-> p.account,
                       identity |-> caller[d].identity, for |-> p.identity, by |-> p.by]
<1>1. /\ ChecksTyped /\ p \in Asking /\ p.at = "landing" /\ Knows(p)
      /\ flight' = [flight EXCEPT ![p.account] = Absent]
      /\ UNCHANGED <<Checks!accounts, entry, tested>>
  BY CallersTyped DEF Checks!Land, ChecksInv, ChecksTyped, CallersKnow, Leading
<1>2. p.account \in Checked /\ p.identity \in Nat /\ p.by \in Nat
      /\ Past(p.account, p.identity) /\ Speaks(p.identity, p.by)
      /\ [p EXCEPT !.at = "answered"] = done
  BY <1>1, AtAsked DEF Knows
<1>3. done \in Asking /\ done.at = "answered" /\ done.account = p.account
      /\ done.identity = p.identity /\ done.by = p.by
  BY <1>2, AtTyped DEF Leading
<1>4. /\ DOMAIN caller' = Handlers /\ caller' = [d \in Handlers |-> caller'[d]]
      /\ caller'[c] = done
      /\ \A d \in Handlers \ {c} :
            \/ caller'[d] = caller[d]
            \/ caller[d].at = "wait" /\ caller[d].account = p.account /\ caller'[d] = Told(d)
  BY <1>1, <1>2 DEF Checks!Land
<1>5. ASSUME NEW d \in Handlers, caller[d].at = "wait", caller[d].account = p.account
      PROVE  /\ Told(d) \in Woken /\ Told(d).at = "woken" /\ Told(d).account = p.account
             /\ Told(d).for = p.identity /\ Told(d).by = p.by
             /\ Told(d).identity = caller[d].identity
             /\ Past(p.account, caller[d].identity)
  <2>1. caller[d] \in Asking /\ Knows(caller[d])
    BY <1>1, <1>5, CallersTyped DEF ChecksTyped, ChecksInv, CallersKnow
  <2> QED BY <1>2, <1>5, <2>1, AtAsked DEF Woken, Knows
<1> HIDE DEF done, Told
<1>6. ASSUME NEW d \in Handlers
      PROVE  /\ caller'[d] \in {Checks!Idle} \cup Asking \cup Woken
             /\ Knows(caller[d])'
             /\ caller'[d].at \in Leading => caller[d].at \in Leading /\ d # c
                                            /\ caller'[d] = caller[d]
             /\ caller[d].at \in Leading /\ d # c => caller'[d] = caller[d]
  <2>1. caller[d] \in {Checks!Idle} \cup Asking \cup Woken /\ Knows(caller[d])
    BY <1>1 DEF ChecksTyped, ChecksInv, CallersKnow
  <2>2. CASE d = c
    BY <1>1, <1>2, <1>3, <1>4, <2>2 DEF Knows, Past, Checks!accounts, Leading
  <2>3. CASE d # c /\ caller'[d] = caller[d]
    BY <1>1, <2>1, <2>3 DEF Knows, Past, Checks!accounts
  <2>4. CASE d # c /\ caller[d].at = "wait" /\ caller[d].account = p.account
             /\ caller'[d] = Told(d)
    BY <1>1, <1>2, <1>5, <2>4 DEF Knows, Past, Checks!accounts, Leading
  <2> QED BY <1>4, <2>2, <2>3, <2>4
<1>7. caller' \in [Handlers -> {Checks!Idle} \cup Asking \cup Woken] BY <1>4, <1>6
<1>8. ChecksTyped' BY <1>1, <1>7 DEF ChecksTyped, Checks!accounts
<1>9. CallersKnow' /\ RowsSpeak' BY <1>1, <1>6 DEF CallersKnow, RowsSpeak, ChecksInv
<1>10. FlightsLed'
  <2>1. \A a \in Checked \ {p.account} : flight'[a] = flight[a] BY <1>1 DEF ChecksTyped
  <2>2. flight'[p.account] = Absent BY <1>1, <1>2 DEF ChecksTyped
  <2>3. \A a \in Checked : \A d \in Handlers : Leads(d, a) <=> flight[a] = d
    BY DEF ChecksInv, FlightsLed
  <2>4. flight[p.account] = c BY <1>1, <1>2, <2>3 DEF Leads, Leading
  <2>5. ASSUME NEW a \in Checked, NEW d \in Handlers
        PROVE  Leads(d, a)' <=> flight'[a] = d
    <3>1. Leads(d, a)' <=> Leads(d, a) /\ d # c BY <1>6 DEF Leads
    <3>2. CASE a = p.account BY <2>2, <2>3, <2>4, <3>1, <3>2 DEF CheckBounds
    <3>3. CASE a # p.account
      <4>1. Leads(d, a) => d # c BY <1>1, <3>3 DEF Leads
      <4> QED BY <2>1, <2>3, <3>1, <3>3, <4>1
    <3> QED BY <3>2, <3>3
  <2> QED BY <2>5 DEF FlightsLed
<1>11. SlotsHeld'
  <2>1. \A d \in Handlers :
          caller'[d].at \in {"slot", "probe"} => caller[d].at \in {"slot", "probe"}
    BY <1>6 DEF Leading
  <2> QED BY <2>1, SlotsStay DEF ChecksInv
<1> QED BY <1>8, <1>9, <1>10, <1>11 DEF ChecksInv

LEMMA WakeInv ==
    ASSUME CheckBounds, ChecksInv, NEW c \in Handlers, Checks!Wake(c)
    PROVE  ChecksInv'
<1> DEFINE p == caller[c]
           by == IF Checks!Joins(p) THEN p.by ELSE 0
           q == Checks!At("answered", p.account, p.identity, by)
<1>1. /\ ChecksTyped /\ p \in Woken /\ p.at = "woken" /\ Knows(p) /\ Checks!Become(c, q)
      /\ UNCHANGED <<Checks!accounts, flight, entry, tested>>
  BY CallersTyped DEF Checks!Wake, ChecksInv, ChecksTyped, CallersKnow, Checks!book
<1>2. p.account \in Checked /\ p.identity \in Nat /\ by \in Nat
      /\ Past(p.account, p.identity) /\ Speaks(p.identity, by)
  BY <1>1 DEF Knows, Woken, Checks!Joins, Speaks
<1> HIDE DEF by
<1>3. q \in Asking /\ q.at = "answered" /\ q.account = p.account /\ q.identity = p.identity
      /\ q.by = by
  BY <1>2, AtTyped DEF Leading
<1> HIDE DEF q
<1>4. Knows(q) BY <1>2, <1>3 DEF Knows
<1> QED BY <1>1, <1>3, <1>4, CallerWorks DEF Leading

LEMMA LeaveCheckInv ==
    ASSUME CheckBounds, ChecksInv, NEW c \in Handlers, Checks!Leave(c)
    PROVE  ChecksInv'
<1> DEFINE p == caller[c]
<1>1. /\ ChecksTyped /\ p \in Asking /\ p.at \in {"wait", "lead", "probe"} /\ Knows(p)
      /\ UNCHANGED <<Checks!accounts, flight, entry, tested>>
  BY CallersTyped DEF Checks!Leave, ChecksInv, ChecksTyped, CallersKnow, Checks!book, Leading
<1>2. PICK at \in {"answered", "landing"} :
        /\ Checks!Become(c, Checks!At(at, p.account, p.identity, 0))
        /\ at = "landing" <=> p.at # "wait"
  BY <1>1, AtAsked DEF Checks!Leave, Knows
<1> DEFINE q == Checks!At(at, p.account, p.identity, 0)
<1>3. p.account \in Checked /\ p.identity \in Nat
      /\ Past(p.account, p.identity) /\ Checks!Become(c, q)
  BY <1>1, <1>2, AtAsked DEF Knows
<1>4. q \in Asking /\ q.at = at /\ q.account = p.account /\ q.identity = p.identity
      /\ q.by = 0
  BY <1>3, AtTyped DEF Leading
<1> HIDE DEF q
<1>5. Knows(q) BY <1>3, <1>4 DEF Knows, Speaks
<1> QED BY <1>1, <1>2, <1>3, <1>4, <1>5, CallerWorks DEF Leading

LEMMA AgainInv ==
    ASSUME CheckBounds, ChecksInv, NEW c \in Handlers, Checks!Again(c)
    PROVE  ChecksInv'
<1>1. /\ caller[c].at = "answered" /\ Checks!Become(c, Checks!Idle)
      /\ UNCHANGED <<Checks!accounts, flight, entry, tested>>
  BY DEF Checks!Again, Checks!book
<1>2. /\ Checks!Idle \in {Checks!Idle} \cup Asking \cup Woken
      /\ Checks!Idle.at = "idle" /\ Knows(Checks!Idle)
  BY DEF Checks!Idle, Knows
<1> QED BY <1>1, <1>2, CallerWorks DEF Leading

LEMMA TestInv ==
    ASSUME CheckBounds, ChecksInv, NEW c \in Handlers, NEW a \in Checked, Checks!Test(c, a)
    PROVE  ChecksInv'
<1> DEFINE q == Checks!At("test", a, identity[a], 0)
<1>1. /\ ChecksTyped /\ caller[c] = Checks!Idle /\ Checks!Become(c, q)
      /\ UNCHANGED <<Checks!accounts, flight, entry, tested>>
  BY DEF Checks!Test, ChecksInv
<1>2. identity[a] \in Nat /\ Past(a, identity[a]) /\ Past(a, 0)
  BY <1>1 DEF ChecksTyped, Past
<1>3. q \in Asking /\ q.at = "test" /\ q.account = a /\ q.identity = identity[a] /\ q.by = 0
  BY <1>2, AtTyped
<1> HIDE DEF q
<1>4. Knows(q) BY <1>2, <1>3 DEF Knows
<1> QED BY <1>1, <1>3, <1>4, CallerWorks DEF Leading, Checks!Idle

LEMMA TestSendInv ==
    ASSUME CheckBounds, ChecksInv, NEW c \in Handlers, Checks!TestSend(c)
    PROVE  ChecksInv'
<1> DEFINE p == caller[c]
           q == Checks!At("test", p.account, p.identity, cred[p.account])
<1>1. /\ ChecksTyped /\ p \in Asking /\ p.at = "test" /\ Knows(p)
      /\ UNCHANGED <<Checks!accounts, flight, entry, tested>>
  BY CallersTyped DEF Checks!TestSend, ChecksInv, ChecksTyped, CallersKnow, Checks!book, Leading
<1>2. p.account \in Checked /\ p.identity \in Nat
      /\ Past(p.account, p.identity) /\ Checks!Become(c, q)
  BY <1>1, AtAsked DEF Knows, Checks!TestSend
<1>3. cred[p.account] \in Nat /\ Past(p.account, cred[p.account])
      /\ (cred[p.account] = 0 \/ p.identity <= cred[p.account])
  BY <1>1, <1>2, Tried
<1>4. q \in Asking /\ q.at = "test" /\ q.account = p.account /\ q.identity = p.identity
      /\ q.by = cred[p.account]
  BY <1>2, <1>3, AtTyped DEF Leading
<1> HIDE DEF q
<1>5. Knows(q) BY <1>2, <1>3, <1>4 DEF Knows
<1> QED BY <1>1, <1>2, <1>4, <1>5, CallerWorks DEF Leading

LEMMA TestDoneInv ==
    ASSUME CheckBounds, ChecksInv, NEW c \in Handlers, Checks!TestDone(c)
    PROVE  ChecksInv'
<1> DEFINE p == caller[c]
<1>1. /\ ChecksTyped /\ RowsSpeak /\ p \in Asking /\ p.at = "test" /\ Knows(p)
      /\ UNCHANGED <<Checks!accounts, flight, entry>>
  BY CallersTyped DEF Checks!TestDone, ChecksInv, ChecksTyped, CallersKnow, Leading
<1>2. p.account \in Checked /\ p.identity \in Nat /\ p.by \in Nat
      /\ Past(p.account, p.identity) /\ Past(p.account, p.by)
      /\ (p.by = 0 \/ p.identity <= p.by)
  BY <1>1, AtAsked DEF Knows
<1>3. PICK by \in {p.by, 0} :
        /\ Checks!Become(c, Checks!At("answered", p.account, p.identity, by))
        /\ \/ by = 0 /\ tested' = tested
           \/ /\ Checks!StillFits(p.identity, p.account)
              /\ tested' = [tested EXCEPT ![p.account] =
                              [identity |-> p.identity, by |-> by, due |-> FALSE]]
  BY DEF Checks!TestDone
<1> DEFINE q == Checks!At("answered", p.account, p.identity, by)
           r == [identity |-> p.identity, by |-> by, due |-> FALSE]
<1>4. Speaks(p.identity, by)
  BY <1>1, <1>2, <1>3, StillSpeaks DEF Speaks
<1>5. q \in Asking /\ q.at = "answered" /\ q.account = p.account /\ q.identity = p.identity
      /\ q.by = by
  BY <1>2, AtTyped
<1>6. r \in CheckRow /\ r.identity = p.identity /\ r.by = by BY <1>2 DEF CheckRow
<1>7. tested' = tested \/ tested' = [tested EXCEPT ![p.account] = r] BY <1>3
<1>8. Checks!Become(c, q) BY <1>3
<1> HIDE DEF q, r
<1>9. entry' \in [Checked -> CheckRow] /\ tested' \in [Checked -> CheckRow] /\ RowsSpeak'
  BY <1>1, <1>2, <1>4, <1>6, <1>7 DEF ChecksTyped, RowsSpeak
<1>10. Knows(q) BY <1>2, <1>4, <1>5 DEF Knows
<1>11. flight' \in [Checked -> Handlers \cup {Absent}] BY <1>1 DEF ChecksTyped
<1> QED BY <1>1, <1>5, <1>8, <1>9, <1>10, <1>11, CallerMoves DEF Leading

\* What no caller does.
LEMMA OthersInv ==
    ASSUME CheckBounds, ChecksInv, UNCHANGED <<flight, caller>>,
           changes' \in Nat, changes <= changes',
           cred' \in [Checked -> Nat], identity' \in [Checked -> Nat],
           \A a \in Checked : /\ cred'[a] \in {cred[a], changes + 2, 0}
                               /\ cred'[a] <= changes' + 1 /\ identity'[a] \in {0, cred'[a]},
           entry' \in [Checked -> CheckRow], tested' \in [Checked -> CheckRow], RowsSpeak'
    PROVE  ChecksInv'
<1>1. ChecksTyped' BY DEF ChecksInv, ChecksTyped
<1>2. CallersKnow'
  <2> SUFFICES ASSUME NEW c \in Handlers PROVE Knows(caller[c])'
    BY DEF CallersKnow
  <2>1. /\ caller'[c] = caller[c]
        /\ caller[c] \in {Checks!Idle} \cup Asking \cup Woken /\ Knows(caller[c])
    BY DEF ChecksInv, ChecksTyped, CallersKnow
  <2> QED BY <2>1, KnowsStays DEF ChecksInv, Knows
<1>3. FlightsLed' BY DEF ChecksInv, FlightsLed, Leads
<1>4. SlotsHeld' BY DEF ChecksInv, SlotsHeld, Checks!InSlot
<1> QED BY <1>1, <1>2, <1>3, <1>4 DEF ChecksInv

LEMMA ChangeInv ==
    ASSUME CheckBounds, ChecksInv, NEW a \in Checked, Checks!Change(a) \/ Checks!Renewing(a)
    PROVE  ChecksInv'
<1>1. ChecksTyped /\ UNCHANGED <<flight, entry, tested, caller>> /\ RowsSpeak'
  BY DEF Checks!Change, Checks!Renewing, ChecksInv, Checks!book, RowsSpeak
<1>2. CASE Checks!Change(a)
  <2>1. PICK new \in {changes + 2, 0} :
          cred' = [cred EXCEPT ![a] = new] /\ identity' = [identity EXCEPT ![a] = new]
    BY <1>2 DEF Checks!Change
  <2>2. changes' = changes + 1 BY <1>2 DEF Checks!Change
  <2>3. /\ cred' \in [Checked -> Nat] /\ identity' \in [Checked -> Nat]
        /\ \A b \in Checked : /\ cred'[b] \in {cred[b], changes + 2, 0}
                               /\ cred'[b] <= changes' + 1 /\ identity'[b] \in {0, cred'[b]}
    BY <1>1, <2>1, <2>2 DEF ChecksTyped
  <2> QED BY <1>1, <2>2, <2>3, OthersInv DEF ChecksTyped
<1>3. CASE Checks!Renewing(a)
  <2>1. /\ cred' = cred /\ changes' = changes
        /\ identity' = [identity EXCEPT ![a] = IF @ = 0 THEN cred[a] ELSE 0]
    BY <1>3 DEF Checks!Renewing
  <2>2. /\ identity' \in [Checked -> Nat]
        /\ \A b \in Checked : identity'[b] \in {0, cred[b]}
    BY <1>1, <2>1 DEF ChecksTyped
  <2> QED BY <1>1, <2>1, <2>2, OthersInv DEF ChecksTyped
<1> QED BY <1>2, <1>3

LEMMA RowsInv ==
    ASSUME CheckBounds, ChecksInv, NEW a \in Checked, Checks!Due(a) \/ Checks!Prune(a)
    PROVE  ChecksInv'
<1>1. ChecksTyped /\ RowsSpeak /\ UNCHANGED <<Checks!accounts, flight, caller>>
  BY DEF Checks!Due, Checks!Prune, ChecksInv
<1>2. entry' \in [Checked -> CheckRow] /\ tested' \in [Checked -> CheckRow] /\ RowsSpeak'
  <2>1. CASE Checks!Due(a)
    <3>1. entry' = [entry EXCEPT ![a] = [entry[a] EXCEPT !.due = TRUE]] /\ tested' = tested
      BY <2>1 DEF Checks!Due
    <3>2. /\ [entry[a] EXCEPT !.due = TRUE] \in CheckRow
          /\ [entry[a] EXCEPT !.due = TRUE].identity = entry[a].identity
          /\ [entry[a] EXCEPT !.due = TRUE].by = entry[a].by
      BY <1>1 DEF ChecksTyped, CheckRow
    <3> QED BY <1>1, <3>1, <3>2 DEF ChecksTyped, RowsSpeak
  <2>2. CASE Checks!Prune(a)
    <3>1. /\ entry' = [entry EXCEPT ![a] = Checks!NoEntry]
          /\ tested' = [tested EXCEPT ![a] = Checks!NoEntry]
      BY <2>2 DEF Checks!Prune
    <3>2. Checks!NoEntry \in CheckRow /\ Speaks(Checks!NoEntry.identity, Checks!NoEntry.by)
      BY DEF Checks!NoEntry, CheckRow, Speaks
    <3> QED BY <1>1, <3>1, <3>2 DEF ChecksTyped, RowsSpeak
  <2> QED BY <2>1, <2>2
<1> QED BY <1>1, <1>2, OthersInv DEF ChecksTyped, Checks!accounts

LEMMA ChecksInit ==
    ASSUME CheckBounds, Checks!Init
    PROVE  ChecksInv
<1>1. Checks!NoEntry \in CheckRow /\ Checks!NoEntry.identity = 0 BY DEF Checks!NoEntry, CheckRow
<1>2. ChecksTyped BY <1>1 DEF Checks!Init, ChecksTyped
<1>3. Checks!Idle.at = "idle" BY DEF Checks!Idle
<1>4. CallersKnow /\ RowsSpeak /\ FlightsLed
  BY <1>1, <1>3 DEF Checks!Init, CallersKnow, Knows, RowsSpeak, Speaks,
         FlightsLed, Leads, Leading, CheckBounds
<1>5. SlotsHeld
  <2>1. Checks!InSlot = {} BY <1>3 DEF Checks!Init, Checks!InSlot
  <2> QED BY <2>1, FS_EmptySet DEF SlotsHeld, CheckBounds
<1> QED BY <1>2, <1>4, <1>5 DEF ChecksInv

LEMMA ChecksStep ==
    ASSUME CheckBounds, ChecksInv, [Checks!Next]_(Checks!vars)
    PROVE  ChecksInv'
<1>1. ASSUME NEW c \in Handlers, NEW a \in Checked, Checks!Enter(c, a) \/ Checks!Test(c, a)
      PROVE ChecksInv'
  BY <1>1, EnterInv, TestInv
<1>2. ASSUME NEW c \in Handlers, NEW force \in BOOLEAN, Checks!Look(c, force) PROVE ChecksInv'
  BY <1>2, LookInv
<1>3. ASSUME NEW c \in Handlers,
             \/ Checks!TakeSlot(c) \/ Checks!Probe(c) \/ Checks!Try(c)
             \/ Checks!Publish(c) \/ Checks!Land(c) \/ Checks!Wake(c)
             \/ Checks!Leave(c) \/ Checks!Again(c) \/ Checks!TestSend(c) \/ Checks!TestDone(c)
      PROVE  ChecksInv'
  BY <1>3, TakeSlotInv, ProbeInv, TryInv, PublishInv, LandInv, WakeInv, LeaveCheckInv, AgainInv,
     TestSendInv, TestDoneInv
<1>4. ASSUME NEW a \in Checked,
             Checks!Change(a) \/ Checks!Renewing(a) \/ Checks!Due(a) \/ Checks!Prune(a)
      PROVE ChecksInv'
  BY <1>4, ChangeInv, RowsInv
<1>5. CASE UNCHANGED Checks!vars
  <2>1. UNCHANGED <<flight, caller, changes, cred, identity, entry, tested>>
    BY <1>5 DEF Checks!vars
  <2>2. RowsSpeak' BY <2>1 DEF ChecksInv, RowsSpeak
  <2> QED BY <2>1, <2>2, OthersInv DEF ChecksInv, ChecksTyped
<1> QED BY <1>1, <1>2, <1>3, <1>4, <1>5 DEF Checks!Next

LEMMA InvChecks ==
    ASSUME CheckBounds, ChecksInv
    PROVE  Checks!ChecksFit /\ Checks!ChecksBounded
<1>1. Checks!ChecksFit
  <2>1. ASSUME NEW a \in Checked, NEW e \in {entry[a], tested[a]},
               identity[a] # 0, e.identity = identity[a]
        PROVE  e.by \in {identity[a], 0}
    BY <2>1 DEF ChecksInv, RowsSpeak, Speaks
  <2>2. ASSUME NEW c \in Handlers, caller[c].at = "answered", caller[c].identity # 0
        PROVE  caller[c].by \in {caller[c].identity, 0}
    BY <2>2 DEF ChecksInv, CallersKnow, Knows, Speaks
  <2> QED BY <2>1, <2>2 DEF Checks!ChecksFit
<1>2. ASSUME NEW a \in Checked PROVE Cardinality(Checks!Probing(a)) <= 1
  <2>1. Checks!Probing(a) \subseteq {flight[a]}
    BY DEF Checks!Probing, ChecksInv, FlightsLed, Leads, Leading
  <2>2. Cardinality({flight[a]}) = 1 /\ IsFiniteSet({flight[a]}) BY FS_Singleton
  <2>3. Cardinality(Checks!Probing(a)) <= Cardinality({flight[a]}) BY <2>1, <2>2, FS_Subset
  <2> QED BY <2>2, <2>3
<1>3. ASSUME NEW a \in Checked, flight[a] # Absent
      PROVE  /\ caller[flight[a]].at \in {"lead", "slot", "probe", "landing"}
             /\ caller[flight[a]].account = a
  <2>1. flight[a] \in Handlers BY <1>3 DEF ChecksInv, ChecksTyped
  <2> QED BY <2>1 DEF ChecksInv, FlightsLed, Leads, Leading
<1> QED BY <1>1, <1>2, <1>3, SameChecks DEF Checks!ChecksBounded, ChecksInv, SlotsHeld

\* In the gateway, a check or a test speaks only of the credentials it was made
\* with, an account is checked once at a time, in one of the slots, and every
\* flight has the leader that lands it (accountCheckBook.run, saveTest).
THEOREM ChecksHold == GatewaySpec => []ChecksFit
<1> DEFINE Safe == part = "checks" => ChecksInv
<1>0. CheckBounds BY GatewayAssumption DEF CheckBounds
<1>1. GatewayInit => Safe BY <1>0, ChecksInit DEF GatewayInit
<1>2. Safe /\ [GatewayNext]_gateway => Safe'
  <2> SUFFICES ASSUME Safe, [GatewayNext]_gateway, part' = "checks"
               PROVE  ChecksInv'
    OBVIOUS
  <2>1. part = "checks" /\ (Checks!Next \/ UNCHANGED checking)
    BY DEF gateway, GatewayNext, PeopleNext, InvitesNext, ScansNext, ImportsNext,
           MediaNext, QuotaNext, ChecksNext, CapacityNext
  <2>2. UNCHANGED checking => UNCHANGED Checks!vars BY DEF checking, Checks!vars
  <2> QED BY <1>0, <2>1, <2>2, ChecksStep
<1>3. Safe => ChecksFit BY <1>0, InvChecks DEF ChecksFit
<1> QED BY <1>1, <1>2, <1>3, PTL DEF GatewaySpec

-----------------------------------------------------------------------------
\* Sums.  What a function says altogether is the number of its units, so that it
\* is counted as sets are.

Units(f) == UNION {{x} \X (1..f[x]) : x \in DOMAIN f}
Total(f) == Cardinality(Units(f))

\* The instances count with the library's Cardinality.
LEMMA SameTotals ==
    /\ \A f : Ledger!Total(f) = Total(f) /\ Guard!Total(f) = Total(f)
    /\ \A S : Ledger!Cardinality(S) = Cardinality(S) /\ Guard!Cardinality(S) = Cardinality(S)
BY DEF Ledger!Total, Ledger!Units, Guard!Total, Guard!Units, Total, Units,
       Ledger!Cardinality, Ledger!IsFiniteSet, Guard!Cardinality, Guard!IsFiniteSet,
       Cardinality, IsFiniteSet

LEMMA UnitsCounted ==
    ASSUME NEW S, IsFiniteSet(S), NEW m \in Nat, NEW f \in [S -> 0..m]
    PROVE  IsFiniteSet(Units(f)) /\ Total(f) \in Nat
<1>1. Units(f) \subseteq S \X (1..m) BY DEF Units
<1>2. IsFiniteSet(S \X (1..m))
  <2>1. IsFiniteSet(1..m) BY FS_Interval
  <2> QED BY <2>1, FS_Product
<1>3. IsFiniteSet(Units(f)) BY <1>1, <1>2, FS_Subset
<1> QED BY <1>3, FS_CardinalityType DEF Total

\* A sum is that of any part of it and that of the rest.
LEMMA TotalSplit ==
    ASSUME NEW S, IsFiniteSet(S), NEW m \in Nat, NEW f \in [S -> 0..m], NEW A \in SUBSET S
    PROVE  Total(f) = Total([x \in A |-> f[x]]) + Total([x \in S \ A |-> f[x]])
<1> DEFINE a == [x \in A |-> f[x]]
           b == [x \in S \ A |-> f[x]]
<1>1. a \in [A -> 0..m] /\ b \in [S \ A -> 0..m] OBVIOUS
<1>2. IsFiniteSet(A) /\ IsFiniteSet(S \ A) BY FS_Subset
<1>3. IsFiniteSet(Units(a)) /\ IsFiniteSet(Units(b)) BY <1>1, <1>2, UnitsCounted
<1>4. Units(f) = Units(a) \cup Units(b) /\ Units(a) \cap Units(b) = {} BY DEF Units
<1>5. Cardinality(Units(a)) \in Nat /\ Cardinality(Units(b)) \in Nat
  BY <1>3, FS_CardinalityType
<1> HIDE DEF a, b
<1>6. Cardinality(Units(f)) = Cardinality(Units(a)) + Cardinality(Units(b))
  <2>1. Cardinality(Units(a) \cup Units(b)) =
            Cardinality(Units(a)) + Cardinality(Units(b)) - Cardinality(Units(a) \cap Units(b))
    BY <1>3, FS_Union
  <2>2. Cardinality(Units(a) \cap Units(b)) = 0 BY <1>4, FS_EmptySet
  <2> QED BY <1>4, <1>5, <2>1, <2>2
<1> QED BY <1>6 DEF Total, a, b

LEMMA TotalOne ==
    ASSUME NEW x, NEW f, DOMAIN f = {x}, f[x] \in Nat
    PROVE  Total(f) = f[x]
<1>1. Units(f) = {x} \X (1..f[x]) BY DEF Units
<1>2. IsFiniteSet({x}) /\ Cardinality({x}) = 1 BY FS_Singleton
<1>3. IsFiniteSet(1..f[x]) /\ Cardinality(1..f[x]) = f[x] BY FS_Interval
<1> DEFINE one == {x}
           parts == 1..f[x]
<1>4. IsFiniteSet(one) /\ IsFiniteSet(parts) BY <1>2, <1>3
<1> HIDE DEF one, parts
<1>5. Cardinality(one \X parts) = Cardinality(one) * Cardinality(parts) BY <1>4, FS_Product
<1> USE DEF one, parts
<1>6. Cardinality(one) = 1 /\ Cardinality(parts) = f[x] BY <1>2, <1>3
<1>7. Cardinality(one \X parts) = f[x] BY <1>5, <1>6
<1> QED BY <1>1, <1>7 DEF Total

\* A sum is what one member adds and that of the others.
LEMMA TotalApart ==
    ASSUME NEW S, IsFiniteSet(S), NEW m \in Nat, NEW f \in [S -> 0..m], NEW x \in S
    PROVE  Total(f) = f[x] + Total([y \in S \ {x} |-> f[y]])
<1> DEFINE A == {x}
<1>1. A \in SUBSET S OBVIOUS
<1>2. Total([y \in A |-> f[y]]) = f[x]
  <2>1. [y \in A |-> f[y]][x] = f[x] /\ f[x] \in Nat OBVIOUS
  <2>2. DOMAIN [y \in A |-> f[y]] = {x} OBVIOUS
  <2> QED BY <2>1, <2>2, TotalOne
<1> HIDE DEF A
<1>3. Total(f) = Total([y \in A |-> f[y]]) + Total([y \in S \ A |-> f[y]])
  BY <1>1, TotalSplit
<1>4. Total(f) = f[x] + Total([y \in S \ A |-> f[y]]) BY <1>2, <1>3
<1> QED BY <1>4 DEF A

\* One member comes, goes or changes.
LEMMA TotalMoves ==
    ASSUME NEW S, IsFiniteSet(S), NEW m \in Nat, NEW f \in [S -> 0..m],
           NEW T, IsFiniteSet(T), NEW g \in [T -> 0..m],
           NEW x, S \ {x} = T \ {x}, \A y \in S \ {x} : f[y] = g[y]
    PROVE  Total(g) = Total(f) - (IF x \in S THEN f[x] ELSE 0)
                               + (IF x \in T THEN g[x] ELSE 0)
<1> DEFINE others == [y \in S \ {x} |-> f[y]]
<1>1. Total(f) \in Nat /\ Total(g) \in Nat BY UnitsCounted
<1>2. Total(f) = (IF x \in S THEN f[x] ELSE 0) + Total(others)
  <2>1. CASE x \in S
    <3>1. Total(f) = f[x] + Total(others) BY <2>1, TotalApart
    <3> QED BY <2>1, <3>1
  <2>2. CASE x \notin S
    <3>1. others = f BY <2>2
    <3> QED BY <1>1, <2>2, <3>1
  <2> QED BY <2>1, <2>2
<1>3. Total(g) = (IF x \in T THEN g[x] ELSE 0) + Total(others)
  <2>1. others = [y \in T \ {x} |-> g[y]] OBVIOUS
  <2>2. CASE x \in T
    <3>1. Total(g) = g[x] + Total([y \in T \ {x} |-> g[y]]) BY <2>2, TotalApart
    <3> QED BY <2>1, <2>2, <3>1
  <2>3. CASE x \notin T
    <3>1. others = g BY <2>1, <2>3
    <3> QED BY <1>1, <2>3, <3>1
  <2> QED BY <2>2, <2>3
<1>4. Total(others) \in Nat
  <2>1. IsFiniteSet(S \ {x}) /\ others \in [S \ {x} -> 0..m] BY FS_Subset
  <2> QED BY <2>1, UnitsCounted
<1> HIDE DEF others
<1> QED BY <1>1, <1>2, <1>3, <1>4

\* A set is counted, and one member of it comes or goes.
LEMMA Counted ==
    ASSUME NEW S, IsFiniteSet(S), NEW x
    PROVE  Cardinality(S \ {x}) = Cardinality(S) - (IF x \in S THEN 1 ELSE 0)
<1>1. Cardinality(S) \in Nat BY FS_CardinalityType
<1>2. CASE x \in S BY <1>2, FS_RemoveElement
<1>3. CASE x \notin S
  <2>1. S \ {x} = S BY <1>3
  <2>2. Cardinality(S \ {x}) = Cardinality(S) BY <2>1
  <2> QED BY <1>1, <1>3, <2>2
<1> QED BY <1>2, <1>3

LEMMA CountMoves ==
    ASSUME NEW S, IsFiniteSet(S), NEW T, IsFiniteSet(T), NEW x, S \ {x} = T \ {x}
    PROVE  Cardinality(T) = Cardinality(S) - (IF x \in S THEN 1 ELSE 0)
                                           + (IF x \in T THEN 1 ELSE 0)
<1>1. Cardinality(S \ {x}) = Cardinality(S) - (IF x \in S THEN 1 ELSE 0) BY Counted
<1>2. Cardinality(T \ {x}) = Cardinality(T) - (IF x \in T THEN 1 ELSE 0) BY Counted
<1>3. Cardinality(S) \in Nat /\ Cardinality(T) \in Nat BY FS_CardinalityType
<1>4. Cardinality(S \ {x}) = Cardinality(T \ {x}) OBVIOUS
<1> QED BY <1>1, <1>2, <1>3, <1>4

\* A sum is no less than what any member adds.
LEMMA TotalCovers ==
    ASSUME NEW S, IsFiniteSet(S), NEW m \in Nat, NEW f \in [S -> 0..m], NEW x \in S
    PROVE  Total(f) >= f[x]
<1> DEFINE others == [y \in S \ {x} |-> f[y]]
<1>1. Total(f) = f[x] + Total(others) BY TotalApart
<1>2. f[x] \in Nat OBVIOUS
<1>3. IsFiniteSet(S \ {x}) /\ others \in [S \ {x} -> 0..m] BY FS_Subset
<1>4. Total(others) \in Nat BY <1>3, UnitsCounted
<1> HIDE DEF others
<1> QED BY <1>1, <1>2, <1>4

-----------------------------------------------------------------------------
\* The quota ledger, for any number of calls, limits and days.

LedgerBounds ==
    /\ IsFiniteSet(Calls) /\ LastDay \in Nat
    /\ LimitRequests \in Nat /\ LimitTokens \in Nat /\ CallTokens \in Nat

ChargedCall ==
    [at : {"running"}, day : Ledger!Days, reserved : 1..CallTokens, known : BOOLEAN,
     actual : 0..CallTokens]
    \cup [at : {"done"}, day : Ledger!Days, reserved : 1..CallTokens, due : 0..CallTokens,
          missing : BOOLEAN]
Reservation == {Ledger!Idle} \cup [at : {"refused"}] \cup ChargedCall

BucketsTyped == bucket \in [Ledger!Days -> [requests : Nat, tokens : Nat]]
LedgerTyped ==
    /\ today \in Ledger!Days
    /\ BucketsTyped
    /\ call \in [Calls -> Reservation]

\* What a call on its place is charged, and to which day.
ChargedTo(p, d) == p.at \in {"running", "done"} /\ p.day = d
ChargeOf(p) == IF p.at = "running" THEN p.reserved ELSE p.due
Charges(d) == [c \in Ledger!Of(d) |-> Ledger!Charge(c)]

\* A bucket that is still needed is there when a call ends; this makes the
\* ledger's exactness inductive.
LedgerInv ==
    /\ LedgerTyped /\ Ledger!LedgerExact
    /\ \A c \in Calls : call[c].at = "running" => call[c].day >= today - 1

LEMMA ReservationTyped ==
    ASSUME LedgerBounds, NEW p \in Reservation
    PROVE  /\ p.at \in {"idle", "refused", "running", "done"}
           /\ p.at \in {"running", "done"} =>
                /\ p.day \in Ledger!Days /\ p.reserved \in 1..CallTokens
                /\ ChargeOf(p) \in 0..CallTokens
           /\ p.at = "running" => /\ p.known \in BOOLEAN /\ p.actual \in 0..CallTokens
                                  /\ ChargeOf(p) = p.reserved
BY DEF Reservation, ChargedCall, Ledger!Idle, ChargeOf, LedgerBounds

\* The charges of a day.
LEMMA ChargesTyped ==
    ASSUME LedgerBounds, LedgerTyped, NEW d \in Ledger!Days
    PROVE  /\ Ledger!Of(d) = {c \in Calls : ChargedTo(call[c], d)}
           /\ \A c \in Ledger!Of(d) : Ledger!Charge(c) = ChargeOf(call[c])
           /\ IsFiniteSet(Ledger!Of(d)) /\ Cardinality(Ledger!Of(d)) \in Nat
           /\ Charges(d) \in [Ledger!Of(d) -> 0..CallTokens]
<1>1. Ledger!Of(d) = {c \in Calls : ChargedTo(call[c], d)} BY DEF Ledger!Of, ChargedTo
<1>2. \A c \in Ledger!Of(d) : Ledger!Charge(c) = ChargeOf(call[c])
  BY DEF Ledger!Charge, ChargeOf
<1>3. IsFiniteSet(Ledger!Of(d)) BY <1>1, FS_Subset DEF LedgerBounds
<1>4. Cardinality(Ledger!Of(d)) \in Nat BY <1>3, FS_CardinalityType
<1>5. \A c \in Ledger!Of(d) : Ledger!Charge(c) \in 0..CallTokens
  BY <1>1, <1>2, ReservationTyped DEF LedgerTyped, ChargedTo
<1> QED BY <1>1, <1>2, <1>3, <1>4, <1>5 DEF Charges

\* One call moves: its day is charged one request and its tokens more or less.
LEMMA ChargesMove ==
    ASSUME LedgerBounds, LedgerTyped, LedgerTyped', NEW c \in Calls, NEW p \in Reservation,
           call' = [call EXCEPT ![c] = p], NEW d \in Ledger!Days
    PROVE  /\ Cardinality(Ledger!Of(d)') =
                Cardinality(Ledger!Of(d)) - (IF ChargedTo(call[c], d) THEN 1 ELSE 0)
                                          + (IF ChargedTo(p, d) THEN 1 ELSE 0)
           /\ Total(Charges(d)') =
                Total(Charges(d))
                    - (IF ChargedTo(call[c], d) THEN ChargeOf(call[c]) ELSE 0)
                    + (IF ChargedTo(p, d) THEN ChargeOf(p) ELSE 0)
<1> DEFINE S == Ledger!Of(d)
           T == Ledger!Of(d)'
           f == Charges(d)
           g == Charges(d)'
<1>1. /\ S = {b \in Calls : ChargedTo(call[b], d)}
      /\ \A b \in S : f[b] = ChargeOf(call[b])
      /\ DOMAIN f = S /\ IsFiniteSet(S) /\ Cardinality(S) \in Nat /\ f \in [S -> 0..CallTokens]
  BY ChargesTyped DEF Charges
<1>2. call'[c] = p /\ \A b \in Calls \ {c} : call'[b] = call[b] BY DEF LedgerTyped
<1>3. T = {b \in Calls : ChargedTo(call'[b], d)} BY DEF Ledger!Of, ChargedTo
<1>4. DOMAIN g = T /\ \A b \in T : g[b] = ChargeOf(call'[b])
  BY DEF Charges, Ledger!Charge, ChargeOf
<1>5. IsFiniteSet(T) BY <1>3, FS_Subset DEF LedgerBounds
<1>6. g \in [T -> 0..CallTokens]
  <2>1. \A b \in T : g[b] \in 0..CallTokens
    <3>1. ASSUME NEW b \in T PROVE g[b] \in 0..CallTokens
      <4>1. b \in Calls /\ call'[b] \in Reservation /\ call'[b].at \in {"running", "done"}
        BY <1>3 DEF LedgerTyped, ChargedTo
      <4>2. ChargeOf(call'[b]) \in 0..CallTokens BY <4>1, ReservationTyped
      <4> QED BY <1>4, <4>2
    <3> QED BY <3>1
  <2> QED BY <1>4, <2>1 DEF Charges
<1>7. S \ {c} = T \ {c} BY <1>1, <1>2, <1>3
<1>8. \A b \in S \ {c} : f[b] = g[b] BY <1>1, <1>2, <1>4, <1>7
<1>9. c \in S <=> ChargedTo(call[c], d) BY <1>1
<1>10. c \in T <=> ChargedTo(p, d) BY <1>2, <1>3
<1>11. c \in T => g[c] = ChargeOf(p) BY <1>2, <1>4
<1>12. Total(g) = Total(f) - (IF c \in S THEN f[c] ELSE 0) + (IF c \in T THEN g[c] ELSE 0)
  <2> HIDE DEF S, T, f, g
  <2> QED BY <1>1, <1>5, <1>6, <1>7, <1>8, TotalMoves DEF LedgerBounds
<1>13. Cardinality(T) = Cardinality(S) - (IF c \in S THEN 1 ELSE 0) + (IF c \in T THEN 1 ELSE 0)
  <2> HIDE DEF S, T
  <2> QED BY <1>1, <1>5, <1>7, CountMoves
<1>14. /\ Cardinality(T) = Cardinality(S) - (IF ChargedTo(call[c], d) THEN 1 ELSE 0)
                                        + (IF ChargedTo(p, d) THEN 1 ELSE 0)
       /\ Total(g) = Total(f) - (IF ChargedTo(call[c], d) THEN ChargeOf(call[c]) ELSE 0)
                              + (IF ChargedTo(p, d) THEN ChargeOf(p) ELSE 0)
  <2> HIDE DEF S, T, f, g
  <2> QED BY <1>1, <1>9, <1>10, <1>11, <1>12, <1>13
<1> QED BY <1>14

\* The ledger's exactness, a day at a time.
Tame(d) == \A c \in Ledger!Of(d) : Ledger!Charge(c) <= call[c].reserved
Limited(d) ==
    /\ LimitRequests > 0 => bucket[d].requests <= LimitRequests
    /\ LimitTokens > 0 /\ Tame(d) => bucket[d].tokens <= LimitTokens
Booked(d) ==
    /\ bucket[d].requests = Cardinality(Ledger!Of(d))
    /\ bucket[d].tokens = Total(Charges(d))
    /\ Limited(d)

LedgerBooked ==
    /\ \A d \in Ledger!Days : d >= today - 1 => Booked(d)
    /\ \A c \in Calls : call[c].at = "done" => ~call[c].missing

LEMMA ExactMeans ==
    /\ Ledger!LedgerExact <=> LedgerBooked
    /\ Ledger!LedgerExact' <=> LedgerBooked'
BY SameTotals DEF Ledger!LedgerExact, LedgerBooked, Booked, Limited, Tame, Charges

\* A day holds what a call of it reserved.
LEMMA DayCovers ==
    ASSUME LedgerBounds, LedgerInv, NEW c \in Calls, call[c].at = "running"
    PROVE  /\ call[c].day \in Ledger!Days /\ call[c].day >= today - 1
           /\ call[c].reserved \in 1..CallTokens
           /\ Ledger!Covered(call[c].day, call[c].reserved)
<1> DEFINE d == call[c].day
           S == Ledger!Of(d)
           f == Charges(d)
<1>1. LedgerTyped /\ call[c] \in Reservation BY DEF LedgerInv, LedgerTyped
<1>2. d \in Ledger!Days /\ d >= today - 1 /\ call[c].reserved \in 1..CallTokens
  BY <1>1, ReservationTyped DEF LedgerInv
<1>3. Booked(d) BY <1>2, ExactMeans DEF LedgerInv, LedgerBooked, LedgerBooked
<1>4. /\ IsFiniteSet(S) /\ f \in [S -> 0..CallTokens] /\ Cardinality(S) \in Nat
      /\ c \in S /\ f[c] = call[c].reserved
  BY <1>1, <1>2, ChargesTyped DEF Charges, ChargedTo, ChargeOf
<1>5. Cardinality(S) >= 1
  <2>1. Cardinality(S) # 0 BY <1>4, FS_EmptySet
  <2> QED BY <1>4, <2>1
<1>6. Total(f) >= f[c]
  <2>1. CallTokens \in Nat BY DEF LedgerBounds
  <2> HIDE DEF S, f
  <2> QED BY <1>4, <2>1, TotalCovers
<1> QED BY <1>2, <1>3, <1>4, <1>5, <1>6 DEF Booked, Ledger!Covered

\* One call moves, and its day's bucket with it.
LEMMA LedgerMoves ==
    ASSUME LedgerBounds, LedgerInv, NEW c \in Calls, NEW p \in Reservation,
           call' = [call EXCEPT ![c] = p], today' = today, BucketsTyped',
           p.at = "running" => p.day >= today - 1,
           p.at = "done" => ~p.missing,
           \A d \in Ledger!Days : d >= today - 1 =>
                /\ bucket'[d].requests = bucket[d].requests
                        - (IF ChargedTo(call[c], d) THEN 1 ELSE 0)
                        + (IF ChargedTo(p, d) THEN 1 ELSE 0)
                /\ bucket'[d].tokens = bucket[d].tokens
                        - (IF ChargedTo(call[c], d) THEN ChargeOf(call[c]) ELSE 0)
                        + (IF ChargedTo(p, d) THEN ChargeOf(p) ELSE 0)
                /\ Limited(d)'
    PROVE  LedgerInv'
<1>1. LedgerTyped /\ LedgerTyped' BY DEF LedgerInv, LedgerTyped
<1>2. call'[c] = p /\ \A b \in Calls \ {c} : call'[b] = call[b] BY <1>1 DEF LedgerTyped
<1>3. ASSUME NEW d \in Ledger!Days, d >= today - 1 PROVE Booked(d)'
  <2>1. Booked(d) BY <1>3, ExactMeans DEF LedgerInv, LedgerBooked
  <2>2. /\ Cardinality(Ledger!Of(d)') =
             Cardinality(Ledger!Of(d)) - (IF ChargedTo(call[c], d) THEN 1 ELSE 0)
                                       + (IF ChargedTo(p, d) THEN 1 ELSE 0)
        /\ Total(Charges(d)') =
             Total(Charges(d))
                 - (IF ChargedTo(call[c], d) THEN ChargeOf(call[c]) ELSE 0)
                 + (IF ChargedTo(p, d) THEN ChargeOf(p) ELSE 0)
    BY <1>1, ChargesMove
  <2>3. Cardinality(Ledger!Of(d))' = Cardinality(Ledger!Of(d)')
        /\ Total(Charges(d))' = Total(Charges(d)')
    BY DEF Total, Units
  <2> QED BY <1>3, <2>1, <2>2, <2>3 DEF Booked
<1>4. Ledger!LedgerExact'
  <2>1. \A d \in Ledger!Days : d >= today' - 1 => Booked(d)' BY <1>3
  <2>2. \A b \in Calls : call'[b].at = "done" => ~call'[b].missing
    BY <1>2, ExactMeans DEF LedgerInv, LedgerBooked
  <2> QED BY <2>1, <2>2, ExactMeans DEF LedgerBooked
<1>5. \A b \in Calls : call'[b].at = "running" => call'[b].day >= today' - 1
  BY <1>2 DEF LedgerInv
<1> QED BY <1>1, <1>4, <1>5 DEF LedgerInv

\* One call moves that is charged as before, or as before not at all.
LEMMA ChargesSame ==
    ASSUME LedgerBounds, LedgerInv, NEW c \in Calls, NEW p \in Reservation,
           call' = [call EXCEPT ![c] = p], UNCHANGED <<today, bucket>>,
           p.at = "running" => p.day >= today - 1,
           p.at = "done" => ~p.missing,
           \A d : ChargedTo(p, d) <=> ChargedTo(call[c], d),
           p.at \in {"running", "done"} =>
                ChargeOf(p) = ChargeOf(call[c]) /\ p.reserved = call[c].reserved
    PROVE  LedgerInv'
<1> DEFINE o == call[c]
<1>1. LedgerTyped /\ o \in Reservation BY DEF LedgerInv, LedgerTyped
<1>2. call'[c] = p /\ \A b \in Calls \ {c} : call'[b] = call[b] BY <1>1 DEF LedgerTyped
<1>3. BucketsTyped' BY <1>1 DEF LedgerTyped, BucketsTyped
<1>4. ASSUME NEW d \in Ledger!Days, d >= today - 1
      PROVE  /\ bucket'[d].requests = bucket[d].requests
                        - (IF ChargedTo(o, d) THEN 1 ELSE 0)
                        + (IF ChargedTo(p, d) THEN 1 ELSE 0)
             /\ bucket'[d].tokens = bucket[d].tokens
                        - (IF ChargedTo(o, d) THEN ChargeOf(o) ELSE 0)
                        + (IF ChargedTo(p, d) THEN ChargeOf(p) ELSE 0)
             /\ Limited(d)'
  <2>1. bucket[d].requests \in Nat /\ bucket[d].tokens \in Nat
    BY <1>1 DEF LedgerTyped, BucketsTyped
  <2>2. ChargedTo(o, d) => /\ ChargeOf(o) \in Nat /\ ChargeOf(p) = ChargeOf(o)
                           /\ p.reserved = o.reserved
    <3>1. ChargedTo(o, d) => ChargeOf(o) \in 0..CallTokens
      BY <1>1, ReservationTyped DEF ChargedTo
    <3>2. ChargedTo(p, d) => p.at \in {"running", "done"} BY DEF ChargedTo
    <3> QED BY <3>1, <3>2 DEF LedgerBounds
  <2>3. Limited(d) BY <1>4, ExactMeans DEF LedgerInv, LedgerBooked, Booked
  <2>4. Tame(d)' => Tame(d)
    <3>1. ASSUME NEW b \in Ledger!Of(d)
          PROVE  b \in Ledger!Of(d)' /\ Ledger!Charge(b)' = Ledger!Charge(b)
                 /\ call'[b].reserved = call[b].reserved
      <4>1. CASE b = c
        <5>1. ChargedTo(o, d) BY <4>1 DEF Ledger!Of, ChargedTo
        <5>2. ChargedTo(p, d) BY <5>1
        <5>3. Ledger!Charge(c) = ChargeOf(o) /\ Ledger!Charge(c)' = ChargeOf(p)
          BY <1>2 DEF Ledger!Charge, ChargeOf
        <5>4. c \in Ledger!Of(d)' BY <1>2, <5>2 DEF Ledger!Of, ChargedTo
        <5> QED BY <1>2, <2>2, <4>1, <5>1, <5>3, <5>4
      <4>2. CASE b # c BY <1>2, <4>2 DEF Ledger!Of, Ledger!Charge
      <4> QED BY <4>1, <4>2
    <3> QED BY <3>1 DEF Tame
  <2> QED BY <2>1, <2>2, <2>3, <2>4 DEF Limited
<1> QED BY <1>3, <1>4, LedgerMoves

-----------------------------------------------------------------------------
LEMMA ReserveInv ==
    ASSUME LedgerBounds, LedgerInv, NEW c \in Calls, NEW n \in 1..CallTokens,
           Ledger!Reserve(c, n)
    PROVE  LedgerInv'
<1>1. LedgerTyped /\ call[c] = Ledger!Idle /\ today' = today
  BY DEF Ledger!Reserve, LedgerInv
<1>2. \A d : ~ChargedTo(call[c], d) BY <1>1 DEF ChargedTo, Ledger!Idle
<1>3. CASE Ledger!Fits(today, n)
  <2> DEFINE p == [at |-> "running", day |-> today, reserved |-> n, known |-> FALSE,
                   actual |-> 0]
             r == [requests |-> bucket[today].requests + 1,
                   tokens |-> bucket[today].tokens + n]
  <2>1. call' = [call EXCEPT ![c] = p] /\ bucket' = [bucket EXCEPT ![today] = r]
    BY <1>3 DEF Ledger!Reserve
  <2>2. bucket[today].requests \in Nat /\ bucket[today].tokens \in Nat /\ n \in Nat
    BY <1>1 DEF LedgerTyped, BucketsTyped, LedgerBounds
  <2>3. p \in Reservation /\ p.at = "running" /\ p.day = today
        /\ \A d : ChargedTo(p, d) <=> d = today
    BY <1>1 DEF LedgerTyped, Reservation, ChargedCall, ChargedTo, LedgerBounds
  <2>4. ChargeOf(p) = n BY DEF ChargeOf
  <2>5. r \in [requests : Nat, tokens : Nat] BY <2>2
  <2>6. /\ bucket'[today].requests = bucket[today].requests + 1
        /\ bucket'[today].tokens = bucket[today].tokens + n
        /\ \A d \in Ledger!Days \ {today} : bucket'[d] = bucket[d]
    BY <1>1, <2>1 DEF LedgerTyped, BucketsTyped
  <2>7. BucketsTyped' BY <1>1, <2>1, <2>5 DEF LedgerTyped, BucketsTyped, Ledger!Days
  <2>8. call'[c] = p /\ \A b \in Calls \ {c} : call'[b] = call[b]
    BY <1>1, <2>1 DEF LedgerTyped
  <2> HIDE DEF p, r
  <2>9. ASSUME NEW d \in Ledger!Days, d >= today - 1 PROVE Limited(d)'
    <3>1. CASE d = today
      BY <1>3, <2>2, <2>6, <3>1 DEF Limited, Ledger!Fits, LedgerBounds
    <3>2. CASE d # today
      <4>1. Limited(d) BY <2>9, ExactMeans DEF LedgerInv, LedgerBooked, Booked
      <4>2. Tame(d)' => Tame(d)
        <5>1. \A b \in Ledger!Of(d) : b # c /\ call'[b] = call[b] /\ b \in Ledger!Of(d)'
          BY <1>2, <2>8 DEF Ledger!Of, ChargedTo
        <5> QED BY <5>1 DEF Tame, Ledger!Charge
      <4> QED BY <2>6, <3>2, <4>1, <4>2 DEF Limited
    <3> QED BY <3>1, <3>2
  <2>10. ASSUME NEW d \in Ledger!Days, d >= today - 1
         PROVE  /\ bucket'[d].requests = bucket[d].requests
                        - (IF ChargedTo(call[c], d) THEN 1 ELSE 0)
                        + (IF ChargedTo(p, d) THEN 1 ELSE 0)
                /\ bucket'[d].tokens = bucket[d].tokens
                        - (IF ChargedTo(call[c], d) THEN ChargeOf(call[c]) ELSE 0)
                        + (IF ChargedTo(p, d) THEN ChargeOf(p) ELSE 0)
    <3>1. bucket[d].requests \in Nat /\ bucket[d].tokens \in Nat
      BY <1>1 DEF LedgerTyped, BucketsTyped
    <3> QED BY <1>2, <2>2, <2>3, <2>4, <2>6, <3>1
  <2>11. today >= today - 1 BY <1>1 DEF LedgerTyped, Ledger!Days, LedgerBounds
  <2> QED BY <1>1, <2>1, <2>3, <2>7, <2>9, <2>10, <2>11, LedgerMoves
<1>4. CASE ~Ledger!Fits(today, n)
  <2> DEFINE p == [at |-> "refused"]
  <2>1. call' = [call EXCEPT ![c] = p] /\ bucket' = bucket BY <1>4 DEF Ledger!Reserve
  <2>2. p \in Reservation /\ p.at = "refused" /\ \A d : ~ChargedTo(p, d)
    BY DEF Reservation, ChargedTo
  <2> HIDE DEF p
  <2> QED BY <1>1, <1>2, <2>1, <2>2, ChargesSame
<1> QED BY <1>3, <1>4

\* What is seen of a running call does not change what it is charged.
LEMMA ObserveInv ==
    ASSUME LedgerBounds, LedgerInv, NEW c \in Calls, NEW n \in 0..CallTokens,
           Ledger!Observe(c, n)
    PROVE  LedgerInv'
<1> DEFINE Place == [at : {"running"}, day : Ledger!Days, reserved : 1..CallTokens,
                     known : BOOLEAN, actual : 0..CallTokens]
           o == call[c]
           q == [o EXCEPT !.actual = n]
           p == [q EXCEPT !.known = TRUE]
<1>1. LedgerTyped /\ o \in Reservation /\ o.at = "running" /\ UNCHANGED <<today, bucket>>
  BY DEF Ledger!Observe, LedgerInv, LedgerTyped
<1>2. o \in Place BY <1>1 DEF Reservation, ChargedCall, Ledger!Idle
<1>3. call' = [call EXCEPT ![c] = p] BY <1>1 DEF Ledger!Observe, LedgerTyped
<1>4. q \in Place /\ q.at = o.at /\ q.day = o.day /\ q.reserved = o.reserved BY <1>2
<1> HIDE DEF q
<1>5. p \in Place /\ p.at = q.at /\ p.day = q.day /\ p.reserved = q.reserved BY <1>4
<1> HIDE DEF p
<1>6. p \in Reservation BY <1>5 DEF Reservation, ChargedCall
<1>7. /\ ChargeOf(p) = ChargeOf(o) /\ p.at = "running"
      /\ \A d : ChargedTo(p, d) <=> ChargedTo(o, d)
  BY <1>1, <1>4, <1>5 DEF ChargedTo, ChargeOf
<1>8. o.day >= today - 1 BY <1>1 DEF LedgerInv
<1> QED BY <1>1, <1>3, <1>4, <1>5, <1>6, <1>7, <1>8, ChargesSame

\* A call ends: what it paid is what is booked, and the rest of its reservation
\* is given back.
LEMMA SettleInv ==
    ASSUME LedgerBounds, LedgerInv, NEW c \in Calls, NEW written \in BOOLEAN,
           Ledger!Settle(c, written)
    PROVE  LedgerInv'
<1> DEFINE o == call[c]
           paid == o.known /\ written /\ Ledger!Covered(o.day, o.reserved)
           due == IF paid THEN Ledger!Due(c) ELSE o.reserved
           p == [at |-> "done", day |-> o.day, reserved |-> o.reserved, due |-> due,
                 missing |-> ~Ledger!Covered(o.day, o.reserved)]
           r == [requests |-> bucket[o.day].requests,
                 tokens |-> bucket[o.day].tokens - o.reserved + due]
<1>1. LedgerTyped /\ o \in Reservation /\ o.at = "running" /\ today' = today
      /\ call' = [call EXCEPT ![c] = p]
  BY DEF Ledger!Settle, LedgerInv, LedgerTyped
<1>2. /\ o.day \in Ledger!Days /\ o.day >= today - 1 /\ o.reserved \in 1..CallTokens
      /\ Ledger!Covered(o.day, o.reserved)
  BY <1>1, DayCovers
<1>3. o.known \in BOOLEAN /\ o.actual \in 0..CallTokens /\ ChargeOf(o) = o.reserved
  BY <1>1, ReservationTyped
<1>4. due \in 0..CallTokens BY <1>2, <1>3 DEF Ledger!Due, LedgerBounds
<1>5. p \in Reservation /\ p.at = "done" /\ ~p.missing /\ ChargeOf(p) = due
      /\ \A d : ChargedTo(p, d) <=> d = o.day
  BY <1>2, <1>4 DEF Reservation, ChargedCall, ChargedTo, ChargeOf
<1>6. \A d : ChargedTo(o, d) <=> d = o.day BY <1>1 DEF ChargedTo
<1>7. bucket' = [bucket EXCEPT ![o.day] = r]
  <2>1. bucket[o.day] \in [requests : Nat, tokens : Nat]
    BY <1>1, <1>2 DEF LedgerTyped, BucketsTyped
  <2>2. CASE paid
    <3>1. bucket' = [bucket EXCEPT ![o.day].tokens = @ - o.reserved + due]
      BY <2>2 DEF Ledger!Settle, Ledger!SettleUserDailyQuota
    <3>2. [bucket[o.day] EXCEPT !.tokens = bucket[o.day].tokens - o.reserved + due] = r
      BY <2>1
    <3> QED BY <3>1, <3>2
  <2>3. CASE ~paid
    <3>1. bucket' = bucket /\ due = o.reserved BY <2>3 DEF Ledger!Settle
    <3>2. bucket[o.day].tokens - o.reserved + o.reserved = bucket[o.day].tokens
      BY <1>2, <2>1 DEF LedgerBounds
    <3>3. r = bucket[o.day] BY <2>1, <3>1, <3>2
    <3> QED BY <1>1, <3>1, <3>3 DEF LedgerTyped, BucketsTyped
  <2> QED BY <2>2, <2>3
<1> HIDE DEF due
<1>8. r \in [requests : Nat, tokens : Nat]
  BY <1>1, <1>2, <1>4 DEF LedgerTyped, BucketsTyped, LedgerBounds, Ledger!Covered
<1>9. /\ bucket'[o.day].requests = bucket[o.day].requests
      /\ bucket'[o.day].tokens = bucket[o.day].tokens - o.reserved + due
      /\ \A d \in Ledger!Days \ {o.day} : bucket'[d] = bucket[d]
  BY <1>1, <1>2, <1>7 DEF LedgerTyped, BucketsTyped
<1>10. BucketsTyped' BY <1>1, <1>7, <1>8 DEF LedgerTyped, BucketsTyped, Ledger!Days
<1>11. call'[c] = p /\ \A b \in Calls \ {c} : call'[b] = call[b] BY <1>1 DEF LedgerTyped
<1>12. p.reserved = o.reserved OBVIOUS
<1> HIDE DEF p, r
<1>13. ASSUME NEW d \in Ledger!Days, d >= today - 1 PROVE Limited(d)'
  <2>1. Limited(d) BY <1>13, ExactMeans DEF LedgerInv, LedgerBooked, Booked
  <2>2. bucket[d].tokens \in Nat BY <1>1 DEF LedgerTyped, BucketsTyped
  <2>3. ASSUME Tame(d)' PROVE Tame(d) /\ (d = o.day => due <= o.reserved)
    <3>1. \A b \in Ledger!Of(d) \ {c} :
            b \in Ledger!Of(d)' /\ Ledger!Charge(b)' = Ledger!Charge(b)
            /\ call'[b].reserved = call[b].reserved
      BY <1>11 DEF Ledger!Of, Ledger!Charge
    <3>2. Ledger!Charge(c) = o.reserved BY <1>1 DEF Ledger!Charge
    <3>3. d = o.day => due <= o.reserved
      <4>1. Ledger!Charge(c)' = due BY <1>5, <1>11 DEF Ledger!Charge, ChargeOf
      <4>2. d = o.day => c \in Ledger!Of(d)' BY <1>5, <1>11 DEF Ledger!Of, ChargedTo
      <4> QED BY <1>11, <1>12, <2>3, <4>1, <4>2 DEF Tame
    <3>4. o.reserved <= o.reserved BY <1>2 DEF LedgerBounds
    <3> QED BY <2>3, <3>1, <3>2, <3>3, <3>4 DEF Tame
  <2>4. CASE d = o.day
    BY <1>2, <1>4, <1>9, <2>1, <2>2, <2>3, <2>4 DEF Limited, LedgerBounds
  <2>5. CASE d # o.day BY <1>9, <2>1, <2>3, <2>5 DEF Limited
  <2> QED BY <2>4, <2>5
<1>14. ASSUME NEW d \in Ledger!Days
       PROVE  /\ bucket'[d].requests = bucket[d].requests
                        - (IF ChargedTo(o, d) THEN 1 ELSE 0)
                        + (IF ChargedTo(p, d) THEN 1 ELSE 0)
              /\ bucket'[d].tokens = bucket[d].tokens
                        - (IF ChargedTo(o, d) THEN ChargeOf(o) ELSE 0)
                        + (IF ChargedTo(p, d) THEN ChargeOf(p) ELSE 0)
  <2>1. bucket[d].requests \in Nat /\ bucket[d].tokens \in Nat
    BY <1>1 DEF LedgerTyped, BucketsTyped
  <2>2. o.reserved \in Nat /\ due \in Nat BY <1>2, <1>4 DEF LedgerBounds
  <2> QED BY <1>3, <1>5, <1>6, <1>9, <2>1, <2>2
<1> QED BY <1>1, <1>5, <1>10, <1>13, <1>14, LedgerMoves

\* A day passes while calls of it run.
LEMMA MidnightInv == ASSUME LedgerBounds, LedgerInv, Ledger!Midnight PROVE LedgerInv'
<1>1. /\ LedgerTyped /\ today < LastDay /\ today' = today + 1 /\ call' = call
      /\ bucket' = [d \in Ledger!Days |-> IF d < today' - 1 THEN Ledger!NoBucket ELSE bucket[d]]
      /\ \A c \in Calls : call[c].at = "running" => call[c].day = today
  BY DEF Ledger!Midnight, Ledger!Running, LedgerInv
<1>2. today \in 0..LastDay /\ today' \in 0..LastDay
  BY <1>1 DEF LedgerTyped, Ledger!Days, LedgerBounds
<1>3. LedgerTyped'
  <2>1. Ledger!NoBucket \in [requests : Nat, tokens : Nat] BY DEF Ledger!NoBucket
  <2> QED BY <1>1, <1>2, <2>1 DEF LedgerTyped, BucketsTyped, Ledger!Days
<1>4. \A d \in Ledger!Days : d >= today' - 1 => bucket'[d] = bucket[d] /\ d >= today - 1
  BY <1>1, <1>2 DEF Ledger!Days, LedgerBounds
<1>5. ASSUME NEW d \in Ledger!Days
      PROVE  /\ Ledger!Of(d)' = Ledger!Of(d) /\ Charges(d)' = Charges(d)
             /\ Tame(d)' = Tame(d)
  BY <1>1 DEF Ledger!Of, Charges, Ledger!Charge, Tame
<1>6. ASSUME NEW d \in Ledger!Days, d >= today' - 1 PROVE Booked(d)'
  <2>1. Booked(d) /\ bucket'[d] = bucket[d]
    BY <1>4, <1>6, ExactMeans DEF LedgerInv, LedgerBooked
  <2>2. /\ Ledger!Of(d)' = Ledger!Of(d) /\ Charges(d)' = Charges(d) /\ Tame(d)' = Tame(d)
    BY <1>5
  <2> QED BY <2>1, <2>2 DEF Booked, Limited, Total, Units
<1>7. Ledger!LedgerExact'
  BY <1>1, <1>6, ExactMeans DEF LedgerInv, LedgerBooked
<1> QED BY <1>1, <1>2, <1>3, <1>7 DEF LedgerInv

\* The process ends, and the calls that run with it: they stay charged.
LEMMA LedgerRestartInv == ASSUME LedgerBounds, LedgerInv, Ledger!Restart PROVE LedgerInv'
<1> DEFINE Ended(c) == [at |-> "done", day |-> call[c].day, reserved |-> call[c].reserved,
                        due |-> call[c].reserved, missing |-> FALSE]
<1>1. LedgerTyped /\ UNCHANGED <<today, bucket>> BY DEF Ledger!Restart, LedgerInv
<1>2. call' = [c \in Calls |-> IF call[c].at = "running" THEN Ended(c) ELSE call[c]]
  BY DEF Ledger!Restart, Ledger!Running
<1>3. ASSUME NEW c \in Calls, call[c].at = "running"
      PROVE  Ended(c) \in Reservation /\ Ended(c).day = call[c].day
             /\ Ended(c).reserved = call[c].reserved /\ Ended(c).due = call[c].reserved
  <2>1. call[c].day \in Ledger!Days /\ call[c].reserved \in 1..CallTokens
    BY <1>1, <1>3, ReservationTyped DEF LedgerTyped
  <2> QED BY <2>1 DEF Reservation, ChargedCall, LedgerBounds
<1>4. ASSUME NEW c \in Calls
      PROVE  /\ call'[c] \in Reservation
             /\ call'[c].at # "running"
             /\ call'[c].at = "done" => call[c].at = "running" \/ call[c].at = "done"
             /\ call[c].at \in {"running", "done"} =>
                    /\ call'[c].at = "done" /\ call'[c].day = call[c].day
                    /\ call'[c].reserved = call[c].reserved
                    /\ ChargeOf(call'[c]) = ChargeOf(call[c])
             /\ call'[c].at = "done" => ~call'[c].missing
  <2>1. CASE call[c].at = "running" BY <1>2, <1>3, <2>1 DEF ChargeOf
  <2>2. CASE call[c].at # "running"
    BY <1>1, <1>2, <2>2, ExactMeans DEF LedgerTyped, LedgerInv, LedgerBooked
  <2> QED BY <2>1, <2>2
<1>5. LedgerTyped' BY <1>1, <1>2, <1>4 DEF LedgerTyped, BucketsTyped
<1>6. ASSUME NEW d \in Ledger!Days
      PROVE  /\ Ledger!Of(d)' = Ledger!Of(d) /\ Charges(d)' = Charges(d)
             /\ Tame(d)' => Tame(d)
  <2>1. Ledger!Of(d)' = Ledger!Of(d) BY <1>4 DEF Ledger!Of
  <2>2. \A c \in Ledger!Of(d) : Ledger!Charge(c)' = Ledger!Charge(c)
                                 /\ call'[c].reserved = call[c].reserved
    BY <1>4 DEF Ledger!Of, Ledger!Charge, ChargeOf
  <2> QED BY <2>1, <2>2 DEF Charges, Tame
<1>7. \A d \in Ledger!Days : d >= today - 1 => Booked(d)'
  BY <1>1, <1>6, ExactMeans DEF LedgerInv, LedgerBooked, Booked, Limited, Total, Units
<1>8. Ledger!LedgerExact' BY <1>1, <1>4, <1>7, ExactMeans DEF LedgerBooked
<1> QED BY <1>4, <1>5, <1>8 DEF LedgerInv

LEMMA LedgerInit == ASSUME LedgerBounds, Ledger!Init PROVE LedgerInv
<1>1. LedgerTyped
  BY DEF LedgerTyped, BucketsTyped, Ledger!Init, Reservation, Ledger!NoBucket, Ledger!Days,
         LedgerBounds
<1>2. \A c \in Calls : call[c].at = "idle" BY DEF Ledger!Init, Ledger!Idle
<1>3. ASSUME NEW d \in Ledger!Days PROVE Booked(d)
  <2>1. Ledger!Of(d) = {} /\ bucket[d].requests = 0 /\ bucket[d].tokens = 0
    BY <1>2 DEF Ledger!Of, Ledger!Init, Ledger!NoBucket
  <2>2. Units(Charges(d)) = {} BY <2>1 DEF Units, Charges
  <2> QED BY <2>1, <2>2, FS_EmptySet DEF Booked, Total, Limited, LedgerBounds
<1> QED BY <1>1, <1>2, <1>3, ExactMeans DEF LedgerInv, LedgerBooked

LEMMA LedgerStep ==
    ASSUME LedgerBounds, LedgerInv, Ledger!Next \/ UNCHANGED Ledger!vars
    PROVE  LedgerInv'
<1>1. CASE UNCHANGED Ledger!vars
  <2>1. UNCHANGED <<today, bucket, call>> BY <1>1 DEF Ledger!vars
  <2> QED BY <2>1, ExactMeans DEF LedgerInv, LedgerTyped, BucketsTyped, LedgerBooked, Booked,
          Limited, Tame, Charges, Ledger!Of, Ledger!Charge
<1> QED BY <1>1, ReserveInv, ObserveInv, SettleInv, MidnightInv, LedgerRestartInv
        DEF Ledger!Next

-----------------------------------------------------------------------------
\* What requests are lent, for any number of requests, slots and bytes.

GuardBounds ==
    /\ IsFiniteSet(Calls) /\ Absent \notin Calls
    /\ BodySlots \in Nat /\ BodyWaiting \in Nat /\ Budget \in Nat /\ MaxBody \in Nat
    /\ HeavySlots \in Nat

LoanAt == {"wait", "read", "handle", "refresh", "run", "lead"}
Loan == {Guard!Idle}
          \cup [at : LoanAt, held : 0..MaxBody, copy : 0..MaxBody, kind : {"handle", "refresh"}]
          \cup [at : {"follow"}, held : 0..MaxBody, leader : Calls]

LoansTyped ==
    /\ used \in Nat /\ slots \in Nat /\ waiting \in Nat /\ heavy \in 0..HeavySlots
    /\ refresh \in Calls \cup {Absent}
    /\ req \in [Calls -> Loan]

HoldsOf(p) == p.held + (IF p.at = "read" THEN p.copy ELSE 0)
Holdings == [q \in Calls |-> Guard!Holds(q)]

\* Who waits holds nothing yet, and only the leader of the flight leads.
GuardInv ==
    /\ LoansTyped /\ Guard!CapacityExact
    /\ \A q \in Calls : /\ req[q].at = "wait" => req[q].held = 0 /\ req[q].copy = 0
                        /\ req[q].at = "lead" => refresh = q

LoansExact ==
    /\ used = Total(Holdings) /\ used <= Budget
    /\ slots = Cardinality(Guard!At("read")) /\ slots <= BodySlots
    /\ waiting = Cardinality(Guard!At("wait"))
    /\ \A q \in Guard!At("follow") : refresh = req[q].leader
    /\ refresh # Absent => refresh \in Guard!At("lead") /\ heavy >= 1

LEMMA CapacityMeans ==
    /\ Guard!CapacityExact <=> LoansExact
    /\ Guard!CapacityExact' <=> LoansExact'
BY SameTotals DEF Guard!CapacityExact, LoansExact, Holdings

LEMMA LoanTyped ==
    ASSUME GuardBounds, NEW p \in Loan
    PROVE  /\ p.at \in {"idle", "follow"} \cup LoanAt
           /\ p.held \in 0..MaxBody /\ HoldsOf(p) \in 0..(2 * MaxBody) /\ HoldsOf(p) \in Nat
           /\ p.at = "idle" => p.held = 0 /\ HoldsOf(p) = 0
           /\ p.at \in LoanAt => p.copy \in 0..MaxBody /\ p.kind \in {"handle", "refresh"}
           /\ p.at = "follow" => p.leader \in Calls
           /\ p.at # "read" => HoldsOf(p) = p.held
           /\ p.at = "read" => HoldsOf(p) = p.held + p.copy
BY DEF Loan, Guard!Idle, LoanAt, HoldsOf, GuardBounds

LEMMA HoldingsTyped ==
    ASSUME GuardBounds, LoansTyped
    PROVE  /\ Holdings \in [Calls -> 0..(2 * MaxBody)]
           /\ \A q \in Calls : Holdings[q] = HoldsOf(req[q])
<1>1. ASSUME NEW q \in Calls
      PROVE  Guard!Holds(q) = HoldsOf(req[q]) /\ Guard!Holds(q) \in 0..(2 * MaxBody)
  <2>1. Guard!Holds(q) = HoldsOf(req[q]) BY DEF Guard!Holds, HoldsOf
  <2>2. req[q] \in Loan BY DEF LoansTyped
  <2> QED BY <2>1, <2>2, LoanTyped
<1> QED BY <1>1 DEF Holdings

\* One request moves, with its slot and its bytes.
LEMMA LoanMoves ==
    ASSUME GuardBounds, GuardInv, NEW q \in Calls, NEW p \in Loan, Guard!Become(q, p),
           heavy' \in 0..HeavySlots,
           used' = used - HoldsOf(req[q]) + HoldsOf(p), used' <= Budget,
           slots' = slots - (IF req[q].at = "read" THEN 1 ELSE 0)
                          + (IF p.at = "read" THEN 1 ELSE 0),
           slots' <= BodySlots,
           waiting' = waiting - (IF req[q].at = "wait" THEN 1 ELSE 0)
                              + (IF p.at = "wait" THEN 1 ELSE 0),
           p.at = "wait" => p.held = 0 /\ p.copy = 0,
           \/ /\ UNCHANGED <<refresh, heavy>>
              /\ p.at = "lead" <=> req[q].at = "lead"
              /\ p.at = "follow" => refresh = p.leader
           \/ /\ refresh = Absent /\ refresh' = q /\ heavy' >= 1 /\ p.at = "lead"
    PROVE  GuardInv'
<1>1. LoansTyped /\ LoansExact BY CapacityMeans DEF GuardInv
<1>2. req'[q] = p /\ \A r \in Calls \ {q} : req'[r] = req[r]
  BY <1>1 DEF LoansTyped, Guard!Become
<1>3. used' = Total(Holdings') /\ used' \in Nat
  <2> DEFINE f == Holdings
             g == Holdings'
             m == 2 * MaxBody
  <2>1. /\ f \in [Calls -> 0..m] /\ f[q] = HoldsOf(req[q])
        /\ \A r \in Calls : f[r] = HoldsOf(req[r])
    BY <1>1, HoldingsTyped
  <2>2. DOMAIN g = Calls /\ \A r \in Calls : g[r] = HoldsOf(req'[r])
    BY DEF Holdings, Guard!Holds, HoldsOf
  <2>3. g \in [Calls -> 0..m]
    <3>1. ASSUME NEW r \in Calls PROVE g[r] \in 0..m
      <4>1. req'[r] \in Loan BY <1>1, <1>2 DEF LoansTyped
      <4> QED BY <2>2, <4>1, LoanTyped
    <3>2. g = [r \in Calls |-> g[r]] BY DEF Holdings
    <3> QED BY <3>1, <3>2
  <2>4. g[q] = HoldsOf(p) /\ \A r \in Calls \ {q} : f[r] = g[r] BY <1>2, <2>1, <2>2
  <2>5. m \in Nat /\ IsFiniteSet(Calls) BY DEF GuardBounds
  <2> HIDE DEF f, g, m
  <2>6. Total(g) = Total(f) - (IF q \in Calls THEN f[q] ELSE 0)
                            + (IF q \in Calls THEN g[q] ELSE 0)
    BY <2>1, <2>3, <2>4, <2>5, TotalMoves
  <2>7. used = Total(f) BY <1>1 DEF LoansExact, f
  <2>8. used' = Total(g) BY <2>1, <2>4, <2>6, <2>7
  <2>9. Total(g) \in Nat BY <2>3, <2>5, UnitsCounted
  <2> QED BY <2>8, <2>9 DEF g
<1>4. ASSUME NEW at
      PROVE  Cardinality(Guard!At(at)') =
                Cardinality(Guard!At(at)) - (IF req[q].at = at THEN 1 ELSE 0)
                                          + (IF p.at = at THEN 1 ELSE 0)
  <2> DEFINE S == Guard!At(at)
             T == Guard!At(at)'
  <2>1. S \subseteq Calls /\ T \subseteq Calls /\ S \ {q} = T \ {q}
        /\ (q \in S <=> req[q].at = at) /\ (q \in T <=> p.at = at)
    BY <1>2 DEF Guard!At
  <2> HIDE DEF S, T
  <2>2. IsFiniteSet(S) /\ IsFiniteSet(T) BY <2>1, FS_Subset DEF GuardBounds
  <2>3. Cardinality(T) = Cardinality(S) - (IF q \in S THEN 1 ELSE 0)
                                        + (IF q \in T THEN 1 ELSE 0)
    BY <2>1, <2>2, CountMoves
  <2>4. Cardinality(T) = Cardinality(S) - (IF req[q].at = at THEN 1 ELSE 0)
                                        + (IF p.at = at THEN 1 ELSE 0)
    BY <2>1, <2>3
  <2> QED BY <2>4 DEF S, T
<1>5. /\ slots' = Cardinality(Guard!At("read")') /\ slots' \in Nat
      /\ waiting' = Cardinality(Guard!At("wait")') /\ waiting' \in Nat
  <2>1. \A at : IsFiniteSet(Guard!At(at)') BY FS_Subset DEF Guard!At, GuardBounds
  <2>2. \A at : Cardinality(Guard!At(at)') \in Nat BY <2>1, FS_CardinalityType
  <2>3. slots' = Cardinality(Guard!At("read")') BY <1>1, <1>4 DEF LoansExact
  <2>4. waiting' = Cardinality(Guard!At("wait")') BY <1>1, <1>4 DEF LoansExact
  <2> QED BY <2>2, <2>3, <2>4
<1>6. \A r \in Calls : req'[r].at = "wait" => req'[r].held = 0 /\ req'[r].copy = 0
  BY <1>2 DEF GuardInv
<1>7. /\ \A r \in Calls : req'[r].at = "lead" => refresh' = r
      /\ \A r \in Calls : req'[r].at = "follow" => refresh' = req'[r].leader
      /\ refresh' # Absent => refresh' \in Guard!At("lead")' /\ heavy' >= 1
  <2>1. CASE /\ UNCHANGED <<refresh, heavy>>
             /\ p.at = "lead" <=> req[q].at = "lead"
             /\ p.at = "follow" => refresh = p.leader
    BY <1>1, <1>2, <2>1 DEF GuardInv, LoansExact, Guard!At
  <2>2. CASE refresh = Absent /\ refresh' = q /\ heavy' >= 1 /\ p.at = "lead"
    <3>1. \A r \in Calls : req[r].at \notin {"lead", "follow"}
      <4>1. ASSUME NEW r \in Calls, req[r].at = "follow" PROVE FALSE
        <5>1. req[r].leader \in Calls /\ refresh = req[r].leader
          BY <1>1, <4>1, LoanTyped DEF LoansTyped, LoansExact, Guard!At
        <5> QED BY <2>2, <5>1 DEF GuardBounds
      <4> QED BY <2>2, <4>1 DEF GuardInv, GuardBounds
    <3> QED BY <1>2, <2>2, <3>1 DEF Guard!At
  <2> QED BY <2>1, <2>2
<1>8. LoansExact'
  BY <1>3, <1>5, <1>7 DEF LoansExact, Guard!At, Total, Units
<1>9. LoansTyped' BY <1>1, <1>2, <1>3, <1>5 DEF LoansTyped, Guard!Become
<1> QED BY <1>6, <1>7, <1>8, <1>9, CapacityMeans DEF GuardInv

\* Nothing moves.
LEMMA GuardStutters ==
    ASSUME GuardInv, UNCHANGED <<slots, waiting, used, heavy, refresh, req>> PROVE GuardInv'
<1>1. LoansTyped' BY DEF GuardInv, LoansTyped
<1>2. LoansExact'
  BY CapacityMeans DEF GuardInv, LoansExact, Guard!At, Holdings, Guard!Holds, Total, Units
<1> QED BY <1>1, <1>2, CapacityMeans DEF GuardInv

\* A request's place with another field.
FullLoan ==
    [at : LoanAt, held : 0..MaxBody, copy : 0..MaxBody, kind : {"handle", "refresh"}]

LEMMA FullLoans ==
    /\ \A p \in Loan : p.at \in LoanAt => p \in FullLoan
    /\ FullLoan \subseteq Loan
BY DEF Loan, Guard!Idle, LoanAt, FullLoan

LEMMA AtEdited ==
    ASSUME NEW p \in Loan, p.at \in LoanAt, NEW at \in LoanAt, NEW e, e = [p EXCEPT !.at = at]
    PROVE  e \in Loan /\ e.at = at /\ e.held = p.held /\ e.copy = p.copy
<1>1. p \in FullLoan BY FullLoans
<1>2. e \in FullLoan /\ e.at = at /\ e.held = p.held /\ e.copy = p.copy BY <1>1 DEF FullLoan
<1> QED BY <1>2, FullLoans

LEMMA CopyEdited ==
    ASSUME NEW p \in Loan, p.at \in LoanAt, NEW n \in 0..MaxBody, NEW e,
           e = [p EXCEPT !.copy = n]
    PROVE  e \in Loan /\ e.at = p.at /\ e.held = p.held /\ e.copy = n
<1>1. p \in FullLoan BY FullLoans
<1>2. e \in FullLoan /\ e.at = p.at /\ e.held = p.held /\ e.copy = n BY <1>1 DEF FullLoan
<1> QED BY <1>2, FullLoans

LEMMA HeldEdited ==
    ASSUME NEW p \in Loan, p.at \in LoanAt, NEW n \in 0..MaxBody, NEW e,
           e = [p EXCEPT !.held = n]
    PROVE  e \in Loan /\ e.at = p.at /\ e.held = n /\ e.copy = p.copy
<1>1. p \in FullLoan BY FullLoans
<1>2. e \in FullLoan /\ e.at = p.at /\ e.held = n /\ e.copy = p.copy BY <1>1 DEF FullLoan
<1> QED BY <1>2, FullLoans

LEMMA LoanIdle ==
    ASSUME GuardBounds
    PROVE  Guard!Idle \in Loan /\ Guard!Idle.at = "idle" /\ HoldsOf(Guard!Idle) = 0
BY DEF Guard!Idle, Loan, HoldsOf, GuardBounds

\* A request is over, and what it was lent is given back.
LEMMA LoanReturned ==
    ASSUME GuardBounds, GuardInv, NEW q \in Calls, req[q].at \notin {"idle", "lead"},
           Guard!Become(q, Guard!Idle), UNCHANGED <<heavy, refresh>>,
           used' = used - HoldsOf(req[q]),
           slots' = slots - (IF req[q].at = "read" THEN 1 ELSE 0),
           waiting' = waiting - (IF req[q].at = "wait" THEN 1 ELSE 0)
    PROVE  GuardInv'
<1>1. LoansTyped /\ LoansExact BY CapacityMeans DEF GuardInv
<1>2. req[q] \in Loan BY <1>1 DEF LoansTyped
<1>3. HoldsOf(req[q]) \in Nat BY <1>2, LoanTyped
<1>4. used' <= Budget /\ slots' <= BodySlots
  BY <1>1, <1>3 DEF LoansTyped, LoansExact, GuardBounds
<1>5. used' = used - HoldsOf(req[q]) + HoldsOf(Guard!Idle)
  BY <1>1, <1>3, LoanIdle DEF LoansTyped
<1>6. /\ slots' = slots - (IF req[q].at = "read" THEN 1 ELSE 0)
                        + (IF Guard!Idle.at = "read" THEN 1 ELSE 0)
      /\ waiting' = waiting - (IF req[q].at = "wait" THEN 1 ELSE 0)
                            + (IF Guard!Idle.at = "wait" THEN 1 ELSE 0)
  BY <1>1, LoanIdle DEF LoansTyped
<1>7. heavy' \in 0..HeavySlots BY <1>1 DEF LoansTyped
<1> QED BY <1>4, <1>5, <1>6, <1>7, LoanIdle, LoanMoves

-----------------------------------------------------------------------------
LEMMA ArriveInv ==
    ASSUME GuardBounds, GuardInv, NEW q \in Calls, NEW kind \in {"handle", "refresh"},
           Guard!Arrive(q, kind)
    PROVE  GuardInv'
<1> DEFINE Place(at) == [at |-> at, held |-> 0, copy |-> 0, kind |-> kind]
<1>1. /\ LoansTyped /\ LoansExact /\ req[q] = Guard!Idle /\ req[q].at = "idle"
      /\ UNCHANGED <<used, heavy, refresh>>
  BY CapacityMeans, LoanIdle DEF GuardInv, Guard!Arrive
<1>2. ASSUME NEW at \in {"read", "wait"}
      PROVE  /\ Place(at) \in Loan /\ Place(at).at = at /\ HoldsOf(Place(at)) = 0
             /\ Place(at).held = 0 /\ Place(at).copy = 0
  BY DEF Loan, LoanAt, HoldsOf, GuardBounds
<1>3. HoldsOf(req[q]) = 0 /\ used = used - 0 + 0 /\ used <= Budget
  BY <1>1, LoanIdle DEF LoansTyped, LoansExact
<1>4. slots \in Nat /\ waiting \in Nat /\ heavy \in 0..HeavySlots BY <1>1 DEF LoansTyped
<1>5. CASE slots < BodySlots
  <2> DEFINE p == Place("read")
  <2>1. slots' = slots + 1 /\ waiting' = waiting /\ Guard!Become(q, p)
    BY <1>4, <1>5 DEF Guard!Arrive, GuardBounds
  <2>2. p \in Loan /\ p.at = "read" /\ HoldsOf(p) = 0 BY <1>2
  <2> HIDE DEF p
  <2>3. slots' <= BodySlots BY <1>4, <1>5, <2>1 DEF GuardBounds
  <2> QED BY <1>1, <1>3, <1>4, <2>1, <2>2, <2>3, LoanMoves
<1>6. CASE ~(slots < BodySlots) /\ slots = BodySlots /\ waiting < BodyWaiting
  <2> DEFINE p == Place("wait")
  <2>1. waiting' = waiting + 1 /\ slots' = slots /\ Guard!Become(q, p)
    BY <1>6 DEF Guard!Arrive
  <2>2. p \in Loan /\ p.at = "wait" /\ HoldsOf(p) = 0 /\ p.held = 0 /\ p.copy = 0 BY <1>2
  <2> HIDE DEF p
  <2>3. slots' <= BodySlots BY <1>1, <2>1 DEF LoansExact
  <2> QED BY <1>1, <1>3, <1>4, <2>1, <2>2, <2>3, LoanMoves
<1>7. CASE ~(slots < BodySlots) /\ ~(slots = BodySlots /\ waiting < BodyWaiting)
  <2>1. UNCHANGED <<slots, waiting, used, heavy, refresh, req>>
    BY <1>1, <1>7 DEF Guard!Arrive
  <2> QED BY <2>1, GuardStutters
<1> QED BY <1>5, <1>6, <1>7

LEMMA AdmitInv ==
    ASSUME GuardBounds, GuardInv, NEW q \in Calls, Guard!Admit(q) \/ Guard!GiveUp(q)
    PROVE  GuardInv'
<1> DEFINE o == req[q]
           p == [o EXCEPT !.at = "read"]
<1>1. /\ LoansTyped /\ LoansExact /\ o \in Loan /\ o.at = "wait" /\ o.held = 0 /\ o.copy = 0
      /\ UNCHANGED <<used, heavy, refresh>> /\ waiting' = waiting - 1
  BY CapacityMeans DEF GuardInv, Guard!Admit, Guard!GiveUp, LoansTyped
<1>2. HoldsOf(o) = 0 BY <1>1 DEF HoldsOf
<1>3. slots \in Nat /\ waiting \in Nat /\ used \in Nat /\ heavy \in 0..HeavySlots
  BY <1>1 DEF LoansTyped
<1>4. CASE Guard!Admit(q)
  <2>1. slots < BodySlots /\ slots' = slots + 1 /\ Guard!Become(q, p)
    BY <1>4 DEF Guard!Admit
  <2>2. p \in Loan /\ p.at = "read" /\ p.held = 0 /\ p.copy = 0
    BY <1>1, AtEdited DEF LoanAt
  <2>3. HoldsOf(p) = 0 BY <2>2 DEF HoldsOf
  <2> HIDE DEF p
  <2>4. slots' <= BodySlots BY <1>3, <2>1 DEF GuardBounds
  <2>5. used' <= Budget BY <1>1 DEF LoansExact
  <2> QED BY <1>1, <1>2, <1>3, <2>1, <2>2, <2>3, <2>4, <2>5, LoanMoves
<1>5. CASE Guard!GiveUp(q)
  <2>1. slots' = slots /\ Guard!Become(q, Guard!Idle) BY <1>5 DEF Guard!GiveUp
  <2> QED BY <1>1, <1>2, <1>3, <2>1, LoanReturned
<1> QED BY <1>4, <1>5

LEMMA GrowInv ==
    ASSUME GuardBounds, GuardInv, NEW q \in Calls, NEW n \in 1..MaxBody, Guard!Grow(q, n)
    PROVE  GuardInv'
<1> DEFINE o == req[q]
           p == [o EXCEPT !.copy = n]
<1>1. /\ LoansTyped /\ LoansExact /\ o \in Loan /\ o.at = "read" /\ o.copy = 0
      /\ UNCHANGED <<waiting, heavy, refresh>>
  BY CapacityMeans DEF GuardInv, Guard!Grow, LoansTyped
<1>2. HoldsOf(o) = o.held /\ o.held \in Nat
  BY <1>1, LoanTyped DEF HoldsOf, GuardBounds
<1>3. /\ slots \in Nat /\ waiting \in Nat /\ used \in Nat /\ heavy \in 0..HeavySlots
      /\ slots <= BodySlots
  BY <1>1 DEF LoansTyped, LoansExact
<1>4. CASE Guard!Reserves(q, n)
  <2>1. used' = used + n /\ used' <= Budget /\ slots' = slots /\ Guard!Become(q, p)
    BY <1>4 DEF Guard!Grow, Guard!Reserves
  <2>2. p \in Loan /\ p.at = "read" /\ p.held = o.held /\ p.copy = n
    BY <1>1, CopyEdited DEF LoanAt, GuardBounds
  <2>3. HoldsOf(p) = o.held + n BY <2>2 DEF HoldsOf
  <2> HIDE DEF p
  <2>4. used' = used - HoldsOf(o) + HoldsOf(p) BY <1>2, <1>3, <2>1, <2>3
  <2>5. slots' = slots - 1 + 1 BY <1>3, <2>1
  <2> QED BY <1>1, <1>3, <2>1, <2>2, <2>4, <2>5, LoanMoves
<1>5. CASE ~Guard!Reserves(q, n)
  <2>1. used' = used - o.held /\ slots' = slots - 1 /\ Guard!Become(q, Guard!Idle)
    BY <1>5 DEF Guard!Grow
  <2> QED BY <1>1, <1>2, <1>3, <2>1, LoanReturned
<1> QED BY <1>4, <1>5

\* The old buffer is released.
LEMMA CopiedInv ==
    ASSUME GuardBounds, GuardInv, NEW q \in Calls, Guard!Copied(q)
    PROVE  GuardInv'
<1> DEFINE o == req[q]
           e == [o EXCEPT !.held = o.copy]
           p == [e EXCEPT !.copy = 0]
<1>1. /\ LoansTyped /\ LoansExact /\ o \in Loan /\ o.at = "read" /\ Guard!Become(q, p)
      /\ used' = used - o.held /\ UNCHANGED <<slots, waiting, heavy, refresh>>
  BY CapacityMeans DEF GuardInv, Guard!Copied, LoansTyped
<1>2. HoldsOf(o) = o.held + o.copy /\ o.held \in 0..MaxBody /\ o.copy \in 0..MaxBody
  BY <1>1, LoanTyped DEF LoanAt
<1>3. e \in Loan /\ e.at = "read" /\ e.held = o.copy
  BY <1>1, <1>2, HeldEdited DEF LoanAt
<1> HIDE DEF e
<1>4. p \in Loan /\ p.at = "read" /\ p.held = o.copy /\ p.copy = 0
  <2>1. 0 \in 0..MaxBody BY DEF GuardBounds
  <2> QED BY <1>3, <2>1, CopyEdited DEF LoanAt, p
<1> HIDE DEF p
<1>5. HoldsOf(p) = o.copy BY <1>2, <1>4 DEF HoldsOf, GuardBounds
<1>6. /\ slots \in Nat /\ waiting \in Nat /\ used \in Nat /\ heavy \in 0..HeavySlots
      /\ slots <= BodySlots /\ used <= Budget
  BY <1>1 DEF LoansTyped, LoansExact
<1>7. used' = used - HoldsOf(o) + HoldsOf(p) /\ used' <= Budget /\ slots' = slots - 1 + 1
  BY <1>1, <1>2, <1>5, <1>6 DEF GuardBounds
<1> QED BY <1>1, <1>4, <1>6, <1>7, LoanMoves

LEMMA ReadEndsInv ==
    ASSUME GuardBounds, GuardInv, NEW q \in Calls, Guard!ReadFails(q) \/ Guard!ReadDone(q)
    PROVE  GuardInv'
<1> DEFINE o == req[q]
           p == [o EXCEPT !.at = o.kind]
<1>1. /\ LoansTyped /\ LoansExact /\ o \in Loan /\ o.at = "read" /\ o.copy = 0
      /\ slots' = slots - 1 /\ UNCHANGED <<waiting, heavy, refresh>>
  BY CapacityMeans DEF GuardInv, Guard!ReadFails, Guard!ReadDone, LoansTyped
<1>2. HoldsOf(o) = o.held /\ o.held \in Nat /\ o.kind \in {"handle", "refresh"}
  BY <1>1, LoanTyped DEF HoldsOf, GuardBounds, LoanAt
<1>3. /\ slots \in Nat /\ waiting \in Nat /\ used \in Nat /\ heavy \in 0..HeavySlots
      /\ slots <= BodySlots /\ used <= Budget
  BY <1>1 DEF LoansTyped, LoansExact
<1>4. CASE Guard!Become(q, Guard!Idle) /\ used' = used - o.held
  BY <1>1, <1>2, <1>3, <1>4, LoanReturned
<1>5. CASE Guard!Become(q, p) /\ used' = used
  <2>1. p \in Loan /\ p.at \in {"handle", "refresh"} /\ p.held = o.held
    BY <1>1, <1>2, AtEdited DEF LoanAt
  <2>2. HoldsOf(p) = o.held BY <1>2, <2>1 DEF HoldsOf
  <2> HIDE DEF p
  <2>3. used' = used - HoldsOf(o) + HoldsOf(p) /\ slots' <= BodySlots
    BY <1>1, <1>2, <1>3, <1>5, <2>2 DEF GuardBounds
  <2> QED BY <1>1, <1>3, <1>5, <2>1, <2>3, LoanMoves
<1> QED BY <1>4, <1>5 DEF Guard!ReadFails, Guard!ReadDone

\* The body is closed, once or twice.
LEMMA ClosedInv ==
    ASSUME GuardBounds, GuardInv, NEW q \in Calls, Guard!Decode(q) \/ Guard!Finish(q)
    PROVE  GuardInv'
<1> DEFINE o == req[q]
           e == [o EXCEPT !.at = "run"]
           p == [e EXCEPT !.held = 0]
<1>1. /\ LoansTyped /\ LoansExact /\ o \in Loan /\ o.at \in {"handle", "run"}
      /\ used' = used - o.held /\ UNCHANGED <<slots, waiting, heavy, refresh>>
  BY CapacityMeans DEF GuardInv, Guard!Decode, Guard!Finish, LoansTyped
<1>2. HoldsOf(o) = o.held /\ o.held \in Nat
  BY <1>1, LoanTyped DEF HoldsOf, GuardBounds
<1>3. /\ slots \in Nat /\ waiting \in Nat /\ used \in Nat /\ heavy \in 0..HeavySlots
      /\ slots <= BodySlots /\ used <= Budget
  BY <1>1 DEF LoansTyped, LoansExact
<1>4. CASE Guard!Finish(q)
  <2>1. Guard!Become(q, Guard!Idle) BY <1>4 DEF Guard!Finish
  <2> QED BY <1>1, <1>2, <1>3, <2>1, LoanReturned
<1>5. CASE Guard!Decode(q)
  <2>1. Guard!Become(q, p) BY <1>5 DEF Guard!Decode, Guard!AfterClose
  <2>2. e \in Loan /\ e.at = "run" BY <1>1, AtEdited DEF LoanAt
  <2> HIDE DEF e
  <2>3. p \in Loan /\ p.at = "run" /\ p.held = 0
    <3>1. 0 \in 0..MaxBody BY DEF GuardBounds
    <3> QED BY <2>2, <3>1, HeldEdited DEF LoanAt
  <2>4. HoldsOf(p) = 0 BY <2>3 DEF HoldsOf
  <2> HIDE DEF p
  <2>5. used' = used - HoldsOf(o) + HoldsOf(p) /\ used' <= Budget
    BY <1>1, <1>2, <1>3, <2>4 DEF GuardBounds
  <2> QED BY <1>1, <1>3, <2>1, <2>3, <2>5, LoanMoves
<1> QED BY <1>4, <1>5

LEMMA RefreshInv ==
    ASSUME GuardBounds, GuardInv, NEW q \in Calls, Guard!Refresh(q) \/ Guard!Unfollow(q)
    PROVE  GuardInv'
<1> DEFINE o == req[q]
<1>1. /\ LoansTyped /\ LoansExact /\ o \in Loan /\ o.at \in {"refresh", "follow"}
      /\ UNCHANGED <<slots, waiting>>
  BY CapacityMeans DEF GuardInv, Guard!Refresh, Guard!Unfollow, LoansTyped
<1>2. HoldsOf(o) = o.held /\ o.held \in 0..MaxBody /\ o.held \in Nat
  BY <1>1, LoanTyped DEF HoldsOf, GuardBounds
<1>3. /\ slots \in Nat /\ waiting \in Nat /\ used \in Nat /\ heavy \in 0..HeavySlots
      /\ slots <= BodySlots /\ used <= Budget /\ used = used - o.held + o.held
  BY <1>1, <1>2 DEF LoansTyped, LoansExact
<1>4. CASE Guard!Become(q, Guard!Idle) /\ used' = used - o.held /\ UNCHANGED <<heavy, refresh>>
  BY <1>1, <1>2, <1>3, <1>4, LoanReturned
<1>5. CASE Guard!Refresh(q) /\ refresh # Absent
  <2> DEFINE p == [at |-> "follow", held |-> o.held, leader |-> refresh]
  <2>1. Guard!Become(q, p) /\ UNCHANGED <<used, heavy, refresh>> /\ o.at = "refresh"
    BY <1>5 DEF Guard!Refresh
  <2>2. p \in Loan /\ p.at = "follow" /\ p.leader = refresh /\ HoldsOf(p) = o.held
    BY <1>1, <1>2, <1>5 DEF Loan, HoldsOf, LoansTyped
  <2> HIDE DEF p
  <2> QED BY <1>1, <1>2, <1>3, <2>1, <2>2, LoanMoves
<1>6. CASE Guard!Refresh(q) /\ refresh = Absent /\ heavy < HeavySlots
  <2> DEFINE p == [o EXCEPT !.at = "lead"]
  <2>1. Guard!Become(q, p) /\ used' = used /\ heavy' = heavy + 1 /\ refresh' = q
        /\ o.at = "refresh"
    BY <1>6 DEF Guard!Refresh
  <2>2. p \in Loan /\ p.at = "lead" /\ p.held = o.held BY <1>1, <2>1, AtEdited DEF LoanAt
  <2>3. HoldsOf(p) = o.held BY <1>2, <2>2 DEF HoldsOf
  <2> HIDE DEF p
  <2>4. heavy' \in 0..HeavySlots /\ heavy' >= 1 BY <1>3, <1>6, <2>1 DEF GuardBounds
  <2> QED BY <1>1, <1>2, <1>3, <1>6, <2>1, <2>2, <2>3, <2>4, LoanMoves
<1> QED BY <1>4, <1>5, <1>6 DEF Guard!Refresh, Guard!Unfollow, Guard!Refused

\* The refresh is over: its leader and all who follow give back their bytes.
LEMMA LandedInv ==
    ASSUME GuardBounds, GuardInv, NEW q \in Calls, Guard!Landed(q)
    PROVE  GuardInv'
<1> DEFINE A == {q} \cup {p \in Guard!At("follow") : req[p].leader = q}
           f == Holdings
           g == Holdings'
           m == 2 * MaxBody
<1>1. /\ LoansTyped /\ LoansExact /\ req[q].at = "lead" /\ refresh = q
      /\ \A p \in Calls : req[p].at = "lead" => p = q
  BY CapacityMeans DEF GuardInv, Guard!Landed
<1>2. A = {p \in Calls : req[p].at \in {"lead", "follow"}}
  BY <1>1 DEF LoansExact, Guard!At
<1> HIDE DEF A
<1>3. /\ refresh' = Absent /\ heavy' = heavy - 1 /\ UNCHANGED <<slots, waiting>>
      /\ used' = used - Total([p \in A |-> req[p].held])
      /\ req' = [p \in Calls |-> IF p \in A THEN Guard!Idle ELSE req[p]]
  BY SameTotals DEF Guard!Landed, A
<1>4. \A p \in Calls : req[p] \in Loan BY <1>1 DEF LoansTyped
<1>5. /\ \A p \in A : p \in Calls /\ req'[p] = Guard!Idle
      /\ \A p \in Calls \ A : req'[p] = req[p] /\ req'[p].at \notin {"lead", "follow"}
  BY <1>2, <1>3
<1>6. used' = Total(g) /\ Total(g) \in Nat /\ used' <= used
  <2>1. /\ f \in [Calls -> 0..m] /\ \A r \in Calls : f[r] = HoldsOf(req[r])
        /\ m \in Nat /\ IsFiniteSet(Calls) /\ A \subseteq Calls
    BY <1>1, <1>2, HoldingsTyped DEF GuardBounds
  <2>2. DOMAIN g = Calls /\ \A r \in Calls : g[r] = HoldsOf(req'[r])
    BY DEF Holdings, Guard!Holds, HoldsOf
  <2>3. \A p \in A : g[p] = 0 /\ f[p] = req[p].held
    BY <1>2, <1>4, <1>5, <2>1, <2>2, LoanIdle, LoanTyped
  <2>4. \A p \in Calls \ A : g[p] = f[p] BY <1>5, <2>1, <2>2
  <2>5. g \in [Calls -> 0..m]
    <3>1. \A r \in Calls : g[r] \in 0..m BY <2>1, <2>3, <2>4
    <3>2. g = [r \in Calls |-> g[r]] BY DEF Holdings
    <3> QED BY <3>1, <3>2
  <2>6. used = Total(f) BY <1>1 DEF LoansExact
  <2> HIDE DEF f, g, m
  <2> DEFINE fa == [p \in A |-> f[p]]
             ga == [p \in A |-> g[p]]
             fb == [p \in Calls \ A |-> f[p]]
             gb == [p \in Calls \ A |-> g[p]]
  <2>7. Total(f) = Total(fa) + Total(fb) /\ Total(g) = Total(ga) + Total(gb)
    <3>1. A \in SUBSET Calls BY <2>1
    <3>2. /\ m \in Nat /\ IsFiniteSet(Calls)
          /\ f \in [Calls -> 0..m] /\ g \in [Calls -> 0..m]
      BY <2>1, <2>5
    <3>3. Total(f) = Total(fa) + Total(fb) BY <3>1, <3>2, TotalSplit
    <3>4. Total(g) = Total(ga) + Total(gb) BY <3>1, <3>2, TotalSplit
    <3> QED BY <3>3, <3>4
  <2>8. fb = gb /\ fa = [p \in A |-> req[p].held] BY <2>3, <2>4
  <2>9. Total(ga) = 0
    <3>1. Units(ga) = {} BY <2>3 DEF Units
    <3> QED BY <3>1, FS_EmptySet DEF Total
  <2>10. Total(fa) \in Nat /\ Total(fb) \in Nat
    <3>1. IsFiniteSet(A) /\ IsFiniteSet(Calls \ A) BY <2>1, FS_Subset
    <3>2. fa \in [A -> 0..m] /\ fb \in [Calls \ A -> 0..m] BY <2>1
    <3> QED BY <2>1, <3>1, <3>2, UnitsCounted
  <2> HIDE DEF fa, fb, ga, gb
  <2> QED BY <1>3, <2>6, <2>7, <2>8, <2>9, <2>10
<1>7. \A at \in {"read", "wait"} : Guard!At(at)' = Guard!At(at)
  BY <1>2, <1>3, <1>5 DEF Guard!At, Guard!Idle
<1>8. heavy' \in 0..HeavySlots
  BY <1>1, <1>3 DEF LoansTyped, LoansExact, GuardBounds
<1>9. LoansTyped'
  BY <1>1, <1>3, <1>4, <1>6, <1>8, LoanIdle DEF LoansTyped
<1>10. LoansExact'
  <2>1. /\ slots' = Cardinality(Guard!At("read")') /\ slots' <= BodySlots
        /\ waiting' = Cardinality(Guard!At("wait")')
    BY <1>1, <1>3, <1>7 DEF LoansExact
  <2>2. Guard!At("follow")' = {} BY <1>5, LoanIdle DEF Guard!At, Guard!Idle
  <2>3. used' <= Budget BY <1>1, <1>3, <1>6 DEF LoansTyped, LoansExact, GuardBounds
  <2> QED BY <1>3, <1>6, <2>1, <2>2, <2>3 DEF LoansExact, Guard!At, Total, Units
<1>11. \A p \in Calls : /\ req'[p].at = "wait" => req'[p].held = 0 /\ req'[p].copy = 0
                        /\ req'[p].at = "lead" => refresh' = p
  BY <1>5 DEF GuardInv, Guard!Idle
<1> QED BY <1>9, <1>10, <1>11, CapacityMeans DEF GuardInv

LEMMA OtherHeavyInv ==
    ASSUME GuardBounds, GuardInv, Guard!OtherHeavy PROVE GuardInv'
<1>1. LoansTyped /\ LoansExact BY CapacityMeans DEF GuardInv
<1>2. UNCHANGED <<slots, waiting, used, refresh, req>> BY DEF Guard!OtherHeavy
<1>3. heavy' \in 0..HeavySlots /\ (refresh # Absent => heavy' >= 1)
  BY <1>1 DEF Guard!OtherHeavy, LoansTyped, GuardBounds
<1>4. LoansTyped' BY <1>1, <1>2, <1>3 DEF LoansTyped
<1>5. LoansExact'
  BY <1>1, <1>2, <1>3 DEF LoansExact, Guard!At, Holdings, Guard!Holds, Total, Units
<1> QED BY <1>2, <1>4, <1>5, CapacityMeans DEF GuardInv

LEMMA GuardInit == ASSUME GuardBounds, Guard!Init PROVE GuardInv
<1>1. \A q \in Calls : req[q] = Guard!Idle BY DEF Guard!Init
<1>2. LoansTyped BY LoanIdle DEF Guard!Init, LoansTyped, GuardBounds
<1>3. Total(Holdings) = 0
  <2>1. \A q \in Calls : Holdings[q] = 0 BY <1>1, <1>2, HoldingsTyped, LoanIdle
  <2>2. Units(Holdings) = {} BY <2>1 DEF Units, Holdings
  <2> QED BY <2>2, FS_EmptySet DEF Total
<1>4. \A at : at # "idle" => Guard!At(at) = {} BY <1>1 DEF Guard!At, Guard!Idle
<1>5. LoansExact
  BY <1>3, <1>4, FS_EmptySet DEF LoansExact, Guard!Init, GuardBounds
<1> QED BY <1>1, <1>2, <1>5, CapacityMeans, LoanIdle DEF GuardInv

LEMMA GuardStep ==
    ASSUME GuardBounds, GuardInv, Guard!Next \/ UNCHANGED Guard!vars
    PROVE  GuardInv'
<1>1. CASE UNCHANGED Guard!vars BY <1>1, GuardStutters DEF Guard!vars
<1>2. ASSUME NEW q \in Calls,
             \/ \E kind \in {"handle", "refresh"} : Guard!Arrive(q, kind)
             \/ Guard!Admit(q) \/ Guard!GiveUp(q)
             \/ \E n \in 1..MaxBody : Guard!Grow(q, n)
             \/ Guard!Copied(q) \/ Guard!ReadFails(q) \/ Guard!ReadDone(q)
      PROVE  GuardInv'
  BY <1>2, ArriveInv, AdmitInv, GrowInv, CopiedInv, ReadEndsInv
<1>3. ASSUME NEW q \in Calls,
             \/ Guard!Decode(q) \/ Guard!Finish(q)
             \/ Guard!Refresh(q) \/ Guard!Landed(q) \/ Guard!Unfollow(q)
      PROVE  GuardInv'
  BY <1>3, ClosedInv, RefreshInv, LandedInv
<1> QED BY <1>1, <1>2, <1>3, OtherHeavyInv DEF Guard!Next

-----------------------------------------------------------------------------
\* What requests may be sent to, for any keys, allowlists, policies, models and
\* requests.

RouteBounds ==
    /\ Serves \in [Members -> SUBSET Hosts]
    /\ Lineups \subseteq Seq(Members) /\ Absent \notin Members

KeyList == Lists \cup {Routes!NoList}
AppRow ==
    [at : {"new", "on", "off", "gone"}, user : BOOLEAN, list : KeyList,
     frozenFor : Nat, frozen : SUBSET Members]
Allowance == [list : KeyList, scopes : [Members -> SUBSET Hosts]]
QuestionAt == {"queued", "admitted", "member", "chosen", "sent", "started", "done"}
AskedOf(S) ==
    [at : QuestionAt, key : Apps, p : Allowance, opaque : BOOLEAN, members : Seq(S),
     sent : Seq(Members), shown : SUBSET Members, lawful : BOOLEAN]

\* What was read of the route is what is stored; an edit drops it.
CacheFits == cache \in {Absent, <<route>>}

\* Whatever a row lets its key use was approved.
KeysFit ==
    /\ key \in [Apps -> AppRow] /\ approved = [k \in Apps |-> approved[k]]
    /\ \A k \in Apps : key[k].frozen \cup key[k].list.explicit \subseteq approved[k]

RouteStored ==
    /\ route = Absent \/ route \in [id : Nat, enabled : BOOLEAN, members : Lineups]
    /\ edits \in Nat

\* How many members a request may still try, and who spoke to its client.
Tries(p) == IF p.opaque THEN 1 ELSE 2
VoiceFits(p) ==
    /\ p.at \in {"queued", "admitted"} => p.sent = <<>> /\ p.shown = {}
    /\ p.at \in {"member", "chosen"} =>
        Len(p.members) >= 1 /\ p.shown = {} /\ Len(p.sent) + Len(p.members) <= Tries(p)
    /\ p.at = "chosen" => Head(p.members) \in Members
    /\ p.at \in {"sent", "started"} =>
        /\ Len(p.members) >= 1 /\ Len(p.sent) + Len(p.members) <= Tries(p) + 1
        /\ Len(p.sent) >= 1 /\ p.sent[Len(p.sent)] = Head(p.members)
        /\ Head(p.members) \in Members
    /\ p.at = "sent" => p.shown = {}
    /\ p.at = "started" => p.shown = {p.sent[Len(p.sent)]}
    /\ p.at = "done" => Len(p.sent) <= Tries(p)
    /\ p.at = "done" /\ p.shown # {} => p.shown = {p.sent[Len(p.sent)]}

Asked(p) == (\E S : p \in AskedOf(S)) /\ p.lawful /\ VoiceFits(p)
QuestionsFit ==
    /\ question = [q \in Questions |-> question[q]]
    /\ \A q \in Questions : question[q] = Routes!Idle \/ Asked(question[q])

SetupFits == CacheFits /\ KeysFit /\ RouteStored
RoutesInv == SetupFits /\ QuestionsFit

\* Wherever a request is, it was sent no more often than it may be, and who
\* spoke is the last that was tried.
LEMMA VoiceMeans ==
    ASSUME NEW S, NEW p \in AskedOf(S), VoiceFits(p)
    PROVE  /\ Len(p.sent) <= Tries(p)
           /\ p.shown # {} => /\ p.at \in {"started", "done"}
                             /\ p.shown = {p.sent[Len(p.sent)]}
<1> DEFINE n == Len(p.sent)
           k == Len(p.members)
           t == Tries(p)
           last == p.sent[n]
<1>1. p.at \in QuestionAt /\ p.sent \in Seq(Members) /\ p.members \in Seq(S) BY DEF AskedOf
<1>2. n \in Nat /\ k \in Nat /\ t \in {1, 2} BY <1>1 DEF Tries
<1>3. p.at \in {"queued", "admitted"} => n = 0 /\ p.shown = {} BY DEF VoiceFits
<1>4. p.at \in {"member", "chosen"} => n + k <= t /\ p.shown = {} BY DEF VoiceFits
<1>5. p.at \in {"sent", "started"} =>
        /\ k >= 1 /\ n + k <= t + 1
        /\ IF p.at = "sent" THEN p.shown = {} ELSE p.shown = {last}
  BY DEF VoiceFits
<1>6. p.at = "done" => n <= t /\ (p.shown # {} => p.shown = {last}) BY DEF VoiceFits
<1> HIDE DEF n, k, t, last
<1>7. n <= t BY <1>1, <1>2, <1>3, <1>4, <1>5, <1>6 DEF QuestionAt
<1>8. p.shown # {} => p.at \in {"started", "done"} /\ p.shown = {last}
  BY <1>1, <1>3, <1>4, <1>5, <1>6 DEF QuestionAt
<1> QED BY <1>7, <1>8 DEF n, t, last

\* The invariant is more than what it is for.
LEMMA RoutesMean == ASSUME RoutesInv PROVE Routes!DispatchesLawful /\ Routes!OneVoice
<1>1. Routes!DispatchesLawful
  BY DEF RoutesInv, QuestionsFit, Asked, Routes!DispatchesLawful
<1>2. ASSUME NEW q \in Questions, question[q] # Routes!Idle
      PROVE  /\ question[q].shown # {} =>
                  /\ question[q].at \in {"started", "done"}
                  /\ question[q].shown = {Routes!Last(question[q].sent)}
             /\ Len(question[q].sent) <= IF question[q].opaque THEN 1 ELSE 2
  <2>1. PICK S : question[q] \in AskedOf(S)
    BY <1>2 DEF RoutesInv, QuestionsFit, Asked
  <2>2. VoiceFits(question[q]) BY <1>2 DEF RoutesInv, QuestionsFit, Asked
  <2> QED BY <2>1, <2>2, VoiceMeans DEF Routes!Last, Tries
<1> QED BY <1>1, <1>2 DEF Routes!OneVoice

LEMMA RouteRead ==
    ASSUME CacheFits PROVE Routes!Read = <<route>> /\ Routes!ModelRoute = route
BY DEF CacheFits, Routes!Read, Routes!ModelRoute

\* A scope is of accounts that serve the model.
LEMMA ScopeTyped ==
    ASSUME RouteBounds, SetupFits, NEW k \in Apps
    PROVE  Routes!Principal(k) \in Allowance
<1>1. \A m \in Members : Routes!Scope(m) \subseteq Serves[m] BY DEF Routes!Scope
<1>2. \A m \in Members : Serves[m] \subseteq Hosts BY DEF RouteBounds
<1>3. key[k].list \in KeyList BY DEF SetupFits, KeysFit, AppRow
<1> QED BY <1>1, <1>2, <1>3 DEF Routes!Principal, Allowance

\* The check before a dispatch asks for all that permits it, and asks it now.
LEMMA RefreshPermits ==
    ASSUME RouteBounds, SetupFits, NEW q \in Questions, question[q].key \in Apps,
           NEW m \in Members, NEW a, Routes!Refreshes(q, m, a)
    PROVE  Routes!Permitted(question[q].key, m, a)
<1> DEFINE k == question[q].key
           p == Routes!Principal(k)
<1>1. Routes!ModelRoute = route BY RouteRead DEF SetupFits
<1>2. m # Absent BY DEF RouteBounds
<1>3. /\ Routes!On(k) /\ route # Absent
      /\ m \in Routes!Candidates(k, p, route)
      /\ IF key[k].user THEN a \in p.scopes[m] ELSE a \notin policy.withdrawn
  BY <1>1, <1>2 DEF Routes!Refreshes
<1>4. m \in Routes!ToSet(route.members) /\ route.enabled /\ Routes!KeyAllows(k, p, route, m)
  BY <1>3 DEF Routes!Candidates
<1>5. p.list = key[k].list /\ (key[k].user => p.scopes[m] = Routes!Scope(m))
  BY DEF Routes!Principal
<1>6. key[k].user => /\ m \notin policy.disabled
                     /\ \/ a \in Own
                        \/ a \notin policy.withdrawn /\ m \in policy.defaults \cup policy.granted
  BY <1>3, <1>5 DEF Routes!Scope
<1>7. \/ key[k].list.policy = "follow"
      \/ ~key[k].user /\ Routes!Unrestricted(key[k].list)
      \/ m \in approved[k]
  <2>1. Routes!Granted(k, route) \subseteq key[k].frozen BY DEF Routes!Granted
  <2> QED BY <1>4, <1>5, <2>1 DEF Routes!KeyAllows, SetupFits, KeysFit
<1> QED BY <1>3, <1>4, <1>6, <1>7 DEF Routes!Permitted

-----------------------------------------------------------------------------
\* Edits.

LEMMA RowFits ==
    ASSUME SetupFits, RouteBounds, NEW u \in BOOLEAN, NEW l \in Lists
    PROVE  /\ Routes!Row(u, l) \in AppRow /\ Routes!Row(u, l).list = l
           /\ Routes!Row(u, l).at = "on"
<1>1. route # Absent => route.id \in Nat /\ Routes!ToSet(route.members) \subseteq Members
  <2>1. route # Absent => route.id \in Nat /\ route.members \in Seq(Members)
    BY DEF SetupFits, RouteStored, RouteBounds
  <2>2. \A s \in Seq(Members) : Routes!ToSet(s) \subseteq Members BY DEF Routes!ToSet
  <2> QED BY <2>1, <2>2
<1>2. Routes!captureRouteGrants(l) \subseteq Members BY <1>1 DEF Routes!captureRouteGrants
<1> QED BY <1>1, <1>2 DEF Routes!Row, AppRow, KeyList

LEMMA SavedInv ==
    ASSUME RoutesInv, NEW k \in Apps, NEW row \in AppRow, Routes!Saved(k, row)
    PROVE  RoutesInv'
<1>1. KeysFit' BY DEF RoutesInv, SetupFits, KeysFit, Routes!Saved
<1> QED BY <1>1 DEF RoutesInv, SetupFits, CacheFits, RouteStored, QuestionsFit, Routes!Saved

LEMMA KeyEditsInv ==
    ASSUME RouteBounds, RoutesInv, NEW k \in Apps, NEW l \in Lists,
           \/ Routes!AdminCreateApp(k, l) \/ Routes!PortalCreateKey(k, l)
           \/ Routes!AdminSetAppModels(k, l) \/ Routes!PortalSetKeyModels(k, l)
    PROVE  RoutesInv'
<1> USE DEF RoutesInv
<1>0. key[k] \in AppRow BY DEF SetupFits, KeysFit
<1>1. CASE Routes!AdminCreateApp(k, l)
  <2>1. Routes!Row(FALSE, l) \in AppRow BY RowFits
  <2> QED BY <1>1, <2>1, SavedInv DEF Routes!AdminCreateApp
<1>2. CASE Routes!PortalCreateKey(k, l)
  <2>1. Routes!Row(TRUE, l) \in AppRow BY RowFits
  <2> QED BY <1>2, <2>1, SavedInv DEF Routes!PortalCreateKey
<1>3. CASE Routes!AdminSetAppModels(k, l)
  <2>1. [Routes!Row(key[k].user, l) EXCEPT !.at = key[k].at] \in AppRow
    <3>1. key[k].user \in BOOLEAN /\ key[k].at \in {"new", "on", "off", "gone"}
      BY <1>0 DEF AppRow
    <3>2. Routes!Row(key[k].user, l) \in AppRow BY <3>1, RowFits
    <3> QED BY <3>1, <3>2 DEF AppRow
  <2> QED BY <1>3, <2>1, SavedInv DEF Routes!AdminSetAppModels
<1>4. CASE Routes!PortalSetKeyModels(k, l)
  <2>1. [Routes!Row(TRUE, l) EXCEPT !.at = key[k].at] \in AppRow
    <3>1. key[k].at \in {"new", "on", "off", "gone"} BY <1>0 DEF AppRow
    <3>2. Routes!Row(TRUE, l) \in AppRow BY RowFits
    <3> QED BY <3>1, <3>2 DEF AppRow
  <2> QED BY <1>4, <2>1, SavedInv DEF Routes!PortalSetKeyModels
<1> QED BY <1>1, <1>2, <1>3, <1>4

LEMMA ToggleInv ==
    ASSUME RoutesInv, NEW k \in Apps, Routes!ToggleApp(k) \/ Routes!DeleteApp(k)
    PROVE  RoutesInv'
<1> USE DEF RoutesInv
<1>1. KeysFit'
  <2>1. CASE Routes!ToggleApp(k)
    <3>1. key[k] \in AppRow BY DEF SetupFits, KeysFit
    <3> DEFINE row == [key[k] EXCEPT !.at = IF @ = "on" THEN "off" ELSE "on"]
    <3>2. row \in AppRow /\ row.frozen = key[k].frozen /\ row.list = key[k].list
      BY <3>1 DEF AppRow
    <3>3. key' = [key EXCEPT ![k] = row] /\ approved' = approved
      BY <2>1 DEF Routes!ToggleApp, SetupFits, KeysFit
    <3> HIDE DEF row
    <3> QED BY <3>2, <3>3 DEF SetupFits, KeysFit
  <2>2. CASE Routes!DeleteApp(k)
    <3>1. Routes!NoApp("gone") \in AppRow
      BY DEF Routes!NoApp, AppRow, KeyList
    <3>2. Routes!NoApp("gone").frozen = {} /\ Routes!NoApp("gone").list.explicit = {}
      BY DEF Routes!NoApp, Routes!NoList
    <3> QED BY <2>2, <3>1, <3>2 DEF SetupFits, KeysFit, Routes!DeleteApp
  <2> QED BY <2>1, <2>2
<1> QED BY <1>1 DEF SetupFits, CacheFits, RouteStored, QuestionsFit, Routes!ToggleApp,
       Routes!DeleteApp

LEMMA RouteEditsInv ==
    ASSUME RouteBounds, RoutesInv,
           \/ \E l \in Lineups, e \in BOOLEAN : Routes!SaveModelRoute(l, e)
           \/ Routes!DeleteModelRoute
    PROVE  RoutesInv'
<1> USE DEF RoutesInv
<1>1. ASSUME NEW l \in Lineups, NEW e \in BOOLEAN, Routes!SaveModelRoute(l, e)
      PROVE  RoutesInv'
  <2>1. RouteStored'
    <3>0. edits \in Nat BY DEF SetupFits, RouteStored
    <3>1. edits' \in Nat /\ edits' = edits + 1
      <4>1. edits' = edits + 1 BY <1>1 DEF Routes!SaveModelRoute
      <4> QED BY <3>0, <4>1
    <3>2. CASE route = Absent
      BY <1>1, <3>1, <3>2 DEF RouteStored, Routes!SaveModelRoute
    <3>3. CASE route # Absent
      BY <1>1, <3>1, <3>3 DEF SetupFits, RouteStored, Routes!SaveModelRoute
    <3> QED BY <3>2, <3>3
  <2> QED BY <1>1, <2>1 DEF SetupFits, CacheFits, KeysFit, QuestionsFit, Routes!SaveModelRoute,
          Routes!DropCache
<1>2. ASSUME Routes!DeleteModelRoute PROVE RoutesInv'
  <2>1. RouteStored' BY <1>2 DEF SetupFits, RouteStored, Routes!DeleteModelRoute
  <2>2. KeysFit'
    <3>1. \A k \in Apps : /\ Routes!GrantsGo(k) \in AppRow /\ Routes!GrantsGo(k).frozen = {}
                          /\ Routes!GrantsGo(k).list = key[k].list
      <4>1. \A r \in AppRow : /\ [r EXCEPT !.frozen = {}] \in AppRow
                              /\ [r EXCEPT !.frozen = {}].frozen = {}
                              /\ [r EXCEPT !.frozen = {}].list = r.list
        BY DEF AppRow
      <4> QED BY <4>1 DEF SetupFits, KeysFit, Routes!GrantsGo
    <3> QED BY <1>2, <3>1 DEF KeysFit, Routes!DeleteModelRoute
  <2> QED BY <1>2, <2>1, <2>2 DEF SetupFits, CacheFits, QuestionsFit,
          Routes!DeleteModelRoute, Routes!DropCache
<1> QED BY <1>1, <1>2

LEMMA PolicyEditsInv ==
    ASSUME RoutesInv,
           \/ \E p \in Policies : Routes!SetPolicy(p)
           \/ \E m \in Members : Routes!CatalogChanges(m)
           \/ Routes!Forget
    PROVE  RoutesInv'
BY DEF RoutesInv, SetupFits, CacheFits, KeysFit, RouteStored, QuestionsFit, Routes!SetPolicy,
       Routes!CatalogChanges, Routes!Forget, Routes!setup

-----------------------------------------------------------------------------
\* Requests.

\* Each leaves what was set up as it is, but may read the route.
SetupRead ==
    /\ cache' = cache \/ cache' = Routes!Read
    /\ UNCHANGED <<policy, ready, route, edits, key, approved>>

LEMMA SetupKept == ASSUME SetupFits, SetupRead PROVE SetupFits'
<1>1. Routes!Read = <<route>> BY RouteRead DEF SetupFits
<1> QED BY <1>1 DEF SetupFits, SetupRead, CacheFits, KeysFit, RouteStored

LEMMA AskedInv ==
    ASSUME RoutesInv, SetupRead, NEW q \in Questions, NEW p, Asked(p), Routes!Set(q, p)
    PROVE  RoutesInv'
<1>1. SetupFits' BY SetupKept DEF RoutesInv
<1>2. question' = [question EXCEPT ![q] = p] BY DEF Routes!Set
<1>3. QuestionsFit' BY <1>2 DEF RoutesInv, QuestionsFit
<1> QED BY <1>1, <1>3 DEF RoutesInv

\* A request under way: its fields, and what another step of it may change.
LEMMA AskedMeans ==
    ASSUME NEW p, Asked(p)
    PROVE  /\ p.at \in QuestionAt /\ p.key \in Apps /\ p.sent \in Seq(Members)
           /\ p.opaque \in BOOLEAN /\ p.shown \subseteq Members /\ p.lawful
           /\ \E S : p \in AskedOf(S) /\ p.members \in Seq(S)
           /\ Len(p.members) \in Nat
<1>1. PICK S : p \in AskedOf(S) BY DEF Asked
<1> QED BY <1>1 DEF Asked, AskedOf

LEMMA EndedFits ==
    ASSUME NEW p, Asked(p) PROVE Asked([p EXCEPT !.at = "done"])
<1> DEFINE e == [p EXCEPT !.at = "done"]
<1>1. PICK S : p \in AskedOf(S) BY DEF Asked
<1>2. /\ e \in AskedOf(S) /\ e.at = "done" /\ e.sent = p.sent /\ e.shown = p.shown
      /\ e.opaque = p.opaque /\ e.lawful = p.lawful
  BY <1>1 DEF AskedOf, QuestionAt
<1>3. p.at \in QuestionAt /\ p.sent \in Seq(Members) /\ Len(p.members) \in Nat
      /\ p.opaque \in BOOLEAN /\ p.lawful
  BY AskedMeans
<1>4. Len(p.sent) <= Tries(p) /\ (p.shown # {} => p.shown = {p.sent[Len(p.sent)]})
  BY <1>1, VoiceMeans DEF Asked
<1> HIDE DEF e
<1>5. VoiceFits(e) BY <1>2, <1>4 DEF VoiceFits, Tries
<1> QED BY <1>2, <1>3, <1>5 DEF Asked, e

LEMMA EndInv ==
    ASSUME RoutesInv, SetupRead, NEW q \in Questions, question[q] # Routes!Idle, Routes!End(q)
    PROVE  RoutesInv'
<1>1. Asked(question[q]) BY DEF RoutesInv, QuestionsFit
<1>2. Asked([question[q] EXCEPT !.at = "done"]) BY <1>1, EndedFits
<1> QED BY <1>2, AskedInv DEF Routes!End

LEMMA NotIdle ==
    ASSUME RoutesInv, NEW q \in Questions, question[q].at \in QuestionAt
    PROVE  question[q] # Routes!Idle /\ Asked(question[q]) /\ question[q].key \in Apps
<1>1. question[q] # Routes!Idle BY DEF Routes!Idle, QuestionAt
<1> QED BY <1>1, AskedMeans DEF RoutesInv, QuestionsFit

LEMMA PrepareInv ==
    ASSUME RouteBounds, RoutesInv, NEW q \in Questions, NEW k \in Apps, NEW o \in BOOLEAN,
           Routes!Prepare(q, k, o)
    PROVE  RoutesInv'
<1> DEFINE p == [at |-> "queued", key |-> k, p |-> Routes!Principal(k), opaque |-> o,
                 members |-> <<>>, sent |-> <<>>, shown |-> {}, lawful |-> TRUE]
<1>1. Routes!Principal(k) \in Allowance BY ScopeTyped DEF RoutesInv
<1>2. p \in AskedOf({}) BY <1>1 DEF AskedOf, QuestionAt
<1>3. Asked(p) BY <1>2 DEF Asked, VoiceFits
<1>4. Routes!Set(q, p) /\ SetupRead
  BY DEF Routes!Prepare, SetupRead, Routes!Filled
<1> HIDE DEF p
<1> QED BY <1>3, <1>4, AskedInv

LEMMA AdmittedInv ==
    ASSUME RouteBounds, RoutesInv, NEW q \in Questions, Routes!Admitted(q) PROVE RoutesInv'
<1> DEFINE k == question[q].key
           p == [question[q] EXCEPT !.at = "admitted", !.p = Routes!Principal(k)]
<1>0. question[q].at = "queued" BY DEF Routes!Admitted
<1>1. question[q] # Routes!Idle /\ Asked(question[q]) /\ k \in Apps
  BY <1>0, NotIdle DEF QuestionAt
<1>2. SetupRead BY DEF Routes!Admitted, SetupRead, Routes!Filled
<1>3. Asked(p)
  <2>1. Routes!Principal(k) \in Allowance BY <1>1, ScopeTyped DEF RoutesInv
  <2>2. PICK S : question[q] \in AskedOf(S) BY <1>1 DEF Asked
  <2>3. /\ p \in AskedOf(S) /\ p.at = "admitted" /\ p.sent = question[q].sent
        /\ p.shown = question[q].shown /\ p.lawful = question[q].lawful
    BY <2>1, <2>2 DEF AskedOf, QuestionAt
  <2> HIDE DEF p
  <2> QED BY <1>0, <1>1, <2>3 DEF Asked, VoiceFits
<1>4. Routes!Set(q, p) \/ Routes!End(q) BY DEF Routes!Admitted
<1> HIDE DEF p
<1> QED BY <1>1, <1>2, <1>3, <1>4, AskedInv, EndInv

\* Two members are tried, or for a continuation only the one it began with.
LEMMA PlannedFits ==
    ASSUME NEW line, NEW o \in BOOLEAN, NEW planned,
           planned = Routes!Ordered(line, o), planned # <<>>
    PROVE  \E S : /\ Routes!FirstTwo(planned) \in Seq(S)
                  /\ Len(Routes!FirstTwo(planned)) \in 1..(IF o THEN 1 ELSE 2)
<1> DEFINE x == planned[1]
           y == planned[2]
<1>1. <<x>> \in Seq({x, y}) /\ Len(<<x>>) = 1 OBVIOUS
<1>2. <<x, y>> \in Seq({x, y}) /\ Len(<<x, y>>) = 2 OBVIOUS
<1>3. o => planned = <<affinity>> BY DEF Routes!Ordered
<1>4. o => Len(planned) = 1 BY <1>3
<1>5. Routes!FirstTwo(planned) = IF Len(planned) = 1 THEN <<x>> ELSE <<x, y>>
  BY DEF Routes!FirstTwo
<1> HIDE DEF x, y
<1>6. CASE Len(planned) = 1
  <2>1. Routes!FirstTwo(planned) \in Seq({x, y}) /\ Len(Routes!FirstTwo(planned)) = 1
    BY <1>1, <1>5, <1>6
  <2> QED BY <2>1
<1>7. CASE Len(planned) # 1
  <2>1. Routes!FirstTwo(planned) \in Seq({x, y}) /\ Len(Routes!FirstTwo(planned)) = 2
    BY <1>2, <1>5, <1>7
  <2> QED BY <1>4, <1>7, <2>1
<1> QED BY <1>6, <1>7

LEMMA PlanInv ==
    ASSUME RouteBounds, RoutesInv, NEW q \in Questions, Routes!Plan(q) PROVE RoutesInv'
<1>0. question[q].at = "admitted" BY DEF Routes!Plan
<1>1. question[q] # Routes!Idle /\ Asked(question[q]) BY <1>0, NotIdle DEF QuestionAt
<1>2. SetupRead BY DEF Routes!Plan, SetupRead, Routes!Filled
<1>3. CASE Routes!End(q) BY <1>1, <1>2, <1>3, EndInv
<1>4. ASSUME NEW line, NEW planned, planned = Routes!Ordered(line, question[q].opaque),
             planned # <<>>,
             Routes!Set(q, [question[q] EXCEPT !.at = "member",
                                               !.members = Routes!FirstTwo(planned)])
      PROVE  RoutesInv'
  <2> DEFINE two == Routes!FirstTwo(planned)
             p == [question[q] EXCEPT !.at = "member", !.members = two]
  <2>1. question[q].opaque \in BOOLEAN /\ question[q].sent = <<>> /\ question[q].shown = {}
    BY <1>0, <1>1, AskedMeans DEF Asked, VoiceFits
  <2>2. PICK S : two \in Seq(S) /\ Len(two) \in 1..(IF question[q].opaque THEN 1 ELSE 2)
    BY <1>4, <2>1, PlannedFits
  <2>3. PICK T : question[q] \in AskedOf(T) BY <1>1 DEF Asked
  <2> HIDE DEF two
  <2>4. /\ p \in AskedOf(S) /\ p.at = "member" /\ p.sent = <<>> /\ p.shown = {}
        /\ p.members = two /\ p.opaque = question[q].opaque /\ p.lawful = question[q].lawful
    BY <2>1, <2>2, <2>3 DEF AskedOf, QuestionAt
  <2> HIDE DEF p
  <2>5. VoiceFits(p) BY <2>2, <2>4 DEF VoiceFits, Tries
  <2>6. Asked(p) BY <1>1, <2>4, <2>5 DEF Asked
  <2>7. Routes!Set(q, p) BY <1>4 DEF p, two
  <2> QED BY <1>2, <2>6, <2>7, AskedInv
<1>5. \/ Routes!End(q)
      \/ \E line, planned : /\ planned = Routes!Ordered(line, question[q].opaque)
                            /\ planned # <<>>
                            /\ Routes!Set(q, [question[q] EXCEPT !.at = "member",
                                                 !.members = Routes!FirstTwo(planned)])
  <2> DEFINE line == Routes!Lined(Routes!ModelRoute.members,
                       Routes!Candidates(question[q].key, question[q].p, Routes!ModelRoute))
             planned == Routes!Ordered(line, question[q].opaque)
  <2>1. \/ Routes!End(q)
        \/ planned # <<>> /\ Routes!Set(q, [question[q] EXCEPT !.at = "member",
                                                 !.members = Routes!FirstTwo(planned)])
    BY DEF Routes!Plan
  <2> HIDE DEF line
  <2> QED BY <2>1
<1> QED BY <1>3, <1>4, <1>5

\* What the next member leaves of a request's line.
LEMMA TailFits ==
    ASSUME NEW p, Asked(p), p.at \in {"member", "chosen", "sent"}, Len(p.members) > 1
    PROVE  Asked([p EXCEPT !.at = "member", !.members = Tail(p.members)])
<1> DEFINE t == [p EXCEPT !.at = "member", !.members = Tail(p.members)]
<1>1. PICK S : p \in AskedOf(S) BY DEF Asked
<1>2. p.members \in Seq(S) /\ p.sent \in Seq(Members) BY <1>1 DEF AskedOf
<1>3. Tail(p.members) \in Seq(S) /\ Len(Tail(p.members)) = Len(p.members) - 1 BY <1>2
<1>4. /\ t \in AskedOf(S) /\ t.at = "member" /\ t.members = Tail(p.members)
      /\ t.sent = p.sent /\ t.shown = p.shown /\ t.opaque = p.opaque /\ t.lawful = p.lawful
  BY <1>1, <1>3 DEF AskedOf, QuestionAt
<1>5. VoiceFits(p) /\ p.lawful BY DEF Asked
<1> DEFINE n == Len(p.sent)
           k == Len(p.members)
           most == Tries(p)
<1>6. n \in Nat /\ k \in Nat /\ k > 1 /\ most \in Nat BY <1>2 DEF Tries
<1>7. /\ p.at \in {"member", "chosen"} => n + k <= most
      /\ p.at = "sent" => n + k <= most + 1
      /\ p.shown = {}
  BY <1>5 DEF VoiceFits
<1>8. Tries(t) = most /\ Len(t.members) = k - 1 /\ Len(t.sent) = n
  BY <1>3, <1>4 DEF Tries
<1> HIDE DEF t, n, k, most
<1>0. k - 1 >= 1 /\ n + (k - 1) <= most BY <1>6, <1>7
<1>9. /\ Len(t.members) >= 1 /\ t.shown = {}
      /\ Len(t.sent) + Len(t.members) <= Tries(t)
  BY <1>0, <1>4, <1>7, <1>8
<1>10. VoiceFits(t) BY <1>4, <1>9 DEF VoiceFits
<1> QED BY <1>4, <1>5, <1>10 DEF Asked, t

LEMMA NextMemberInv ==
    ASSUME RouteBounds, RoutesInv, NEW q \in Questions, Routes!NextMember(q)
    PROVE  RoutesInv'
<1> DEFINE p == question[q]
           head == Head(p.members)
<1>0. p.at = "member" BY DEF Routes!NextMember
<1>1. p # Routes!Idle /\ Asked(p) BY <1>0, NotIdle DEF QuestionAt
<1>2. SetupRead BY DEF Routes!NextMember, SetupRead, Routes!Filled
<1>3. Routes!ModelRoute = route BY RouteRead DEF RoutesInv, SetupFits
<1>4. \/ /\ route # Absent /\ head \in Routes!Candidates(p.key, p.p, route)
         /\ Routes!Set(q, [p EXCEPT !.at = "chosen"])
      \/ Len(p.members) > 1 /\ Routes!Set(q, [p EXCEPT !.members = Tail(p.members)])
      \/ Routes!End(q)
  BY <1>3 DEF Routes!NextMember
<1>5. ASSUME route # Absent, head \in Routes!Candidates(p.key, p.p, route),
             Routes!Set(q, [p EXCEPT !.at = "chosen"])
      PROVE  RoutesInv'
  <2> DEFINE c == [p EXCEPT !.at = "chosen"]
  <2>1. head \in Members
    <3>1. head \in Routes!ToSet(route.members) BY <1>5 DEF Routes!Candidates
    <3>2. route.members \in Seq(Members)
      BY <1>5 DEF RoutesInv, SetupFits, RouteStored, RouteBounds
    <3> QED BY <3>1, <3>2 DEF Routes!ToSet
  <2>2. PICK S : p \in AskedOf(S) BY <1>1 DEF Asked
  <2>3. /\ c \in AskedOf(S) /\ c.at = "chosen" /\ c.members = p.members /\ c.sent = p.sent
        /\ c.shown = p.shown /\ c.opaque = p.opaque /\ c.lawful = p.lawful
    BY <2>2 DEF AskedOf, QuestionAt
  <2>4. VoiceFits(p) /\ p.lawful BY <1>1 DEF Asked
  <2>5. Asked(c)
    <3> HIDE DEF c
    <3>1. VoiceFits(c) BY <1>0, <2>1, <2>3, <2>4 DEF VoiceFits, Tries
    <3> QED BY <2>3, <2>4, <3>1 DEF Asked
  <2> HIDE DEF c, p
  <2>6. Routes!Set(q, c) BY <1>5 DEF c, p
  <2> QED BY <1>2, <2>5, <2>6, AskedInv
<1>6. ASSUME Len(p.members) > 1, Routes!Set(q, [p EXCEPT !.members = Tail(p.members)])
      PROVE  RoutesInv'
  <2> DEFINE t == [p EXCEPT !.at = "member", !.members = Tail(p.members)]
  <2>1. Asked(t) BY <1>0, <1>1, <1>6, TailFits
  <2>2. [p EXCEPT !.members = Tail(p.members)] = t
    <3>1. PICK S : p \in AskedOf(S) BY <1>1 DEF Asked
    <3> QED BY <1>0, <3>1 DEF AskedOf
  <2> HIDE DEF t, p
  <2>3. Routes!Set(q, t) BY <1>6, <2>2
  <2> QED BY <1>2, <2>1, <2>3, AskedInv
<1>7. CASE Routes!End(q) BY <1>1, <1>2, <1>7, EndInv
<1> QED BY <1>4, <1>5, <1>6, <1>7

\* What is sent is permitted when it is sent.
LEMMA DispatchInv ==
    ASSUME RouteBounds, RoutesInv, NEW q \in Questions, NEW a, Routes!Dispatch(q, a)
    PROVE  RoutesInv'
<1> DEFINE p == question[q]
           m == Head(p.members)
           lawful == p.lawful /\ Routes!Permitted(p.key, m, a)
           s == [p EXCEPT !.at = "sent", !.p = Routes!Principal(p.key),
                          !.sent = Append(p.sent, m), !.lawful = lawful]
<1>0. p.at = "chosen" BY DEF Routes!Dispatch
<1>1. p # Routes!Idle /\ Asked(p) /\ p.key \in Apps BY <1>0, NotIdle DEF QuestionAt
<1>2. SetupRead BY DEF Routes!Dispatch, SetupRead, Routes!Filled
<1>3. CASE ~Routes!Refreshes(q, m, a)
  <2>1. Routes!End(q) BY <1>3 DEF Routes!Dispatch, Routes!DispatchCheck
  <2> QED BY <1>1, <1>2, <2>1, EndInv
<1>4. CASE Routes!Refreshes(q, m, a)
  <2>1. VoiceFits(p) /\ p.lawful /\ m \in Members BY <1>0, <1>1 DEF Asked, VoiceFits
  <2>2. lawful BY <1>1, <1>4, <2>1, RefreshPermits DEF RoutesInv
  <2>3. Routes!Principal(p.key) \in Allowance BY <1>1, ScopeTyped DEF RoutesInv
  <2>4. PICK S : p \in AskedOf(S) BY <1>1 DEF Asked
  <2>5. Routes!Set(q, s) BY <1>4 DEF Routes!Dispatch, Routes!DispatchCheck
  <2> HIDE DEF lawful, m
  <2>6. p.sent \in Seq(Members) /\ Append(p.sent, m) \in Seq(Members)
    BY <2>1, <2>4 DEF AskedOf
  <2>7. /\ s \in AskedOf(S) /\ s.at = "sent" /\ s.sent = Append(p.sent, m)
        /\ s.members = p.members /\ s.shown = p.shown /\ s.opaque = p.opaque /\ s.lawful
    BY <2>2, <2>3, <2>4, <2>6 DEF AskedOf, QuestionAt
  <2>8. /\ Len(Append(p.sent, m)) = Len(p.sent) + 1
        /\ Append(p.sent, m)[Len(p.sent) + 1] = m
        /\ Len(p.sent) \in Nat /\ Len(p.members) \in Nat
    BY <2>1, <2>4, <2>6 DEF AskedOf
  <2>9. Len(p.members) >= 1 /\ p.shown = {} /\ Len(p.sent) + Len(p.members) <= Tries(p)
    BY <1>0, <2>1 DEF VoiceFits
  <2>10. VoiceFits(s)
    <3>1. Tries(s) = Tries(p) /\ Tries(p) \in Nat BY <2>7 DEF Tries
    <3>2. Head(s.members) = m BY <2>7 DEF m
    <3> HIDE DEF s, p
    <3>3. Len(s.sent) = Len(p.sent) + 1 /\ s.sent[Len(s.sent)] = m BY <2>7, <2>8
    <3>4. /\ Len(s.members) >= 1 /\ Len(s.sent) >= 1
          /\ Len(s.sent) + Len(s.members) <= Tries(s) + 1
      <4> DEFINE n == Len(p.sent)
                 k == Len(p.members)
                 most == Tries(p)
      <4>1. n \in Nat /\ k \in Nat /\ most \in Nat /\ k >= 1 /\ n + k <= most
        BY <2>8, <2>9, <3>1
      <4>2. Len(s.sent) = n + 1 /\ Len(s.members) = k /\ Tries(s) = most
        BY <2>7, <3>1, <3>3
      <4> HIDE DEF n, k, most
      <4>3. (n + 1) + k <= most + 1 /\ n + 1 >= 1 BY <4>1
      <4> QED BY <4>1, <4>2, <4>3
    <3> QED BY <2>1, <2>7, <2>9, <3>2, <3>3, <3>4 DEF VoiceFits
  <2>11. Asked(s) BY <2>7, <2>10 DEF Asked
  <2> HIDE DEF s
  <2> QED BY <1>2, <2>5, <2>11, AskedInv
<1> QED BY <1>3, <1>4

LEMMA AnswerInv ==
    ASSUME RouteBounds, RoutesInv, NEW q \in Questions,
           Routes!NoAccount(q) \/ Routes!Fails(q) \/ Routes!Completes(q)
    PROVE  RoutesInv'
<1> DEFINE p == question[q]
<1>0. p.at \in {"chosen", "sent", "started"}
  BY DEF Routes!NoAccount, Routes!Fails, Routes!Completes
<1>1. p # Routes!Idle /\ Asked(p) BY <1>0, NotIdle DEF QuestionAt
<1>2. SetupRead
  BY DEF Routes!NoAccount, Routes!Fails, Routes!Completes, SetupRead, Routes!setup
<1>3. CASE Routes!End(q) BY <1>1, <1>2, <1>3, EndInv
<1>4. ASSUME p.at \in {"chosen", "sent"}, Len(p.members) > 1,
             Routes!Set(q, [p EXCEPT !.at = "member", !.members = Tail(p.members)])
      PROVE  RoutesInv'
  <2> DEFINE t == [p EXCEPT !.at = "member", !.members = Tail(p.members)]
  <2>1. Asked(t) BY <1>1, <1>4, TailFits
  <2>2. Routes!Set(q, t) BY <1>4
  <2> HIDE DEF t
  <2> QED BY <1>2, <2>1, <2>2, AskedInv
<1> QED BY <1>3, <1>4
        DEF Routes!NoAccount, Routes!Fails, Routes!Completes, Routes!Retries

LEMMA OutputInv ==
    ASSUME RouteBounds, RoutesInv, NEW q \in Questions, Routes!Output(q) PROVE RoutesInv'
<1> DEFINE p == question[q]
           heard == p.shown \cup {Head(p.members)}
           o == [p EXCEPT !.at = "started", !.shown = heard]
<1>0. p.at = "sent" BY DEF Routes!Output
<1>1. Asked(p) BY <1>0, NotIdle DEF QuestionAt
<1>2. SetupRead BY DEF Routes!Output, SetupRead, Routes!setup
<1>3. /\ VoiceFits(p) /\ p.lawful /\ Head(p.members) \in Members
      /\ heard = {p.sent[Len(p.sent)]}
  BY <1>0, <1>1 DEF Asked, VoiceFits
<1>4. Routes!Set(q, o) BY DEF Routes!Output
<1>5. PICK S : p \in AskedOf(S) BY <1>1 DEF Asked
<1>6. heard \subseteq Members BY <1>3, <1>5 DEF AskedOf
<1> HIDE DEF heard
<1>7. /\ o \in AskedOf(S) /\ o.at = "started" /\ o.members = p.members /\ o.sent = p.sent
      /\ o.shown = heard /\ o.opaque = p.opaque /\ o.lawful = p.lawful
  BY <1>5, <1>6 DEF AskedOf, QuestionAt
<1> HIDE DEF o
<1>8. VoiceFits(o) BY <1>0, <1>3, <1>7 DEF VoiceFits, Tries
<1>9. Asked(o) BY <1>3, <1>7, <1>8 DEF Asked
<1> QED BY <1>2, <1>4, <1>9, AskedInv

-----------------------------------------------------------------------------
LEMMA RoutesInit == ASSUME RouteBounds, Routes!Init PROVE RoutesInv
<1> USE DEF Routes!Init
<1>1. KeysFit
  <2>1. Routes!NoApp("new") \in AppRow BY DEF Routes!NoApp, AppRow, KeyList
  <2>2. Routes!NoApp("new").frozen = {} /\ Routes!NoApp("new").list.explicit = {}
    BY DEF Routes!NoApp, Routes!NoList
  <2> QED BY <2>1, <2>2 DEF KeysFit
<1>2. RouteStored
  <2>1. PICK l \in Lineups : route = [id |-> 0, enabled |-> TRUE, members |-> l] OBVIOUS
  <2> QED BY <2>1 DEF RouteStored
<1>3. QuestionsFit BY DEF QuestionsFit
<1> QED BY <1>1, <1>2, <1>3 DEF RoutesInv, SetupFits, CacheFits

LEMMA RoutesStep ==
    ASSUME RouteBounds, RoutesInv, Routes!Next \/ UNCHANGED routing
    PROVE  RoutesInv'
<1>1. CASE UNCHANGED routing
  BY <1>1 DEF routing, RoutesInv, SetupFits, CacheFits, KeysFit, RouteStored, QuestionsFit
<1>2. CASE Routes!Next
  BY <1>2, KeyEditsInv, ToggleInv, RouteEditsInv, PolicyEditsInv, PrepareInv, AdmittedInv,
     PlanInv, NextMemberInv, DispatchInv, AnswerInv, OutputInv
  DEF Routes!Next
<1> QED BY <1>1, <1>2

\* In the gateway, a request is sent only where its key, the policy and the
\* consents allow it at that moment (refreshPortalRequest), and one member
\* speaks to its client (dispatchModelRoute).
THEOREM RoutesHold == GatewaySpec => []DispatchesLawful
<1> DEFINE Safe == part = "routes" => RoutesInv
<1>0. RouteBounds BY GatewayAssumption DEF RouteBounds
<1>1. GatewayInit => Safe BY <1>0, RoutesInit DEF GatewayInit
<1>2. Safe /\ [GatewayNext]_gateway => Safe'
  <2> SUFFICES ASSUME Safe, [GatewayNext]_gateway, part' = "routes" PROVE RoutesInv'
    OBVIOUS
  <2>1. part = "routes" /\ (Routes!Next \/ UNCHANGED routing)
    BY DEF gateway, GatewayNext, PeopleNext, InvitesNext, ScansNext, ImportsNext,
           MediaNext, QuotaNext, ChecksNext, CapacityNext, RoutesNext
  <2> QED BY <1>0, <2>1, RoutesStep
<1>3. Safe => DispatchesLawful BY RoutesMean DEF DispatchesLawful
<1> QED BY <1>1, <1>2, <1>3, PTL DEF GatewaySpec

-----------------------------------------------------------------------------
\* The gateway's people behave as they do alone.
LEMMA PeopleBehave == GatewaySpec => Spec
<1>1. GatewayInit => Init BY DEF GatewayInit, Apart
<1>2. [GatewayNext]_gateway => [Next]_vars
  BY DEF gateway, GatewayNext, PeopleNext
<1> QED BY <1>1, <1>2, PTL DEF GatewaySpec, Spec

\* In the gateway, what a session or an administrator stands for was proved by its
\* holder, and ownership is handed over (CreateUserSession, TransferOwner).
THEOREM GatewayIdentities == GatewaySpec => []IdentitiesProven /\ OwnershipStands
BY PeopleBehave, IdentitiesHold, OwnershipHolds, PTL

-----------------------------------------------------------------------------
\* Registrations that compete for one invite.
Newcomers == INSTANCE IdentityProofs
    WITH Users <- Clients, Secrets <- {Secret}, Codes <- {Code}, Settled <- NoClients,
         user <- x1, session <- x2, admins <- x3, issued <- x4, invite <- x5,
         redeemed <- x6, hashes <- x7, handler <- x8, ops <- x9, proof <- x10,
         expelled <- x11

LEMMA SameRegistrations ==
    /\ Registrations!Init <=> Newcomers!Init
    /\ Registrations!Next <=> Newcomers!Next
    /\ Registrations!TypeOK <=> Newcomers!TypeOK
    /\ Registrations!IdentitiesProven <=> Newcomers!IdentitiesProven
    /\ Registrations!InvitesExact <=> Newcomers!InvitesExact
  BY DEF
      Registrations!Cardinality, Newcomers!Cardinality, Registrations!IsFiniteSet,
      Newcomers!IsFiniteSet, Registrations!Min, Newcomers!Min,
      Registrations!Tokens, Newcomers!Tokens, Registrations!None, Newcomers!None,
      Registrations!vars, Newcomers!vars, Registrations!invites, Newcomers!invites,
      Registrations!ghosts, Newcomers!ghosts, Registrations!IsAdminRole,
      Newcomers!IsAdminRole, Registrations!Idle, Newcomers!Idle,
      Registrations!Return, Newcomers!Return, Registrations!Goto, Newcomers!Goto,
      Registrations!Arrive, Newcomers!Arrive, Registrations!Hashed,
      Newcomers!Hashed, Registrations!NewUser, Newcomers!NewUser,
      Registrations!Without, Newcomers!Without, Registrations!Invalidate,
      Newcomers!Invalidate, Registrations!Fresh, Newcomers!Fresh,
      Registrations!CreateUserSession, Newcomers!CreateUserSession,
      Registrations!PortalAccepts, Newcomers!PortalAccepts,
      Registrations!AdminAccepts, Newcomers!AdminAccepts, Registrations!LoginRead,
      Newcomers!LoginRead, Registrations!LoginRefused, Newcomers!LoginRefused,
      Registrations!LoginIssue, Newcomers!LoginIssue, Registrations!Replace,
      Newcomers!Replace, Registrations!Grant, Newcomers!Grant,
      Registrations!Logout, Newcomers!Logout, Registrations!DropStale,
      Newcomers!DropStale, Registrations!ChangeEnter, Newcomers!ChangeEnter,
      Registrations!ChangeRead, Newcomers!ChangeRead, Registrations!ChangeWrite,
      Newcomers!ChangeWrite, Registrations!Relogin, Newcomers!Relogin,
      Registrations!ActorEnter, Newcomers!ActorEnter, Registrations!Authority,
      Newcomers!Authority, Registrations!Create, Newcomers!Create,
      Registrations!Changes, Newcomers!Changes, Registrations!ManageIdentity,
      Newcomers!ManageIdentity, Registrations!Owners, Newcomers!Owners,
      Registrations!TransferOwner, Newcomers!TransferOwner, Registrations!Act,
      Newcomers!Act, Registrations!ActRefused, Newcomers!ActRefused,
      Registrations!Bootstrap, Newcomers!Bootstrap, Registrations!Open,
      Newcomers!Open, Registrations!SetInvite, Newcomers!SetInvite,
      Registrations!ExpireInvite, Newcomers!ExpireInvite,
      Registrations!RegisterCheck, Newcomers!RegisterCheck,
      Registrations!Redeemable, Newcomers!Redeemable, Registrations!Register,
      Newcomers!Register, Registrations!Welcome, Newcomers!Welcome,
      Registrations!Restart, Newcomers!Restart, Registrations!NoUser,
      Newcomers!NoUser, Registrations!Init, Newcomers!Init, Registrations!Request,
      Newcomers!Request, Registrations!Next, Newcomers!Next, Registrations!TypeOK,
      Newcomers!TypeOK, Registrations!SessionsProven, Newcomers!SessionsProven,
      Registrations!RevokedStaysOut, Newcomers!RevokedStaysOut,
      Registrations!IdentitiesProven, Newcomers!IdentitiesProven,
      Registrations!InvitesExact, Newcomers!InvitesExact

\* What the part assumes of its constants is what Identity assumes.
LEMMA ClientsFit ==
    /\ Newcomers!IsFiniteSet(Clients)
    /\ Recovery \notin Clients /\ NoCode \notin {Code}
    /\ NoClients \in [Clients -> {"none", "user", "admin", "owner"}]
    /\ Newcomers!Cardinality({u \in Clients : NoClients[u] = "owner"}) <= 1
    /\ Limits \subseteq Nat
    /\ {SessionCap, AdminCap, MaxOps, MaxTokens} \subseteq Nat \ {0}
<1>1. Newcomers!IsFiniteSet(Clients)
  BY GatewayAssumption DEF IsFiniteSet, Newcomers!IsFiniteSet
<1>2. {u \in Clients : NoClients[u] = "owner"} = {} BY DEF NoClients
<1>3. Newcomers!Cardinality({}) = 0
  <2>1. Newcomers!Cardinality({}) = Cardinality({})
    BY DEF Newcomers!Cardinality, Newcomers!IsFiniteSet, Cardinality, IsFiniteSet
  <2> QED BY <2>1, FS_EmptySet
<1>4. NoClients \in [Clients -> {"none", "user", "admin", "owner"}] BY DEF NoClients
<1>5. Recovery \notin Clients /\ NoCode # Code BY GatewayAssumption
<1> QED BY <1>1, <1>2, <1>3, <1>4, <1>5, IdentityAssumption

\* A day's bucket holds what its calls used or still reserve (ReservePortalQuota,
\* SettlePortalQuota); slots and bytes of requests are counted exactly and
\* within their bounds (requestGuard, bodyBudget); users have no more sessions
\* than they may, and an invite admits what it says (consumeInvite).
THEOREM BooksHold == GatewaySpec => []BooksExact
<1> DEFINE People == IdentityInv /\ CountsInv
           Invites == Newcomers!IdentityInv /\ Newcomers!CountsInv
           Inv == /\ People
                  /\ part = "invites" => Invites
                  /\ part = "quota" => LedgerInv
                  /\ part = "capacity" => GuardInv
<1>0. LedgerBounds /\ GuardBounds BY GatewayAssumption DEF LedgerBounds, GuardBounds
<1>1. GatewayInit => Inv
  <2> SUFFICES ASSUME GatewayInit PROVE Inv OBVIOUS
  <2>1. Init BY DEF GatewayInit, Apart
  <2>2. part = "invites" => Newcomers!Init BY SameRegistrations DEF GatewayInit
  <2>3. Newcomers!Init => Invites
    BY ClientsFit, Newcomers!InitIdentity, Newcomers!CountsInit
  <2>4. part = "quota" => Ledger!Init BY DEF GatewayInit
  <2>5. part = "capacity" => Guard!Init BY DEF GatewayInit
  <2> QED
    BY <1>0, <2>1, <2>2, <2>3, <2>4, <2>5, InitIdentity, CountsInit, LedgerInit, GuardInit
<1>2. Inv /\ [GatewayNext]_gateway => Inv'
  <2> SUFFICES ASSUME Inv, [GatewayNext]_gateway PROVE Inv' OBVIOUS
  <2>1. part' = part /\ [Next]_vars BY DEF gateway, GatewayNext, PeopleNext
  <2>2. People' BY <2>1, StepInv, StepCounts, CountsKept
  <2>3. CASE part = "invites"
    <3>1. Registrations!Next \/ UNCHANGED rest
      BY <2>3 DEF gateway, GatewayNext, PeopleNext, InvitesNext, ScansNext, ImportsNext,
                  MediaNext, QuotaNext, ChecksNext, CapacityNext
    <3>2. [Newcomers!Next]_(Newcomers!vars)
      BY <3>1, SameRegistrations DEF rest, Newcomers!vars
    <3>3. Newcomers!IdentityInv' /\ Newcomers!Counts
      BY <2>3, <3>2, ClientsFit, Newcomers!StepInv, Newcomers!StepCounts
    <3>4. Invites' BY <2>3, <3>3, ClientsFit, Newcomers!CountsKept
    <3> QED BY <2>1, <2>2, <2>3, <3>4
  <2>4. CASE part = "quota"
    <3>1. Ledger!Next \/ UNCHANGED charging
      BY <2>4 DEF gateway, GatewayNext, PeopleNext, InvitesNext, ScansNext, ImportsNext,
                  MediaNext, QuotaNext, ChecksNext, CapacityNext
    <3>2. UNCHANGED charging => UNCHANGED Ledger!vars BY DEF charging, Ledger!vars
    <3>3. LedgerInv' BY <1>0, <2>4, <3>1, <3>2, LedgerStep
    <3> QED BY <2>1, <2>2, <2>4, <3>3
  <2>5. CASE part = "capacity"
    <3>1. Guard!Next \/ UNCHANGED lending
      BY <2>5 DEF gateway, GatewayNext, PeopleNext, InvitesNext, ScansNext, ImportsNext,
                  MediaNext, QuotaNext, ChecksNext, CapacityNext
    <3>2. UNCHANGED lending => UNCHANGED Guard!vars BY DEF lending, Guard!vars
    <3>3. GuardInv' BY <1>0, <2>5, <3>1, <3>2, GuardStep
    <3> QED BY <2>1, <2>2, <2>5, <3>3
  <2> QED BY <2>1, <2>2, <2>3, <2>4, <2>5
<1>3. Inv => BooksExact
  <2> SUFFICES ASSUME Inv PROVE BooksExact OBVIOUS
  <2>1. TypeOK BY CountsMean
  <2>2. part = "invites" => /\ Registrations!TypeOK
                            /\ Registrations!IdentitiesProven
                            /\ Registrations!InvitesExact
    BY SameRegistrations, ClientsFit, Newcomers!CountsMean, Newcomers!CookiesMean
    DEF Newcomers!IdentityInv, Newcomers!InvitesInv
  <2>3. part = "quota" => Ledger!LedgerExact BY DEF LedgerInv
  <2>4. part = "capacity" => Guard!CapacityExact BY DEF GuardInv
  <2> QED BY <2>1, <2>2, <2>3, <2>4 DEF BooksExact
<1> QED BY <1>1, <1>2, <1>3, PTL DEF GatewaySpec
=============================================================================
