------------------------------- MODULE MCGates -------------------------------
(***************************************************************************)
(* What holds requests back, for TLC: the queue of the admission           *)
(* controller (Admission) and the gates which an update of the service     *)
(* and its backups close (Lifecycle); and what is kept of requests         *)
(* (UsageUpkeep).  They share no state, so a behaviour is one of a single  *)
(* part.                                                                   *)
(***************************************************************************)
EXTENDS Admission

CONSTANTS r3, r4, app, user1, user2, m1, Writes, Film

\* Two requests of one portal user, one of another, one of an application.
ThreeKeys == [r \in Requests |->
    IF r = r4 THEN app ELSE IF r = r3 THEN user2 ELSE user1]
OneModel == [r \in Requests |-> m1]
UserLimit1 == [k \in Keys |-> IF k = user1 THEN 1 ELSE 0]
AnyAccount == [r \in Requests |-> Accounts]

VARIABLES part, x1, x2, x3, x4, x5, x6, x7, x8, x9, x10, x11

after8 == <<x9, x10, x11>>
all == <<x1, x2, x3, x4, x5, x6, x7, x8, after8>>

-----------------------------------------------------------------------------
\* Two attempts to install, and one crash of the service or the helper.
Update == INSTANCE Lifecycle
    WITH MaxInstalls <- 2, MaxCrashes <- 1, Kept <- 1,
         site <- x1, disk <- x2, data <- x3, rollback <- x4, archives <- x5, server <- x6,
         calls <- x7, snapshot <- x8, control <- x9, helper <- x10, ghost <- x11

\* Rows are kept for a day and one at most, or as long as their texts fit.
Keeping(days, rows, contentDays, budget) ==
    [days |-> days, rows |-> rows, contentDays |-> contentDays, budget |-> budget]

Records == INSTANCE UsageUpkeep
    WITH Policies <- {Keeping(1, 1, 0, 2), Keeping(0, 0, 1, 1)}, Batch <- 1, Films <- {Film},
         MaxId <- 3, LastDay <- 2, MaxSize <- 2, MaxCancels <- 1,
         policy <- x1, clock <- x2, written <- x3, logged <- x4, film <- x5,
         stage <- x6, round <- x7, cancels <- x8

No(x) == x = NoAccount

-----------------------------------------------------------------------------
GatesInit ==
    /\ Init
    /\ \/ /\ part = "queue"
          /\ No(x1) /\ No(x2) /\ No(x3) /\ No(x4) /\ No(x5) /\ No(x6)
          /\ No(x7) /\ No(x8) /\ No(x9) /\ No(x10) /\ No(x11)
       \/ part = "update" /\ Update!Init
       \/ part = "records" /\ Records!Init /\ No(x9) /\ No(x10) /\ No(x11)
    /\ part # "queue" => usable = Accounts

QueueNext == part = "queue" /\ Next /\ UNCHANGED all
UpdateNext == part = "update" /\ Update!Next /\ UNCHANGED vars
RecordsNext == part = "records" /\ Records!Next /\ UNCHANGED <<vars, after8>>

GatesNext == (QueueNext \/ UpdateNext \/ RecordsNext) /\ UNCHANGED part

GatesSpec == GatesInit /\ [][GatesNext]_<<part, vars, all>>

-----------------------------------------------------------------------------
\* An update that is rolled back loses nothing a client was told of, the service
\* opens only with a binary and data that fit, and a backup never holds half of
\* a call.
UpdatesSafe == part = "update" => Update!UpdatesSafe /\ Update!BackupsWhole

\* Usage records are kept within their limits, and no more of them is given up
\* than that takes.
UpkeepFits == part = "records" => Records!UpkeepFits
===============================================================================
