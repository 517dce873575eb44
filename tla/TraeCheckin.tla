------------------------------ MODULE TraeCheckin ------------------------------
(***************************************************************************)
(* The daily check-in of a Trae account.  Batches run one at a time; a     *)
(* marker is on disk before a claim is sent, because its answer may be     *)
(* lost and the process may stop.  Only the upstream's status, read again, *)
(* counts as checked in; the day and the login may change on the way.      *)
(***************************************************************************)
EXTENDS Integers, FiniteSets

CONSTANTS
    Batches,
    LastDay,     \* days 1..LastDay pass
    MaxObjects,  \* logins of the account, one after the other
    Nobody

Days == 1..LastDay

VARIABLES
    day,
    object,   \* the account's login, 0 when the account is deleted
    logins,   \* logins so far
    date,     \* a.CheckinDate, 0 for none
    marker,   \* the day in the claim marker, 0 without one
    record,   \* days in the check-in history
    row,      \* last_checkin_date in the account's row
    claims,   \* batch day -> claims accepted for the account since its last deletion
    checked,  \* days the upstream confirms
    permit,
    batch

vars == <<day, object, logins, date, marker, record, row, claims, checked, permit, batch>>
world == <<day, object, logins, date, marker, record, row, claims, checked>>

Idle == [at |-> "idle"]

Init ==
    /\ day = 1 /\ object = 1 /\ logins = 1 /\ date = 0 /\ marker = 0 /\ row = 0
    /\ record = {} /\ checked = {}
    /\ claims = [d \in Days |-> 0]
    /\ permit = Nobody
    /\ batch = [b \in Batches |-> Idle]

Set(b, r) == batch' = [batch EXCEPT ![b] = r]
To(b, step) == Set(b, [batch[b] EXCEPT !.at = step])
Result(b, status) == Set(b, [batch[b] EXCEPT !.at = "judge", !.status = status])
Leave(b) == Set(b, Idle) /\ permit' = IF permit = b THEN Nobody ELSE permit

Begin(b) ==
    /\ batch[b] = Idle
    /\ Set(b, [at |-> "wait"])
    /\ UNCHANGED <<world, permit>>

\* The permit is free: the batch fixes its day and looks at the account.
Acquire(b) ==
    /\ batch[b].at = "wait" /\ permit = Nobody
    /\ IF object = 0 \/ date = day THEN Leave(b)
       ELSE /\ permit' = b
            /\ Set(b, [at |-> "ask", today |-> day, of |-> object, status |-> "error",
                     counts |-> TRUE])
    /\ UNCHANGED world

\* Waiting, or before its account, a batch whose caller left stops.
Abandon(b) ==
    /\ batch[b].at \in {"wait", "ask"}
    /\ Leave(b)
    /\ UNCHANGED world

\* ensureMaintenance and CheckinStatus.
Ask(b, answer) ==
    /\ batch[b].at = "ask"
    /\ CASE answer = "failed" -> Result(b, "error")
         [] answer = "no campaign" -> Result(b, "no_campaign")
         [] answer = "status" /\ day \in checked -> Result(b, "already")
         [] answer = "status" /\ day \notin checked -> To(b, "mark")
    /\ UNCHANGED <<world, permit>>

\* Mutant: nothing is written before the claim.
MarksNothing(today) == marker

\* checkinSent, then markCheckinSent, which replaces the marker at once.
Marks(today) == today

Mark(b, ok) ==
    LET today == batch[b].today IN
    /\ batch[b].at = "mark"
    /\ CASE ~ok -> Result(b, "error") /\ UNCHANGED marker
         [] ok /\ marker = today -> Result(b, "pending") /\ UNCHANGED marker
         [] OTHER -> marker' = Marks(today) /\ To(b, "claim")
    /\ UNCHANGED <<day, object, logins, date, record, row, claims, checked, permit>>

\* Mutant: any failed claim is forgotten.
ClearsAnyFailure(outcome) == outcome # "accepted"

\* A business or authorization refusal is the only proof that nothing was accepted.
Clears(outcome) == outcome = "refused"

\* CheckinClaim: accepted, refused, or lost, when it may have been accepted.
Claim(b, outcome, accepted, cleared) ==
    LET today == batch[b].today IN
    /\ batch[b].at = "claim"
    /\ accepted => claims[today] < 2
    /\ outcome = "accepted" => accepted
    /\ outcome = "refused" => ~accepted
    /\ claims' = [claims EXCEPT ![today] = @ + (IF accepted /\ batch[b].counts THEN 1 ELSE 0)]
    /\ marker' = IF Clears(outcome) /\ cleared THEN 0 ELSE marker
    /\ CASE outcome = "accepted" -> To(b, "reread")
         [] outcome = "refused" -> Result(b, "error")
         [] OTHER -> Result(b, "pending")
    /\ UNCHANGED <<day, object, logins, date, record, row, checked, permit>>

\* Mutant: the acknowledgement of the claim is taken for the check-in.
ConfirmedByAck(read) == TRUE

Confirmed(read) == read /\ day \in checked

Reread(b, read) ==
    /\ batch[b].at = "reread"
    /\ Result(b, IF Confirmed(read) THEN "ok" ELSE "pending")
    /\ UNCHANGED <<world, permit>>

\* A result is recorded for the login that was asked about only.
Judge(b) ==
    LET r == batch[b] IN
    /\ r.at = "judge"
    /\ IF r.status \in {"ok", "already"} /\ object = r.of
       THEN To(b, "record") /\ UNCHANGED permit ELSE Leave(b)
    /\ UNCHANGED world

\* RecordCheckin: the account, and its row, may be gone by now.
Record(b) ==
    LET today == batch[b].today IN
    /\ batch[b].at = "record"
    /\ record' = record \cup {today}
    /\ row' = IF object = 0 THEN row ELSE today
    /\ To(b, "note")
    /\ UNCHANGED <<day, object, logins, date, marker, claims, checked, permit>>

\* The account in memory comes last.
Note(b) ==
    /\ batch[b].at = "note"
    /\ date' = IF object = batch[b].of THEN batch[b].today ELSE date
    /\ Leave(b)
    /\ UNCHANGED <<day, object, logins, marker, record, row, claims, checked>>

-----------------------------------------------------------------------------
\* The upstream confirms a claim when it likes, or one made elsewhere.
Confirm ==
    /\ day \notin checked
    /\ checked' = checked \cup {day}
    /\ UNCHANGED <<day, object, logins, date, marker, record, row, claims, permit, batch>>

Midnight ==
    /\ day < LastDay
    /\ day' = day + 1
    /\ UNCHANGED <<object, logins, date, marker, record, row, claims, checked, permit, batch>>

\* importAccount: the new login keeps the account's dates; a deleted account's
\* are gone, with its marker and its row.
Import ==
    /\ logins < MaxObjects
    /\ object' = logins + 1 /\ logins' = logins + 1
    /\ UNCHANGED <<day, date, marker, record, row, claims, checked, permit, batch>>

DeleteAccount ==
    /\ object # 0
    /\ object' = 0 /\ date' = 0 /\ marker' = 0 /\ row' = 0
    /\ claims' = [d \in Days |-> 0]
    /\ batch' = [b \in Batches |->
            IF batch[b].at \in {"idle", "wait"} THEN batch[b]
            ELSE [batch[b] EXCEPT !.counts = FALSE]]
    /\ UNCHANGED <<day, logins, record, checked, permit>>

\* The process stops; New loads the last date from the row.
Restart ==
    /\ batch # [b \in Batches |-> Idle]
    /\ date' = row
    /\ permit' = Nobody
    /\ batch' = [b \in Batches |-> Idle]
    /\ UNCHANGED <<day, object, logins, marker, record, row, claims, checked>>

Next ==
    \/ \E b \in Batches :
        \/ Begin(b) \/ Acquire(b) \/ Abandon(b) \/ Judge(b) \/ Record(b) \/ Note(b)
        \/ \E answer \in {"failed", "no campaign", "status"} : Ask(b, answer)
        \/ \E ok \in BOOLEAN : Mark(b, ok) \/ Reread(b, ok)
        \/ \E outcome \in {"accepted", "refused", "lost"}, accepted, cleared \in BOOLEAN :
                Claim(b, outcome, accepted, cleared)
    \/ Confirm \/ Midnight \/ Import \/ DeleteAccount \/ Restart

Spec == Init /\ [][Next]_vars

-----------------------------------------------------------------------------
\* The batches of a day send the upstream one claim it accepts, through lost
\* answers, restarts and new logins; a day counts as checked in only when the
\* upstream said so, that day or, for a batch over midnight, the next.
ClaimedOnce ==
    /\ \A d \in Days : claims[d] <= 1
    /\ \A d \in record : d \in checked \/ d + 1 \in checked
=============================================================================
