----------------------------- MODULE QoderCheckin -----------------------------
(***************************************************************************)
(* The check-ins of Qoder: in every campaign window an account may claim a *)
(* benefit once.  A batch looks after the accounts at the same time; the   *)
(* scheduler starts a batch up to three times in a window, an              *)
(* administrator at will, and one that finds a batch under way shares its  *)
(* results.  A pause after a failure is on disk with the login it is of.   *)
(* The windows claimed are recorded in one file for all accounts, which is *)
(* read, extended and written in place.                                    *)
(*                                                                         *)
(* The statistics shown with a result are left out; a recorded amount that *)
(* is filled in later is one record.                                       *)
(***************************************************************************)
EXTENDS Integers, FiniteSets

CONSTANTS
    Accounts,
    LastWindow,  \* windows 1..LastWindow open one after the other
    MaxLogins,   \* bound: logins of an account
    MaxAttempts, \* tries of the scheduler in a window, three in the code
    MaxCrashes,  \* bound: crashes of the process
    Nobody

Windows == 1..LastWindow

VARIABLES
    window,    \* the campaign window that is open
    login,     \* the device token of each account
    claimed,   \* windows whose benefit the upstream granted
    file,      \* checkin_history.json: whole, and the windows of each account
    guard,     \* .checkin-maintenance.json
    auto,      \* what the scheduler's Maintain remembers
    batch,     \* the check-in under way, and who started it
    work,      \* the account's worker
    lock,      \* historyMu
    crashes,
    kept,      \* for the record: windows written to the file since it was last torn
    refused,   \* logins that the upstream refused
    failures   \* failed batches of the scheduler in this window, since it started

qcvars == <<window, login, claimed, file, guard, auto, batch, work, lock, crashes, kept,
            refused, failures>>
world == <<window, login, claimed, crashes>>
ghosts == <<kept, refused, failures>>

NoPause(of) == [of |-> of, kind |-> "", due |-> FALSE]
NoWork == [at |-> "none"]
Fresh == [window |-> 0, attempts |-> 0, resting |-> FALSE, waits |-> FALSE]

Init ==
    /\ window = 1 /\ login = [a \in Accounts |-> 1]
    /\ claimed = [a \in Accounts |-> {}]
    /\ file = [whole |-> TRUE, days |-> [a \in Accounts |-> {}]]
    /\ guard = [a \in Accounts |-> NoPause(0)]
    /\ auto = Fresh /\ batch = "none" /\ work = [a \in Accounts |-> NoWork]
    /\ lock = Nobody /\ crashes = 0
    /\ kept = claimed /\ refused = [a \in Accounts |-> {}] /\ failures = 0

-----------------------------------------------------------------------------
\* Around the check-in

NextWindow ==
    /\ window < LastWindow /\ window' = window + 1 /\ failures' = 0
    /\ UNCHANGED <<login, claimed, file, guard, auto, batch, work, lock, crashes, kept, refused>>

Relogin(a) ==
    /\ login[a] < MaxLogins /\ login' = [login EXCEPT ![a] = @ + 1]
    /\ UNCHANGED <<window, claimed, file, guard, auto, batch, work, lock, crashes, ghosts>>

\* The user claims at the desktop.
ClaimsElsewhere(a) ==
    /\ window \notin claimed[a] /\ claimed' = [claimed EXCEPT ![a] = @ \union {window}]
    /\ UNCHANGED <<window, login, file, guard, auto, batch, work, lock, crashes, ghosts>>

\* MaintenanceGuard.State: a pause is of one login.
StateOf(a, of) == IF guard[a].of = of THEN guard[a] ELSE NoPause(of)

\* The page of an account looks at its pause.
Look(a) ==
    /\ guard' = [guard EXCEPT ![a] = StateOf(a, login[a])] /\ guard' # guard
    /\ UNCHANGED <<world, file, auto, batch, work, lock, ghosts>>

PauseOver(a) ==
    /\ guard[a].kind = "temporary" /\ ~guard[a].due
    /\ guard' = [guard EXCEPT ![a].due = TRUE]
    /\ UNCHANGED <<world, file, auto, batch, work, lock, ghosts>>

HourOver ==
    /\ auto.resting /\ auto' = [auto EXCEPT !.resting = FALSE]
    /\ UNCHANGED <<world, file, guard, batch, work, lock, ghosts>>

\* Mutant: a restart begins with a clean guard.
CrashForgives ==
    /\ guard' = [a \in Accounts |-> NoPause(0)]
    /\ file' = file /\ kept' = kept

\* The guard is on disk; a file that was being written is torn.
CrashKeeps ==
    LET torn == \E a \in Accounts : work[a].at = "write" IN
    /\ guard' = guard
    /\ file' = IF torn THEN [file EXCEPT !.whole = FALSE] ELSE file
    /\ kept' = IF torn THEN [a \in Accounts |-> {}] ELSE kept

Crash ==
    /\ crashes < MaxCrashes /\ crashes' = crashes + 1
    /\ CrashKeeps
    /\ auto' = Fresh /\ batch' = "none" /\ work' = [a \in Accounts |-> NoWork]
    /\ lock' = Nobody /\ failures' = 0
    /\ UNCHANGED <<window, login, claimed, refused>>

-----------------------------------------------------------------------------
\* The batch

Waiting == [a \in Accounts |-> [at |-> "wait"]]

\* Maintain: a new window, or a try that is left and due, begins a batch or
\* waits for the one under way.
Schedule ==
    LET now == IF auto.window = window THEN auto ELSE [Fresh EXCEPT !.window = window] IN
    /\ ~auto.waits /\ now.attempts < MaxAttempts /\ ~now.resting
    /\ auto' = [now EXCEPT !.attempts = @ + 1, !.waits = TRUE]
    /\ IF batch = "none" THEN batch' = "auto" /\ work' = Waiting
       ELSE UNCHANGED <<batch, work>>
    /\ UNCHANGED <<world, file, guard, lock, ghosts>>

AdminCheckin ==
    /\ batch = "none" /\ batch' = "admin" /\ work' = Waiting
    /\ UNCHANGED <<world, file, guard, auto, lock, ghosts>>

\* The caller that started the batch leaves: nothing more is begun or sent.
Cancel ==
    /\ batch \in {"auto", "admin"} /\ batch' = "canceled"
    /\ UNCHANGED <<world, file, guard, auto, work, lock, ghosts>>

Statuses == {work[a].status : a \in {b \in Accounts : work[b].at = "done"}}

\* Mutant: whatever waits for an authorization gives the attempt back.
GivenBackAnyway(failed, waiting) == waiting

\* An attempt in which accounts only waited for an authorization does not count.
GivenBack(failed, waiting) == waiting /\ ~failed

\* All accounts are looked after, or left out.
BatchEnds ==
    LET failed == batch = "canceled" \/ "error" \in Statuses
        waiting == {"paused", "reauthorize"} \intersect Statuses # {}
        attempts == IF ~failed /\ ~waiting THEN MaxAttempts
                    ELSE IF GivenBack(failed, waiting) THEN auto.attempts - 1 ELSE auto.attempts
    IN /\ batch # "none" /\ \A a \in Accounts : work[a].at \in {"done", "left"}
       /\ batch' = "none" /\ work' = [a \in Accounts |-> NoWork]
       /\ auto' = IF auto.waits
                  THEN [auto EXCEPT !.attempts = attempts, !.resting = TRUE, !.waits = FALSE]
                  ELSE auto
       /\ failures' = IF auto.waits /\ failed /\ auto.window = window /\ failures <= MaxAttempts
                      THEN failures + 1 ELSE failures
       /\ UNCHANGED <<world, file, guard, lock, kept, refused>>

-----------------------------------------------------------------------------
\* A worker

Set(a, r) == work' = [work EXCEPT ![a] = r]
To(a, step) == Set(a, [work[a] EXCEPT !.at = step])
Result(a, status) == Set(a, [at |-> "done", status |-> status])
Live == batch # "canceled"

\* The account is hidden, without a token or of another region, or the caller
\* left.
Leave(a) ==
    /\ work[a].at = "wait" /\ Set(a, [at |-> "left"])
    /\ UNCHANGED <<world, file, guard, auto, batch, lock, ghosts>>

\* It reads the token and looks at the pause of this login.
Take(a) ==
    LET state == StateOf(a, login[a])
        begin(step) == Set(a, [at |-> step, of |-> login[a], date |-> 0])
    IN /\ work[a].at = "wait" /\ Live
       /\ guard' = [guard EXCEPT ![a] = state]
       /\ CASE state.kind = "" -> begin("list")
            [] state.kind = "login" -> Result(a, "reauthorize")
            [] state.kind = "temporary" /\ ~state.due -> Result(a, "paused")
            [] OTHER -> begin("probe")
       /\ UNCHANGED <<world, file, auto, batch, lock, ghosts>>

\* Mutant: the last observation stands.
ObservedLast(a, of, kind) ==
    IF guard[a].of # of THEN guard[a]
    ELSE [guard[a] EXCEPT !.kind = IF kind = "login" THEN "temporary" ELSE kind, !.due = FALSE]

\* MaintenanceGuard.Observe: not of another login, nor after a refusal.
Observed(a, of, kind) ==
    IF guard[a].of # of \/ guard[a].kind = "login" THEN guard[a]
    ELSE [of |-> of, kind |-> kind, due |-> FALSE]

\* The worker observed the answer of the upstream, unless its caller left.
Observe(a, kind) ==
    /\ guard' = IF Live THEN [guard EXCEPT ![a] = Observed(a, work[a].of, kind)] ELSE guard
    /\ refused' = IF Live /\ kind = "login" /\ guard[a].of = work[a].of
                  THEN [refused EXCEPT ![a] = @ \union {work[a].of}] ELSE refused

\* At the end of a pause the list is asked for once before anything else.
Probe(a, answer) ==
    /\ work[a].at = "probe"
    /\ \/ answer = "ok" /\ To(a, "list") /\ Observe(a, "")
       \/ /\ answer # "ok"
          /\ LET kind == [fails |-> "temporary", denied |-> "login"][answer]
                 seen == IF Live THEN Observed(a, work[a].of, kind) ELSE guard[a]
                 state == IF seen.of = work[a].of THEN seen ELSE NoPause(work[a].of)
             IN /\ guard' = [guard EXCEPT ![a] = state]
                /\ refused' = IF seen.kind = "login" /\ seen.of = work[a].of
                              THEN [refused EXCEPT ![a] = @ \union {work[a].of}] ELSE refused
                /\ Result(a, IF state.kind = "login" THEN "reauthorize" ELSE "paused")
    /\ UNCHANGED <<world, file, auto, batch, lock, kept, failures>>

\* The list of campaigns, with the benefit of the open window or none.
List(a, answer) ==
    /\ work[a].at = "list"
    /\ \/ /\ answer = "ok" /\ window \notin claimed[a]
          /\ Set(a, [work[a] EXCEPT !.at = "claim", !.date = window])
          /\ UNCHANGED <<guard, refused>>
       \/ /\ answer = "ok" /\ window \in claimed[a]
          /\ Set(a, [work[a] EXCEPT !.at = "record", !.date = window]) /\ Observe(a, "")
       \/ answer = "none" /\ Result(a, "no_campaign") /\ Observe(a, "")
       \/ answer = "fails" /\ Result(a, "error") /\ Observe(a, "temporary")
       \/ answer = "denied" /\ Result(a, "reauthorize") /\ Observe(a, "login")
    /\ UNCHANGED <<world, file, auto, batch, lock, kept, failures>>

\* Mutant: a claim whose answer was lost is on record.
ClaimFailsRecords(a, kind) == IF kind = "temporary" THEN To(a, "record") ELSE Result(a, "reauthorize")

\* The claim fails: nothing is known of the benefit.
ClaimFails(a, kind) == Result(a, IF kind = "temporary" THEN "error" ELSE "reauthorize")

\* The claim of the listed campaign.  One that was claimed meanwhile counts as
\* claimed; one whose window is over is refused; an answer may be lost.
Claim(a) ==
    /\ work[a].at = "claim"
    /\ \/ /\ work[a].date \in claimed[a] \union {window}
          /\ claimed' = [claimed EXCEPT ![a] = @ \union {work[a].date}]
          /\ \/ To(a, "record") /\ Observe(a, "")
             \/ ClaimFails(a, "temporary") /\ Observe(a, "temporary")
       \/ /\ \E kind \in {"temporary", "login"} : ClaimFails(a, kind) /\ Observe(a, kind)
          /\ UNCHANGED claimed
    /\ UNCHANGED <<window, login, crashes, file, auto, batch, lock, kept, failures>>

-----------------------------------------------------------------------------
\* finalizeCheckin and recordCheckinOn, under historyMu

\* Mutant: every worker has the file to itself.
MayWriteAlways == TRUE

MayWrite == lock = Nobody

\* A file that cannot be read is an empty one.
Loaded == IF file.whole THEN file.days ELSE [a \in Accounts |-> {}]

\* The file is read, and emptied to write it unless the window is in it.
BeginWrite(a) ==
    /\ work[a].at = "record" /\ MayWrite
    /\ IF work[a].date \in Loaded[a]
       THEN Result(a, "ok") /\ UNCHANGED lock
       ELSE /\ lock' = a
            /\ Set(a, [at |-> "write",
                       days |-> [Loaded EXCEPT ![a] = @ \union {work[a].date}]])
    /\ kept' = [kept EXCEPT ![a] = @ \union {work[a].date}]
    /\ UNCHANGED <<world, file, guard, auto, batch, refused, failures>>

EndWrite(a) ==
    /\ work[a].at = "write"
    /\ file' = [whole |-> TRUE, days |-> work[a].days]
    /\ lock' = Nobody /\ Result(a, "ok")
    /\ UNCHANGED <<world, guard, auto, batch, ghosts>>

Next ==
    \/ NextWindow \/ HourOver \/ Crash
    \/ Schedule \/ AdminCheckin \/ Cancel \/ BatchEnds
    \/ \E a \in Accounts :
        \/ Relogin(a) \/ ClaimsElsewhere(a) \/ Look(a) \/ PauseOver(a)
        \/ Leave(a) \/ Take(a) \/ Claim(a) \/ BeginWrite(a) \/ EndWrite(a)
        \/ \E answer \in {"ok", "fails", "denied"} : Probe(a, answer)
        \/ \E answer \in {"ok", "none", "fails", "denied"} : List(a, answer)

-----------------------------------------------------------------------------
\* Only windows that the upstream granted are on record.
RecordsTrue == \A a \in Accounts : file.days[a] \subseteq claimed[a]

\* What one worker recorded is not overwritten by another; it lasts until the
\* process dies while it writes.
RecordsKept ==
    \A a \in Accounts : work[a].at # "write" /\ lock = Nobody => kept[a] \subseteq Loaded[a]

\* A login that was refused is not sent again, not after a restart either.
RefusalsStand ==
    \A a \in Accounts :
        work[a].at \in {"probe", "list", "claim"} => work[a].of \notin refused[a]

\* The scheduler gives up a window after so many failures.
AttemptsBounded == failures <= MaxAttempts

CheckinsFit == RecordsTrue /\ RecordsKept /\ RefusalsStand /\ AttemptsBounded
===============================================================================
