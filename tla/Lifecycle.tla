------------------------------ MODULE Lifecycle ------------------------------
(***************************************************************************)
(* How the service replaces itself: the updater of the running service     *)
(* (selfupdate/update.go), the helper process that exchanges the binaries  *)
(* (cmd/server/update.go), the gate that drains requests and the private   *)
(* control endpoint (cmd/server/reuse.go, main.go), and the coherent       *)
(* backups an update goes back to (app/backup.go, statebackup/gate.go,     *)
(* selfupdate/restore.go).                                                 *)
(*                                                                         *)
(* Service and helper are two processes that share only files and the      *)
(* control endpoint; each may crash between any two steps, and whoever     *)
(* supervises the service may start it whenever the data lock is free.     *)
(* Hashes stand for what they tell apart: the binary on disk is the old    *)
(* one or the candidate.  Requests are writes: a call that began keeps the *)
(* read side of the snapshot gate until its data is on disk.  MaxCrashes   *)
(* and MaxInstalls bound a behaviour.                                      *)
(***************************************************************************)
EXTENDS Naturals, FiniteSets, Sequences

CONSTANTS Writes, MaxInstalls, MaxCrashes, Kept

VARIABLES
    site,      \* how the service is deployed, and whether the candidate migrates data
    disk,      \* the binary, pending.json, the plans, staged.json and attempt.json
    data,      \* the live database and credential files
    rollback,  \* the archives pinned by the transactions
    archives,  \* the managed backups, oldest first
    server,    \* the service process
    calls,     \* the requests being served
    snapshot,  \* the backup under way
    control,   \* the control request of the helper, in the service
    helper,    \* the helper process
    ghost      \* what clients were told, and what happened to the gate

vars == <<site, disk, data, rollback, archives, server, calls, snapshot, control, helper,
          ghost>>

Transactions == 1..MaxInstalls

\* Phases in which pending.json stands for a transaction that is not over.
Busy == {"installing", "backup_ready", "verifying", "accepting", "acceptance_unknown",
         "recovery_required"}
Gating == Busy \ {"installing"}

Down == [up |-> FALSE, binary |-> "none", gated |-> FALSE, tx |-> 0, draining |-> FALSE,
         sched |-> FALSE, paused |-> FALSE, stopping |-> FALSE, install |-> 0]
Idle == [at |-> "none", tx |-> 0, left |-> FALSE]
NoHelper == [at |-> "none", tx |-> 0]
NoSnapshot == [by |-> "none", writes |-> {}, migrated |-> FALSE, torn |-> {}]

\* What a backup holds.
Copy(s) == [writes |-> s.writes, migrated |-> s.migrated, torn |-> s.torn]

-----------------------------------------------------------------------------
\* Starting the service: a changed binary of an open transaction starts closed.

\* Mutant: only the phase of verification keeps a started candidate closed.
StartsClosedVerifying == disk.phase = "verifying" /\ disk.binary = "new"

StartsClosed == disk.phase \in Gating /\ disk.binary = "new"

LockFree == ~server.up /\ helper.at \notin {"copy", "replace", "record", "restore",
                                           "restoring", "revert", "reverted"}

Started ==
    /\ server' = [Down EXCEPT !.up = TRUE, !.binary = disk.binary, !.gated = StartsClosed,
                              !.tx = disk.tx, !.draining = StartsClosed,
                              !.sched = ~StartsClosed]
    /\ data' = [data EXCEPT !.migrated = @ \/ (site.migrates /\ disk.binary = "new")]

\* The operator, systemd or a supervisor starts the service.
Start ==
    /\ LockFree
    /\ Started
    /\ disk' = IF disk.binary = "new" THEN [disk EXCEPT !.staged = FALSE] ELSE disk
    /\ UNCHANGED <<site, rollback, archives, calls, snapshot, control, helper, ghost>>

\* Leaving: requests, the backup under way and the control request go with it.
Gone == server' = Down /\ calls' = {} /\ snapshot' = NoSnapshot /\ control' = Idle

\* The service ends: asked to over the control endpoint, or crashed.
Exit ==
    /\ server.up
    /\ \/ server.stopping /\ UNCHANGED ghost
       \/ ghost.crashes < MaxCrashes /\ ghost' = [ghost EXCEPT !.crashes = @ + 1]
    /\ Gone
    /\ UNCHANGED <<site, disk, data, rollback, archives, helper>>

HelperCrashes ==
    /\ helper.at # "none"
    /\ ghost.crashes < MaxCrashes
    /\ ghost' = [ghost EXCEPT !.crashes = @ + 1]
    /\ helper' = NoHelper
    /\ control' = [control EXCEPT !.left = control.at # "none"]
    /\ UNCHANGED <<site, disk, data, rollback, archives, server, calls, snapshot>>

-----------------------------------------------------------------------------
\* Requests and backups.

\* Mutant: a snapshot is taken beside the calls that hold the gate.
SnapshotAnyway == snapshot.by = "none"

\* TrySnapshot: never beside a writer, and never waiting for one.
TrySnapshot == snapshot.by = "none" /\ calls = {}

\* A request passes the gate, waits for the capture of a backup to end, and writes.
Request(w) ==
    /\ server.up /\ ~server.draining /\ snapshot.by = "none"
    /\ w \notin calls \cup ghost.accepted
    /\ calls' = calls \cup {w}
    /\ UNCHANGED <<site, disk, data, rollback, archives, server, snapshot, control, helper,
                   ghost>>

Written(w) ==
    /\ w \in calls
    /\ data' = [data EXCEPT !.writes = @ \cup {w}]
    /\ ghost' = [ghost EXCEPT !.accepted = @ \cup {w},
                              !.late = IF helper.at # "none" /\ disk.phase = "backup_ready"
                                       THEN @ \cup {w} ELSE @]
    /\ calls' = calls \ {w}
    /\ UNCHANGED <<site, disk, rollback, archives, server, snapshot, control, helper>>

Capture(by) ==
    /\ TrySnapshot
    /\ snapshot' = [by |-> by, writes |-> data.writes, migrated |-> data.migrated,
                    torn |-> calls]

\* Only the newest Kept archives stay.
Archived ==
    LET all == Append(archives, Copy(snapshot))
        n == Len(all)
    IN  archives' = SubSeq(all, IF n > Kept THEN n - Kept + 1 ELSE 1, n)

\* A backup of the scheduler's or the administrator's; one that finds the gate
\* taken is tried again later.
ScheduledBackup ==
    /\ server.up /\ (server.sched \/ ~server.draining)
    /\ control.at \notin {"backup", "pin", "ready"}
    /\ Capture("schedule")
    /\ UNCHANGED <<site, disk, data, rollback, archives, server, calls, control, helper,
                   ghost>>

BackupEnds ==
    /\ snapshot.by = "schedule"
    /\ Archived \/ UNCHANGED archives
    /\ snapshot' = NoSnapshot
    /\ UNCHANGED <<site, disk, data, rollback, server, calls, control, helper, ghost>>

-----------------------------------------------------------------------------
\* The updater of the running service.

\* begin: no operation while a transaction is open.
MayBegin == server.up /\ ~server.draining /\ server.install = 0 /\ disk.phase \notin Busy

\* Check and Download: a verified candidate is staged, or a newer release drops it.
Stage ==
    /\ MayBegin /\ disk.binary = "old"
    /\ \E staged \in BOOLEAN : disk' = [disk EXCEPT !.staged = staged]
    /\ UNCHANGED <<site, data, rollback, archives, server, calls, snapshot, control, helper,
                   ghost>>

\* An administrator installs; the updater does by itself what needs no migration
\* and was not attempted within a day.
Install(automatic) ==
    LET tx == disk.last + 1 IN
    /\ MayBegin /\ disk.staged /\ tx \in Transactions
    /\ automatic => ~site.migrates /\ ~disk.attempted
    /\ server' = [server EXCEPT !.install = tx]
    /\ disk' = [disk EXCEPT !.plan[tx] = "installing", !.phase = "installing", !.tx = tx,
                            !.last = tx, !.attempted = TRUE]
    /\ UNCHANGED <<site, data, rollback, archives, calls, snapshot, control, helper, ghost>>

\* The helper is started, or the transaction fails.
Launch ==
    /\ server.up /\ server.install # 0
    /\ server' = [server EXCEPT !.install = 0]
    /\ \/ /\ helper.at = "none"
          /\ helper' = [at |-> "begin", tx |-> server.install]
          /\ UNCHANGED disk
       \/ /\ disk' = [disk EXCEPT !.phase = "failed", !.tx = server.install]
          /\ UNCHANGED helper
    /\ UNCHANGED <<site, data, rollback, archives, calls, snapshot, control, ghost>>

DayPasses ==
    /\ disk.attempted
    /\ disk' = [disk EXCEPT !.attempted = FALSE]
    /\ UNCHANGED <<site, data, rollback, archives, server, calls, snapshot, control, helper,
                   ghost>>

-----------------------------------------------------------------------------
\* The helper's POST: the service drains, pauses its scheduler and backs up.

Results(phase) ==
    disk' = [disk EXCEPT !.plan[helper.tx] = phase, !.phase = phase, !.tx = helper.tx]

HelperAt(at) == helper' = [helper EXCEPT !.at = at]

Post ==
    /\ helper.at = "begin"
    /\ disk.plan[helper.tx] = "installing" /\ disk.binary = "old"
    /\ IF server.up /\ ~server.draining /\ control.at = "none"
       THEN /\ server' = [server EXCEPT !.draining = TRUE]
            /\ control' = [at |-> "drain", tx |-> helper.tx, left |-> FALSE]
            /\ HelperAt("posted")
            /\ UNCHANGED disk
       ELSE Results("failed") /\ helper' = NoHelper /\ UNCHANGED <<server, control>>
    /\ UNCHANGED <<site, data, rollback, archives, calls, snapshot, ghost>>

\* The helper hears that its POST failed, or no longer waits for the answer.
Refused ==
    /\ helper.at = "posted"
    /\ control.at = "none" \/ ~server.up \/ ~control.left
    /\ control' = [control EXCEPT !.left = control.at # "none"]
    /\ Results("failed") /\ helper' = NoHelper
    /\ UNCHANGED <<site, data, rollback, archives, server, calls, snapshot, ghost>>

\* The gate opens again; the scheduler runs unless it is stopped for good.
Reopen(sched) ==
    /\ server' = [server EXCEPT !.draining = FALSE, !.sched = sched, !.paused = FALSE]
    /\ control' = Idle

Drained == control.at = "drain" /\ calls = {} /\ ~control.left

Drain ==
    /\ control.at = "drain"
    /\ \/ /\ Drained
          /\ control' = [control EXCEPT !.at = "pause"]
          /\ UNCHANGED server
       \/ Reopen(server.sched)
    /\ UNCHANGED <<site, disk, data, rollback, archives, calls, snapshot, helper, ghost>>

\* StopAndWait: a helper that is gone ends the wait, and the scheduler stays stopped.
Pause ==
    /\ control.at = "pause"
    /\ \/ /\ snapshot.by = "none"
          /\ server' = [server EXCEPT !.sched = FALSE, !.paused = TRUE]
          /\ control' = [control EXCEPT !.at = "prepare"]
       \/ control.left /\ Reopen(FALSE)
    /\ UNCHANGED <<site, disk, data, rollback, archives, calls, snapshot, helper, ghost>>

Prepare ==
    /\ control.at = "prepare"
    /\ \/ /\ disk.phase = "installing" /\ disk.tx = control.tx /\ disk.binary = "old"
          /\ Capture("update")
          /\ control' = [control EXCEPT !.at = "backup"]
          /\ UNCHANGED server
       \/ Reopen(TRUE) /\ UNCHANGED snapshot
    /\ UNCHANGED <<site, disk, data, rollback, archives, calls, helper, ghost>>

\* The archive is written, pinned and validated, or the service goes on.
Pin ==
    /\ control.at = "backup"
    /\ \/ /\ Archived
          /\ rollback' = [rollback EXCEPT ![control.tx] = {Copy(snapshot)}]
          /\ control' = [control EXCEPT !.at = "pin"]
          /\ UNCHANGED server
       \/ Reopen(TRUE) /\ UNCHANGED <<archives, rollback>>
    /\ snapshot' = NoSnapshot
    /\ UNCHANGED <<site, disk, data, calls, helper, ghost>>

PlanReady ==
    /\ control.at = "pin"
    /\ disk' = [disk EXCEPT !.plan[control.tx] = "backup_ready"]
    /\ control' = [control EXCEPT !.at = "ready"]
    /\ UNCHANGED <<site, data, rollback, archives, server, calls, snapshot, helper, ghost>>

\* The answer: a service that systemd does not stop goes by itself.
Prepared ==
    /\ control.at = "ready"
    /\ disk' = [disk EXCEPT !.phase = "backup_ready", !.tx = control.tx]
    /\ server' = [server EXCEPT !.stopping = site.kind = "plain"]
    /\ control' = Idle
    /\ IF helper.at = "posted" /\ helper.tx = control.tx THEN HelperAt("stop")
                                                         ELSE UNCHANGED helper
    /\ UNCHANGED <<site, data, rollback, archives, calls, snapshot, ghost>>

-----------------------------------------------------------------------------
\* The helper exchanges the binaries.

\* OPTIONS: an old service takes requests again.
Resume ==
    IF server.up /\ ~server.gated /\ disk.tx = helper.tx /\ disk.binary = "old"
    THEN server' = [server EXCEPT !.draining = FALSE, !.sched = @ \/ server.paused,
                                  !.paused = FALSE]
    ELSE UNCHANGED server

StopService ==
    /\ helper.at = "stop"
    /\ \/ /\ site.kind = "plain" \/ ~server.up
          /\ HelperAt("offline")
          /\ UNCHANGED <<disk, server, calls, snapshot, control>>
       \/ /\ site.kind = "systemd" /\ server.up
          /\ Gone /\ HelperAt("offline") /\ UNCHANGED disk
       \/ /\ site.kind = "systemd"
          /\ Resume /\ Results("failed") /\ helper' = NoHelper
          /\ UNCHANGED <<calls, snapshot, control>>
    /\ UNCHANGED <<site, data, rollback, archives, ghost>>

\* Mutant: the helper does not wait for the lock of the service.
OfflineAnyway == TRUE

Offline == ~server.up

TakeLock ==
    /\ helper.at = "offline"
    /\ \/ Offline /\ HelperAt("copy") /\ UNCHANGED disk
       \/ server.up /\ Results("failed") /\ helper' = NoHelper
    /\ UNCHANGED <<site, data, rollback, archives, server, calls, snapshot, control, ghost>>

\* Keeping the old binary fails: the old service is started, or needs a hand.
CopyOld ==
    /\ helper.at = "copy"
    /\ \/ HelperAt("replace") /\ UNCHANGED <<disk, server, data>>
       \/ Results("failed") /\ helper' = NoHelper /\ Started
       \/ /\ Results("recovery_required") /\ helper' = NoHelper
          /\ UNCHANGED <<server, data>>
    /\ UNCHANGED <<site, rollback, archives, calls, snapshot, control, ghost>>

Replace ==
    /\ helper.at = "replace"
    /\ \/ /\ disk' = [disk EXCEPT !.binary = "new"] /\ HelperAt("record")
          /\ UNCHANGED <<server, data>>
       \/ Results("failed") /\ helper' = NoHelper /\ Started
    /\ UNCHANGED <<site, rollback, archives, calls, snapshot, control, ghost>>

\* The exchange is recorded, or taken back (which may fail as well).
Record ==
    /\ helper.at = "record"
    /\ \/ disk' = [disk EXCEPT !.phase = "verifying", !.tx = helper.tx] /\ HelperAt("launch")
       \/ /\ \E b \in {"old", "new"} : disk' = [disk EXCEPT !.binary = b]
          /\ helper' = NoHelper
    /\ UNCHANGED <<site, data, rollback, archives, server, calls, snapshot, control, ghost>>

\* The candidate is started; systemd restarts what someone started before.
LaunchCandidate ==
    /\ helper.at = "launch"
    /\ \/ /\ ~server.up \/ site.kind = "systemd"
          /\ Started /\ calls' = {} /\ snapshot' = NoSnapshot /\ control' = Idle
          /\ HelperAt("verify")
       \/ /\ HelperAt(IF server.up THEN "verify" ELSE "undo")
          /\ UNCHANGED <<server, data, calls, snapshot, control>>
    /\ UNCHANGED <<site, disk, rollback, archives, ghost>>

\* PATCH answers with the candidate's build, from behind its closed gate.
Ready == server.up /\ server.gated /\ server.tx = helper.tx /\ server.binary = "new"

Verify ==
    /\ helper.at = "verify"
    /\ \/ Ready /\ Results("accepting") /\ HelperAt("accept")
       \/ HelperAt("undo") /\ UNCHANGED disk
    /\ UNCHANGED <<site, data, rollback, archives, server, calls, snapshot, control, ghost>>

\* PUT: the service records completion, then opens; its answer may be lost.
Accept ==
    /\ helper.at = "accept"
    /\ \/ /\ Ready
          /\ disk' = [disk EXCEPT !.phase = "complete", !.tx = server.tx]
          /\ server' = [server EXCEPT !.gated = FALSE, !.draining = FALSE, !.sched = TRUE]
          /\ ghost' = [ghost EXCEPT !.verified = TRUE]
          /\ \E answer \in {"complete", "unknown"} : HelperAt(answer)
       \/ HelperAt("unknown") /\ UNCHANGED <<disk, server, ghost>>
    /\ UNCHANGED <<site, data, rollback, archives, calls, snapshot, control>>

\* Mutant: an acceptance without an answer is rolled back.
AfterUnknownUndo == HelperAt("undo") /\ UNCHANGED disk

AfterUnknown == Results("acceptance_unknown") /\ helper' = NoHelper

Conclude ==
    /\ \/ helper.at = "complete" /\ Results("complete") /\ helper' = NoHelper
       \/ helper.at = "unknown" /\ AfterUnknown
    /\ UNCHANGED <<site, data, rollback, archives, server, calls, snapshot, control, ghost>>

-----------------------------------------------------------------------------
\* The helper goes back to the old binary and the old data.

\* DELETE stops a closed candidate only; systemd stops the unit unless the
\* transaction is complete.
Undo ==
    /\ helper.at = "undo"
    /\ HelperAt("reclaim")
    /\ \/ server' = [server EXCEPT !.stopping = @ \/ (server.up /\ server.gated)]
          /\ UNCHANGED <<calls, snapshot, control>>
       \/ site.kind = "systemd" /\ disk.phase # "complete" /\ Gone
    /\ UNCHANGED <<site, disk, data, rollback, archives, ghost>>

Reclaim ==
    /\ helper.at = "reclaim"
    /\ \/ Offline /\ HelperAt("restore") /\ UNCHANGED disk
       \/ server.up /\ Results("recovery_required") /\ helper' = NoHelper
    /\ UNCHANGED <<site, data, rollback, archives, server, calls, snapshot, control, ghost>>

\* Every file is replaced in turn: validated first, then one after the other.
Restore ==
    /\ helper.at = "restore"
    /\ \/ /\ data' = [data EXCEPT !.whole = FALSE] /\ HelperAt("restoring")
          /\ UNCHANGED disk
       \/ Results("recovery_required") /\ helper' = NoHelper /\ UNCHANGED data
    /\ UNCHANGED <<site, rollback, archives, server, calls, snapshot, control, ghost>>

Restored ==
    /\ helper.at = "restoring"
    /\ \/ /\ \E b \in rollback[helper.tx] :
                 data' = [writes |-> b.writes, migrated |-> b.migrated, whole |-> TRUE]
          /\ HelperAt("revert") /\ UNCHANGED disk
       \/ Results("recovery_required") /\ helper' = NoHelper /\ UNCHANGED data
    /\ UNCHANGED <<site, rollback, archives, server, calls, snapshot, control, ghost>>

\* Mutant: the old binary returns before the old data does.
RevertFirst ==
    /\ \/ helper.at = "restore" /\ HelperAt("reverted")
       \/ helper.at = "revert" /\ HelperAt("reverted")
    /\ disk' = [disk EXCEPT !.binary = "old"]

RevertBinary ==
    /\ helper.at = "revert"
    /\ \/ disk' = [disk EXCEPT !.binary = "old"] /\ HelperAt("reverted")
       \/ Results("recovery_required") /\ helper' = NoHelper

Revert ==
    /\ RevertBinary
    /\ UNCHANGED <<site, data, rollback, archives, server, calls, snapshot, control, ghost>>

\* The outcome is recorded, and the old service starts or needs a hand.
RolledBack ==
    /\ helper.at = "reverted"
    /\ helper' = NoHelper
    /\ \/ Results("rolled_back") /\ Started
       \/ Results("recovery_required") /\ UNCHANGED <<server, data>>
    /\ UNCHANGED <<site, rollback, archives, calls, snapshot, control, ghost>>

-----------------------------------------------------------------------------
Init ==
    /\ site \in [kind : {"plain", "systemd"}, migrates : BOOLEAN]
    /\ disk = [binary |-> "old", phase |-> "none", tx |-> 0, last |-> 0, staged |-> FALSE,
               attempted |-> FALSE, plan |-> [t \in Transactions |-> "none"]]
    /\ data = [writes |-> {}, migrated |-> FALSE, whole |-> TRUE]
    /\ rollback = [t \in Transactions |-> {}]
    /\ archives = <<>>
    /\ server = Down
    /\ calls = {}
    /\ snapshot = NoSnapshot
    /\ control = Idle
    /\ helper = NoHelper
    /\ ghost = [accepted |-> {}, verified |-> FALSE, late |-> {}, crashes |-> 0]

Next ==
    \/ Start \/ Exit \/ HelperCrashes
    \/ \E w \in Writes : Request(w) \/ Written(w)
    \/ ScheduledBackup \/ BackupEnds
    \/ Stage \/ Launch \/ DayPasses
    \/ \E automatic \in BOOLEAN : Install(automatic)
    \/ Post \/ Refused \/ Drain \/ Pause \/ Prepare \/ Pin \/ PlanReady \/ Prepared
    \/ StopService \/ TakeLock \/ CopyOld \/ Replace \/ Record \/ LaunchCandidate
    \/ Verify \/ Accept \/ Conclude
    \/ Undo \/ Reclaim \/ Restore \/ Restored \/ Revert \/ RolledBack

Spec == Init /\ [][Next]_vars

-----------------------------------------------------------------------------
\* A write that a client was told of is never lost to an update that is rolled
\* back, unless it was accepted by an old service that someone started again
\* after its backup was prepared, which nothing in the transaction notices.
NothingLost == data.whole => ghost.accepted \ ghost.late \subseteq data.writes

\* A service is open to requests only with the old binary on data no candidate
\* touched, or with a candidate the helper verified and opened.
OpensProven ==
    server.up =>
        /\ server.binary = "old" => data.whole /\ ~data.migrated
        /\ ~server.draining =>
               data.whole /\ (server.binary = "new" => ghost.verified)

UpdatesSafe == NothingLost /\ OpensProven

\* A backup never holds half of a call, whatever the calls and the scheduler do.
BackupsWhole ==
    /\ \A i \in DOMAIN archives : archives[i].torn = {}
    /\ \A t \in Transactions : \A b \in rollback[t] : b.torn = {} /\ ~b.migrated
==============================================================================
