---------------------------- MODULE Contributions ----------------------------
(***************************************************************************)
(* The accounts that portal users lend to the gateway: login tasks kept in *)
(* memory under portalMu, contributions kept in the store, and the account *)
(* registration that AccountMu serialises.  Three ways lead to a           *)
(* contribution: a WorkBuddy scan that the poll completes, a Qoder login   *)
(* that a goroutine completes and a poll activates, and the import of a    *)
(* token (Qoder, OpenCode).  Upstream answers, expiry, failures of a write *)
(* and what administrators do are free.                                    *)
(***************************************************************************)
EXTENDS Integers, FiniteSets

CONSTANTS
    Users,
    Scanned,      \* accounts that sign in by a WorkBuddy scan
    Channel,      \* accounts of the channels that reserve through a claim
    Tasks,        \* identities of login tasks, each used once
    Handlers,     \* requests and login goroutines in progress
    MaxPerUser,   \* PortalMaxTasksPerUser
    MaxTasks,     \* portalMaxTasks
    Nobody

Accounts == Scanned \cup Channel
Admins == "administrators"

VARIABLES
    active,       \* user -> account of the portal not disabled
    settled,      \* user -> no temporary password to change
    task,         \* portalTasks, and the tasks that are not in it
    contribution, \* account -> owner and status
    file,         \* account -> who proved the credentials that are stored
    pool,         \* account -> absent, off or on in the scheduling pool
    holder,       \* who holds AccountMu
    proc,         \* handler -> what it is doing
    consent,      \* account -> its owner asked to share it and has not withdrawn
    cancelled,    \* tasks whose cancellation removed them
    activator     \* account -> task that made it active last

vars == <<active, settled, task, contribution, file, pool, holder, proc,
          consent, cancelled, activator>>

people == <<active, settled>>
accounts == <<contribution, file, pool, consent, activator>>

Idle == [at |-> "idle"]
NoTask == [at |-> "new"]
Unowned == [owner |-> Nobody, status |-> "none"]

Held(t) == task[t].at \in {"reserved", "open"}
Gone(t) == [task[t] EXCEPT !.at = "gone"]
Live(t) == Held(t) /\ ~task[t].expired

Init ==
    /\ active = [u \in Users |-> TRUE]
    /\ settled = [u \in Users |-> TRUE]
    /\ task = [t \in Tasks |-> NoTask]
    /\ contribution = [a \in Accounts |-> Unowned]
    /\ file = [a \in Accounts |-> Nobody]
    /\ pool = [a \in Accounts |-> "absent"]
    /\ holder = Nobody
    /\ proc = [h \in Handlers |-> Idle]
    /\ consent = [a \in Accounts |-> FALSE]
    /\ cancelled = {}
    /\ activator = [a \in Accounts |-> Nobody]

Become(h, p) == proc' = [proc EXCEPT ![h] = p]
Answer(h) == Become(h, Idle)

-----------------------------------------------------------------------------
\* Login tasks.

\* The tasks that a begin leaves in the table: WorkBuddy's keeps an expired
\* task while a poll holds it, Qoder's does not.
Swept(kind) ==
    [t \in Tasks |->
        IF Held(t) /\ task[t].expired /\ (kind = "qoder" \/ ~task[t].polling)
        THEN Gone(t) ELSE task[t]]

\* Mutant: the reservation is made only after the upstream answered.
CountsOpenOnly(swept, u) ==
    /\ Cardinality({t \in Tasks : swept[t].at = "open" /\ swept[t].user = u}) < MaxPerUser
    /\ Cardinality({t \in Tasks : swept[t].at = "open"}) < MaxTasks

\* The caps count reservations as well as open tasks.
Room(swept, u) ==
    LET kept == {t \in Tasks : swept[t].at \in {"reserved", "open"}} IN
    /\ Cardinality({t \in kept : swept[t].user = u}) < MaxPerUser
    /\ Cardinality(kept) < MaxTasks

\* portalContributionBegin and the begin of portalQoderOAuth up to the call.
Begin(h, u, kind, t) ==
    LET swept == Swept(kind) IN
    /\ proc[h] = Idle
    /\ task[t] = NoTask
    /\ IF Room(swept, u)
       THEN /\ task' = [swept EXCEPT ![t] = [at |-> "reserved", user |-> u, kind |-> kind,
                                             expired |-> FALSE, polling |-> FALSE]]
            /\ Become(h, [at |-> "begin", task |-> t])
       ELSE task' = swept /\ UNCHANGED proc
    /\ UNCHANGED <<people, accounts, holder, cancelled>>

\* The upstream answers: the reservation becomes a task, or it is removed.
BeginAnswered(h) ==
    /\ proc[h].at = "begin"
    /\ \E at \in {"open", "gone"} : task' = [task EXCEPT ![proc[h].task].at = at]
    /\ Answer(h)
    /\ UNCHANGED <<people, accounts, holder, cancelled>>

\* Ten minutes pass.  A reservation lives no longer than its HTTP call.
Expire(t) ==
    /\ task[t].at = "open" /\ ~task[t].expired
    /\ task' = [task EXCEPT ![t].expired = TRUE]
    /\ UNCHANGED <<people, accounts, holder, proc, cancelled>>

\* portalContributionPoll up to the upstream call.
Poll(h, t) ==
    /\ proc[h] = Idle
    /\ task[t].at = "open" /\ task[t].kind = "scan"
    /\ IF task[t].expired
       THEN task' = [task EXCEPT ![t] = Gone(t)] /\ UNCHANGED proc
       ELSE /\ ~task[t].polling
            /\ task' = [task EXCEPT ![t].polling = TRUE]
            /\ Become(h, [at |-> "poll", task |-> t])
    /\ UNCHANGED <<people, accounts, holder, cancelled>>

\* A failed poll removes the task, a pending one gives it back.
PollWaits(h) ==
    LET t == proc[h].task IN
    /\ proc[h].at = "poll"
    /\ task' = [task EXCEPT ![t] = IF Held(t) THEN [@ EXCEPT !.polling = FALSE] ELSE @]
         \/ task' = [task EXCEPT ![t] = Gone(t)]
    /\ Answer(h)
    /\ UNCHANGED <<people, accounts, holder, cancelled>>

\* Mutant: a poll that comes back commits whatever happened to its task.
PollCommits(h, a) ==
    /\ proc[h].at = "poll"
    /\ task' = [task EXCEPT ![proc[h].task] = Gone(proc[h].task)]
    /\ Become(h, [at |-> "ready", task |-> proc[h].task, user |-> task[proc[h].task].user,
                  account |-> a])
    /\ UNCHANGED <<people, accounts, holder, cancelled>>

\* The scan is done: the task must still be there, and is taken out of the table.
PollReady(h, a) ==
    LET t == proc[h].task IN
    /\ proc[h].at = "poll"
    /\ IF Live(t)
       THEN /\ task' = [task EXCEPT ![t] = Gone(t)]
            /\ Become(h, [at |-> "ready", task |-> t, user |-> task[t].user, account |-> a])
       ELSE /\ task' = [task EXCEPT ![t] = IF Held(t) THEN [@ EXCEPT !.polling = FALSE] ELSE @]
            /\ Answer(h)
    /\ UNCHANGED <<people, accounts, holder, cancelled>>

\* portalContributionCancel, and the cancel of portalQoderOAuth.
Cancel(t) ==
    /\ task[t].at = "open"
    /\ task[t].kind = "qoder" => ~task[t].expired
    /\ task' = [task EXCEPT ![t] = Gone(t)]
    /\ cancelled' = cancelled \cup {t}
    /\ UNCHANGED <<people, accounts, holder, proc>>

-----------------------------------------------------------------------------
\* Contributions in the store.

\* Mutant: the account's owner is not compared.
ClaimableByAnyone(u, a, known) ==
    IF contribution[a] = Unowned THEN ~known ELSE contribution[a].status # "active"

\* Nobody's new account, or the user's own that is not shared now.
Claimable(u, a, known) ==
    IF contribution[a] = Unowned THEN ~known
    ELSE contribution[a].owner = u /\ contribution[a].status # "active"

\* CreateContribution, or SetContributionStatus from what was read.
Reserve(u, a) ==
    /\ contribution' = [contribution EXCEPT ![a] = [owner |-> u, status |-> "verifying"]]
    /\ consent' = [consent EXCEPT ![a] = TRUE]

\* Mutant: the user's state is the one that was read when the account was claimed.
ActivatesUnchecked(u, a) ==
    contribution[a] = [owner |-> u, status |-> "verifying"]

\* Mutant: the status is not compared.
ActivatesAny(u, a) == contribution[a].owner = u /\ active[u] /\ settled[u]

\* The condition of ActivateContribution's UPDATE.
Activates(u, a) ==
    /\ contribution[a] = [owner |-> u, status |-> "verifying"]
    /\ active[u] /\ settled[u]

ActivateContribution(u, a, by) ==
    /\ Activates(u, a)
    /\ contribution' = [contribution EXCEPT ![a].status = "active"]
    /\ activator' = [activator EXCEPT ![a] = by]

-----------------------------------------------------------------------------
\* completePortalContribution, under AccountMu.

\* The checks, and the reservation that precedes any write.
CompleteClaim(h) ==
    LET p == proc[h] IN
    /\ p.at = "ready" /\ holder = Nobody
    /\ IF active[p.user] /\ Claimable(p.user, p.account, pool[p.account] # "absent"
                                                          \/ file[p.account] # Nobody)
       THEN /\ Reserve(p.user, p.account)
            /\ holder' = h
            /\ Become(h, [p EXCEPT !.at = "claimed"])
       ELSE Answer(h) /\ UNCHANGED <<contribution, consent, holder>>
    /\ UNCHANGED <<people, task, file, pool, activator, cancelled>>

\* The old manager stops, the file is written, the account is registered off.
CompleteInstall(h) ==
    LET p == proc[h] IN
    /\ p.at = "claimed"
    /\ file' = [file EXCEPT ![p.account] = p.user]
    /\ pool' = [pool EXCEPT ![p.account] = "off"]
    /\ Become(h, [p EXCEPT !.at = "installed"])
    /\ UNCHANGED <<people, task, contribution, consent, activator, holder, cancelled>>

\* A step fails: what was done stays, the contribution stays unverified.
CompleteFails(h) ==
    LET p == proc[h] IN
    /\ p.at = "claimed"
    /\ file' \in {file, [file EXCEPT ![p.account] = p.user]}
    /\ holder' = Nobody /\ Answer(h)
    /\ UNCHANGED <<people, task, contribution, pool, consent, activator, cancelled>>

\* ActivateContribution, then the pool; a refusal leaves the account off.
CompleteActivate(h) ==
    LET p == proc[h] IN
    /\ p.at = "installed"
    /\ \/ /\ ActivateContribution(p.user, p.account, p.task)
          /\ pool' = [pool EXCEPT ![p.account] = IF @ = "absent" THEN @ ELSE "on"]
       \/ ~Activates(p.user, p.account) /\ UNCHANGED <<contribution, activator, pool>>
    /\ holder' = Nobody /\ Answer(h)
    /\ UNCHANGED <<people, task, file, consent, cancelled>>

-----------------------------------------------------------------------------
\* The channels: a claim callback reserves, the runtime saves, and the
\* contribution is activated without AccountMu.

\* AddAccountByToken has verified the token and looks whether it is known;
\* for a Qoder login the claim first asks whether its task lives.
ClaimLooks(h, u, a, t) ==
    /\ proc[h] = Idle
    /\ t # Nobody => Live(t) /\ task[t].kind = "qoder" /\ task[t].user = u
    /\ t # Nobody => \A g \in Handlers : proc[g].at \in {"looked", "saving"} => proc[g].task # t
    /\ Become(h, [at |-> "looked", task |-> t, user |-> u, account |-> a,
                  known |-> file[a] # Nobody])
    /\ UNCHANGED <<people, accounts, task, holder, cancelled>>

\* reserveChannelContribution.
ReserveChannel(h) ==
    LET p == proc[h] IN
    /\ p.at = "looked" /\ holder = Nobody
    /\ IF active[p.user] /\ settled[p.user] /\ Claimable(p.user, p.account, p.known)
       THEN Reserve(p.user, p.account) /\ Become(h, [p EXCEPT !.at = "saving"])
       ELSE Answer(h) /\ UNCHANGED <<contribution, consent>>
    /\ UNCHANGED <<people, task, file, pool, holder, activator, cancelled>>

\* SaveConfigDoc, or the account store, may fail; a Qoder login is then ready.
SaveChannel(h) ==
    LET p == proc[h] IN
    /\ p.at = "saving"
    /\ \/ /\ file' = [file EXCEPT ![p.account] = p.user]
          /\ pool' = [pool EXCEPT ![p.account] = "on"]
          /\ Become(h, IF p.task = Nobody THEN [p EXCEPT !.at = "saved"]
                       ELSE [p EXCEPT !.at = "signed"])
       \/ Answer(h) /\ UNCHANGED <<file, pool>>
    /\ UNCHANGED <<people, task, contribution, holder, consent, activator, cancelled>>

\* portalChannelImport activates what its claim reserved.
ImportActivate(h) ==
    LET p == proc[h] IN
    /\ p.at = "saved"
    /\ \/ ActivateContribution(p.user, p.account, Nobody)
       \/ ~Activates(p.user, p.account) /\ UNCHANGED <<contribution, activator>>
    /\ Answer(h)
    /\ UNCHANGED <<people, task, file, pool, holder, consent, cancelled>>

\* The poll of a signed Qoder login reads the contribution ...
QoderPoll(h) ==
    LET p == proc[h] IN
    /\ p.at = "signed" /\ task[p.task].at # "reserved"
    /\ IF Live(p.task) /\ contribution[p.account].owner = p.user
       THEN Become(h, [at |-> "read", task |-> p.task, user |-> p.user, account |-> p.account,
                       status |-> contribution[p.account].status])
       ELSE Answer(h)
    /\ UNCHANGED <<people, accounts, task, holder, cancelled>>

\* ... and activates it under portalMu if its task is still there.
QoderCommit(h) ==
    LET p == proc[h] IN
    /\ p.at = "read"
    /\ Answer(h)
    /\ IF ~Live(p.task) \/ (p.status = "verifying" /\ ~Activates(p.user, p.account))
       THEN UNCHANGED <<task, contribution, activator>>
       ELSE /\ task' = [task EXCEPT ![p.task] = Gone(p.task)]
            /\ IF p.status = "verifying" THEN ActivateContribution(p.user, p.account, p.task)
               ELSE UNCHANGED <<contribution, activator>>
    /\ UNCHANGED <<people, file, pool, holder, consent, cancelled>>

-----------------------------------------------------------------------------
\* The owner afterwards, and the administrators.

\* WithdrawContribution.
Revoke(a) ==
    /\ holder = Nobody /\ contribution[a].status = "active"
    /\ contribution' = [contribution EXCEPT ![a].status = "private"]
    /\ consent' = [consent EXCEPT ![a] = FALSE]
    /\ UNCHANGED <<people, task, file, pool, holder, proc, activator, cancelled>>

\* RestoreContributionSharing.
Share(a) ==
    /\ holder = Nobody /\ contribution[a].status = "private"
    /\ active[contribution[a].owner]
    /\ contribution' = [contribution EXCEPT ![a].status = "active"]
    /\ consent' = [consent EXCEPT ![a] = TRUE]
    /\ activator' = [activator EXCEPT ![a] = Nobody]
    /\ UNCHANGED <<people, task, file, pool, holder, proc, cancelled>>

\* adminPortalUserStatus; a reset password must be changed before it counts.
SetUserStatus(u) ==
    /\ active' = [active EXCEPT ![u] = ~@]
    /\ UNCHANGED <<settled, task, accounts, holder, proc, cancelled>>

ResetPassword(u) ==
    /\ settled' = [settled EXCEPT ![u] = ~@]
    /\ UNCHANGED <<active, task, accounts, holder, proc, cancelled>>

\* An administrator uploads credentials, or deletes the account; neither
\* touches the contribution.
AdminUpload(a) ==
    /\ holder = Nobody
    /\ file' = [file EXCEPT ![a] = Admins]
    /\ pool' = [pool EXCEPT ![a] = IF @ = "absent" THEN "on" ELSE @]
    /\ UNCHANGED <<people, task, contribution, consent, activator, holder, proc, cancelled>>

AdminDelete(a) ==
    /\ holder = Nobody /\ pool[a] # "absent"
    /\ file' = [file EXCEPT ![a] = Nobody]
    /\ pool' = [pool EXCEPT ![a] = "absent"]
    /\ UNCHANGED <<people, task, contribution, consent, activator, holder, proc, cancelled>>

Next ==
    \/ \E h \in Handlers :
        \/ \E u \in Users, t \in Tasks, kind \in {"scan", "qoder"} : Begin(h, u, kind, t)
        \/ BeginAnswered(h) \/ PollWaits(h)
        \/ \E t \in Tasks : Poll(h, t)
        \/ \E a \in Scanned : PollReady(h, a)
        \/ CompleteClaim(h) \/ CompleteInstall(h) \/ CompleteFails(h) \/ CompleteActivate(h)
        \/ \E u \in Users, a \in Channel, t \in Tasks \cup {Nobody} : ClaimLooks(h, u, a, t)
        \/ ReserveChannel(h) \/ SaveChannel(h) \/ ImportActivate(h)
        \/ QoderPoll(h) \/ QoderCommit(h)
    \/ \E t \in Tasks : Expire(t) \/ Cancel(t)
    \/ \E a \in Accounts : Revoke(a) \/ Share(a) \/ AdminUpload(a) \/ AdminDelete(a)
    \/ \E u \in Users : SetUserStatus(u) \/ ResetPassword(u)

Spec == Init /\ [][Next]_vars

-----------------------------------------------------------------------------
\* An account is shared only by the consent of its owner: withdrawn, it comes
\* back by the owner's own act alone; a task whose cancellation was confirmed
\* never shares anything; and the credentials that serve a contributed account
\* are those its owner proved, unless an administrator replaced them.
SharedByConsent ==
    \A a \in Accounts :
        /\ contribution[a].status = "active" => consent[a] /\ activator[a] \notin cancelled
        /\ contribution[a] # Unowned => file[a] \in {contribution[a].owner, Admins, Nobody}

\* A user's tasks, and all tasks, stay within their caps, begins under way
\* included.
TasksCapped ==
    /\ Cardinality({t \in Tasks : Held(t)}) <= MaxTasks
    /\ \A u \in Users : Cardinality({t \in Tasks : Held(t) /\ task[t].user = u}) <= MaxPerUser

\* No account starts to be shared for a user who is disabled at that moment,
\* whenever the account was claimed.
SharersLive ==
    \A a \in Accounts :
        contribution'[a].status = "active" /\ contribution[a].status # "active"
            => active[contribution'[a].owner]
===============================================================================
