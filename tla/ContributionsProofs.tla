------------------------- MODULE ContributionsProofs -------------------------
(***************************************************************************)
(* Proofs about the accounts that portal users lend, for any number of     *)
(* users, accounts, login tasks and requests.                              *)
(***************************************************************************)
EXTENDS Contributions, FiniteSetTheorems, TLAPS

\* Tasks are counted, and nobody is none of them.
Bounds ==
    /\ IsFiniteSet(Tasks) /\ Nobody \notin Tasks
    /\ MaxTasks \in Nat /\ MaxPerUser \in Nat

-----------------------------------------------------------------------------
\* Types.

TaskRow ==
    {NoTask} \cup [at : {"reserved", "open", "gone"}, user : Users,
                   kind : {"scan", "qoder"}, expired : BOOLEAN, polling : BOOLEAN]

Contributed == [owner : Users, status : {"verifying", "active", "private"}]

\* What a handler knows at each place.
Beginning == [at : {"begin"}, task : Tasks]
Polling == [at : {"poll"}, task : Tasks]
Completing == [at : {"ready", "claimed", "installed"}, task : Tasks, user : Users,
               account : Scanned]
Claiming == [at : {"looked", "saving", "saved"}, task : Tasks \cup {Nobody}, user : Users,
             account : Channel, known : BOOLEAN]
Signed == [at : {"signed"}, task : Tasks, user : Users, account : Channel, known : BOOLEAN]
Reading == [at : {"read"}, task : Tasks, user : Users, account : Channel,
            status : {"verifying", "active", "private"}]

Places ==
    {Idle} \cup Beginning \cup Polling \cup Completing \cup Claiming \cup Signed \cup Reading

Typed ==
    /\ task \in [Tasks -> TaskRow]
    /\ contribution \in [Accounts -> Contributed \cup {Unowned}]
    /\ file \in [Accounts -> Users \cup {Admins, Nobody}]
    /\ consent \in [Accounts -> BOOLEAN]
    /\ activator \in [Accounts -> Tasks \cup {Nobody}]
    /\ proc \in [Handlers -> Places]
    /\ cancelled \subseteq Tasks

-----------------------------------------------------------------------------
\* The inductive invariant.  That a cancelled task shares nothing rests on who
\* takes a task out of the table: whoever activates for it has done so himself.

\* The credentials are the owner's, and what is or may become shared has consent.
OwnersFit ==
    \A a \in Accounts :
        /\ contribution[a] = Unowned => file[a] \in {Admins, Nobody}
        /\ contribution[a] # Unowned => file[a] \in {contribution[a].owner, Admins, Nobody}
        /\ contribution[a].status \in {"verifying", "active"} => consent[a]

\* Taken out of the table, and not by a cancellation.
Completed(t) == task[t].at = "gone" /\ t \notin cancelled

TasksFit ==
    /\ \A t \in Tasks : task[t].at = "reserved" => ~task[t].expired
    /\ \A t \in cancelled : task[t].at = "gone"
    /\ \A a \in Accounts : activator[a] # Nobody => Completed(activator[a])

\* A reservation is answered by the handler that made it.
BeginsFit ==
    \A h \in Handlers : proc[h].at = "begin" =>
        /\ task[proc[h].task].at = "reserved"
        /\ \A g \in Handlers : proc[g].at = "begin" /\ proc[g].task = proc[h].task => g = h

\* What a handler knows of its task and of its account.
Fits(p) ==
    /\ p.at \in {"poll", "read"} => task[p.task].at \in {"open", "gone"}
    /\ p.at \in {"ready", "claimed", "installed"} => Completed(p.task)
    /\ p.at \in {"claimed", "installed", "saving", "saved", "signed", "read"}
        => contribution[p.account] # Unowned /\ contribution[p.account].owner = p.user

HandlersFit == \A h \in Handlers : Fits(proc[h])

ContributionInv ==
    Typed /\ OwnersFit /\ TasksFit /\ BeginsFit /\ HandlersFit /\ TasksCapped

-----------------------------------------------------------------------------
\* What is known of a handler at each place.
LEMMA PlacesTyped ==
    ASSUME NEW p \in Places
    PROVE  /\ p.at = "begin" => p \in Beginning
           /\ p.at = "poll" => p \in Polling
           /\ p.at \in {"ready", "claimed", "installed"} => p \in Completing
           /\ p.at \in {"looked", "saving", "saved"} => p \in Claiming
           /\ p.at = "signed" => p \in Signed
           /\ p.at = "read" => p \in Reading
           /\ p.at \in {"idle", "begin", "poll", "ready", "claimed", "installed", "looked",
                        "saving", "saved", "signed", "read"}
           /\ p.at = "idle" => p = Idle
BY DEF Places, Idle, Beginning, Polling, Completing, Claiming, Signed, Reading

LEMMA RowsTyped ==
    ASSUME Typed, NEW t \in Tasks
    PROVE  /\ task[t].at = "new" => task[t] = NoTask
           /\ task[t].at # "new" =>
                task[t] \in [at : {"reserved", "open", "gone"}, user : Users,
                             kind : {"scan", "qoder"}, expired : BOOLEAN, polling : BOOLEAN]
           /\ task[t].at \in {"new", "reserved", "open", "gone"}
BY DEF Typed, TaskRow, NoTask

\* A contribution is nobody's or has an owner and a status.
LEMMA ContributionsTyped ==
    ASSUME Typed, NEW a \in Accounts
    PROVE  /\ contribution[a] # Unowned => contribution[a] \in Contributed
           /\ contribution[a] = Unowned => contribution[a].status = "none"
           /\ contribution[a].status # "none" => contribution[a] # Unowned
BY DEF Typed, Contributed, Unowned

-----------------------------------------------------------------------------
\* What every step leaves: tasks go one way, and an account keeps its owner.

TasksMove ==
    \A t \in Tasks :
        /\ task[t].at = "gone" => task'[t].at = "gone"
        /\ task[t].at = "open" => task'[t].at \in {"open", "gone"}
        /\ Completed(t) => Completed(t)'

OwnersStay ==
    \A a \in Accounts : contribution[a] # Unowned =>
        contribution'[a] # Unowned /\ contribution'[a].owner = contribution[a].owner

LEMMA FitsStay ==
    ASSUME TasksMove, OwnersStay, NEW p \in Places, Fits(p)
    PROVE  /\ p.at \in {"poll", "read"} => task'[p.task].at \in {"open", "gone"}
           /\ p.at \in {"ready", "claimed", "installed"} => Completed(p.task)'
           /\ p.at \in {"claimed", "installed", "saving", "saved", "signed", "read"} =>
                contribution'[p.account] # Unowned /\ contribution'[p.account].owner = p.user
<1>1. p.at \in {"poll", "read", "ready", "claimed", "installed"} => p.task \in Tasks
  BY PlacesTyped DEF Polling, Reading, Completing
<1>2. p.at \in {"claimed", "installed", "saving", "saved", "signed", "read"}
      => p.account \in Accounts
  BY PlacesTyped DEF Completing, Claiming, Signed, Reading, Accounts
<1> QED BY <1>1, <1>2 DEF Fits, TasksMove, OwnersStay

\* The handlers other than the one that moves.
LEMMA HandlersStay ==
    ASSUME Typed, HandlersFit, TasksMove, OwnersStay, NEW h \in Handlers,
           \A g \in Handlers \ {h} : proc'[g] = proc[g],
           Fits(proc[h])'
    PROVE  HandlersFit'
<1> SUFFICES ASSUME NEW g \in Handlers, g # h PROVE Fits(proc[g])'
  BY DEF HandlersFit
<1>1. proc'[g] = proc[g] /\ proc[g] \in Places /\ Fits(proc[g])
  BY DEF Typed, HandlersFit
<1> QED BY <1>1, FitsStay DEF Fits

LEMMA HandlersRest ==
    ASSUME Typed, HandlersFit, TasksMove, OwnersStay, UNCHANGED proc
    PROVE  HandlersFit'
<1> SUFFICES ASSUME NEW g \in Handlers PROVE Fits(proc[g])'
  BY DEF HandlersFit
<1>1. proc'[g] = proc[g] /\ proc[g] \in Places /\ Fits(proc[g])
  BY DEF Typed, HandlersFit
<1> QED BY <1>1, FitsStay DEF Fits

\* Tasks that are held afterwards were held before.
LEMMA CapsStay ==
    ASSUME Bounds, TasksCapped,
           \A t \in Tasks : Held(t)' => Held(t) /\ task'[t].user = task[t].user
    PROVE  TasksCapped'
<1> DEFINE H == {t \in Tasks : Held(t)}
           Of(u) == {t \in Tasks : Held(t) /\ task[t].user = u}
<1>1. Cardinality(H') <= Cardinality(H)
  <2>1. H' \subseteq H OBVIOUS
  <2>2. IsFiniteSet(H) BY FS_Subset DEF Bounds
  <2> QED BY <2>1, <2>2, FS_Subset
<1>2. ASSUME NEW u \in Users PROVE Cardinality(Of(u)') <= Cardinality(Of(u))
  <2>1. Of(u)' \subseteq Of(u) OBVIOUS
  <2>2. IsFiniteSet(Of(u)) BY FS_Subset DEF Bounds
  <2> QED BY <2>1, <2>2, FS_Subset
<1>3. /\ IsFiniteSet(H) /\ IsFiniteSet(H')
      /\ \A u \in Users : IsFiniteSet(Of(u)) /\ IsFiniteSet(Of(u)')
  BY FS_Subset DEF Bounds
<1>4. /\ Cardinality(H) \in Nat /\ Cardinality(H') \in Nat
      /\ \A u \in Users : Cardinality(Of(u)) \in Nat /\ Cardinality(Of(u)') \in Nat
  BY <1>3, FS_CardinalityType
<1> HIDE DEF H, Of
<1>5. Cardinality(H) <= MaxTasks /\ \A u \in Users : Cardinality(Of(u)) <= MaxPerUser
  BY DEF TasksCapped, H, Of
<1>6. Cardinality(H') <= MaxTasks /\ \A u \in Users : Cardinality(Of(u)') <= MaxPerUser
  BY <1>1, <1>2, <1>4, <1>5 DEF Bounds
<1> QED BY <1>6 DEF TasksCapped, H, Of

-----------------------------------------------------------------------------
\* What a step must show to keep the invariant.

\* Tasks that are held go, or go on; the others stay.
TaskStep ==
    \A t \in Tasks :
        \/ task'[t] = task[t]
        \/ /\ task[t].at \in {"reserved", "open"} /\ task'[t].at \in {"open", "gone"}
           /\ task'[t].user = task[t].user

\* Only open tasks are cancelled, and go.
CancelStep ==
    \A t \in cancelled' : task'[t].at = "gone" /\ (t \in cancelled \/ task[t].at = "open")

\* Who activates for a task has taken it out of the table.
ActivatorStep ==
    \A a \in Accounts :
        activator'[a] \in {activator[a], Nobody} \/ Completed(activator[a])'

LEMMA TasksKeep ==
    ASSUME Bounds, ContributionInv, Typed', TaskStep, CancelStep, ActivatorStep
    PROVE  TasksMove /\ TasksFit' /\ TasksCapped'
<1>1. TasksMove
  <2> SUFFICES ASSUME NEW t \in Tasks
               PROVE  /\ task[t].at = "gone" => task'[t].at = "gone"
                      /\ task[t].at = "open" => task'[t].at \in {"open", "gone"}
                      /\ Completed(t) => Completed(t)'
    BY DEF TasksMove
  <2> QED BY DEF TaskStep, CancelStep, Completed
<1>2. TasksFit'
  <2>1. ASSUME NEW t \in Tasks, task'[t].at = "reserved" PROVE ~task'[t].expired
    BY <2>1 DEF TaskStep, ContributionInv, TasksFit
  <2>2. \A t \in cancelled' : task'[t].at = "gone" BY DEF CancelStep
  <2>3. ASSUME NEW a \in Accounts, activator'[a] # Nobody PROVE Completed(activator[a])'
    <3>1. CASE activator'[a] = activator[a]
      <4>1. Completed(activator[a]) /\ activator[a] \in Tasks
        BY <2>3, <3>1 DEF ContributionInv, TasksFit, Typed
      <4>2. Completed(activator[a]) => task'[activator[a]].at = "gone" /\ activator[a] \notin cancelled'
        BY <1>1, <4>1 DEF TasksMove, Completed
      <4> QED BY <3>1, <4>1, <4>2 DEF Completed
    <3> QED BY <2>3, <3>1 DEF ActivatorStep
  <2> QED BY <2>1, <2>2, <2>3 DEF TasksFit
<1>3. TasksCapped'
  <2>1. ASSUME NEW t \in Tasks, Held(t)' PROVE Held(t) /\ task'[t].user = task[t].user
    BY <2>1 DEF TaskStep, Held
  <2> QED BY <2>1, CapsStay DEF ContributionInv
<1> QED BY <1>1, <1>2, <1>3

\* A step of a handler that is not a begin.
LEMMA HandlerKeeps ==
    ASSUME Bounds, ContributionInv, Typed', OwnersFit', OwnersStay,
           TaskStep, CancelStep, ActivatorStep,
           NEW h \in Handlers, \A g \in Handlers \ {h} : proc'[g] = proc[g],
           proc'[h].at # "begin", Fits(proc[h])',
           \A g \in Handlers \ {h} : proc[g].at = "begin" => task'[proc[g].task].at = "reserved"
    PROVE  ContributionInv'
<1>1. TasksMove /\ TasksFit' /\ TasksCapped' BY TasksKeep
<1>2. HandlersFit' BY <1>1, HandlersStay DEF ContributionInv
<1>3. BeginsFit' BY DEF BeginsFit, ContributionInv
<1> QED BY <1>1, <1>2, <1>3 DEF ContributionInv

\* A step that no handler takes.
LEMMA OthersKeep ==
    ASSUME Bounds, ContributionInv, Typed', OwnersFit', OwnersStay,
           TaskStep, CancelStep, ActivatorStep, UNCHANGED proc,
           \A t \in Tasks : task[t].at = "reserved" => task'[t].at = "reserved"
    PROVE  ContributionInv'
<1>1. TasksMove /\ TasksFit' /\ TasksCapped' BY TasksKeep
<1>2. HandlersFit' BY <1>1, HandlersRest DEF ContributionInv
<1>3. BeginsFit'
  <2>1. ASSUME NEW h \in Handlers, proc[h].at = "begin" PROVE proc[h].task \in Tasks
    BY <2>1, PlacesTyped DEF ContributionInv, Typed, Beginning
  <2> QED BY <2>1 DEF BeginsFit, ContributionInv
<1> QED BY <1>1, <1>2, <1>3 DEF ContributionInv

\* What a step that leaves the tasks need not show.
LEMMA TasksRest ==
    ASSUME ContributionInv, UNCHANGED <<task, cancelled>>
    PROVE  TaskStep /\ CancelStep
BY DEF TaskStep, CancelStep, ContributionInv, TasksFit

\* Nor one that leaves the accounts.
LEMMA AccountsRest ==
    ASSUME ContributionInv, UNCHANGED accounts
    PROVE  /\ OwnersFit' /\ OwnersStay /\ ActivatorStep
           /\ contribution' = contribution /\ file' = file /\ consent' = consent
           /\ activator' = activator
BY DEF accounts, OwnersFit, OwnersStay, ActivatorStep, ContributionInv

\* The reservations of other handlers.
LEMMA BeginsRest ==
    ASSUME ContributionInv, NEW h \in Handlers,
           \A t \in Tasks : task[t].at = "reserved" => task'[t].at = "reserved"
    PROVE  \A g \in Handlers \ {h} : proc[g].at = "begin" => task'[proc[g].task].at = "reserved"
<1>1. ASSUME NEW g \in Handlers, proc[g].at = "begin" PROVE proc[g].task \in Tasks
  BY <1>1, PlacesTyped DEF ContributionInv, Typed, Beginning
<1> QED BY <1>1 DEF BeginsFit, ContributionInv

-----------------------------------------------------------------------------
\* The operators of the model.

LEMMA GoneTyped ==
    ASSUME Typed, NEW t \in Tasks, task[t].at # "new"
    PROVE  /\ Gone(t) \in TaskRow /\ Gone(t).at = "gone" /\ Gone(t).user = task[t].user
           /\ Gone(t).at # "reserved"
BY RowsTyped DEF Gone, TaskRow

LEMMA SweptTyped ==
    ASSUME Typed, TasksFit, NEW kind
    PROVE  /\ Swept(kind) \in [Tasks -> TaskRow]
           /\ \A t \in Tasks : \/ Swept(kind)[t] = task[t]
                              \/ /\ task[t].at = "open" /\ Swept(kind)[t].at = "gone"
                                 /\ Swept(kind)[t].user = task[t].user
<1> SUFFICES ASSUME NEW t \in Tasks
             PROVE  /\ Swept(kind)[t] \in TaskRow
                    /\ \/ Swept(kind)[t] = task[t]
                       \/ /\ task[t].at = "open" /\ Swept(kind)[t].at = "gone"
                          /\ Swept(kind)[t].user = task[t].user
  BY DEF Swept
<1>1. task[t] \in TaskRow BY DEF Typed
<1>2. CASE Held(t) /\ task[t].expired
  <2>1. task[t].at = "open" BY <1>2 DEF Held, TasksFit
  <2> QED BY <1>1, <2>1, GoneTyped DEF Swept
<1>3. CASE ~(Held(t) /\ task[t].expired) BY <1>1, <1>3 DEF Swept
<1> QED BY <1>2, <1>3

LEMMA ReserveKeeps ==
    ASSUME Typed, OwnersFit, NEW a \in Accounts, NEW u \in Users, NEW known,
           Reserve(u, a), Claimable(u, a, known),
           UNCHANGED <<file, activator>>
    PROVE  /\ contribution' \in [Accounts -> Contributed \cup {Unowned}]
           /\ consent' \in [Accounts -> BOOLEAN]
           /\ OwnersFit' /\ OwnersStay /\ ActivatorStep
           /\ contribution'[a] # Unowned /\ contribution'[a].owner = u
<1> DEFINE c == [owner |-> u, status |-> "verifying"]
<1>1. c \in Contributed /\ c # Unowned /\ c.owner = u /\ c.status = "verifying"
  BY DEF Contributed, Unowned
<1>2. /\ contribution' = [contribution EXCEPT ![a] = c]
      /\ consent' = [consent EXCEPT ![a] = TRUE]
  BY DEF Reserve
<1> HIDE DEF c
<1>3. /\ contribution' \in [Accounts -> Contributed \cup {Unowned}]
      /\ consent' \in [Accounts -> BOOLEAN]
      /\ contribution'[a] = c /\ consent'[a]
      /\ \A b \in Accounts \ {a} : contribution'[b] = contribution[b] /\ consent'[b] = consent[b]
  BY <1>1, <1>2 DEF Typed
<1>4. contribution[a] # Unowned => contribution[a].owner = u
  BY DEF Claimable
<1>5. file[a] \in {u, Admins, Nobody}
  BY <1>4 DEF OwnersFit
<1>6. OwnersFit'
  <2> SUFFICES ASSUME NEW b \in Accounts
               PROVE  /\ contribution'[b] = Unowned => file'[b] \in {Admins, Nobody}
                      /\ contribution'[b] # Unowned =>
                            file'[b] \in {contribution'[b].owner, Admins, Nobody}
                      /\ contribution'[b].status \in {"verifying", "active"} => consent'[b]
    BY DEF OwnersFit
  <2> QED BY <1>1, <1>3, <1>5 DEF OwnersFit
<1> QED BY <1>1, <1>3, <1>4, <1>6 DEF OwnersStay, ActivatorStep

LEMMA ActivateKeeps ==
    ASSUME Typed, OwnersFit, NEW a \in Accounts, NEW u \in Users, NEW by \in Tasks \cup {Nobody},
           ActivateContribution(u, a, by), UNCHANGED <<file, consent>>
    PROVE  /\ contribution' \in [Accounts -> Contributed \cup {Unowned}]
           /\ activator' \in [Accounts -> Tasks \cup {Nobody}]
           /\ OwnersFit' /\ OwnersStay
           /\ \A b \in Accounts : activator'[b] \in {activator[b], by}
<1> DEFINE c == [owner |-> u, status |-> "active"]
<1>1. c \in Contributed /\ c # Unowned /\ c.owner = u /\ c.status = "active"
  BY DEF Contributed, Unowned
<1>2. /\ contribution[a] = [owner |-> u, status |-> "verifying"]
      /\ contribution' = [contribution EXCEPT ![a].status = "active"]
      /\ activator' = [activator EXCEPT ![a] = by]
  BY DEF ActivateContribution, Activates
<1>3. /\ contribution' = [contribution EXCEPT ![a] = c]
      /\ contribution[a] # Unowned /\ contribution[a].owner = u
      /\ contribution[a].status = "verifying"
  <2>1. contribution[a].owner = u /\ contribution[a].status = "verifying" BY <1>2
  <2>2. contribution[a] # Unowned BY <2>1 DEF Unowned
  <2>3. [contribution[a] EXCEPT !.status = "active"] = c BY <1>2
  <2> QED BY <1>2, <2>1, <2>2, <2>3
<1> HIDE DEF c
<1>4. /\ contribution' \in [Accounts -> Contributed \cup {Unowned}]
      /\ contribution'[a] = c
      /\ \A b \in Accounts \ {a} : contribution'[b] = contribution[b]
  BY <1>1, <1>3 DEF Typed
<1>5. /\ activator' \in [Accounts -> Tasks \cup {Nobody}]
      /\ \A b \in Accounts : activator'[b] \in {activator[b], by}
  BY <1>2 DEF Typed
<1>6. OwnersFit'
  <2> SUFFICES ASSUME NEW b \in Accounts
               PROVE  /\ contribution'[b] = Unowned => file'[b] \in {Admins, Nobody}
                      /\ contribution'[b] # Unowned =>
                            file'[b] \in {contribution'[b].owner, Admins, Nobody}
                      /\ contribution'[b].status \in {"verifying", "active"} => consent'[b]
    BY DEF OwnersFit
  <2> QED BY <1>1, <1>3, <1>4 DEF OwnersFit
<1> QED BY <1>1, <1>3, <1>4, <1>5, <1>6 DEF OwnersStay

\* A handler goes to a place that is one of its own.
LEMMA Becomes ==
    ASSUME Typed, NEW h \in Handlers, NEW p \in Places, Become(h, p)
    PROVE  /\ proc' \in [Handlers -> Places] /\ proc'[h] = p
           /\ \A g \in Handlers \ {h} : proc'[g] = proc[g]
BY DEF Typed, Become

LEMMA IdleFits ==
    /\ Idle \in Places /\ Idle.at = "idle"
    /\ \A h \in Handlers : proc'[h] = Idle => Fits(proc[h])' /\ proc'[h].at # "begin"
BY DEF Idle, Places, Fits

\* An open task goes on or goes.
LEMMA OpenMoves ==
    ASSUME ContributionInv, NEW t \in Tasks, NEW r \in TaskRow, task[t].at = "open",
           r.at \in {"open", "gone"}, r.user = task[t].user,
           task' = [task EXCEPT ![t] = r]
    PROVE  /\ task' \in [Tasks -> TaskRow] /\ TaskStep /\ task'[t] = r
           /\ \A v \in Tasks : task[v].at = "reserved" => task'[v].at = "reserved"
           /\ cancelled' = cancelled => CancelStep
<1>1. /\ task' \in [Tasks -> TaskRow] /\ task'[t] = r
      /\ \A v \in Tasks \ {t} : task'[v] = task[v]
  BY DEF ContributionInv, Typed
<1>2. TaskStep BY <1>1 DEF TaskStep
<1>3. ASSUME cancelled' = cancelled PROVE CancelStep
  <2>1. \A v \in cancelled : v \in Tasks /\ task[v].at = "gone" /\ v # t
    BY DEF ContributionInv, TasksFit, Typed
  <2> QED BY <1>1, <1>3, <2>1 DEF CancelStep
<1> QED BY <1>1, <1>2, <1>3

\* A step of a handler that changes no account.
LEMMA HandlerMoves ==
    ASSUME Bounds, ContributionInv, NEW h \in Handlers, NEW p \in Places, Become(h, p),
           UNCHANGED <<accounts, cancelled>>,
           task' \in [Tasks -> TaskRow], TaskStep, CancelStep,
           \A v \in Tasks : task[v].at = "reserved" => task'[v].at = "reserved",
           p.at # "begin", Fits(proc[h])'
    PROVE  ContributionInv'
<1>1. Typed BY DEF ContributionInv
<1>2. /\ proc' \in [Handlers -> Places] /\ proc'[h] = p
      /\ \A g \in Handlers \ {h} : proc'[g] = proc[g]
  BY <1>1, Becomes
<1>3. /\ OwnersFit' /\ OwnersStay /\ ActivatorStep
      /\ contribution' = contribution /\ file' = file /\ consent' = consent
      /\ activator' = activator
  BY AccountsRest
<1>4. Typed' BY <1>1, <1>2, <1>3 DEF Typed
<1>5. \A g \in Handlers \ {h} : proc[g].at = "begin" => task'[proc[g].task].at = "reserved"
  BY BeginsRest
<1> QED BY <1>2, <1>3, <1>4, <1>5, HandlerKeeps

\* A step of a handler that changes no task.
LEMMA HandlerWorks ==
    ASSUME Bounds, ContributionInv, NEW h \in Handlers, NEW p \in Places, Become(h, p),
           UNCHANGED <<task, cancelled>>,
           contribution' \in [Accounts -> Contributed \cup {Unowned}],
           file' \in [Accounts -> Users \cup {Admins, Nobody}],
           consent' \in [Accounts -> BOOLEAN],
           activator' \in [Accounts -> Tasks \cup {Nobody}],
           OwnersFit', OwnersStay, ActivatorStep,
           p.at # "begin", Fits(proc[h])'
    PROVE  ContributionInv'
<1>1. Typed BY DEF ContributionInv
<1>2. /\ proc' \in [Handlers -> Places] /\ proc'[h] = p
      /\ \A g \in Handlers \ {h} : proc'[g] = proc[g]
  BY <1>1, Becomes
<1>3. TaskStep /\ CancelStep BY TasksRest
<1>4. Typed' BY <1>1, <1>2 DEF Typed
<1>5. \A g \in Handlers \ {h} : proc[g].at = "begin" => task'[proc[g].task].at = "reserved"
  BY BeginsRest
<1> QED BY <1>2, <1>3, <1>4, <1>5, HandlerKeeps

-----------------------------------------------------------------------------
\* Login tasks.

LEMMA BeginInv ==
    ASSUME Bounds, ContributionInv, NEW h \in Handlers, NEW u \in Users, NEW t \in Tasks,
           NEW kind \in {"scan", "qoder"}, Begin(h, u, kind, t)
    PROVE  ContributionInv'
<1> DEFINE swept == Swept(kind)
           new == [at |-> "reserved", user |-> u, kind |-> kind,
                   expired |-> FALSE, polling |-> FALSE]
           q == [at |-> "begin", task |-> t]
<1>1. /\ swept \in [Tasks -> TaskRow]
      /\ \A v \in Tasks : \/ swept[v] = task[v]
                         \/ /\ task[v].at = "open" /\ swept[v].at = "gone"
                            /\ swept[v].user = task[v].user
  BY SweptTyped DEF ContributionInv
<1>2. Typed /\ UNCHANGED accounts /\ cancelled' = cancelled /\ task[t] = NoTask /\ proc[h] = Idle
  BY DEF Begin, ContributionInv
<1>3. /\ OwnersFit' /\ OwnersStay /\ ActivatorStep /\ CancelStep
      /\ contribution' = contribution /\ file' = file /\ consent' = consent
      /\ activator' = activator
  <2>1. \A v \in cancelled : task[v].at = "gone" /\ v \in Tasks
    BY DEF ContributionInv, TasksFit, Typed
  <2>2. \A v \in cancelled : task'[v].at = "gone"
    BY <1>1, <1>2, <2>1 DEF Begin, Typed, NoTask
  <2> QED BY <1>2, <2>2, AccountsRest DEF CancelStep
<1>4. CASE ~Room(swept, u)
  <2>1. task' = swept /\ proc' = proc BY <1>4 DEF Begin
  <2>2. Typed' BY <1>1, <1>2, <1>3, <2>1 DEF Typed
  <2>3. TaskStep BY <1>1, <2>1 DEF TaskStep
  <2>4. \A v \in Tasks : task[v].at = "reserved" => task'[v].at = "reserved" BY <1>1, <2>1
  <2> QED BY <1>3, <2>1, <2>2, <2>3, <2>4, OthersKeep
<1>5. CASE Room(swept, u)
  <2>1. task' = [swept EXCEPT ![t] = new] /\ proc' = [proc EXCEPT ![h] = q]
    BY <1>5 DEF Begin, Become
  <2>2. new \in TaskRow /\ q \in Places /\ new.at = "reserved" /\ ~new.expired
        /\ new.user = u /\ q.at = "begin" /\ q.task = t
    BY DEF TaskRow, Places, Beginning
  <2> HIDE DEF swept, new, q
  <2>3. /\ task' \in [Tasks -> TaskRow] /\ task'[t] = new
        /\ \A v \in Tasks \ {t} : task'[v] = swept[v]
    BY <1>1, <2>1, <2>2
  <2>4. /\ proc' \in [Handlers -> Places] /\ proc'[h] = q
        /\ \A g \in Handlers \ {h} : proc'[g] = proc[g]
    BY <1>2, <2>1, <2>2 DEF Typed
  <2>5. Typed' BY <1>2, <1>3, <2>3, <2>4 DEF Typed
  <2>6. task[t].at = "new" /\ swept[t] = task[t]
    BY <1>1, <1>2 DEF NoTask
  <2>7. TasksMove
    <3> SUFFICES ASSUME NEW v \in Tasks
                 PROVE  /\ task[v].at = "gone" => task'[v].at = "gone"
                        /\ task[v].at = "open" => task'[v].at \in {"open", "gone"}
                        /\ Completed(v) => Completed(v)'
      BY DEF TasksMove
    <3> QED BY <1>1, <1>2, <2>3, <2>6 DEF Completed
  <2>8. TasksFit'
    <3>1. ASSUME NEW v \in Tasks, task'[v].at = "reserved" PROVE ~task'[v].expired
      BY <1>1, <2>2, <2>3, <3>1 DEF ContributionInv, TasksFit
    <3>2. ASSUME NEW a \in Accounts, activator'[a] # Nobody PROVE Completed(activator[a])'
      <4>1. Completed(activator[a]) /\ activator[a] \in Tasks
        BY <1>3, <3>2 DEF ContributionInv, TasksFit, Typed
      <4>2. task'[activator[a]].at = "gone" BY <2>7, <4>1 DEF TasksMove, Completed
      <4> QED BY <1>2, <1>3, <4>1, <4>2 DEF Completed
    <3> QED BY <1>3, <3>1, <3>2 DEF TasksFit, CancelStep
  <2>9. HandlersFit'
    <3>1. Fits(proc[h])' BY <2>2, <2>4 DEF Fits
    <3> QED BY <1>2, <1>3, <2>4, <2>7, <3>1, HandlersStay DEF ContributionInv
  <2>10. BeginsFit'
    <3>1. ASSUME NEW g \in Handlers, proc[g].at = "begin"
          PROVE  g # h /\ proc[g].task \in Tasks /\ proc[g].task # t
                 /\ task'[proc[g].task].at = "reserved"
      <4>1. proc[g].task \in Tasks
        BY <3>1, PlacesTyped DEF ContributionInv, Typed, Beginning
      <4>2. task[proc[g].task].at = "reserved" BY <3>1 DEF ContributionInv, BeginsFit
      <4> QED BY <1>1, <1>2, <2>3, <2>6, <3>1, <4>1, <4>2 DEF Idle
    <3> QED BY <2>2, <2>3, <2>4, <3>1 DEF ContributionInv, BeginsFit
  <2>11. TasksCapped'
    <3> DEFINE K == {v \in Tasks : swept[v].at \in {"reserved", "open"}}
               Own == {v \in K : swept[v].user = u}
    <3>1. /\ Cardinality(Own) < MaxPerUser /\ Cardinality(K) < MaxTasks
      BY <1>5 DEF Room
    <3>2. {v \in Tasks : Held(v)}' = K \cup {t}
      BY <2>2, <2>3 DEF Held
    <3>3. {v \in Tasks : Held(v) /\ task[v].user = u}' = Own \cup {t}
      BY <2>2, <2>3 DEF Held
    <3>4. IsFiniteSet(K) /\ IsFiniteSet(Own) BY FS_Subset DEF Bounds
    <3>5. /\ Cardinality(K \cup {t}) <= MaxTasks
          /\ Cardinality(Own \cup {t}) <= MaxPerUser
      <4>1. /\ Cardinality(K) \in Nat /\ Cardinality(Own) \in Nat
            /\ Cardinality(K \cup {t}) \in {Cardinality(K), Cardinality(K) + 1}
            /\ Cardinality(Own \cup {t}) \in {Cardinality(Own), Cardinality(Own) + 1}
        BY <3>4, FS_AddElement, FS_CardinalityType
      <4> HIDE DEF K, Own
      <4> QED BY <3>1, <4>1 DEF Bounds
    <3>6. ASSUME NEW v \in Users, v # u
          PROVE  Cardinality({w \in Tasks : Held(w) /\ task[w].user = v}') <= MaxPerUser
      <4> DEFINE Before == {w \in Tasks : Held(w) /\ task[w].user = v}
                 After == {w \in Tasks : Held(w) /\ task[w].user = v}'
      <4>1. After \subseteq Before
        BY <1>1, <2>2, <2>3, <3>6 DEF Held
      <4>2. IsFiniteSet(Before) BY FS_Subset DEF Bounds
      <4>3. Cardinality(After) <= Cardinality(Before) BY <4>1, <4>2, FS_Subset
      <4>4. Cardinality(Before) <= MaxPerUser BY DEF ContributionInv, TasksCapped
      <4>5. Cardinality(Before) \in Nat /\ Cardinality(After) \in Nat
        BY <4>1, <4>2, FS_Subset, FS_CardinalityType
      <4> HIDE DEF Before, After
      <4>6. Cardinality(After) <= MaxPerUser BY <4>3, <4>4, <4>5 DEF Bounds
      <4> QED BY <4>6 DEF After
    <3> HIDE DEF K, Own
    <3> QED BY <3>2, <3>3, <3>5, <3>6 DEF TasksCapped
  <2> QED BY <1>3, <2>5, <2>7, <2>8, <2>9, <2>10, <2>11 DEF ContributionInv
<1> QED BY <1>4, <1>5

LEMMA BeginAnsweredInv ==
    ASSUME Bounds, ContributionInv, NEW h \in Handlers, BeginAnswered(h)
    PROVE  ContributionInv'
<1> DEFINE t == proc[h].task
<1>1. /\ Typed /\ UNCHANGED accounts /\ cancelled' = cancelled /\ t \in Tasks
      /\ task[t].at = "reserved"
  BY PlacesTyped DEF BeginAnswered, ContributionInv, Typed, Beginning, BeginsFit
<1>2. PICK at \in {"open", "gone"} : task' = [task EXCEPT ![t].at = at]
  BY DEF BeginAnswered
<1>3. [task[t] EXCEPT !.at = at] \in TaskRow /\ [task[t] EXCEPT !.at = at].at = at
      /\ [task[t] EXCEPT !.at = at].user = task[t].user
  BY <1>1, RowsTyped DEF TaskRow
<1>4. proc' = [proc EXCEPT ![h] = Idle] BY DEF BeginAnswered, Answer, Become
<1>5. task' \in [Tasks -> TaskRow] /\ task'[t].at = at /\ task'[t].user = task[t].user
      /\ \A v \in Tasks \ {t} : task'[v] = task[v]
  BY <1>1, <1>2, <1>3 DEF Typed
<1>6. proc' \in [Handlers -> Places] /\ proc'[h] = Idle
      /\ \A g \in Handlers \ {h} : proc'[g] = proc[g]
  BY <1>1, <1>4 DEF Typed, Places
<1>7. OwnersFit' /\ OwnersStay /\ ActivatorStep
      /\ contribution' = contribution /\ file' = file /\ consent' = consent
      /\ activator' = activator
  BY <1>1, AccountsRest
<1>8. Typed' BY <1>1, <1>5, <1>6, <1>7 DEF Typed
<1>9. TaskStep BY <1>1, <1>5 DEF TaskStep
<1>10. CancelStep BY <1>1, <1>5 DEF CancelStep, ContributionInv, TasksFit, Typed
<1>11. Fits(proc[h])' /\ proc'[h].at # "begin" BY <1>6 DEF Fits, Idle
<1>12. ASSUME NEW g \in Handlers, g # h, proc[g].at = "begin"
       PROVE  task'[proc[g].task].at = "reserved"
  <2>1. proc[g].task \in Tasks /\ proc[h].at = "begin"
    BY <1>12, PlacesTyped DEF ContributionInv, Typed, Beginning, BeginAnswered
  <2>2. task[proc[g].task].at = "reserved" /\ proc[g].task # t
    BY <1>12, <2>1 DEF ContributionInv, BeginsFit
  <2> QED BY <1>5, <2>1, <2>2
<1> QED BY <1>6, <1>7, <1>8, <1>9, <1>10, <1>11, <1>12, HandlerKeeps

LEMMA ExpireInv ==
    ASSUME Bounds, ContributionInv, NEW t \in Tasks, Expire(t)
    PROVE  ContributionInv'
<1> DEFINE r == [task[t] EXCEPT !.expired = TRUE]
<1>1. Typed /\ task[t].at = "open" /\ task' = [task EXCEPT ![t] = r]
      /\ UNCHANGED <<accounts, proc, cancelled>>
  BY DEF Expire, ContributionInv
<1>2. r \in TaskRow /\ r.at = "open" /\ r.user = task[t].user
  BY <1>1, RowsTyped DEF TaskRow
<1> HIDE DEF r
<1>3. /\ task' \in [Tasks -> TaskRow] /\ TaskStep /\ CancelStep
      /\ \A v \in Tasks : task[v].at = "reserved" => task'[v].at = "reserved"
  BY <1>1, <1>2, OpenMoves
<1>4. /\ OwnersFit' /\ OwnersStay /\ ActivatorStep
      /\ contribution' = contribution /\ file' = file /\ consent' = consent
      /\ activator' = activator
  BY <1>1, AccountsRest
<1>5. Typed' BY <1>1, <1>3, <1>4 DEF Typed
<1> QED BY <1>1, <1>3, <1>4, <1>5, OthersKeep

\* The task is open, so nothing that was activated is activated for it.
LEMMA CancelInv ==
    ASSUME Bounds, ContributionInv, NEW t \in Tasks, Cancel(t)
    PROVE  ContributionInv'
<1>1. Typed /\ task[t].at = "open" /\ task' = [task EXCEPT ![t] = Gone(t)]
      /\ UNCHANGED <<accounts, proc>> /\ cancelled' = cancelled \cup {t}
  BY DEF Cancel, ContributionInv
<1>2. Gone(t) \in TaskRow /\ Gone(t).at = "gone" /\ Gone(t).user = task[t].user
  BY <1>1, GoneTyped
<1>3. /\ task' \in [Tasks -> TaskRow] /\ TaskStep /\ task'[t] = Gone(t)
      /\ \A v \in Tasks : task[v].at = "reserved" => task'[v].at = "reserved"
  BY <1>1, <1>2, OpenMoves
<1>4. CancelStep
  <2>1. \A v \in cancelled : v \in Tasks /\ task[v].at = "gone"
    BY DEF ContributionInv, TasksFit, Typed
  <2>2. \A v \in cancelled : task'[v].at = "gone" BY <1>3, <2>1 DEF TaskStep
  <2> QED BY <1>1, <1>2, <1>3, <2>2 DEF CancelStep
<1>5. /\ OwnersFit' /\ OwnersStay /\ ActivatorStep
      /\ contribution' = contribution /\ file' = file /\ consent' = consent
      /\ activator' = activator
  BY <1>1, AccountsRest
<1>6. Typed' BY <1>1, <1>3, <1>5 DEF Typed
<1> QED BY <1>1, <1>3, <1>4, <1>5, <1>6, OthersKeep

LEMMA PollInv ==
    ASSUME Bounds, ContributionInv, NEW h \in Handlers, NEW t \in Tasks, Poll(h, t)
    PROVE  ContributionInv'
<1>1. Typed /\ task[t].at = "open" /\ UNCHANGED <<accounts, cancelled>>
  BY DEF Poll, ContributionInv
<1>2. CASE task[t].expired
  <2>1. task' = [task EXCEPT ![t] = Gone(t)] /\ proc' = proc BY <1>2 DEF Poll
  <2>2. Gone(t) \in TaskRow /\ Gone(t).at = "gone" /\ Gone(t).user = task[t].user
    BY <1>1, GoneTyped
  <2>3. /\ task' \in [Tasks -> TaskRow] /\ TaskStep /\ CancelStep
        /\ \A v \in Tasks : task[v].at = "reserved" => task'[v].at = "reserved"
    BY <1>1, <2>1, <2>2, OpenMoves
  <2>4. /\ OwnersFit' /\ OwnersStay /\ ActivatorStep
        /\ contribution' = contribution /\ file' = file /\ consent' = consent
        /\ activator' = activator
    BY <1>1, AccountsRest
  <2>5. Typed' BY <1>1, <2>1, <2>3, <2>4 DEF Typed
  <2> QED BY <1>1, <2>1, <2>3, <2>4, <2>5, OthersKeep
<1>3. CASE ~task[t].expired
  <2> DEFINE r == [task[t] EXCEPT !.polling = TRUE]
             q == [at |-> "poll", task |-> t]
  <2>1. task' = [task EXCEPT ![t] = r] /\ Become(h, q) BY <1>3 DEF Poll
  <2>2. r \in TaskRow /\ r.at = "open" /\ r.user = task[t].user
    BY <1>1, RowsTyped DEF TaskRow
  <2>3. q \in Places /\ q.at = "poll" /\ q.task = t BY DEF Places, Polling
  <2> HIDE DEF r, q
  <2>4. /\ task' \in [Tasks -> TaskRow] /\ TaskStep /\ CancelStep /\ task'[t] = r
        /\ \A v \in Tasks : task[v].at = "reserved" => task'[v].at = "reserved"
    BY <1>1, <2>1, <2>2, OpenMoves
  <2>5. Fits(proc[h])'
    <3>1. proc'[h] = q BY <1>1, <2>1, <2>3, Becomes
    <3> QED BY <2>2, <2>3, <2>4, <3>1 DEF Fits
  <2> QED BY <1>1, <2>1, <2>3, <2>4, <2>5, HandlerMoves
<1> QED BY <1>2, <1>3

\* A poll that comes back finds its task open or gone.
LEMMA PolledTask ==
    ASSUME ContributionInv, NEW h \in Handlers, proc[h].at = "poll"
    PROVE  /\ proc[h].task \in Tasks /\ task[proc[h].task].at \in {"open", "gone"}
           /\ task[proc[h].task] \in TaskRow
           /\ task[proc[h].task].at = "gone" => Gone(proc[h].task) = task[proc[h].task]
<1>1. Typed /\ proc[h] \in Places /\ Fits(proc[h]) BY DEF ContributionInv, Typed, HandlersFit
<1>2. proc[h].task \in Tasks BY <1>1, PlacesTyped DEF Polling
<1>3. task[proc[h].task].at \in {"open", "gone"} BY <1>1 DEF Fits
<1>4. task[proc[h].task] \in TaskRow BY <1>1, <1>2 DEF Typed
<1> DEFINE r == task[proc[h].task]
<1>5. r \in [at : {"reserved", "open", "gone"}, user : Users,
              kind : {"scan", "qoder"}, expired : BOOLEAN, polling : BOOLEAN]
  BY <1>1, <1>2, <1>3, RowsTyped
<1>6. r.at = "gone" => [r EXCEPT !.at = "gone"] = r
  BY <1>5
<1> QED BY <1>2, <1>3, <1>4, <1>6 DEF Gone

\* The task of a poll that does not complete goes on, goes, or stays gone.
LEMMA PolledMoves ==
    ASSUME Bounds, ContributionInv, NEW h \in Handlers, proc[h].at = "poll", Answer(h),
           UNCHANGED <<accounts, cancelled>>,
           LET t == proc[h].task IN
               \/ task' = [task EXCEPT ![t] = IF Held(t) THEN [@ EXCEPT !.polling = FALSE] ELSE @]
               \/ task' = [task EXCEPT ![t] = Gone(t)]
    PROVE  ContributionInv'
<1> DEFINE t == proc[h].task
           r == [task[t] EXCEPT !.polling = FALSE]
<1>1. /\ Typed /\ t \in Tasks /\ task[t].at \in {"open", "gone"} /\ task[t] \in TaskRow
      /\ task[t].at = "gone" => Gone(t) = task[t]
  BY PolledTask DEF ContributionInv
<1>2. Fits(proc[h])' /\ Idle.at # "begin" /\ Idle \in Places /\ Become(h, Idle)
  BY <1>1, IdleFits, Becomes DEF Answer
<1>3. CASE task[t].at = "gone"
  <2>1. task' = task
    <3>1. task' = [task EXCEPT ![t] = task[t]] BY <1>1, <1>3 DEF Held
    <3> QED BY <1>1, <3>1 DEF Typed
  <2>2. TaskStep /\ CancelStep BY <2>1, TasksRest
  <2> QED BY <1>1, <1>2, <2>1, <2>2, HandlerMoves DEF Typed
<1>4. CASE task[t].at = "open"
  <2>1. Held(t) BY <1>4 DEF Held
  <2>2. PICK q \in {r, Gone(t)} : task' = [task EXCEPT ![t] = q]
    BY <2>1
  <2>3. q \in TaskRow /\ q.at \in {"open", "gone"} /\ q.user = task[t].user
    <3>1. r \in TaskRow /\ r.at = "open" /\ r.user = task[t].user
      BY <1>1, <1>4, RowsTyped DEF TaskRow
    <3>2. Gone(t) \in TaskRow /\ Gone(t).at = "gone" /\ Gone(t).user = task[t].user
      BY <1>1, <1>4, GoneTyped
    <3> HIDE DEF r
    <3> QED BY <3>1, <3>2
  <2>4. /\ task' \in [Tasks -> TaskRow] /\ TaskStep /\ CancelStep
        /\ \A v \in Tasks : task[v].at = "reserved" => task'[v].at = "reserved"
    BY <1>1, <1>4, <2>2, <2>3, OpenMoves
  <2> QED BY <1>2, <2>4, HandlerMoves
<1> QED BY <1>1, <1>3, <1>4

LEMMA PollWaitsInv ==
    ASSUME Bounds, ContributionInv, NEW h \in Handlers, PollWaits(h)
    PROVE  ContributionInv'
BY PolledMoves DEF PollWaits

\* The poll itself takes the task out: no cancellation can have removed it.
LEMMA PollReadyInv ==
    ASSUME Bounds, ContributionInv, NEW h \in Handlers, NEW a \in Scanned, PollReady(h, a)
    PROVE  ContributionInv'
<1> DEFINE t == proc[h].task
           q == [at |-> "ready", task |-> t, user |-> task[t].user, account |-> a]
<1>1. /\ Typed /\ t \in Tasks /\ task[t].at \in {"open", "gone"} /\ task[t] \in TaskRow
      /\ proc[h].at = "poll" /\ UNCHANGED <<accounts, cancelled>>
  BY PolledTask DEF ContributionInv, PollReady
<1>2. CASE ~Live(t) BY <1>1, <1>2, PolledMoves DEF PollReady
<1>3. CASE Live(t)
  <2>1. task' = [task EXCEPT ![t] = Gone(t)] /\ Become(h, q) BY <1>3 DEF PollReady
  <2>2. task[t].at = "open" BY <1>1, <1>3 DEF Live, Held
  <2>3. Gone(t) \in TaskRow /\ Gone(t).at = "gone" /\ Gone(t).user = task[t].user
    BY <1>1, <2>2, GoneTyped
  <2>4. task[t].user \in Users BY <1>1, <2>2, RowsTyped
  <2>5. q \in Places /\ q.at = "ready" /\ q.task = t
    BY <1>1, <2>4 DEF Places, Completing
  <2> HIDE DEF q
  <2>6. /\ task' \in [Tasks -> TaskRow] /\ TaskStep /\ CancelStep /\ task'[t] = Gone(t)
        /\ \A v \in Tasks : task[v].at = "reserved" => task'[v].at = "reserved"
    BY <1>1, <2>1, <2>2, <2>3, OpenMoves
  <2>7. t \notin cancelled BY <2>2 DEF ContributionInv, TasksFit
  <2>8. Fits(proc[h])'
    <3>1. proc'[h] = q BY <1>1, <2>1, <2>5, Becomes
    <3>2. task'[t].at = "gone" /\ t \notin cancelled' BY <1>1, <2>3, <2>6, <2>7
    <3> QED BY <2>5, <3>1, <3>2 DEF Fits, Completed
  <2> QED BY <1>1, <2>1, <2>5, <2>6, <2>8, HandlerMoves
<1> QED BY <1>2, <1>3

-----------------------------------------------------------------------------
\* Completing a scan, under AccountMu.

LEMMA CompleteClaimInv ==
    ASSUME Bounds, ContributionInv, NEW h \in Handlers, CompleteClaim(h)
    PROVE  ContributionInv'
<1> DEFINE p == proc[h]
           q == [p EXCEPT !.at = "claimed"]
           known == pool[p.account] # "absent" \/ file[p.account] # Nobody
<1>1. /\ Typed /\ OwnersFit /\ p \in Completing /\ p.at = "ready" /\ Fits(p)
      /\ UNCHANGED <<task, file, activator, cancelled>>
  BY PlacesTyped DEF CompleteClaim, ContributionInv, Typed, HandlersFit
<1>2. p.task \in Tasks /\ p.user \in Users /\ p.account \in Accounts
  BY <1>1 DEF Completing, Accounts
<1>3. CASE ~(active[p.user] /\ Claimable(p.user, p.account, known))
  <2>1. Become(h, Idle) /\ UNCHANGED <<contribution, consent>>
    BY <1>3 DEF CompleteClaim, Answer
  <2>2. OwnersFit' /\ OwnersStay /\ ActivatorStep
    BY <1>1, <2>1 DEF OwnersFit, OwnersStay, ActivatorStep
  <2>3. proc'[h] = Idle BY <1>1, <2>1, IdleFits, Becomes
  <2> QED BY <1>1, <2>1, <2>2, <2>3, IdleFits, HandlerWorks DEF Typed
<1>4. CASE active[p.user] /\ Claimable(p.user, p.account, known)
  <2>1. Reserve(p.user, p.account) /\ Become(h, q) BY <1>4 DEF CompleteClaim
  <2>2. /\ contribution' \in [Accounts -> Contributed \cup {Unowned}]
        /\ consent' \in [Accounts -> BOOLEAN]
        /\ OwnersFit' /\ OwnersStay /\ ActivatorStep
        /\ contribution'[p.account] # Unowned /\ contribution'[p.account].owner = p.user
    BY <1>1, <1>2, <1>4, <2>1, ReserveKeeps
  <2>3. q \in Places /\ q.at = "claimed" /\ q.task = p.task /\ q.account = p.account
        /\ q.user = p.user
    BY <1>1 DEF Places, Completing
  <2> HIDE DEF q
  <2>4. task'[p.task].at = "gone" /\ p.task \notin cancelled' BY <1>1 DEF Fits, Completed
  <2>5. Fits(proc[h])'
    <3>1. proc'[h] = q BY <1>1, <2>1, <2>3, Becomes
    <3> QED BY <2>2, <2>3, <2>4, <3>1 DEF Fits, Completed
  <2>6. /\ file' \in [Accounts -> Users \cup {Admins, Nobody}]
        /\ activator' \in [Accounts -> Tasks \cup {Nobody}]
    BY <1>1 DEF Typed
  <2>7. q.at # "begin" BY <2>3
  <2> HIDE DEF p
  <2> QED BY <1>1, <2>1, <2>2, <2>3, <2>5, <2>6, <2>7, HandlerWorks
<1> QED BY <1>3, <1>4

\* Who writes the credentials of an account writes them for its owner.
LEMMA FileWritten ==
    ASSUME Typed, OwnersFit, NEW a \in Accounts, contribution[a] # Unowned,
           file' \in {file, [file EXCEPT ![a] = contribution[a].owner]},
           UNCHANGED <<contribution, consent, activator>>
    PROVE  /\ file' \in [Accounts -> Users \cup {Admins, Nobody}]
           /\ OwnersFit' /\ OwnersStay /\ ActivatorStep
<1>1. contribution[a].owner \in Users BY ContributionsTyped DEF Contributed
<1>2. /\ file' \in [Accounts -> Users \cup {Admins, Nobody}]
      /\ file'[a] \in {file[a], contribution[a].owner}
      /\ \A b \in Accounts \ {a} : file'[b] = file[b]
  BY <1>1 DEF Typed
<1>3. OwnersFit' BY <1>2 DEF OwnersFit
<1> QED BY <1>2, <1>3 DEF OwnersStay, ActivatorStep

LEMMA CompleteInstallInv ==
    ASSUME Bounds, ContributionInv, NEW h \in Handlers, CompleteInstall(h)
    PROVE  ContributionInv'
<1> DEFINE p == proc[h]
           q == [p EXCEPT !.at = "installed"]
<1>1. /\ Typed /\ OwnersFit /\ p \in Completing /\ p.at = "claimed" /\ Fits(p)
      /\ UNCHANGED <<task, contribution, consent, activator, cancelled>>
      /\ file' = [file EXCEPT ![p.account] = p.user] /\ Become(h, q)
  BY PlacesTyped DEF CompleteInstall, ContributionInv, Typed, HandlersFit
<1>2. p.task \in Tasks /\ p.user \in Users /\ p.account \in Accounts
  BY <1>1 DEF Completing, Accounts
<1>3. contribution[p.account] # Unowned /\ contribution[p.account].owner = p.user
      /\ Completed(p.task)
  BY <1>1 DEF Fits
<1>4. /\ file' \in [Accounts -> Users \cup {Admins, Nobody}]
      /\ OwnersFit' /\ OwnersStay /\ ActivatorStep
  BY <1>1, <1>2, <1>3, FileWritten
<1>5. q \in Places /\ q.at = "installed" /\ q.task = p.task /\ q.account = p.account
      /\ q.user = p.user
  BY <1>1 DEF Places, Completing
<1>6. Fits(proc[h])'
  <2>1. proc'[h] = q BY <1>1, <1>5, Becomes
  <2>2. task'[p.task].at = "gone" /\ p.task \notin cancelled' BY <1>1, <1>3 DEF Completed
  <2> HIDE DEF q, p
  <2> QED BY <1>1, <1>3, <1>5, <2>1, <2>2 DEF Fits, Completed
<1>7. /\ contribution' \in [Accounts -> Contributed \cup {Unowned}]
      /\ consent' \in [Accounts -> BOOLEAN]
      /\ activator' \in [Accounts -> Tasks \cup {Nobody}]
  BY <1>1 DEF Typed
<1>8. q.at # "begin" BY <1>5
<1> HIDE DEF q, p
<1> QED BY <1>1, <1>4, <1>5, <1>6, <1>7, <1>8, HandlerWorks

LEMMA CompleteFailsInv ==
    ASSUME Bounds, ContributionInv, NEW h \in Handlers, CompleteFails(h)
    PROVE  ContributionInv'
<1> DEFINE p == proc[h]
<1>1. /\ Typed /\ OwnersFit /\ p \in Completing /\ p.at = "claimed" /\ Fits(p)
      /\ UNCHANGED <<task, contribution, consent, activator, cancelled>>
      /\ file' \in {file, [file EXCEPT ![p.account] = p.user]} /\ Become(h, Idle)
  BY PlacesTyped DEF CompleteFails, ContributionInv, Typed, HandlersFit, Answer
<1>2. p.account \in Accounts BY <1>1 DEF Completing, Accounts
<1>3. contribution[p.account] # Unowned /\ contribution[p.account].owner = p.user
  BY <1>1 DEF Fits
<1>4. /\ file' \in [Accounts -> Users \cup {Admins, Nobody}]
      /\ OwnersFit' /\ OwnersStay /\ ActivatorStep
  BY <1>1, <1>2, <1>3, FileWritten
<1>5. proc'[h] = Idle BY <1>1, IdleFits, Becomes
<1>6. Fits(proc[h])' /\ Idle \in Places /\ Idle.at # "begin" BY <1>5, IdleFits
<1>7. /\ contribution' \in [Accounts -> Contributed \cup {Unowned}]
      /\ consent' \in [Accounts -> BOOLEAN]
      /\ activator' \in [Accounts -> Tasks \cup {Nobody}]
  BY <1>1 DEF Typed
<1> HIDE DEF p
<1> QED BY <1>1, <1>4, <1>6, <1>7, HandlerWorks

\* Who activates an account, and for which task.
LEMMA Activation ==
    ASSUME Bounds, ContributionInv, NEW h \in Handlers, NEW u \in Users, NEW a \in Accounts,
           NEW by \in Tasks \cup {Nobody}, by # Nobody => Completed(by), Answer(h),
           \/ ActivateContribution(u, a, by)
           \/ UNCHANGED <<contribution, activator>>,
           UNCHANGED <<task, file, consent, cancelled>>
    PROVE  ContributionInv'
<1>1. Typed /\ OwnersFit BY DEF ContributionInv
<1>2. /\ contribution' \in [Accounts -> Contributed \cup {Unowned}]
      /\ activator' \in [Accounts -> Tasks \cup {Nobody}]
      /\ OwnersFit' /\ OwnersStay /\ ActivatorStep
  <2>1. CASE ActivateContribution(u, a, by)
    <3>1. \A b \in Accounts : activator'[b] \in {activator[b], by}
      BY <1>1, <2>1, ActivateKeeps
    <3>2. by # Nobody => Completed(by)' BY DEF Completed
    <3>3. ActivatorStep BY <3>1, <3>2 DEF ActivatorStep
    <3> QED BY <1>1, <2>1, <3>3, ActivateKeeps
  <2>2. CASE UNCHANGED <<contribution, activator>>
    BY <1>1, <2>2 DEF OwnersFit, OwnersStay, ActivatorStep, Typed
  <2> QED BY <2>1, <2>2
<1>3. Become(h, Idle) BY DEF Answer
<1>4. proc'[h] = Idle BY <1>1, <1>3, IdleFits, Becomes
<1>5. Fits(proc[h])' /\ Idle \in Places /\ Idle.at # "begin" BY <1>4, IdleFits
<1>6. /\ file' \in [Accounts -> Users \cup {Admins, Nobody}]
      /\ consent' \in [Accounts -> BOOLEAN]
  BY <1>1 DEF Typed
<1> QED BY <1>2, <1>3, <1>5, <1>6, HandlerWorks

LEMMA CompleteActivateInv ==
    ASSUME Bounds, ContributionInv, NEW h \in Handlers, CompleteActivate(h)
    PROVE  ContributionInv'
<1> DEFINE p == proc[h]
<1>1. /\ p \in Completing /\ Fits(p) /\ p.at = "installed"
      /\ UNCHANGED <<task, file, consent, cancelled>> /\ Answer(h)
      /\ \/ ActivateContribution(p.user, p.account, p.task)
         \/ UNCHANGED <<contribution, activator>>
  BY PlacesTyped DEF CompleteActivate, ContributionInv, Typed, HandlersFit
<1>2. p.task \in Tasks /\ p.user \in Users /\ p.account \in Accounts /\ Completed(p.task)
  BY <1>1 DEF Completing, Accounts, Fits
<1> HIDE DEF p
<1> QED BY <1>1, <1>2, Activation

-----------------------------------------------------------------------------
\* The channels.

LEMMA ClaimLooksInv ==
    ASSUME Bounds, ContributionInv, NEW h \in Handlers, NEW u \in Users, NEW a \in Channel,
           NEW t \in Tasks \cup {Nobody}, ClaimLooks(h, u, a, t)
    PROVE  ContributionInv'
<1> DEFINE q == [at |-> "looked", task |-> t, user |-> u, account |-> a,
                 known |-> file[a] # Nobody]
<1>1. Become(h, q) /\ UNCHANGED <<accounts, task, cancelled>> /\ Typed
  BY DEF ClaimLooks, ContributionInv
<1>2. q \in Places /\ q.at = "looked" BY DEF Places, Claiming
<1> HIDE DEF q
<1>3. proc'[h] = q BY <1>1, <1>2, Becomes
<1>4. Fits(proc[h])' BY <1>2, <1>3 DEF Fits
<1>5. TaskStep /\ CancelStep BY <1>1, TasksRest
<1> QED BY <1>1, <1>2, <1>4, <1>5, HandlerMoves DEF Typed

LEMMA ReserveChannelInv ==
    ASSUME Bounds, ContributionInv, NEW h \in Handlers, ReserveChannel(h)
    PROVE  ContributionInv'
<1> DEFINE p == proc[h]
           q == [p EXCEPT !.at = "saving"]
<1>1. /\ Typed /\ OwnersFit /\ p \in Claiming /\ p.at = "looked" /\ Fits(p)
      /\ UNCHANGED <<task, file, activator, cancelled>>
  BY PlacesTyped DEF ReserveChannel, ContributionInv, Typed, HandlersFit
<1>2. p.user \in Users /\ p.account \in Accounts
  BY <1>1 DEF Claiming, Accounts
<1>3. CASE ~(active[p.user] /\ settled[p.user] /\ Claimable(p.user, p.account, p.known))
  <2>1. Become(h, Idle) /\ UNCHANGED <<contribution, consent>>
    BY <1>3 DEF ReserveChannel, Answer
  <2>2. OwnersFit' /\ OwnersStay /\ ActivatorStep
    BY <1>1, <2>1 DEF OwnersFit, OwnersStay, ActivatorStep
  <2>3. proc'[h] = Idle BY <1>1, <2>1, IdleFits, Becomes
  <2> QED BY <1>1, <2>1, <2>2, <2>3, IdleFits, HandlerWorks DEF Typed
<1>4. CASE active[p.user] /\ settled[p.user] /\ Claimable(p.user, p.account, p.known)
  <2>1. Reserve(p.user, p.account) /\ Become(h, q) BY <1>4 DEF ReserveChannel
  <2>2. /\ contribution' \in [Accounts -> Contributed \cup {Unowned}]
        /\ consent' \in [Accounts -> BOOLEAN]
        /\ OwnersFit' /\ OwnersStay /\ ActivatorStep
        /\ contribution'[p.account] # Unowned /\ contribution'[p.account].owner = p.user
    BY <1>1, <1>2, <1>4, <2>1, ReserveKeeps
  <2>3. q \in Places /\ q.at = "saving" /\ q.account = p.account /\ q.user = p.user
    BY <1>1 DEF Places, Claiming
  <2> HIDE DEF q
  <2>4. Fits(proc[h])'
    <3>1. proc'[h] = q BY <1>1, <2>1, <2>3, Becomes
    <3> QED BY <2>2, <2>3, <3>1 DEF Fits
  <2>5. /\ file' \in [Accounts -> Users \cup {Admins, Nobody}]
        /\ activator' \in [Accounts -> Tasks \cup {Nobody}]
    BY <1>1 DEF Typed
  <2>6. q.at # "begin" BY <2>3
  <2> HIDE DEF p
  <2> QED BY <1>1, <2>1, <2>2, <2>3, <2>4, <2>5, <2>6, HandlerWorks
<1> QED BY <1>3, <1>4

LEMMA SaveChannelInv ==
    ASSUME Bounds, ContributionInv, NEW h \in Handlers, SaveChannel(h)
    PROVE  ContributionInv'
<1> DEFINE p == proc[h]
           saved == [p EXCEPT !.at = "saved"]
           signed == [p EXCEPT !.at = "signed"]
<1>1. /\ Typed /\ OwnersFit /\ p \in Claiming /\ p.at = "saving" /\ Fits(p)
      /\ UNCHANGED <<task, contribution, consent, activator, cancelled>>
      /\ file' \in {file, [file EXCEPT ![p.account] = p.user]}
  BY PlacesTyped DEF SaveChannel, ContributionInv, Typed, HandlersFit
<1>2. p.user \in Users /\ p.account \in Accounts
  BY <1>1 DEF Claiming, Accounts
<1>3. contribution[p.account] # Unowned /\ contribution[p.account].owner = p.user
  BY <1>1 DEF Fits
<1>4. /\ file' \in [Accounts -> Users \cup {Admins, Nobody}]
      /\ OwnersFit' /\ OwnersStay /\ ActivatorStep
  BY <1>1, <1>2, <1>3, FileWritten
<1>5. PICK q \in {saved, signed, Idle} : Become(h, q) /\ (q = signed => p.task # Nobody)
  <2>1. signed.at = "signed" /\ saved.at = "saved" /\ Idle.at = "idle"
    BY <1>1 DEF Claiming, Idle
  <2>2. \/ p.task = Nobody /\ Become(h, saved)
        \/ p.task # Nobody /\ Become(h, signed)
        \/ Become(h, Idle)
    BY DEF SaveChannel, Answer
  <2> HIDE DEF saved, signed
  <2> QED BY <2>1, <2>2
<1>6. /\ q \in Places /\ q.at \in {"saved", "signed", "idle"}
      /\ q.at # "idle" => q.account = p.account /\ q.user = p.user
  <2>1. CASE q = saved BY <1>1, <2>1 DEF Places, Claiming
  <2>2. CASE q = signed
    <3>1. p.task \in Tasks BY <1>1, <1>5, <2>2 DEF Claiming
    <3> QED BY <1>1, <2>2, <3>1 DEF Places, Claiming, Signed
  <2>3. CASE q = Idle BY <2>3, IdleFits
  <2> QED BY <2>1, <2>2, <2>3
<1>7. Fits(proc[h])'
  <2>1. proc'[h] = q BY <1>1, <1>5, <1>6, Becomes
  <2> HIDE DEF p
  <2> QED BY <1>1, <1>3, <1>6, <2>1 DEF Fits
<1>8. /\ contribution' \in [Accounts -> Contributed \cup {Unowned}]
      /\ consent' \in [Accounts -> BOOLEAN]
      /\ activator' \in [Accounts -> Tasks \cup {Nobody}]
  BY <1>1 DEF Typed
<1>9. q.at # "begin" BY <1>6
<1> HIDE DEF p, saved, signed
<1> QED BY <1>1, <1>4, <1>5, <1>6, <1>7, <1>8, <1>9, HandlerWorks

LEMMA ImportActivateInv ==
    ASSUME Bounds, ContributionInv, NEW h \in Handlers, ImportActivate(h)
    PROVE  ContributionInv'
<1> DEFINE p == proc[h]
<1>1. /\ p \in Claiming
      /\ UNCHANGED <<task, file, consent, cancelled>> /\ Answer(h)
      /\ \/ ActivateContribution(p.user, p.account, Nobody)
         \/ UNCHANGED <<contribution, activator>>
  BY PlacesTyped DEF ImportActivate, ContributionInv, Typed
<1>2. p.user \in Users /\ p.account \in Accounts BY <1>1 DEF Claiming, Accounts
<1> HIDE DEF p
<1> QED BY <1>1, <1>2, Activation

LEMMA QoderPollInv ==
    ASSUME Bounds, ContributionInv, NEW h \in Handlers, QoderPoll(h)
    PROVE  ContributionInv'
<1> DEFINE p == proc[h]
           q == [at |-> "read", task |-> p.task, user |-> p.user, account |-> p.account,
                 status |-> contribution[p.account].status]
<1>1. /\ Typed /\ p \in Signed /\ p.at = "signed" /\ Fits(p) /\ task[p.task].at # "reserved"
      /\ UNCHANGED <<accounts, task, cancelled>>
  BY PlacesTyped DEF QoderPoll, ContributionInv, Typed, HandlersFit
<1>2. p.task \in Tasks /\ p.user \in Users /\ p.account \in Channel /\ p.account \in Accounts
  BY <1>1 DEF Signed, Accounts
<1>3. TaskStep /\ CancelStep BY <1>1, TasksRest
<1>4. CASE ~(Live(p.task) /\ contribution[p.account].owner = p.user)
  <2>1. Become(h, Idle) BY <1>4 DEF QoderPoll, Answer
  <2>2. proc'[h] = Idle BY <1>1, <2>1, IdleFits, Becomes
  <2>3. Fits(proc[h])' /\ Idle \in Places /\ Idle.at # "begin" BY <2>2, IdleFits
  <2> QED BY <1>1, <1>3, <2>1, <2>3, HandlerMoves DEF Typed
<1>5. CASE Live(p.task) /\ contribution[p.account].owner = p.user
  <2>1. Become(h, q) BY <1>5 DEF QoderPoll
  <2>2. contribution[p.account] # Unowned BY <1>1 DEF Fits
  <2>3. contribution[p.account].status \in {"verifying", "active", "private"}
    BY <1>1, <1>2, <2>2, ContributionsTyped DEF Contributed
  <2>4. q \in Places /\ q.at = "read" /\ q.task = p.task /\ q.account = p.account
        /\ q.user = p.user
    BY <1>2, <2>3 DEF Places, Reading
  <2>5. task[p.task].at = "open" BY <1>1, <1>5 DEF Live, Held
  <2> HIDE DEF q
  <2>6. Fits(proc[h])'
    <3>1. proc'[h] = q BY <1>1, <2>1, <2>4, Becomes
    <3>2. task' = task /\ contribution' = contribution BY <1>1 DEF accounts
    <3> QED BY <1>5, <2>2, <2>4, <2>5, <3>1, <3>2 DEF Fits
  <2>7. q.at # "begin" BY <2>4
  <2> HIDE DEF p
  <2> QED BY <1>1, <1>3, <2>1, <2>4, <2>6, <2>7, HandlerMoves DEF Typed
<1> QED BY <1>4, <1>5

\* The poll holds portalMu while it looks for the task and takes it.
LEMMA QoderCommitInv ==
    ASSUME Bounds, ContributionInv, NEW h \in Handlers, QoderCommit(h)
    PROVE  ContributionInv'
<1> DEFINE p == proc[h]
           t == p.task
<1>1. /\ Typed /\ OwnersFit /\ p \in Reading /\ p.at = "read" /\ Fits(p) /\ Answer(h)
      /\ UNCHANGED <<file, consent, cancelled>>
  BY PlacesTyped DEF QoderCommit, ContributionInv, Typed, HandlersFit
<1>2. t \in Tasks /\ p.user \in Users /\ p.account \in Accounts
      /\ task[t].at \in {"open", "gone"}
  BY <1>1 DEF Reading, Accounts, Fits
<1>3. CASE ~Live(t) \/ (p.status = "verifying" /\ ~Activates(p.user, p.account))
  <2>1. UNCHANGED <<task, contribution, activator>> BY <1>3 DEF QoderCommit
  <2>2. Nobody \in Tasks \cup {Nobody} OBVIOUS
  <2> QED BY <1>1, <1>2, <2>1, <2>2, Activation
<1>4. CASE Live(t) /\ ~(p.status = "verifying" /\ ~Activates(p.user, p.account))
  <2>1. task' = [task EXCEPT ![t] = Gone(t)] /\ task[t].at = "open"
    BY <1>2, <1>4 DEF QoderCommit, Live, Held
  <2>2. Gone(t) \in TaskRow /\ Gone(t).at = "gone" /\ Gone(t).user = task[t].user
    BY <1>1, <1>2, <2>1, GoneTyped
  <2>3. /\ task' \in [Tasks -> TaskRow] /\ TaskStep /\ CancelStep /\ task'[t] = Gone(t)
        /\ \A v \in Tasks : task[v].at = "reserved" => task'[v].at = "reserved"
    BY <1>1, <1>2, <2>1, <2>2, OpenMoves
  <2>4. task'[t].at = "gone" /\ t \notin cancelled'
    <3>1. t \notin cancelled BY <2>1 DEF ContributionInv, TasksFit
    <3> QED BY <1>1, <2>2, <2>3, <3>1
  <2>5. /\ contribution' \in [Accounts -> Contributed \cup {Unowned}]
        /\ activator' \in [Accounts -> Tasks \cup {Nobody}]
        /\ OwnersFit' /\ OwnersStay /\ ActivatorStep
    <3>1. CASE p.status = "verifying"
      <4>1. ActivateContribution(p.user, p.account, t) BY <1>4, <3>1 DEF QoderCommit
      <4>2. t \in Tasks \cup {Nobody} BY <1>2
      <4>3. /\ contribution' \in [Accounts -> Contributed \cup {Unowned}]
            /\ activator' \in [Accounts -> Tasks \cup {Nobody}]
            /\ OwnersFit' /\ OwnersStay
            /\ \A b \in Accounts : activator'[b] \in {activator[b], t}
        BY <1>1, <1>2, <4>1, <4>2, ActivateKeeps
      <4>4. ActivatorStep BY <2>4, <4>3 DEF ActivatorStep, Completed
      <4> QED BY <4>3, <4>4
    <3>2. CASE p.status # "verifying"
      <4>1. UNCHANGED <<contribution, activator>> BY <1>4, <3>2 DEF QoderCommit
      <4> QED BY <1>1, <4>1 DEF OwnersFit, OwnersStay, ActivatorStep, Typed
    <3> QED BY <3>1, <3>2
  <2>6. /\ proc' \in [Handlers -> Places] /\ proc'[h] = Idle
        /\ \A g \in Handlers \ {h} : proc'[g] = proc[g]
    BY <1>1, IdleFits, Becomes DEF Answer
  <2>7. Typed' BY <1>1, <2>3, <2>5, <2>6 DEF Typed
  <2>8. Fits(proc[h])' /\ proc'[h].at # "begin" BY <2>6, IdleFits
  <2>9. \A g \in Handlers \ {h} : proc[g].at = "begin" => task'[proc[g].task].at = "reserved"
    BY <2>3, BeginsRest
  <2> QED BY <2>3, <2>5, <2>6, <2>7, <2>8, <2>9, HandlerKeeps
<1> QED BY <1>3, <1>4

-----------------------------------------------------------------------------
\* The owner afterwards, and the administrators.

\* A step that changes accounts alone.
LEMMA AccountMoves ==
    ASSUME Bounds, ContributionInv, UNCHANGED <<task, proc, cancelled>>,
           contribution' \in [Accounts -> Contributed \cup {Unowned}],
           file' \in [Accounts -> Users \cup {Admins, Nobody}],
           consent' \in [Accounts -> BOOLEAN],
           activator' \in [Accounts -> Tasks \cup {Nobody}],
           OwnersFit', OwnersStay, ActivatorStep
    PROVE  ContributionInv'
<1>1. TaskStep /\ CancelStep BY TasksRest
<1>2. Typed' BY DEF ContributionInv, Typed
<1> QED BY <1>1, <1>2, OthersKeep

LEMMA RevokeInv ==
    ASSUME Bounds, ContributionInv, NEW a \in Accounts, Revoke(a)
    PROVE  ContributionInv'
<1> DEFINE c == [contribution[a] EXCEPT !.status = "private"]
<1>1. /\ Typed /\ OwnersFit /\ contribution[a].status = "active"
      /\ contribution' = [contribution EXCEPT ![a] = c]
      /\ consent' = [consent EXCEPT ![a] = FALSE]
      /\ UNCHANGED <<task, file, proc, activator, cancelled>>
  BY DEF Revoke, ContributionInv
<1>2. contribution[a] \in Contributed /\ contribution[a] # Unowned
  BY <1>1, ContributionsTyped
<1>3. c \in Contributed /\ c # Unowned /\ c.owner = contribution[a].owner /\ c.status = "private"
  BY <1>2 DEF Contributed, Unowned
<1> HIDE DEF c
<1>4. /\ contribution' \in [Accounts -> Contributed \cup {Unowned}] /\ contribution'[a] = c
      /\ consent' \in [Accounts -> BOOLEAN]
      /\ \A b \in Accounts \ {a} : contribution'[b] = contribution[b] /\ consent'[b] = consent[b]
  BY <1>1, <1>3 DEF Typed
<1>5. OwnersFit' BY <1>1, <1>2, <1>3, <1>4 DEF OwnersFit
<1>6. OwnersStay /\ ActivatorStep BY <1>1, <1>2, <1>3, <1>4 DEF OwnersStay, ActivatorStep
<1> QED BY <1>1, <1>4, <1>5, <1>6, AccountMoves DEF Typed

LEMMA ShareInv ==
    ASSUME Bounds, ContributionInv, NEW a \in Accounts, Share(a)
    PROVE  ContributionInv'
<1> DEFINE c == [contribution[a] EXCEPT !.status = "active"]
<1>1. /\ Typed /\ OwnersFit /\ contribution[a].status = "private"
      /\ contribution' = [contribution EXCEPT ![a] = c]
      /\ consent' = [consent EXCEPT ![a] = TRUE]
      /\ activator' = [activator EXCEPT ![a] = Nobody]
      /\ UNCHANGED <<task, file, proc, cancelled>>
  BY DEF Share, ContributionInv
<1>2. contribution[a] \in Contributed /\ contribution[a] # Unowned
  BY <1>1, ContributionsTyped
<1>3. c \in Contributed /\ c # Unowned /\ c.owner = contribution[a].owner /\ c.status = "active"
  BY <1>2 DEF Contributed, Unowned
<1> HIDE DEF c
<1>4. /\ contribution' \in [Accounts -> Contributed \cup {Unowned}] /\ contribution'[a] = c
      /\ consent' \in [Accounts -> BOOLEAN] /\ consent'[a]
      /\ \A b \in Accounts \ {a} : contribution'[b] = contribution[b] /\ consent'[b] = consent[b]
  BY <1>1, <1>3 DEF Typed
<1>5. OwnersFit' BY <1>1, <1>2, <1>3, <1>4 DEF OwnersFit
<1>6. activator' \in [Accounts -> Tasks \cup {Nobody}]
      /\ \A b \in Accounts : activator'[b] \in {activator[b], Nobody}
  BY <1>1 DEF Typed
<1>7. OwnersStay /\ ActivatorStep BY <1>2, <1>3, <1>4, <1>6 DEF OwnersStay, ActivatorStep
<1> QED BY <1>1, <1>4, <1>5, <1>6, <1>7, AccountMoves DEF Typed

LEMMA AdminInv ==
    ASSUME Bounds, ContributionInv, NEW a \in Accounts, AdminUpload(a) \/ AdminDelete(a)
    PROVE  ContributionInv'
<1>1. /\ Typed /\ OwnersFit /\ UNCHANGED <<task, contribution, consent, activator, proc, cancelled>>
      /\ file' \in {[file EXCEPT ![a] = Admins], [file EXCEPT ![a] = Nobody]}
  BY DEF AdminUpload, AdminDelete, ContributionInv
<1>2. /\ file' \in [Accounts -> Users \cup {Admins, Nobody}]
      /\ \A b \in Accounts : file'[b] \in {file[b], Admins, Nobody}
  BY <1>1 DEF Typed
<1>3. OwnersFit' BY <1>1, <1>2 DEF OwnersFit
<1>4. OwnersStay /\ ActivatorStep BY <1>1 DEF OwnersStay, ActivatorStep
<1> QED BY <1>1, <1>2, <1>3, <1>4, AccountMoves DEF Typed

\* A step that changes none of this, of an administrator or of none.
LEMMA RestInv ==
    ASSUME Bounds, ContributionInv,
           UNCHANGED <<task, contribution, file, proc, consent, cancelled, activator>>
    PROVE  ContributionInv'
<1>1. OwnersFit' /\ OwnersStay /\ ActivatorStep
  BY DEF OwnersFit, OwnersStay, ActivatorStep, ContributionInv
<1> QED BY <1>1, AccountMoves DEF ContributionInv, Typed

-----------------------------------------------------------------------------
\* The theorems.

LEMMA InitInv ==
    ASSUME Bounds, Init
    PROVE  ContributionInv
<1>1. /\ Typed /\ OwnersFit /\ TasksFit /\ BeginsFit /\ HandlersFit
  BY DEF Init, Typed, TaskRow, NoTask, Unowned, Idle, Places, OwnersFit, TasksFit, BeginsFit,
         HandlersFit, Fits
<1>2. TasksCapped
  <2>1. /\ {t \in Tasks : Held(t)} = {}
        /\ \A u \in Users : {t \in Tasks : Held(t) /\ task[t].user = u} = {}
    BY DEF Init, NoTask, Held
  <2> QED BY <2>1, FS_EmptySet DEF TasksCapped, Bounds
<1> QED BY <1>1, <1>2 DEF ContributionInv

LEMMA StepInv ==
    ASSUME Bounds, ContributionInv, [Next]_vars
    PROVE  ContributionInv'
<1>1. ASSUME NEW h \in Handlers, NEW u \in Users, NEW t \in Tasks,
             NEW kind \in {"scan", "qoder"}, Begin(h, u, kind, t)
      PROVE  ContributionInv'
  BY <1>1, BeginInv
<1>2. ASSUME NEW h \in Handlers, BeginAnswered(h) PROVE ContributionInv'
  BY <1>2, BeginAnsweredInv
<1>3. ASSUME NEW h \in Handlers, PollWaits(h) PROVE ContributionInv'
  BY <1>3, PollWaitsInv
<1>4. ASSUME NEW h \in Handlers, NEW t \in Tasks, Poll(h, t) PROVE ContributionInv'
  BY <1>4, PollInv
<1>5. ASSUME NEW h \in Handlers, NEW a \in Scanned, PollReady(h, a) PROVE ContributionInv'
  BY <1>5, PollReadyInv
<1>6. ASSUME NEW h \in Handlers, CompleteClaim(h) PROVE ContributionInv'
  BY <1>6, CompleteClaimInv
<1>7. ASSUME NEW h \in Handlers, CompleteInstall(h) PROVE ContributionInv'
  BY <1>7, CompleteInstallInv
<1>8. ASSUME NEW h \in Handlers, CompleteFails(h) PROVE ContributionInv'
  BY <1>8, CompleteFailsInv
<1>9. ASSUME NEW h \in Handlers, CompleteActivate(h) PROVE ContributionInv'
  BY <1>9, CompleteActivateInv
<1>10. ASSUME NEW h \in Handlers, NEW u \in Users, NEW a \in Channel,
              NEW t \in Tasks \cup {Nobody}, ClaimLooks(h, u, a, t)
       PROVE  ContributionInv'
  BY <1>10, ClaimLooksInv
<1>11. ASSUME NEW h \in Handlers, ReserveChannel(h) PROVE ContributionInv'
  BY <1>11, ReserveChannelInv
<1>12. ASSUME NEW h \in Handlers, SaveChannel(h) PROVE ContributionInv'
  BY <1>12, SaveChannelInv
<1>13. ASSUME NEW h \in Handlers, ImportActivate(h) PROVE ContributionInv'
  BY <1>13, ImportActivateInv
<1>14. ASSUME NEW h \in Handlers, QoderPoll(h) PROVE ContributionInv'
  BY <1>14, QoderPollInv
<1>15. ASSUME NEW h \in Handlers, QoderCommit(h) PROVE ContributionInv'
  BY <1>15, QoderCommitInv
<1>16. ASSUME NEW t \in Tasks, Expire(t) PROVE ContributionInv'
  BY <1>16, ExpireInv
<1>17. ASSUME NEW t \in Tasks, Cancel(t) PROVE ContributionInv'
  BY <1>17, CancelInv
<1>18. ASSUME NEW a \in Accounts, Revoke(a) PROVE ContributionInv'
  BY <1>18, RevokeInv
<1>19. ASSUME NEW a \in Accounts, Share(a) PROVE ContributionInv'
  BY <1>19, ShareInv
<1>20. ASSUME NEW a \in Accounts, AdminUpload(a) \/ AdminDelete(a) PROVE ContributionInv'
  BY <1>20, AdminInv
<1>21. ASSUME NEW u \in Users, SetUserStatus(u) \/ ResetPassword(u) PROVE ContributionInv'
  BY <1>21, RestInv DEF SetUserStatus, ResetPassword, accounts
<1>22. CASE UNCHANGED vars
  BY <1>22, RestInv DEF vars
<1> QED BY <1>1, <1>2, <1>3, <1>4, <1>5, <1>6, <1>7, <1>8, <1>9, <1>10, <1>11, <1>12, <1>13,
           <1>14, <1>15, <1>16, <1>17, <1>18, <1>19, <1>20, <1>21, <1>22 DEF Next

\* The state of the portal's lending, whatever its users, requests, upstreams
\* and administrators do.
THEOREM LendingFits ==
    ASSUME Bounds
    PROVE  Spec => []ContributionInv
<1>1. Init => ContributionInv BY InitInv
<1>2. ContributionInv /\ [Next]_vars => ContributionInv' BY StepInv
<1> QED BY <1>1, <1>2, PTL DEF Spec

LEMMA InvConsent ==
    ASSUME Bounds, ContributionInv
    PROVE  SharedByConsent
<1> SUFFICES ASSUME NEW a \in Accounts
             PROVE  /\ contribution[a].status = "active"
                            => consent[a] /\ activator[a] \notin cancelled
                    /\ contribution[a] # Unowned
                            => file[a] \in {contribution[a].owner, Admins, Nobody}
  BY DEF SharedByConsent
<1>1. activator[a] \notin cancelled
  BY DEF ContributionInv, TasksFit, Completed, Typed, Bounds
<1> QED BY <1>1 DEF ContributionInv, OwnersFit

\* SharedByConsent: an account is shared by its owner's consent alone, never for
\* a task whose cancellation was confirmed, and with credentials of its owner's
\* or an administrator's (completePortalContribution, portalContributionCancel,
\* WithdrawContribution).
THEOREM SharedHolds ==
    ASSUME Bounds
    PROVE  Spec => []SharedByConsent
<1>1. ContributionInv => SharedByConsent BY InvConsent
<1> QED BY <1>1, LendingFits, PTL

\* TasksCapped: login tasks and the begins that are under way stay within
\* PortalMaxTasksPerUser and portalMaxTasks.
THEOREM CapsHold ==
    ASSUME Bounds
    PROVE  Spec => []TasksCapped
<1>1. ContributionInv => TasksCapped BY DEF ContributionInv
<1> QED BY <1>1, LendingFits, PTL

\* Only three steps make an account shared, and each looks at its owner then.
LEMMA StepSharers ==
    ASSUME Bounds, ContributionInv, [Next]_vars
    PROVE  SharersLive
<1>1. ASSUME NEW u \in Users, NEW a \in Accounts, NEW by, ActivateContribution(u, a, by)
      PROVE  SharersLive
  <2>1. /\ contribution' = [contribution EXCEPT ![a].status = "active"]
        /\ contribution[a] = [owner |-> u, status |-> "verifying"] /\ active[u]
    BY <1>1 DEF ActivateContribution, Activates
  <2>2. contribution'[a].owner = u
        /\ \A b \in Accounts \ {a} : contribution'[b] = contribution[b]
    BY <2>1 DEF ContributionInv, Typed
  <2> QED BY <2>1, <2>2 DEF SharersLive
<1>2. ASSUME NEW u \in Users, NEW a \in Accounts, Reserve(u, a) PROVE SharersLive
  <2>1. /\ contribution'[a].status = "verifying"
        /\ \A b \in Accounts \ {a} : contribution'[b] = contribution[b]
    BY <1>2 DEF Reserve, ContributionInv, Typed
  <2> QED BY <2>1 DEF SharersLive
<1>3. CASE contribution' = contribution BY <1>3 DEF SharersLive
<1>4. ASSUME NEW h \in Handlers, CompleteClaim(h) PROVE SharersLive
  <2>1. proc[h].user \in Users /\ proc[h].account \in Accounts
    BY <1>4, PlacesTyped DEF CompleteClaim, ContributionInv, Typed, Completing, Accounts
  <2> QED BY <1>2, <1>3, <1>4, <2>1 DEF CompleteClaim
<1>5. ASSUME NEW h \in Handlers, CompleteActivate(h) PROVE SharersLive
  <2>1. proc[h].user \in Users /\ proc[h].account \in Accounts
    BY <1>5, PlacesTyped DEF CompleteActivate, ContributionInv, Typed, Completing, Accounts
  <2> QED BY <1>1, <1>3, <1>5, <2>1 DEF CompleteActivate
<1>6. ASSUME NEW h \in Handlers, ReserveChannel(h) PROVE SharersLive
  <2>1. proc[h].user \in Users /\ proc[h].account \in Accounts
    BY <1>6, PlacesTyped DEF ReserveChannel, ContributionInv, Typed, Claiming, Accounts
  <2> QED BY <1>2, <1>3, <1>6, <2>1 DEF ReserveChannel
<1>7. ASSUME NEW h \in Handlers, ImportActivate(h) PROVE SharersLive
  <2>1. proc[h].user \in Users /\ proc[h].account \in Accounts
    BY <1>7, PlacesTyped DEF ImportActivate, ContributionInv, Typed, Claiming, Accounts
  <2> QED BY <1>1, <1>3, <1>7, <2>1 DEF ImportActivate
<1>8. ASSUME NEW h \in Handlers, QoderCommit(h) PROVE SharersLive
  <2>1. proc[h].user \in Users /\ proc[h].account \in Accounts
    BY <1>8, PlacesTyped DEF QoderCommit, ContributionInv, Typed, Reading, Accounts
  <2> QED BY <1>1, <1>3, <1>8, <2>1 DEF QoderCommit
<1>9. ASSUME NEW a \in Accounts, Revoke(a) PROVE SharersLive
  <2>1. /\ contribution'[a].status = "private"
        /\ \A b \in Accounts \ {a} : contribution'[b] = contribution[b]
    <3>1. contribution[a] \in Contributed
      BY <1>9, ContributionsTyped DEF Revoke, ContributionInv
    <3> QED BY <1>9, <3>1 DEF Revoke, ContributionInv, Typed, Contributed
  <2> QED BY <2>1 DEF SharersLive
<1>10. ASSUME NEW a \in Accounts, Share(a) PROVE SharersLive
  <2>1. /\ contribution'[a].owner = contribution[a].owner /\ active[contribution[a].owner]
        /\ \A b \in Accounts \ {a} : contribution'[b] = contribution[b]
    <3>1. contribution[a] \in Contributed
      BY <1>10, ContributionsTyped DEF Share, ContributionInv
    <3> QED BY <1>10, <3>1 DEF Share, ContributionInv, Typed, Contributed
  <2> QED BY <2>1 DEF SharersLive
<1>11. \/ contribution' = contribution
       \/ \E h \in Handlers : \/ CompleteClaim(h) \/ CompleteActivate(h) \/ ReserveChannel(h)
                              \/ ImportActivate(h) \/ QoderCommit(h)
       \/ \E a \in Accounts : Revoke(a) \/ Share(a)
  BY DEF Next, vars, accounts, Begin, BeginAnswered, PollWaits, Poll, PollReady, CompleteInstall,
         CompleteFails, ClaimLooks, SaveChannel, QoderPoll, Expire, Cancel, AdminUpload,
         AdminDelete, SetUserStatus, ResetPassword
<1> QED BY <1>3, <1>4, <1>5, <1>6, <1>7, <1>8, <1>9, <1>10, <1>11

\* SharersLive: an account starts to be shared only while its owner may use the
\* portal (the condition of ActivateContribution and RestoreContributionSharing).
THEOREM SharersHold ==
    ASSUME Bounds
    PROVE  Spec => [][SharersLive]_vars
<1>1. ContributionInv /\ [Next]_vars => [SharersLive]_vars BY StepSharers
<1> QED BY <1>1, LendingFits, PTL DEF Spec
=============================================================================
