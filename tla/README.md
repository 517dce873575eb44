# Verification of work2api

work2api is a gateway in Go: clients speak the OpenAI Chat, Anthropic Messages
or Responses protocol to it, and it forwards their calls to accounts of several
upstream channels (WorkBuddy, OpenCode, Trae, Qoder). This directory holds TLA+
modules that model its protocols, TLC configurations that check them on small
instances, and TLAPS proofs of what holds for every instance. `PROJECT.json`
lists the components, runs, mutants, findings, hazards and theorems, and maps
every definition to the lines of code it stands for.

    cd tla
    tlc -workers 2 -config MCGates.cfg MCGates   # one run
    tlapm AdmissionProofs.tla                    # the proofs

## The system

| Component | State | Operations | What makes it correct |
|---|---|---|---|
| Admission controller (`internal/app/admission.go`) | counters of slots, buffers and accounts, one queue of tickets, turns of keys | acquire, bind, pace, release, cancel, dispatch | exact counts, no limit exceeded, private keys not starved, no ticket forgotten |
| Request capacity (`request_capacity.go`) | reader slots, bytes of bodies, flights of catalogue refreshes | read, hold, refresh, join, release | everything lent is returned once, on every path out |
| Gateway dispatch and model routes (`model_routes.go`, `inference.go`, `dispatch.go`) | unified models and their members, keys' grants, affinity of callers | capture grants, authorise, try a member, fail over | no dispatch without a permission that holds when it is made; one member speaks |
| Identities (`store_identity.go`, `store_invites.go`, `portalauth`, `admin_session.go`, `portal.go`) | users with role, status, password and epoch; portal sessions in the database, administrators' in memory; invite codes | log in, log out, change, reset, promote, hand over, register | a cookie that works was earned with the password in force; revoked ones never return; one active owner; invites exact |
| Contributions (`portal.go`, `portal_channels.go`, `store_portal.go`) | login tasks in memory, contributions in the store, accounts in pools | scan, poll, import, consent, withdraw, activate | shared by consent only, one owner, tasks capped |
| Quotas (`portal_budget.go`) | a bucket per user and day | reserve, settle, clean up | a bucket is what its calls used or still reserve |
| Media tasks (`media.go`, `media_tracking.go`) | rows, in-flight queries | submit, poll, track, wait | submitted once, told truthfully, followed to its end |
| Account checks (`account_checks.go`, `account_check_admin.go`) | flights, slots, the kept result of each account | check, test, tick | a result is of the credentials it was made with |
| Usage records (`store_usage.go`, `scheduler.go`) | rows with texts, media tasks | log, expire, cap, drop texts | within the limits, and nothing given up that need not be |
| Lifecycle (`internal/selfupdate`, `internal/statebackup`, `app/backup.go`, `cmd/server`) | staged files, plan, helper, snapshot gate, archives | stage, install, exchange, verify, roll back, snapshot, restore | recoverable after a crash at any step; backups are whole |
| Session router (`workbuddy/runtime/session*.go`, `routing.go`) | session entries: binding, versions, operator control, running and waiting calls | begin, look up, select, commit, outcome, finish; switch, reselect, automatic | a control is consumed once and its status is true, live entries stay |
| Attempt loop (`routing.go`, `attempt.go`, `errclass.go`) | account, accounts tried, attempt and dispatch budget, repairs, output begun | select, check, headers, dispatch, renew, repair, penalise, rotate | bounded dispatches, no replay after output, no dispatch without permission |
| Balances (`runtime.go`, `maintenance.go`, `pool.go`, `core/provider`) | cooldowns, credit revisions, recheck queue, one reading per account, maintenance guard | reject, queue, read, record, clear, close | a reading lifts only an earlier rejection, no recheck is lost, close returns |
| Credentials (`workbuddy/credentials`, `account_admin.go`) | auth file, cached session, renewal, record of rejected tokens | headers, renew, recover, retire, upload, delete | uploads and deletions win, callers share one renewal and all get an answer |
| Model registry (`workbuddy/models`) | snapshots of two sources per account, pauses, the published catalogue | refresh all, refresh one, merge, publish | an account has the models its own sources confirmed last |
| OpenCode (`internal/opencode`) | keys, proxies and their health, instances of the channel, aliases of tools | route, dispatch, rebind, probe, import, save | the upstream's answer reaches the client, keys leave broken proxies, imports stay, tools keep their names |
| Trae (`internal/trae`) | identities, their tokens in memory and on disk, cooldowns, the day's claim | exchange, call, cool, thaw, check in | no rotation forgotten while the process runs, no served call repeated, one claim a day |
| Qoder (`internal/qoder`) | profile, secret, bridge, cooldowns, recorded windows | renew, build, call, check in | a bridge is of the present secret, bounded replays, claimed windows stay on record |
| Protocol conversion (`internal/core/protocol`, `workbuddy/adapters`) | history, tools, parser, emitter, collapsed document | prepare, convert, parse, emit, collapse, restore | everything once, whole and in order, a true end, tools keep their identity |

A call is read under the limits of `request_capacity.go` and passes the dispatcher, which
resolves its model to the members of a route. It acquires a lease from the
admission controller, and is converted for the channel of the member. The
WorkBuddy channel asks the session router for an account, which the controller
binds together with a slot; the attempt loop obtains headers from the
credential manager, sends the request and penalises or rotates accounts; a
credit rejection starts a balance reading. The other channels have loops of
their own, with other ideas of what may be sent again. The answer is converted
back as it is streamed. Users, administrators, the scheduler, the desktop
client and the updater change accounts, permissions, files and the process
itself at any time.

What is hard here is concurrency: state is read before a queue, a token
renewal or an upstream call and used after it; several callers share one
flight of a refresh; a marker on disk must be there before the call whose
answer may be lost. `PROJECT.json` lists the hazards line by line with the
properties that cover each, or the reason why none does.

## Modules

Each module has the state of one component as variables, one action per step
of its handlers (a step ends where the code unlocks, commits, waits or asks
somebody else) and its properties. The state of a handler between two steps is
a record of what it has read, so that it may be stale when it is used.

### Requests on their way in

**Admission** models `modelAdmission`. The mutex is the variable `mu`: an
operation takes it, each turn of `dispatchLocked` is one step (`DispatchOne`,
`DispatchEnd`), and the rest of the operation (`Admit`, `TakeAccount`)
follows. Tickets are requests; their fields are functions and sets over
`Requests`. `pc` says where the handler is. A scan asks the selector of each
ticket with room (`Picks`): it settles on an account, which may be busy, or, when
an operator has asked for another account for the session (`steered`) and that
cannot be, drops the control and answers nothing, although accounts may be free
(`routing.go:691` to 704); the ticket (`refused`) then waits for the next scan, at
worst for the ticker. `Environment` changes memory pressure, the accounts a
selector finds ready and the controls of sessions (`Steer`); `Tick` is the ticker
of `await`, `GiveUp` a timeout or a cancelled caller. `Unlimited` is
`ModelLimitsDisabled`. The configuration code always sets it
(`internal/config/config.go:175`), so that in production only the unlimited
branches of `Acquire` and `Bind`, and `Release`, run; the limits are
exercised by the repository's tests. Both modes are checked.
**MCAdmissionFairness** adds the history for the rotation between keys.

**Capacity** models what a request is lent before its handler runs: a reader's
slot (some may wait for one), bytes of the body budget as the body grows, and
for a refresh of a catalogue a flight that later requests of the same key
join. Every way out of a handler is an action: a body too long, a full budget,
a panic, a caller who leaves while he leads or follows.

**ModelRoutes** models who may call which model on which account: keys with
allowlists and frozen grants (`captureRouteGrants`), policies, members and
affinity. A request is authorised on arrival, after admission, before each
member and before each dispatch, while administrators and contributors edit in
between. **Quota** is the ledger of a user's day: reserve a bound, settle in
the same bucket with what the upstream reported, across midnight, failed
writes and a restart.

**AccountChecks** models `accountCheckBook`: flights, slots, and
`checkIdentity`, which binds a result to the credentials and the runtime it was
obtained with; the administrator's checks and tests and the tick use it. `cred`
numbers the credentials an account has and `identity` is what is shown of them,
which is nothing for an account that was deleted and for one of Trae whose
credentials are being renewed (`Renewing`). All such moments look alike:
credentials that a check began and ended without seeing may have been shown in
between, and its result is kept for the next such moment. `ChecksFit` therefore
speaks of accounts that show an identity.

### People, accounts and tasks

**Identity** models the tables of users, sessions and invites and the
administrators' sessions in memory. A handler reads a row, spends a while on
bcrypt and writes: `LoginRead` and `LoginIssue`, `ChangeRead` and
`ChangeWrite`, `ActorEnter` and `Act`, `RegisterCheck` and `Register` are the
two ends of that. Each write is one transaction, with the conditions of its
SQL as guards. Since bcrypt salts, a credential has a serial number besides
its secret. `Recovery` is the actor of `ADMIN_TOKEN`. `proof` and `expelled` are
history: the credential shown for a token, and the tokens whose user's
identity was invalidated while they were valid or, for one issued late, since
it was verified. `Restart` loses what is in memory.

**Contributions** models the three ways by which users lend accounts: a
WorkBuddy scan that the poll completes, a Qoder login that a goroutine
completes and a poll activates, and the import of a token. `holder` is
`AccountMu`; login tasks are in memory, `contribution` in the store, `file` and
`pool` the registration. `consent`, `cancelled` and `activator` are history.

**Media** models a generation: the row is written before the one call of the
upstream, the identifier is saved after it, and clients and the tracker's
workers query, one at a time per task, with failures of calls and saves,
permissions withdrawn and a restart. `told` is what clients were told.

**UsageUpkeep** models the retention of usage records: expiry and cap of rows,
expiry and budget of their texts, expiry of media tasks, in batches of a
transaction each, while calls are logged and rounds run out of their second.

### The service itself

**Lifecycle** models an update: the updater of the running service, the helper
process, the gate that drains requests, the private control endpoint, and the
backups an update goes back to. Service and helper share only files and the
endpoint and may crash between any two steps; a supervisor may start the
service whenever the data lock is free. Hashes stand for what they tell apart.
`ghost` is history: what clients were told was written. A write by an old
service that was started between drain and exchange is excused (see the end of
"Findings").

### WorkBuddy

**SessionRouter** models a map of session entries and the calls that use it.
A call moves through begin, look-up, pick, selection, commit, attempt and
outcome, as `OpenUpstreamScoped` does; an operator's view may be outdated when
he acts on it. `Chosen` abstracts the choice of an account to the accounts
that the code could return. `Expire` is the time limit of idle entries.

**Failover** models the same loop with the eyes of the accounts: what an
attempt costs, what an error does to an account, when a body is repaired,
when the credentials are renewed and when another account is picked. The
classes of errors are those of `ClassifyUpstream`; `Reject` and `GiveUp`
follow the order of the code's conditions. `grant` is what the store would
say at this moment; `Refused` is the check before a dispatch, which keys
without an application do not have. Slots and sessions, which only narrow the
choice, belong to the first two modules.

**CreditPool** models credit rejections and balance readings: the pool's
cooldown with its credit part, `creditRecheckQueue` with its worker, the
`RefreshGate` of each account, the maintenance guard and `AccountMu`. Time is
a small clock; a reading has a step for the gate, the query and each of the
two parts under `AccountMu`.

**Credentials** models the managers of one account and its file. A token
stands for all of an auth file and carries the upload it descends from. A
renewal has a step for the snapshot, the answer, the comparison and the
rename; the desktop client may write the file between any two of them.

**ModelCatalog** models the registry of models: a refresh of all accounts or
of one asks two sources per account, takes a snapshot where a source does not
answer and the old catalogue where neither does, merges regions and prices,
and publishes. `heard` and `listed` are history.

### The other channels

**OpenCode** models a call: the catalogue routes it to the anonymous lane and
to tiers of keys, each with retries of its own, a stale reasoning reference is
retried once without it; what requests meet at a proxy marks it, moves keys
and schedules probes. **ChannelConfig** models the instances of that channel:
the configuration file, edits by page and by import, the exchange of an
instance for the next one, and the refresh and cache of its catalogue.

**TraeCredentials** models the exchange of a token: callers share one per
identity object, each with a context of its own, a rotation must reach the
disk, an import may replace the object. **TraeServe** models the calls: three
requests at most, on accounts not tried, one retry on the same account after a
forced exchange, cooldowns by kind of rejection and balance readings that thaw
them. **TraeCheckin** models the daily check-in with its marker on disk before
the claim.

**QoderAccounts** models one account's files and its bridge, which takes a
network exchange and is shared by those who wait for it, against renewals,
logins, imports, removal and rename. **QoderServe** models a call: reconnect,
replay before the first delta, another account. **QoderCheckin** models
batches over accounts and windows, the guard on disk with the login it is of,
and the history file that is read, extended and written in place.

### Conversion

**Conversation** models a history through `ConvertRequest` and
`ConvertResponse`, turn after turn, for each pair of dialects: pieces of
messages with the tokens they say, tool calls and results, reasoning open and
sealed, effort levels and budgets. **ClientTools** models the lowering of
namespaced and custom tools of Responses (`PrepareClientTools`) and their
restoration in the stream (`CustomToolWriter`). **ToolAlias** models the names
on OpenCode's free tier, where calls name their tool in fragments and what may
still become an alias is held. **ToolChoice** models the sieve a request's
tools and its `tool_choice` pass: the gateway, the generic conversion or
WorkBuddy's adapters, and the channel's last step.

**Transcoder** models one streamed answer in `internal/core/protocol`. The
upstream says frames in its dialect (Chat, Messages or Responses), in any
order that dialect allows; `Parse` turns a frame into neutral events
(`parseChatEvent`, `parseAnthropicEvent`, `parseResponses`), `Emit` turns an
event into records of the client's dialect, and `Write` delivers one record
to a client that puts the answer together (`Assemble`, external). `HeadRead`
is `ReadStreamHead`, after which the frames it kept are read again by a new
parser. The same events feed `doc`, the accumulator of `CollapseStream`. Texts
are sequences of numbered tokens, so that a lost, repeated or reordered piece
shows. `encodeBridgeResponse` says which calls the document lists and with which
stop reason it ends. A write may fail before any record, the upstream may be cut before any
frame, and the client may leave.

**Stream** is the abstract specification of an answer: it begins once, blocks
are opened in order, extended only while open and closed once, a normal end
comes with every block closed and is final. `Transcoder` implements it under
the mapping `Answer` (`WellFormed`), with the records a client has received as
its blocks; for Messages, a block is not opened inside an open text or
thinking block.

### Instances

`Transcoder` names its lanes in use itself. The MC modules put components that
share no state beside each other: a behaviour runs one `part`, a part has
variables of its own (in the gateway all but registrations and lent accounts) or
shares `x1`, `x2`, ... with others through INSTANCE ... WITH, and a property speaks
of the part it is
about. Where components do meet (accounts that disappear, permissions that
change, a permission that is read again), each module lets its environment do
freely what the others may do. `MCAdmissionModes` holds both modes of
Admission and the model registry, `MCGates` the queue, Lifecycle and
UsageUpkeep, `MCWorkBuddy` Failover, CreditPool and Credentials, `MCRequests`
everything of conversion, `MCGateway` Identity (its people and its invites are two
parts), Contributions (twice), Media, Quota, AccountChecks, Capacity and
ModelRoutes, `MCChannels` the session
router, OpenCode, its configuration, Trae and Qoder; `MCLiveness` and
`MCService` state liveness with the fairness it needs.

## Runs

| Run | Instance | Shows |
|---|---|---|
| `admission_bind` | 3 requests of 2 keys, 2 accounts of one permit, one session that may be controlled, both modes; registry: 2 accounts of different regions, 2 models, 2 refreshes | counts exact while requests bind and change accounts, a ticket with room left waiting only for a busy account or after a refused control, nothing leaks; `CatalogConfirmed`: the published catalogue is what the accounts' own sources said last |
| `gates` | 4 requests of 3 keys, capacity 2, queue 3; 2 installations, 1 crash, 2 writes; 3 usage rows, 1 media task | every limit holds, a slot stays for private keys, turns of absent keys are forgotten; an update that goes back loses nothing that a client was told, a backup holds whole calls; retention keeps its limits and takes no more than it must |
| `service` | 2 requests that bind once, one account, one session that may be controlled, memory pressure and accounts come and go; 1 OpenCode key, 2 proxies; 1 media task, 1 restart; fair | a waiting ticket is served or gives up, keys leave a proxy that broke, an accepted task ends |
| `workbuddy` | attempt loop: one request of each kind of key, 2 accounts, 5 attempts, 1 event; balances: 1 account, 1 timer, clock 2, 4 events; credentials: 2 callers, 2 managers, 3 tokens, 2 events | dispatches bounded and permitted, a rejection stands against older readings, no recheck is lost, uploads and deletions win |
| `liveness` | the same with one request, 4 attempts, 2 events of accounts and 1 of tokens; 2 calls of one session with 1 event; fair | requests end, rechecks drain, close returns, callers are answered, calls end although they outdate each other |
| `requests` | 8 lanes of streams, 2 calls, 4 content frames and an end; conversations of 5 steps; 9 lists of tools; 4 setups of aliases; all choices | `Delivered`, `EndsTruthful`, `CollapseAgrees`, `ConversationsKept`, `ToolsReturn`, and the refinement of Stream (`WellFormed`) |
| `gateway` | identities: an owner and an administrator (or neither, or two administrators without an owner), 2 passwords, caps of one session, 4 requests; 2 lenders of 1 account; 2 media tasks; 3 overlapping calls on 3 days; 2 checked accounts, one slot, one change of the credentials of one of them, 2 callers; 3 requests and 4 bytes; 1 key, 1 request and 2 edits of permissions | a dispatch is permitted when it is made, cookies earned and revoked for good, ownership stands, invites exact, shared by consent only, clients told the truth, books exact, checks fit |
| `channels` | 2 calls in each part, 1 or 2 sessions; 1 OpenCode call with 3 lanes; 2 editors and 3 instances; 2 identity objects of Trae; 2 batches on 2 days; 2 secrets of Qoder; 3 accounts for its calls; 2 windows and 1 crash | what sessions are bound to is true, controls honoured once, answers kept, imports kept, rotations kept while the process runs, sends bounded, claims made once and recorded, bridges of the present secret |
| `admission_rotation`, `router_unbind`, `router_reject`, `transcoder_nameless` | small | findings, below |

Every property of a passing run has a mutant in `PROJECT.json`, a changed
definition of the kind a plausible bug would be, under which TLC finds the
property violated.

Bounds. Two contenders and one more are enough for every conflict the code
distinguishes: the controller compares a ticket with the tickets of its own
key, of portal users and of all; sessions and flights relate an owner, a
joiner and an operator. Capacity 2 with queue 3 reaches all limits of the
queue together. Adverse events (an operator's act, a failed reading, a
changed permission, a foreign write, a crash) have budgets (`MaxEvents`,
`MaxChanges`, `MaxEdits`, `MaxCrashes`, `MaxRestarts`, `MaxFlips`); steps that
finish what was begun never need them, so that a bound does not block
progress. `MaxAttempts = 5` of WorkBuddy and `MaxLoops = 3` of Trae are the
values in the code. `MaxBinds` and `MaxPaces` bound the calls of one request,
`MaxClock`, `MaxTokens`, `MaxManagers`, `MaxVersion` and `MaxGen` time, renewals
and replacements. In particular:

* *admission*: the mode without limits runs on variables of its own with the
  same requests. Accounts of the registry are switched on and off, and pauses
  end, only between refreshes, since a refresh reads them once at its start;
  only the newer source lists the locked model.
* *gates*: two installations, so that the second finds what the first left,
  and one crash, of either process, at every step. Batches of one row (the
  code's are larger) put a boundary between any two rows; two policies let all
  four limits bite.
* *service*: each request binds once, so that tickets wait for an account of one
  permit that comes and goes, and for a selector that refuses a control; only
  the application's request is paced. Failing over between accounts is left to
  `admission_bind`. Requests of OpenCode begin at one proxy and keep the answers
  that tell of the key or of the proxy (all of them are in `channels`).
* *gateway*: a conflict of identities takes a victim's request, a contender's
  and at most two to undo and redo (demote and promote), hence `MaxOps = 4`;
  requests are symmetric. Invites are registered with while no administrator is
  at work, since only their rows meet. Of the two checked accounts one keeps its
  credentials (`Steady`): the other one shows what a change does. Once a request
  for a unified model is sent, permissions are edited only when the next
  member is chosen, which is where the code reads them.
* *requests*: four content frames make two calls overlap with text or thinking
  around them, or thinking end and begin again after something else; the first
  frame, the finish and the end come on top for the dialects that have them in
  frames of their own. A lane says what its upstream may do that lies outside
  the protocol: leave a call without a name, or stop at its length limit. The
  two lanes to Responses leave out the case of their finding. Five steps of a
  conversation are a question, an answer with calls, their results, and an
  answer through another upstream. A name of a tool is two or three pieces and
  arguments are one, which puts every boundary between a plain and a held
  fragment; a held text is limited to four.
* *channels*: probes of OpenCode and what the environment of Trae and Qoder does
  wait while an answer is on its way to its caller, who is all that sees it.
  Around the second account of a Qoder check-in little happens, and
  the accounts reach the file, which is all they share, one after the other
  (`FewClaims`); the scheduler tries twice in a window instead of three times.

Fairness. Goroutines that can run do run: handlers release (`defer`), `await`
has a ticker and a timeout, upstream calls, renewals and readings have
deadlines. Weak fairness is assumed of these steps and of nothing that clients,
operators, upstreams or memory may do. Strong fairness is assumed in `service`
of two things that are tried again and again: a probe of a proxy, which may end
without telling anything of the proxy and is repeated, and the query of a media
task, which may fail and is repeated: tried infinitely often, they tell in the
end. Each is a premise about the world and not about the gateway's order of
steps. Liveness is stated for what settles: accounts and pressure stop changing,
operators give waiting sessions no more controls, a proxy stays down while the
other one stays up, a permission stays.

Deadlock is checked in `admission_bind`, `workbuddy`, `liveness` and the runs of
the findings; modules that may come to rest say so with an action that states
when (`Finished`, `Quiet`). `CHECK_DEADLOCK FALSE` is said where a part rightly
comes to rest at its bounds or when its calls have returned: `gates`,
`service`, `requests`, `gateway`, `channels` and the stream of a finding. In
`service` liveness takes its place.

## Findings

* `admission_rotation`: `admission.go:307` forgets the turn of a key when its
  last ticket leaves, so that a key which sends one call after another can be
  preferred again and again to a key that waits; the comment on `served` (line
  38) and a test speak of rotation.
* `router_unbind`: `routing.go:198` and `:255` clear whatever a session is
  bound to by then, although `session.go:272` says that an older failure must
  not clear a newer binding.
* `router_reject`: in the unlimited mode `admission.go:353` returns a nil
  `*apiError` as a non-nil `error`; a session control that is rejected makes
  the handler dereference it.
* `transcoder_nameless`: `finishResponsesItems` (`stream_emitter.go:613`) ends
  and lists every call it has seen, also one that was never opened because it
  has no name, and puts it at its place among the calls, where another item
  may already be. `response.go:446` says that such calls are dropped and that
  "the streaming emitter uses the same rule".

Met while modelling, without a run of their own. Where a module's property
would be broken by one of these, the property excuses that case and says so.

*Service.* `adminEnable` and `adminDisable` (`admin.go:276`) change the pool and
then the database, without `AccountMu`; `SetAccountEnabled`
(`account_admin.go:174`) changes the database and then the pool, with it: two
administrators can leave the two stores apart. An update's helper that gives up
or dies while the service pins its backup leaves `backup_ready` pending after a
failed result, and a plain service then stops itself. A service that was started
again between drain and exchange accepts writes that a roll back loses
(`ghost.late`). A crash of the helper after `installing` or `verifying` blocks
later updates until an administrator acts. Usage rows are trimmed by number
whether or not their media task still runs, whose cost is then never booked,
and media tasks expire by age whatever their status. Followers of a shared
flight (media queries, bridges and batches of Qoder) receive their leader's
cancellation.

*Accounts.* `credentials.go` compares the file and then renames (lines 317 to
345): a login the desktop client writes between the two is overwritten.
`refreshCreditsFor` records a credit revision for a reading that failed. A
cancelled refresh of the registry leaves new snapshots beside the old
catalogue. A deletion by an administrator leaves a contribution `active`.
`RenameAccount` of Qoder reads and then saves, which can bring back the profile
of an account deleted meanwhile; its history of check-ins, when torn, is read
as empty and overwritten. A stale page of OpenCode's configuration overwrites
keys imported since (`registry.go:100`). Within a lane of OpenCode a later
connection error hides an earlier rejection. Trae's cooldown of a second
rejection replaces that of the first; a check-in over midnight is recorded for
the day of its end, although `checkin_claim.go:12` speaks of the day of the
claim; deleting and importing an account drops its marker.
A process that stops between Trae's exchange and the write of its result loads the
old token again, which the upstream no longer takes; `RotationsKept` does not
speak of it.
A stream of Qoder that is closed after content, without a reason, counts as a
success.

*Conversion.* A Messages upstream that stops at `max_tokens` is passed on as it
is (only `decodeBridgeResponse` maps it), so a Responses client gets
`response.completed` from the stream and `response.incomplete` from the
document. Two encrypted thinking blocks in a row are one item of a Responses
stream, with the last content. A Chat call with a name and no arguments is
dropped when `[DONE]` comes without a finish reason. The stream and the document
of one answer differ twice more, which `CollapseAgrees` excuses by name: the
document is held to calls with a name only when the stop is one for tools
(`response.go:149`), so beside another stop, or without one, it lists a call
without a name that the stream never opens; and when `[DONE]` comes without a
finish reason after a call, the stream ends for tools (`stream_emitter.go:515`)
and the document with a plain stop. Between Anthropic and the
others `disable_parallel_tool_use` is lost on the generic way; Qoder ignores
`tool_choice`; a tool called `none`, `auto` or `required` cannot be told from
the mode in the string form that WorkBuddy and Trae use; WorkBuddy drops hosted
and custom choices. A declared name that OpenCode's client streams in
fragments can be refused when a later fragment equals a name that is blocked.
An effort level derived from a budget blocks the forced level, although
`request.go:66` says that a derived level is replaced, and so does a client's
`none`. A Responses history with reasoning or text between two parallel calls is
refused when it is converted to Chat.

## Proofs

The theorems hold for every value of the constants that satisfies the module's
assumption or the hypothesis named. For each component the properties are not
inductive by themselves; the invariant that is, was model-checked before it was
proved, by the lemma of each action, and the theorems project it.

| Module | Theorems | Inductive invariant |
|---|---|---|
| `AdmissionProofs` | `TypeCorrect`, `CountersExact`, `LimitsHold`, `LeasesBacked`, `NoLeak`; `QueueStaysFair` | `AdmissionInv`; on top of it `QueueFairInv` |
| `SessionRouterProofs` | `SessionsHold`, `ControlsHold` | `RouterInv` |
| `ChannelsProofs` | `RotationsHold`; `SendsHold` | `TokensInv`; `TraeInv` |
| | `CheckinsHold` | `DailyInv`, `ClaimsInv` |
| | `BridgesHold` | `BridgesInv`, `QoderInv` |
| | `RefusalsReach` | `OpenInv` |
| `CredentialsProofs` | `UploadsWin`, `RecoveriesRenew`, `LoginsHold` | `CredentialInv` |
| `WorkBuddyProofs` | `BudgetHolds`, `DispatchesHold` | `FailoverInv` |
| | `QueueStands`, `RejectionsKept` | `CreditInv` |
| | `PartsBehave`, `QueueHolds`, `LoginsHold`, `RejectionsHold` | those of the parts |
| `ContributionsProofs` | `LendingFits`, `SharedHolds`, `CapsHold`, `SharersHold` | `ContributionInv` |
| `IdentityProofs` | `IdentitiesHold`, `OwnershipHolds`, `InvitesHold`; `TablesHold` | `IdentityInv`; on top of it `CountsInv` |
| `GatewayProofs` | `ToldHolds` | `MediaInv` |
| | `ChecksHold` | `ChecksInv` |
| | `RoutesHold` | `RoutesInv` |
| | `BooksHold` | `LedgerInv`, `GuardInv` and those of identities |
| | `ConsentHolds`, `GatewayIdentities` | those of the parts |

**Admission** (finitely many requests, positive sizes). `WithinLimits` needs to
know that a counter is the cardinality of what it counts; exact counts need to
know that a ticket enters a slot only when it has none, which depends on where
its handler is and on who holds the mutex. So

    AdmissionInv == Counters /\ ControlTyped /\ Relations

`Counters` has one conjunct for each group of variables (`SlotsInv`,
`MemoryInv`, `HoldingInv`, `QueueInv`): types, exactness and limits together,
because a limit is kept by the guard on an exact counter. `Relations` says
that no running ticket is queued, what a handler may hold at each place
(`CleanPlaces`), which phase of the mutex fits which place (`LockHolder`), that
a running ticket which chose an account holds it, and that leases are backed.
The bookkeeping fragments (`EnterSlot`, `LeaveSlot`, `ReserveBuffer`,
`ReleaseBuffer`, `HoldAccount`, `ReleaseAccount`, and what is done to the queue)
each have a lemma for their group; the proof of an action combines the lemmas
of the fragments it uses with a short argument about control.

`QueueFairInv` is about what `dispatchLocked` leaves behind: whenever no scan is
under way, a queued ticket that is ready and has room waits for a busy account
or was refused a control by its selector (`Stuck`). That such a ticket is asked
again at once is not true of the code, which leaves it to the ticker of 250 ms;
`EventuallyServed` in `service` shows that the ticker does it. `Stuck` holds
because every step that makes room, from a release to a changed limit, starts a
scan, and because a step that only takes cannot unstick anybody. Tickets that
take the turn of a key keep it (`TurnsBacked`), a charge larger than the budget
never queues (`ChargesFit`), and the mode without limits queues nothing
(`Uncapped`). Memory pressure and accounts that become usable wake nobody but
the next tick, so that `WorkConserving` and its proof speak of configurations
without them, as the definition says.

**SessionRouter.** `SessionsExact` relates the counts in a session's state, the
map, the bindings and the status shown, and each conjunct needs the others.
`RouterInv` says, besides types: what was numbered so far, so that an identity,
a version or an epoch that is new is nobody's (`Numbered`); that what is known
of an account is known of the one bound (`Bindings`); that a waiting control
has a number no call has and no two calls consumed one (`Controls`); that a
selection which is still current fits its session (`SelectionFits`), which is
why a commit may act on what was read before; what a call has at each place
(`PlaceFits`); which call the status speaks of (`StatusFits`); that counts are
cardinalities (`Counts`); and that a call loses its entry only with its account
(`LiveKept`), for which the eviction's order matters. `ControlHonoured` is an
action property: each step is a `Commit` that honours the control or leaves it.

**OpenCode, Trae and Qoder.** `MCChannels` composes the channels, and
`ChannelsProofs` extends it; a behaviour is one of a single part and each step
is a step or a stutter of that part (`PartSteps`). Callers and accounts are
arbitrary. The numbers of attempts are those `MCChannels` gives (as are two
identity objects, two days, two windows and two secrets), because a part gets
its numbers where it is composed.

* *Tokens of Trae*: an object that is not marked dirty is on disk (`TokensOnDisk`),
  whoever leads the exchange and whoever has left.
* *Calls of Trae*: an account was sent to no more often than it had chances, one
  for being tried and one for being renewed (`SendsCounted`), so that the sends
  are bounded by two cardinalities and by the loop; what the call met is
  remembered until it is answered (`MetKept`).
* *Check-in of Trae* (hypothesis: nobody's name is no caller's): one batch at a time
  holds the permit (`OneBatch`), and a claim that was accepted leaves its
  marker, or no batch of that day comes any more (`ClaimsMarked`). What is about
  to be recorded was confirmed (`RecordsConfirmed`).
* *Bridges of Qoder*: whoever builds a bridge remembers a generation, and while
  that is the present one his secret is, unless a renewal or login is about to
  invalidate it; a removal has outdated every builder (`BuildsFit`).
* *Calls of Qoder*: how often an account was asked is bounded by what its opens
  and tries allow (`ServedFits`).
* *Check-in of Qoder*: only the owner of the lock writes, and what he writes
  extends what others read (`OneWriter`); a refused login is the one the account
  is paused with, or no worker still asks with it (`Refusals`); each failed batch
  of a window was one of the scheduler's attempts (`Attempted`).
* *Calls of OpenCode*: every answer that a call remembers goes with the account
  it was for (`AnswersNamed`), and no lane forgets it (`AnswersStay`).

**Failover.** A request was sent at most as often as its budget was paid from,
output has begun only on the wire, what was given up stays among those tried,
and the account chosen is not among those given up (`Sound`). `DispatchesSafe`
is an action property of the one step that sends.

**Credentials** (hypothesis `Bounds`: at least one manager and one token). That a
renewal overwrites no upload rests on what it holds between the comparison and
the rename, when the file may be written by others. `CredentialInv` says that
the registered manager which is not retired is the only one whose renewal can
still be written back, and that it then brings a token of the last upload or of
the desktop client (`FlightFits`, `FilesInv`). `RecoveryRenews` rests on
`NewToAll`: the token on its way is in no file, no caller's hand and no record;
once written, and until the callers are woken, nobody's rejected token is in
place; and a record of a good renewal never is of the token in place. That an
expired login is recorded only for the token it was asked of needs to know
that a renewal which read another token than its callers had cannot find
theirs in place again.

**CreditPool** (hypothesis `CreditBounds`: the worker is no timer, and the bounds are
numbers). `OneLiveJob` rests on `Recorded`: for the account of a queued job, `recent` names
newer credentials, or the same and a time no earlier.
`RejectionStands` rests on revisions: a reading that a rejection overtook has an
older one than its account (`ReaderFits`), and `ClearCreditCooldown` compares.
That a recheck is answered by a reading begun after its rejection is the long
part. The gate hands the worker the result of whatever reading was under way,
which may be too old; the worker then asks once more, and what it gets now must
do. It does, because a flight has one owner, so that a reading of the same
credentials which lands after the worker first joined began after the job was
taken: from then on no reading of them under way is older than the rejection
(`PastInv`), and the last to write down what it found was not either
(`ReadingsInv`). A job counts only rejections that its account has seen (`Abreast`),
and uploads take new numbers.

**Identity** (`IdentityAssumption`: finitely many users). A session is issued
from what a request read some steps before. `IdentityInv` therefore says of
every request in flight that what it has read was so in an epoch that is not
later than the present one (`HandlerFits`), of every cookie that it is of an
epoch that was, and in the present one of the present password (`SessionFits`,
`AdminFits`), and of an expelled cookie that its epoch has ended. Users only
enter new epochs (`Grown`), so that a stale reading stays stale; the compare in
`CreateUserSession` and `resolveAdminIdentity` does the rest. Ownership and the
lost authority are properties of steps, proved from the same invariant.

That nobody has more sessions than his cap allows (`TablesHold`) is about
counts. A step keeps a cookie's user, takes cookies away, opens one or lets a
user in (`Counts`), and only opening can exceed a cap. A full table drops its
oldest session in the same transaction: the least token of a nonempty set
exists because the naturals are well founded, and it is one of the user's, so
that dropping it pays for the new one. `CountsInv` adds that no row keeps the
serial number of a password that was not hashed yet.

**Media** (`GatewayAssumption`: `Absent` is no caller). The progress of a submission
agrees with what the upstream did and with what was told (`Submitted`), and only
the leader of a flight queries (`Led`), through lost answers, failed saves and
restarts.

**Contributions** (hypothesis `Bounds`: finitely many logins, caps that are
numbers). Handlers claim an account, install its credentials and activate it in
steps of their own, while its owner withdraws, logs in again or is disabled.
`ContributionInv` says that the credentials of an account that is owned are its
owner's and that what is shared, or may come to be, has consent (`OwnersFit`);
that a login which reached its end was taken out of the table by the handler
that goes on with it, so that none can be cancelled any more (`TasksFit`,
`BeginsFit`); and what a handler knows at each place of its login and of the
account it claimed (`HandlersFit`). The caps hold because a reservation counts
like an open login. `SharersHold` is about steps: only an activation starts to
share, and it looks at the user once more.

**AccountChecks** (`GatewayAssumption`: finitely many callers). Every caller
remembers the number of the credentials whose identity it read and, later, of
those that were tried. Numbers only grow, so two readings of the same identity
enclose a time in which nothing changed (`Past`, `Knows`), the moments without
an identity excepted; what is kept and what a waiter takes says as much
(`RowsSpeak`, `CallersKnow`). A flight belongs to the one caller that is between
opening and landing it (`FlightsLed`), hence one probe per account.

**Quota and Capacity** (`GatewayAssumption`: finitely many calls, bounds that are
numbers). Both books are sums: the tokens of a day over its calls, the bytes of
the body budget over the requests that hold some. A sum is stated as the number
of the counted units (`Units`, pairs of a member and one of its tokens or
bytes), because a cardinality can be reasoned about with the library's facts on
finite sets and a recursive sum cannot. `TotalSplit` takes a sum apart, and
`TotalMoves` says what it becomes when one member changes.
`LedgerInv` adds to the exactness of the ledger that a running call belongs to
today or to yesterday: the bucket it will be settled in, after midnight and in
whatever order, is one that is still needed. `GuardInv` adds to that of
the guard that a request which waits for a slot holds nothing, and that only
the leader of the flight leads; when a flight lands, what its leader and all its
followers hold is given back in one step.

**ModelRoutes** (`GatewayAssumption`: the lines of unified models are of models,
and `Serves` names accounts). A request remembers what its key allowed when it
arrived and when it was admitted, and its members from when it was planned;
administrators edit in between. `RoutesInv` says that what is cached of the route
is what is stored, since every edit drops it (`CacheFits`); that a row's list and
its frozen members were approved (`KeysFit`), also when a route was deleted and
another one made under its name; and, of a request at each place, how many
members it may still try and who has spoken to its client (`VoiceFits`). That
the check before a dispatch implies `Permitted`, which speaks of the state
alone, is `RefreshPermits`.

**The channel and the gateway.** `WorkBuddyProofs` and `GatewayProofs` extend the
modules that TLC runs, and take the theorems of the parts from their modules
(those on the attempt loop and on balances are proved in `WorkBuddyProofs` itself,
those on media tasks, account checks, the ledger, the guard and routes in
`GatewayProofs`): each
step of the composition is a step or a stutter of each part, so that what was
proved of a part alone holds in the composed specification, and is stated there
as the very property the run checks. All theorems of the gateway hold under
`GatewayAssumption` and `IdentityAssumption`, which TLC evaluates on its run.
`BooksHold` uses the proofs about identities twice: for the people, and through
an instance with the users and codes of registrations (`Newcomers`), where
nobody exists at first.

Only model-checked: all liveness and with it the fairness (out of the prover's
reach); the mode without limits beside the other one (`ModesSound`), the registry
(`CatalogConfirmed`), updates and upkeep (`UpdatesSafe`, `UpkeepFits`, whose sums
over rows call for induction over data) and the imports of OpenCode
(`ImportsKept`); the bound on its sends (`SendsBounded`, which counts in a
sequence); and everything of conversion (`Delivered`, `EndsTruthful`,
`CollapseAgrees`, `ConversationsKept`, `ToolsReturn`): what `Transcoder` delivers
is computed by folds over events, which calls for induction over data, and so is
its refinement of Stream.

## Not modelled

Formatting, parsing, logging and metrics; how session keys and fingerprints
are computed; weights and prices that rank accounts (a choice among the
accounts that may be returned); expiry of sessions by time, rate limits of
logins and the audit log; the wording that decides the class of an upstream
error (a choice of the class); SQL; sampling parameters and the rewriting of
schemas; documents of the catalogue, of billing and of statistics; the OAuth
pages; downloading and unpacking of an update. `ForwardStream`, which appends
its error event to whatever part of a frame it has forwarded, the converters of
`chatstream`, the watchdog of streams and the bridge conversions of Qoder
(`messages.go`, `claude.go`, `codex.go`) are left. Configuration, crypto, HTTP
helpers, usage export and the web interface have no protocol to check.

## Plan

1. *Streams*: `ForwardStream` with its observer, the converters of `chatstream`
   and the watchdog, as implementations of Stream too; Qoder's bridge as one more
   lane.
2. *WorkBuddy*: the sweeps of check-in and keepalive over accounts; enabling and
   disabling accounts in pool and database.
3. *Proofs*: the registry, updates, upkeep and the imports of OpenCode.
