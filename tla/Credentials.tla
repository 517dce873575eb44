---------------------------- MODULE Credentials ----------------------------
(***************************************************************************)
(* The credential manager of one WorkBuddy account                         *)
(* (internal/workbuddy/credentials) and the operations that replace it     *)
(* (internal/workbuddy/runtime/account_admin.go).                          *)
(*                                                                         *)
(* The credentials live in a file.  A manager caches them and renews the   *)
(* token when it expires or when the upstream rejects it; all callers      *)
(* share one renewal (ensureFresh).  The renewal reads the file, asks the  *)
(* upstream without holding the manager's mutex, and writes the file back  *)
(* if it still holds what was read.  Meanwhile an operator may upload new  *)
(* credentials, which makes a new manager, or delete the account, and the  *)
(* desktop client may write the same file.                                 *)
(*                                                                         *)
(* A token stands for all of an auth file; its origin is the upload or the *)
(* desktop client that it descends from.                                   *)
(***************************************************************************)
EXTENDS Integers, FiniteSets

CONSTANTS
    Callers,
    MaxManagers,  \* uploads, plus the first manager
    MaxTokens,
    MaxEvents     \* bound on what operators, time and others change

Managers == 1..MaxManagers
Desktop == 0
NoToken == [id |-> 0, origin |-> Desktop]

VARIABLES
    file, minted,
    current,    \* manager in Runtime.Managers, 0 without one
    made,       \* managers made so far
    admin,      \* progress of an upload or a deletion
    \* Manager
    cached, retired, mutex, flight, denied,
    guard,      \* MaintenanceGuard entry of the account
    caller,
    \* environment: tokens that the upstream rejects
    rejected, events,
    \* history: tokens whose renewal the upstream answered with "log in"; the
    \* last upload written and not deleted
    dead, uploaded

manager == <<cached, retired, mutex, flight, denied>>
world == <<rejected, events>>
vars == <<file, minted, current, made, admin, manager, guard, caller, world, dead,
          uploaded>>

Event == events < MaxEvents /\ events' = events + 1

NoFlight == [pc |-> "none", identity |-> NoToken, snapshot |-> NoToken,
             token |-> NoToken, error |-> FALSE, login |-> FALSE,
             reject |-> FALSE]
NoDenied == [token |-> NoToken, error |-> FALSE]
NoCaller == [pc |-> "idle", manager |-> 0, token |-> NoToken, bad |-> NoToken]

First == [id |-> 1, origin |-> 1]

Init ==
    /\ file = First /\ minted = 1
    /\ current = 1 /\ made = 1 /\ admin = "idle"
    /\ cached = [m \in Managers |-> IF m = 1 THEN First ELSE NoToken]
    /\ retired = [m \in Managers |-> FALSE]
    /\ mutex = [m \in Managers |-> FALSE]
    /\ flight = [m \in Managers |-> NoFlight]
    /\ denied = [m \in Managers |-> NoDenied]
    /\ guard = [token |-> NoToken, login |-> FALSE]
    /\ caller = [c \in Callers |-> NoCaller]
    /\ rejected = {} /\ dead = {} /\ events = 0
    /\ uploaded = 1

Mint(origin) == [id |-> minted + 1, origin |-> origin]

\* session: the file, or what was read of it before it went.
Session(m) == IF file # NoToken THEN file ELSE cached[m]

\* loadIfStale
Load(m) == cached' = [cached EXCEPT ![m] = Session(m)]

\* State: another identity starts with a clean record.
GuardFor(t) == IF guard.token = t THEN guard ELSE [token |-> t, login |-> FALSE]

-----------------------------------------------------------------------------
\* ensureFresh

Answer(c, m, ok) ==
    caller' = [caller EXCEPT ![c] =
        [pc |-> IF ok THEN "ok" ELSE "failed", manager |-> m,
         token |-> IF ok THEN Session(m) ELSE NoToken, bad |-> caller[c].bad]]

Wait(c, m) == caller' = [caller EXCEPT ![c].pc = "wait", ![c].manager = m]

\* A new flight, for a rejected token also a record against a stampede.
Start(m, t, reject) ==
    /\ flight' = [flight EXCEPT ![m] =
            [NoFlight EXCEPT !.pc = "start", !.identity = t, !.reject = reject]]
    /\ denied' = IF reject
                 THEN [denied EXCEPT ![m] = [token |-> t, error |-> TRUE]]
                 ELSE denied

\* Mutant: a recent renewal of the same token is taken for a good one.
RecoverLenient(c, m) ==
    LET t == Session(m) IN
    IF t # caller[c].bad \/ denied[m].token = t
    THEN Answer(c, m, TRUE) /\ UNCHANGED <<flight, denied>>
    ELSE IF flight[m] # NoFlight
    THEN Wait(c, m) /\ UNCHANGED <<flight, denied>>
    ELSE Wait(c, m) /\ Start(m, t, TRUE)

\* The part of ensureFresh for a token that the upstream rejected.
Recover(c, m) ==
    LET t == Session(m) IN
    IF t # caller[c].bad
    THEN Answer(c, m, TRUE) /\ UNCHANGED <<flight, denied>>
    ELSE IF flight[m] # NoFlight
    THEN Wait(c, m) /\ UNCHANGED <<flight, denied>>
    ELSE IF denied[m].token = t
    THEN Answer(c, m, ~denied[m].error) /\ UNCHANGED <<flight, denied>>
    ELSE Wait(c, m) /\ Start(m, t, TRUE)

\* The part for the headers of a call, which renews a token that is near its
\* expiry, and for Keepalive, which renews any.
Refresh(c, m) ==
    IF flight[m] # NoFlight
    THEN Wait(c, m) /\ UNCHANGED <<flight, denied>>
    ELSE \/ Answer(c, m, TRUE) /\ UNCHANGED <<flight, denied>>
         \/ Wait(c, m) /\ Start(m, Session(m), FALSE)

\* Headers of a call (GetChatHeadersContext), or, after a rejection, a new
\* token (RecoverChatAuthorization).
EnsureFresh(c) ==
    LET m == current IN
    /\ caller[c].pc \in {"idle", "rejected"} /\ m # 0 /\ ~mutex[m]
    /\ IF retired[m]
       THEN Answer(c, m, FALSE) /\ UNCHANGED <<cached, flight, denied, guard>>
       ELSE /\ Load(m)
            /\ guard' = GuardFor(Session(m))
            /\ IF guard'.login
               THEN Answer(c, m, FALSE) /\ UNCHANGED <<flight, denied>>
               ELSE IF caller[c].pc = "rejected" THEN Recover(c, m)
               ELSE Refresh(c, m)
    /\ UNCHANGED <<file, minted, current, made, admin, retired, mutex, world,
                   dead, uploaded>>

\* The account is gone: the rejection stands.
Gone(c) ==
    /\ caller[c].pc = "rejected" /\ current = 0
    /\ caller' = [caller EXCEPT ![c] = NoCaller]
    /\ UNCHANGED <<file, minted, current, made, admin, manager, guard, world,
                   dead, uploaded>>

\* A waiter whose context ends leaves; the renewal goes on.
Cancel(c) ==
    /\ caller[c].pc = "wait"
    /\ caller' = [caller EXCEPT ![c] = NoCaller]
    /\ UNCHANGED <<file, minted, current, made, admin, manager, guard, world,
                   dead, uploaded>>

\* The call ends, or its upstream rejects the token.
Finish(c) ==
    /\ caller[c].pc \in {"ok", "failed"}
    /\ caller' = [caller EXCEPT ![c] =
            IF caller[c].token.id \in rejected /\ caller[c].bad = NoToken
            THEN [NoCaller EXCEPT !.pc = "rejected", !.bad = caller[c].token]
            ELSE NoCaller]
    /\ UNCHANGED <<file, minted, current, made, admin, manager, guard, world,
                   dead, uploaded>>

-----------------------------------------------------------------------------
\* The renewal: refreshContext and the goroutine of ensureFresh.

elsewhere == <<current, made, admin, retired, uploaded, world>>

\* A private snapshot of the file as it is now.
Snapshot(m) ==
    /\ flight[m].pc = "start" /\ ~mutex[m]
    /\ IF retired[m]
       THEN /\ flight' = [flight EXCEPT ![m].pc = "land", ![m].error = TRUE]
            /\ UNCHANGED cached
       ELSE /\ Load(m)
            /\ flight' = [flight EXCEPT ![m].pc = "asked", ![m].snapshot = Session(m)]
    /\ UNCHANGED <<elsewhere, file, minted, mutex, denied, guard, caller, dead>>

\* The upstream renews the token, fails, or asks for a new login.
Reply(m) ==
    /\ flight[m].pc = "asked"
    /\ \/ /\ minted < MaxTokens
          /\ minted' = minted + 1
          /\ flight' = [flight EXCEPT ![m].pc = "compare",
                            ![m].token = Mint(flight[m].snapshot.origin)]
          /\ UNCHANGED dead
       \/ /\ flight' = [flight EXCEPT ![m].pc = "land", ![m].error = TRUE]
          /\ UNCHANGED <<minted, dead>>
       \/ /\ flight' = [flight EXCEPT ![m].pc = "land", ![m].error = TRUE,
                            ![m].login = TRUE]
          /\ dead' = dead \cup {flight[m].snapshot.id}
          /\ UNCHANGED minted
    /\ UNCHANGED <<elsewhere, file, cached, mutex, denied, guard, caller>>

\* Under the mutex: give way to a retirement or to a change of the file.
Compare(m) ==
    /\ flight[m].pc = "compare" /\ ~mutex[m]
    /\ IF retired[m] \/ file # flight[m].snapshot
       THEN /\ flight' = [flight EXCEPT ![m].pc = "land", ![m].error = TRUE]
            /\ UNCHANGED mutex
       ELSE /\ mutex' = [mutex EXCEPT ![m] = TRUE]
            /\ flight' = [flight EXCEPT ![m].pc = "rename"]
    /\ UNCHANGED <<elsewhere, file, minted, cached, denied, guard, caller, dead>>

\* The atomic write-back.
Rename(m) ==
    /\ flight[m].pc = "rename"
    /\ file' = flight[m].token
    /\ cached' = [cached EXCEPT ![m] = flight[m].token]
    /\ mutex' = [mutex EXCEPT ![m] = FALSE]
    /\ flight' = [flight EXCEPT ![m].pc = "land"]
    /\ UNCHANGED <<elsewhere, minted, denied, guard, caller, dead>>

\* Mutant: whatever token is in place is taken for the one that failed.
ObserveLoginBlindly(m) ==
    IF flight[m].login THEN [GuardFor(Session(m)) EXCEPT !.login = TRUE] ELSE guard

\* An expired login is recorded against the token the callers asked for,
\* if that one is still in place.
ObserveLogin(m) ==
    IF flight[m].login /\ Session(m) = flight[m].identity
       /\ guard.token = flight[m].identity
    THEN [guard EXCEPT !.login = TRUE]
    ELSE guard

\* Mutant: one of the callers is woken.
WokenOne(m, c) ==
    /\ caller[c].pc = "wait" /\ caller[c].manager = m
    /\ c = CHOOSE d \in Callers : caller[d].pc = "wait" /\ caller[d].manager = m

\* The channel of the renewal is closed: all who wait for it go on.
Woken(m, c) == caller[c].pc = "wait" /\ caller[c].manager = m

\* The end of the renewal: every waiting caller gets its result.
Land(m) ==
    /\ flight[m].pc = "land" /\ ~mutex[m]
    /\ guard' = ObserveLogin(m)
    /\ Load(m)
    /\ denied' = IF flight[m].reject /\ denied[m].token = flight[m].identity
                 THEN [denied EXCEPT ![m].error = flight[m].error]
                 ELSE denied
    /\ caller' = [c \in Callers |->
            IF ~Woken(m, c) THEN caller[c]
            ELSE IF flight[m].error \/ retired[m]
                 THEN [caller[c] EXCEPT !.pc = "failed"]
                 ELSE [caller[c] EXCEPT !.pc = "ok", !.token = Session(m)]]
    /\ flight' = [flight EXCEPT ![m] = NoFlight]
    /\ UNCHANGED <<elsewhere, file, minted, mutex, dead>>

-----------------------------------------------------------------------------
\* Operators, the desktop client, time and the upstream.

admins == <<minted, cached, mutex, flight, denied, guard, caller, rejected,
            dead>>

\* Mutant: retirement does not wait for the mutex.
RetireAnytime(m) == retired' = [retired EXCEPT ![m] = TRUE]

\* Retire: waits for a write-back, cancels the renewal.
Retire(m) == ~mutex[m] /\ retired' = [retired EXCEPT ![m] = TRUE]

\* RegisterAuthUpload holds AccountMu: retire the old manager,
UploadRetire ==
    /\ admin = "idle" /\ made < MaxManagers /\ minted < MaxTokens /\ Event
    /\ admin' = "upload"
    /\ IF current # 0 THEN Retire(current) ELSE UNCHANGED retired
    /\ UNCHANGED <<file, current, made, uploaded, admins>>

\* write the file and register a new one, unless the store fails.
UploadWrite ==
    /\ admin = "upload" /\ minted < MaxTokens
    /\ LET m == made + 1 IN
        /\ file' = Mint(m)
        /\ minted' = minted + 1
        /\ cached' = [cached EXCEPT ![m] = Mint(m)]
        /\ made' = m
        /\ uploaded' = m
        /\ current' \in {m, current}
    /\ admin' = "idle"
    /\ UNCHANGED <<retired, mutex, flight, denied, guard, caller, world, dead>>

\* The file is not written: the retired manager stays registered.
UploadFail ==
    /\ admin = "upload"
    /\ admin' = "idle"
    /\ UNCHANGED <<file, current, made, retired, events, uploaded, admins>>

\* DeleteAccount: out of the runtime, retired,
DeleteRetire ==
    /\ admin = "idle" /\ current # 0 /\ Event
    /\ Retire(current)
    /\ current' = 0
    /\ admin' = "delete"
    /\ uploaded' = 0
    /\ UNCHANGED <<file, made, admins>>

\* and the file removed.
DeleteFile ==
    /\ admin = "delete"
    /\ file' = NoToken
    /\ admin' = "idle"
    /\ UNCHANGED <<current, made, retired, events, uploaded, admins>>

\* The desktop client writes its own credentials.
DesktopWrite ==
    /\ minted < MaxTokens /\ file # NoToken /\ Event
    /\ file' = Mint(Desktop)
    /\ minted' = minted + 1
    /\ UNCHANGED <<current, made, admin, manager, guard, caller, rejected,
                   dead, uploaded>>

\* The upstream stops accepting a token.
Revoke ==
    /\ file # NoToken /\ file.id \notin rejected /\ Event
    /\ rejected' = rejected \cup {file.id}
    /\ UNCHANGED <<file, minted, current, made, admin, manager, guard, caller, dead,
                   uploaded>>

\* Thirty seconds after a rejected token was renewed.
Forget(m) ==
    /\ denied[m] # NoDenied /\ flight[m] = NoFlight /\ Event
    /\ denied' = [denied EXCEPT ![m] = NoDenied]
    /\ UNCHANGED <<current, made, admin, retired, rejected, file, minted,
                   cached, mutex, flight, guard, caller, dead, uploaded>>

\* The account is deleted and nobody waits for it.
Quiet ==
    /\ current = 0 /\ admin = "idle"
    /\ \A c \in Callers : caller[c] = NoCaller
    /\ \A m \in Managers : flight[m] = NoFlight
    /\ UNCHANGED vars

-----------------------------------------------------------------------------
Renewal(m) == Snapshot(m) \/ Reply(m) \/ Compare(m) \/ Rename(m) \/ Land(m)

Next ==
    \/ \E c \in Callers : EnsureFresh(c) \/ Gone(c) \/ Cancel(c) \/ Finish(c)
    \/ \E m \in Managers : Renewal(m) \/ Forget(m)
    \/ UploadRetire \/ UploadWrite \/ UploadFail \/ DeleteRetire \/ DeleteFile
    \/ DesktopWrite \/ Revoke \/ Quiet

Spec == Init /\ [][Next]_vars

\* The goroutine of a renewal runs, and its upstream call ends within its
\* timeout.
Fairness == \A m \in Managers : WF_vars(Renewal(m))

FairSpec == Spec /\ Fairness

-----------------------------------------------------------------------------
Tokens == [id : 0..MaxTokens, origin : 0..MaxManagers]

TypeOK ==
    /\ file \in Tokens /\ minted \in 1..MaxTokens
    /\ current \in 0..made /\ made \in Managers
    /\ admin \in {"idle", "upload", "delete"}
    /\ cached \in [Managers -> Tokens]
    /\ retired \in [Managers -> BOOLEAN] /\ mutex \in [Managers -> BOOLEAN]
    /\ flight \in [Managers ->
            [pc : {"none", "start", "asked", "compare", "rename", "land"},
             identity : Tokens, snapshot : Tokens, token : Tokens,
             error : BOOLEAN, login : BOOLEAN, reject : BOOLEAN]]
    /\ denied \in [Managers -> [token : Tokens, error : BOOLEAN]]
    /\ guard \in [token : Tokens, login : BOOLEAN]
    /\ caller \in [Callers ->
            [pc : {"idle", "wait", "ok", "failed", "rejected"},
             manager : 0..MaxManagers, token : Tokens, bad : Tokens]]
    /\ rejected \cup dead \subseteq 1..MaxTokens
    /\ events \in 0..MaxEvents /\ uploaded \in 0..made
    /\ \A m \in Managers : mutex[m] <=> flight[m].pc = "rename"

\* "Retire prevents an in-flight manager from recreating a deleted auth
\* file", and an uploaded one is not overwritten: outside of an upload or a
\* deletion the file descends from the last upload or from the desktop
\* client, and after a deletion not from an upload.
UploadWins ==
    admin = "idle" /\ file # NoToken => file.origin \in {Desktop, uploaded}

\* A caller that recovers from a rejection gets another token than the
\* rejected one, however many callers recover at the same time.
RecoveryRenews ==
    \A c \in Callers :
        caller[c].pc = "ok" => caller[c].token # caller[c].bad

\* The account is closed for a new login only over a token whose renewal
\* was really answered so: credentials that replaced it stay usable.
LoginFits == guard.login => guard.token.id \in dead

\* A renewal never overwrites uploaded credentials or revives deleted ones,
\* recovery from a rejected token ends with another one, and a new login is
\* asked for only over the token that needs it (refreshContext, Retire,
\* RecoverChatAuthorization, ObserveLogin).
LoginsFit == TypeOK /\ UploadWins /\ RecoveryRenews /\ LoginFits

\* Every caller that waits for a renewal gets its answer.
CallersReturn ==
    \A c \in Callers : caller[c].pc = "wait" ~> caller[c].pc # "wait"
=============================================================================
