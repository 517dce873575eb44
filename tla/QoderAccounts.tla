----------------------------- MODULE QoderAccounts -----------------------------
(***************************************************************************)
(* One Qoder account: its files (profile, secret, the mark that hides it), *)
(* and the bridge built for its secret, which takes a network exchange and *)
(* is shared by the calls waiting for it.  Renewal, logins, imports, the   *)
(* account's removal and a change of its name run beside, some of them in  *)
(* several steps; r.mu is held during a removal.                           *)
(***************************************************************************)
EXTENDS Integers

CONSTANTS
    Callers,
    MaxVersion,  \* secrets the account has, one after the other
    MaxGen,      \* generation up to which removals and activations happen
    Nobody

Versions == 0..MaxVersion   \* 0 stands for no secret

VARIABLES
    secret,    \* the secret file
    made,      \* secrets made so far
    profile,   \* whether the profile file exists
    hidden,    \* whether the account is hidden from the gateway
    gen,       \* bridgeGeneration
    cache,     \* the secret the cached bridge was built for, or 0
    flight,    \* leader of bridgeInflight, or Nobody
    caller,
    removing,  \* steps of a removal, which holds r.mu: "no", "hidden", "secret"
    renewal,   \* "no", or what a renewal is about to do
    login,     \* the same for the login that waits for a scan
    renamed    \* whether a change of name has read the profile

vars == <<secret, made, profile, hidden, gen, cache, flight, caller,
          removing, renewal, login, renamed>>
files == <<secret, made, profile, hidden>>
bridge == <<gen, cache, flight>>
admins == <<removing, renewal, login, renamed>>

Idle == [at |-> "idle"]
No == [at |-> "no"]

Init ==
    /\ secret = 1 /\ made = 1 /\ profile = TRUE /\ hidden = FALSE
    /\ gen = 0 /\ cache = 0 /\ flight = Nobody
    /\ caller = [c \in Callers |-> Idle]
    /\ removing = "no" /\ renewal = No /\ login = No /\ renamed = FALSE

Set(c, r) == caller' = [caller EXCEPT ![c] = r]
To(c, step) == Set(c, [caller[c] EXCEPT !.at = step])
Free == removing = "no"
Usable == profile /\ ~hidden /\ secret # 0

\* pickServingAccount, affinityAccount or a candidate of a failover.
Pick(c, failover) ==
    /\ caller[c] = Idle /\ Usable
    /\ Set(c, [at |-> "look", key |-> secret, gen |-> 0, failover |-> failover])
    /\ UNCHANGED <<files, bridge, admins>>

\* bridgeFor: the cached bridge, a flight to wait for, or a flight of one's own.
Look(c) ==
    /\ caller[c].at = "look" /\ Free
    /\ \/ /\ cache # 0 /\ cache = caller[c].key
          /\ To(c, "got") /\ UNCHANGED flight
       \/ /\ cache # caller[c].key
          /\ IF flight # Nobody THEN To(c, "wait") /\ UNCHANGED flight
             ELSE flight' = c /\ Set(c, [caller[c] EXCEPT !.at = "build", !.gen = gen])
    /\ UNCHANGED <<files, gen, cache, admins>>

\* The exchange succeeds, for as long as the upstream takes the secret, or not.
Build(c, ok) ==
    /\ caller[c].at = "build"
    /\ To(c, IF ok THEN "reread" ELSE "fail")
    /\ UNCHANGED <<files, bridge, admins>>

\* Mutant: the secret is not looked at again.
StaysAny(key) == TRUE

Stays(key) == secret = key

Reread(c) ==
    /\ caller[c].at = "reread"
    /\ To(c, IF Stays(caller[c].key) THEN "publish" ELSE "fail")
    /\ UNCHANGED <<files, bridge, admins>>

\* Mutant: an invalidation during the exchange goes unnoticed.
UnchangedAny(r) == ~hidden

\* Nothing invalidated the account meanwhile, and it is not hidden.
NotInvalidated(r) == gen = r.gen /\ ~hidden

\* Under r.mu: the followers that wait for the same secret share the result.
Publish(c) ==
    LET r == caller[c]
        ok == r.at = "publish" /\ NotInvalidated(r)
    IN  /\ r.at \in {"publish", "fail"} /\ Free
        /\ cache' = IF ok THEN r.key ELSE cache
        /\ flight' = Nobody
        /\ caller' = [d \in Callers |->
                CASE d = c \/ (caller[d].at = "wait" /\ caller[d].key = r.key) ->
                        IF ok THEN [caller[d] EXCEPT !.at = "got"] ELSE Idle
                  [] d # c /\ caller[d].at = "wait" /\ caller[d].key # r.key ->
                        [caller[d] EXCEPT !.at = "look"]
                  [] OTHER -> caller[d]]
        /\ UNCHANGED <<files, gen, admins>>

\* A failover looks at the account again before it uses the bridge.
Use(c) ==
    /\ caller[c].at = "got"
    /\ IF caller[c].failover /\ ~(Usable /\ secret = caller[c].key)
       THEN Set(c, Idle) ELSE To(c, "use")
    /\ UNCHANGED <<files, bridge, admins>>

\* The call ends; or a caller that waits, leaves.
Done(c) ==
    /\ caller[c].at \in {"use", "wait", "look"}
    /\ Set(c, Idle)
    /\ UNCHANGED <<files, bridge, admins>>

-----------------------------------------------------------------------------
\* Mutant: the bridge is dropped without a word to those that build one.
InvalidateQuietly == gen

Invalidated == gen + 1

Invalidate == gen' = Invalidated /\ cache' = 0

\* renewToken: the exchange, the secret replaced if it is still the old one,
\* and the bridge dropped.
RenewBegins ==
    /\ renewal = No /\ Usable
    /\ renewal' = [at |-> "rotate", old |-> secret]
    /\ UNCHANGED <<files, bridge, caller, removing, login, renamed>>

Rotate(ok) ==
    /\ renewal.at = "rotate"
    /\ IF ok /\ profile /\ secret = renewal.old /\ made < MaxVersion
       THEN /\ secret' = made + 1 /\ made' = made + 1
            /\ renewal' = [at |-> "drop"]
       ELSE renewal' = No /\ UNCHANGED <<secret, made>>
    /\ UNCHANGED <<profile, hidden, bridge, caller, removing, login, renamed>>

RenewDrops ==
    /\ renewal.at = "drop" /\ Free
    /\ renewal' = No
    /\ Invalidate
    /\ UNCHANGED <<files, flight, caller, removing, login, renamed>>

\* The login that a scan completes: secret, profile, mark, bridge.
LoginSecret ==
    /\ login = No /\ made < MaxVersion
    /\ secret' = made + 1 /\ made' = made + 1
    /\ login' = [at |-> "save"]
    /\ UNCHANGED <<profile, hidden, bridge, caller, removing, renewal, renamed>>

LoginSaves ==
    /\ login.at = "save"
    /\ profile' = TRUE /\ hidden' = FALSE
    /\ login' = [at |-> "drop"]
    /\ UNCHANGED <<secret, made, bridge, caller, removing, renewal, renamed>>

LoginDrops ==
    /\ login.at = "drop" /\ Free
    /\ login' = No
    /\ Invalidate
    /\ UNCHANGED <<files, flight, caller, removing, renewal, renamed>>

\* AddAccountByToken: everything under r.mu, rolled back when a file fails.
Import ==
    /\ Free /\ made < MaxVersion
    /\ secret' = made + 1 /\ made' = made + 1
    /\ profile' = TRUE /\ hidden' = FALSE
    /\ Invalidate
    /\ UNCHANGED <<flight, caller, admins>>

\* DeleteAccount: hidden and dropped, then the secret, then the profile.
RemoveHides ==
    /\ Free /\ profile /\ gen < MaxGen
    /\ removing' = "hidden"
    /\ hidden' = TRUE
    /\ Invalidate
    /\ UNCHANGED <<secret, made, profile, flight, caller, renewal, login, renamed>>

RemoveSecret ==
    /\ removing = "hidden"
    /\ secret' = 0
    /\ removing' = "secret"
    /\ UNCHANGED <<made, profile, hidden, bridge, caller, renewal, login, renamed>>

RemoveProfile ==
    /\ removing = "secret"
    /\ profile' = FALSE
    /\ removing' = "no"
    /\ UNCHANGED <<secret, made, hidden, bridge, caller, renewal, login, renamed>>

\* RenameAccount reads the profile and saves it, which shows the account.
RenameReads ==
    /\ ~renamed /\ profile
    /\ renamed' = TRUE
    /\ UNCHANGED <<files, bridge, caller, removing, renewal, login>>

RenameSaves ==
    /\ renamed
    /\ renamed' = FALSE
    /\ profile' = TRUE /\ hidden' = FALSE
    /\ UNCHANGED <<secret, made, bridge, caller, removing, renewal, login>>

\* ActivateAccount drops the bridge.
Activate ==
    /\ Free /\ profile /\ gen < MaxGen
    /\ Invalidate
    /\ UNCHANGED <<files, flight, caller, admins>>

Next ==
    \/ \E c \in Callers :
        \/ \E b \in BOOLEAN : Pick(c, b) \/ Build(c, b)
        \/ Look(c) \/ Reread(c) \/ Publish(c) \/ Use(c) \/ Done(c)
    \/ RenewBegins \/ (\E ok \in BOOLEAN : Rotate(ok)) \/ RenewDrops
    \/ LoginSecret \/ LoginSaves \/ LoginDrops
    \/ Import \/ RemoveHides \/ RemoveSecret \/ RemoveProfile
    \/ RenameReads \/ RenameSaves \/ Activate

Spec == Init /\ [][Next]_vars

-----------------------------------------------------------------------------
\* The cached bridge is of the account's present secret, except between a renewal's
\* or login's new secret and the end of it: a removed account has none.
BridgeFits ==
    cache # 0 => \/ cache = secret
                 \/ renewal.at = "drop" \/ login # No
=============================================================================
