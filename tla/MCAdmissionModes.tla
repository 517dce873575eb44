-------------------------- MODULE MCAdmissionModes --------------------------
(***************************************************************************)
(* What a request is bound to, for TLC: the leases of the admission        *)
(* controller in both its modes (with the limits on or, as in production,  *)
(* without them: ModelLimitsDisabled) and the models that each account may *)
(* use (ModelCatalog).  They share no state, so a behaviour is one of a    *)
(* single part.                                                            *)
(***************************************************************************)
EXTENDS Admission, TLC

CONSTANTS
    r1, r2, app, user1, m1, a1,
    Own, Other, Plain, Reasoning, AutoModel, NoPrice

\* A portal user and an application compete; r1 may use only the first account.
TwoKeys == [r \in Requests |-> IF r = r2 THEN app ELSE user1]
OneModel == [r \in Requests |-> m1]
NoKeyLimit == [k \in Keys |-> 0]
Scoped == [r \in Requests |-> IF r = r1 THEN {a1} ELSE Accounts]

VARIABLES
    part, x1, x2, x3, x4, x5, x6, x7, x8, x9, x10, x11, x12, x13, x14, x15, x16, x17, x18,
    x19, x20, x21, x22, x23, x24, x25, x26

after15 == <<x16, x17, x18, x19, x20, x21, x22, x23, x24, x25, x26>>
all ==
    <<x1, x2, x3, x4, x5, x6, x7, x8, x9, x10, x11, x12, x13, x14, x15, after15>>

-----------------------------------------------------------------------------
\* The controller without its limits.
NoLimits == INSTANCE Admission
    WITH Unlimited <- TRUE,
         active <- x1, sharedActive <- x2, byKey <- x3, byModel <- x4, byAccount <- x5,
         buffers <- x6, sharedBuffers <- x7, queue <- x8, served <- x9, sequence <- x10,
         running <- x11, ready <- x12, chooses <- x13, account <- x14, failed <- x15,
         buffered <- x16, released <- x17, preferred <- x18, mu <- x19, pc <- x20,
         binds <- x21, paces <- x22, usable <- x23, high <- x24,
         steered <- x25, refused <- x26

\* A model that is free and one whose reasoning is locked and whose price may
\* be unknown, for two accounts of different regions.
Cheap == (Plain :> [price |-> 0, locked |-> FALSE])
Locked == (Plain :> [price |-> 2, locked |-> TRUE])
              @@ (Reasoning :> [price |-> NoPrice, locked |-> FALSE])

Registry == INSTANCE ModelCatalog
    WITH Accounts <- {Own, Other}, Models <- {Plain, Reasoning}, Auto <- AutoModel,
         Regions <- {(Own :> "cn") @@ (Other :> "com")},
         Listings <- {[m \in {} |-> m], Cheap, Locked}, MaxChanges <- 1, MaxRounds <- 2,
         region <- x1, enabled <- x2, guard <- x3, snapshots <- x4, catalog <- x5,
         prices <- x6, stale <- x7, cooled <- x8, job <- x9, changes <- x10, rounds <- x11,
         heard <- x12, listed <- x13, lost <- x14, whole <- x15

No(x) == x = NoAccount
NoneAfter15 ==
    /\ No(x16) /\ No(x17) /\ No(x18) /\ No(x19) /\ No(x20) /\ No(x21) /\ No(x22) /\ No(x23)
    /\ No(x24) /\ No(x25) /\ No(x26)
AllNone ==
    /\ No(x1) /\ No(x2) /\ No(x3) /\ No(x4) /\ No(x5) /\ No(x6) /\ No(x7) /\ No(x8)
    /\ No(x9) /\ No(x10) /\ No(x11) /\ No(x12) /\ No(x13) /\ No(x14) /\ No(x15)
    /\ NoneAfter15

-----------------------------------------------------------------------------
ModesInit ==
    /\ Init
    /\ \/ part = "limits" /\ AllNone
       \/ part = "no limits" /\ NoLimits!Init
       \/ part = "models" /\ Registry!Init /\ NoneAfter15
    /\ part # "limits" => usable = Accounts

LimitsNext == part = "limits" /\ Next /\ UNCHANGED all
NoLimitsNext == part = "no limits" /\ NoLimits!Next /\ UNCHANGED vars
\* What happens to accounts and pauses during a refresh may as well happen
\* before it: the refresh does not look again.  Only the newer source lists the
\* locked model here.
ModelsNext ==
    /\ part = "models" /\ Registry!Next /\ UNCHANGED <<vars, after15>>
    /\ x9.kind # "none" => UNCHANGED x2 /\ x9' # x9
    /\ \A a \in {Own, Other} : Locked \notin x12'[a]["legacy"]

\* The controller never stops; a registry does at its bounds.
Bounded == part = "models" /\ UNCHANGED <<vars, all>>

ModesNext ==
    /\ LimitsNext \/ NoLimitsNext \/ ModelsNext \/ Bounded
    /\ UNCHANGED part

ModesSpec == ModesInit /\ [][ModesNext]_<<part, vars, all>>

-----------------------------------------------------------------------------
\* With the limits on no wakeup is lost; without them leases and accounts are
\* counted just as well and nothing leaks.
ModesSound ==
    /\ WorkConserving
    /\ part = "no limits" => NoLimits!CountsMatch /\ NoLimits!LeaseBacked /\ NoLimits!NothingLeaks

\* An account has the models that its own sources confirmed last.
CatalogConfirmed == part = "models" => Registry!CatalogConfirmed
=============================================================================
