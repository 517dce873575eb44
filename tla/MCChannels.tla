------------------------------ MODULE MCChannels ------------------------------
(***************************************************************************)
(* The channels for TLC, each on a small instance: the session router that *)
(* WorkBuddy uses, a call and the configuration of OpenCode, the tokens,   *)
(* calls and check-ins of Trae, and the accounts, calls and check-ins of   *)
(* Qoder.  They share no state, so a behaviour is one of a single part:    *)
(* the router has variables of its own, the other parts use x1, x2, ...    *)
(***************************************************************************)
EXTENDS SessionRouter, TLC

CONSTANTS UpstreamKeys, ZenKey, GoKey, Proxy, Third, Torn

VARIABLES part, x1, x2, x3, x4, x5, x6, x7, x8, x9, x10, x11, x12, x13

after9 == <<x10, x11, x12, x13>>
after8 == <<x9, after9>>
after7 == <<x8, after8>>
after4 == <<x5, x6, x7, after7>>
all == <<x1, x2, x3, x4, after4>>

-----------------------------------------------------------------------------
\* A model of both tiers, whose anonymous lane goes first.
Popular ==
    [listed |-> {"zen", "go"}, known |-> [zen |-> "native", go |-> "native"],
     pending |-> FALSE, free |-> TRUE, responses |-> TRUE]

Open == INSTANCE OpenCode
    WITH Calls <- {CHOOSE c \in Calls : TRUE}, Proxies <- <<Proxy>>,
         Keys <- [zen |-> <<ZenKey>>, go |-> <<GoKey>>], Catalogs <- {Popular},
         PreferredTier <- "go", MaxAttempts <- 2, MaxFlips <- 0, None <- NoAccount,
         up <- x1, flips <- x2, healthy <- x3, probing <- x4, due <- x5, bound <- x6,
         cooling <- x7, call <- x8

Config == INSTANCE ChannelConfig
    WITH Keys <- UpstreamKeys, Saved <- {{}, {CHOOSE k \in UpstreamKeys : TRUE}},
         Editors <- Calls, MaxGen <- 3, Nobody <- NoAccount,
         file <- x1, cache <- x2, cfg <- x3, current <- x4, gen <- x5, lock <- x6,
         refresh <- x7, editor <- x8, told <- x9

-----------------------------------------------------------------------------
Tokens == INSTANCE TraeCredentials
    WITH Callers <- Calls, MaxObjects <- 2, MaxRotations <- 1, Nobody <- NoAccount,
         current <- x1, made <- x2, mem <- x3, disk <- x4, needed <- x5, dirty <- x6,
         flight <- x7, caller <- x8, gone <- x9

Trae == INSTANCE TraeServe
    WITH Requests <- {CHOOSE c \in Calls : TRUE}, MaxLoops <- 3, MaxProbes <- 3,
         MaxChanges <- 2, None <- NoAccount,
         enabled <- x1, needsLogin <- x2, cool <- x3, zero <- x4, empty <- x5,
         changes <- x6, req <- x7

Daily == INSTANCE TraeCheckin
    WITH Batches <- Calls, LastDay <- 2, MaxObjects <- 2, Nobody <- NoAccount,
         day <- x1, object <- x2, logins <- x3, date <- x4, marker <- x5, record <- x6,
         row <- x7, claims <- x8, checked <- x9, permit <- x10, batch <- x11

-----------------------------------------------------------------------------
Bridges == INSTANCE QoderAccounts
    WITH Callers <- Calls, MaxVersion <- 2, MaxGen <- 1, Nobody <- NoAccount,
         secret <- x1, made <- x2, profile <- x3, hidden <- x4, gen <- x5, cache <- x6,
         flight <- x7, caller <- x8, removing <- x9, renewal <- x10, login <- x11,
         renamed <- x12

Qoder == INSTANCE QoderServe
    WITH Accounts <- Accounts \cup {Third}, Requests <- {CHOOSE c \in Calls : TRUE},
         MaxRetries <- 1, MaxTried <- 2, None <- NoAccount,
         usable <- x1, cool <- x2, failed <- x3, req <- x4

Claims == INSTANCE QoderCheckin
    WITH LastWindow <- 2, MaxLogins <- 2, MaxAttempts <- 2, MaxCrashes <- 1,
         Nobody <- NoAccount, window <- x1, login <- x2, claimed <- x3, file <- x4, guard <- x5, auto <- x6,
         batch <- x7, work <- x8, lock <- x9, crashes <- x10, kept <- x11,
         refused <- x12, failures <- x13

\* Little happens around the second account, and the accounts, which share
\* nothing but the file, reach it one after the other.  A second window opens
\* during a batch of the scheduler, which alone checks in then.
First == CHOOSE a \in Accounts : TRUE
Second == CHOOSE a \in Accounts : a # First
Asking == {"wait", "probe", "list", "claim"}
FewClaims ==
    /\ x2'[Second] = 1 /\ x12'[Second] = {}
    /\ x3'[Second] # x3[Second] => x8[Second].at = "claim"
    /\ x5'[Second] # x5[Second] => x8'[Second] # x8[Second]
    /\ (x8[Second].at \in Asking /\ x8'[Second] # x8[Second]) =>
        (x8'[Second].at = "none" \/ x8[First].at \notin Asking)
    /\ x1' # x1 => x7 = "auto" /\ x2[First] = 1 /\ x10 = 0
    /\ x1 = 2 => x10' = 0 /\ x2'[First] = 1 /\ x7' \notin {"admin", "canceled"}

-----------------------------------------------------------------------------
No(x) == x = NoAccount
NoneAfter9 == No(x10) /\ No(x11) /\ No(x12) /\ No(x13)
NoneAfter4 == No(x5) /\ No(x6) /\ No(x7) /\ No(x8) /\ No(x9) /\ NoneAfter9

MCInit ==
    /\ Init
    /\ \/ /\ part = "router" /\ No(x1) /\ No(x2) /\ No(x3) /\ No(x4) /\ NoneAfter4
       \/ part = "opencode" /\ Open!Init /\ No(x9) /\ NoneAfter9
       \/ part = "config" /\ Config!Init /\ NoneAfter9
       \/ part = "trae tokens" /\ Tokens!Init /\ NoneAfter9
       \/ part = "trae" /\ Trae!Init /\ No(x8) /\ No(x9) /\ NoneAfter9
       \/ part = "trae check-in" /\ Daily!Init /\ No(x12) /\ No(x13)
       \/ part = "bridges" /\ Bridges!Init /\ No(x13)
       \/ part = "qoder check-in" /\ Claims!Init
       \/ part = "qoder" /\ Qoder!Init /\ NoneAfter4
    /\ part # "router" => key = [c \in Calls |-> CHOOSE k \in Keys : TRUE]

RouterNext == part = "router" /\ Next /\ UNCHANGED all
\* What a probe, a clock, an administrator or a balance does while an answer is on
\* its way may as well happen before the call was sent, or after it is over.
OpenNext ==
    /\ part = "opencode" /\ Open!Next /\ UNCHANGED <<vars, after8>>
    /\ \A c \in DOMAIN x8 : x8[c].at \in {"sent", "end", "done"} => x8' # x8
ConfigNext == part = "config" /\ Config!Next /\ UNCHANGED <<vars, after9>>
TokensNext == part = "trae tokens" /\ Tokens!Next /\ UNCHANGED <<vars, after9>>
TraeNext ==
    /\ part = "trae" /\ Trae!Next /\ UNCHANGED <<vars, after7>>
    /\ \A q \in DOMAIN x7 : x7[q].at \in {"sent", "done"} => x7' # x7
DailyNext == part = "trae check-in" /\ Daily!Next /\ UNCHANGED <<vars, x12, x13>>
BridgesNext == part = "bridges" /\ Bridges!Next /\ UNCHANGED <<vars, x13>>
ClaimsNext == part = "qoder check-in" /\ Claims!Next /\ FewClaims /\ UNCHANGED vars
QoderNext ==
    /\ part = "qoder" /\ Qoder!Next /\ UNCHANGED <<vars, after4>>
    /\ \A q \in DOMAIN x4 : x4[q].at \in {"stream", "done"} => x4' # x4

MCNext ==
    /\ \/ RouterNext \/ OpenNext \/ ConfigNext
       \/ TokensNext \/ TraeNext \/ DailyNext \/ BridgesNext \/ ClaimsNext \/ QoderNext
    /\ UNCHANGED part

MCSpec == MCInit /\ [][MCNext]_<<part, vars, all>>

Alike == Permutations(Calls) \cup Permutations(Keys)

-----------------------------------------------------------------------------
\* The properties of the modules, in the part each is about.

\* The upstream's own refusal reaches the client, after a bounded number of sends.
AnswersKept == part = "opencode" => Open!AnswersKept /\ Open!SendsBounded

\* An imported key stays until a list without it is saved; no outdated instance
\* overwrites the cache of a newer one.
ImportsKept ==
    /\ [](part = "config" => Config!ImportsKept)
    /\ [][part = "config" => Config!CacheOnward]_x2

\* A rotated token reaches the disk; a call fails for its own reasons.
RotationsKept == part = "trae tokens" => Tokens!RotationsKept /\ Tokens!OwnFate

\* What may have been served is not sent again, and the answer is one of this call.
SendsFit == part = "trae" => Trae!SendsFit /\ Trae!AnswersFit

\* An account is checked in once a day, and only the upstream says that it is;
\* a claimed window stays on record, and a refused login is not sent again.
CheckinsFit ==
    /\ part = "trae check-in" => Daily!ClaimedOnce
    /\ part = "qoder check-in" => Claims!CheckinsFit

\* A bridge is of the account's present secret, and calls replay within bounds.
BridgesFit ==
    /\ part = "bridges" => Bridges!BridgeFits
    /\ part = "qoder" => Qoder!CallsFit
===============================================================================
