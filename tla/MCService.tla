------------------------------ MODULE MCService ------------------------------
(***************************************************************************)
(* What must eventually happen in the gateway: to requests that wait for   *)
(* admission (Admission), to keys of OpenCode on broken proxies and to     *)
(* media tasks.  They share no state, so a behaviour is one of a single    *)
(* part.                                                                   *)
(***************************************************************************)
EXTENDS Admission

CONSTANTS r2, app, user1, m1, Upstream, Proxy, Spare, Film, Tracker, Viewer

\* A portal user and an application compete.
TwoKeys == [r \in Requests |-> IF r = r2 THEN app ELSE user1]
OneModel == [r \in Requests |-> m1]
NoKeyLimit == [k \in Keys |-> 0]
AnyAccount == [r \in Requests |-> Accounts]

VARIABLES part, y1, y2, y3, y4, y5, y6, y7, y8, y9

proxies == <<y1, y2, y3, y4, y5, y6, y7, y8>>
others == <<proxies, y9>>

-----------------------------------------------------------------------------
\* A key of OpenCode and two proxies, of which one breaks or recovers.
Channel ==
    [listed |-> {"go"}, known |-> [zen |-> "native", go |-> "native"],
     pending |-> FALSE, free |-> FALSE, responses |-> FALSE]

Zen == INSTANCE OpenCode
    WITH Calls <- {Viewer}, Proxies <- <<Proxy, Spare>>,
         Keys <- [zen |-> <<>>, go |-> <<Upstream>>], Catalogs <- {Channel},
         PreferredTier <- "go", MaxAttempts <- 1, MaxFlips <- 1, None <- NoAccount,
         up <- y1, flips <- y2, healthy <- y3, probing <- y4, due <- y5, bound <- y6,
         cooling <- y7, call <- y8

\* One media task, its client and the tracker.
Generation == INSTANCE Media
    WITH Tasks <- {Film}, Clients <- {Viewer}, Workers <- {Tracker}, MaxRestarts <- 1,
         Nobody <- NoAccount,
         task <- y1, upstream <- y2, submit <- y3, told <- y4, flight <- y5,
         caller <- y6, allowed <- y7, queries <- y8, restarts <- y9

No(x) == x = NoAccount

-----------------------------------------------------------------------------
ServiceInit ==
    /\ Init
    /\ \/ /\ part = "admission"
          /\ No(y1) /\ No(y2) /\ No(y3) /\ No(y4) /\ No(y5)
          /\ No(y6) /\ No(y7) /\ No(y8) /\ No(y9)
       \/ part = "opencode" /\ Zen!Init /\ No(y9)
       \/ part = "media" /\ Generation!Init
    /\ part # "admission" => usable = Accounts

\* Only the account of the application's request is paced.
AdmissionNext ==
    /\ part = "admission" /\ Next
    /\ \A r \in Requests \ {r2} : paces'[r] = 0
    /\ UNCHANGED <<part, others>>
\* Without an anonymous lane nothing depends on where its cursor starts; the
\* answers kept are those that tell of the key and of the proxy.
OpenNext ==
    /\ part = "opencode" /\ Zen!Next
    /\ y8'[Viewer] # Zen!Idle =>
        /\ y8'[Viewer].todo = <<Proxy, Spare>>
        /\ y8'[Viewer].kind \in {"none", "ok", "proxy", "busy"}
    /\ UNCHANGED <<part, vars, y9>>
MediaNext ==
    part = "media" /\ Generation!Next /\ UNCHANGED <<part, vars>>

ServiceNext == AdmissionNext \/ OpenNext \/ MediaNext

\* The fairness of the modules, in the part each is about.
AdmissionFairness ==
    /\ WF_vars(part = "admission" /\ (DispatchOne \/ DispatchEnd))
    /\ \A r \in Requests :
        /\ WF_vars(part = "admission" /\ (Admit(r) \/ TakeAccount(r)))
        /\ WF_vars(part = "admission" /\ Start(r))
        /\ WF_vars(part = "admission" /\ Tick(r))
        /\ WF_vars(part = "admission" /\ (PaceDone(r) \/ PaceFail(r)))
        /\ WF_vars(part = "admission" /\ Release(r))

OpenFairness ==
    /\ \A p \in {Proxy, Spare} :
        /\ WF_proxies(part = "opencode" /\ Zen!ProbeStart(p))
        /\ SF_proxies(part = "opencode" /\ \E ok \in BOOLEAN : Zen!ProbeEnds(p, ok))
        /\ WF_proxies(part = "opencode" /\ Zen!ApplyRestore(p))
        /\ WF_proxies(part = "opencode" /\ Zen!ApplyFail(p))
    /\ WF_proxies(part = "opencode" /\ Zen!RebindFailed(Viewer))

MediaFairness ==
    /\ WF_others(part = "media" /\ Generation!Due(Film))
    /\ \A c \in {Viewer, Tracker} :
        /\ WF_others(part = "media" /\ Generation!Fetch(c))
        /\ WF_others(part = "media" /\ (Generation!QueryAnswered(c) \/ Generation!QueryFails(c)))
    /\ SF_others(part = "media" /\ \E c \in {Viewer, Tracker} : Generation!QueryAnswered(c))
    /\ WF_others(part = "media" /\ Generation!Ask(Tracker, Film))

ServiceSpec ==
    /\ ServiceInit /\ [][ServiceNext]_<<part, vars, others>>
    /\ AdmissionFairness /\ OpenFairness /\ MediaFairness

-----------------------------------------------------------------------------
\* What the gateway took in reaches an end: a request that waits is served, and
\* a media task that was accepted and ended upstream ends here.
WaitsEnd ==
    /\ EventuallyServed
    /\ <>[](part = "media" /\ y7)
        => ((part = "media" /\ Generation!Owed(Film))
                ~> (part = "media" /\ Generation!HasEnded(Film)))

\* No key stays with a proxy that is down while the other one is usable.
KeysLeaveDeadProxies ==
    <>[](part = "opencode" /\ Zen!Replaceable(Proxy, Spare))
        => <>[](part = "opencode" /\ Zen!Left(Proxy))
===============================================================================
