----------------------------- MODULE ModelRoutes -----------------------------
(***************************************************************************)
(* Who may call which model on which account, and the unified models that  *)
(* fail over between channels.  A key is private to the gateway or belongs *)
(* to a portal user; its allowlist names physical members, the unified     *)
(* model, or both, and naming the unified model freezes the members it had *)
(* then (captureRouteGrants).  A request is authorised when it arrives,    *)
(* again after admission, before every member and before every dispatch;   *)
(* administrators and contributors change everything in between.           *)
(***************************************************************************)
EXTENDS Integers, Sequences, SequencesExt

CONSTANTS
    Members,    \* physical models, each of its own channel
    Accounts,
    Serves,     \* member -> accounts that serve it
    Own,        \* accounts the portal user contributed
    Keys,
    Lists,      \* allowlists: [policy, logical, explicit]
    Policies,   \* what administrators and contributors may set
    Lineups,    \* member lists the unified model may have
    Requests,
    MaxEdits,
    None

VARIABLES
    policy,     \* default models, granted models, disabled models, withdrawn accounts
    ready,      \* members whose channel is ready and lists them
    route,      \* the unified model in the store, or None
    edits,      \* changes of the route so far; also its next identifier
    cache,      \* routesCache, or None when it was dropped
    key,        \* key -> its row in apps, and its app_route_grants
    approved,   \* key -> members an administrator or owner put into its reach
    affinity,   \* routeAffinity for the one session of the requests
    req         \* request -> progress

vars == <<policy, ready, route, edits, cache, key, approved, affinity, req>>
setup == <<policy, ready, route, edits, cache, key, approved>>

Idle == [at |-> "idle"]
NoList == [policy |-> "fixed", logical |-> FALSE, explicit |-> {}]
NoApp(at) == [at |-> at, user |-> FALSE, list |-> NoList, frozenFor |-> 0, frozen |-> {}]
On(k) == key[k].at = "on"

\* AppRouteMembers: the frozen members, if they belong to this route.
Granted(k, r) == IF key[k].frozenFor = r.id THEN key[k].frozen ELSE {}

\* ModelRoutes: the cached list, read from the store when there is none.
Read == IF cache # None THEN cache ELSE <<route>>
ModelRoute == Read[1]
Filled == cache' = Read

-----------------------------------------------------------------------------
\* attachPortalScopeForModels: the accounts of a member that the user may use.
Scope(m) ==
    IF m \in policy.disabled THEN {}
    ELSE {a \in Serves[m] :
            \/ a \in Own
            \/ a \notin policy.withdrawn /\ m \in policy.defaults \cup policy.granted}

\* principalIdentityForApp and the scope: what the request knows of its key.
Principal(k) ==
    [list |-> key[k].list,
     scopes |-> [m \in Members |-> IF key[k].user THEN Scope(m) ELSE Serves[m]]]

Unrestricted(l) == ~l.logical /\ l.explicit = {}

\* Mutant: the allowlist of a key that names the unified model opens all members.
KeyAllowsRoute(k, p, r, m) ==
    \/ key[k].user /\ p.list.policy = "follow"
    \/ ~key[k].user /\ Unrestricted(p.list)
    \/ m \in p.list.explicit
    \/ p.list.logical

\* The part of routeCandidatesWithFacts that reads the key.
KeyAllows(k, p, r, m) ==
    \/ key[k].user /\ p.list.policy = "follow"
    \/ ~key[k].user /\ Unrestricted(p.list)
    \/ m \in p.list.explicit
    \/ p.list.logical /\ m \in Granted(k, r)

\* routeCandidatesWithFacts.
Candidates(k, p, r) ==
    {m \in ToSet(r.members) :
        /\ r.enabled /\ m \in ready /\ KeyAllows(k, p, r, m)
        /\ key[k].user => p.scopes[m] # {}}

\* The candidates in the route's order.
Lined(members, candidates) == SelectSeq(members, LAMBDA m : m \in candidates)

-----------------------------------------------------------------------------
Init ==
    /\ policy \in Policies
    /\ ready = Members
    /\ route \in {[id |-> 0, enabled |-> TRUE, members |-> l] : l \in Lineups}
    /\ edits = 0
    /\ cache = None
    /\ key = [k \in Keys |-> NoApp("new")]
    /\ approved = [k \in Keys |-> {}]
    /\ affinity = None
    /\ req = [q \in Requests |-> Idle]

\* Mutant: an edit leaves the cached routes behind.
KeepCache == UNCHANGED cache
DropCache == cache' = None

\* adminSaveModelRoute and SaveModelRoute: other members, or on and off.
SaveModelRoute(members, enabled) ==
    /\ edits < MaxEdits
    /\ edits' = edits + 1
    /\ IF route = None
       THEN route' = [id |-> edits', enabled |-> enabled, members |-> members]
       ELSE route' = [route EXCEPT !.enabled = enabled, !.members = members]
    /\ DropCache
    /\ UNCHANGED <<policy, ready, key, approved, affinity, req>>

\* Mutant: the grants of a deleted route stay and are found by its name.
GrantsStay(k) == [key[k] EXCEPT !.frozenFor = edits + 2]

\* DeleteModelRoute cascades to app_route_grants.
GrantsGo(k) == [key[k] EXCEPT !.frozen = {}]

DeleteModelRoute ==
    /\ route # None /\ edits < MaxEdits
    /\ route' = None
    /\ edits' = edits + 1
    /\ key' = [k \in Keys |-> GrantsGo(k)]
    /\ approved' = [k \in Keys |-> key[k].list.explicit]
    /\ DropCache
    /\ UNCHANGED <<policy, ready, affinity, req>>

-----------------------------------------------------------------------------
\* Keys.

\* captureRouteGrants: a list that names the unified model gets its members of
\* this moment, in the transaction that saves the list.
captureRouteGrants(list) == IF list.logical /\ route # None THEN ToSet(route.members) ELSE {}

Row(user, list) ==
    [at |-> "on", user |-> user, list |-> list, frozen |-> captureRouteGrants(list),
     frozenFor |-> IF route = None THEN 0 ELSE route.id]

Saved(k, row) ==
    /\ key' = [key EXCEPT ![k] = row]
    /\ approved' = [approved EXCEPT ![k] = row.frozen \cup row.list.explicit]
    /\ UNCHANGED <<policy, ready, route, edits, cache, affinity, req>>

\* portalAvailableModels: what a user may put into a list.
Available == {m \in Members : Scope(m) # {}}

\* CreateApp: adminCreateApp makes private keys.
AdminCreateApp(k, list) ==
    /\ key[k].at = "new" /\ list.policy = "fixed"
    /\ Saved(k, Row(FALSE, list))

\* CreateAppForUserLimited: portalCreateKey offers what is available.
PortalCreateKey(k, list) ==
    /\ key[k].at = "new" /\ list.explicit \subseteq Available
    /\ Saved(k, Row(TRUE, list))

\* SetAppModels: only a user's key can follow the user's rights.
AdminSetAppModels(k, list) ==
    /\ key[k].at \in {"on", "off"} /\ (list.policy = "follow" => key[k].user)
    /\ Saved(k, [Row(key[k].user, list) EXCEPT !.at = key[k].at])

\* SetAppModelsOwned.
PortalSetKeyModels(k, list) ==
    /\ key[k].at \in {"on", "off"} /\ key[k].user /\ list.explicit \subseteq Available
    /\ Saved(k, [Row(TRUE, list) EXCEPT !.at = key[k].at])

\* ToggleApp and ToggleAppOwned.
ToggleApp(k) ==
    /\ key[k].at \in {"on", "off"}
    /\ key' = [key EXCEPT ![k].at = IF @ = "on" THEN "off" ELSE "on"]
    /\ UNCHANGED <<policy, ready, route, edits, cache, approved, affinity, req>>

\* DeleteApp and DeleteAppOwned.
DeleteApp(k) ==
    /\ key[k].at \in {"on", "off"}
    /\ key' = [key EXCEPT ![k] = NoApp("gone")]
    /\ approved' = [approved EXCEPT ![k] = {}]
    /\ UNCHANGED <<policy, ready, route, edits, cache, affinity, req>>

-----------------------------------------------------------------------------
\* adminPortalModelPolicy, adminPortalUserModels, the disabled models, and
\* contributors who withdraw or share.
SetPolicy(p) ==
    /\ policy' = p
    /\ UNCHANGED <<ready, route, edits, cache, key, approved, affinity, req>>

\* A channel loses or gains its readiness or the model.
CatalogChanges(m) ==
    /\ ready' = IF m \in ready THEN ready \ {m} ELSE ready \cup {m}
    /\ UNCHANGED <<policy, route, edits, cache, key, approved, affinity, req>>

-----------------------------------------------------------------------------
\* A request for the unified model.

Set(q, r) == req' = [req EXCEPT ![q] = r]
End(q) == Set(q, [req[q] EXCEPT !.at = "done"])

\* handleChat up to admission: checkAPIKey, then prepareModel.
Prepare(q, k, opaque) ==
    /\ req[q] = Idle
    /\ On(k)
    /\ LET p == Principal(k) IN
       /\ ModelRoute # None
       /\ Candidates(k, p, ModelRoute) # {}
       /\ Set(q, [at |-> "queued", key |-> k, p |-> p, opaque |-> opaque, members |-> <<>>,
                  sent |-> <<>>, shown |-> {}, lawful |-> TRUE])
    /\ Filled
    /\ UNCHANGED <<policy, ready, route, edits, key, approved, affinity>>

\* refreshPortalRequest: everything is read again for member m and account a.
Refreshes(q, m, a) ==
    LET k == req[q].key
        p == Principal(k)
    IN  /\ On(k)
        /\ ModelRoute # None
        /\ Candidates(k, p, ModelRoute) # {}
        /\ m # None => m \in Candidates(k, p, ModelRoute)
        /\ m # None => IF key[k].user THEN a \in p.scopes[m] ELSE a \notin policy.withdrawn

\* The request is admitted and its authority is read again.
Admitted(q) ==
    /\ req[q].at = "queued"
    /\ IF Refreshes(q, None, None)
       THEN Set(q, [req[q] EXCEPT !.at = "admitted", !.p = Principal(req[q].key)])
       ELSE End(q)
    /\ Filled
    /\ UNCHANGED <<policy, ready, route, edits, key, approved, affinity>>

\* Mutant: continuations follow the order of the route.
FirstOf(line, opaque) == line

\* The bound member first; a continuation of provider state has no other.
Ordered(line, opaque) ==
    IF affinity \notin ToSet(line)
    THEN IF opaque THEN <<>> ELSE line
    ELSE IF opaque THEN <<affinity>> ELSE <<affinity>> \o Remove(line, affinity)

\* At most two members are tried.
FirstTwo(line) == IF Len(line) = 1 THEN <<line[1]>> ELSE <<line[1], line[2]>>

\* dispatchModelRoute up to its loop.
Plan(q) ==
    /\ req[q].at = "admitted"
    /\ Filled
    /\ LET candidates == Candidates(req[q].key, req[q].p, ModelRoute)
           line == IF ModelRoute = None THEN <<>>
                   ELSE Ordered(Lined(ModelRoute.members, candidates), req[q].opaque)
       IN  IF line = <<>> THEN End(q)
           ELSE Set(q, [req[q] EXCEPT !.at = "member", !.members = FirstTwo(line)])
    /\ UNCHANGED <<policy, ready, route, edits, key, approved, affinity>>

\* The head of the loop: the member must still be a candidate.
NextMember(q) ==
    /\ req[q].at = "member"
    /\ Filled
    /\ IF ModelRoute # None
            /\ Head(req[q].members) \in Candidates(req[q].key, req[q].p, ModelRoute)
       THEN Set(q, [req[q] EXCEPT !.at = "chosen"])
       ELSE IF /\ ModelRoute # None /\ ModelRoute.enabled
               /\ Len(req[q].members) > 1
            THEN Set(q, [req[q] EXCEPT !.members = Tail(@)])
            ELSE End(q)
    /\ UNCHANGED <<policy, ready, route, edits, key, approved, affinity>>

\* What the state allows at this moment, said without the request's snapshot.
Permitted(k, m, a) ==
    /\ On(k)
    /\ route # None /\ route.enabled /\ m \in ToSet(route.members)
    /\ ~key[k].user => a \notin policy.withdrawn
    /\ key[k].user =>
        /\ m \notin policy.disabled
        /\ a \in Own \/ (a \notin policy.withdrawn /\ m \in policy.defaults \cup policy.granted)
    /\ \/ key[k].list.policy = "follow"
       \/ ~key[k].user /\ Unrestricted(key[k].list)
       \/ m \in approved[k]

\* Mutant: the dispatch relies on what was read at admission.
DispatchesStale(q, a) == a \in req[q].p.scopes[Head(req[q].members)]

\* The check that every channel calls before it sends.
DispatchCheck(q, a) == Refreshes(q, Head(req[q].members), a)

\* The channel picks an account of the scope; a refused check ends the attempt
\* with a status that is not retried.
Dispatch(q, a) ==
    LET m == Head(req[q].members) IN
    /\ req[q].at = "chosen"
    /\ a \in req[q].p.scopes[m]
    /\ Filled
    /\ IF DispatchCheck(q, a)
       THEN Set(q, [req[q] EXCEPT !.at = "sent", !.p = Principal(req[q].key),
                                  !.sent = Append(@, m),
                                  !.lawful = @ /\ Permitted(req[q].key, m, a)])
       ELSE End(q)
    /\ UNCHANGED <<policy, ready, route, edits, key, approved, affinity>>

\* The channel has no account left to offer, or refuses with another 4xx.
NoAccount(q) ==
    /\ req[q].at = "chosen"
    /\ \/ End(q)
       \/ Len(req[q].members) > 1
          /\ Set(q, [req[q] EXCEPT !.at = "member", !.members = Tail(@)])
    /\ UNCHANGED <<setup, affinity>>

\* Output begins: it goes to the client at once and cannot be taken back.
Output(q) ==
    /\ req[q].at = "sent"
    /\ Set(q, [req[q] EXCEPT !.at = "started", !.shown = @ \cup {Head(req[q].members)}])
    /\ UNCHANGED <<setup, affinity>>

\* It completes, and the session stays with the member; or it breaks off.
Completes(q) ==
    /\ req[q].at = "started"
    /\ End(q)
    /\ affinity' = Head(req[q].members)
    /\ UNCHANGED setup

\* Mutant: a stream that broke off is retried like an error.
RetriesStarted(q) == req[q].at \in {"sent", "started"} /\ Len(req[q].members) > 1

\* 429 and 5xx are retried on the next member while nothing was written.
Retries(q) == req[q].at = "sent" /\ Len(req[q].members) > 1

Fails(q) ==
    /\ req[q].at \in {"sent", "started"}
    /\ \/ /\ Retries(q)
          /\ Set(q, [req[q] EXCEPT !.at = "member", !.members = Tail(@)])
       \/ End(q)
    /\ UNCHANGED <<setup, affinity>>

\* Half an hour passes, or 2000 other sessions.
Forget ==
    /\ affinity # None
    /\ affinity' = None
    /\ UNCHANGED <<setup, req>>

Next ==
    \/ \E l \in Lineups, e \in BOOLEAN : SaveModelRoute(l, e)
    \/ DeleteModelRoute
    \/ \E k \in Keys :
        \/ \E l \in Lists :
            \/ AdminCreateApp(k, l) \/ PortalCreateKey(k, l)
            \/ AdminSetAppModels(k, l) \/ PortalSetKeyModels(k, l)
        \/ ToggleApp(k) \/ DeleteApp(k)
    \/ \E p \in Policies : SetPolicy(p)
    \/ \E m \in Members : CatalogChanges(m)
    \/ \E q \in Requests :
        \/ \E k \in Keys, o \in BOOLEAN : Prepare(q, k, o)
        \/ Admitted(q) \/ Plan(q) \/ NextMember(q) \/ NoAccount(q)
        \/ \E a \in Accounts : Dispatch(q, a)
        \/ Output(q) \/ Completes(q) \/ Fails(q)
    \/ Forget

Spec == Init /\ [][Next]_vars

-----------------------------------------------------------------------------
\* Whatever was read at arrival or at admission, an account is used only as
\* the key, the policy and the consents stand when the request is sent to it;
\* in particular a key that was given the unified model never reaches a member
\* that joined later, or has left, or a new model of the old name.
DispatchesLawful == \A q \in Requests : req[q] = Idle \/ req[q].lawful

\* The client sees the output of one member, which is the last that was tried:
\* whoever speaks to it ends the request, well or not.  No request tries more
\* than two members, and a continuation of provider state one.
OneVoice ==
    \A q \in Requests : req[q] # Idle =>
        /\ req[q].shown # {} => /\ req[q].at \in {"started", "done"}
                               /\ req[q].shown = {Last(req[q].sent)}
        /\ Len(req[q].sent) <= IF req[q].opaque THEN 1 ELSE 2
===============================================================================
