------------------------------- MODULE OpenCode -------------------------------
(***************************************************************************)
(* One call of the OpenCode channel: the catalogue routes its model to the *)
(* anonymous lane and to tiers of keys, every lane has its own retries,    *)
(* and a stale reasoning reference is retried once without it.  Requests   *)
(* go out through proxies; what they meet moves keys between proxies, and  *)
(* probes run beside them.  Upstream and proxies answer freely.            *)
(***************************************************************************)
EXTENDS Integers, Sequences, SequencesExt, FiniteSets, TLC

CONSTANTS
    Calls,
    Proxies,       \* in the order of the configuration
    Keys,          \* tier -> keys in order; a key of both tiers is one account
    Catalogs,      \* what the catalogue may say of the model when a call is routed
    PreferredTier,        \* the tier tried first
    MaxAttempts,   \* Retry.MaxAttempts
    MaxFlips,      \* times that proxies break or recover
    None

Tiers == {"zen", "go"}
Anonymous == "opencode:anonymous"
ProxySet == ToSet(Proxies)
Nodes == UNION {{<<t, i>> : i \in 1..Len(Keys[t])} : t \in Tiers}
NodeKey(n) == Keys[n[1]][n[2]]
Preferred(n) == Proxies[((n[2] - 1) % Len(Proxies)) + 1]

VARIABLES
    up,       \* proxies that work
    flips,
    healthy,  \* proxies whose flag says healthy
    probing,  \* proxies a probe has claimed
    due,      \* results of probes that are not applied yet
    bound,    \* node -> proxy
    cooling,  \* nodes that cool down, <<"anonymous", p>> among them
    call

vars == <<up, flips, healthy, probing, due, bound, cooling, call>>
proxies == <<healthy, probing, due, bound, cooling>>

Idle == [at |-> "idle"]
NoAnswer == [by |-> None, kind |-> "none"]

Init ==
    /\ up = ProxySet /\ flips = 0
    /\ healthy = ProxySet /\ probing = {} /\ due = {}
    /\ bound = [n \in Nodes |-> Preferred(n)]
    /\ cooling = {}
    /\ call = [c \in Calls |-> Idle]

Set(c, r) == call' = [call EXCEPT ![c] = r]

-----------------------------------------------------------------------------
\* The catalogue.  cat: listed, the tiers that have the model; known, what each
\* tier's protocol is; pending, nothing is loaded; free, in the free list;
\* responses, the request speaks Responses upstream.

TierSupported(cat, t) ==
    cat.known[t] = "native" \/ (cat.known[t] = "unknown" /\ cat.pending)

\* keyTierOrderLocked.
KeyTiers(cat) ==
    SelectSeq(IF PreferredTier = "go" THEN <<"go", "zen">> ELSE <<"zen", "go">>,
              LAMBDA t : Keys[t] # <<>> /\ (cat.pending \/ t \in cat.listed)
                         /\ TierSupported(cat, t))

\* routeLocked: the anonymous lane, if the model is free, before the key tiers.
Route(cat) ==
    IF cat.free /\ cat.known["zen"] # "unsupported" /\ (cat.pending \/ cat.listed # {})
    THEN <<"anonymous">> \o KeyTiers(cat) ELSE KeyTiers(cat)

Supported(cat) == cat.pending \/ \E t \in cat.listed : TierSupported(cat, t)

-----------------------------------------------------------------------------
\* Cursors start anywhere: a session's hash, or a counter.

Rotated(s, i) == SubSeq(s, i, Len(s)) \o SubSeq(s, 1, i - 1)
Starts == {Rotated(Proxies, i) : i \in 1..Len(Proxies)}

\* anonymousCursor.Next passes over proxies that are unhealthy or cool down.
Usable(p) == p \in healthy /\ <<"anonymous", p>> \notin cooling
AnonymousNext(todo) == SelectSeq(todo, Usable)
After(todo, p) == SubSeq(todo, SelectInSeq(todo, LAMBDA q : q = p) + 1, Len(todo))

\* nodeCursor.Next: the first that does not cool, or one that cools shortest.
KeyNext(t, next) ==
    LET order == Rotated([i \in 1..Len(Keys[t]) |-> i], next)
        ready == SelectSeq(order, LAMBDA i : <<t, i>> \notin cooling)
    IN  IF ready # <<>> THEN {Head(ready)} ELSE ToSet(order)

-----------------------------------------------------------------------------
\* A call.  kept is the answer of an ended lane, held one of this lane; uid is
\* the account last named to the caller, keptUID the one named with kept.

\* doUpstreamTiers starts.
Enter(r, lanes, todo) ==
    [r EXCEPT !.at = "lane", !.route = lanes, !.lanes = lanes, !.todo = todo,
              !.tries = 0, !.visited = 0, !.kept = NoAnswer, !.held = NoAnswer,
              !.sure = FALSE]

Start(c, cat, todo) ==
    /\ call[c] = Idle
    /\ Supported(cat) /\ Route(cat) # <<>>
    /\ Set(c, Enter([at |-> "lane", route |-> <<>>, lanes |-> <<>>, todo |-> todo, next |-> 1,
                     tries |-> 0, visited |-> 0, sent |-> 0, uid |-> None, keptUID |-> None,
                     kept |-> NoAnswer, held |-> NoAnswer, original |-> NoAnswer,
                     originalUID |-> None, sure |-> FALSE, responses |-> cat.responses,
                     node |-> None, proxy |-> None, kind |-> "none"],
                    Route(cat), todo))
    /\ UNCHANGED <<up, flips, proxies>>

\* Mutant: a lane without an answer forgets what an earlier lane was answered.
LaneForgets(r, answer) ==
    [r EXCEPT !.at = "lane", !.lanes = Tail(@), !.tries = 0, !.visited = 0, !.next = 1,
              !.held = NoAnswer, !.kept = answer, !.keptUID = r.uid,
              !.sure = @ \/ answer # NoAnswer]

\* A lane is over; an answer it ends with takes the place of what was kept.
LaneEnds(r, answer) ==
    [r EXCEPT !.at = "lane", !.lanes = Tail(@), !.tries = 0, !.visited = 0, !.next = 1,
              !.held = NoAnswer,
              !.kept = IF answer = NoAnswer THEN @ ELSE answer,
              !.keptUID = IF answer = NoAnswer THEN @ ELSE r.uid,
              !.sure = @ \/ answer # NoAnswer]

InLane(r, t) == r.at = "lane" /\ r.lanes # <<>> /\ Head(r.lanes) = t

\* Does this lane go on to another node?
More(r) ==
    IF InLane(r, "anonymous") THEN AnonymousNext(r.todo) # <<>>
    ELSE r.tries < MaxAttempts /\ r.visited < Len(Keys[Head(r.lanes)]) * MaxAttempts

\* The request goes through the next proxy of the anonymous lane, unless the
\* dispatch check refuses, which ends the lane.
SendAnonymous(c, checked) ==
    LET r == call[c]
        p == Head(AnonymousNext(r.todo))
    IN  /\ InLane(r, "anonymous") /\ More(r)
        /\ Set(c, IF checked
                  THEN [r EXCEPT !.at = "sent", !.sent = @ + 1, !.uid = Anonymous,
                                 !.held = NoAnswer, !.todo = After(@, p),
                                 !.node = <<"anonymous", p>>, !.proxy = p]
                  ELSE LaneEnds(r, NoAnswer))
        /\ UNCHANGED <<up, flips, proxies>>

\* The next key of the tier; one that is out of the caller's scope, does not
\* have the model or is refused by the dispatch check is passed over.
SendKey(c, t, i, usable) ==
    LET r == call[c]
        moved == [r EXCEPT !.visited = @ + 1, !.next = (i % Len(Keys[t])) + 1]
    IN  /\ InLane(r, t) /\ More(r)
        /\ i \in KeyNext(t, r.next)
        /\ Set(c, IF usable
                  THEN [moved EXCEPT !.at = "sent", !.tries = @ + 1, !.sent = @ + 1,
                                     !.uid = NodeKey(<<t, i>>), !.held = NoAnswer,
                                     !.node = <<t, i>>, !.proxy = bound[<<t, i>>]]
                  ELSE moved)
        /\ UNCHANGED <<up, flips, proxies>>

\* What doCompatibleInferenceAttempt returns: a response (client: a rejection
\* that is not retried; busy: 401, 403, 429 or 5xx), or an error of the proxy,
\* of name resolution, of the first event, or another.
Responses == {"ok", "payload", "client", "stale", "busy"}
Failures == {"proxy", "dns", "first_event", "broken"}

Answered(c, kind) ==
    LET r == call[c] IN
    /\ r.at = "sent"
    /\ r.proxy \in up \/ kind \in {"proxy", "dns", "broken"}
    /\ Set(c, [r EXCEPT !.at = "seen", !.kind = kind])
    /\ UNCHANGED <<up, flips, proxies>>

IsKey(n) == n[1] \in Tiers
Account(n) == IF IsKey(n) THEN NodeKey(n) ELSE Anonymous

\* A payload no proxy would take says nothing about this one.
Unobserved(r) == r.kind = "payload" /\ ~IsKey(r.node)

\* MarkSuccess and MarkFailure: what a result does to the node's cooldown.
Marked(n, kind) ==
    CASE kind = "ok" \/ (IsKey(n) /\ kind \in {"payload", "client", "stale"}) -> cooling \ {n}
      [] kind \in {"busy", "proxy", "broken"} -> cooling \cup {n}
      [] OTHER -> cooling

\* The rest of the attempt: success and a rejected payload end the call, other
\* final rejections end a key lane, everything else tries the next node.
GoOn(r) ==
    LET answer == IF r.kind \in Responses THEN [by |-> Account(r.node), kind |-> r.kind]
                  ELSE NoAnswer
        free == [r EXCEPT !.kind = "none", !.node = None, !.proxy = None]
    IN  CASE r.kind \in {"ok", "payload"} ->
                [free EXCEPT !.at = "end", !.kept = answer, !.held = NoAnswer]
          [] IsKey(r.node) /\ r.kind \in {"client", "stale"} -> LaneEnds(free, answer)
          [] OTHER -> [free EXCEPT !.at = "lane", !.held = answer]

RestoreProxy(p) == [n \in Nodes |-> IF Preferred(n) = p THEN p ELSE bound[n]]
Restored(p) == {n \in Nodes : Preferred(n) = p /\ bound[n] # p} \cup {<<"anonymous", p>>}

\* syncProxyResult, then the cooldown.  A proxy failure clears the flag first
\* and moves the keys in a second step; other results claim a probe.
ObserveFailure(c) ==
    LET r == call[c] IN
    /\ r.at = "seen" /\ r.kind = "proxy"
    /\ healthy' = healthy \ {r.proxy}
    /\ Set(c, [r EXCEPT !.at = "rebind"])
    /\ UNCHANGED <<up, flips, probing, due, bound, cooling>>

ObserveSuccess(c) ==
    LET r == call[c]
        p == r.proxy
    IN  /\ r.at = "seen" /\ r.kind = "ok"
        /\ healthy' = healthy \cup {p}
        /\ bound' = IF p \in healthy THEN bound ELSE RestoreProxy(p)
        /\ cooling' = Marked(r.node, "ok") \ (IF p \in healthy THEN {} ELSE Restored(p))
        /\ Set(c, GoOn(r))
        /\ UNCHANGED <<up, flips, probing, due>>

ObserveOther(c) ==
    LET r == call[c] IN
    /\ r.at = "seen" /\ r.kind \notin {"ok", "proxy"}
    /\ probing' = IF Unobserved(r) \/ r.kind \in {"dns", "first_event"} THEN probing
                  ELSE probing \cup {r.proxy}
    /\ cooling' = IF Unobserved(r) THEN cooling ELSE Marked(r.node, r.kind)
    /\ Set(c, GoOn(r))
    /\ UNCHANGED <<up, flips, healthy, due, bound>>

\* replacementLocked: healthy proxies if there are any, or else any other; among
\* them the code takes the least loaded.
Targets(f) ==
    LET others == ProxySet \ {f}
    IN  IF others \cap healthy # {} THEN others \cap healthy ELSE others

\* Mutant: only keys that are not cooling are moved.
MovedUsable(f) == {n \in Nodes \ cooling : bound[n] = f /\ Targets(f) # {}}

\* RebindProxy of both pools; moved keys start afresh.
MovedFrom(f) == {n \in Nodes : bound[n] = f /\ Targets(f) # {}}
RebindProxy(f) ==
    \E to \in [MovedFrom(f) -> Targets(f)] : bound' = to @@ bound

RebindFailed(c) ==
    LET r == call[c]
        p == r.proxy
        stays == ~IsKey(r.node) \/ (bound[r.node] = p /\ r.node \notin MovedFrom(p))
    IN  /\ r.at = "rebind"
        /\ RebindProxy(p)
        /\ cooling' = (cooling \ MovedFrom(p)) \cup (IF stays THEN {r.node} ELSE {})
        /\ probing' = probing \cup {p}
        /\ Set(c, GoOn(r))
        /\ UNCHANGED <<up, flips, healthy, due>>

\* The lane has no more nodes.
LaneOver(c) ==
    LET r == call[c] IN
    /\ r.at = "lane" /\ r.lanes # <<>> /\ ~More(r)
    /\ Set(c, LaneEnds(r, r.held))
    /\ UNCHANGED <<up, flips, proxies>>

\* Mutant: the account of the last attempt is reported whoever answered.
ReportsLast(r) == r.uid

\* The end of doUpstreamTiers names the account whose answer is returned.
Named(r) == IF r.kept # NoAnswer THEN r.keptUID ELSE r.uid

AllOver(c) ==
    LET r == call[c] IN
    /\ r.at = "lane" /\ r.lanes = <<>>
    /\ Set(c, [r EXCEPT !.at = "end", !.uid = Named(r)])
    /\ UNCHANGED <<up, flips, proxies>>

\* Only a Responses request has references to strip, and only once.
Strips(r) == r.kept.kind = "stale" /\ r.responses /\ r.original = NoAnswer

\* What of the route the retry takes: a key lane's route has no anonymous lane.
Effective(r) ==
    IF r.kept.by = Anonymous THEN r.route
    ELSE SelectSeq(r.route, LAMBDA t : t \in Tiers)

\* A stale reference is retried without; a retry that fails leaves the first answer.
Retry(c, todo) ==
    LET r == call[c] IN
    /\ r.at = "end" /\ Strips(r)
    /\ Set(c, Enter([r EXCEPT !.original = r.kept, !.originalUID = r.uid], Effective(r), todo))
    /\ UNCHANGED <<up, flips, proxies>>

Finish(c) ==
    LET r == call[c] IN
    /\ r.at = "end" /\ ~Strips(r)
    /\ Set(c, IF r.original # NoAnswer /\ r.kept.kind # "ok"
              THEN [r EXCEPT !.at = "done", !.kept = r.original, !.uid = r.originalUID]
              ELSE [r EXCEPT !.at = "done"])
    /\ UNCHANGED <<up, flips, proxies>>

\* The client leaves or the call's time is over; or it has its answer.
Leave(c) ==
    /\ call[c].at \in {"lane", "sent", "done"}
    /\ Set(c, Idle)
    /\ UNCHANGED <<up, flips, proxies>>

-----------------------------------------------------------------------------
\* Probes.

\* CheckHealth claims the unhealthy proxies that nobody probes.
ProbeStart(p) ==
    /\ p \notin healthy /\ p \notin probing
    /\ probing' = probing \cup {p}
    /\ UNCHANGED <<up, flips, healthy, due, bound, cooling, call>>

\* checkClaimedProxy sets the flag and gives the claim back before the result is
\* applied.  Two equal results that are due at once count as one.
ProbeEnds(p, ok) ==
    /\ p \in probing
    /\ ok = (p \in up)
    /\ probing' = probing \ {p}
    /\ healthy' = IF ok THEN healthy \cup {p} ELSE healthy \ {p}
    /\ due' = IF ok /\ p \in healthy THEN due
              ELSE due \cup {<<p, IF ok THEN "restore" ELSE "fail">>}
    /\ UNCHANGED <<up, flips, bound, cooling, call>>

\* Name resolution fails: the probe says nothing.
ProbeUnknown(p) ==
    /\ p \in probing
    /\ probing' = probing \ {p}
    /\ UNCHANGED <<up, flips, healthy, due, bound, cooling, call>>

\* applyProxyHealthResult.
ApplyRestore(p) ==
    /\ <<p, "restore">> \in due
    /\ due' = due \ {<<p, "restore">>}
    /\ bound' = RestoreProxy(p)
    /\ cooling' = cooling \ Restored(p)
    /\ UNCHANGED <<up, flips, healthy, probing, call>>

ApplyFail(p) ==
    /\ <<p, "fail">> \in due
    /\ due' = due \ {<<p, "fail">>}
    /\ IF healthy # {}
       THEN RebindProxy(p) /\ cooling' = cooling \ MovedFrom(p)
       ELSE UNCHANGED <<bound, cooling>>
    /\ UNCHANGED <<up, flips, healthy, probing, call>>

\* A proxy breaks or recovers; a cooldown ends.
Flip(p) ==
    /\ flips < MaxFlips
    /\ flips' = flips + 1
    /\ up' = IF p \in up THEN up \ {p} ELSE up \cup {p}
    /\ UNCHANGED <<proxies, call>>

Cool(n) ==
    /\ n \in cooling
    /\ cooling' = cooling \ {n}
    /\ UNCHANGED <<up, flips, healthy, probing, due, bound, call>>

Answering(c) ==
    \/ \E b \in BOOLEAN : SendAnonymous(c, b)
    \/ \E t \in Tiers : \E i \in 1..Len(Keys[t]), b \in BOOLEAN : SendKey(c, t, i, b)
    \/ \E kind \in Responses \cup Failures : Answered(c, kind)
    \/ ObserveFailure(c) \/ ObserveSuccess(c) \/ ObserveOther(c) \/ RebindFailed(c)
    \/ LaneOver(c) \/ AllOver(c) \/ Finish(c)
    \/ \E todo \in Starts : Retry(c, todo)

Probes(p) ==
    \/ ProbeStart(p) \/ ProbeUnknown(p)
    \/ \E ok \in BOOLEAN : ProbeEnds(p, ok)
    \/ ApplyRestore(p) \/ ApplyFail(p)

Next ==
    \/ \E c \in Calls :
        \/ \E cat \in Catalogs, todo \in Starts : Start(c, cat, todo)
        \/ Answering(c) \/ Leave(c)
    \/ \E p \in ProxySet : Probes(p) \/ Flip(p) \/ Cool(<<"anonymous", p>>)
    \/ \E n \in Nodes : Cool(n)

Spec == Init /\ [][Next]_vars

\* The ticker probes unhealthy proxies again and again, name resolution works
\* now and then, and goroutines go on.
Fairness ==
    /\ \A p \in ProxySet :
        /\ WF_vars(ProbeStart(p)) /\ SF_vars(\E ok \in BOOLEAN : ProbeEnds(p, ok))
        /\ WF_vars(ApplyRestore(p)) /\ WF_vars(ApplyFail(p))
    /\ \A c \in Calls : WF_vars(RebindFailed(c))

-----------------------------------------------------------------------------
\* The upstream's own refusal reaches the client although a later lane breaks,
\* with the account it was for, and a call sends a bounded number of requests.
AnswersKept ==
    \A c \in Calls : call[c].at = "done" =>
        LET r == call[c] IN
        /\ r.sure => r.kept # NoAnswer
        /\ r.original # NoAnswer => r.kept # NoAnswer
        /\ r.kept # NoAnswer => r.uid = r.kept.by

SendsBounded ==
    \A c \in Calls : call[c] # Idle =>
        call[c].sent <= 2 * (Len(Proxies) + Cardinality(Tiers) * MaxAttempts)

\* Keys do not stay with a proxy that is down while another one is usable.
Replaceable(p, q) == p \notin healthy \cup up /\ q \in healthy \cap up
Left(p) == \A n \in Nodes : bound[n] # p
KeysLeaveDeadProxies == \A p, q \in ProxySet : <>[]Replaceable(p, q) => <>[]Left(p)
=============================================================================
