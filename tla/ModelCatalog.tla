----------------------------- MODULE ModelCatalog -----------------------------
(* The catalogue of models of the WorkBuddy channel (workbuddy/models): which *)
(* account may use which model, at what price, and whether its reasoning can  *)
(* be switched off.  Every account is asked at two sources; what a source     *)
(* does not answer is taken from its last answer, what an account does not    *)
(* answer at all from the catalogue before.                                   *)
(*                                                                            *)
(* A source lists models as a function to offers, a price and a lock; other   *)
(* metadata of a model goes the way of its price.  Promotions are only shown. *)
EXTENDS Integers, Sequences, FiniteSets, SequencesExt

CONSTANTS Accounts, Models, Auto,
          Regions,      \* the region of each account, one of these functions
          Listings,     \* what a source may list, at any time
          NoPrice,      \* the source gave no price: not the price 0
          MaxChanges,   \* bound: accounts switched on or off
          MaxRounds     \* bound: refreshes

Sources == <<"v3", "legacy">>

VARIABLES region,     \* the region of each account
          enabled,    \* accounts that may be asked
          guard,      \* of a source: "", or paused since it "denied" or "failed", or "due"
          snapshots,  \* catalogCache: the last answer of each source, or Never
          catalog,    \* models: what is published
          prices,     \* accountCosts of each account
          stale, cooled,
          job,        \* the refresh under way, holder of refreshMu
          changes, rounds,
          heard,      \* for the record: the last answer of each source
          listed,     \* accounts the published catalogue speaks of
          lost,       \* accounts whose last answer the catalogue does not hold
          whole       \* was the catalogue published in one piece?

mcvars == <<region, enabled, guard, snapshots, catalog, prices, stale, cooled,
            job, changes, rounds, heard, listed, lost, whole>>

Nothing == [m \in {} |-> m]
Never == {}       \* an answer that is kept is the only element of a set
Offer(price, locked) == [price |-> price, locked |-> locked]

Idle == [kind |-> "none", todo |-> <<>>, told |-> {}, at |-> 1, fresh |-> {}, denied |-> FALSE,
         found |-> Nothing, merged |-> Nothing, ok |-> FALSE, failed |-> FALSE,
         asked |-> {}, before |-> Nothing]

Init ==
    /\ region \in Regions
    /\ enabled = Accounts
    /\ guard = [a \in Accounts |-> [s \in ToSet(Sources) |-> ""]]
    /\ snapshots = [a \in Accounts |-> [s \in ToSet(Sources) |-> Never]]
    /\ catalog = Nothing /\ prices = [a \in Accounts |-> Nothing]
    /\ stale = FALSE /\ cooled = {} /\ job = Idle /\ changes = 0 /\ rounds = 0
    /\ heard = snapshots /\ listed = {} /\ lost = {} /\ whole = TRUE

-----------------------------------------------------------------------------
\* What happens around the registry

Switch(a) ==
    /\ changes < MaxChanges /\ changes' = changes + 1
    /\ enabled' = IF a \in enabled THEN enabled \ {a} ELSE enabled \union {a}
    /\ UNCHANGED <<region, guard, snapshots, catalog, prices, stale, cooled, job,
                   rounds, heard, listed, lost, whole>>

Paused(a, s) == guard[a][s] \in {"denied", "failed"}

\* The pause of a source whose authorization failed is over.
RetryDue(a, s) ==
    /\ Paused(a, s)
    /\ guard' = [guard EXCEPT ![a][s] = "due"]
    /\ UNCHANGED <<region, enabled, snapshots, catalog, prices, stale, cooled, job,
                   changes, rounds, heard, listed, lost, whole>>

-----------------------------------------------------------------------------
\* A refresh

Begin(kind, accounts) ==
    /\ job.kind = "none" /\ rounds < MaxRounds /\ rounds' = rounds + 1
    /\ job' = [Idle EXCEPT !.kind = kind, !.todo = accounts, !.asked = ToSet(accounts),
                           !.before = catalog]
    /\ UNCHANGED <<region, enabled, guard, snapshots, catalog, prices, stale, cooled,
                   changes, heard, listed, lost, whole>>

\* RefreshWithStatus asks every enabled account, RefreshAccount one.
BeginAll == Begin("all", SetToSeq(enabled))
BeginOne(a) == a \in enabled /\ Begin("one", <<a>>)

Current == job.todo[1]
Asking == job.kind # "none" /\ job.todo # <<>> /\ job.at <= Len(Sources)

\* The models of a second source join those of the first, and replace those
\* that only a snapshot knows.
Taken(found, listing, fresh) ==
    [m \in DOMAIN found \union DOMAIN listing |->
        IF m \in DOMAIN listing /\ (m \notin DOMAIN found \/ (fresh /\ ~found[m].fresh))
        THEN [offer |-> listing[m], fresh |-> fresh, shown |-> Nothing] ELSE found[m]]

WithSnapshot(found, kept, fresh) ==
    IF kept = Never THEN found ELSE Taken(found, CHOOSE l \in kept : TRUE, fresh)

\* Mutant: a source that lists nothing is one that did not answer.
ListsEmptyFails(a, s, listing) ==
    LET kept == IF listing = Nothing THEN snapshots[a][s] ELSE {listing} IN
    /\ ~Paused(a, s)
    /\ guard' = [guard EXCEPT ![a][s] = ""]
    /\ snapshots' = [snapshots EXCEPT ![a][s] = kept]
    /\ heard' = [heard EXCEPT ![a][s] = {listing}]
    /\ job' = [job EXCEPT !.at = @ + 1, !.fresh = @ \union {s},
                          !.told = @ \union {a},
                          !.found = WithSnapshot(@, kept, TRUE)]

\* A source answers: also a list without models is an answer.
Lists(a, s, listing) ==
    /\ ~Paused(a, s)
    /\ guard' = [guard EXCEPT ![a][s] = ""]
    /\ snapshots' = [snapshots EXCEPT ![a][s] = {listing}]
    /\ heard' = [heard EXCEPT ![a][s] = {listing}]
    /\ job' = [job EXCEPT !.at = @ + 1, !.fresh = @ \union {s},
                          !.told = @ \union {a},
                          !.found = Taken(@, listing, TRUE)]

\* It denies the authorization, answers without a list for this client
\* ("void"), or not at all; or its pause lasts.  Only a denial starts a pause;
\* any failure at the end of one prolongs it.
Fails(a, s, why) ==
    LET state == [denied |-> "denied", void |-> "",
                  silent |-> IF guard[a][s] = "" THEN "" ELSE "failed"][why] IN
    /\ guard' = [guard EXCEPT ![a][s] = state]
    /\ job' = [job EXCEPT !.at = @ + 1, !.failed = TRUE,
                          !.denied = @ \/ why = "denied",
                          !.found = WithSnapshot(@, snapshots[a][s], FALSE)]
    /\ UNCHANGED <<snapshots, heard>>

\* fetchCatalogURL of fetchOneContext, for one source.
Ask ==
    /\ Asking
    /\ LET a == Current
           s == Sources[job.at]
       IN \/ \E l \in Listings : Lists(a, s, l)
          \/ ~Paused(a, s) /\ \E why \in {"denied", "void", "silent"} : Fails(a, s, why)
          \/ Paused(a, s) /\ Fails(a, s, IF guard[a][s] = "denied" THEN "denied" ELSE "silent")
    /\ UNCHANGED <<region, enabled, catalog, prices, stale, cooled, changes, rounds,
                   listed, lost, whole>>

\* The account has no valid authorization: its sources are not asked.
Unauthorized ==
    /\ Asking /\ job.at = 1
    /\ job' = [job EXCEPT !.at = Len(Sources) + 2, !.failed = TRUE]
    /\ UNCHANGED <<region, enabled, guard, snapshots, catalog, prices, stale, cooled,
                   changes, rounds, heard, listed, lost, whole>>

\* Mutant: an account that does not answer has what any account had before.
BeforeOfAnyone(a) ==
    LET old == job.before
        price(m) == IF region[a] \in DOMAIN old[m].prices THEN old[m].prices[region[a]] ELSE NoPrice
    IN [m \in DOMAIN old \ {Auto} |->
           [offer |-> Offer(price(m), old[m].locked), fresh |-> FALSE, shown |-> old[m].prices]]

\* What the catalogue said before of the models of this account.
Before(a) ==
    LET old == job.before
        price(m) == IF region[a] \in DOMAIN old[m].prices THEN old[m].prices[region[a]] ELSE NoPrice
    IN [m \in {n \in DOMAIN old \ {Auto} : a \in old[n].uids} |->
           [offer |-> Offer(price(m), old[m].locked), fresh |-> FALSE, shown |-> old[m].prices]]

Entry == [uids |-> {}, sites |-> {}, prices |-> Nothing, priced |-> {}, locked |-> FALSE,
          price |-> NoPrice, fresh |-> FALSE, shown |-> Nothing]

Put(f, k, v) == [x \in DOMAIN f \union {k} |-> IF x = k THEN v ELSE f[x]]

\* Mutant: a lock is metadata like the rest.
MergedLocksOfLast(merged, a, got) ==
    [m \in DOMAIN merged \union DOMAIN got |->
        IF m \notin DOMAIN got THEN merged[m]
        ELSE LET old == IF m \in DOMAIN merged THEN merged[m] ELSE Entry
                 new == got[m].offer
                 site == region[a]
                 replaces == m \notin DOMAIN merged \/ (got[m].fresh /\ ~old.fresh)
             IN [old EXCEPT
                    !.uids = @ \union {a}, !.sites = @ \union {site},
                    !.price = IF replaces THEN new.price ELSE @,
                    !.shown = IF replaces THEN got[m].shown ELSE @,
                    !.locked = IF replaces THEN new.locked ELSE @,
                    !.fresh = @ \/ got[m].fresh]]

\* Into what the accounts before it have: the metadata of the first account
\* that answered, the lock of any, and a price of each region.
Merged(merged, a, got) ==
    [m \in DOMAIN merged \union DOMAIN got |->
        IF m \notin DOMAIN got THEN merged[m]
        ELSE LET old == IF m \in DOMAIN merged THEN merged[m] ELSE Entry
                 new == got[m].offer
                 site == region[a]
                 replaces == m \notin DOMAIN merged \/ (got[m].fresh /\ ~old.fresh)
                 prices_ == new.price # NoPrice
                            /\ (site \notin DOMAIN old.prices
                                \/ (got[m].fresh /\ site \notin old.priced))
             IN [old EXCEPT
                    !.uids = @ \union {a}, !.sites = @ \union {site},
                    !.price = IF replaces THEN new.price ELSE @,
                    !.shown = IF replaces THEN got[m].shown ELSE @,
                    !.locked = @ \/ new.locked,
                    !.prices = IF prices_ THEN Put(@, site, new.price) ELSE @,
                    !.priced = IF got[m].fresh /\ new.price # NoPrice THEN @ \union {site} ELSE @,
                    !.fresh = @ \/ got[m].fresh]]

\* The end of fetchOneContext, and of the account's turn.  Without any answer
\* an account rests, unless it was its authorization that failed.
AccountDone ==
    LET a == Current
        answered == job.fresh # {}
        got == IF answered THEN job.found ELSE IF job.kind = "all" THEN Before(a) ELSE Nothing
        priced == {m \in DOMAIN job.found : job.found[m].offer.price # NoPrice}
    IN /\ job.kind # "none" /\ job.todo # <<>> /\ job.at > Len(Sources)
       /\ cooled' = IF ~answered /\ ~job.denied /\ job.at = Len(Sources) + 1
                    THEN cooled \union {a} ELSE cooled
       /\ prices' = IF answered
                    THEN [prices EXCEPT ![a] = [m \in priced |-> job.found[m].offer.price]]
                    ELSE prices
       /\ job' = [job EXCEPT !.todo = Tail(@), !.at = 1, !.fresh = {}, !.denied = FALSE,
                             !.found = Nothing, !.ok = @ \/ answered,
                             !.merged = IF job.kind = "one" THEN got ELSE Merged(@, a, got)]
       /\ UNCHANGED <<region, enabled, guard, snapshots, catalog, stale, changes,
                      rounds, heard, listed, lost, whole>>

\* Every account of the round has the model that chooses by itself.
WithAuto(merged, uids) ==
    LET auto == IF Auto \in DOMAIN merged THEN merged[Auto] ELSE [Entry EXCEPT !.locked = TRUE]
    IN IF uids = {} THEN merged
       ELSE Put(merged, Auto, [auto EXCEPT !.uids = uids, !.sites = {region[a] : a \in uids}])

\* Without a price in this round an entry taken over shows those it had.
Published(e) ==
    [e EXCEPT !.priced = {}, !.fresh = FALSE, !.shown = Nothing,
              !.prices = IF @ = Nothing THEN e.shown ELSE @]

\* The round replaces the catalogue if any account answered.
Publish ==
    /\ job.kind = "all" /\ job.todo = <<>>
    /\ IF job.ok
       THEN /\ LET entries == WithAuto(job.merged, job.asked) IN
               catalog' = [m \in DOMAIN entries |-> Published(entries[m])]
            /\ stale' = job.failed
            /\ listed' = job.asked /\ whole' = TRUE
            /\ lost' = (lost \ job.told) \union (job.asked \ (job.told \union listed))
       ELSE /\ stale' = TRUE
            /\ UNCHANGED <<catalog, listed, lost, whole>>
    /\ job' = Idle
    /\ UNCHANGED <<region, enabled, guard, snapshots, prices, cooled, changes, rounds,
                   heard>>

\* RefreshAccount: the account leaves every model, then enters those it has.
Rejoined(a, got) ==
    LET others(m) == catalog[m].uids \ {a}
        kept == {m \in DOMAIN catalog : others(m) # {}}
        has == DOMAIN got \union {Auto}
        joins(m) ==
            LET old == IF m \in kept THEN [catalog[m] EXCEPT !.uids = @ \ {a}]
                       ELSE IF m \in DOMAIN got
                            THEN [Entry EXCEPT !.locked = got[m].offer.locked,
                                               !.price = got[m].offer.price]
                            ELSE [Entry EXCEPT !.locked = TRUE]
                price == IF m \in DOMAIN got THEN got[m].offer.price ELSE NoPrice
            IN [old EXCEPT !.uids = @ \union {a}, !.sites = @ \union {region[a]},
                           !.prices = IF price = NoPrice THEN @ ELSE Put(@, region[a], price)]
    IN [m \in kept \union has |->
           IF m \in has THEN joins(m) ELSE [catalog[m] EXCEPT !.uids = @ \ {a}]]

PublishOne(a) ==
    /\ job.kind = "one" /\ job.todo = <<>> /\ job.asked = {a}
    /\ IF job.ok
       THEN /\ catalog' = Rejoined(a, job.merged)
            /\ listed' = listed \union {a} /\ lost' = lost \ {a} /\ whole' = FALSE
       ELSE UNCHANGED <<catalog, listed, lost, whole>>
    /\ job' = Idle
    /\ UNCHANGED <<region, enabled, guard, snapshots, prices, stale, cooled, changes,
                   rounds, heard>>

\* The caller goes away: what was fetched is kept as snapshots only.
Cancel ==
    /\ job.kind = "all" \/ (job.kind = "one" /\ job.todo # <<>>)
    /\ stale' = (stale \/ job.kind = "all")
    /\ lost' = lost \union job.told
    /\ job' = Idle
    /\ UNCHANGED <<region, enabled, guard, snapshots, catalog, prices, cooled, changes,
                   rounds, heard, listed, whole>>

Next ==
    \/ \E a \in Accounts : Switch(a)
    \/ \E a \in Accounts, s \in ToSet(Sources) : RetryDue(a, s)
    \/ BeginAll
    \/ \E a \in Accounts : BeginOne(a)
    \/ Ask \/ Unauthorized \/ AccountDone \/ Publish
    \/ \E a \in Accounts : PublishOne(a)
    \/ Cancel

-----------------------------------------------------------------------------
LastOf(a) == UNION {heard[a][s] : s \in ToSet(Sources)}
Heard(a) == UNION {DOMAIN l : l \in LastOf(a)}
Has(a) == {m \in DOMAIN catalog : a \in catalog[m].uids}

\* An account has the models that its own sources listed when they last
\* answered, no model of another account, and none that was taken from it; the
\* catalogue speaks of the accounts that were asked.
AccessExact ==
    \A a \in Accounts \ lost :
        Has(a) \ {Auto} = IF a \in listed THEN Heard(a) \ {Auto} ELSE {}

AutoForAll == DOMAIN catalog # {} => Auto \in DOMAIN catalog /\ catalog[Auto].uids = listed

\* The prices of an account are prices it was told.
PricesOwn ==
    \A a \in Accounts \ lost : \A m \in DOMAIN prices[a] :
        \E l \in LastOf(a) : m \in DOMAIN l /\ l[m].price = prices[a][m]

\* A model is locked in a catalogue of one round if it is for one of its
\* accounts at every source that listed it.
LocksKept ==
    whole => \A a \in listed \ lost : \A m \in Heard(a) :
        (\A l \in LastOf(a) : m \in DOMAIN l => l[m].locked) => catalog[m].locked

\* Between refreshes the catalogue is what the upstream confirmed, account by
\* account, however many answers were missing.
CatalogConfirmed ==
    job.kind = "none" => AccessExact /\ AutoForAll /\ LocksKept /\ PricesOwn
===============================================================================
