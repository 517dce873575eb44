------------------------ MODULE SessionRouterProofs ------------------------
(***************************************************************************)
(* Proofs about the session router, for any number of calls, sessions and  *)
(* accounts, any size of the map and any number of controls: the counts of *)
(* a session are its calls, no call loses its entry but with its account,  *)
(* the status shown is that of the last control, and a control is consumed *)
(* once and as it was given.                                               *)
(***************************************************************************)
EXTENDS SessionRouter, FiniteSetTheorems, WellFoundedInduction, TLAPS

-----------------------------------------------------------------------------
\* The inductive invariant.

\* Every value has its type.
RouterTyped ==
    /\ Entries \subseteq Keys /\ Cardinality(Entries) <= MaxEntries
    /\ order \in [Entries -> SUBSET Entries]
    /\ uid \in [Keys -> Anyone]
    /\ info \in [Keys -> States]
    /\ sequence \in Nat
    /\ expired \subseteq Entries

CallsTyped ==
    /\ call \in [Calls -> [id : Nat, running : BOOLEAN, control : Nat, target : Anyone]]
    /\ selection \in [Calls -> [version : Nat, action : Actions,
                                target : Anyone, baseline : Anyone]]
    /\ pc \in [Calls -> Places]
    /\ {seen, pick, served} \subseteq [Calls -> Anyone]
    /\ sticky \in [Calls -> BOOLEAN]
    /\ retry \in [Calls -> 0..Retries] /\ attempt \in [Calls -> 0..(Attempts - 1)]
    /\ key \in [Calls -> Keys] /\ events \in 0..MaxEvents
    /\ view = NoView \/ view \in [key : Keys, version : Nat, uid : Anyone]
    /\ orphans \subseteq Calls

\* Only a key with an entry is bound or observed, and without an identifier
\* there is no state.
EntriesHeld ==
    /\ IsFiniteSet(Entries)
    /\ \A k \in Keys : k \notin Entries => uid[k] = NoAccount /\ info[k].id = 0
    /\ \A k \in Keys : info[k].id = 0 => info[k] = NoState

\* What was numbered so far; two sessions never have the same control.
Numbered ==
    /\ \A k \in Keys : /\ info[k].id <= sequence
                       /\ info[k].id <= info[k].version
                       /\ info[k].version <= sequence
                       /\ info[k].epoch <= sequence
    /\ \A j, k \in Keys : info[j].epoch = info[k].epoch => info[j].epoch = 0 \/ j = k
    /\ \A c \in Calls : /\ call[c].id <= sequence
                        /\ call[c].control <= sequence
                        /\ selection[c].version <= sequence

\* An account that a session is bound to is the last it was bound to, and what
\* is known of an account is known of that one.
Bindings ==
    /\ \A k \in Keys : info[k].id # 0 /\ uid[k] # NoAccount => info[k].last = uid[k]
    /\ CompatFollowsBinding

\* A control that waits has a number no call has, and a switch has a target.
\* Two calls never have consumed the same control.
Controls ==
    /\ \A k \in Keys : info[k].pending # "" =>
         info[k].epoch # 0 /\ \A c \in Calls : call[c].control # info[k].epoch
    /\ \A k \in Keys : info[k].pending = "switch" => info[k].target # NoAccount
    /\ \A c, d \in Calls : call[c].control = call[d].control =>
         call[c].control = 0 \/ c = d

Selecting == {"routed", "bound"}
Picked == {"bound", "committed", "running", "attempting", "succeeded"}
Trying == {"attempting", "succeeded", "failing", "denied"}

\* What the selection of call c says of its session, as long as that one has
\* not changed.
Fits(c) ==
    /\ seen[c] = uid[key[c]]
    /\ selection[c].action = info[key[c]].pending
    /\ selection[c].baseline = info[key[c]].last
    /\ selection[c].action = "switch" => selection[c].target = info[key[c]].target
    /\ pc[c] = "bound" =>
         /\ selection[c].action = "" /\ sticky[c] =>
              pick[c] = seen[c] \/ info[key[c]].manual # seen[c]
         /\ selection[c].action = "switch" => pick[c] = info[key[c]].target
         /\ selection[c].action = "reselect" => pick[c] # info[key[c]].last

\* A selection that is still current fits its session.
SelectionFits(c) ==
    pc[c] \in Selecting /\ info[key[c]].id # 0 /\ Current(c) => Fits(c)

\* A call that has not begun has no state, and one that has an account has one.
PlaceFits(c) ==
    /\ pc[c] \in {"idle", "prepared"} => call[c] = NoCall
    /\ pc[c] \in Picked => pick[c] # NoAccount
    /\ pc[c] = "succeeded" => served[c] = pick[c]
    /\ selection[c].action = "switch" => selection[c].target # NoAccount

\* The call that consumed the last control of session k.
Consumed(c, k) ==
    key[c] = k /\ call[c].control # 0 /\ call[c].control = info[k].epoch

\* What the status of a session says of the call that consumed its control.
StatusFits(k) ==
    /\ info[k].status = "pending" <=> info[k].pending # ""
    /\ info[k].status = "executing" =>
         \E c \in Calls : Consumed(c, k) /\ Owns(c) /\ pc[c] \in Trying
    /\ info[k].status = "applied" =>
         \E c \in Calls : /\ Consumed(c, k) /\ pc[c] \in {"ending", "gone"}
                          /\ served[c] # NoAccount /\ served[c] = call[c].target
    /\ info[k].status = "fallback" =>
         \E c \in Calls : /\ Consumed(c, k) /\ pc[c] \in {"ending", "gone"}
                          /\ served[c] \notin {NoAccount, call[c].target}

\* The counts of a session are its calls in these phases.
Counts ==
    \A k \in Keys : info[k].id # 0 =>
        /\ info[k].running = Cardinality(Running(k))
        /\ info[k].waiting = Cardinality(Waiting(k))

RouterInv ==
    /\ RouterTyped /\ CallsTyped /\ Ordered /\ EntriesHeld
    /\ Numbered /\ Bindings /\ Controls
    /\ \A c \in Calls : PlaceFits(c) /\ SelectionFits(c)
    /\ \A k \in Keys : StatusFits(k)
    /\ Counts /\ LiveKept

-----------------------------------------------------------------------------
\* The states of a session.

LEMMA NoStateTyped == NoState \in States
BY DEF NoState, States, Actions, Statuses, Anyone

LEMMA ControlledRow ==
    ASSUME sequence \in Nat, NEW s \in States, NEW a \in Actions, NEW u \in Anyone,
           NEW t \in Statuses, NEW r, r = Controlled(s, a, u, t)
    PROVE  /\ r \in States
           /\ r.pending = a /\ r.target = u /\ r.status = t
           /\ r.version = sequence + 1 /\ r.epoch = sequence + 1
           /\ r.id = s.id /\ r.running = s.running /\ r.waiting = s.waiting
           /\ r.manual = s.manual /\ r.last = s.last /\ r.compat = s.compat
<1> DEFINE s1 == [s EXCEPT !.pending = a]
           s2 == [s1 EXCEPT !.target = u]
           s3 == [s2 EXCEPT !.status = t]
           s4 == [s3 EXCEPT !.version = sequence + 1]
           s5 == [s4 EXCEPT !.epoch = sequence + 1]
<1>0. sequence + 1 \in Nat OBVIOUS
<1>1. s1 \in States BY DEF States
<1>2. s2 \in States BY <1>1 DEF States
<1>3. s3 \in States BY <1>2 DEF States
<1>4. s4 \in States BY <1>0, <1>3 DEF States
<1>5. s5 \in States BY <1>0, <1>4 DEF States
<1>6. r = [s EXCEPT !.pending = a, !.target = u, !.status = t,
                    !.version = sequence + 1, !.epoch = sequence + 1]
  BY Zenon DEF Controlled
<1>7. r = s5 BY <1>6, Zenon
<1> QED BY <1>5, <1>7 DEF States

LEMMA ClearedRow ==
    ASSUME sequence \in Nat, NEW s \in States, NEW r, r = Cleared(s)
    PROVE  /\ r \in States
           /\ r.manual = NoAccount /\ r.compat = NoAccount /\ r.version = sequence + 1
           /\ r.id = s.id /\ r.running = s.running /\ r.waiting = s.waiting
           /\ r.pending = s.pending /\ r.target = s.target /\ r.epoch = s.epoch
           /\ r.last = s.last /\ r.status = s.status
<1> DEFINE s1 == [s EXCEPT !.manual = NoAccount]
           s2 == [s1 EXCEPT !.compat = NoAccount]
           s3 == [s2 EXCEPT !.version = sequence + 1]
<1>0. NoAccount \in Anyone /\ sequence + 1 \in Nat BY DEF Anyone
<1>1. s1 \in States BY <1>0 DEF States
<1>2. s2 \in States BY <1>0, <1>1 DEF States
<1>3. s3 \in States BY <1>0, <1>2 DEF States
<1>4. r = s3 BY Zenon DEF Cleared
<1> QED BY <1>3, <1>4 DEF States

LEMMA MovedRow ==
    ASSUME NEW s \in States, NEW b \in BOOLEAN, NEW r, r = Moved(s, b),
           IF b THEN s.waiting > 0 ELSE s.running > 0
    PROVE  /\ r \in States
           /\ r.running = IF b THEN s.running + 1 ELSE s.running - 1
           /\ r.waiting = IF b THEN s.waiting - 1 ELSE s.waiting + 1
           /\ r.id = s.id /\ r.version = s.version /\ r.pending = s.pending
           /\ r.target = s.target /\ r.epoch = s.epoch /\ r.last = s.last
           /\ r.status = s.status /\ r.manual = s.manual /\ r.compat = s.compat
<1> DEFINE d == IF b THEN 1 ELSE -1
           s1 == [s EXCEPT !.running = @ + d]
           s2 == [s1 EXCEPT !.waiting = @ - d]
<1>1. s.running + d \in Nat /\ s.waiting - d \in Nat BY DEF States
<1>2. s1 = [s EXCEPT !.running = s.running + d] OBVIOUS
<1>3. s1 \in States /\ s1.waiting = s.waiting BY <1>1, <1>2 DEF States
<1>4. s2 = [s1 EXCEPT !.waiting = s.waiting - d] BY <1>3
<1>5. s2 \in States BY <1>1, <1>3, <1>4 DEF States
<1>6. CASE b
  <2>1. r = [s EXCEPT !.running = @ + 1, !.waiting = @ - 1] BY <1>6, Zenon DEF Moved
  <2>2. r = [[s EXCEPT !.running = @ + 1] EXCEPT !.waiting = @ - 1] BY <2>1, Zenon
  <2>3. d = 1 BY <1>6
  <2>4. r = s2 BY <2>2, <2>3
  <2> QED BY <1>5, <2>4, <1>3, <1>2, <1>4, <1>6 DEF States
<1>7. CASE ~b
  <2>1. r = [s EXCEPT !.running = @ - 1, !.waiting = @ + 1] BY <1>7, Zenon DEF Moved
  <2>2. r = [[s EXCEPT !.running = @ - 1] EXCEPT !.waiting = @ + 1] BY <2>1, Zenon
  <2>3. s.running - 1 \in Nat /\ s.waiting + 1 \in Nat BY <1>7 DEF States
  <2>4. [s EXCEPT !.running = @ - 1] \in States BY <2>3 DEF States
  <2> QED BY <2>2, <2>3, <2>4, <1>7 DEF States
<1> QED BY <1>6, <1>7

\* Row r is what a commit from account b to account u makes of row s.
CommittedAs(s, b, u, r) ==
    /\ r \in States
    /\ r.compat = IF b = u THEN s.compat ELSE NoAccount
    /\ r.status = IF s.pending # "" THEN "selected" ELSE s.status
    /\ r.manual = IF s.pending = "switch" THEN u
                  ELSE IF s.pending # "" THEN NoAccount ELSE s.manual
    /\ r.pending = "" /\ r.target = NoAccount /\ r.last = u
    /\ r.version = IF b # u \/ s.pending # "" THEN sequence + 1 ELSE s.version
    /\ r.id = s.id /\ r.running = s.running /\ r.waiting = s.waiting
    /\ r.epoch = s.epoch

LEMMA CommittedRow ==
    ASSUME sequence \in Nat, NEW s \in States, NEW b \in Anyone, NEW u \in Anyone,
           NEW r, r = Committed(s, b, u)
    PROVE  CommittedAs(s, b, u, r)
<1> DEFINE compat == IF b = u THEN s.compat ELSE NoAccount
           status == IF s.pending # "" THEN "selected" ELSE s.status
           manual == IF s.pending = "switch" THEN u
                     ELSE IF s.pending # "" THEN NoAccount ELSE s.manual
           version == IF b # u \/ s.pending # "" THEN sequence + 1 ELSE s.version
           s1 == [s EXCEPT !.compat = compat]
           s2 == [s1 EXCEPT !.status = status]
           s3 == [s2 EXCEPT !.manual = manual]
           s4 == [s3 EXCEPT !.pending = ""]
           s5 == [s4 EXCEPT !.target = NoAccount]
           s6 == [s5 EXCEPT !.version = version]
           s7 == [s6 EXCEPT !.last = u]
<1>0. /\ NoAccount \in Anyone /\ compat \in Anyone /\ manual \in Anyone
      /\ status \in Statuses /\ version \in Nat /\ "" \in Actions
  <2>1. NoAccount \in Anyone /\ compat \in Anyone /\ manual \in Anyone
    BY DEF Anyone, States
  <2>2. status \in Statuses BY DEF States, Statuses
  <2>3. s.version \in Nat /\ sequence + 1 \in Nat BY DEF States
  <2>4. version \in Nat BY <2>3, Zenon
  <2> QED BY <2>1, <2>2, <2>4 DEF Actions
<1> HIDE DEF compat, status, manual, version
<1>1. s1 \in States BY <1>0 DEF States
<1>2. s2 \in States BY <1>0, <1>1 DEF States
<1>3. s3 \in States BY <1>0, <1>2 DEF States
<1>4. s4 \in States BY <1>0, <1>3 DEF States
<1>5. s5 \in States BY <1>0, <1>4 DEF States
<1>6. s6 \in States BY <1>0, <1>5 DEF States
<1>7. s7 \in States BY <1>6 DEF States
<1>8. /\ s7.compat = compat /\ s7.status = status /\ s7.manual = manual
      /\ s7.pending = "" /\ s7.target = NoAccount /\ s7.last = u
      /\ s7.version = version /\ s7.id = s.id /\ s7.running = s.running
      /\ s7.waiting = s.waiting /\ s7.epoch = s.epoch
  BY <1>7 DEF States
<1>9. r = s7
  BY DEF Committed, compat, status, manual, version, States
<1> QED BY <1>7, <1>8, <1>9 DEF CommittedAs, compat, status, manual, version

-----------------------------------------------------------------------------
\* The order of the entries.

OrderTyped ==
    /\ Entries \subseteq Keys /\ Cardinality(Entries) <= MaxEntries
    /\ order \in [Entries -> SUBSET Entries]
    /\ IsFiniteSet(Entries) /\ Ordered

LEMMA StayingTyped ==
    ASSUME OrderTyped, NEW stay \in SUBSET Entries, order' = Staying(stay)
    PROVE  Entries' = stay /\ OrderTyped'
<1>1. Entries' = stay BY DEF Entries, Staying
<1>2. /\ IsFiniteSet(stay) /\ Cardinality(stay) <= Cardinality(Entries)
      /\ Cardinality(stay) \in Nat /\ Cardinality(Entries) \in Nat
  BY FS_Subset, FS_CardinalityType DEF OrderTyped
<1>3. Cardinality(Entries') <= MaxEntries
  BY <1>1, <1>2, RouterAssumption DEF OrderTyped
<1>4. order' \in [stay -> SUBSET stay] BY DEF Staying
<1>5. Ordered'
  <2>1. \A j \in stay : order'[j] = order[j] \cap stay BY DEF Staying
  <2> QED BY <1>1, <2>1 DEF Ordered, OrderTyped
<1> QED BY <1>1, <1>2, <1>3, <1>4, <1>5 DEF OrderTyped

LEMMA TouchedTyped ==
    ASSUME OrderTyped, NEW stay \in SUBSET Entries, NEW k \in Keys,
           k \in stay \/ ~Full \/ stay # Entries,
           order' = Touched(stay, k)
    PROVE  Entries' = stay \cup {k} /\ OrderTyped'
<1>1. Entries' = stay \cup {k} BY DEF Entries, Touched
<1>2. /\ IsFiniteSet(stay) /\ Cardinality(stay) <= Cardinality(Entries)
      /\ Cardinality(stay) \in Nat /\ Cardinality(Entries) \in Nat
      /\ Cardinality(stay) = Cardinality(Entries) => stay = Entries
  BY FS_Subset, FS_CardinalityType DEF OrderTyped
<1>3. /\ IsFiniteSet(stay \cup {k})
      /\ Cardinality(stay \cup {k}) =
           IF k \in stay THEN Cardinality(stay) ELSE Cardinality(stay) + 1
  BY <1>2, FS_AddElement
<1>4. Cardinality(stay \cup {k}) <= MaxEntries
  BY <1>2, <1>3, RouterAssumption DEF OrderTyped, Full
<1>5. order' \in [stay \cup {k} -> SUBSET (stay \cup {k})] BY DEF Touched
<1>6. Ordered'
  <2>1. \A j \in stay \cup {k} :
          order'[j] = IF j = k THEN {} ELSE (order[j] \cap stay) \cup {k}
    BY DEF Touched
  <2>0. /\ order'[k] = {}
        /\ \A j \in stay : j # k => order'[j] = (order[j] \cap stay) \cup {k}
    BY <2>1
  <2>2. ASSUME NEW i \in stay \cup {k}, NEW j \in stay \cup {k}
        PROVE  j \in order'[i] <=> j # i /\ i \notin order'[j]
    <3>1. CASE i = k \/ j = k BY <3>1, <2>0
    <3>2. CASE i # k /\ j # k
      <4>1. j \in order[i] <=> j # i /\ i \notin order[j]
        BY <3>2 DEF Ordered, OrderTyped
      <4> QED BY <2>0, <3>2, <4>1
    <3> QED BY <3>1, <3>2
  <2>3. ASSUME NEW i \in stay \cup {k}, NEW j \in stay \cup {k}, j \in order'[i]
        PROVE  order'[j] \subseteq order'[i]
    <3>1. CASE i = k \/ j = k BY <3>1, <2>0, <2>3
    <3>2. CASE i # k /\ j # k
      <4>1. j \in order[i] BY <2>0, <2>3, <3>2
      <4>2. order[j] \subseteq order[i] BY <3>2, <4>1 DEF Ordered, OrderTyped
      <4> QED BY <2>0, <3>2, <4>2
    <3> QED BY <3>1, <3>2
  <2> QED BY <1>1, <2>2, <2>3 DEF Ordered
<1> QED BY <1>1, <1>3, <1>4, <1>5, <1>6 DEF OrderTyped

\* When the map is full and an entry is idle, one gives way: the one all other
\* idle entries were used after.
LEMMA OldestGoes ==
    ASSUME OrderTyped, Full, Evictable # {}
    PROVE  Victims # {}
<1> DEFINE R == StrictSubsetOrdering(Evictable)
           Before(k) == Evictable \ order[k]
           T == {Before(k) : k \in Evictable}
<1>1. IsFiniteSet(Evictable) /\ Evictable \subseteq Entries
  BY FS_Subset DEF OrderTyped, Evictable
<1>2. IsWellFoundedOn(R, SUBSET Evictable)
  BY <1>1, FS_StrictSubsetOrderingWellFounded, FS_FiniteSubsetsOfFinite
<1>3. T \subseteq SUBSET Evictable /\ T # {} OBVIOUS
<1>4. PICK x \in T : \A y \in T : ~(<<y, x>> \in R)
  <2> HIDE DEF R, T
  <2> QED BY <1>2, <1>3, WFMin
<1>5. PICK k \in Evictable : x = Before(k) BY <1>4
<1>6. ASSUME NEW j \in Evictable, j # k, j \notin order[k] PROVE FALSE
  <2>1. k \in order[j] BY <1>1, <1>6 DEF OrderTyped, Ordered
  <2>2. order[k] \subseteq order[j] /\ k \notin order[k]
    BY <1>1, <1>6, <2>1 DEF OrderTyped, Ordered
  <2>3. Before(j) \subseteq Before(k) /\ Before(j) # Before(k) BY <2>1, <2>2
  <2>4. <<Before(j), Before(k)>> \in R BY <2>3 DEF StrictSubsetOrdering
  <2> QED BY <1>4, <1>5, <1>6, <2>4
<1> QED BY <1>5, <1>6 DEF Victims

-----------------------------------------------------------------------------
\* The calls of a session.

LEMMA CountedFinite ==
    ASSUME NEW S \in SUBSET Calls
    PROVE  IsFiniteSet(S) /\ Cardinality(S) \in Nat /\ (Cardinality(S) = 0 <=> S = {})
BY RouterAssumption, FS_Subset, FS_CardinalityType, FS_EmptySet

LEMMA CountedMore ==
    ASSUME NEW S \in SUBSET Calls, NEW c, c \notin S, NEW T, T = S \cup {c}
    PROVE  Cardinality(T) = Cardinality(S) + 1
BY CountedFinite, FS_AddElement

LEMMA CountedLess ==
    ASSUME NEW S \in SUBSET Calls, NEW c \in S, NEW T, T = S \ {c}
    PROVE  Cardinality(T) = Cardinality(S) - 1
BY CountedFinite, FS_RemoveElement

LEMMA CountedTyped ==
    ASSUME NEW k
    PROVE  Running(k) \in SUBSET Calls /\ Waiting(k) \in SUBSET Calls
BY DEF Running, Waiting, Live

\* A call that owns the state of its session is counted in it.
LEMMA OwnerCounted ==
    ASSUME RouterInv, NEW c \in Live, Owns(c)
    PROVE  Busy(key[c]) /\ key[c] \in Entries
<1>1. c \in Calls /\ key[c] \in Keys /\ call[c].running \in BOOLEAN
  BY DEF Live, RouterInv, CallsTyped
<1>2. c \in Running(key[c]) \/ c \in Waiting(key[c]) BY DEF Running, Waiting
<1>3. Cardinality(Running(key[c])) # 0 \/ Cardinality(Waiting(key[c])) # 0
  BY <1>2, CountedTyped, CountedFinite
<1>4. info[key[c]].id # 0 /\ info[key[c]] \in States BY <1>1 DEF Owns, RouterInv, RouterTyped
<1>5. /\ info[key[c]].running = Cardinality(Running(key[c]))
      /\ info[key[c]].waiting = Cardinality(Waiting(key[c]))
  BY <1>1, <1>4 DEF RouterInv, Counts
<1>6. info[key[c]].running # 0 \/ info[key[c]].waiting # 0
  BY <1>1, <1>3, <1>5
<1>7. info[key[c]].running \in Nat /\ info[key[c]].waiting \in Nat BY <1>4 DEF States
<1>8. Busy(key[c]) BY <1>6, <1>7 DEF Busy
<1> QED BY <1>1, <1>4, <1>8 DEF RouterInv, EntriesHeld

-----------------------------------------------------------------------------
\* Operations of the router under a call that leaves a place of the selection.

Resting == {"idle", "prepared", "gone"}

\* The call keeps its state, its counts and what it has served; it does not
\* advance in the selection.
QuietCall(c) ==
    /\ pc[c] \in Resting \/ pc'[c] \in Resting => pc'[c] = pc[c]
    /\ pc[c] = "ending" => pc'[c] = "ending"
    /\ pc[c] \in Trying => pc'[c] \in Trying
    /\ pc'[c] \in Picked => pc[c] \in Picked /\ pick'[c] = pick[c]
    /\ pc'[c] = "succeeded" => pc[c] = "succeeded"
    /\ pc'[c] \in Selecting => /\ pc'[c] = pc[c] /\ seen'[c] = seen[c]
                               /\ pick'[c] = pick[c] /\ sticky'[c] = sticky[c]
                               /\ selection'[c] = selection[c]
    /\ selection'[c] \in {selection[c], NoSelection}
    /\ served'[c] = served[c]

Quiet ==
    /\ key' = key /\ call' = call /\ CallsTyped' /\ orphans \subseteq orphans'
    /\ \A c \in Calls : QuietCall(c)

LEMMA InvParts ==
    ASSUME RouterInv
    PROVE  RouterTyped /\ CallsTyped /\ OrderTyped
BY DEF RouterInv, RouterTyped, OrderTyped, EntriesHeld

LEMMA QuietLive == Quiet => Live' = Live
<1> SUFFICES ASSUME Quiet PROVE Live' = Live OBVIOUS
<1>1. \A c \in Calls : pc'[c] \in Resting <=> pc[c] \in Resting BY DEF Quiet, QuietCall
<1> QED BY <1>1 DEF Live, Resting

\* Who is counted depends on the identifiers of the entries only.
LEMMA QuietCounted ==
    ASSUME Quiet, NEW k \in Keys, info'[k].id = info[k].id
    PROVE  Running(k)' = Running(k) /\ Waiting(k)' = Waiting(k)
BY QuietLive DEF Quiet, Running, Waiting, Owns

LEMMA QuietPlace ==
    ASSUME RouterInv, Quiet, NEW c \in Calls
    PROVE  PlaceFits(c)'
<1>1. QuietCall(c) /\ PlaceFits(c) BY DEF Quiet, RouterInv
<1>2. NoSelection.action # "switch" BY DEF NoSelection
<1> QED BY <1>1, <1>2 DEF PlaceFits, QuietCall, Quiet, Resting, Picked

\* A selection is still current only if its session has not changed.
LEMMA QuietSelection ==
    ASSUME RouterInv, Quiet, NEW c \in Calls, NEW k, k = key[c],
           \/ info'[k].id = 0
           \/ info'[k].version > sequence
           \/ /\ info[k].id # 0 /\ uid'[k] = uid[k]
              /\ info'[k].version = info[k].version
              /\ info'[k].pending = info[k].pending
              /\ info'[k].target = info[k].target
              /\ info'[k].manual = info[k].manual
              /\ info'[k].last = info[k].last
    PROVE  SelectionFits(c)'
<1> SUFFICES ASSUME pc'[c] \in Selecting, info'[k].id # 0,
                    info'[k].version = selection'[c].version
             PROVE  Fits(c)'
  BY DEF SelectionFits, Current, Quiet
<1>1. QuietCall(c) /\ SelectionFits(c) /\ key'[c] = k BY DEF Quiet, RouterInv
<1>2. /\ pc'[c] = pc[c] /\ seen'[c] = seen[c] /\ pick'[c] = pick[c]
      /\ sticky'[c] = sticky[c] /\ selection'[c] = selection[c]
  BY <1>1 DEF QuietCall
<1>3. selection[c].version <= sequence /\ selection[c].version \in Nat /\ sequence \in Nat
  BY InvParts DEF RouterInv, Numbered, CallsTyped, RouterTyped
<1>4. Fits(c) BY <1>1, <1>2, <1>3 DEF SelectionFits, Current
<1>5. ~(info'[k].version > sequence) BY <1>2, <1>3
<1> QED BY <1>1, <1>2, <1>4, <1>5, ZenonT(30) DEF Fits

LEMMA QuietStatus ==
    ASSUME RouterInv, Quiet, NEW k \in Keys,
           info'[k].id = info[k].id, info'[k].epoch = info[k].epoch,
           info'[k].status = info[k].status, info'[k].pending = info[k].pending
    PROVE  StatusFits(k)'
<1> USE DEF Quiet
<1>1. StatusFits(k) BY DEF RouterInv
<1>2. \A c \in Calls : Consumed(c, k)' = Consumed(c, k) BY DEF Consumed
<1>3. \A c \in Calls : Consumed(c, k) => Owns(c)' = Owns(c) BY DEF Consumed, Owns
<1>4. \A c \in Calls : /\ pc[c] \in Trying => pc'[c] \in Trying
                       /\ pc[c] \in {"ending", "gone"} => pc'[c] = pc[c]
                       /\ served'[c] = served[c]
  BY DEF QuietCall, Resting
<1> QED BY <1>1, <1>2, <1>3, <1>4 DEF StatusFits

LEMMA QuietNumbers ==
    ASSUME RouterInv, Quiet, sequence' \in Nat, sequence <= sequence', NEW c \in Calls
    PROVE  /\ call'[c].id <= sequence' /\ call'[c].control <= sequence'
           /\ selection'[c].version <= sequence'
<1>1. /\ call[c].id <= sequence /\ call[c].control <= sequence
      /\ selection[c].version <= sequence
      /\ call[c].id \in Nat /\ call[c].control \in Nat /\ selection[c].version \in Nat
      /\ sequence \in Nat
  BY InvParts DEF RouterInv, Numbered, CallsTyped, RouterTyped
<1>2. selection'[c] \in {selection[c], NoSelection} BY DEF Quiet, QuietCall
<1>3. NoSelection.version = 0 BY DEF NoSelection
<1> QED BY <1>1, <1>2, <1>3 DEF Quiet

LEMMA QuietKept ==
    ASSUME RouterInv, Quiet,
           \A c \in Live : Owns(c) => info'[key[c]].id = info[key[c]].id \/ c \in orphans'
    PROVE  LiveKept'
<1> SUFFICES ASSUME NEW c \in Live, call[c].id # 0, c \notin orphans' PROVE Owns(c)'
  BY QuietLive DEF LiveKept, Quiet
<1>1. Owns(c) BY DEF RouterInv, LiveKept, Quiet
<1> QED BY <1>1 DEF Owns, Quiet

LEMMA SameKeeps ==
    ASSUME RouterInv, Quiet, UNCHANGED router
    PROVE  RouterInv'
<1> USE DEF router
<1>1. RouterTyped' /\ CallsTyped' /\ OrderTyped' /\ EntriesHeld'
  BY InvParts DEF RouterTyped, OrderTyped, Ordered, Entries, RouterInv, EntriesHeld, Quiet
<1>2. Numbered' BY InvParts, QuietNumbers DEF RouterInv, Numbered, RouterTyped
<1>3. Bindings' BY DEF RouterInv, Bindings, CompatFollowsBinding
<1>4. Controls' BY DEF RouterInv, Controls, Quiet
<1>5. ASSUME NEW c \in Calls PROVE SelectionFits(c)'
  <2>1. CASE info[key[c]].id = 0 BY <2>1, QuietSelection
  <2>2. CASE info[key[c]].id # 0 BY <2>2, QuietSelection
  <2> QED BY <2>1, <2>2
<1>6. ASSUME NEW k \in Keys PROVE StatusFits(k)' BY QuietStatus
<1>7. Counts' BY QuietCounted DEF RouterInv, Counts
<1>8. LiveKept'
  <2>1. \A c \in Live : Owns(c) => info'[key[c]].id = info[key[c]].id \/ c \in orphans'
    OBVIOUS
  <2> QED BY <2>1, QuietKept
<1> QED BY <1>1, <1>2, <1>3, <1>4, <1>5, <1>6, <1>7, <1>8, QuietPlace
  DEF RouterInv, OrderTyped

\* Entries that are removed, none of them in use but with its account.
LEMMA RemovedKeeps ==
    ASSUME RouterInv, Quiet, NEW gone \in SUBSET Entries,
           order' = Staying(Entries \ gone),
           uid' = [k \in Keys |-> IF k \in gone THEN NoAccount ELSE uid[k]],
           info' = [k \in Keys |-> IF k \in gone THEN NoState ELSE info[k]],
           expired' = expired \ gone, UNCHANGED sequence,
           \A c \in Live : Owns(c) /\ key[c] \in gone => c \in orphans'
    PROVE  RouterInv'
<1>0. /\ RouterTyped /\ CallsTyped /\ OrderTyped
      /\ Entries' = Entries \ gone /\ OrderTyped'
  BY InvParts, StayingTyped
<1>a. /\ NoState.id = 0 /\ NoState.version = 0 /\ NoState.epoch = 0
      /\ NoState.pending = "" /\ NoState.status = "" /\ NoState.compat = NoAccount
  BY DEF NoState
<1>b. \A k \in Keys : /\ k \in gone => uid'[k] = NoAccount /\ info'[k] = NoState
                      /\ k \notin gone => uid'[k] = uid[k] /\ info'[k] = info[k]
  OBVIOUS
<1>c. \A c \in Calls : key[c] \in Keys BY <1>0 DEF CallsTyped
<1>1. RouterTyped' /\ CallsTyped' /\ EntriesHeld'
  <2>1. uid' \in [Keys -> Anyone] BY <1>0 DEF RouterTyped, Anyone
  <2>2. info' \in [Keys -> States] BY <1>0, NoStateTyped DEF RouterTyped
  <2>3. EntriesHeld'
    BY <1>0, <1>a, <1>b DEF RouterInv, EntriesHeld, OrderTyped
  <2> QED BY <1>0, <2>1, <2>2, <2>3 DEF RouterTyped, OrderTyped, Quiet
<1>2. Numbered'
  <2>1. sequence \in Nat BY <1>0 DEF RouterTyped
  <2>2. ASSUME NEW k \in Keys
        PROVE  /\ info'[k].id <= sequence /\ info'[k].id <= info'[k].version
               /\ info'[k].version <= sequence /\ info'[k].epoch <= sequence
    <3>1. CASE k \in gone
      <4>1. info'[k] = NoState BY <3>1, <1>b
      <4>2. info'[k].id = 0 /\ info'[k].version = 0 /\ info'[k].epoch = 0 BY <4>1, <1>a
      <4>3. 0 <= sequence BY <2>1
      <4> QED BY <4>2, <4>3
    <3>2. CASE k \notin gone BY <3>2, <1>b DEF RouterInv, Numbered
    <3> QED BY <3>1, <3>2
  <2>3. \A j, k \in Keys : info'[j].epoch = info'[k].epoch => info'[j].epoch = 0 \/ j = k
    BY <1>a, <1>b DEF RouterInv, Numbered
  <2> QED BY <2>1, <2>2, <2>3, QuietNumbers DEF Numbered
<1>3. Bindings' BY <1>a, <1>b DEF RouterInv, Bindings, CompatFollowsBinding
<1>4. Controls' BY <1>a, <1>b DEF RouterInv, Controls, Quiet
<1>5. ASSUME NEW c \in Calls PROVE SelectionFits(c)'
  <2>1. CASE info'[key[c]].id = 0 BY <2>1, QuietSelection
  <2>2. CASE info'[key[c]].id # 0 BY <2>2, <1>a, <1>b, <1>c, QuietSelection
  <2> QED BY <2>1, <2>2
<1>6. ASSUME NEW k \in Keys PROVE StatusFits(k)'
  <2>1. CASE k \in gone BY <2>1, <1>a, <1>b DEF StatusFits
  <2>2. CASE k \notin gone BY <2>2, <1>b, QuietStatus
  <2> QED BY <2>1, <2>2
<1>7. Counts'
  <2>1. ASSUME NEW k \in Keys, info'[k].id # 0
        PROVE  info'[k] = info[k]
    BY <2>1, <1>a, <1>b
  <2> QED BY <2>1, QuietCounted DEF RouterInv, Counts
<1>8. LiveKept'
  <2>1. \A c \in Live : Owns(c) => info'[key[c]].id = info[key[c]].id \/ c \in orphans'
    BY <1>b, <1>c DEF Live
  <2> QED BY <2>1, QuietKept
<1> QED BY <1>0, <1>1, <1>2, <1>3, <1>4, <1>5, <1>6, <1>7, <1>8, QuietPlace
  DEF RouterInv, OrderTyped

\* Unbind of an observed session.
LEMMA ClearedKeeps ==
    ASSUME RouterInv, Quiet, NEW k \in Keys, info[k].id # 0,
           uid' = [uid EXCEPT ![k] = NoAccount], sequence' = sequence + 1,
           info' = [info EXCEPT ![k] = Cleared(@)], UNCHANGED <<order, expired>>
    PROVE  RouterInv'
<1>0. RouterTyped /\ CallsTyped /\ OrderTyped /\ sequence \in Nat /\ info[k] \in States
  BY InvParts DEF RouterTyped
<1>a. /\ info'[k] = Cleared(info[k]) /\ uid'[k] = NoAccount
      /\ \A j \in Keys : j # k => info'[j] = info[j] /\ uid'[j] = uid[j]
  BY <1>0 DEF RouterTyped
<1>b. /\ info'[k] \in States
      /\ info'[k].compat = NoAccount /\ info'[k].version = sequence + 1
      /\ info'[k].id = info[k].id
      /\ info'[k].running = info[k].running /\ info'[k].waiting = info[k].waiting
      /\ info'[k].pending = info[k].pending /\ info'[k].target = info[k].target
      /\ info'[k].epoch = info[k].epoch /\ info'[k].last = info[k].last
      /\ info'[k].status = info[k].status
  BY <1>0, <1>a, ClearedRow
<1>1. RouterTyped' /\ CallsTyped' /\ OrderTyped' /\ EntriesHeld'
  <2>1. uid' \in [Keys -> Anyone] BY <1>0 DEF RouterTyped, Anyone
  <2>2. info' \in [Keys -> States] BY <1>0, <1>a, <1>b DEF RouterTyped
  <2>3. OrderTyped' BY <1>0 DEF OrderTyped, Ordered, Entries
  <2>4. EntriesHeld' BY <1>a, <1>b DEF RouterInv, EntriesHeld, Entries
  <2> QED BY <1>0, <2>1, <2>2, <2>3, <2>4 DEF RouterTyped, OrderTyped, Entries, Quiet
<1>2. Numbered'
  <2>1. \A j \in Keys : /\ info'[j].id <= sequence' /\ info'[j].id <= info'[j].version
                        /\ info'[j].version <= sequence' /\ info'[j].epoch <= sequence'
    <3>1. /\ info[k].id <= sequence /\ info[k].epoch <= sequence
          /\ info[k].id \in Nat /\ info[k].epoch \in Nat
      BY <1>0 DEF RouterInv, Numbered, States
    <3>2. ASSUME NEW j \in Keys, j # k
          PROVE  /\ info'[j].id <= sequence' /\ info'[j].id <= info'[j].version
                 /\ info'[j].version <= sequence' /\ info'[j].epoch <= sequence'
      <4>1. info[j] \in States BY <1>0 DEF RouterTyped
      <4> QED BY <1>0, <1>a, <3>2, <4>1 DEF RouterInv, Numbered, States
    <3> QED BY <1>0, <1>b, <3>1, <3>2
  <2>2. \A i, j \in Keys : info'[i].epoch = info'[j].epoch => info'[i].epoch = 0 \/ i = j
    <3>1. \A j \in Keys : info'[j].epoch = info[j].epoch BY <1>a, <1>b
    <3> QED BY <3>1 DEF RouterInv, Numbered
  <2>3. sequence' \in Nat /\ sequence <= sequence' BY <1>0
  <2> QED BY <2>1, <2>2, <2>3, QuietNumbers DEF Numbered
<1>3. Bindings' BY <1>a, <1>b DEF RouterInv, Bindings, CompatFollowsBinding
<1>4. Controls'
  <2>1. \A j \in Keys : /\ info'[j].pending = info[j].pending
                        /\ info'[j].target = info[j].target /\ info'[j].epoch = info[j].epoch
    BY <1>a, <1>b
  <2> QED BY <2>1 DEF RouterInv, Controls, Quiet
<1>5. ASSUME NEW c \in Calls PROVE SelectionFits(c)'
  <2>1. CASE key[c] = k BY <2>1, <1>0, <1>b, QuietSelection
  <2>2. CASE key[c] # k /\ info'[key[c]].id = 0 BY <2>2, QuietSelection
  <2>3. CASE key[c] # k /\ info'[key[c]].id # 0
    BY <2>3, <1>0, <1>a, QuietSelection DEF CallsTyped
  <2> QED BY <2>1, <2>2, <2>3
<1>6. ASSUME NEW j \in Keys PROVE StatusFits(j)' BY <1>a, <1>b, QuietStatus
<1>7. Counts'
  <2>1. \A j \in Keys : /\ info'[j].id = info[j].id /\ info'[j].running = info[j].running
                        /\ info'[j].waiting = info[j].waiting
    BY <1>a, <1>b
  <2> QED BY <2>1, QuietCounted DEF RouterInv, Counts
<1>8. LiveKept'
  <2>1. \A c \in Live : Owns(c) => info'[key[c]].id = info[key[c]].id \/ c \in orphans'
    BY <1>0, <1>a, <1>b DEF Live, CallsTyped
  <2> QED BY <2>1, QuietKept
<1> QED BY <1>1, <1>2, <1>3, <1>4, <1>5, <1>6, <1>7, <1>8, QuietPlace
  DEF RouterInv, OrderTyped

\* A control that is asked for, withdrawn or rejected.
Answers(a, u, t) ==
    /\ a \in Actions /\ u \in Anyone /\ t \in Statuses
    /\ t \notin {"executing", "applied", "fallback"}
    /\ t = "pending" <=> a # ""
    /\ a = "switch" => u # NoAccount

LEMMA ControlledKeeps ==
    ASSUME RouterInv, Quiet, NEW k \in Keys, info[k].id # 0,
           NEW a, NEW u, NEW t, Answers(a, u, t),
           sequence' = sequence + 1,
           info' = [info EXCEPT ![k] = Controlled(@, a, u, t)],
           UNCHANGED <<order, uid, expired>>
    PROVE  RouterInv'
<1>0. RouterTyped /\ CallsTyped /\ OrderTyped /\ sequence \in Nat /\ info[k] \in States
  BY InvParts DEF RouterTyped
<1>a. /\ info'[k] = Controlled(info[k], a, u, t)
      /\ \A j \in Keys : j # k => info'[j] = info[j]
  BY <1>0 DEF RouterTyped
<1>b. /\ info'[k] \in States
      /\ info'[k].pending = a /\ info'[k].target = u /\ info'[k].status = t
      /\ info'[k].version = sequence + 1 /\ info'[k].epoch = sequence + 1
      /\ info'[k].id = info[k].id
      /\ info'[k].running = info[k].running /\ info'[k].waiting = info[k].waiting
      /\ info'[k].last = info[k].last /\ info'[k].compat = info[k].compat
  <2>1. a \in Actions /\ u \in Anyone /\ t \in Statuses BY DEF Answers
  <2> QED BY <1>0, <1>a, <2>1, ControlledRow
<1>1. RouterTyped' /\ CallsTyped' /\ OrderTyped' /\ EntriesHeld'
  <2>2. info' \in [Keys -> States] BY <1>0, <1>a, <1>b DEF RouterTyped
  <2>3. OrderTyped' BY <1>0 DEF OrderTyped, Ordered, Entries
  <2>4. EntriesHeld' BY <1>a, <1>b DEF RouterInv, EntriesHeld, Entries
  <2> QED BY <1>0, <2>2, <2>3, <2>4 DEF RouterTyped, OrderTyped, Entries, Quiet
<1>2. Numbered'
  <2>1. \A j \in Keys : /\ info'[j].id <= sequence' /\ info'[j].id <= info'[j].version
                        /\ info'[j].version <= sequence' /\ info'[j].epoch <= sequence'
    <3>1. info[k].id <= sequence /\ info[k].id \in Nat
      BY <1>0 DEF RouterInv, Numbered, States
    <3>2. ASSUME NEW j \in Keys, j # k
          PROVE  /\ info'[j].id <= sequence' /\ info'[j].id <= info'[j].version
                 /\ info'[j].version <= sequence' /\ info'[j].epoch <= sequence'
      <4>1. info[j] \in States BY <1>0 DEF RouterTyped
      <4> QED BY <1>0, <1>a, <3>2, <4>1 DEF RouterInv, Numbered, States
    <3> QED BY <1>0, <1>b, <3>1, <3>2
  <2>2. ASSUME NEW i \in Keys, NEW j \in Keys, info'[i].epoch = info'[j].epoch
        PROVE  info'[i].epoch = 0 \/ i = j
    <3>1. \A l \in Keys : info[l].epoch <= sequence /\ info[l].epoch \in Nat
      BY <1>0 DEF RouterInv, Numbered, RouterTyped, States
    <3>2. CASE i # k /\ j # k BY <3>2, <2>2, <1>a DEF RouterInv, Numbered
    <3>3. CASE i = k /\ j # k BY <3>3, <2>2, <1>0, <1>a, <1>b, <3>1
    <3>4. CASE i # k /\ j = k BY <3>4, <2>2, <1>0, <1>a, <1>b, <3>1
    <3> QED BY <3>2, <3>3, <3>4
  <2>3. sequence' \in Nat /\ sequence <= sequence' BY <1>0
  <2> QED BY <2>1, <2>2, <2>3, QuietNumbers DEF Numbered
<1>3. Bindings' BY <1>a, <1>b DEF RouterInv, Bindings, CompatFollowsBinding
<1>4. Controls'
  <2>1. \A c \in Calls : call'[c] = call[c] BY DEF Quiet
  <2>2. \A c \in Calls : call[c].control # sequence + 1
    BY <1>0 DEF RouterInv, Numbered, CallsTyped
  <2>3. sequence + 1 # 0 BY <1>0
  <2>4. ASSUME NEW j \in Keys
        PROVE  /\ info'[j].pending # "" => /\ info'[j].epoch # 0
                         /\ \A c \in Calls : call'[c].control # info'[j].epoch
               /\ info'[j].pending = "switch" => info'[j].target # NoAccount
    <3>1. CASE j = k BY <3>1, <1>b, <2>1, <2>2, <2>3 DEF Answers
    <3>2. CASE j # k BY <3>2, <1>a, <2>1 DEF RouterInv, Controls
    <3> QED BY <3>1, <3>2
  <2> QED BY <2>1, <2>4, ZenonT(30) DEF RouterInv, Controls
<1>5. ASSUME NEW c \in Calls PROVE SelectionFits(c)'
  <2>1. CASE key[c] = k BY <2>1, <1>0, <1>b, QuietSelection
  <2>2. CASE key[c] # k /\ info'[key[c]].id = 0 BY <2>2, QuietSelection
  <2>3. CASE key[c] # k /\ info'[key[c]].id # 0
    BY <2>3, <1>0, <1>a, QuietSelection DEF CallsTyped
  <2> QED BY <2>1, <2>2, <2>3
<1>6. ASSUME NEW j \in Keys PROVE StatusFits(j)'
  <2>1. CASE j = k BY <2>1, <1>b DEF StatusFits, Answers
  <2>2. CASE j # k BY <2>2, <1>a, QuietStatus
  <2> QED BY <2>1, <2>2
<1>7. Counts'
  <2>1. \A j \in Keys : /\ info'[j].id = info[j].id /\ info'[j].running = info[j].running
                        /\ info'[j].waiting = info[j].waiting
    BY <1>a, <1>b
  <2> QED BY <2>1, QuietCounted DEF RouterInv, Counts
<1>8. LiveKept'
  <2>1. \A c \in Live : Owns(c) => info'[key[c]].id = info[key[c]].id \/ c \in orphans'
    BY <1>0, <1>a, <1>b DEF Live, CallsTyped
  <2> QED BY <2>1, QuietKept
<1> QED BY <1>1, <1>2, <1>3, <1>4, <1>5, <1>6, <1>7, <1>8, QuietPlace
  DEF RouterInv, OrderTyped

\* The idle entries that make room for another key.
LEMMA RoomMade ==
    ASSUME RouterInv, NEW k \in Keys, HasRoom, k \notin Entries,
           order' = Touched(Entries \ Victims, k)
    PROVE  Entries' = (Entries \ Victims) \cup {k} /\ OrderTyped'
<1>1. OrderTyped BY InvParts
<1>2. ~Full \/ Entries \ Victims # Entries
  <2>1. CASE Full
    <3>1. Victims # {} BY <1>1, <2>1, OldestGoes DEF HasRoom
    <3>2. Victims \subseteq Entries BY DEF Victims, Evictable
    <3> QED BY <3>1, <3>2
  <2> QED BY <2>1
<1> QED BY <1>1, <1>2, TouchedTyped

\* No call owns an entry that makes room.
LEMMA VictimsUnowned ==
    ASSUME RouterInv, NEW c \in Live, Owns(c)
    PROVE  key[c] \notin Victims
BY OwnerCounted DEF Victims, Evictable

\* Bind of a session that is not observed.
LEMMA EnteredKeeps ==
    ASSUME RouterInv, Quiet, NEW k \in Keys, NEW u \in Accounts, info[k].id = 0,
           NEW gone \in SUBSET Evictable, k \notin gone,
           Entries' = (Entries \ gone) \cup {k}, OrderTyped',
           uid' = [j \in Keys |-> IF j = k THEN u
                                  ELSE IF j \in gone THEN NoAccount ELSE uid[j]],
           info' = [j \in Keys |-> IF j \in gone THEN NoState ELSE info[j]],
           expired' = expired \ (gone \cup {k}), UNCHANGED sequence
    PROVE  RouterInv'
<1>0. /\ RouterTyped /\ CallsTyped /\ OrderTyped /\ info[k] = NoState
      /\ gone \subseteq Entries /\ u \in Anyone
  BY InvParts DEF RouterInv, EntriesHeld, Evictable, Anyone
<1>a. /\ NoState.id = 0 /\ NoState.version = 0 /\ NoState.epoch = 0
      /\ NoState.pending = "" /\ NoState.status = "" /\ NoState.compat = NoAccount
  BY DEF NoState
<1>b. \A j \in Keys : /\ j \in gone => uid'[j] = NoAccount /\ info'[j] = NoState
                      /\ j \notin gone => info'[j] = info[j]
                      /\ j \notin gone /\ j # k => uid'[j] = uid[j]
  OBVIOUS
<1>c. \A c \in Calls : key[c] \in Keys BY <1>0 DEF CallsTyped
<1>1. RouterTyped' /\ CallsTyped' /\ EntriesHeld'
  <2>1. uid' \in [Keys -> Anyone] BY <1>0 DEF RouterTyped, Anyone
  <2>2. info' \in [Keys -> States] BY <1>0, NoStateTyped DEF RouterTyped
  <2>3. EntriesHeld' BY <1>0, <1>a, <1>b DEF RouterInv, EntriesHeld, OrderTyped
  <2> QED BY <1>0, <2>1, <2>2, <2>3 DEF RouterTyped, OrderTyped, Quiet
<1>2. Numbered'
  <2>1. sequence \in Nat BY <1>0 DEF RouterTyped
  <2>2. ASSUME NEW j \in Keys
        PROVE  /\ info'[j].id <= sequence /\ info'[j].id <= info'[j].version
               /\ info'[j].version <= sequence /\ info'[j].epoch <= sequence
    <3>1. CASE j \in gone
      <4>1. info'[j] = NoState BY <3>1, <1>b
      <4>2. info'[j].id = 0 /\ info'[j].version = 0 /\ info'[j].epoch = 0 BY <4>1, <1>a
      <4>3. 0 <= sequence BY <2>1
      <4> QED BY <4>2, <4>3
    <3>2. CASE j \notin gone BY <3>2, <1>b DEF RouterInv, Numbered
    <3> QED BY <3>1, <3>2
  <2>3. \A i, j \in Keys : info'[i].epoch = info'[j].epoch => info'[i].epoch = 0 \/ i = j
    BY <1>a, <1>b DEF RouterInv, Numbered
  <2> QED BY <2>1, <2>2, <2>3, QuietNumbers DEF Numbered
<1>3. Bindings' BY <1>0, <1>a, <1>b DEF RouterInv, Bindings, CompatFollowsBinding
<1>4. Controls' BY <1>a, <1>b DEF RouterInv, Controls, Quiet
<1>5. ASSUME NEW c \in Calls PROVE SelectionFits(c)'
  <2>1. CASE info'[key[c]].id = 0 BY <2>1, QuietSelection
  <2>2. CASE info'[key[c]].id # 0
    <3>1. key[c] \notin gone /\ key[c] # k BY <2>2, <1>0, <1>a, <1>b, <1>c
    <3> QED BY <2>2, <3>1, <1>b, <1>c, QuietSelection
  <2> QED BY <2>1, <2>2
<1>6. ASSUME NEW j \in Keys PROVE StatusFits(j)'
  <2>1. CASE j \in gone BY <2>1, <1>a, <1>b DEF StatusFits
  <2>2. CASE j \notin gone BY <2>2, <1>b, QuietStatus
  <2> QED BY <2>1, <2>2
<1>7. Counts'
  <2>1. ASSUME NEW j \in Keys, info'[j].id # 0
        PROVE  info'[j] = info[j]
    BY <2>1, <1>a, <1>b
  <2> QED BY <2>1, QuietCounted DEF RouterInv, Counts
<1>8. LiveKept'
  <2>1. \A c \in Live : Owns(c) => key[c] \notin gone
    BY OwnerCounted DEF Evictable
  <2>2. \A c \in Live : Owns(c) => info'[key[c]].id = info[key[c]].id \/ c \in orphans'
    BY <2>1, <1>b, <1>c DEF Live
  <2> QED BY <2>2, QuietKept
<1> QED BY <1>0, <1>1, <1>2, <1>3, <1>4, <1>5, <1>6, <1>7, <1>8, QuietPlace
  DEF RouterInv, OrderTyped

LEMMA BindKeeps ==
    ASSUME RouterInv, Quiet, NEW k \in Keys, NEW u \in Accounts, Bind(k, u)
    PROVE  RouterInv'
<1>0. /\ RouterTyped /\ OrderTyped /\ Victims \subseteq Evictable
      /\ Evictable \subseteq Entries /\ Entries \subseteq Keys
  BY InvParts DEF Victims, Evictable, OrderTyped
<1>1. CASE UNCHANGED router BY <1>1, SameKeeps
<1>2. CASE k \in Entries /\ info[k].id = 0
  <2> DEFINE gone == {}
  <2>1. /\ uid' = [uid EXCEPT ![k] = u] /\ order' = Touched(Entries, k)
        /\ expired' = expired \ {k} /\ UNCHANGED <<info, sequence>>
    BY <1>2 DEF Bind
  <2>2. Entries' = (Entries \ gone) \cup {k} /\ OrderTyped'
    BY <1>0, <1>2, <2>1, TouchedTyped
  <2>3. /\ uid' = [j \in Keys |-> IF j = k THEN u
                                  ELSE IF j \in gone THEN NoAccount ELSE uid[j]]
        /\ info' = [j \in Keys |-> IF j \in gone THEN NoState ELSE info[j]]
        /\ expired' = expired \ (gone \cup {k})
    BY <1>0, <2>1 DEF RouterTyped
  <2>4. gone \in SUBSET Evictable /\ k \notin gone OBVIOUS
  <2> HIDE DEF gone
  <2> QED BY <1>2, <2>1, <2>2, <2>3, <2>4, EnteredKeeps
<1>3. CASE k \notin Entries /\ HasRoom
  <2>1. /\ order' = Touched(Entries \ Victims, k)
        /\ uid' = [j \in Keys |-> IF j = k THEN u
                                  ELSE IF j \in Victims THEN NoAccount ELSE uid[j]]
        /\ info' = [j \in Keys |-> IF j \in Victims THEN NoState ELSE info[j]]
        /\ expired' = expired \ (Victims \cup {k}) /\ UNCHANGED sequence
    BY <1>3 DEF Bind
  <2>2. Entries' = (Entries \ Victims) \cup {k} /\ OrderTyped' BY <1>3, <2>1, RoomMade
  <2>3. info[k].id = 0 /\ k \notin Victims BY <1>0, <1>3 DEF RouterInv, EntriesHeld
  <2> QED BY <1>0, <2>1, <2>2, <2>3, EnteredKeeps
<1> QED BY <1>1, <1>2, <1>3 DEF Bind

LEMMA RemoveKeeps ==
    ASSUME RouterInv, Quiet, NEW k \in Keys, RemoveLocked(k), UNCHANGED sequence,
           ~Busy(k)
    PROVE  RouterInv'
<1> DEFINE gone == {k} \cap Entries
<1>0. RouterTyped BY InvParts
<1>1. /\ order' = Staying(Entries \ gone) /\ expired' = expired \ gone
      /\ uid' = [j \in Keys |-> IF j \in gone THEN NoAccount ELSE uid[j]]
      /\ info' = [j \in Keys |-> IF j \in gone THEN NoState ELSE info[j]]
  <2>1. Entries \ {k} = Entries \ gone /\ expired \ {k} = expired \ gone
    BY <1>0 DEF RouterTyped
  <2>2. k \notin Entries => uid[k] = NoAccount /\ info[k] = NoState
    BY DEF RouterInv, EntriesHeld
  <2> QED BY <1>0, <2>1, <2>2 DEF RemoveLocked, RouterTyped
<1>2. \A c \in Live : Owns(c) => key[c] # k BY OwnerCounted
<1>3. \A c \in Live : Owns(c) /\ key[c] \in gone => c \in orphans' BY <1>2
<1> QED BY <1>1, <1>3, RemovedKeeps

LEMMA ClearKeeps ==
    ASSUME RouterInv, Quiet, NEW k \in Keys, Clear(k)
    PROVE  RouterInv'
<1>1. CASE k \in Entries /\ info[k].id # 0 BY <1>1, ClearedKeeps DEF Clear
<1>2. CASE k \notin Entries \/ info[k].id = 0
  <2>1. info[k] = NoState BY <1>2 DEF RouterInv, EntriesHeld
  <2>2. NoState.running = 0 /\ NoState.waiting = 0 BY DEF NoState
  <2>3. ~Busy(k) BY <2>1, <2>2 DEF Busy
  <2> QED BY <1>2, <2>3, RemoveKeeps DEF Clear
<1> QED BY <1>1, <1>2

LEMMA RejectKeeps ==
    ASSUME RouterInv, Quiet, NEW k \in Keys, NEW version, Reject(k, version)
    PROVE  RouterInv'
<1>1. CASE UNCHANGED router BY <1>1, SameKeeps
<1>2. CASE info[k].id # 0 /\ ~UNCHANGED router
  <2>1. Answers("", NoAccount, "failed") BY DEF Answers, Actions, Anyone, Statuses
  <2> QED BY <1>2, <2>1, ControlledKeeps DEF Reject
<1> QED BY <1>1, <1>2 DEF Reject

-----------------------------------------------------------------------------
\* The steps that leave a place of the selection.

CountersTyped ==
    /\ retry \in [Calls -> 0..Retries] /\ attempt \in [Calls -> 0..(Attempts - 1)]
    /\ events \in 0..MaxEvents /\ orphans \subseteq Calls
    /\ view = NoView \/ view \in [key : Keys, version : Nat, uid : Anyone]

LEMMA CountersKept ==
    ASSUME RouterInv, UNCHANGED <<retry, attempt, view, orphans>>,
           UNCHANGED events \/ Adverse
    PROVE  CountersTyped'
<1>1. events \in Nat /\ MaxEvents \in Nat /\ events <= MaxEvents
  BY RouterAssumption DEF RouterInv, CallsTyped
<1>2. events' \in 0..MaxEvents BY <1>1 DEF Adverse
<1> QED BY <1>2 DEF CountersTyped, RouterInv, CallsTyped

\* Places from which a call neither starts nor tries an account.
Neutral == {"started", "looked", "unstuck", "select", "failed", "ending", "panic"}

LEMMA LeaveQuiet ==
    ASSUME RouterInv, NEW c \in Calls, NEW place \in Neutral, Leave(c, place),
           pc[c] \notin Resting, pc[c] \notin Trying, pc[c] = "ending" => place = "ending",
           UNCHANGED <<call, served, key>>, orphans \subseteq orphans', CountersTyped'
    PROVE  Quiet
<1>1. /\ pc' = [pc EXCEPT ![c] = place]
      /\ selection' = [selection EXCEPT ![c] = NoSelection]
      /\ seen' = [seen EXCEPT ![c] = NoAccount] /\ pick' = [pick EXCEPT ![c] = NoAccount]
      /\ sticky' = [sticky EXCEPT ![c] = FALSE]
  BY DEF Leave, Goto
<1>2. CallsTyped BY DEF RouterInv
<1>3. CallsTyped'
  <2>1. NoAccount \in Anyone BY DEF Anyone
  <2>2. NoSelection \in [version : Nat, action : Actions, target : Anyone, baseline : Anyone]
    BY <2>1 DEF NoSelection, Actions
  <2>3. place \in Places BY DEF Neutral, Places
  <2>4. selection' \in [Calls -> [version : Nat, action : Actions,
                                  target : Anyone, baseline : Anyone]]
    BY <1>1, <1>2, <2>2 DEF CallsTyped
  <2>5. pc' \in [Calls -> Places] /\ sticky' \in [Calls -> BOOLEAN]
    BY <1>1, <1>2, <2>3 DEF CallsTyped
  <2>6. {seen', pick', served'} \subseteq [Calls -> Anyone]
    BY <1>1, <1>2, <2>1 DEF CallsTyped
  <2> QED BY <1>2, <2>4, <2>5, <2>6 DEF CallsTyped, CountersTyped
<1>4. ASSUME NEW d \in Calls PROVE QuietCall(d)
  <2>1. CASE d = c
    <3>1. /\ pc'[c] = place /\ selection'[c] = NoSelection /\ served'[c] = served[c]
      BY <1>1, <1>2 DEF CallsTyped
    <3>2. /\ place \notin Resting /\ place \notin Selecting /\ place \notin Picked
          /\ place # "succeeded"
      BY DEF Neutral, Resting, Selecting, Picked
    <3> QED BY <2>1, <3>1, <3>2 DEF QuietCall
  <2>2. CASE d # c BY <2>2, <1>1, <1>2 DEF QuietCall, CallsTyped
  <2> QED BY <2>1, <2>2
<1> QED BY <1>3, <1>4 DEF Quiet

LEMMA GotoQuiet ==
    ASSUME RouterInv, NEW c \in Calls, NEW place \in Places, Goto(c, place),
           UNCHANGED <<selection, pick, sticky>>, seen' \in [Calls -> Anyone],
           \A d \in Calls : d # c => seen'[d] = seen[d],
           pc[c] \notin Resting, pc[c] # "ending", pc[c] \in Trying => place \in Trying,
           place \notin Resting \cup Selecting \cup {"succeeded"},
           place \in Picked => pc[c] \in Picked,
           UNCHANGED <<call, served, key>>, orphans \subseteq orphans', CountersTyped'
    PROVE  Quiet
<1>1. pc' = [pc EXCEPT ![c] = place] BY DEF Goto
<1>2. CallsTyped BY DEF RouterInv
<1>3. CallsTyped'
  <2>1. pc' \in [Calls -> Places] BY <1>1, <1>2 DEF CallsTyped
  <2> QED BY <1>2, <2>1 DEF CallsTyped, CountersTyped
<1>4. ASSUME NEW d \in Calls PROVE QuietCall(d)
  <2>1. CASE d = c
    <3>1. pc'[c] = place BY <1>1, <1>2 DEF CallsTyped
    <3> QED BY <2>1, <3>1 DEF QuietCall
  <2>2. CASE d # c BY <2>2, <1>1, <1>2 DEF QuietCall, CallsTyped
  <2> QED BY <2>1, <2>2
<1> QED BY <1>3, <1>4 DEF Quiet

LEMMA KeyTyped ==
    ASSUME RouterInv, NEW c \in Calls
    PROVE  key[c] \in Keys
BY DEF RouterInv, CallsTyped

LEMMA LookupKeeps ==
    ASSUME RouterInv, NEW c \in Calls, Lookup(c)
    PROVE  RouterInv'
<1> DEFINE stale == key[c] \in expired /\ ~Busy(key[c])
<1>1. CountersTyped' BY CountersKept DEF Lookup
<1>2. seen' \in [Calls -> Anyone] /\ \A d \in Calls : d # c => seen'[d] = seen[d]
  <2>1. (IF stale THEN NoAccount ELSE uid[key[c]]) \in Anyone
    BY KeyTyped DEF RouterInv, RouterTyped, Anyone
  <2> HIDE DEF stale
  <2>2. seen' = [seen EXCEPT ![c] = IF stale THEN NoAccount ELSE uid[key[c]]]
    BY DEF Lookup, stale
  <2>3. seen \in [Calls -> Anyone] BY DEF RouterInv, CallsTyped
  <2> QED BY <2>1, <2>2, <2>3
<1>3. Quiet
  BY <1>1, <1>2, GotoQuiet DEF Lookup, Places, Resting, Selecting, Picked, Trying
<1>4. CASE stale BY <1>3, <1>4, KeyTyped, RemoveKeeps DEF Lookup
<1>5. CASE ~stale BY <1>3, <1>5, SameKeeps DEF Lookup
<1> QED BY <1>4, <1>5

LEMMA UnstickKeeps ==
    ASSUME RouterInv, NEW c \in Calls, Unstick(c)
    PROVE  RouterInv'
<1>1. CountersTyped' BY CountersKept DEF Unstick
<1>2. seen \in [Calls -> Anyone] BY DEF RouterInv, CallsTyped
<1>3. Quiet
  BY <1>1, <1>2, GotoQuiet
  DEF Unstick, choice, Places, Resting, Selecting, Picked, Trying
<1> QED BY <1>3, KeyTyped, ClearKeeps DEF Unstick

LEMMA PickAccountKeeps ==
    ASSUME RouterInv, NEW c \in Calls, PickAccount(c)
    PROVE  RouterInv'
<1>1. CountersTyped' BY CountersKept DEF PickAccount
<1>2. Quiet BY <1>1, LeaveQuiet DEF PickAccount, Neutral, Resting, Trying
<1> QED BY <1>2, KeyTyped, BindKeeps DEF PickAccount

LEMMA NoneLeftKeeps ==
    ASSUME RouterInv, NEW c \in Calls, NoneLeft(c)
    PROVE  RouterInv'
<1>1. CountersTyped' BY CountersKept DEF NoneLeft
<1>2. Quiet BY <1>1, LeaveQuiet DEF NoneLeft, Neutral, Resting, Trying
<1> QED BY <1>2, SameKeeps DEF NoneLeft

LEMMA SelectRejectedKeeps ==
    ASSUME RouterInv, NEW c \in Calls, SelectRejected(c)
    PROVE  RouterInv'
<1>1. CountersTyped' BY CountersKept DEF SelectRejected
<1>2. \E place \in Neutral : Leave(c, place) BY DEF SelectRejected, Neutral
<1>3. Quiet BY <1>1, <1>2, LeaveQuiet DEF SelectRejected, Resting, Trying
<1> QED BY <1>3, KeyTyped, RejectKeeps DEF SelectRejected

LEMMA SelectBusyKeeps ==
    ASSUME RouterInv, NEW c \in Calls, SelectBusy(c)
    PROVE  RouterInv'
<1>1. CountersTyped' BY CountersKept DEF SelectBusy
<1>2. Quiet BY <1>1, LeaveQuiet DEF SelectBusy, Neutral, Resting, Trying
<1> QED BY <1>2, SameKeeps DEF SelectBusy

LEMMA DenyKeeps ==
    ASSUME RouterInv, NEW c \in Calls, Deny(c)
    PROVE  RouterInv'
<1>1. CountersTyped' BY CountersKept DEF Deny
<1>2. Quiet BY <1>1, LeaveQuiet DEF Deny, Neutral, Resting, Trying
<1> QED BY <1>2, KeyTyped, RejectKeeps, SameKeeps DEF Deny

\* A selection that is repeated, or given up after the last repetition.
LEMMA AgainQuiet ==
    ASSUME RouterInv, NEW c \in Calls, Again(c), pc[c] \notin Resting, pc[c] \notin Trying,
           pc[c] # "ending", UNCHANGED <<call, attempt, served, view, key, events, orphans>>
    PROVE  Quiet
<1>1. retry' \in [Calls -> 0..Retries]
  <2>1. retry \in [Calls -> 0..Retries] /\ Retries \in Nat
    BY RouterAssumption DEF RouterInv, CallsTyped
  <2>2. CASE retry[c] < Retries
    <3>1. retry[c] + 1 \in 0..Retries BY <2>1, <2>2
    <3>2. retry' = [retry EXCEPT ![c] = retry[c] + 1] BY <2>2 DEF Again
    <3> QED BY <2>1, <3>1, <3>2
  <2>3. CASE ~(retry[c] < Retries) BY <2>1, <2>3 DEF Again
  <2> QED BY <2>2, <2>3
<1>2. CountersTyped' BY <1>1 DEF CountersTyped, RouterInv, CallsTyped
<1>3. \E place \in Neutral : Leave(c, place) BY DEF Again, Neutral
<1> QED BY <1>2, <1>3, LeaveQuiet

LEMMA RepriceKeeps ==
    ASSUME RouterInv, NEW c \in Calls, Reprice(c)
    PROVE  RouterInv'
<1>1. Quiet BY AgainQuiet DEF Reprice, Resting, Trying
<1> QED BY <1>1, KeyTyped, RejectKeeps DEF Reprice

LEMMA NotCallableKeeps ==
    ASSUME RouterInv, NEW c \in Calls, NotCallable(c)
    PROVE  RouterInv'
<1>1. CountersTyped' BY CountersKept DEF NotCallable
<1>2. Quiet BY <1>1, LeaveQuiet DEF NotCallable, Neutral, Resting, Trying
<1> QED BY <1>2, SameKeeps DEF NotCallable

LEMMA FailKeeps ==
    ASSUME RouterInv, NEW c \in Calls, Fail(c)
    PROVE  RouterInv'
<1>1. CountersTyped' BY CountersKept DEF Fail
<1>2. seen \in [Calls -> Anyone] BY DEF RouterInv, CallsTyped
<1>3. Quiet
  BY <1>1, <1>2, GotoQuiet DEF Fail, choice, Places, Resting, Selecting, Picked, Trying
<1> QED BY <1>3, SameKeeps DEF Fail

LEMMA UnbindKeeps ==
    ASSUME RouterInv, Quiet, NEW k \in Keys, NEW u, UnbindMatching(k, u)
    PROVE  RouterInv'
BY SameKeeps, ClearKeeps DEF UnbindMatching

LEMMA DeniedKeeps ==
    ASSUME RouterInv, NEW c \in Calls, Denied(c)
    PROVE  RouterInv'
<1>1. CountersTyped' BY CountersKept DEF Denied
<1>2. seen \in [Calls -> Anyone] BY DEF RouterInv, CallsTyped
<1>3. Quiet
  BY <1>1, <1>2, GotoQuiet DEF Denied, choice, Places, Resting, Selecting, Picked, Trying
<1> QED BY <1>3, KeyTyped, UnbindKeeps DEF Denied

LEMMA StopKeeps ==
    ASSUME RouterInv, NEW c \in Calls, Stop(c)
    PROVE  RouterInv'
<1>1. CountersTyped' BY CountersKept DEF Stop
<1>2. Quiet BY <1>1, LeaveQuiet DEF Stop, Neutral, Resting, Trying
<1> QED BY <1>2, SameKeeps DEF Stop

\* A next attempt is within the limit.
LEMMA NextAttempt ==
    ASSUME RouterInv, NEW c \in Calls, attempt[c] + 1 < Attempts,
           attempt' = [attempt EXCEPT ![c] = @ + 1], retry' = [retry EXCEPT ![c] = 0],
           UNCHANGED <<view, events, orphans>>
    PROVE  CountersTyped'
<1>1. /\ attempt \in [Calls -> 0..(Attempts - 1)] /\ Attempts \in Nat
      /\ retry \in [Calls -> 0..Retries] /\ Retries \in Nat
  BY RouterAssumption DEF RouterInv, CallsTyped
<1>2. attempt[c] + 1 \in 0..(Attempts - 1) /\ 0 \in 0..Retries BY <1>1
<1>3. attempt' \in [Calls -> 0..(Attempts - 1)] BY <1>1, <1>2
<1>4. retry' \in [Calls -> 0..Retries] BY <1>1, <1>2
<1> QED BY <1>3, <1>4 DEF CountersTyped, RouterInv, CallsTyped

LEMMA AdaptKeeps ==
    ASSUME RouterInv, NEW c \in Calls, Adapt(c)
    PROVE  RouterInv'
<1>1. CountersTyped' BY NextAttempt DEF Adapt
<1>2. Quiet BY <1>1, LeaveQuiet DEF Adapt, Neutral, Resting, Trying
<1> QED BY <1>2, SameKeeps DEF Adapt

LEMMA RotateKeeps ==
    ASSUME RouterInv, NEW c \in Calls, Rotate(c)
    PROVE  RouterInv'
<1>1. CountersTyped'
  <2>1. CASE attempt[c] + 1 < Attempts BY <2>1, NextAttempt DEF Rotate
  <2>2. CASE ~(attempt[c] + 1 < Attempts) BY <2>2, CountersKept DEF Rotate
  <2> QED BY <2>1, <2>2
<1>2. \E place \in Neutral : Leave(c, place) BY DEF Rotate, Neutral
<1>3. Quiet BY <1>1, <1>2, LeaveQuiet DEF Rotate, Resting, Trying
<1> QED BY <1>3, KeyTyped, UnbindKeeps DEF Rotate

-----------------------------------------------------------------------------
\* The steps of a call that keep what the router has numbered.

\* Nothing changes in the state of session k but its counts, its status and
\* what is known of its account.
Still(k) ==
    /\ info'[k].id = info[k].id /\ info'[k].version = info[k].version
    /\ info'[k].pending = info[k].pending /\ info'[k].target = info[k].target
    /\ info'[k].manual = info[k].manual /\ info'[k].epoch = info[k].epoch
    /\ info'[k].last = info[k].last
    /\ info[k].id = 0 => info'[k] = info[k]

OthersStill(c) ==
    /\ \A d \in Calls : d # c =>
         /\ pc'[d] = pc[d] /\ selection'[d] = selection[d] /\ seen'[d] = seen[d]
         /\ pick'[d] = pick[d] /\ sticky'[d] = sticky[d] /\ call'[d] = call[d]
         /\ served'[d] = served[d]
    /\ key' = key /\ orphans' = orphans
    /\ call'[c].id = call[c].id /\ call'[c].control = call[c].control
    /\ call'[c].target = call[c].target

LEMMA StatusStill ==
    ASSUME RouterInv, NEW c \in Calls, OthersStill(c), NEW k \in Keys, Still(k),
           info'[k].status = info[k].status,
           pc[c] \in Trying => pc'[c] \in Trying,
           pc[c] \in {"ending", "gone"} =>
             pc'[c] \in {"ending", "gone"} /\ served'[c] = served[c]
    PROVE  StatusFits(k)'
<1>1. StatusFits(k) BY DEF RouterInv
<1>2. \A d \in Calls : Consumed(d, k)' = Consumed(d, k)
  BY DEF Consumed, OthersStill, Still
<1>3. \A d \in Calls : Consumed(d, k) => Owns(d)' = Owns(d)
  BY DEF Consumed, Owns, OthersStill, Still
<1>4. \A d \in Calls : /\ pc[d] \in Trying => pc'[d] \in Trying
                       /\ pc[d] \in {"ending", "gone"} =>
                            pc'[d] \in {"ending", "gone"} /\ served'[d] = served[d]
                       /\ call'[d].target = call[d].target
  BY DEF OthersStill
<1> QED BY <1>1, <1>2, <1>3, <1>4, ZenonT(30) DEF StatusFits, Still

LEMMA OneCallKeeps ==
    ASSUME RouterInv, NEW c \in Calls, OthersStill(c), \A k \in Keys : Still(k),
           UNCHANGED <<order, uid, sequence>>, expired' \subseteq expired,
           info' \in [Keys -> States], CallsTyped', CompatFollowsBinding',
           selection'[c].version <= sequence, PlaceFits(c)', SelectionFits(c)',
           \A k \in Keys : StatusFits(k)', Counts',
           pc[c] \in Resting => pc'[c] \in Resting \/ call[c].id = 0
    PROVE  RouterInv'
<1>0. RouterTyped /\ CallsTyped /\ OrderTyped BY InvParts
<1>1. RouterTyped' /\ OrderTyped' /\ EntriesHeld'
  <2>1. OrderTyped' BY <1>0 DEF OrderTyped, Ordered, Entries
  <2>2. EntriesHeld' BY DEF RouterInv, EntriesHeld, Entries, Still
  <2> QED BY <1>0, <2>1, <2>2 DEF RouterTyped, OrderTyped, Entries
<1>2. Numbered'
  <2>1. \A k \in Keys : /\ info'[k].id <= sequence' /\ info'[k].id <= info'[k].version
                        /\ info'[k].version <= sequence' /\ info'[k].epoch <= sequence'
    BY DEF RouterInv, Numbered, Still
  <2>2. \A i, j \in Keys : info'[i].epoch = info'[j].epoch => info'[i].epoch = 0 \/ i = j
    BY DEF RouterInv, Numbered, Still
  <2>3. \A d \in Calls : /\ call'[d].id <= sequence' /\ call'[d].control <= sequence'
                         /\ selection'[d].version <= sequence'
    BY DEF RouterInv, Numbered, OthersStill
  <2> QED BY <2>1, <2>2, <2>3 DEF Numbered
<1>3. Bindings' BY DEF RouterInv, Bindings, Still
<1>4. Controls'
  <2>1. \A d \in Calls : call'[d].control = call[d].control BY DEF OthersStill
  <2>2. \A k \in Keys : /\ info'[k].pending = info[k].pending
                        /\ info'[k].target = info[k].target /\ info'[k].epoch = info[k].epoch
    BY DEF Still
  <2>3. Controls BY DEF RouterInv
  <2>4. \A k \in Keys : info'[k].pending # "" =>
          info'[k].epoch # 0 /\ \A d \in Calls : call'[d].control # info'[k].epoch
    BY <2>1, <2>2, <2>3, ZenonT(30) DEF Controls
  <2>5. \A k \in Keys : info'[k].pending = "switch" => info'[k].target # NoAccount
    BY <2>2, <2>3 DEF Controls
  <2>6. \A d, e \in Calls : call'[d].control = call'[e].control =>
          call'[d].control = 0 \/ d = e
    BY <2>1, <2>3 DEF Controls
  <2> QED BY <2>4, <2>5, <2>6 DEF Controls
<1>5. ASSUME NEW d \in Calls PROVE PlaceFits(d)' /\ SelectionFits(d)'
  <2>1. CASE d = c BY <2>1
  <2>2. CASE d # c
    <3>1. PlaceFits(d)' BY <2>2 DEF PlaceFits, RouterInv, OthersStill
    <3>2. key[d] \in Keys BY KeyTyped
    <3>3. Fits(d)' = Fits(d) BY <2>2, <3>2, ZenonT(30) DEF Fits, OthersStill, Still
    <3>4. SelectionFits(d)'
      BY <2>2, <3>2, <3>3 DEF SelectionFits, Current, RouterInv, OthersStill, Still
    <3> QED BY <3>1, <3>4
  <2> QED BY <2>1, <2>2
<1>6. LiveKept'
  <2>1. \A d \in Live' : d \in Live \/ call[d].id = 0
    BY DEF Live, OthersStill, Resting
  <2>2. \A d \in Calls : Owns(d)' = Owns(d) BY KeyTyped DEF Owns, OthersStill, Still
  <2>3. \A d \in Calls : call'[d].id = call[d].id BY DEF OthersStill
  <2> QED BY <2>1, <2>2, <2>3 DEF RouterInv, LiveKept, OthersStill, Live
<1> QED BY <1>1, <1>2, <1>3, <1>4, <1>5, <1>6 DEF RouterInv, OrderTyped

\* The counts move when a call moves, and no others.
LEMMA PhaseCounts ==
    ASSUME RouterInv, NEW c \in Live, Live' = Live, key' = key, NEW b \in BOOLEAN,
           Phase(c, b)
    PROVE  /\ Counts' /\ info' \in [Keys -> States] /\ \A k \in Keys : Still(k)
           /\ \A k \in Keys : /\ info'[k].status = info[k].status
                              /\ info'[k].compat = info[k].compat
           /\ call' \in [Calls -> [id : Nat, running : BOOLEAN,
                                   control : Nat, target : Anyone]]
           /\ \A d \in Calls : d # c => call'[d] = call[d]
           /\ call'[c].id = call[c].id /\ call'[c].control = call[c].control
           /\ call'[c].target = call[c].target
<1>0. /\ RouterTyped /\ CallsTyped /\ c \in Calls /\ key[c] \in Keys
  BY InvParts, KeyTyped DEF Live
<1>1. CASE UNCHANGED <<call, info>>
  <2>1. \A k \in Keys : Still(k) BY <1>1 DEF Still
  <2>2. \A k \in Keys : Running(k)' = Running(k) /\ Waiting(k)' = Waiting(k)
    BY <1>1 DEF Running, Waiting, Owns
  <2>3. Counts' BY <1>1, <2>2 DEF Counts, RouterInv
  <2> QED BY <1>0, <1>1, <2>1, <2>3 DEF RouterTyped, CallsTyped
<1>2. CASE Owns(c) /\ call[c].running # b /\ ~UNCHANGED <<call, info>>
  <2>k. PICK k \in Keys : k = key[c] BY <1>0
  <2>1. /\ call' = [call EXCEPT ![c].running = b]
        /\ info' = [info EXCEPT ![k] = Moved(@, b)]
    BY <1>2, <2>k DEF Phase
  <2>0. k = key[c] /\ k \in Keys /\ info[k] \in States /\ info[k].id # 0
        /\ call[c].running \in BOOLEAN /\ call[c].running = ~b
    BY <1>0, <1>2, <2>k DEF RouterTyped, Owns, CallsTyped
  <2>2. /\ call' \in [Calls -> [id : Nat, running : BOOLEAN,
                                control : Nat, target : Anyone]]
        /\ \A d \in Calls : d # c => call'[d] = call[d]
        /\ call'[c].id = call[c].id /\ call'[c].control = call[c].control
        /\ call'[c].target = call[c].target /\ call'[c].running = b
    BY <1>0, <2>1, ZenonT(30) DEF CallsTyped
  <2>3. /\ info'[k] = Moved(info[k], b)
        /\ \A j \in Keys : j # k => info'[j] = info[j]
    <3> DEFINE row == Moved(info[k], b)
    <3>1. info' = [info EXCEPT ![k] = row] BY <2>1
    <3> HIDE DEF row
    <3>2. info'[k] = row /\ \A j \in Keys : j # k => info'[j] = info[j]
      BY <1>0, <2>0, <3>1 DEF RouterTyped
    <3> QED BY <3>2 DEF row
  <2>4. IF b THEN c \in Waiting(k) /\ c \notin Running(k)
             ELSE c \in Running(k) /\ c \notin Waiting(k)
    BY <1>2, <2>0 DEF Running, Waiting
  <2>5. /\ info[k].running = Cardinality(Running(k))
        /\ info[k].waiting = Cardinality(Waiting(k))
    BY <2>0 DEF RouterInv, Counts
  <2>7. IF b THEN info[k].waiting > 0 ELSE info[k].running > 0
    BY <2>4, <2>5, CountedTyped, CountedFinite
  <2>8. /\ info'[k] \in States
        /\ info'[k].running = IF b THEN info[k].running + 1 ELSE info[k].running - 1
        /\ info'[k].waiting = IF b THEN info[k].waiting - 1 ELSE info[k].waiting + 1
        /\ info'[k].id = info[k].id /\ info'[k].version = info[k].version
        /\ info'[k].pending = info[k].pending /\ info'[k].target = info[k].target
        /\ info'[k].epoch = info[k].epoch /\ info'[k].last = info[k].last
        /\ info'[k].status = info[k].status /\ info'[k].manual = info[k].manual
        /\ info'[k].compat = info[k].compat
    BY <2>0, <2>3, <2>7, MovedRow
  <2>9. \A j \in Keys : Still(j) /\ info'[j].status = info[j].status
                                 /\ info'[j].compat = info[j].compat
    BY <2>0, <2>3, <2>8 DEF Still
  <2>10. info' \in [Keys -> States] BY <1>0, <2>1, <2>3, <2>8 DEF RouterTyped
  <2>11. \A d \in Calls : Owns(d)' = Owns(d)
    BY <2>2, <2>9, KeyTyped DEF Owns, Still
  <2>a. Live \subseteq Calls BY DEF Live
  <2>12. \A j \in Keys : j # k => Running(j)' = Running(j) /\ Waiting(j)' = Waiting(j)
    BY <2>0, <2>2, <2>11, <2>a DEF Running, Waiting
  <2>13. IF b THEN Running(k)' = Running(k) \cup {c} /\ Waiting(k)' = Waiting(k) \ {c}
              ELSE Running(k)' = Running(k) \ {c} /\ Waiting(k)' = Waiting(k) \cup {c}
    <3>1. \A d \in Live : /\ d # c => call'[d].running = call[d].running
                          /\ call'[c].running = b /\ Owns(d)' = Owns(d)
      BY <2>2, <2>11, <2>a
    <3>2. Owns(c) /\ key[c] = k /\ key' = key /\ Live' = Live BY <1>2, <2>0
    <3>5. /\ Running(k) \subseteq Live /\ Waiting(k) \subseteq Live
          /\ Running(k)' \subseteq Live /\ Waiting(k)' \subseteq Live
      BY <3>2 DEF Running, Waiting
    <3>3. CASE b
      <4>1. \A d \in Live : /\ d \in Running(k)' <=> d \in Running(k) \/ d = c
                            /\ d \in Waiting(k)' <=> d \in Waiting(k) /\ d # c
        BY <2>0, <3>1, <3>2, <3>3 DEF Running, Waiting
      <4>2. Running(k)' = Running(k) \cup {c} /\ Waiting(k)' = Waiting(k) \ {c}
        BY <3>5, <4>1
      <4> QED BY <4>2, <3>3
    <3>4. CASE ~b
      <4>1. \A d \in Live : /\ d \in Waiting(k)' <=> d \in Waiting(k) \/ d = c
                            /\ d \in Running(k)' <=> d \in Running(k) /\ d # c
        BY <2>0, <3>1, <3>2, <3>4 DEF Running, Waiting
      <4>2. Waiting(k)' = Waiting(k) \cup {c} /\ Running(k)' = Running(k) \ {c}
        BY <3>5, <4>1
      <4> QED BY <4>2, <3>4
    <3> QED BY <3>3, <3>4
  <2>14. /\ info'[k].running = Cardinality(Running(k)')
         /\ info'[k].waiting = Cardinality(Waiting(k)')
    BY <2>4, <2>5, <2>8, <2>13, CountedTyped, CountedMore, CountedLess
  <2>15. Counts'
    <3>1. ASSUME NEW j \in Keys, j # k, info'[j].id # 0
          PROVE  /\ info'[j].running = Cardinality(Running(j)')
                 /\ info'[j].waiting = Cardinality(Waiting(j)')
      BY <3>1, <2>3, <2>12 DEF RouterInv, Counts
    <3>2. ASSUME NEW j \in Keys, info'[j].id # 0
          PROVE  /\ info'[j].running = Cardinality(Running(j)')
                 /\ info'[j].waiting = Cardinality(Waiting(j)')
      <4>1. CASE j = k BY <4>1, <2>14 DEF Running, Waiting
      <4>2. CASE j # k BY <4>2, <3>1, <3>2
      <4> QED BY <4>1, <4>2
    <3> QED BY <3>2 DEF Counts
  <2> QED BY <2>2, <2>9, <2>10, <2>15
<1> QED BY <1>1, <1>2 DEF Phase

LEMMA RouteKeeps ==
    ASSUME RouterInv, NEW c \in Calls, Route(c)
    PROVE  RouterInv'
<1>k. PICK k \in Keys : k = key[c] BY KeyTyped
<1>0. RouterTyped /\ CallsTyped BY InvParts
<1> DEFINE chosen == [version |-> info[k].version, action |-> info[k].pending,
                      target |-> info[k].target,
                      baseline |-> IF info[k].id = 0 THEN uid[k] ELSE info[k].last]
<1>1. /\ pc[c] \in {"select", "looked"} /\ Phase(c, FALSE) /\ pc' = [pc EXCEPT ![c] = "routed"]
      /\ seen' = [seen EXCEPT ![c] = uid[k]] /\ selection' = [selection EXCEPT ![c] = chosen]
      /\ UNCHANGED <<order, uid, sequence, expired, pick, sticky, retry, attempt,
                     served, view, key, events, orphans>>
  BY <1>k DEF Route, Goto
<1>2. /\ chosen \in [version : Nat, action : Actions, target : Anyone, baseline : Anyone]
      /\ chosen.version = info[k].version /\ chosen.action = info[k].pending
      /\ chosen.target = info[k].target
      /\ info[k].id # 0 => chosen.baseline = info[k].last
  BY <1>0 DEF RouterTyped, States
<1> HIDE DEF chosen
<1>3. /\ pc'[c] = "routed" /\ seen'[c] = uid[k] /\ selection'[c] = chosen
      /\ \A d \in Calls : d # c => /\ pc'[d] = pc[d] /\ seen'[d] = seen[d]
                                   /\ selection'[d] = selection[d]
  BY <1>0, <1>1 DEF CallsTyped
<1>4. c \in Live /\ Live' = Live BY <1>1, <1>3 DEF Live
<1>5. /\ Counts' /\ info' \in [Keys -> States] /\ \A j \in Keys : Still(j)
      /\ \A j \in Keys : /\ info'[j].status = info[j].status
                         /\ info'[j].compat = info[j].compat
      /\ call' \in [Calls -> [id : Nat, running : BOOLEAN, control : Nat, target : Anyone]]
      /\ \A d \in Calls : d # c => call'[d] = call[d]
      /\ call'[c].id = call[c].id /\ call'[c].control = call[c].control
      /\ call'[c].target = call[c].target
  BY <1>1, <1>4, PhaseCounts
<1>6. CallsTyped'
  <2>1. seen' \in [Calls -> Anyone] BY <1>0, <1>1 DEF RouterTyped, CallsTyped
  <2>2. selection' \in [Calls -> [version : Nat, action : Actions,
                                  target : Anyone, baseline : Anyone]]
    BY <1>0, <1>1, <1>2 DEF CallsTyped
  <2>3. pc' \in [Calls -> Places] BY <1>0, <1>1 DEF CallsTyped, Places
  <2> QED BY <1>0, <1>1, <1>5, <2>1, <2>2, <2>3 DEF CallsTyped
<1>7. OthersStill(c) BY <1>1, <1>3, <1>5 DEF OthersStill
<1>8. PlaceFits(c)'
  <2>1. info[k].pending = "switch" => info[k].target # NoAccount
    BY DEF RouterInv, Controls
  <2> QED BY <1>2, <1>3, <2>1 DEF PlaceFits, Picked
<1>9. SelectionFits(c)'
  <2>1. Still(k) BY <1>5
  <2> QED BY <1>1, <1>2, <1>3, <1>k, <2>1 DEF SelectionFits, Fits, Still
<1>10. ASSUME NEW j \in Keys PROVE StatusFits(j)'
  BY <1>1, <1>3, <1>5, <1>7, StatusStill DEF Trying
<1>11. selection'[c].version <= sequence BY <1>2, <1>3 DEF RouterInv, Numbered
<1>12. CompatFollowsBinding' BY <1>1, <1>5 DEF CompatFollowsBinding, RouterInv, Bindings
<1> QED BY <1>1, <1>3, <1>5, <1>6, <1>7, <1>8, <1>9, <1>10, <1>11, <1>12, OneCallKeeps
  DEF Resting

\* The steps that only choose an account.
LEMMA ChosenKeeps ==
    ASSUME RouterInv, NEW c \in Calls, NEW u \in Accounts, NEW ready \in BOOLEAN,
           Chosen(c, u, ready), pc[c] = "routed", CountersTyped',
           UNCHANGED <<router, call, seen, served, key, orphans>>,
           selection' \in [Calls -> [version : Nat, action : Actions,
                                     target : Anyone, baseline : Anyone]],
           \A d \in Calls : d # c => selection'[d] = selection[d],
           selection'[c].version = selection[c].version,
           selection'[c].action = selection[c].action,
           selection'[c].baseline = selection[c].baseline,
           selection[c].action = "switch" =>
             u = selection[c].target /\ selection'[c].target = u,
           selection[c].action = "reselect" => u # selection[c].baseline,
           selection[c].action = "" /\ ready => u = seen[c] \/ Migrates(c)
    PROVE  RouterInv'
<1>k. PICK k \in Keys : k = key[c] BY KeyTyped
<1>0. RouterTyped /\ CallsTyped /\ PlaceFits(c) /\ SelectionFits(c)
  BY InvParts DEF RouterInv
<1>1. /\ pick' = [pick EXCEPT ![c] = u] /\ sticky' = [sticky EXCEPT ![c] = ready]
      /\ pc' = [pc EXCEPT ![c] = "bound"]
  BY DEF Chosen, Goto
<1>2. /\ pc'[c] = "bound" /\ pick'[c] = u /\ sticky'[c] = ready
      /\ \A d \in Calls : d # c => /\ pc'[d] = pc[d] /\ pick'[d] = pick[d]
                                   /\ sticky'[d] = sticky[d]
  BY <1>0, <1>1 DEF CallsTyped
<1>3. CallsTyped'
  <2>1. pick' \in [Calls -> Anyone] BY <1>0, <1>1 DEF CallsTyped, Anyone
  <2>2. sticky' \in [Calls -> BOOLEAN] BY <1>0, <1>1 DEF CallsTyped
  <2>3. pc' \in [Calls -> Places] BY <1>0, <1>1 DEF CallsTyped, Places
  <2> QED BY <1>0, <2>1, <2>2, <2>3 DEF CallsTyped, CountersTyped
<1>4. OthersStill(c) BY <1>2 DEF OthersStill
<1>5. \A j \in Keys : Still(j) BY DEF Still, router
<1>6. Live' = Live BY <1>2 DEF Live
<1>7. Counts'
  <2>1. \A j \in Keys : Running(j)' = Running(j) /\ Waiting(j)' = Waiting(j)
    BY <1>6 DEF Running, Waiting, Owns, router
  <2> QED BY <2>1 DEF Counts, RouterInv, router
<1>8. PlaceFits(c)'
  <2>1. u # NoAccount BY RouterAssumption
  <2> QED BY <1>0, <1>2, <2>1 DEF PlaceFits
<1>9. SelectionFits(c)'
  <2> SUFFICES ASSUME info[k].id # 0, info[k].version = selection[c].version
               PROVE  Fits(c)'
    BY <1>2, <1>k DEF SelectionFits, Current, router
  <2>1. Fits(c) BY <1>0, <1>k DEF SelectionFits, Current, Selecting
  <2>2. selection[c].action = "switch" => /\ u = info[k].target
                                          /\ selection'[c].target = info[k].target
    BY <2>1, <1>k DEF Fits
  <2>3. selection[c].action = "reselect" => u # info[k].last BY <2>1, <1>k DEF Fits
  <2>4. selection[c].action = "" /\ ready => u = seen[c] \/ info[k].manual # seen[c]
    BY <1>k DEF Migrates
  <2> QED BY <1>2, <1>k, <2>1, <2>2, <2>3, <2>4 DEF Fits, router
<1>10. ASSUME NEW j \in Keys PROVE StatusFits(j)'
  BY <1>2, <1>4, <1>5, StatusStill DEF Trying, router
<1>11. selection'[c].version <= sequence BY DEF RouterInv, Numbered
<1>12. CompatFollowsBinding' BY DEF CompatFollowsBinding, RouterInv, Bindings, router
<1>13. info' \in [Keys -> States] BY <1>0 DEF RouterTyped, router
<1> QED BY <1>3, <1>4, <1>5, <1>7, <1>8, <1>9, <1>10, <1>11, <1>12, <1>13, OneCallKeeps
  DEF Resting, router

LEMMA SelectAccountKeeps ==
    ASSUME RouterInv, NEW c \in Calls, SelectAccount(c)
    PROVE  RouterInv'
<1>0. CallsTyped BY InvParts
<1>1. CountersTyped' BY CountersKept DEF SelectAccount
<1>2. PICK u \in Anyone, ready \in BOOLEAN :
        /\ Chosen(c, u, ready) /\ u # NoAccount
        /\ ready => u = seen[c] \/ Migrates(c)
  <2>1. seen[c] \in Anyone BY <1>0 DEF CallsTyped
  <2>2. Accounts \subseteq Anyone /\ NoAccount \notin Accounts
    BY RouterAssumption DEF Anyone
  <2> QED BY <2>1, <2>2 DEF SelectAccount
<1>3. u \in Accounts BY <1>2 DEF Anyone
<1>4. /\ pc[c] = "routed" /\ selection[c].action = ""
      /\ UNCHANGED <<router, call, selection, seen, served, key, orphans>>
  BY DEF SelectAccount
<1>5. selection' \in [Calls -> [version : Nat, action : Actions,
                                target : Anyone, baseline : Anyone]]
  BY <1>0, <1>4 DEF CallsTyped
<1> QED BY <1>1, <1>2, <1>3, <1>4, <1>5, ChosenKeeps

LEMMA SelectControlledKeeps ==
    ASSUME RouterInv, NEW c \in Calls, SelectControlled(c)
    PROVE  RouterInv'
<1>0. CallsTyped /\ PlaceFits(c) BY InvParts DEF RouterInv
<1>1. CountersTyped' BY CountersKept DEF SelectControlled
<1>2. /\ pc[c] = "routed"
      /\ UNCHANGED <<router, call, seen, served, key, orphans>>
  BY DEF SelectControlled
<1>3. CASE /\ selection[c].action = "switch" /\ Chosen(c, selection[c].target, TRUE)
           /\ UNCHANGED selection
  <2>1. selection[c].target \in Accounts
    BY <1>0, <1>3 DEF CallsTyped, PlaceFits, Anyone
  <2>2. selection' \in [Calls -> [version : Nat, action : Actions,
                                  target : Anyone, baseline : Anyone]]
    BY <1>0, <1>3 DEF CallsTyped
  <2> QED BY <1>1, <1>2, <1>3, <2>1, <2>2, ChosenKeeps
<1>4. ASSUME selection[c].action = "reselect",
             NEW u \in Accounts \ {selection[c].baseline}, Chosen(c, u, TRUE),
             selection' = [selection EXCEPT ![c].target = u]
      PROVE  RouterInv'
  <2>1. /\ selection' \in [Calls -> [version : Nat, action : Actions,
                                     target : Anyone, baseline : Anyone]]
        /\ \A d \in Calls : d # c => selection'[d] = selection[d]
        /\ selection'[c].version = selection[c].version
        /\ selection'[c].action = selection[c].action
        /\ selection'[c].baseline = selection[c].baseline
    <3> DEFINE row == [selection[c] EXCEPT !.target = u]
    <3>1. selection[c] \in [version : Nat, action : Actions,
                            target : Anyone, baseline : Anyone]
      BY <1>0 DEF CallsTyped
    <3>2. /\ row \in [version : Nat, action : Actions, target : Anyone, baseline : Anyone]
          /\ row.version = selection[c].version /\ row.action = selection[c].action
          /\ row.baseline = selection[c].baseline
      BY <3>1 DEF Anyone
    <3>3. selection' = [selection EXCEPT ![c] = row] BY <1>4
    <3> HIDE DEF row
    <3> QED BY <1>0, <3>2, <3>3 DEF CallsTyped
  <2> QED BY <1>1, <1>2, <1>4, <2>1, ChosenKeeps
<1> QED BY <1>3, <1>4 DEF SelectControlled

LEMMA RunKeeps ==
    ASSUME RouterInv, NEW c \in Calls, Run(c)
    PROVE  RouterInv'
<1>0. RouterTyped /\ CallsTyped /\ PlaceFits(c) BY InvParts DEF RouterInv
<1>1. /\ pc[c] = "committed" /\ Phase(c, TRUE) /\ pc' = [pc EXCEPT ![c] = "running"]
      /\ UNCHANGED <<order, uid, sequence, expired, selection, seen, pick, sticky, retry,
                     attempt, served, view, key, events, orphans>>
  BY DEF Run, Goto, choice
<1>2. pc'[c] = "running" /\ \A d \in Calls : d # c => pc'[d] = pc[d]
  BY <1>0, <1>1 DEF CallsTyped
<1>3. c \in Live /\ Live' = Live BY <1>1, <1>2 DEF Live
<1>4. /\ Counts' /\ info' \in [Keys -> States] /\ \A j \in Keys : Still(j)
      /\ \A j \in Keys : /\ info'[j].status = info[j].status
                         /\ info'[j].compat = info[j].compat
      /\ call' \in [Calls -> [id : Nat, running : BOOLEAN, control : Nat, target : Anyone]]
      /\ \A d \in Calls : d # c => call'[d] = call[d]
      /\ call'[c].id = call[c].id /\ call'[c].control = call[c].control
      /\ call'[c].target = call[c].target
  BY <1>1, <1>3, PhaseCounts
<1>5. CallsTyped'
  <2>1. pc' \in [Calls -> Places] BY <1>0, <1>1 DEF CallsTyped, Places
  <2> QED BY <1>0, <1>1, <1>4, <2>1 DEF CallsTyped
<1>6. OthersStill(c) BY <1>1, <1>2, <1>4 DEF OthersStill
<1>7. PlaceFits(c)' BY <1>0, <1>1, <1>2 DEF PlaceFits, Picked
<1>8. SelectionFits(c)' BY <1>2 DEF SelectionFits, Selecting
<1>9. ASSUME NEW j \in Keys PROVE StatusFits(j)'
  BY <1>1, <1>2, <1>4, <1>6, StatusStill DEF Trying
<1>10. selection'[c].version <= sequence BY <1>1 DEF RouterInv, Numbered
<1>11. CompatFollowsBinding' BY <1>1, <1>4 DEF CompatFollowsBinding, RouterInv, Bindings
<1> QED BY <1>1, <1>2, <1>4, <1>5, <1>6, <1>7, <1>8, <1>9, <1>10, <1>11, OneCallKeeps
  DEF Resting

\* A call that changes nothing of the router but the status of its session and
\* what is known of an account, and stays in the selection's counts.
LEMMA TriedKeeps ==
    ASSUME RouterInv, NEW c \in Calls, NEW place \in Places, Goto(c, place),
           pc[c] \in {"running"} \cup Trying, place \notin Resting \cup Selecting,
           UNCHANGED <<order, uid, sequence, expired, call, key, orphans>>,
           info' \in [Keys -> States], \A k \in Keys : Still(k),
           \A k \in Keys : info'[k].running = info[k].running
                           /\ info'[k].waiting = info[k].waiting,
           CompatFollowsBinding', \A k \in Keys : StatusFits(k)',
           CallsTyped', PlaceFits(c)', selection'[c] \in {selection[c], NoSelection},
           \A d \in Calls : d # c =>
             /\ selection'[d] = selection[d] /\ seen'[d] = seen[d]
             /\ pick'[d] = pick[d] /\ sticky'[d] = sticky[d] /\ served'[d] = served[d]
    PROVE  RouterInv'
<1>0. RouterTyped /\ CallsTyped BY InvParts
<1>1. pc'[c] = place /\ \A d \in Calls : d # c => pc'[d] = pc[d]
  BY <1>0 DEF CallsTyped, Goto
<1>2. OthersStill(c) BY <1>1 DEF OthersStill
<1>3. Live' = Live BY <1>1 DEF Live, Resting, Trying
<1>4. Counts'
  <2>1. ASSUME NEW j \in Keys
        PROVE  Running(j)' = Running(j) /\ Waiting(j)' = Waiting(j)
    <3>1. \A d \in Live : Owns(d)' = Owns(d) BY KeyTyped DEF Owns, Still, Live
    <3> QED BY <1>3, <3>1 DEF Running, Waiting
  <2>2. \A j \in Keys : info'[j].id = info[j].id BY DEF Still
  <2> QED BY <2>1, <2>2 DEF Counts, RouterInv
<1>5. SelectionFits(c)' BY <1>1 DEF SelectionFits
<1>6. selection'[c].version <= sequence
  <2>1. NoSelection.version = 0 BY DEF NoSelection
  <2>2. 0 <= sequence BY <1>0 DEF RouterTyped
  <2>3. selection[c].version <= sequence BY DEF RouterInv, Numbered
  <2> QED BY <2>1, <2>2, <2>3
<1>7. expired' \subseteq expired OBVIOUS
<1>8. pc[c] \notin Resting BY DEF Resting, Trying
<1> QED BY <1>2, <1>4, <1>5, <1>6, <1>7, <1>8, OneCallKeeps

\* The call that reports is the one that consumed the last control, which is
\* no longer pending.
LEMMA ReporterConsumed ==
    ASSUME RouterInv, NEW c \in Calls, Reports(c)
    PROVE  Consumed(c, key[c]) /\ Owns(c) /\ info[key[c]].pending = ""
                               /\ info[key[c]].id # 0
BY KeyTyped DEF Reports, Consumed, Owns, RouterInv, Controls

\* A status that the call of a session has changed.
LEMMA RestatedRow ==
    ASSUME RouterInv, NEW k \in Keys, NEW t \in Statuses, info[k].id # 0,
           info' = [info EXCEPT ![k].status = t]
    PROVE  /\ info' \in [Keys -> States] /\ info'[k].status = t
           /\ \A j \in Keys : /\ Still(j) /\ info'[j].running = info[j].running
                              /\ info'[j].waiting = info[j].waiting
                              /\ info'[j].compat = info[j].compat
           /\ \A j \in Keys : j # k => info'[j] = info[j]
<1> DEFINE row == [info[k] EXCEPT !.status = t]
<1>0. info \in [Keys -> States] BY DEF RouterInv, RouterTyped
<1>1. /\ row \in States /\ row.status = t /\ row.id = info[k].id
      /\ row.version = info[k].version /\ row.running = info[k].running
      /\ row.waiting = info[k].waiting /\ row.pending = info[k].pending
      /\ row.target = info[k].target /\ row.manual = info[k].manual
      /\ row.epoch = info[k].epoch /\ row.last = info[k].last /\ row.compat = info[k].compat
  BY <1>0 DEF States
<1>2. info' = [info EXCEPT ![k] = row] OBVIOUS
<1> HIDE DEF row
<1>3. info'[k] = row /\ \A j \in Keys : j # k => info'[j] = info[j] BY <1>0, <1>2
<1>4. info' \in [Keys -> States] BY <1>0, <1>1, <1>2
<1> QED BY <1>1, <1>3, <1>4 DEF Still

LEMMA AttemptKeeps ==
    ASSUME RouterInv, NEW c \in Calls, Attempt(c)
    PROVE  RouterInv'
<1>k. PICK k \in Keys : k = key[c] BY KeyTyped
<1>0. RouterTyped /\ CallsTyped /\ PlaceFits(c) BY InvParts DEF RouterInv
<1>1. /\ pc[c] = "running" /\ Goto(c, "attempting")
      /\ UNCHANGED <<order, uid, sequence, expired, call, selection, seen, pick, sticky,
                     retry, attempt, served, view, key, events, orphans>>
  BY DEF Attempt, choice
<1>2. pc'[c] = "attempting" /\ \A d \in Calls : d # c => pc'[d] = pc[d]
  BY <1>0, <1>1 DEF CallsTyped, Goto
<1>3. CallsTyped'
  <2>1. pc' \in [Calls -> Places] BY <1>0, <1>1 DEF CallsTyped, Places, Goto
  <2> QED BY <1>0, <1>1, <2>1 DEF CallsTyped
<1>4. PlaceFits(c)' BY <1>0, <1>1, <1>2 DEF PlaceFits, Picked
<1>5. OthersStill(c) BY <1>1, <1>2 DEF OthersStill
<1>6. CASE ~Reports(c)
  <2>1. info' = info BY <1>6 DEF Attempt
  <2>2. \A j \in Keys : Still(j) BY <2>1 DEF Still
  <2>3. \A j \in Keys : StatusFits(j)'
    BY <1>1, <1>2, <1>5, <2>1, <2>2, StatusStill DEF Trying
  <2>4. CompatFollowsBinding' BY <1>1, <2>1 DEF RouterInv, Bindings, CompatFollowsBinding
  <2>5. info' \in [Keys -> States] BY <1>0, <2>1 DEF RouterTyped
  <2> QED BY <1>1, <1>3, <1>4, <2>1, <2>2, <2>3, <2>4, <2>5, TriedKeeps
      DEF Places, Resting, Selecting
<1>7. CASE Reports(c)
  <2>1. info' = [info EXCEPT ![k].status = "executing"] BY <1>7, <1>k DEF Attempt
  <2>2. /\ info[k].id # 0 /\ info[k].pending = "" /\ Consumed(c, k) /\ Owns(c)
    BY <1>7, <1>k, ReporterConsumed
  <2>3. "executing" \in Statuses BY DEF Statuses
  <2>4. /\ info' \in [Keys -> States] /\ info'[k].status = "executing"
        /\ \A j \in Keys : /\ Still(j) /\ info'[j].running = info[j].running
                           /\ info'[j].waiting = info[j].waiting
                           /\ info'[j].compat = info[j].compat
        /\ \A j \in Keys : j # k => info'[j] = info[j]
    BY <2>1, <2>2, <2>3, RestatedRow
  <2>5. Consumed(c, k)' /\ Owns(c)' BY <1>1, <1>k, <2>2, <2>4 DEF Consumed, Owns, Still
  <2>6. ASSUME NEW j \in Keys PROVE StatusFits(j)'
    <3>1. CASE j = k
      <4>1. info'[k].pending = "" BY <2>2, <2>4 DEF Still
      <4> QED BY <3>1, <4>1, <1>2, <2>4, <2>5 DEF StatusFits, Trying
    <3>2. CASE j # k BY <3>2, <1>1, <1>2, <1>5, <2>4, StatusStill DEF Trying
    <3> QED BY <3>1, <3>2
  <2>7. CompatFollowsBinding' BY <1>1, <2>4 DEF RouterInv, Bindings, CompatFollowsBinding
  <2> QED BY <1>1, <1>3, <1>4, <2>4, <2>6, <2>7, TriedKeeps DEF Places, Resting, Selecting
<1> QED BY <1>6, <1>7

LEMMA SucceedKeeps ==
    ASSUME RouterInv, NEW c \in Calls, Succeed(c)
    PROVE  RouterInv'
<1>k. PICK k \in Keys : k = key[c] BY KeyTyped
<1>0. RouterTyped /\ CallsTyped /\ PlaceFits(c) BY InvParts DEF RouterInv
<1>1. /\ pc[c] = "attempting" /\ Goto(c, "succeeded")
      /\ served' = [served EXCEPT ![c] = pick[c]]
      /\ UNCHANGED <<order, uid, sequence, expired, call, selection, seen, pick, sticky,
                     retry, attempt, view, key, events, orphans>>
  BY DEF Succeed, choice
<1>2. /\ pc'[c] = "succeeded" /\ served'[c] = pick[c]
      /\ \A d \in Calls : d # c => pc'[d] = pc[d] /\ served'[d] = served[d]
  BY <1>0, <1>1 DEF CallsTyped, Goto
<1>3. CallsTyped'
  <2>1. pc' \in [Calls -> Places] BY <1>0, <1>1 DEF CallsTyped, Places, Goto
  <2>2. served' \in [Calls -> Anyone] BY <1>0, <1>1 DEF CallsTyped
  <2> QED BY <1>0, <1>1, <2>1, <2>2 DEF CallsTyped
<1>4. PlaceFits(c)' BY <1>0, <1>1, <1>2 DEF PlaceFits, Picked
<1>5. OthersStill(c) BY <1>1, <1>2 DEF OthersStill
<1>6. /\ info' \in [Keys -> States]
      /\ \A j \in Keys : /\ Still(j) /\ info'[j].running = info[j].running
                         /\ info'[j].waiting = info[j].waiting
                         /\ info'[j].status = info[j].status
                         /\ info'[j].compat \in {info[j].compat, uid[j]}
  <2>1. CASE Remembers(k, pick[c])
    <3> DEFINE row == [info[k] EXCEPT !.compat = pick[c]]
    <3>1. info' = [info EXCEPT ![k] = row] BY <1>k, <2>1 DEF Succeed
    <3>2. uid[k] = pick[c] /\ info[k].id # 0 /\ pick[c] \in Anyone /\ info[k] \in States
      BY <1>0, <2>1 DEF Remembers, CallsTyped, RouterTyped
    <3>3. /\ row \in States /\ row.compat = pick[c] /\ row.id = info[k].id
          /\ row.version = info[k].version /\ row.running = info[k].running
          /\ row.waiting = info[k].waiting /\ row.pending = info[k].pending
          /\ row.target = info[k].target /\ row.manual = info[k].manual
          /\ row.epoch = info[k].epoch /\ row.last = info[k].last
          /\ row.status = info[k].status
      BY <3>2 DEF States
    <3> HIDE DEF row
    <3>4. info'[k] = row /\ \A j \in Keys : j # k => info'[j] = info[j]
      BY <1>0, <3>1 DEF RouterTyped
    <3>5. info' \in [Keys -> States] BY <1>0, <3>1, <3>3 DEF RouterTyped
    <3> QED BY <3>2, <3>3, <3>4, <3>5 DEF Still
  <2>2. CASE ~Remembers(k, pick[c])
    <3>1. info' = info BY <1>k, <2>2 DEF Succeed
    <3> QED BY <1>0, <3>1 DEF RouterTyped, Still
  <2> QED BY <2>1, <2>2
<1>7. \A j \in Keys : StatusFits(j)'
  BY <1>1, <1>2, <1>5, <1>6, StatusStill DEF Trying
<1>8. CompatFollowsBinding' BY <1>1, <1>6 DEF RouterInv, Bindings, CompatFollowsBinding
<1> QED BY <1>1, <1>2, <1>3, <1>4, <1>6, <1>7, <1>8, TriedKeeps
  DEF Places, Resting, Selecting, Trying

LEMMA OutcomeKeeps ==
    ASSUME RouterInv, NEW c \in Calls, Outcome(c)
    PROVE  RouterInv'
<1>k. PICK k \in Keys : k = key[c] BY KeyTyped
<1>0. RouterTyped /\ CallsTyped /\ PlaceFits(c) BY InvParts DEF RouterInv
<1> DEFINE place == IF pc[c] = "failing" THEN "failed" ELSE "ending"
           t == IF pc[c] # "succeeded" THEN "failed"
                ELSE IF pick[c] = call[c].target THEN "applied" ELSE "fallback"
<1>1. /\ pc[c] \in {"succeeded", "failing", "denied"} /\ Goto(c, place)
      /\ info' = IF Reports(c) THEN [info EXCEPT ![k].status = t] ELSE info
      /\ UNCHANGED <<order, uid, sequence, expired, call, retry, attempt, served, view,
                     key, events, orphans>>
  BY <1>k DEF Outcome, Leave
<1>2. pc'[c] = place /\ \A d \in Calls : d # c => pc'[d] = pc[d]
  BY <1>0, <1>1 DEF CallsTyped, Goto
<1>3. /\ CallsTyped' /\ selection'[c] \in {selection[c], NoSelection}
      /\ \A d \in Calls : d # c =>
             /\ selection'[d] = selection[d] /\ seen'[d] = seen[d]
             /\ pick'[d] = pick[d] /\ sticky'[d] = sticky[d] /\ served'[d] = served[d]
  <2>1. pc' \in [Calls -> Places] BY <1>0, <1>1 DEF CallsTyped, Places, Goto
  <2>2. CASE pc[c] = "failing"
    <3>1. UNCHANGED <<selection, seen, pick, sticky>> BY <2>2 DEF Outcome, choice
    <3> QED BY <1>0, <1>1, <2>1, <3>1 DEF CallsTyped
  <2>3. CASE pc[c] # "failing"
    <3>1. /\ selection' = [selection EXCEPT ![c] = NoSelection]
          /\ seen' = [seen EXCEPT ![c] = NoAccount]
          /\ pick' = [pick EXCEPT ![c] = NoAccount]
          /\ sticky' = [sticky EXCEPT ![c] = FALSE]
      BY <2>3 DEF Outcome, Leave
    <3>2. NoAccount \in Anyone BY DEF Anyone
    <3>3. NoSelection \in [version : Nat, action : Actions,
                           target : Anyone, baseline : Anyone]
      BY <3>2 DEF NoSelection, Actions
    <3>4. selection' \in [Calls -> [version : Nat, action : Actions,
                                    target : Anyone, baseline : Anyone]]
      BY <1>0, <3>1, <3>3 DEF CallsTyped
    <3>5. seen' \in [Calls -> Anyone] /\ pick' \in [Calls -> Anyone]
      BY <1>0, <3>1, <3>2 DEF CallsTyped
    <3>6. sticky' \in [Calls -> BOOLEAN] BY <1>0, <3>1 DEF CallsTyped
    <3>7. CallsTyped' BY <1>0, <1>1, <2>1, <3>4, <3>5, <3>6 DEF CallsTyped
    <3> QED BY <1>0, <1>1, <3>1, <3>7 DEF CallsTyped
  <2> QED BY <2>2, <2>3
<1>4. PlaceFits(c)'
  <2>1. pc'[c] \in {"failed", "ending"} BY <1>2
  <2>2. NoSelection.action # "switch" BY DEF NoSelection
  <2> QED BY <1>0, <1>3, <2>1, <2>2 DEF PlaceFits, Picked
<1>5. OthersStill(c) BY <1>1, <1>2, <1>3 DEF OthersStill
\* Only the reporting call can be the one a session's status is waiting for.
<1>6. ASSUME NEW j \in Keys, info'[j] = info[j], Reports(c) => j # k
      PROVE  StatusFits(j)'
  <2>1. StatusFits(j) BY DEF RouterInv
  <2>2. \A d \in Calls : Consumed(d, j)' = Consumed(d, j) /\ Owns(d)' = (info'[key[d]].id = call[d].id /\ call[d].id # 0)
    BY <1>1, <1>6 DEF Consumed, Owns
  <2>3. \A d \in Calls : Consumed(d, j) /\ Owns(d) => d # c /\ Owns(d)'
    BY <1>k, <1>6, <2>2 DEF Consumed, Owns, Reports
  <2>4. \A d \in Calls : Consumed(d, j) /\ Owns(d) /\ pc[d] \in Trying =>
          Consumed(d, j)' /\ Owns(d)' /\ pc'[d] \in Trying
    BY <1>2, <2>2, <2>3
  <2>5. \A d \in Calls : pc[d] \in {"ending", "gone"} => pc'[d] \in {"ending", "gone"}
    BY <1>1, <1>2
  <2> QED BY <1>1, <1>6, <2>1, <2>2, <2>4, <2>5 DEF StatusFits
<1>7. CASE ~Reports(c)
  <2>1. info' = info BY <1>1, <1>7
  <2>2. \A j \in Keys : Still(j) BY <2>1 DEF Still
  <2>3. \A j \in Keys : StatusFits(j)' BY <1>6, <1>7, <2>1
  <2>4. CompatFollowsBinding' BY <1>1, <2>1 DEF RouterInv, Bindings, CompatFollowsBinding
  <2>5. info' \in [Keys -> States] BY <1>0, <2>1 DEF RouterTyped
  <2> QED BY <1>1, <1>3, <1>4, <2>1, <2>2, <2>3, <2>4, <2>5, TriedKeeps
      DEF Places, Resting, Selecting, Trying
<1>8. CASE Reports(c)
  <2>1. info' = [info EXCEPT ![k].status = t] BY <1>1, <1>8
  <2>2. /\ info[k].id # 0 /\ info[k].pending = "" /\ Consumed(c, k) /\ Owns(c)
    BY <1>8, <1>k, ReporterConsumed
  <2>3. t \in Statuses BY DEF Statuses
  <2> HIDE DEF t
  <2>4. /\ info' \in [Keys -> States] /\ info'[k].status = t
        /\ \A j \in Keys : /\ Still(j) /\ info'[j].running = info[j].running
                           /\ info'[j].waiting = info[j].waiting
                           /\ info'[j].compat = info[j].compat
        /\ \A j \in Keys : j # k => info'[j] = info[j]
    BY <2>1, <2>2, <2>3, RestatedRow
  <2>5. Consumed(c, k)' BY <1>1, <1>k, <2>2, <2>4 DEF Consumed, Still
  <2>6. StatusFits(k)'
    <3>1. info'[k].pending = "" BY <2>2, <2>4 DEF Still
    <3>2. t = "failed" \/ (pc[c] = "succeeded" /\ t \in {"applied", "fallback"}) BY DEF t
    <3>3. CASE t = "failed" BY <3>1, <3>3, <2>4 DEF StatusFits
    <3>4. CASE pc[c] = "succeeded" /\ t \in {"applied", "fallback"}
      <4>1. served'[c] = pick[c] /\ pick[c] # NoAccount /\ call'[c].target = call[c].target
        BY <1>0, <1>1, <3>4 DEF PlaceFits, Picked
      <4>2. pc'[c] = "ending" BY <1>2, <3>4
      <4>3. t = "applied" <=> pick[c] = call[c].target BY <3>4 DEF t
      <4> QED BY <2>4, <2>5, <3>1, <3>4, <4>1, <4>2, <4>3 DEF StatusFits
    <3> QED BY <3>2, <3>3, <3>4
  <2>7. \A j \in Keys : StatusFits(j)' BY <1>6, <2>4, <2>6
  <2>8. CompatFollowsBinding' BY <1>1, <2>4 DEF RouterInv, Bindings, CompatFollowsBinding
  <2> QED BY <1>1, <1>3, <1>4, <2>4, <2>7, <2>8, TriedKeeps
      DEF Places, Resting, Selecting, Trying
<1> QED BY <1>7, <1>8

LEMMA FinishKeeps ==
    ASSUME RouterInv, NEW c \in Calls, Finish(c)
    PROVE  RouterInv'
<1>k. PICK k \in Keys : k = key[c] BY KeyTyped
<1>0. RouterTyped /\ CallsTyped /\ PlaceFits(c) BY InvParts DEF RouterInv
<1>1. /\ pc[c] \in {"ending", "panic"} /\ Goto(c, "gone")
      /\ UNCHANGED <<order, uid, sequence, call, selection, seen, pick, sticky, retry,
                     attempt, served, view, key, events, orphans>>
  BY DEF Finish, choice
<1>2. pc'[c] = "gone" /\ \A d \in Calls : d # c => pc'[d] = pc[d]
  BY <1>0, <1>1 DEF CallsTyped, Goto
<1>3. CallsTyped'
  <2>1. pc' \in [Calls -> Places] BY <1>0, <1>1 DEF CallsTyped, Places, Goto
  <2> QED BY <1>0, <1>1, <2>1 DEF CallsTyped
<1>4. PlaceFits(c)' BY <1>0, <1>1, <1>2 DEF PlaceFits, Picked
<1>5. OthersStill(c) BY <1>1, <1>2 DEF OthersStill
<1>6. c \in Live /\ Live' = Live \ {c} BY <1>1, <1>2 DEF Live
<1>7. \A d \in Live : d # c => (call'[d] = call[d] /\ key'[d] = key[d]) BY <1>1
<1>8. CASE ~Owns(c)
  <2>1. info' = info /\ expired' = expired BY <1>8 DEF Finish
  <2>2. \A j \in Keys : Still(j) BY <2>1 DEF Still
  <2>3. \A j \in Keys : Running(j)' = Running(j) /\ Waiting(j)' = Waiting(j)
    BY <1>1, <1>6, <1>8, <2>1 DEF Running, Waiting, Owns
  <2>4. Counts' BY <2>1, <2>3 DEF Counts, RouterInv
  <2>5. \A j \in Keys : StatusFits(j)'
    BY <1>1, <1>2, <1>5, <2>1, <2>2, StatusStill DEF Trying
  <2>6. CompatFollowsBinding' BY <1>1, <2>1 DEF RouterInv, Bindings, CompatFollowsBinding
  <2>7. info' \in [Keys -> States] BY <1>0, <2>1 DEF RouterTyped
  <2>8. SelectionFits(c)' BY <1>2 DEF SelectionFits, Selecting
  <2>9. selection'[c].version <= sequence BY <1>1 DEF RouterInv, Numbered
  <2> QED BY <1>1, <1>2, <1>3, <1>4, <1>5, <2>1, <2>2, <2>4, <2>5, <2>6, <2>7, <2>8, <2>9,
      OneCallKeeps DEF Resting
<1>9. CASE Owns(c)
  <2> DEFINE row == IF call[c].running THEN [info[k] EXCEPT !.running = @ - 1]
                                       ELSE [info[k] EXCEPT !.waiting = @ - 1]
  <2>1. info' = [info EXCEPT ![k] = row] /\ expired' \subseteq expired
    BY <1>9, <1>k DEF Finish
  <2>2. /\ info[k] \in States /\ info[k].id # 0 /\ call[c].running \in BOOLEAN
        /\ info[k].running \in Nat /\ info[k].waiting \in Nat
    BY <1>0, <1>9, <1>k DEF RouterTyped, Owns, CallsTyped, States
  <2>3. /\ info[k].running = Cardinality(Running(k))
        /\ info[k].waiting = Cardinality(Waiting(k))
    BY <2>2 DEF RouterInv, Counts
  <2>4. IF call[c].running THEN c \in Running(k) /\ c \notin Waiting(k)
                           ELSE c \in Waiting(k) /\ c \notin Running(k)
    BY <1>6, <1>9, <1>k DEF Running, Waiting
  <2>5. IF call[c].running THEN info[k].running > 0 ELSE info[k].waiting > 0
    BY <2>3, <2>4, CountedTyped, CountedFinite
  <2>6. /\ row \in States /\ row.id = info[k].id
        /\ row.running = IF call[c].running THEN info[k].running - 1 ELSE info[k].running
        /\ row.waiting = IF call[c].running THEN info[k].waiting ELSE info[k].waiting - 1
        /\ row.version = info[k].version /\ row.pending = info[k].pending
        /\ row.target = info[k].target /\ row.manual = info[k].manual
        /\ row.epoch = info[k].epoch /\ row.last = info[k].last
        /\ row.status = info[k].status /\ row.compat = info[k].compat
    <3>1. CASE call[c].running
      <4>1. info[k].running - 1 \in Nat BY <2>2, <2>5, <3>1
      <4> QED BY <2>2, <3>1, <4>1 DEF States
    <3>2. CASE ~call[c].running
      <4>1. info[k].waiting - 1 \in Nat BY <2>2, <2>5, <3>2
      <4> QED BY <2>2, <3>2, <4>1 DEF States
    <3> QED BY <3>1, <3>2
  <2> HIDE DEF row
  <2>7. info'[k] = row /\ \A j \in Keys : j # k => info'[j] = info[j]
    BY <1>0, <2>1 DEF RouterTyped
  <2>8. info' \in [Keys -> States] BY <1>0, <2>1, <2>6 DEF RouterTyped
  <2>9. \A j \in Keys : /\ Still(j) /\ info'[j].status = info[j].status
                        /\ info'[j].compat = info[j].compat
    BY <2>2, <2>6, <2>7 DEF Still
  <2>10. \A d \in Calls : Owns(d)' = Owns(d)
    BY <1>1, <2>9, KeyTyped DEF Owns, Still
  <2>11. \A j \in Keys : Running(j)' = Running(j) \ {c} /\ Waiting(j)' = Waiting(j) \ {c}
    <3>1. Live \subseteq Calls BY DEF Live
    <3> QED BY <1>1, <1>6, <2>10, <3>1 DEF Running, Waiting
  <2>12. ASSUME NEW j \in Keys, info'[j].id # 0
         PROVE  /\ info'[j].running = Cardinality(Running(j)')
                /\ info'[j].waiting = Cardinality(Waiting(j)')
    <3>1. CASE j = k
      <4>1. CASE call[c].running
        <5>1. Waiting(k)' = Waiting(k) /\ Running(k)' = Running(k) \ {c}
          BY <2>4, <2>11, <4>1
        <5>2. Cardinality(Running(k)') = Cardinality(Running(k)) - 1
          BY <2>4, <4>1, <5>1, CountedTyped, CountedLess
        <5> QED BY <2>3, <2>6, <2>7, <3>1, <4>1, <5>1, <5>2
      <4>2. CASE ~call[c].running
        <5>1. Running(k)' = Running(k) /\ Waiting(k)' = Waiting(k) \ {c}
          BY <2>4, <2>11, <4>2
        <5>2. Cardinality(Waiting(k)') = Cardinality(Waiting(k)) - 1
          BY <2>4, <4>2, <5>1, CountedTyped, CountedLess
        <5> QED BY <2>3, <2>6, <2>7, <3>1, <4>2, <5>1, <5>2
      <4> QED BY <4>1, <4>2
    <3>2. CASE j # k
      <4>1. c \notin Running(j) /\ c \notin Waiting(j)
        BY <1>k, <3>2 DEF Running, Waiting
      <4>2. Running(j)' = Running(j) /\ Waiting(j)' = Waiting(j) BY <2>11, <4>1
      <4> QED BY <2>7, <2>12, <3>2, <4>2 DEF RouterInv, Counts
    <3> QED BY <3>1, <3>2
  <2>13. Counts' BY <2>12 DEF Counts
  <2>14. \A j \in Keys : StatusFits(j)'
    BY <1>1, <1>2, <1>5, <2>9, StatusStill DEF Trying
  <2>15. CompatFollowsBinding' BY <1>1, <2>9 DEF RouterInv, Bindings, CompatFollowsBinding
  <2>16. SelectionFits(c)' BY <1>2 DEF SelectionFits, Selecting
  <2>17. selection'[c].version <= sequence BY <1>1 DEF RouterInv, Numbered
  <2> QED BY <1>1, <1>2, <1>3, <1>4, <1>5, <2>1, <2>8, <2>9, <2>13, <2>14, <2>15, <2>16,
      <2>17, OneCallKeeps DEF Resting
<1> QED BY <1>8, <1>9


-----------------------------------------------------------------------------
\* Commit.

\* The call goes on with the account it has picked.
Proceeds(c) ==
    /\ Goto(c, "committed")
    /\ selection' = [selection EXCEPT ![c] = NoSelection]
    /\ seen' = [seen EXCEPT ![c] = NoAccount]
    /\ sticky' = [sticky EXCEPT ![c] = FALSE]
    /\ UNCHANGED <<pick, retry, attempt, served, view, key, events, orphans>>

LEMMA ProceedsTyped ==
    ASSUME RouterInv, NEW c \in Calls, pc[c] = "bound", Proceeds(c),
           call' \in [Calls -> [id : Nat, running : BOOLEAN, control : Nat,
                                target : Anyone]]
    PROVE  /\ CallsTyped' /\ Live' = Live
           /\ pc'[c] = "committed" /\ selection'[c] = NoSelection
           /\ \A d \in Calls : d # c => /\ pc'[d] = pc[d] /\ selection'[d] = selection[d]
                                        /\ seen'[d] = seen[d] /\ sticky'[d] = sticky[d]
<1>0. CallsTyped BY InvParts
<1>1. NoAccount \in Anyone BY DEF Anyone
<1>2. NoSelection \in [version : Nat, action : Actions, target : Anyone, baseline : Anyone]
  BY <1>1 DEF NoSelection, Actions
<1>3. selection' \in [Calls -> [version : Nat, action : Actions,
                                target : Anyone, baseline : Anyone]]
  BY <1>0, <1>2 DEF Proceeds, CallsTyped
<1>4. seen' \in [Calls -> Anyone] BY <1>0, <1>1 DEF Proceeds, CallsTyped
<1>5. sticky' \in [Calls -> BOOLEAN] BY <1>0 DEF Proceeds, CallsTyped
<1>6. pc' \in [Calls -> Places] BY <1>0 DEF Proceeds, CallsTyped, Places, Goto
<1>7. CallsTyped' BY <1>0, <1>3, <1>4, <1>5, <1>6 DEF Proceeds, CallsTyped
<1>8. /\ pc'[c] = "committed" /\ selection'[c] = NoSelection
      /\ \A d \in Calls : d # c => /\ pc'[d] = pc[d] /\ selection'[d] = selection[d]
                                   /\ seen'[d] = seen[d] /\ sticky'[d] = sticky[d]
  BY <1>0 DEF Proceeds, CallsTyped, Goto
<1>9. Live' = Live BY <1>8 DEF Live
<1> QED BY <1>7, <1>8, <1>9

LEMMA ProceedsQuiet ==
    ASSUME RouterInv, NEW c \in Calls, pc[c] = "bound", Proceeds(c), UNCHANGED call
    PROVE  Quiet
<1>0. CallsTyped BY InvParts
<1>1. /\ CallsTyped' /\ pc'[c] = "committed" /\ selection'[c] = NoSelection
      /\ \A d \in Calls : d # c => /\ pc'[d] = pc[d] /\ selection'[d] = selection[d]
                                   /\ seen'[d] = seen[d] /\ sticky'[d] = sticky[d]
  BY <1>0, ProceedsTyped DEF CallsTyped
<1>2. pick' = pick /\ served' = served /\ key' = key /\ orphans' = orphans BY DEF Proceeds
<1>3. ASSUME NEW d \in Calls PROVE QuietCall(d)
  <2>1. CASE d = c
    BY <2>1, <1>1, <1>2 DEF QuietCall, Resting, Trying, Picked, Selecting
  <2>2. CASE d # c BY <2>2, <1>1, <1>2 DEF QuietCall
  <2> QED BY <2>1, <2>2
<1> QED BY <1>1, <1>2, <1>3 DEF Quiet

\* A selection that is still current is committed and its control consumed.
Commits(c, k, u) ==
    /\ k = key[c] /\ u = pick[c] /\ pc[c] = "bound" /\ info[k].id # 0 /\ Current(c)
    /\ Proceeds(c)
    /\ info' = [info EXCEPT ![k] = Committed(@, uid[k], u)]
    /\ sequence' = IF uid[k] # u \/ info[k].pending # "" THEN sequence + 1 ELSE sequence
    /\ uid' = [uid EXCEPT ![k] = u] /\ expired' = expired \ {k} /\ UNCHANGED order
    /\ call' = IF call[c].id # 0 /\ selection[c].action # ""
               THEN [call EXCEPT ![c].control = info[k].epoch, ![c].target = u]
               ELSE call

LEMMA CommittedKeeps ==
    ASSUME RouterInv, NEW c \in Calls, NEW k \in Keys, NEW u, Commits(c, k, u)
    PROVE  RouterInv'
<1>k. /\ k = key[c] /\ info[k].id # 0 /\ order' = order /\ expired' \subseteq expired
      /\ u = pick[c] /\ pc[c] = "bound"
  BY DEF Commits
<1>s. sequence' \in {sequence, sequence + 1} BY DEF Commits
<1>0. /\ RouterTyped /\ CallsTyped /\ OrderTyped /\ PlaceFits(c) /\ Fits(c)
      /\ sequence \in Nat /\ info[k] \in States /\ uid[k] \in Anyone
  BY InvParts DEF RouterInv, SelectionFits, Selecting, RouterTyped, Commits
<1>a. u \in Accounts /\ u \in Anyone /\ u # NoAccount
  <2>1. u = pick[c] /\ pc[c] = "bound" BY DEF Commits
  <2> QED BY <2>1, <1>0, RouterAssumption DEF PlaceFits, Picked, CallsTyped, Anyone
<1>b. /\ info'[k] = Committed(info[k], uid[k], u) /\ uid'[k] = u
      /\ \A j \in Keys : j # k => info'[j] = info[j] /\ uid'[j] = uid[j]
  <2> DEFINE row == Committed(info[k], uid[k], u)
  <2>1. info' = [info EXCEPT ![k] = row] /\ uid' = [uid EXCEPT ![k] = u] BY DEF Commits
  <2> HIDE DEF row
  <2>2. info'[k] = row /\ \A j \in Keys : j # k => info'[j] = info[j]
    BY <1>0, <2>1 DEF RouterTyped
  <2>3. uid'[k] = u /\ \A j \in Keys : j # k => uid'[j] = uid[j]
    BY <1>0, <2>1 DEF RouterTyped
  <2> QED BY <2>2, <2>3 DEF row
<1>v. sequence' = IF uid[k] # u \/ info[k].pending # "" THEN sequence + 1 ELSE sequence
  BY DEF Commits
<1>c. /\ info'[k] \in States
      /\ info'[k].compat = IF uid[k] = u THEN info[k].compat ELSE NoAccount
      /\ info'[k].status = IF info[k].pending # "" THEN "selected" ELSE info[k].status
      /\ info[k].pending = "" => info'[k].manual = info[k].manual
      /\ info'[k].pending = "" /\ info'[k].target = NoAccount /\ info'[k].last = u
      /\ info'[k].version = IF uid[k] # u \/ info[k].pending # "" THEN sequence + 1
                                                                  ELSE info[k].version
      /\ info'[k].id = info[k].id /\ info'[k].running = info[k].running
      /\ info'[k].waiting = info[k].waiting /\ info'[k].epoch = info[k].epoch
  <2>1. info'[k] = Committed(info[k], uid[k], u) BY <1>b
  <2>2. /\ info'[k] \in States
        /\ info'[k].compat = IF uid[k] = u THEN info[k].compat ELSE NoAccount
        /\ info'[k].status = IF info[k].pending # "" THEN "selected" ELSE info[k].status
        /\ info'[k].manual = IF info[k].pending = "switch" THEN u
                             ELSE IF info[k].pending # "" THEN NoAccount
                             ELSE info[k].manual
        /\ info'[k].pending = "" /\ info'[k].target = NoAccount /\ info'[k].last = u
        /\ info'[k].version = IF uid[k] # u \/ info[k].pending # "" THEN sequence + 1
                                                                    ELSE info[k].version
        /\ info'[k].id = info[k].id /\ info'[k].running = info[k].running
        /\ info'[k].waiting = info[k].waiting /\ info'[k].epoch = info[k].epoch
    <3>1. CommittedAs(info[k], uid[k], u, info'[k]) BY <1>0, <1>a, <2>1, CommittedRow
    <3> QED BY <3>1 DEF CommittedAs
  <2> QED BY <2>2
<1>d. /\ call' \in [Calls -> [id : Nat, running : BOOLEAN, control : Nat, target : Anyone]]
      /\ \A d \in Calls : d # c => call'[d] = call[d]
      /\ call'[c].id = call[c].id /\ call'[c].running = call[c].running
      /\ \/ call'[c] = call[c]
         \/ call'[c].control = info[k].epoch /\ info[k].pending # ""
      /\ info[k].pending = "" => call' = call
  <2>0. /\ selection[c].action = info[k].pending
        /\ call' = IF call[c].id # 0 /\ selection[c].action # ""
                   THEN [call EXCEPT ![c].control = info[k].epoch, ![c].target = u]
                   ELSE call
    BY <1>0 DEF Fits, Commits
  <2>1. CASE call' = call BY <2>1, <1>0 DEF CallsTyped
  <2>2. CASE /\ info[k].pending # ""
             /\ call' = [call EXCEPT ![c].control = info[k].epoch, ![c].target = u]
    <3> DEFINE s1 == [call[c] EXCEPT !.control = info[k].epoch]
               s2 == [s1 EXCEPT !.target = u]
    <3>1. call[c] \in [id : Nat, running : BOOLEAN, control : Nat, target : Anyone]
      BY <1>0 DEF CallsTyped
    <3>2. info[k].epoch \in Nat BY <1>0 DEF States
    <3>3. /\ s1 \in [id : Nat, running : BOOLEAN, control : Nat, target : Anyone]
          /\ s1.id = call[c].id /\ s1.running = call[c].running
          /\ s1.control = info[k].epoch
      BY <3>1, <3>2
    <3> HIDE DEF s1
    <3>4. /\ s2 \in [id : Nat, running : BOOLEAN, control : Nat, target : Anyone]
          /\ s2.id = call[c].id /\ s2.running = call[c].running
          /\ s2.control = info[k].epoch
      BY <1>a, <3>3
    <3>5. call' = [call EXCEPT ![c] = s2] BY <2>2, Zenon DEF s1
    <3> HIDE DEF s2
    <3> QED BY <1>0, <2>2, <3>4, <3>5, ZenonT(30) DEF CallsTyped
  <2> QED BY <2>0, <2>1, <2>2
<1>e. /\ CallsTyped' /\ Live' = Live
      /\ pc'[c] = "committed" /\ selection'[c] = NoSelection
      /\ \A d \in Calls : d # c => /\ pc'[d] = pc[d] /\ selection'[d] = selection[d]
                                   /\ seen'[d] = seen[d] /\ sticky'[d] = sticky[d]
      /\ pick' = pick /\ served' = served /\ key' = key /\ orphans' = orphans
  BY <1>d, ProceedsTyped DEF Proceeds, Commits
<1>f. /\ \A j \in Keys : /\ info'[j].id = info[j].id /\ info'[j].running = info[j].running
                         /\ info'[j].waiting = info[j].waiting
                         /\ info'[j].epoch = info[j].epoch
      /\ \A d \in Calls : call'[d].id = call[d].id /\ call'[d].running = call[d].running
      /\ \A d \in Calls : Owns(d)' = Owns(d)
  <2>1. \A j \in Keys : /\ info'[j].id = info[j].id /\ info'[j].running = info[j].running
                        /\ info'[j].waiting = info[j].waiting
                        /\ info'[j].epoch = info[j].epoch
    BY <1>b, <1>c
  <2>2. \A d \in Calls : call'[d].id = call[d].id /\ call'[d].running = call[d].running
    BY <1>d
  <2> QED BY <1>e, <2>1, <2>2, KeyTyped DEF Owns
<1>1. RouterTyped' /\ OrderTyped' /\ EntriesHeld'
  <2>1. uid' \in [Keys -> Anyone] BY <1>0, <1>a DEF RouterTyped, Commits
  <2>2. info' \in [Keys -> States]
    <3> DEFINE row == info'[k]
    <3>1. info' = [info EXCEPT ![k] = row] BY <1>b, Zenon DEF Commits
    <3>2. row \in States BY <1>c
    <3> HIDE DEF row
    <3> QED BY <1>0, <3>1, <3>2 DEF RouterTyped
  <2>3. OrderTyped' BY <1>0, <1>k DEF OrderTyped, Ordered, Entries
  <2>4. k \in Entries BY <1>k DEF RouterInv, EntriesHeld
  <2>5. EntriesHeld'
    <3>1. \A j \in Keys : j \notin Entries => uid'[j] = NoAccount /\ info'[j].id = 0
      BY <1>b, <2>4 DEF RouterInv, EntriesHeld
    <3>2. \A j \in Keys : info'[j].id = 0 => info'[j] = NoState
      BY <1>b, <1>c, <1>k, ZenonT(30) DEF RouterInv, EntriesHeld
    <3>3. Entries' = Entries BY <1>k DEF Entries
    <3> QED BY <3>1, <3>2, <3>3 DEF EntriesHeld, RouterInv
  <2>6. sequence' \in Nat BY <1>0, <1>s
  <2> QED BY <1>0, <1>k, <2>1, <2>2, <2>3, <2>5, <2>6 DEF RouterTyped, OrderTyped, Entries
<1>2. Numbered'
  <2>0. sequence' \in Nat /\ sequence <= sequence' BY <1>0, <1>s
  <2>1. ASSUME NEW j \in Keys
        PROVE  /\ info'[j].id <= sequence' /\ info'[j].id <= info'[j].version
               /\ info'[j].version <= sequence' /\ info'[j].epoch <= sequence'
    <3>1. /\ info[j].id \in Nat /\ info[j].version \in Nat /\ info[j].epoch \in Nat
          /\ info[j].id <= sequence /\ info[j].id <= info[j].version
          /\ info[j].version <= sequence /\ info[j].epoch <= sequence
      BY <1>0 DEF RouterInv, Numbered, RouterTyped, States
    <3>2. CASE j = k
      <4>1. /\ info'[k].id = info[k].id /\ info'[k].epoch = info[k].epoch
            /\ \/ info'[k].version = sequence + 1 /\ sequence' = sequence + 1
               \/ info'[k].version = info[k].version /\ sequence' = sequence
        BY <1>c, <1>v
      <4> QED BY <1>0, <3>1, <3>2, <4>1
    <3>3. CASE j # k
      <4>1. info'[j] = info[j] BY <3>3, <1>b
      <4> QED BY <1>0, <2>0, <3>1, <4>1
    <3> QED BY <3>2, <3>3
  <2>2. \A i, j \in Keys : info'[i].epoch = info'[j].epoch => info'[i].epoch = 0 \/ i = j
    BY <1>f DEF RouterInv, Numbered
  <2>3. ASSUME NEW d \in Calls
        PROVE  /\ call'[d].id <= sequence' /\ call'[d].control <= sequence'
               /\ selection'[d].version <= sequence'
    <3>1. /\ call[d].id \in Nat /\ call[d].control \in Nat /\ selection[d].version \in Nat
          /\ call[d].id <= sequence /\ call[d].control <= sequence
          /\ selection[d].version <= sequence
          /\ info[k].epoch \in Nat /\ info[k].epoch <= sequence
      BY <1>0 DEF RouterInv, Numbered, CallsTyped, States
    <3>2. call'[d].id <= sequence' BY <1>f, <1>0, <2>0, <3>1
    <3>3. call'[d].control \in {call[d].control, info[k].epoch} BY <1>d
    <3>4. selection'[d].version \in {selection[d].version, 0}
      <4>0. NoSelection.version = 0 BY DEF NoSelection
      <4>1. CASE d = c BY <4>0, <4>1, <1>e
      <4>2. CASE d # c BY <4>2, <1>e
      <4> QED BY <4>1, <4>2
    <3> QED BY <1>0, <2>0, <3>1, <3>2, <3>3, <3>4
  <2> QED BY <2>1, <2>2, <2>3 DEF Numbered
<1>3. Bindings'
  <2>1. Bindings BY DEF RouterInv
  <2>2. info[k].compat # NoAccount => info[k].compat = uid[k]
    BY <2>1 DEF Bindings, CompatFollowsBinding
  <2> QED BY <1>b, <1>c, <2>1, <2>2 DEF Bindings, CompatFollowsBinding
<1>4. Controls'
  <2>0. Controls BY DEF RouterInv
  <2>1. ASSUME NEW j \in Keys, info'[j].pending # ""
        PROVE  /\ info'[j].epoch # 0 /\ \A d \in Calls : call'[d].control # info'[j].epoch
               /\ info'[j].pending = "switch" => info'[j].target # NoAccount
    <3>1. j # k /\ info'[j] = info[j] BY <2>1, <1>b, <1>c
    <3>2. info[j].epoch # 0 /\ \A d \in Calls : call[d].control # info[j].epoch
      BY <2>0, <2>1, <3>1 DEF Controls
    <3>3. info[j].epoch # info[k].epoch BY <3>1, <3>2 DEF RouterInv, Numbered
    <3>4. \A d \in Calls : call'[d].control # info[j].epoch BY <1>d, <3>2, <3>3
    <3> QED BY <2>0, <3>1, <3>2, <3>4 DEF Controls
  <2>2. ASSUME NEW d \in Calls, NEW e \in Calls, call'[d].control = call'[e].control
        PROVE  call'[d].control = 0 \/ d = e
    <3>1. CASE call' = call BY <2>0, <2>2, <3>1 DEF Controls
    <3>2. CASE call'[c].control = info[k].epoch /\ info[k].pending # ""
      <4>1. \A f \in Calls : f # c => call'[f].control # call'[c].control
        BY <2>0, <3>2, <1>d DEF Controls
      <4>2. CASE d = c \/ e = c BY <4>1, <4>2, <2>2
      <4>3. CASE d # c /\ e # c BY <4>3, <2>0, <2>2, <1>d, ZenonT(30) DEF Controls
      <4> QED BY <4>2, <4>3
    <3>3. CASE call'[c] = call[c]
      <4>1. \A f \in Calls : call'[f] = call[f] BY <3>3, <1>d
      <4> QED BY <2>0, <2>2, <4>1 DEF Controls
    <3> QED BY <1>d, <3>1, <3>2, <3>3
  <2>3. \A j \in Keys : info'[j].pending = "switch" => info'[j].pending # "" OBVIOUS
  <2> QED BY <2>1, <2>2, <2>3 DEF Controls
<1>5. ASSUME NEW d \in Calls PROVE PlaceFits(d)'
  <2>1. CASE d = c
    <3>1. NoSelection.action # "switch" BY DEF NoSelection
    <3> QED BY <2>1, <1>a, <1>e, <1>k, <3>1 DEF PlaceFits
  <2>2. CASE d # c BY <2>2, <1>d, <1>e, ZenonT(30) DEF PlaceFits, RouterInv
  <2> QED BY <2>1, <2>2
<1>6. ASSUME NEW d \in Calls PROVE SelectionFits(d)'
  <2>1. CASE d = c BY <2>1, <1>e DEF SelectionFits, Selecting
  <2>2. CASE d # c
    <3> SUFFICES ASSUME pc[d] \in Selecting, info[key[d]].id # 0,
                        info'[key[d]].version = selection[d].version
                 PROVE  Fits(d)'
      BY <2>2, <1>e, <1>f, KeyTyped DEF SelectionFits, Current
    <3>0. SelectionFits(d) BY DEF RouterInv
    <3>1. CASE key[d] # k
      <4>1. info'[key[d]] = info[key[d]] /\ uid'[key[d]] = uid[key[d]]
        BY <3>1, <1>b, KeyTyped
      <4>2. Fits(d) BY <3>0, <4>1 DEF SelectionFits, Current
      <4> QED BY <2>2, <1>e, <4>1, <4>2 DEF Fits
    <3>2. CASE key[d] = k
      <4>1. selection[d].version <= sequence /\ selection[d].version \in Nat
        BY <1>0 DEF RouterInv, Numbered, CallsTyped
      <4>2. uid[k] = u /\ info[k].pending = ""
        <5>1. info'[k].version # sequence + 1 BY <1>0, <3>2, <4>1
        <5> QED BY <1>c, <5>1
      <4>3. Fits(d) BY <3>0, <3>2, <1>c, <4>2 DEF SelectionFits, Current
      <4>4. info[k].last = uid[k] BY <1>a, <1>k, <4>2 DEF RouterInv, Bindings
      <4>5. /\ info'[k].pending = "" /\ info'[k].manual = info[k].manual
            /\ info'[k].last = info[k].last /\ uid'[k] = uid[k]
        BY <1>b, <1>c, <4>2, <4>4
      <4>6. selection[d].action = "" BY <3>2, <4>2, <4>3 DEF Fits
      <4> QED BY <2>2, <3>2, <1>e, <4>3, <4>2, <4>5, <4>6 DEF Fits
    <3> QED BY <3>1, <3>2
  <2> QED BY <2>1, <2>2
<1>7. ASSUME NEW j \in Keys PROVE StatusFits(j)'
  <2>0. StatusFits(j) BY DEF RouterInv
  <2>1. CASE j = k /\ info[k].pending # "" BY <2>1, <1>c DEF StatusFits
  <2>2. CASE j # k \/ info[k].pending = ""
    <3>1. info'[j].status = info[j].status /\ (info'[j].pending = "" <=> info[j].pending = "")
      BY <2>2, <1>b, <1>c
    <3>2. \A d \in Calls : Consumed(d, j) => call'[d] = call[d]
      BY <2>2, <1>d, <1>k DEF Consumed
    <3>3. \A d \in Calls : Consumed(d, j) => Consumed(d, j)'
      BY <3>2, <1>e, <1>f DEF Consumed
    <3>4. \A d \in Calls : /\ pc[d] \in Trying => pc'[d] = pc[d]
                           /\ pc[d] \in {"ending", "gone"} => pc'[d] = pc[d]
      BY <1>e, <1>k DEF Trying
    <3> QED BY <2>0, <1>e, <1>f, <3>1, <3>2, <3>3, <3>4, ZenonT(30) DEF StatusFits
  <2> QED BY <2>1, <2>2
<1>8. Counts'
  <2>1. \A j \in Keys : Running(j)' = Running(j) /\ Waiting(j)' = Waiting(j)
    <3>1. Live \subseteq Calls BY DEF Live
    <3> QED BY <1>e, <1>f, <3>1 DEF Running, Waiting
  <2> QED BY <1>f, <2>1 DEF Counts, RouterInv
<1>9. LiveKept' BY <1>e, <1>f DEF RouterInv, LiveKept, Live
<1> QED BY <1>1, <1>2, <1>3, <1>4, <1>5, <1>6, <1>7, <1>8, <1>9, <1>e
  DEF RouterInv, OrderTyped

LEMMA CommitKeeps ==
    ASSUME RouterInv, NEW c \in Calls, Commit(c)
    PROVE  RouterInv'
<1>k. PICK k \in Keys : k = key[c] BY KeyTyped
<1>0. /\ pc[c] = "bound" /\ UNCHANGED <<attempt, served, view, key, events, orphans>>
      /\ PlaceFits(c) /\ CallsTyped
  BY DEF Commit, RouterInv
<1>1. CASE info[k].id = 0
  <2>1. /\ Proceeds(c) /\ UNCHANGED call
        /\ Bind(k, pick[c]) \/ UNCHANGED router
    BY <1>k, <1>1 DEF Commit, Proceeds
  <2>2. Quiet BY <1>0, <2>1, ProceedsQuiet
  <2>3. pick[c] \in Accounts BY <1>0 DEF PlaceFits, Picked, CallsTyped, Anyone
  <2> QED BY <2>1, <2>2, <2>3, BindKeeps, SameKeeps
<1>2. CASE info[k].id # 0 /\ ~Current(c)
  <2>1. Again(c) /\ UNCHANGED <<router, call>> BY <1>k, <1>2 DEF Commit
  <2>2. Quiet BY <1>0, <2>1, AgainQuiet DEF Resting, Trying
  <2> QED BY <2>1, <2>2, SameKeeps
<1>3. CASE info[k].id # 0 /\ Current(c)
  <2>1. /\ Proceeds(c)
        /\ info' = [info EXCEPT ![k] = Committed(@, uid[k], pick[c])]
        /\ sequence' = IF uid[k] # pick[c] \/ info[k].pending # "" THEN sequence + 1
                                                                   ELSE sequence
        /\ uid' = [uid EXCEPT ![k] = pick[c]] /\ expired' = expired \ {k}
        /\ UNCHANGED order
        /\ call' = IF call[c].id # 0 /\ selection[c].action # ""
                   THEN [call EXCEPT ![c].control = info[k].epoch, ![c].target = pick[c]]
                   ELSE call
    BY <1>k, <1>3 DEF Commit, Proceeds
  <2>2. Commits(c, k, pick[c]) BY <1>k, <1>0, <1>3, <2>1, Zenon DEF Commits
  <2> QED BY <2>2, CommittedKeeps
<1> QED BY <1>1, <1>2, <1>3

-----------------------------------------------------------------------------
\* Begin.

\* The row of a session whose state is made, and of one whose state is kept.
Fresh(k, b, row) ==
    /\ row \in States
    /\ row.id = sequence + 1 /\ row.version = sequence + 1 /\ row.epoch = 0
    /\ row.running = 0 /\ row.waiting = 1 /\ row.pending = "" /\ row.status = ""
    /\ row.compat = NoAccount /\ row.last = b
    /\ sequence' = sequence + 1
    /\ \A d \in Live : key[d] = k => ~Owns(d)

Kept(k, b, row) ==
    /\ row \in States
    /\ info[k].id # 0 /\ b = uid[k] /\ sequence' = sequence
    /\ row.id = info[k].id /\ row.version = info[k].version /\ row.epoch = info[k].epoch
    /\ row.running = info[k].running /\ row.waiting = info[k].waiting + 1
    /\ row.pending = info[k].pending /\ row.status = info[k].status
    /\ row.target = info[k].target /\ row.manual = info[k].manual
    /\ row.compat = info[k].compat /\ row.last = info[k].last

\* The call enters its session; other entries may make room.
Enters(c, k, gone, b, row) ==
    /\ k = key[c] /\ pc[c] \in {"idle", "prepared"} /\ Goto(c, "started")
    /\ gone \subseteq Evictable /\ k \notin gone /\ b \in Anyone
    /\ Entries' = (Entries \ gone) \cup {k} /\ OrderTyped'
    /\ uid' = [j \in Keys |-> IF j = k THEN b ELSE IF j \in gone THEN NoAccount ELSE uid[j]]
    /\ info' = [j \in Keys |-> IF j = k THEN row ELSE IF j \in gone THEN NoState ELSE info[j]]
    /\ expired' = expired \ (gone \cup {k})
    /\ call' = [call EXCEPT ![c].id = row.id]
    /\ UNCHANGED <<selection, seen, pick, sticky, retry, attempt, served, key, view,
                   events, orphans>>

LEMMA EntersKeeps ==
    ASSUME RouterInv, NEW c \in Calls, NEW k \in Keys, NEW gone, NEW b, NEW row,
           Enters(c, k, gone, b, row), Fresh(k, b, row) \/ Kept(k, b, row)
    PROVE  RouterInv'
<1>0. /\ RouterTyped /\ CallsTyped /\ OrderTyped /\ PlaceFits(c)
      /\ sequence \in Nat /\ info[k] \in States /\ uid[k] \in Anyone
  BY InvParts DEF RouterInv, RouterTyped
<1>k. /\ k = key[c] /\ pc[c] \in {"idle", "prepared"} /\ k \notin gone
      /\ gone \subseteq Evictable /\ gone \subseteq Entries /\ b \in Anyone
      /\ Entries' = (Entries \ gone) \cup {k} /\ OrderTyped'
      /\ expired' = expired \ (gone \cup {k})
      /\ selection' = selection /\ seen' = seen /\ pick' = pick /\ sticky' = sticky
      /\ served' = served /\ key' = key /\ orphans' = orphans
  BY DEF Enters, Evictable
<1>r. /\ row \in States /\ row.id # 0 /\ row.id \in Nat
      /\ row.id = sequence + 1 \/ row.id = info[k].id
      /\ row.id = info[k].id => Kept(k, b, row)
      /\ sequence' \in Nat /\ sequence <= sequence' /\ row.id <= sequence'
  <2>1. info[k].id <= sequence /\ info[k].id \in Nat
    BY <1>0 DEF RouterInv, Numbered, States
  <2>2. CASE Fresh(k, b, row)
    <3>1. row \in States /\ row.id = sequence + 1 /\ sequence' = sequence + 1
      BY <2>2 DEF Fresh
    <3>2. row.id # info[k].id BY <1>0, <2>1, <3>1
    <3> QED BY <1>0, <3>1, <3>2
  <2>3. CASE Kept(k, b, row) BY <1>0, <2>1, <2>3 DEF Kept
  <2> QED BY <2>2, <2>3
<1>a. /\ NoState.id = 0 /\ NoState.version = 0 /\ NoState.epoch = 0
      /\ NoState.pending = "" /\ NoState.status = "" /\ NoState.compat = NoAccount
  BY DEF NoState
<1>b. /\ uid'[k] = b /\ info'[k] = row
      /\ \A j \in gone \cap Keys : uid'[j] = NoAccount /\ info'[j] = NoState
      /\ \A j \in Keys : j # k /\ j \notin gone => uid'[j] = uid[j] /\ info'[j] = info[j]
  BY <1>k DEF Enters
<1>c. /\ pc'[c] = "started" /\ \A d \in Calls : d # c => pc'[d] = pc[d]
      /\ Live' = Live \cup {c} /\ c \notin Live /\ Live \subseteq Calls
  <2>1. pc'[c] = "started" /\ \A d \in Calls : d # c => pc'[d] = pc[d]
    BY <1>0 DEF Enters, Goto, CallsTyped
  <2> QED BY <1>k, <2>1 DEF Live
<1>d. /\ call' \in [Calls -> [id : Nat, running : BOOLEAN, control : Nat, target : Anyone]]
      /\ \A d \in Calls : d # c => call'[d] = call[d]
      /\ call[c].id = 0 /\ call[c].control = 0 /\ call[c].running = FALSE
      /\ call'[c].id = row.id /\ call'[c].control = 0 /\ call'[c].running = FALSE
  <2>1. call[c] = NoCall BY <1>0, <1>k DEF PlaceFits
  <2>2. call' = [call EXCEPT ![c].id = row.id] BY DEF Enters
  <2> DEFINE s == [call[c] EXCEPT !.id = row.id]
  <2>3. /\ call[c] \in [id : Nat, running : BOOLEAN, control : Nat, target : Anyone]
        /\ call[c].id = 0 /\ call[c].control = 0 /\ call[c].running = FALSE
    BY <1>0, <2>1 DEF CallsTyped, NoCall
  <2>4. /\ s \in [id : Nat, running : BOOLEAN, control : Nat, target : Anyone]
        /\ s.id = row.id /\ s.control = 0 /\ s.running = FALSE
    BY <1>r, <2>3
  <2>5. call' = [call EXCEPT ![c] = s] BY <2>2
  <2> HIDE DEF s
  <2> QED BY <1>0, <2>3, <2>4, <2>5 DEF CallsTyped
<1>e. CallsTyped'
  <2>1. pc' \in [Calls -> Places] BY <1>0 DEF CallsTyped, Places, Goto, Enters
  <2> QED BY <1>0, <1>d, <2>1 DEF CallsTyped, Enters
\* Of the calls before, those that own their entry keep it.
<1>f. \A d \in Live : Owns(d) => /\ key[d] \notin gone
                                 /\ key[d] = k => Kept(k, b, row)
                                 /\ Owns(d)'
  <2> SUFFICES ASSUME NEW d \in Live, Owns(d)
               PROVE  key[d] \notin gone /\ (key[d] = k => Kept(k, b, row)) /\ Owns(d)'
    OBVIOUS
  <2>1. key[d] \notin gone BY <1>k, OwnerCounted DEF Evictable
  <2>2. key[d] = k => Kept(k, b, row) BY DEF Fresh
  <2>3. d # c /\ d \in Calls /\ key[d] \in Keys BY <1>c, KeyTyped
  <2>4. info'[key[d]].id = info[key[d]].id
    <3>1. CASE key[d] = k BY <3>1, <2>2, <1>b DEF Kept
    <3>2. CASE key[d] # k BY <3>2, <2>1, <2>3, <1>b
    <3> QED BY <3>1, <3>2
  <2>5. Owns(d)' BY <1>d, <1>k, <2>3, <2>4 DEF Owns
  <2> QED BY <2>1, <2>2, <2>5
<1>g. \A d \in Live : Owns(d)' => Owns(d)
  <2> SUFFICES ASSUME NEW d \in Live, call[d].id # 0, info'[key[d]].id = call[d].id
               PROVE  Owns(d)
    BY <1>c, <1>d, <1>k DEF Owns
  <2>1. d \in Calls /\ key[d] \in Keys BY <1>c, KeyTyped
  <2>2. call[d].id <= sequence /\ call[d].id \in Nat
    BY <1>0, <2>1 DEF RouterInv, Numbered, CallsTyped
  <2>3. CASE key[d] = k
    <3>1. row.id # sequence + 1 BY <1>0, <1>b, <2>2, <2>3
    <3> QED BY <1>r, <1>b, <2>3, <3>1 DEF Owns
  <2>4. CASE key[d] # k
    <3>1. key[d] \notin gone BY <1>a, <1>b, <2>1
    <3> QED BY <1>b, <2>1, <2>4, <3>1 DEF Owns
  <2> QED BY <2>3, <2>4
<1>1. RouterTyped' /\ EntriesHeld'
  <2>1. uid' \in [Keys -> Anyone] BY <1>0, <1>k DEF RouterTyped, Anyone, Enters
  <2>2. info' \in [Keys -> States] BY <1>0, <1>r, NoStateTyped DEF RouterTyped, Enters
  <2>3. EntriesHeld'
    <3>1. \A j \in Keys : j \notin Entries' => uid'[j] = NoAccount /\ info'[j].id = 0
      BY <1>k, <1>a, <1>b DEF RouterInv, EntriesHeld
    <3>2. \A j \in Keys : info'[j].id = 0 => info'[j] = NoState
      BY <1>r, <1>a, <1>b DEF RouterInv, EntriesHeld
    <3>3. IsFiniteSet(Entries') BY <1>k DEF OrderTyped
    <3> QED BY <3>1, <3>2, <3>3 DEF EntriesHeld
  <2>4. expired' \subseteq Entries' BY <1>0, <1>k DEF RouterTyped
  <2> QED BY <1>k, <1>r, <2>1, <2>2, <2>3, <2>4 DEF RouterTyped, OrderTyped
<1>2. Numbered'
  <2>1. ASSUME NEW j \in Keys
        PROVE  /\ info'[j].id <= sequence' /\ info'[j].id <= info'[j].version
               /\ info'[j].version <= sequence' /\ info'[j].epoch <= sequence'
    <3>1. /\ info[j].id \in Nat /\ info[j].version \in Nat /\ info[j].epoch \in Nat
          /\ info[j].id <= sequence /\ info[j].id <= info[j].version
          /\ info[j].version <= sequence /\ info[j].epoch <= sequence
      BY <1>0 DEF RouterInv, Numbered, RouterTyped, States
    <3>2. CASE j = k /\ Fresh(k, b, row)
      <4>1. /\ info'[k].id = sequence + 1 /\ info'[k].version = sequence + 1
            /\ info'[k].epoch = 0 /\ sequence' = sequence + 1
        BY <1>b, <3>2 DEF Fresh
      <4> QED BY <1>0, <3>2, <4>1
    <3>3. CASE j = k /\ Kept(k, b, row) BY <1>0, <1>b, <1>r, <3>1, <3>3 DEF Kept
    <3>4. CASE j # k /\ j \notin gone
      <4>1. info'[j] = info[j] BY <3>4, <1>b
      <4> QED BY <1>0, <1>r, <3>1, <4>1
    <3>5. CASE j \in gone
      <4>1. info'[j].id = 0 /\ info'[j].version = 0 /\ info'[j].epoch = 0
        BY <3>5, <1>a, <1>b
      <4>2. 0 <= sequence' BY <1>r
      <4> QED BY <4>1, <4>2
    <3> QED BY <3>2, <3>3, <3>4, <3>5
  <2>2. \A j \in Keys : info'[j].epoch = info[j].epoch \/ info'[j].epoch = 0
    BY <1>a, <1>b DEF Fresh, Kept
  <2>3. \A i, j \in Keys : info'[i].epoch = info'[j].epoch => info'[i].epoch = 0 \/ i = j
    BY <2>2 DEF RouterInv, Numbered
  <2>4. ASSUME NEW d \in Calls
        PROVE  /\ call'[d].id <= sequence' /\ call'[d].control <= sequence'
               /\ selection'[d].version <= sequence'
    <3>1. /\ call[d].id \in Nat /\ call[d].control \in Nat /\ selection[d].version \in Nat
          /\ call[d].id <= sequence /\ call[d].control <= sequence
          /\ selection[d].version <= sequence
      BY <1>0 DEF RouterInv, Numbered, CallsTyped
    <3>2. selection'[d].version <= sequence' BY <1>0, <1>k, <1>r, <3>1
    <3>3. CASE d = c
      <4>1. 0 <= sequence' BY <1>r
      <4> QED BY <3>3, <1>d, <1>r, <3>2, <4>1
    <3>4. CASE d # c
      <4>1. call'[d] = call[d] BY <3>4, <1>d
      <4> QED BY <1>0, <1>r, <3>1, <3>2, <4>1
    <3> QED BY <3>3, <3>4
  <2> QED BY <2>1, <2>3, <2>4 DEF Numbered
<1>3. Bindings'
  <2>0. Bindings BY DEF RouterInv
  <2>1. ASSUME NEW j \in Keys
        PROVE  /\ info'[j].id # 0 /\ uid'[j] # NoAccount => info'[j].last = uid'[j]
               /\ info'[j].compat # NoAccount => info'[j].compat = uid'[j]
    <3>1. CASE j = k BY <3>1, <2>0, <1>b DEF Fresh, Kept, Bindings, CompatFollowsBinding
    <3>2. CASE j # k /\ j \notin gone
      BY <3>2, <2>0, <1>b DEF Bindings, CompatFollowsBinding
    <3>3. CASE j \in gone BY <3>3, <1>a, <1>b
    <3> QED BY <3>1, <3>2, <3>3
  <2> QED BY <2>1 DEF Bindings, CompatFollowsBinding
<1>4. Controls'
  <2>0. Controls BY DEF RouterInv
  <2>1. \A d \in Calls : call'[d].control = call[d].control BY <1>d
  <2>2. ASSUME NEW j \in Keys, info'[j].pending # ""
        PROVE  /\ info'[j].pending = info[j].pending /\ info'[j].target = info[j].target
               /\ info'[j].epoch = info[j].epoch
    <3>1. CASE j = k BY <3>1, <2>2, <1>b DEF Fresh, Kept
    <3>2. CASE j # k BY <3>2, <2>2, <1>a, <1>b
    <3> QED BY <3>1, <3>2
  <2>3. \A j \in Keys : info'[j].pending # "" =>
          info'[j].epoch # 0 /\ \A d \in Calls : call'[d].control # info'[j].epoch
    BY <2>0, <2>1, <2>2 DEF Controls
  <2>4. ASSUME NEW j \in Keys, info'[j].pending = "switch"
        PROVE  info'[j].target # NoAccount
    <3>1. info'[j].pending # "" BY <2>4
    <3> QED BY <3>1, <2>0, <2>2, <2>4 DEF Controls
  <2>5. \A d, e \in Calls : call'[d].control = call'[e].control =>
          call'[d].control = 0 \/ d = e
    BY <2>0, <2>1 DEF Controls
  <2> QED BY <2>3, <2>4, <2>5 DEF Controls
<1>5. ASSUME NEW d \in Calls PROVE PlaceFits(d)'
  <2>1. CASE d = c BY <2>1, <1>0, <1>c, <1>k DEF PlaceFits, Picked
  <2>2. CASE d # c BY <2>2, <1>c, <1>d, <1>k DEF PlaceFits, RouterInv
  <2> QED BY <2>1, <2>2
<1>6. ASSUME NEW d \in Calls PROVE SelectionFits(d)'
  <2>1. CASE d = c BY <2>1, <1>c DEF SelectionFits, Selecting
  <2>2. CASE d # c
    <3> SUFFICES ASSUME pc[d] \in Selecting, info'[key[d]].id # 0,
                        info'[key[d]].version = selection[d].version
                 PROVE  Fits(d)'
      BY <2>2, <1>c, <1>k DEF SelectionFits, Current
    <3>0. SelectionFits(d) /\ key[d] \in Keys /\ key[d] \notin gone
      BY <1>a, <1>b, KeyTyped DEF RouterInv
    <3>1. CASE key[d] # k
      <4>1. info'[key[d]] = info[key[d]] /\ uid'[key[d]] = uid[key[d]]
        BY <3>0, <3>1, <1>b
      <4>2. Fits(d) BY <3>0, <4>1 DEF SelectionFits, Current
      <4> QED BY <2>2, <1>c, <1>k, <4>1, <4>2 DEF Fits
    <3>2. CASE key[d] = k
      <4>1. selection[d].version <= sequence /\ selection[d].version \in Nat
        BY <1>0 DEF RouterInv, Numbered, CallsTyped
      <4>2. row.version # sequence + 1 BY <1>0, <1>b, <3>2, <4>1
      <4>3. Kept(k, b, row) BY <4>2 DEF Fresh
      <4>4. /\ info[k].id # 0 /\ uid'[k] = uid[k]
            /\ info'[k].version = info[k].version /\ info'[k].pending = info[k].pending
            /\ info'[k].target = info[k].target /\ info'[k].manual = info[k].manual
            /\ info'[k].last = info[k].last
        BY <1>b, <4>3 DEF Kept
      <4>5. Fits(d) BY <3>0, <3>2, <4>4 DEF SelectionFits, Current
      <4> QED BY <2>2, <3>2, <1>c, <1>k, <4>4, <4>5, ZenonT(30) DEF Fits
    <3> QED BY <3>1, <3>2
  <2> QED BY <2>1, <2>2
<1>7. ASSUME NEW j \in Keys PROVE StatusFits(j)'
  <2>0. StatusFits(j) BY DEF RouterInv
  <2>1. CASE j \in gone BY <2>1, <1>a, <1>b DEF StatusFits
  <2>2. CASE j = k /\ Fresh(k, b, row) BY <2>2, <1>b DEF StatusFits, Fresh
  <2>3. CASE j \notin gone /\ (j = k => Kept(k, b, row))
    <3>1. /\ info'[j].status = info[j].status /\ info'[j].pending = info[j].pending
          /\ info'[j].epoch = info[j].epoch /\ info'[j].id = info[j].id
      <4>1. CASE j = k BY <4>1, <2>3, <1>b DEF Kept
      <4>2. CASE j # k BY <4>2, <2>3, <1>b
      <4> QED BY <4>1, <4>2
    <3>2. \A d \in Calls : Consumed(d, j) => d # c /\ call'[d] = call[d] /\ Consumed(d, j)'
      BY <1>d, <1>k, <3>1 DEF Consumed
    <3>3. \A d \in Calls : Consumed(d, j) /\ Owns(d) => Owns(d)'
      BY <1>k, <3>1, <3>2 DEF Owns, Consumed
    <3> QED BY <2>0, <1>c, <1>k, <3>1, <3>2, <3>3 DEF StatusFits
  <2> QED BY <2>1, <2>2, <2>3
<1>8. ASSUME NEW j \in Keys, info'[j].id # 0
      PROVE  /\ info'[j].running = Cardinality(Running(j)')
             /\ info'[j].waiting = Cardinality(Waiting(j)')
  <2>1. Owns(c)' /\ ~Owns(c) BY <1>b, <1>d, <1>k, <1>r DEF Owns
  <2>2. \A d \in Live : /\ call'[d] = call[d] /\ key'[d] = key[d] /\ Owns(d)' = Owns(d)
    <3>1. ASSUME NEW d \in Live PROVE Owns(d)' = Owns(d)
      <4>1. Owns(d) \in BOOLEAN /\ Owns(d)' \in BOOLEAN BY DEF Owns
      <4> QED BY <4>1, <1>f, <1>g
    <3>2. \A d \in Live : call'[d] = call[d] BY <1>c, <1>d
    <3> QED BY <1>k, <3>1, <3>2
  <2>3. Running(j)' = Running(j)
    BY <1>c, <1>d, <2>2 DEF Running
  <2>4. Waiting(j)' = IF j = k THEN Waiting(j) \cup {c} ELSE Waiting(j)
    BY <1>c, <1>d, <1>k, <2>1, <2>2 DEF Waiting
  <2>5. c \notin Waiting(j) /\ c \notin Running(j) BY <1>c DEF Waiting, Running
  <2>6. CASE j # k
    <3>1. info'[j] = info[j] BY <1>a, <1>b, <1>8, <2>6
    <3> QED BY <1>8, <2>3, <2>4, <2>6, <3>1 DEF RouterInv, Counts
  <2>7. CASE j = k /\ Kept(k, b, row)
    <3>1. info[k].running = Cardinality(Running(k)) /\ info[k].waiting = Cardinality(Waiting(k))
      BY <2>7 DEF RouterInv, Counts, Kept
    <3>2. Cardinality(Waiting(k) \cup {c}) = Cardinality(Waiting(k)) + 1
      BY <2>5, <2>7, CountedTyped, CountedMore
    <3> QED BY <2>3, <2>4, <2>7, <3>1, <3>2, <1>b DEF Kept
  <2>8. CASE j = k /\ Fresh(k, b, row)
    <3>1. Running(k) = {} /\ Waiting(k) = {} BY <2>8 DEF Fresh, Running, Waiting
    <3>2. Running(k)' = {} /\ Waiting(k)' = {c} BY <2>3, <2>4, <2>8, <3>1
    <3>3. Cardinality(Running(k)') = 0 /\ Cardinality(Waiting(k)') = 1
      BY <3>2, FS_EmptySet, FS_Singleton
    <3> QED BY <2>8, <3>3, <1>b DEF Fresh
  <2> QED BY <2>6, <2>7, <2>8
<1>9. LiveKept'
  <2>1. \A d \in Live : call[d].id # 0 /\ d \notin orphans => Owns(d)'
    BY <1>f DEF RouterInv, LiveKept
  <2>2. Owns(c)' BY <1>b, <1>d, <1>k, <1>r DEF Owns
  <2>3. \A d \in Live : call'[d] = call[d] BY <1>c, <1>d
  <2> QED BY <1>c, <1>k, <2>1, <2>2, <2>3 DEF LiveKept
<1>10. Counts' BY <1>8 DEF Counts
<1> QED BY <1>1, <1>2, <1>3, <1>4, <1>5, <1>6, <1>7, <1>9, <1>10, <1>e, <1>k
  DEF RouterInv, OrderTyped

LEMMA BeginKeeps ==
    ASSUME RouterInv, NEW c \in Calls, Begin(c)
    PROVE  RouterInv'
<1>k. PICK k \in Keys : k = key[c] BY KeyTyped
<1> DEFINE kept == k \in Entries /\ (k \notin expired \/ Busy(k))
           gone == IF k \in Entries THEN {} ELSE Victims
           b == IF kept THEN uid[k] ELSE NoAccount
           fresh == ~kept \/ info[k].id = 0
           new == [NoState EXCEPT !.id = sequence + 1, !.version = sequence + 1, !.last = b]
           state == IF fresh THEN new ELSE info[k]
           row == [state EXCEPT !.waiting = @ + 1]
<1>0. /\ RouterTyped /\ CallsTyped /\ OrderTyped /\ PlaceFits(c)
      /\ sequence \in Nat /\ info[k] \in States /\ uid[k] \in Anyone
      /\ Victims \subseteq Evictable
  BY InvParts DEF RouterInv, RouterTyped, Victims
<1>1. /\ pc[c] \in {"idle", "prepared"}
      /\ UNCHANGED <<selection, seen, pick, sticky, retry, attempt, served, key, view,
                     events, orphans>>
  BY DEF Begin, choice
<1>2. CASE k \in Entries \/ HasRoom
  <2>1. /\ order' = Touched(Entries \ gone, k)
        /\ uid' = [j \in Keys |-> IF j = k THEN b
                                  ELSE IF j \in gone THEN NoAccount ELSE uid[j]]
        /\ info' = [j \in Keys |-> IF j = k THEN row
                                   ELSE IF j \in gone THEN NoState ELSE info[j]]
        /\ sequence' = IF fresh THEN sequence + 1 ELSE sequence
        /\ expired' = expired \ (gone \cup {k})
        /\ call' = [call EXCEPT ![c].id = state.id]
        /\ Goto(c, "started")
    BY <1>2, <1>k, Zenon DEF Begin
  <2>2. Entries' = (Entries \ gone) \cup {k} /\ OrderTyped'
    <3>1. CASE k \in Entries BY <1>0, <2>1, <3>1, TouchedTyped
    <3>2. CASE k \notin Entries BY <1>2, <2>1, <3>2, RoomMade
    <3> QED BY <3>1, <3>2
  <2>3. gone \subseteq Evictable /\ k \notin gone /\ b \in Anyone
    BY <1>0 DEF Anyone, Victims, Evictable
  <2>4. /\ state \in States /\ row \in States /\ row.id = state.id
        /\ row.version = state.version /\ row.epoch = state.epoch
        /\ row.running = state.running /\ row.waiting = state.waiting + 1
        /\ row.pending = state.pending /\ row.status = state.status
        /\ row.target = state.target /\ row.manual = state.manual
        /\ row.compat = state.compat /\ row.last = state.last
    <3> DEFINE s1 == [NoState EXCEPT !.id = sequence + 1]
               s2 == [s1 EXCEPT !.version = sequence + 1]
               s3 == [s2 EXCEPT !.last = b]
    <3>0. sequence + 1 \in Nat BY <1>0
    <3>1. s1 \in States BY <3>0, NoStateTyped DEF States
    <3>2. s2 \in States BY <3>0, <3>1 DEF States
    <3>3. s3 \in States BY <2>3, <3>2 DEF States
    <3>4. new = s3 BY Zenon
    <3>5. state \in States BY <1>0, <3>3, <3>4, Zenon
    <3> HIDE DEF state
    <3>6. state.waiting + 1 \in Nat BY <3>5 DEF States
    <3> QED BY <3>5, <3>6 DEF States
  <2> HIDE DEF gone, row
  <2>5. Enters(c, k, gone, b, row)
    <3>1. call' = [call EXCEPT ![c].id = row.id] BY <2>1, <2>4, Zenon
    <3> QED BY <1>1, <1>k, <2>1, <2>2, <2>3, <3>1 DEF Enters
  <2>6. CASE fresh
    <3>1. /\ new.id = sequence + 1 /\ new.version = sequence + 1 /\ new.last = b
          /\ new.epoch = 0 /\ new.running = 0 /\ new.waiting = 0 /\ new.pending = ""
          /\ new.status = "" /\ new.compat = NoAccount
      BY DEF NoState
    <3>2. \A d \in Live : key[d] = k => ~Owns(d)
      BY <1>0, <2>6, OwnerCounted DEF Owns
    <3>3. state = new BY <2>6, Zenon
    <3> HIDE DEF new, state, b
    <3>4. sequence' = sequence + 1 BY <2>1, <2>6
    <3> HIDE DEF fresh, kept
    <3>w. row.waiting = 1
      <4>1. row.waiting = state.waiting + 1 BY <2>4, Zenon
      <4>2. state.waiting = 0 BY <3>1, <3>3, Zenon
      <4> HIDE DEF row
      <4>3. \A w, s : w = s + 1 /\ s = 0 => w = 1 OBVIOUS
      <4> QED BY <4>1, <4>2, <4>3, Zenon
    <3>a. /\ row \in States /\ row.id = sequence + 1 /\ row.version = sequence + 1
          /\ row.epoch = 0 /\ row.running = 0 /\ row.waiting = 1 /\ row.pending = ""
          /\ row.status = "" /\ row.compat = NoAccount /\ row.last = b
      <4>1. /\ state.id = sequence + 1 /\ state.version = sequence + 1 /\ state.last = b
            /\ state.epoch = 0 /\ state.running = 0 /\ state.waiting = 0
            /\ state.pending = "" /\ state.status = "" /\ state.compat = NoAccount
        BY <3>1, <3>3, Zenon
      <4> QED BY <2>4, <3>w, <4>1, Zenon
    <3>5. Fresh(k, b, row) BY <3>a, <3>2, <3>4, Zenon DEF Fresh
    <3> QED BY <2>5, <3>5, EntersKeeps
  <2>7. CASE ~fresh
    <3>1. state = info[k] /\ b = uid[k] /\ info[k].id # 0 BY <2>7, Zenon
    <3>2. sequence' = sequence BY <2>1, <2>7
    <3> HIDE DEF state, b
    <3>3. Kept(k, b, row) BY <2>4, <3>1, <3>2 DEF Kept
    <3> QED BY <2>5, <3>3, EntersKeeps
  <2> QED BY <2>6, <2>7
<1>3. CASE ~(k \in Entries \/ HasRoom)
  <2> DEFINE place == IF pc[c] = "idle" THEN "prepared" ELSE "started"
  <2>1. Goto(c, place) /\ UNCHANGED <<router, call>> BY <1>3, <1>k DEF Begin
  <2>2. place \in {"prepared", "started"} OBVIOUS
  <2> HIDE DEF place
  <2>3. pc'[c] = place /\ \A d \in Calls : d # c => pc'[d] = pc[d]
    BY <1>0, <2>1 DEF Goto, CallsTyped
  <2>4. CallsTyped'
    <3>1. pc' \in [Calls -> Places] BY <1>0, <2>1, <2>2 DEF Goto, CallsTyped, Places
    <3> QED BY <1>0, <1>1, <2>1, <3>1 DEF CallsTyped
  <2>5. OthersStill(c) BY <1>1, <2>1, <2>3 DEF OthersStill
  <2>6. call[c].id = 0 /\ call[c] = NoCall BY <1>0, <1>1 DEF PlaceFits, NoCall
  <2>7. \A j \in Keys : Still(j) BY <2>1 DEF Still, router
  <2>8. \A j \in Keys : Running(j)' = Running(j) /\ Waiting(j)' = Waiting(j)
    <3>1. \A d \in Calls : Owns(d)' = Owns(d) BY <1>1, <2>1 DEF Owns, router
    <3>2. ~Owns(c) /\ ~Owns(c)' BY <2>1, <2>6 DEF Owns
    <3>3. Live' \subseteq Calls /\ Live \subseteq Calls BY DEF Live
    <3>4. \A d \in Calls : d # c => (d \in Live' <=> d \in Live) BY <2>3 DEF Live
    <3> QED BY <1>1, <2>1, <3>1, <3>2, <3>3, <3>4 DEF Running, Waiting
  <2>9. Counts' BY <2>1, <2>8 DEF Counts, RouterInv, router
  <2>10. PlaceFits(c)' BY <1>0, <1>1, <2>1, <2>2, <2>3, <2>6 DEF PlaceFits, Picked
  <2>11. SelectionFits(c)' BY <2>2, <2>3 DEF SelectionFits, Selecting
  <2>12. ASSUME NEW j \in Keys PROVE StatusFits(j)'
    BY <1>1, <2>1, <2>3, <2>5, <2>7, StatusStill DEF Trying, router
  <2>13. selection'[c].version <= sequence BY <1>1 DEF RouterInv, Numbered
  <2>14. CompatFollowsBinding' BY <2>1 DEF CompatFollowsBinding, RouterInv, Bindings, router
  <2>15. info' \in [Keys -> States] BY <1>0, <2>1 DEF RouterTyped, router
  <2> QED BY <2>1, <2>4, <2>5, <2>6, <2>7, <2>9, <2>10, <2>11, <2>12, <2>13, <2>14, <2>15,
      OneCallKeeps DEF router
<1> QED BY <1>2, <1>3

-----------------------------------------------------------------------------
\* The operator and time.

LEMMA SameCalls ==
    ASSUME RouterInv, UNCHANGED <<call, selection, pc, choice, served, key>>,
           orphans \subseteq orphans', CountersTyped'
    PROVE  Quiet
<1>1. CallsTyped BY DEF RouterInv
<1>2. CallsTyped' BY <1>1 DEF CallsTyped, CountersTyped, choice
<1>3. \A c \in Calls : QuietCall(c) BY DEF QuietCall, choice
<1> QED BY <1>2, <1>3 DEF Quiet

LEMMA LookKeeps ==
    ASSUME RouterInv, Look
    PROVE  RouterInv'
<1> DEFINE stale == {k \in expired : ~Busy(k)}
<1>0. RouterTyped /\ CallsTyped BY InvParts
<1>1. /\ order' = Staying(Entries \ stale)
      /\ uid' = [k \in Keys |-> IF k \in stale THEN NoAccount ELSE uid[k]]
      /\ info' = [k \in Keys |-> IF k \in stale THEN NoState ELSE info[k]]
      /\ expired' = expired \ stale
      /\ UNCHANGED <<sequence, call, selection, pc, choice, retry, attempt, served,
                     key, events, orphans>>
      /\ stale \in SUBSET Entries
  BY <1>0 DEF Look, RouterTyped
<1>2. PICK k \in Keys : view' = [key |-> k, version |-> info'[k].version, uid |-> uid'[k]]
  BY DEF Look
<1> HIDE DEF stale
<1>3. view' \in [key : Keys, version : Nat, uid : Anyone]
  <2>1. info'[k] \in States
    BY <1>0, <1>1, NoStateTyped DEF RouterTyped
  <2>2. uid'[k] \in Anyone BY <1>0, <1>1 DEF RouterTyped, Anyone
  <2>3. info'[k].version \in Nat BY <2>1 DEF States
  <2> QED BY <1>2, <2>2, <2>3
<1>4. CountersTyped' BY <1>0, <1>1, <1>3 DEF CountersTyped, CallsTyped
<1>5. Quiet BY <1>1, <1>4, SameCalls
<1>6. \A c \in Live : Owns(c) /\ key[c] \in stale => c \in orphans'
  BY OwnerCounted DEF stale
<1> QED BY <1>1, <1>5, <1>6, RemovedKeeps

LEMMA ControlKeeps ==
    ASSUME RouterInv, Control
    PROVE  RouterInv'
<1>0. RouterTyped /\ CallsTyped BY InvParts
<1>1. /\ view # NoView /\ Adverse /\ view' = NoView
      /\ UNCHANGED <<order, uid, expired, call, selection, pc, choice, retry, attempt,
                     served, key, orphans>>
  BY DEF Control
<1>2. CountersTyped'
  <2>1. events \in Nat /\ MaxEvents \in Nat BY <1>0, RouterAssumption DEF CallsTyped
  <2>2. events' \in 0..MaxEvents BY <1>1, <2>1 DEF Adverse
  <2>3. NoView' = NoView BY DEF NoView
  <2> QED BY <1>0, <1>1, <2>2, <2>3 DEF CountersTyped, CallsTyped
<1>3. Quiet BY <1>1, <1>2, SameCalls
<1>4. PICK k \in Keys : k = view.key BY <1>0, <1>1 DEF CallsTyped
<1>5. CASE ViewCurrent
  <2>1. PICK a \in Actions, u \in Anyone, t \in Statuses :
          Answers(a, u, t) /\ info' = [info EXCEPT ![k] = Controlled(@, a, u, t)]
    <3>1. CASE info' = [info EXCEPT ![k] = Controlled(@, "", NoAccount, "cancelled")]
      <4>1. Answers("", NoAccount, "cancelled") BY DEF Answers, Actions, Anyone, Statuses
      <4>2. "" \in Actions /\ NoAccount \in Anyone /\ "cancelled" \in Statuses
        BY DEF Actions, Anyone, Statuses
      <4> QED BY <3>1, <4>1, <4>2
    <3>2. ASSUME NEW v \in SwitchTargets,
                 info' = [info EXCEPT ![k] = Controlled(@, "switch", v, "pending")]
          PROVE  \E a \in Actions, u \in Anyone, t \in Statuses :
                   Answers(a, u, t) /\ info' = [info EXCEPT ![k] = Controlled(@, a, u, t)]
      <4>1. v \in Anyone /\ v # NoAccount BY RouterAssumption DEF SwitchTargets, Anyone
      <4>2. Answers("switch", v, "pending") BY <4>1 DEF Answers, Actions, Statuses
      <4>3. "switch" \in Actions /\ "pending" \in Statuses BY DEF Actions, Statuses
      <4> QED BY <3>2, <4>1, <4>2, <4>3
    <3>3. CASE info' = [info EXCEPT ![k] = Controlled(@, "reselect", NoAccount, "pending")]
      <4>1. Answers("reselect", NoAccount, "pending")
        BY DEF Answers, Actions, Anyone, Statuses
      <4>2. "reselect" \in Actions /\ NoAccount \in Anyone /\ "pending" \in Statuses
        BY DEF Actions, Anyone, Statuses
      <4> QED BY <3>3, <4>1, <4>2
    <3> QED BY <1>4, <1>5, <3>1, <3>2, <3>3 DEF Control
  <2>2. sequence' = sequence + 1 /\ info[k].id # 0
    BY <1>4, <1>5 DEF Control, ViewCurrent
  <2> QED BY <1>1, <1>3, <2>1, <2>2, ControlledKeeps
<1>6. CASE ~ViewCurrent
  <2>1. UNCHANGED router BY <1>1, <1>6 DEF Control, router
  <2> QED BY <1>3, <2>1, SameKeeps
<1> QED BY <1>5, <1>6

LEMMA RemoveAccountKeeps ==
    ASSUME RouterInv, RemoveAccount
    PROVE  RouterInv'
<1>0. CallsTyped BY InvParts
<1>1. PICK u \in Accounts :
        LET gone == {k \in Entries : uid[k] = u}
        IN  /\ Adverse
            /\ order' = Staying(Entries \ gone)
            /\ uid' = [k \in Keys |-> IF k \in gone THEN NoAccount ELSE uid[k]]
            /\ info' = [k \in Keys |-> IF k \in gone THEN NoState ELSE info[k]]
            /\ expired' = expired \ gone
            /\ orphans' = orphans \cup {c \in Calls : Owns(c) /\ key[c] \in gone}
            /\ UNCHANGED <<sequence, call, selection, pc, choice, retry, attempt,
                           served, key, view>>
  BY DEF RemoveAccount
<1> DEFINE gone == {k \in Entries : uid[k] = u}
<1>2. gone \in SUBSET Entries OBVIOUS
<1>3. /\ Adverse
      /\ order' = Staying(Entries \ gone)
      /\ uid' = [k \in Keys |-> IF k \in gone THEN NoAccount ELSE uid[k]]
      /\ info' = [k \in Keys |-> IF k \in gone THEN NoState ELSE info[k]]
      /\ expired' = expired \ gone
      /\ orphans' = orphans \cup {c \in Calls : Owns(c) /\ key[c] \in gone}
      /\ UNCHANGED <<sequence, call, selection, pc, choice, retry, attempt, served,
                     key, view>>
  BY <1>1
<1> HIDE DEF gone
<1>4. CountersTyped'
  <2>1. events \in Nat /\ MaxEvents \in Nat BY <1>0, RouterAssumption DEF CallsTyped
  <2>2. events' \in 0..MaxEvents BY <1>3, <2>1 DEF Adverse
  <2>3. orphans' \subseteq Calls BY <1>0, <1>3 DEF CallsTyped
  <2>4. view' = NoView \/ view' \in [key : Keys, version : Nat, uid : Anyone]
    BY <1>0, <1>3 DEF CallsTyped
  <2>5. NoView' = NoView BY DEF NoView
  <2> QED BY <1>0, <1>3, <2>2, <2>3, <2>4, <2>5 DEF CountersTyped, CallsTyped
<1>5. Quiet BY <1>3, <1>4, SameCalls
<1>6. \A c \in Live : Owns(c) /\ key[c] \in gone => c \in orphans' BY <1>3 DEF Live
<1> QED BY <1>2, <1>3, <1>5, <1>6, RemovedKeeps

LEMMA ExpireKeeps ==
    ASSUME RouterInv, Expire
    PROVE  RouterInv'
<1>0. RouterTyped /\ CallsTyped /\ OrderTyped BY InvParts
<1>1. /\ Adverse /\ expired' \subseteq Entries
      /\ UNCHANGED <<order, uid, info, sequence, call, selection, pc, choice, retry,
                     attempt, served, key, view, orphans>>
  BY <1>0 DEF Expire, RouterTyped
<1>2. CallsTyped'
  <2>1. events \in Nat /\ MaxEvents \in Nat BY <1>0, RouterAssumption DEF CallsTyped
  <2>2. events' \in 0..MaxEvents BY <1>1, <2>1 DEF Adverse
  <2> QED BY <1>0, <1>1, <2>2 DEF CallsTyped, choice
<1>3. RouterTyped' /\ Ordered' /\ EntriesHeld'
  BY <1>0, <1>1 DEF RouterTyped, OrderTyped, Ordered, Entries, EntriesHeld, RouterInv
<1>4. Numbered' /\ Bindings' /\ Controls'
  BY <1>1 DEF RouterInv, Numbered, Bindings, CompatFollowsBinding, Controls
<1>5. ASSUME NEW c \in Calls PROVE PlaceFits(c)' /\ SelectionFits(c)'
  <2>1. PlaceFits(c) /\ SelectionFits(c) BY DEF RouterInv
  <2> QED BY <1>1, <2>1 DEF PlaceFits, SelectionFits, Fits, Current, choice
<1>6. ASSUME NEW k \in Keys PROVE StatusFits(k)'
  <2>1. StatusFits(k) BY DEF RouterInv
  <2> QED BY <1>1, <2>1 DEF StatusFits, Consumed, Owns
<1>7. Live' = Live BY <1>1 DEF Live
<1>8. \A k \in Keys : Running(k)' = Running(k) /\ Waiting(k)' = Waiting(k)
  BY <1>1, <1>7 DEF Running, Waiting, Owns
<1>9. Counts' BY <1>1, <1>8 DEF RouterInv, Counts
<1>10. LiveKept' BY <1>1, <1>7 DEF RouterInv, LiveKept, Owns
<1> QED BY <1>2, <1>3, <1>4, <1>5, <1>6, <1>9, <1>10 DEF RouterInv

LEMMA StutterKeeps ==
    ASSUME RouterInv, UNCHANGED vars
    PROVE  RouterInv'
<1>1. CountersTyped' BY DEF CountersTyped, RouterInv, CallsTyped, vars
<1>2. Quiet BY <1>1, SameCalls DEF vars
<1> QED BY <1>2, SameKeeps DEF vars

-----------------------------------------------------------------------------
\* The invariant.

LEMMA Initially == Init => RouterInv
<1> SUFFICES ASSUME Init PROVE RouterInv OBVIOUS
<1> USE DEF Init
<1>1. /\ NoState.id = 0 /\ NoState.version = 0 /\ NoState.epoch = 0 /\ NoState.pending = ""
      /\ NoState.status = "" /\ NoState.compat = NoAccount
      /\ NoCall.id = 0 /\ NoCall.control = 0 /\ NoSelection.version = 0
      /\ NoSelection.action = ""
  BY DEF NoState, NoCall, NoSelection
<1>2. Entries = {} /\ IsFiniteSet({}) /\ Cardinality({}) = 0
  BY FS_EmptySet DEF Entries
<1>3. MaxEntries \in Nat /\ Attempts - 1 \in Nat /\ Retries \in Nat /\ MaxEvents \in Nat
  BY RouterAssumption
<1>4. NoAccount \in Anyone BY DEF Anyone
<1>5. RouterTyped
  <2>1. info \in [Keys -> States] BY NoStateTyped
  <2>2. Cardinality(Entries) <= MaxEntries BY <1>2, <1>3
  <2> QED BY <1>2, <1>4, <2>1, <2>2 DEF RouterTyped
<1>6. CallsTyped
  <2>1. NoCall \in [id : Nat, running : BOOLEAN, control : Nat, target : Anyone]
    BY <1>4 DEF NoCall
  <2>2. NoSelection \in [version : Nat, action : Actions, target : Anyone, baseline : Anyone]
    BY <1>4 DEF NoSelection, Actions
  <2>3. pc \in [Calls -> Places] BY DEF Places
  <2>4. {seen, pick, served} \subseteq [Calls -> Anyone] BY <1>4
  <2>5. /\ retry \in [Calls -> 0..Retries] /\ attempt \in [Calls -> 0..(Attempts - 1)]
        /\ events \in 0..MaxEvents
    BY <1>3
  <2>6. sticky \in [Calls -> BOOLEAN] /\ orphans \subseteq Calls OBVIOUS
  <2> QED BY <2>1, <2>2, <2>3, <2>4, <2>5, <2>6 DEF CallsTyped
<1>a. /\ \A k \in Keys : info[k] = NoState /\ uid[k] = NoAccount
      /\ \A c \in Calls : call[c] = NoCall /\ selection[c] = NoSelection
  OBVIOUS
<1>7. Ordered /\ EntriesHeld
  <2>1. Ordered BY <1>2 DEF Ordered
  <2>2. EntriesHeld BY <1>a, <1>1, <1>2, Zenon DEF EntriesHeld
  <2> QED BY <2>1, <2>2
<1>8. Numbered /\ Bindings /\ Controls
  <2>1. Numbered
    <3>1. 0 <= 0 /\ sequence = 0 OBVIOUS
    <3> QED BY <1>a, <1>1, <3>1, Zenon DEF Numbered
  <2>2. Bindings BY <1>a, <1>1, Zenon DEF Bindings, CompatFollowsBinding
  <2>3. Controls
    <3>1. NoState.pending # "switch" BY <1>1
    <3> QED BY <1>a, <1>1, <3>1, Zenon DEF Controls
  <2> QED BY <2>1, <2>2, <2>3
<1>9. \A c \in Calls : PlaceFits(c) /\ SelectionFits(c)
  BY <1>1 DEF PlaceFits, SelectionFits, Selecting, Picked
<1>10. \A k \in Keys : StatusFits(k) BY <1>1 DEF StatusFits
<1>11. Counts BY <1>1 DEF Counts
<1>12. LiveKept BY DEF LiveKept, Live
<1> QED BY <1>5, <1>6, <1>7, <1>8, <1>9, <1>10, <1>11, <1>12 DEF RouterInv

LEMMA StepKeeps ==
    ASSUME RouterInv, NEW c \in Calls, Step(c)
    PROVE  RouterInv'
BY BeginKeeps, LookupKeeps, UnstickKeeps, PickAccountKeeps, NoneLeftKeeps, RouteKeeps,
   SelectAccountKeeps, SelectControlledKeeps, SelectRejectedKeeps, SelectBusyKeeps,
   DenyKeeps, RepriceKeeps, CommitKeeps, NotCallableKeeps, RunKeeps, AttemptKeeps,
   SucceedKeeps, FailKeeps, DeniedKeeps, OutcomeKeeps, StopKeeps, AdaptKeeps,
   RotateKeeps, FinishKeeps, Zenon
   DEF Step

LEMMA NextKeeps ==
    ASSUME RouterInv, [Next]_vars
    PROVE  RouterInv'
<1>1. CASE \E c \in Calls : Step(c) BY <1>1, StepKeeps
<1>2. CASE Look BY <1>2, LookKeeps
<1>3. CASE Control BY <1>3, ControlKeeps
<1>4. CASE RemoveAccount BY <1>4, RemoveAccountKeeps
<1>5. CASE Expire BY <1>5, ExpireKeeps
<1>6. CASE UNCHANGED vars BY <1>6, StutterKeeps
<1> QED BY <1>1, <1>2, <1>3, <1>4, <1>5, <1>6, Zenon DEF Next, Finished

\* The inductive invariant of the session router: the types, the numbers the
\* router has given, the bindings, the controls that wait, what the selections
\* under way say of their sessions, the statuses and the counts.
THEOREM InvariantHolds == Spec => []RouterInv
<1>1. RouterInv /\ [Next]_vars => RouterInv' BY NextKeeps
<1> QED BY Initially, <1>1, PTL DEF Spec

\* For any number of calls, sessions, accounts and controls: the running and
\* waiting counts of a session are its calls (Begin, Phase, Finish), a call
\* that is under way loses its entry only with its account (EvictIdleLocked,
\* RemoveLocked), the status of a session is what became of its last control
\* (Commit, Outcome), what an account accepts is not applied to another one
\* (RememberCompatibility) and a pinned account wins over an automatic
\* migration (PreferDomesticSession).
THEOREM SessionsHold == Spec => []SessionsExact
<1>1. RouterInv => SessionsExact
  <2> SUFFICES ASSUME RouterInv PROVE SessionsExact OBVIOUS
  <2>1. TypeOK BY DEF RouterInv, RouterTyped, CallsTyped, TypeOK
  <2>2. CountsExact BY <2>1 DEF RouterInv, Counts, CountsExact
  <2>3. LiveKept BY DEF RouterInv
  <2>4. StatusTruthful
    <3>1. \A c, d \in Calls : call[c].control = call[d].control =>
            call[c].control = 0 \/ c = d
      BY DEF RouterInv, Controls
    <3>2. ASSUME NEW k \in Keys
          PROVE  LET consumers == {c \in Calls : call[c].control = info[k].epoch}
                 IN  /\ info[k].status = "pending" <=> info[k].pending # ""
                     /\ info[k].status = "applied" =>
                          \E c \in consumers : /\ served[c] # NoAccount
                                               /\ served[c] = call[c].target
                     /\ info[k].status = "fallback" =>
                          \E c \in consumers : served[c] \notin {NoAccount, call[c].target}
                     /\ info[k].status = "executing" =>
                          \E c \in consumers :
                            pc[c] \in {"attempting", "succeeded", "failing", "denied"}
      <4>1. StatusFits(k) BY DEF RouterInv
      <4> QED BY <4>1 DEF StatusFits, Consumed, Trying
    <3> QED BY <3>1, <3>2, Zenon DEF StatusTruthful
  <2>5. CompatFollowsBinding BY DEF RouterInv, Bindings
  <2>6. PinWins
    <3> SUFFICES ASSUME NEW c \in Calls, NEW k \in Keys, k = key[c],
                        pc[c] = "bound", selection[c].action = "", sticky[c],
                        info[k].id # 0, Current(c),
                        info[k].manual # NoAccount, info[k].manual = uid[k]
                 PROVE  pick[c] = uid[k]
      BY KeyTyped DEF PinWins
    <3>1. Fits(c) BY DEF RouterInv, SelectionFits, Selecting
    <3> QED BY <3>1 DEF Fits
  <2> QED BY <2>2, <2>3, <2>4, <2>5, <2>6 DEF SessionsExact
<1> QED BY InvariantHolds, <1>1, PTL

-----------------------------------------------------------------------------
\* What becomes of a control that waits.

\* The status of session k does not become "selected".
Unselected(k) == info[k].status # "selected" => info'[k].status # "selected"

LEMMA SameStatus ==
    ASSUME NEW k, info'[k].status = info[k].status
    PROVE  Unselected(k)
BY DEF Unselected

LEMMA ClearStatus ==
    ASSUME RouterInv, NEW j \in Keys, NEW k \in Keys, Clear(j)
    PROVE  Unselected(k)
<1>0. RouterTyped /\ info[j] \in States /\ sequence \in Nat BY InvParts DEF RouterTyped
<1>1. NoState.status = "" BY DEF NoState
<1>2. CASE info' = [info EXCEPT ![j] = NoState]
  <2>1. info'[k] \in {info[k], NoState} BY <1>0, <1>2 DEF RouterTyped
  <2> QED BY <1>1, <2>1 DEF Unselected
<1>3. CASE info' = [info EXCEPT ![j] = Cleared(@)]
  <2>1. info'[k] = info[k] \/ (k = j /\ info'[k] = Cleared(info[j]))
    BY <1>0, <1>3 DEF RouterTyped
  <2>2. k = j /\ info'[k] = Cleared(info[j]) => info'[k].status = info[k].status
    BY <1>0, ClearedRow
  <2> QED BY <2>1, <2>2 DEF Unselected
<1> QED BY <1>2, <1>3 DEF Clear, RemoveLocked

LEMMA BindStatus ==
    ASSUME NEW j, NEW u, NEW k \in Keys, Bind(j, u)
    PROVE  Unselected(k)
<1>1. NoState.status = "" BY DEF NoState
<1>2. info' = info \/ info' = [i \in Keys |-> IF i \in Victims THEN NoState ELSE info[i]]
  BY DEF Bind, router
<1>3. info'[k] \in {info[k], NoState} BY <1>2
<1> QED BY <1>1, <1>3 DEF Unselected

LEMMA ControlledStatus ==
    ASSUME RouterInv, NEW j \in Keys, NEW k \in Keys,
           NEW a \in Actions, NEW u \in Anyone, NEW t \in Statuses \ {"selected"},
           info' = [info EXCEPT ![j] = Controlled(@, a, u, t)]
    PROVE  Unselected(k)
<1>0. RouterTyped /\ info[j] \in States /\ sequence \in Nat BY InvParts DEF RouterTyped
<1>1. info'[k] = info[k] \/ (k = j /\ info'[k] = Controlled(info[j], a, u, t))
  BY <1>0 DEF RouterTyped
<1>2. k = j /\ info'[k] = Controlled(info[j], a, u, t) => info'[k].status = t
  BY <1>0, ControlledRow
<1> QED BY <1>1, <1>2 DEF Unselected

LEMMA RejectStatus ==
    ASSUME RouterInv, NEW j \in Keys, NEW version, NEW k \in Keys, Reject(j, version)
    PROVE  Unselected(k)
<1>1. CASE UNCHANGED router BY <1>1 DEF Unselected, router
<1>2. CASE info' = [info EXCEPT ![j] = Controlled(@, "", NoAccount, "failed")]
  <2>1. "" \in Actions /\ NoAccount \in Anyone /\ "failed" \in Statuses \ {"selected"}
    BY DEF Actions, Anyone, Statuses
  <2> QED BY <1>2, <2>1, ControlledStatus
<1> QED BY <1>1, <1>2 DEF Reject

LEMMA PhaseStatus ==
    ASSUME RouterInv, NEW c \in Calls, NEW b \in BOOLEAN, NEW k \in Keys, Phase(c, b),
           pc[c] \in Places \ Resting, pc'[c] \in Places \ Resting, key' = key,
           \A d \in Calls : d # c => pc'[d] = pc[d]
    PROVE  Unselected(k)
<1>1. c \in Live /\ Live' = Live BY DEF Live, Resting
<1>2. info'[k].status = info[k].status BY <1>1, PhaseCounts
<1> QED BY <1>2, SameStatus

\* Only the commit of a selection that is still current makes it so.
LEMMA SelectedByCommit ==
    ASSUME RouterInv, Next, NEW k \in Keys, ~Unselected(k)
    PROVE  \E c \in Calls : Commit(c) /\ key[c] = k /\ info[k].id # 0 /\ Current(c)
<1>0. RouterTyped /\ CallsTyped BY InvParts
<1>r. \A c \in Calls : key[c] \in Keys BY KeyTyped
<1>n. NoState.status = "" BY DEF NoState
<1>i. info' # info BY DEF Unselected
<1>1. ASSUME NEW c \in Calls, Step(c)
      PROVE  Commit(c) /\ key[c] = k /\ info[k].id # 0 /\ Current(c)
  <2>1. ~Begin(c)
    <3> SUFFICES ASSUME Begin(c) PROVE Unselected(k) OBVIOUS
    <3>1. CASE k = key[c]
      <4>1. info'[k].status \in {info[k].status, ""}
        <5>1. info[k] \in States BY <1>0 DEF RouterTyped
        <5>2. CASE info' = info BY <5>2
        <5>3. CASE info' # info
          <6> DEFINE kept == k \in Entries /\ (k \notin expired \/ Busy(k))
                     gone == IF k \in Entries THEN {} ELSE Victims
                     b == IF kept THEN uid[k] ELSE NoAccount
                     fresh == ~kept \/ info[k].id = 0
                     new == [NoState EXCEPT !.id = sequence + 1, !.version = sequence + 1,
                                            !.last = b]
                     state == IF fresh THEN new ELSE info[k]
                     row == [state EXCEPT !.waiting = @ + 1]
          <6>1. info' = [j \in Keys |-> IF j = k THEN row
                                        ELSE IF j \in gone THEN NoState ELSE info[j]]
            BY <3>1, <5>3, Zenon DEF Begin, router
          <6>2. new.status = "" BY DEF NoState
          <6>3. state.status \in {info[k].status, ""} BY <6>2, Zenon
          <6>4. row.status = state.status
            <7>1. new.status = new.status /\ [new EXCEPT !.waiting = @ + 1].status = new.status
              BY DEF NoState
            <7>2. [info[k] EXCEPT !.waiting = @ + 1].status = info[k].status
              BY <5>1 DEF States
            <7> QED BY <7>1, <7>2, Zenon
          <6> HIDE DEF row, gone, state
          <6>5. info'[k] = row BY <6>1
          <6> QED BY <6>3, <6>4, <6>5
        <5> QED BY <5>2, <5>3
      <4> QED BY <4>1 DEF Unselected
    <3>2. CASE k # key[c]
      <4>1. info'[k] \in {info[k], NoState} BY <3>2 DEF Begin, router
      <4> QED BY <4>1, <1>n DEF Unselected
    <3> QED BY <3>1, <3>2
  <2>2. ~Lookup(c)
    <3> SUFFICES ASSUME Lookup(c) PROVE Unselected(k) OBVIOUS
    <3>1. info'[k] \in {info[k], NoState}
      BY <1>0, <1>r DEF Lookup, RemoveLocked, router, RouterTyped
    <3> QED BY <3>1, <1>n DEF Unselected
  <2>3. ~Unstick(c) BY <1>r, ClearStatus DEF Unstick
  <2>4. ~PickAccount(c) BY BindStatus DEF PickAccount
  <2>5. ~NoneLeft(c) BY <1>i DEF NoneLeft, router
  <2>6. ~Route(c)
    <3> SUFFICES ASSUME Route(c) PROVE Unselected(k) OBVIOUS
    <3>1. /\ pc[c] \in Places \ Resting /\ pc'[c] \in Places \ Resting /\ key' = key
          /\ \A d \in Calls : d # c => pc'[d] = pc[d]
      BY <1>0 DEF Route, Goto, CallsTyped, Places, Resting
    <3>2. Phase(c, FALSE) BY DEF Route
    <3> QED BY <3>1, <3>2, PhaseStatus
  <2>7. ~SelectAccount(c) BY <1>i DEF SelectAccount, router
  <2>8. ~SelectControlled(c) BY <1>i DEF SelectControlled, router
  <2>9. ~SelectRejected(c) BY <1>r, RejectStatus DEF SelectRejected
  <2>10. ~SelectBusy(c) BY <1>i DEF SelectBusy, router
  <2>11. ~Deny(c) BY <1>i, <1>r, RejectStatus DEF Deny, router
  <2>12. ~Reprice(c) BY <1>i, <1>r, RejectStatus DEF Reprice, router
  <2>13. ~NotCallable(c) BY <1>i DEF NotCallable, router
  <2>14. ~Run(c)
    <3> SUFFICES ASSUME Run(c) PROVE Unselected(k) OBVIOUS
    <3>1. /\ pc[c] \in Places \ Resting /\ pc'[c] \in Places \ Resting /\ key' = key
          /\ \A d \in Calls : d # c => pc'[d] = pc[d]
      BY <1>0 DEF Run, Goto, CallsTyped, Places, Resting
    <3>2. Phase(c, TRUE) BY DEF Run
    <3> QED BY <3>1, <3>2, PhaseStatus
  <2>15. ~Attempt(c)
    <3> SUFFICES ASSUME Attempt(c) PROVE Unselected(k) OBVIOUS
    <3>1. info'[k].status \in {info[k].status, "executing"}
      BY <1>0, <1>r DEF Attempt, RouterTyped, States
    <3> QED BY <3>1 DEF Unselected
  <2>16. ~Succeed(c)
    <3> SUFFICES ASSUME Succeed(c) PROVE Unselected(k) OBVIOUS
    <3>1. info'[k].status = info[k].status BY <1>0, <1>r DEF Succeed, RouterTyped, States
    <3> QED BY <3>1, SameStatus
  <2>17. ~Fail(c) BY <1>i DEF Fail, router
  <2>18. ~Denied(c) BY <1>i, <1>r, ClearStatus DEF Denied, UnbindMatching, router
  <2>19. ~Outcome(c)
    <3> SUFFICES ASSUME Outcome(c) PROVE Unselected(k) OBVIOUS
    <3>1. info'[k].status \in {info[k].status, "failed", "applied", "fallback"}
      BY <1>0, <1>r DEF Outcome, RouterTyped, States
    <3> QED BY <3>1 DEF Unselected
  <2>20. ~Stop(c) BY <1>i DEF Stop, router
  <2>21. ~Adapt(c) BY <1>i DEF Adapt, router
  <2>22. ~Rotate(c) BY <1>i, <1>r, ClearStatus DEF Rotate, UnbindMatching, router
  <2>23. ~Finish(c)
    <3> SUFFICES ASSUME Finish(c) PROVE Unselected(k) OBVIOUS
    <3>1. info'[k].status = info[k].status BY <1>0, <1>r DEF Finish, RouterTyped, States
    <3> QED BY <3>1, SameStatus
  <2>24. Commit(c)
    BY <1>1, <2>1, <2>2, <2>3, <2>4, <2>5, <2>6, <2>7, <2>8, <2>9, <2>10, <2>11, <2>12,
       <2>13, <2>14, <2>15, <2>16, <2>17, <2>18, <2>19, <2>20, <2>21, <2>22, <2>23, Zenon
       DEF Step
  <2>25. info[key[c]].id # 0 /\ Current(c) /\ key[c] = k
    <3>1. CASE info[key[c]].id = 0 BY <2>24, <3>1, <1>i, BindStatus DEF Commit, router
    <3>2. CASE info[key[c]].id # 0 /\ ~Current(c) BY <2>24, <3>2, <1>i DEF Commit, router
    <3>3. CASE info[key[c]].id # 0 /\ Current(c) /\ key[c] # k
      <4> DEFINE row == Committed(info[key[c]], uid[key[c]], pick[c])
      <4>1. info' = [info EXCEPT ![key[c]] = row] BY <2>24, <3>3 DEF Commit
      <4> HIDE DEF row
      <4>2. info'[k] = info[k] BY <1>0, <3>3, <4>1 DEF RouterTyped
      <4> QED BY <4>2 DEF Unselected
    <3> QED BY <3>1, <3>2, <3>3
  <2> QED BY <2>24, <2>25
<1>2. ~Look
  <2> SUFFICES ASSUME Look PROVE Unselected(k) OBVIOUS
  <2>1. info'[k] \in {info[k], NoState} BY DEF Look
  <2> QED BY <1>n, <2>1 DEF Unselected
<1>3. ~Control
  <2> SUFFICES ASSUME Control PROVE Unselected(k) OBVIOUS
  <2>0. view.key \in Keys BY <1>0 DEF Control, CallsTyped
  <2>1. /\ Actions = {"", "switch", "reselect"} /\ NoAccount \in Anyone
        /\ SwitchTargets \subseteq Anyone
        /\ {"cancelled", "pending"} \subseteq Statuses \ {"selected"}
    BY DEF Actions, Anyone, Statuses, SwitchTargets
  <2>2. \/ \E a \in Actions, u \in Anyone, t \in Statuses \ {"selected"} :
             info' = [info EXCEPT ![view.key] = Controlled(@, a, u, t)]
        \/ info' = info
    BY <2>1 DEF Control
  <2> QED BY <1>i, <2>0, <2>2, ControlledStatus
<1>4. ~RemoveAccount
  <2> SUFFICES ASSUME RemoveAccount PROVE Unselected(k) OBVIOUS
  <2>1. info'[k] \in {info[k], NoState} BY DEF RemoveAccount
  <2> QED BY <1>n, <2>1 DEF Unselected
<1>5. ~Expire BY <1>i DEF Expire
<1>6. ~Finished BY <1>i DEF Finished, vars, router
<1> QED BY <1>1, <1>2, <1>3, <1>4, <1>5, <1>6 DEF Next

\* A control that an operator gave a session is consumed by one commit, which
\* binds the account the control asks for: a switch binds and pins its target,
\* a reselection binds another account than the last one and leaves none
\* pinned (Commit in session_control.go).
THEOREM ControlsHold == Spec => ControlHonoured
<1>1. RouterInv /\ [Next]_vars => [ControlOnce]_vars
  <2> SUFFICES ASSUME RouterInv, Next, NEW k \in Keys, info[k].pending # "",
                      info'[k].id = info[k].id, info'[k].status = "selected"
               PROVE  IF info[k].pending = "switch"
                      THEN uid'[k] = info[k].target /\ info'[k].manual = info[k].target
                      ELSE uid'[k] # info[k].last /\ info'[k].manual = NoAccount
    BY DEF ControlOnce
  <2>0. /\ RouterTyped /\ CallsTyped /\ sequence \in Nat
        /\ info[k] \in States /\ uid[k] \in Anyone
    BY InvParts DEF RouterTyped
  <2>1. info[k].status = "pending" BY DEF RouterInv, StatusFits
  <2>2. ~Unselected(k) BY <2>1 DEF Unselected
  <2>3. PICK c \in Calls : Commit(c) /\ key[c] = k /\ info[k].id # 0 /\ Current(c)
    BY <2>2, SelectedByCommit
  <2>4. /\ pc[c] = "bound" /\ uid' = [uid EXCEPT ![k] = pick[c]]
        /\ info' = [info EXCEPT ![k] = Committed(@, uid[k], pick[c])]
    BY <2>3 DEF Commit
  <2>5. Fits(c) BY <2>3, <2>4 DEF RouterInv, SelectionFits, Selecting
  <2>6. pick[c] \in Anyone BY <2>0 DEF CallsTyped
  <2>7. uid'[k] = pick[c] BY <2>0, <2>4 DEF RouterTyped
  <2>8. CommittedAs(info[k], uid[k], pick[c], info'[k])
    <3> DEFINE row == Committed(info[k], uid[k], pick[c])
    <3>1. info' = [info EXCEPT ![k] = row] BY <2>4
    <3> HIDE DEF row
    <3>2. info'[k] = row BY <2>0, <3>1 DEF RouterTyped
    <3> QED BY <2>0, <2>6, <3>2, CommittedRow DEF row
  <2>9. info'[k].manual = IF info[k].pending = "switch" THEN pick[c] ELSE NoAccount
    BY <2>8 DEF CommittedAs
  <2>10. /\ info[k].pending = "switch" => pick[c] = info[k].target
         /\ info[k].pending = "reselect" => pick[c] # info[k].last
    BY <2>3, <2>4, <2>5 DEF Fits
  <2>11. info[k].pending \in {"switch", "reselect"} BY <2>0 DEF States, Actions
  <2> QED BY <2>7, <2>9, <2>10, <2>11
<1> QED BY InvariantHolds, <1>1, PTL DEF Spec, ControlHonoured

=============================================================================
