-------------------------- MODULE AdmissionProofs --------------------------
(***************************************************************************)
(* Proofs about the admission controller, for every configuration and any  *)
(* finite set of requests: its counters are exact, its limits and leases   *)
(* hold, and its queue is fair: no wakeup is lost, private capacity stays  *)
(* reserved, and the turn of a key is forgotten with its last lease.       *)
(***************************************************************************)
EXTENDS Admission, FiniteSetTheorems, SequenceTheorems, TLAPS

SlotsInv == SlotsTyped /\ SlotsExact /\ (~Unlimited => SlotLimits)
MemoryInv == MemoryTyped /\ BuffersExact /\ (~Unlimited => MemoryLimits)
HoldingInv == HoldingTyped /\ AccountsExact /\ (~Unlimited => HoldingLimits)
QueueInv == QueueTyped /\ QueueDistinct /\ (~Unlimited => QueueLimits)

-----------------------------------------------------------------------------
\* Counting

\* Adding a new element to a finite set, or taking one away, moves its
\* cardinality by one; a subset of a finite set can be counted.
LEMMA CountOne ==
    ASSUME NEW S, IsFiniteSet(S), NEW r
    PROVE  /\ Cardinality(S) \in Nat
           /\ r \notin S => Cardinality(S \cup {r}) = Cardinality(S) + 1
           /\ r \in S => Cardinality(S \ {r}) = Cardinality(S) - 1
           /\ \A T \in SUBSET S : IsFiniteSet(T) /\ Cardinality(T) <= Cardinality(S)
BY FS_AddElement, FS_RemoveElement, FS_CardinalityType, FS_Subset

\* The limits that newModelAdmission derives are natural numbers.
LEMMA ConfigTyped ==
    /\ SharedCapacity \in Nat /\ SharedCapacity <= Capacity
    /\ SharedQueue \in Nat
    /\ SharedBufferBudget \in Nat
    /\ Capacity \in Nat /\ QueueSize \in Nat
    /\ ResponseLimit \in Nat /\ BufferBudget \in Nat /\ AccountLimit \in Nat
    /\ \A r \in Requests : Charge(r) \in Nat /\ Limit(r) \in Nat
BY AdmissionAssumption
   DEF SharedCapacity, SharedQueue, SharedBufferBudget, AtMost, Charge, Limit

\* A ticket that is not running enters a slot: every slot counter moves with
\* the set of running tickets, and a guarded entry stays within the limits.
LEMMA EnterSlotInv ==
    ASSUME SlotsInv, NEW r \in Requests, r \notin running, EnterSlot(r),
           ~Unlimited => active < Capacity /\ byKey[KeyOf[r]] < Limit(r)
                         /\ SharedRoom(r)
    PROVE  SlotsInv'
<1> DEFINE K(k) == {q \in running : KeyOf[q] = k}
           M(m) == {q \in running : Shared(q) /\ ModelOf[q] = m}
           P == {q \in running : Shared(q)}
<1>1. running' = running \cup {r} /\ running' \subseteq Requests
  BY DEF SlotsInv, SlotsTyped, EnterSlot
<1>2. IsFiniteSet(running)
  BY AdmissionAssumption, FS_Subset DEF SlotsInv, SlotsTyped
<1>3. KeyOf[r] \in Keys /\ ModelOf[r] \in Models
  BY AdmissionAssumption
<1>4. active' \in Nat /\ active' = Cardinality(running')
  BY <1>1, <1>2, CountOne DEF SlotsInv, SlotsTyped, SlotsExact, EnterSlot
<1>5. sharedActive' \in Nat
      /\ sharedActive' = Cardinality({q \in running' : Shared(q)})
  <2>1. CASE Shared(r)
    <3>1. {q \in running' : Shared(q)} = P \cup {r} BY <1>1, <2>1
    <3>2. IsFiniteSet(P) /\ r \notin P BY <1>2, FS_Subset
    <3> QED BY <2>1, <3>1, <3>2, CountOne
         DEF SlotsInv, SlotsTyped, SlotsExact, EnterSlot
  <2>2. CASE ~Shared(r)
    <3>1. {q \in running' : Shared(q)} = P BY <1>1, <2>2
    <3> QED BY <2>2, <3>1 DEF SlotsInv, SlotsTyped, SlotsExact, EnterSlot
  <2> QED BY <2>1, <2>2
<1>6. byKey' \in [Keys -> Nat]
      /\ \A k \in Keys : byKey'[k] = Cardinality({q \in running' : KeyOf[q] = k})
  <2>1. byKey' \in [Keys -> Nat]
    BY <1>3 DEF SlotsInv, SlotsTyped, EnterSlot
  <2>2. ASSUME NEW k \in Keys
        PROVE  byKey'[k] = Cardinality({q \in running' : KeyOf[q] = k})
    <3>1. IsFiniteSet(K(k)) /\ r \notin K(k) BY <1>2, FS_Subset
    <3>2. byKey[k] = Cardinality(K(k)) BY DEF SlotsInv, SlotsExact
    <3>3. CASE k = KeyOf[r]
      <4>1. {q \in running' : KeyOf[q] = k} = K(k) \cup {r} BY <1>1, <3>3
      <4>2. byKey'[k] = byKey[k] + 1
        BY <3>3 DEF SlotsInv, SlotsTyped, EnterSlot
      <4> QED BY <3>1, <3>2, <4>1, <4>2, CountOne
    <3>4. CASE k # KeyOf[r]
      <4>1. {q \in running' : KeyOf[q] = k} = K(k) BY <1>1, <3>4
      <4>2. byKey'[k] = byKey[k]
        BY <3>4 DEF SlotsInv, SlotsTyped, EnterSlot
      <4> QED BY <3>2, <4>1, <4>2
    <3> QED BY <3>3, <3>4
  <2> QED BY <2>1, <2>2
<1>7. byModel' \in [Models -> Nat]
      /\ \A m \in Models : byModel'[m] =
            Cardinality({q \in running' : Shared(q) /\ ModelOf[q] = m})
  <2>1. byModel' \in [Models -> Nat]
    BY <1>3 DEF SlotsInv, SlotsTyped, EnterSlot
  <2>2. ASSUME NEW m \in Models
        PROVE  byModel'[m] =
                 Cardinality({q \in running' : Shared(q) /\ ModelOf[q] = m})
    <3>1. IsFiniteSet(M(m)) /\ r \notin M(m) BY <1>2, FS_Subset
    <3>2. byModel[m] = Cardinality(M(m)) BY DEF SlotsInv, SlotsExact
    <3>3. CASE Shared(r) /\ m = ModelOf[r]
      <4>1. {q \in running' : Shared(q) /\ ModelOf[q] = m} = M(m) \cup {r}
        BY <1>1, <3>3
      <4>2. byModel'[m] = byModel[m] + 1
        BY <3>3 DEF SlotsInv, SlotsTyped, EnterSlot
      <4> QED BY <3>1, <3>2, <4>1, <4>2, CountOne
    <3>4. CASE ~(Shared(r) /\ m = ModelOf[r])
      <4>1. {q \in running' : Shared(q) /\ ModelOf[q] = m} = M(m)
        BY <1>1, <3>4
      <4>2. byModel'[m] = byModel[m]
        BY <3>4 DEF SlotsInv, SlotsTyped, EnterSlot
      <4> QED BY <3>2, <4>1, <4>2
    <3> QED BY <3>3, <3>4
  <2> QED BY <2>1, <2>2
<1>8. ASSUME ~Unlimited PROVE SlotLimits'
  <2>1. active' <= Capacity
    BY <1>8, ConfigTyped DEF SlotsInv, SlotsTyped, EnterSlot
  <2>2. sharedActive' <= SharedCapacity
    BY <1>8, ConfigTyped DEF SlotsInv, SlotsTyped, SlotLimits, EnterSlot, SharedRoom
  <2>3. ASSUME NEW q \in running' PROVE byKey'[KeyOf[q]] <= Limit(q)
    <3>1. q \in Requests /\ KeyOf[q] \in Keys BY <1>1, <2>3, AdmissionAssumption
    <3>2. CASE KeyOf[q] = KeyOf[r]
      <4>1. Limit(q) = Limit(r) BY <3>2 DEF Limit
      <4>2. byKey'[KeyOf[q]] = byKey[KeyOf[r]] + 1
        BY <1>3, <3>2 DEF SlotsInv, SlotsTyped, EnterSlot
      <4> QED BY <1>3, <1>8, <4>1, <4>2, ConfigTyped DEF SlotsInv, SlotsTyped
    <3>3. CASE KeyOf[q] # KeyOf[r]
      <4>1. byKey'[KeyOf[q]] = byKey[KeyOf[q]]
        BY <3>1, <3>3 DEF SlotsInv, SlotsTyped, EnterSlot
      <4>2. q \in running BY <1>1, <2>3, <3>3
      <4> QED BY <1>8, <4>1, <4>2 DEF SlotsInv, SlotLimits
    <3> QED BY <3>2, <3>3
  <2> QED BY <2>1, <2>2, <2>3 DEF SlotLimits, Limit, SharedCapacity, AtMost
<1> QED BY <1>1, <1>4, <1>5, <1>6, <1>7, <1>8
     DEF SlotsInv, SlotsTyped, SlotsExact, Shared

\* A running ticket leaves its slot: every slot counter goes down with the
\* set of running tickets and none becomes negative.
LEMMA LeaveSlotInv ==
    ASSUME SlotsInv, NEW r \in Requests, r \in running, LeaveSlot(r)
    PROVE  SlotsInv'
<1> DEFINE K(k) == {q \in running : KeyOf[q] = k}
           M(m) == {q \in running : Shared(q) /\ ModelOf[q] = m}
           P == {q \in running : Shared(q)}
<1>1. running' = running \ {r} /\ running' \subseteq Requests
  BY DEF SlotsInv, SlotsTyped, LeaveSlot
<1>2. IsFiniteSet(running)
  BY AdmissionAssumption, FS_Subset DEF SlotsInv, SlotsTyped
<1>3. KeyOf[r] \in Keys /\ ModelOf[r] \in Models
  BY AdmissionAssumption
<1>4. active' \in Nat /\ active' = Cardinality(running')
  BY <1>1, <1>2, CountOne DEF SlotsInv, SlotsTyped, SlotsExact, LeaveSlot
<1>5. sharedActive' \in Nat
      /\ sharedActive' = Cardinality({q \in running' : Shared(q)})
  <2>1. CASE Shared(r)
    <3>1. {q \in running' : Shared(q)} = P \ {r} BY <1>1, <2>1
    <3>2. IsFiniteSet(P) /\ r \in P BY <1>2, <2>1, FS_Subset
    <3> QED BY <2>1, <3>1, <3>2, CountOne
         DEF SlotsInv, SlotsTyped, SlotsExact, LeaveSlot
  <2>2. CASE ~Shared(r)
    <3>1. {q \in running' : Shared(q)} = P BY <1>1, <2>2
    <3> QED BY <2>2, <3>1 DEF SlotsInv, SlotsTyped, SlotsExact, LeaveSlot
  <2> QED BY <2>1, <2>2
<1>6. byKey' \in [Keys -> Nat]
      /\ \A k \in Keys : byKey'[k] = Cardinality({q \in running' : KeyOf[q] = k})
  <2>1. byKey' \in [Keys -> Int]
    BY <1>3 DEF SlotsInv, SlotsTyped, LeaveSlot
  <2>2. ASSUME NEW k \in Keys
        PROVE  byKey'[k] = Cardinality({q \in running' : KeyOf[q] = k})
    <3>1. IsFiniteSet(K(k)) BY <1>2, FS_Subset
    <3>2. byKey[k] = Cardinality(K(k)) BY DEF SlotsInv, SlotsExact
    <3>3. CASE k = KeyOf[r]
      <4>1. {q \in running' : KeyOf[q] = k} = K(k) \ {r} /\ r \in K(k)
        BY <1>1, <3>3
      <4>2. byKey'[k] = byKey[k] - 1
        BY <3>3 DEF SlotsInv, SlotsTyped, LeaveSlot
      <4> QED BY <3>1, <3>2, <4>1, <4>2, CountOne
    <3>4. CASE k # KeyOf[r]
      <4>1. {q \in running' : KeyOf[q] = k} = K(k) BY <1>1, <3>4
      <4>2. byKey'[k] = byKey[k]
        BY <3>4 DEF SlotsInv, SlotsTyped, LeaveSlot
      <4> QED BY <3>2, <4>1, <4>2
    <3> QED BY <3>3, <3>4
  <2>3. \A k \in Keys : byKey'[k] \in Nat
    <3> TAKE k \in Keys
    <3>1. IsFiniteSet({q \in running' : KeyOf[q] = k}) BY <1>1, <1>2, FS_Subset
    <3> QED BY <2>2, <3>1, CountOne
  <2> QED BY <2>1, <2>2, <2>3
<1>7. byModel' \in [Models -> Nat]
      /\ \A m \in Models : byModel'[m] =
            Cardinality({q \in running' : Shared(q) /\ ModelOf[q] = m})
  <2>1. byModel' \in [Models -> Int]
    BY <1>3 DEF SlotsInv, SlotsTyped, LeaveSlot
  <2>2. ASSUME NEW m \in Models
        PROVE  byModel'[m] =
                 Cardinality({q \in running' : Shared(q) /\ ModelOf[q] = m})
    <3>1. IsFiniteSet(M(m)) BY <1>2, FS_Subset
    <3>2. byModel[m] = Cardinality(M(m)) BY DEF SlotsInv, SlotsExact
    <3>3. CASE Shared(r) /\ m = ModelOf[r]
      <4>1. {q \in running' : Shared(q) /\ ModelOf[q] = m} = M(m) \ {r}
            /\ r \in M(m)
        BY <1>1, <3>3
      <4>2. byModel'[m] = byModel[m] - 1
        BY <3>3 DEF SlotsInv, SlotsTyped, LeaveSlot
      <4> QED BY <3>1, <3>2, <4>1, <4>2, CountOne
    <3>4. CASE ~(Shared(r) /\ m = ModelOf[r])
      <4>1. {q \in running' : Shared(q) /\ ModelOf[q] = m} = M(m)
        BY <1>1, <3>4
      <4>2. byModel'[m] = byModel[m]
        BY <3>4 DEF SlotsInv, SlotsTyped, LeaveSlot
      <4> QED BY <3>2, <4>1, <4>2
    <3> QED BY <3>3, <3>4
  <2>3. \A m \in Models : byModel'[m] \in Nat
    <3> TAKE m \in Models
    <3>1. IsFiniteSet({q \in running' : Shared(q) /\ ModelOf[q] = m}) BY <1>1, <1>2, FS_Subset
    <3> QED BY <2>2, <3>1, CountOne
  <2> QED BY <2>1, <2>2, <2>3
<1>8. ASSUME ~Unlimited PROVE SlotLimits'
  <2>1. active' <= Capacity
    BY <1>8, ConfigTyped DEF SlotsInv, SlotsTyped, SlotLimits, LeaveSlot
  <2>2. sharedActive' <= SharedCapacity
    BY <1>8, ConfigTyped DEF SlotsInv, SlotsTyped, SlotLimits, LeaveSlot
  <2>3. ASSUME NEW q \in running' PROVE byKey'[KeyOf[q]] <= Limit(q)
    <3>1. q \in running /\ q \in Requests /\ KeyOf[q] \in Keys
      BY <1>1, <2>3, AdmissionAssumption
    <3>2. byKey'[KeyOf[q]] <= byKey[KeyOf[q]]
      BY <1>3, <3>1 DEF SlotsInv, SlotsTyped, LeaveSlot
    <3>3. byKey[KeyOf[q]] <= Limit(q) BY <1>8, <3>1 DEF SlotsInv, SlotLimits
    <3> QED BY <1>6, <3>1, <3>2, <3>3, ConfigTyped DEF SlotsInv, SlotsTyped
  <2> QED BY <2>1, <2>2, <2>3 DEF SlotLimits, Limit, SharedCapacity, AtMost
<1> QED BY <1>1, <1>4, <1>5, <1>6, <1>7, <1>8
     DEF SlotsInv, SlotsTyped, SlotsExact, Shared

\* The charge of a set of tickets grows by the charge of a new one.
LEMMA ChargeAdd ==
    ASSUME NEW S, S \subseteq Requests, NEW r \in Requests, r \notin S
    PROVE  /\ ChargeOf(S) \in Nat
           /\ ChargeOf(S \cup {r}) = ChargeOf(S) + Charge(r)
<1> DEFINE N == S \ Streaming
           T == S \cap Streaming
<1>1. IsFiniteSet(S) /\ IsFiniteSet(N) /\ IsFiniteSet(T)
  BY AdmissionAssumption, FS_Subset
<1>2. Cardinality(N) \in Nat /\ Cardinality(T) \in Nat
  BY <1>1, FS_CardinalityType
<1>3. ChargeOf(S) = 4 * ResponseLimit * Cardinality(N)
                    + 2 * ResponseLimit * Cardinality(T)
  BY DEF ChargeOf
<1>4. \A x, y \in Nat :
        /\ 4 * ResponseLimit * x + 2 * ResponseLimit * y \in Nat
        /\ 4 * ResponseLimit * (x + 1) + 2 * ResponseLimit * y
             = 4 * ResponseLimit * x + 2 * ResponseLimit * y + 4 * ResponseLimit
        /\ 4 * ResponseLimit * x + 2 * ResponseLimit * (y + 1)
             = 4 * ResponseLimit * x + 2 * ResponseLimit * y + 2 * ResponseLimit
  BY ConfigTyped
<1>5. CASE r \in Streaming
  <2>1. (S \cup {r}) \ Streaming = N /\ (S \cup {r}) \cap Streaming = T \cup {r}
    BY <1>5
  <2>2. Cardinality(T \cup {r}) = Cardinality(T) + 1
    BY <1>1, CountOne
  <2>3. ChargeOf(S \cup {r}) = 4 * ResponseLimit * Cardinality(N)
                              + 2 * ResponseLimit * (Cardinality(T) + 1)
    BY <2>1, <2>2 DEF ChargeOf
  <2>4. Charge(r) = 2 * ResponseLimit BY <1>5 DEF Charge
  <2> QED BY <1>2, <1>3, <1>4, <2>3, <2>4
<1>6. CASE r \notin Streaming
  <2>1. (S \cup {r}) \ Streaming = N \cup {r} /\ (S \cup {r}) \cap Streaming = T
    BY <1>6
  <2>2. Cardinality(N \cup {r}) = Cardinality(N) + 1
    BY <1>1, CountOne
  <2>3. ChargeOf(S \cup {r}) = 4 * ResponseLimit * (Cardinality(N) + 1)
                              + 2 * ResponseLimit * Cardinality(T)
    BY <2>1, <2>2 DEF ChargeOf
  <2>4. Charge(r) = 4 * ResponseLimit BY <1>6 DEF Charge
  <2> QED BY <1>2, <1>3, <1>4, <2>3, <2>4
<1> QED BY <1>5, <1>6

\* Reserving a buffer, when it is already held or has room.
LEMMA ReserveBufferInv ==
    ASSUME MemoryInv, NEW r \in Requests, ReserveBuffer(r),
           ~Unlimited => BufferRoom(r)
    PROVE  MemoryInv' /\ buffered' = buffered \cup {r}
<1> DEFINE P == {q \in buffered : Shared(q)}
<1>1. CASE r \in buffered
  BY <1>1 DEF MemoryInv, MemoryTyped, BuffersExact, MemoryLimits, ReserveBuffer,
     memory, ChargeOf, Shared
<1>2. CASE r \notin buffered
  <2>1. buffered' = buffered \cup {r} /\ buffers' = buffers + Charge(r)
        /\ sharedBuffers' =
             IF Shared(r) THEN sharedBuffers + Charge(r) ELSE sharedBuffers
    BY <1>2 DEF ReserveBuffer
  <2>2. buffers' \in Nat /\ sharedBuffers' \in Nat /\ buffered' \subseteq Requests
    BY <2>1, ConfigTyped DEF MemoryInv, MemoryTyped
  <2>3. buffers' = ChargeOf(buffered')
    BY <1>2, <2>1, ChargeAdd DEF MemoryInv, MemoryTyped, BuffersExact
  <2>4. sharedBuffers' = ChargeOf({q \in buffered' : Shared(q)})
    <3>1. P \subseteq Requests /\ r \notin P
      BY <1>2 DEF MemoryInv, MemoryTyped
    <3>2. CASE Shared(r)
      <4>1. {q \in buffered' : Shared(q)} = P \cup {r} BY <2>1, <3>2
      <4> QED BY <2>1, <3>1, <3>2, <4>1, ChargeAdd DEF MemoryInv, BuffersExact
    <3>3. CASE ~Shared(r)
      <4>1. {q \in buffered' : Shared(q)} = P BY <2>1, <3>3
      <4> QED BY <2>1, <3>3, <4>1 DEF MemoryInv, BuffersExact
    <3> QED BY <3>2, <3>3
  <2>5. ~Unlimited => buffers' <= BufferBudget /\ sharedBuffers' <= SharedBufferBudget
    BY <1>2, <2>1 DEF MemoryInv, MemoryLimits, BufferRoom
  <2>6. BuffersExact' BY <2>3, <2>4 DEF BuffersExact, ChargeOf, Shared
  <2> QED BY <2>1, <2>2, <2>5, <2>6
       DEF MemoryInv, MemoryTyped, MemoryLimits, SharedBufferBudget
<1> QED BY <1>1, <1>2

\* Releasing a buffer, held or not.
LEMMA ReleaseBufferInv ==
    ASSUME MemoryInv, NEW r \in Requests, ReleaseBuffer(r)
    PROVE  MemoryInv' /\ buffered' = buffered \ {r}
<1> DEFINE P == {q \in buffered : Shared(q)}
<1>1. CASE r \notin buffered
  BY <1>1 DEF MemoryInv, MemoryTyped, BuffersExact, MemoryLimits, ReleaseBuffer,
     memory, ChargeOf, Shared
<1>2. CASE r \in buffered
  <2>1. buffered' = buffered \ {r} /\ buffers' = buffers - Charge(r)
        /\ sharedBuffers' =
             IF Shared(r) THEN sharedBuffers - Charge(r) ELSE sharedBuffers
    BY <1>2 DEF ReleaseBuffer
  <2>2. buffers' = ChargeOf(buffered') /\ buffers' \in Nat
    <3>1. buffered = buffered' \cup {r} /\ r \notin buffered'
          /\ buffered' \subseteq Requests
      BY <1>2, <2>1 DEF MemoryInv, MemoryTyped
    <3>2. ChargeOf(buffered') \in Nat
          /\ ChargeOf(buffered) = ChargeOf(buffered') + Charge(r)
      BY <3>1, ChargeAdd
    <3> QED BY <2>1, <3>2, ConfigTyped DEF MemoryInv, BuffersExact
  <2>3. sharedBuffers' = ChargeOf({q \in buffered' : Shared(q)})
        /\ sharedBuffers' \in Nat
    <3>1. CASE Shared(r)
      <4> DEFINE D == {q \in buffered' : Shared(q)}
      <4>1. P = D \cup {r} /\ r \notin D /\ D \subseteq Requests
        BY <1>2, <2>1, <3>1 DEF MemoryInv, MemoryTyped
      <4> HIDE DEF D
      <4>2. ChargeOf(D) \in Nat /\ ChargeOf(P) = ChargeOf(D) + Charge(r)
        BY <4>1, ChargeAdd
      <4>3. sharedBuffers = ChargeOf(P) BY DEF MemoryInv, BuffersExact
      <4>4. sharedBuffers' = ChargeOf(D) BY <2>1, <3>1, <4>2, <4>3, ConfigTyped
      <4> QED BY <4>2, <4>4 DEF D
    <3>2. CASE ~Shared(r)
      <4>1. {q \in buffered' : Shared(q)} = P BY <2>1, <3>2
      <4> QED BY <2>1, <3>2, <4>1 DEF MemoryInv, MemoryTyped, BuffersExact
    <3> QED BY <3>1, <3>2
  <2>4. ~Unlimited => buffers' <= BufferBudget /\ sharedBuffers' <= SharedBufferBudget
    BY <2>1, ConfigTyped DEF MemoryInv, MemoryTyped, MemoryLimits
  <2>5. BuffersExact' BY <2>2, <2>3 DEF BuffersExact, ChargeOf, Shared
  <2> QED BY <2>1, <2>2, <2>3, <2>4, <2>5
       DEF MemoryInv, MemoryTyped, MemoryLimits, SharedBufferBudget
<1> QED BY <1>1, <1>2

-----------------------------------------------------------------------------
\* Account permits

\* A ticket without an account takes a permit of one that has one left.
LEMMA HoldAccountInv ==
    ASSUME HoldingInv, NEW r \in Requests, account[r] = NoAccount,
           NEW u \in Accounts, HoldAccount(r, u),
           ~Unlimited => u \notin Busy
    PROVE  HoldingInv' /\ account' = [account EXCEPT ![r] = u]
<1> DEFINE H(v) == {q \in Requests : account[q] = v}
<1>1. account' = [account EXCEPT ![r] = u]
      /\ byAccount' = [byAccount EXCEPT ![u] = @ + 1]
  BY DEF HoldAccount
<1>2. HoldingTyped' BY <1>1 DEF HoldingInv, HoldingTyped
<1>3. NoAccount \notin Accounts BY AdmissionAssumption
<1>4. ASSUME NEW v \in Accounts
      PROVE  byAccount'[v] = Cardinality({q \in Requests : account'[q] = v})
  <2>1. IsFiniteSet(H(v)) BY AdmissionAssumption, FS_Subset
  <2>2. byAccount[v] = Cardinality(H(v)) BY DEF HoldingInv, AccountsExact
  <2>3. CASE v = u
    <3>1. {q \in Requests : account'[q] = v} = H(v) \cup {r} /\ r \notin H(v)
      BY <1>1, <1>3, <2>3 DEF HoldingInv, HoldingTyped
    <3>2. byAccount'[v] = byAccount[v] + 1
      BY <1>1, <2>3 DEF HoldingInv, HoldingTyped
    <3> QED BY <2>1, <2>2, <3>1, <3>2, CountOne
  <2>4. CASE v # u
    <3>1. {q \in Requests : account'[q] = v} = H(v)
      BY <1>1, <1>3, <2>4 DEF HoldingInv, HoldingTyped
    <3>2. byAccount'[v] = byAccount[v]
      BY <1>1, <2>4 DEF HoldingInv, HoldingTyped
    <3> QED BY <2>2, <3>1, <3>2
  <2> QED BY <2>3, <2>4
<1>5. ~Unlimited => HoldingLimits'
  BY <1>1, ConfigTyped DEF HoldingInv, HoldingTyped, HoldingLimits, Busy
<1> QED BY <1>1, <1>2, <1>4, <1>5 DEF HoldingInv, AccountsExact

\* A permit is given back, if there is one.
LEMMA ReleaseAccountInv ==
    ASSUME HoldingInv, NEW r \in Requests, ReleaseAccount(r)
    PROVE  HoldingInv' /\ account' = [account EXCEPT ![r] = NoAccount]
<1> DEFINE H(v) == {q \in Requests : account[q] = v}
<1>1. CASE account[r] = NoAccount
  BY <1>1 DEF HoldingInv, HoldingTyped, AccountsExact, HoldingLimits,
     ReleaseAccount, holding
<1>2. CASE account[r] # NoAccount
  <2>1. account' = [account EXCEPT ![r] = NoAccount]
        /\ byAccount' = [byAccount EXCEPT ![account[r]] = @ - 1]
    BY <1>2 DEF ReleaseAccount
  <2>2. NoAccount \notin Accounts /\ account[r] \in Accounts
    BY <1>2, AdmissionAssumption DEF HoldingInv, HoldingTyped
  <2>3. ASSUME NEW v \in Accounts
        PROVE  /\ byAccount'[v] \in Nat
               /\ byAccount'[v] = Cardinality({q \in Requests : account'[q] = v})
               /\ byAccount'[v] <= byAccount[v]
    <3>1. IsFiniteSet(H(v)) BY AdmissionAssumption, FS_Subset
    <3>2. byAccount[v] = Cardinality(H(v)) /\ byAccount[v] \in Nat
      BY DEF HoldingInv, HoldingTyped, AccountsExact
    <3>3. CASE v = account[r]
      <4>1. {q \in Requests : account'[q] = v} = H(v) \ {r} /\ r \in H(v)
        BY <2>1, <2>2, <3>3 DEF HoldingInv, HoldingTyped
      <4>2. byAccount'[v] = byAccount[v] - 1
        BY <2>1, <3>3 DEF HoldingInv, HoldingTyped
      <4>3. IsFiniteSet(H(v) \ {r}) BY <3>1, FS_Subset
      <4>4. Cardinality(H(v) \ {r}) \in Nat BY <4>3, FS_CardinalityType
      <4> QED BY <3>1, <3>2, <4>1, <4>2, <4>4, CountOne
    <3>4. CASE v # account[r]
      <4>1. {q \in Requests : account'[q] = v} = H(v)
        BY <2>1, <2>2, <3>4 DEF HoldingInv, HoldingTyped
      <4>2. byAccount'[v] = byAccount[v]
        BY <2>1, <3>4 DEF HoldingInv, HoldingTyped
      <4> QED BY <3>2, <4>1, <4>2
    <3> QED BY <3>3, <3>4
  <2>4. HoldingTyped'
    BY <2>1, <2>3 DEF HoldingInv, HoldingTyped
  <2>5. AccountsExact' BY <2>3 DEF AccountsExact
  <2>6. ASSUME ~Unlimited PROVE HoldingLimits'
    <3> SUFFICES ASSUME NEW v \in Accounts PROVE byAccount'[v] <= AccountLimit
      BY DEF HoldingLimits
    <3>1. byAccount[v] <= AccountLimit /\ byAccount[v] \in Nat
      BY <2>6 DEF HoldingInv, HoldingTyped, HoldingLimits
    <3>2. byAccount'[v] \in Nat /\ byAccount'[v] <= byAccount[v] BY <2>3
    <3>3. AccountLimit \in Nat BY ConfigTyped
    <3> QED BY <3>1, <3>2, <3>3
  <2> QED BY <2>1, <2>4, <2>5, <2>6 DEF HoldingInv
<1> QED BY <1>1, <1>2

-----------------------------------------------------------------------------
\* The queue

\* Taking one element out of a sequence without duplicates.
LEMMA RemoveAtFacts ==
    ASSUME NEW S, NEW s \in Seq(S), NEW n \in 1..Len(s),
           \A i, j \in 1..Len(s) : s[i] = s[j] => i = j
    PROVE  LET t == RemoveAt(s, n) IN
           /\ t \in Seq(S)
           /\ Len(t) = Len(s) - 1
           /\ Range(t) = Range(s) \ {s[n]}
           /\ \A i, j \in 1..Len(t) : t[i] = t[j] => i = j
<1> DEFINE h == SubSeq(s, 1, n - 1)
           l == SubSeq(s, n + 1, Len(s))
<1>1. Len(s) \in Nat BY LenProperties
<1>2. h \in Seq(S) /\ Len(h) = n - 1 /\ \A i \in 1..(n - 1) : h[i] = s[i]
  BY <1>1, SubSeqProperties
<1>3. l \in Seq(S) /\ Len(l) = Len(s) - n /\ \A i \in 1..(Len(s) - n) : l[i] = s[n + i]
  BY <1>1, SubSeqProperties
<1> HIDE DEF h, l
<1> DEFINE t == h \o l
<1>4. t \in Seq(S) /\ Len(t) = Len(s) - 1
  BY <1>1, <1>2, <1>3, ConcatProperties
<1>5. \A i \in 1..(Len(s) - 1) : t[i] = IF i < n THEN s[i] ELSE s[i + 1]
  <2> TAKE i \in 1..(Len(s) - 1)
  <2>1. CASE i < n BY <1>1, <1>2, <1>3, <2>1, ConcatProperties
  <2>2. CASE ~(i < n)
    <3> i >= n BY <1>1, <2>2
    <3>1. t[i] = l[i - Len(h)] BY <1>1, <1>2, <1>3, <2>2, ConcatProperties
    <3>2. i - Len(h) = i - n + 1 /\ i - n + 1 \in 1..(Len(s) - n) BY <1>1, <1>2, <2>2
    <3>3. l[i - n + 1] = s[n + (i - n + 1)] BY <1>3, <3>2
    <3>4. n + (i - n + 1) = i + 1 BY <1>1
    <3> QED BY <2>2, <3>1, <3>2, <3>3, <3>4
  <2> QED BY <2>1, <2>2
<1> HIDE DEF t
<1>6. Range(t) = Range(s) \ {s[n]}
  <2>1. DOMAIN t = 1..(Len(s) - 1) /\ DOMAIN s = 1..Len(s)
    BY <1>4, LenProperties
  <2>2. ASSUME NEW x \in Range(t) PROVE x \in Range(s) \ {s[n]}
    <3>1. PICK i \in 1..(Len(s) - 1) : x = t[i] BY <2>1, <2>2 DEF Range
    <3>2. PICK j \in 1..Len(s) : x = s[j] /\ j # n BY <1>1, <1>5, <3>1
    <3> QED BY <2>1, <3>2 DEF Range
  <2>3. ASSUME NEW x \in Range(s) \ {s[n]} PROVE x \in Range(t)
    <3>1. PICK j \in 1..Len(s) : x = s[j] /\ j # n BY <2>1, <2>3 DEF Range
    <3>2. PICK i \in 1..(Len(s) - 1) : x = t[i]
      <4>1. CASE j < n BY <1>1, <1>5, <3>1, <4>1
      <4>2. CASE j > n
        <5>1. j - 1 \in 1..(Len(s) - 1) /\ t[j - 1] = s[j] BY <1>1, <1>5, <3>1, <4>2
        <5> QED BY <3>1, <5>1
      <4> QED BY <3>1, <4>1, <4>2
    <3> QED BY <2>1, <3>2 DEF Range
  <2> QED BY <2>2, <2>3
<1>7. \A i, j \in 1..Len(t) : t[i] = t[j] => i = j
  <2> TAKE i, j \in 1..Len(t)
  <2> HAVE t[i] = t[j]
  <2>1. PICK k \in 1..Len(s) : t[i] = s[k] /\ k = IF i < n THEN i ELSE i + 1
    BY <1>1, <1>4, <1>5
  <2>2. PICK m \in 1..Len(s) : t[j] = s[m] /\ m = IF j < n THEN j ELSE j + 1
    BY <1>1, <1>4, <1>5
  <2>3. k = m BY <2>1, <2>2
  <2> QED BY <1>1, <2>1, <2>2, <2>3
<1> QED BY <1>4, <1>6, <1>7 DEF RemoveAt, t, h, l

\* A ticket taken out of the queue: the others keep their order.
LEMMA WithoutInv ==
    ASSUME QueueInv, NEW r \in Requests, queue' = Without(r)
    PROVE  QueueInv' /\ Range(queue') = Range(queue) \ {r}
<1>1. CASE r \notin Range(queue)
  <2>1. queue' = queue BY <1>1 DEF Without
  <2> QED BY <1>1, <2>1
       DEF QueueInv, QueueTyped, QueueDistinct, QueueLimits, SharedQueued, Shared
<1>2. CASE r \in Range(queue)
  <2>1. queue \in Seq(Requests) /\ Len(queue) \in Nat /\ DOMAIN queue = 1..Len(queue)
    BY LenProperties DEF QueueInv, QueueTyped
  <2>2. Position(r) \in 1..Len(queue) /\ queue[Position(r)] = r
    <3>1. \E i \in DOMAIN queue : queue[i] = r BY <1>2 DEF Range
    <3> QED BY <2>1, <3>1 DEF Position
  <2>3. queue' = RemoveAt(queue, Position(r)) BY <1>2 DEF Without
  <2>4. \A i, j \in 1..Len(queue) : queue[i] = queue[j] => i = j
    BY <2>1 DEF QueueInv, QueueDistinct
  <2> DEFINE p == Position(r)
             t == RemoveAt(queue, p)
  <2> HIDE DEF p
  <2>5. /\ t \in Seq(Requests)
        /\ Len(t) = Len(queue) - 1
        /\ Range(t) = Range(queue) \ {r}
        /\ \A i, j \in 1..Len(t) : t[i] = t[j] => i = j
    <3>1. p \in 1..Len(queue) /\ queue[p] = r BY <2>2 DEF p
    <3>2. /\ t \in Seq(Requests)
          /\ Len(t) = Len(queue) - 1
          /\ Range(t) = Range(queue) \ {queue[p]}
          /\ \A i, j \in 1..Len(t) : t[i] = t[j] => i = j
      BY <2>1, <2>4, <3>1, RemoveAtFacts
    <3> QED BY <3>1, <3>2
  <2> HIDE DEF t
  <2>6. queue' = t BY <2>3 DEF t, p
  <2>7. QueueTyped' /\ QueueDistinct'
    BY <2>5, <2>6, LenProperties DEF QueueTyped, QueueDistinct
  <2>8. ASSUME ~Unlimited PROVE QueueLimits'
    <3>1. Len(queue') <= QueueSize
      BY <2>1, <2>5, <2>6, <2>8, ConfigTyped DEF QueueInv, QueueLimits
    <3>2. SharedQueued' \subseteq SharedQueued
      BY <2>5, <2>6 DEF SharedQueued, Shared
    <3>3. IsFiniteSet(SharedQueued)
      <4>1. SharedQueued \subseteq Requests BY <2>1 DEF SharedQueued, Range
      <4> QED BY <4>1, AdmissionAssumption, FS_Subset
    <3>4. Cardinality(SharedQueued') <= Cardinality(SharedQueued)
          /\ Cardinality(SharedQueued') \in Nat /\ Cardinality(SharedQueued) \in Nat
      BY <3>2, <3>3, FS_Subset, FS_CardinalityType
    <3>5. Cardinality(SharedQueued) <= SharedQueue
      BY <2>8 DEF QueueInv, QueueLimits
    <3>6. Cardinality(SharedQueued') <= SharedQueue
      BY <3>4, <3>5, ConfigTyped
    <3> QED BY <3>1, <3>6 DEF QueueLimits, SharedQueue
  <2> QED BY <2>5, <2>6, <2>7, <2>8 DEF QueueInv
<1> QED BY <1>1, <1>2

\* A ticket that is not queued joins the end of a queue that is not full.
LEMMA AppendInv ==
    ASSUME QueueInv, NEW r \in Requests, r \notin Range(queue), ~QueueFull(r),
           queue' = Append(queue, r)
    PROVE  QueueInv' /\ Range(queue') = Range(queue) \cup {r}
<1>1. queue \in Seq(Requests) /\ Len(queue) \in Nat /\ DOMAIN queue = 1..Len(queue)
  BY LenProperties DEF QueueInv, QueueTyped
<1>2. /\ queue' \in Seq(Requests) /\ Len(queue') = Len(queue) + 1
      /\ DOMAIN queue' = 1..(Len(queue) + 1)
      /\ \A i \in 1..Len(queue) : queue'[i] = queue[i]
      /\ queue'[Len(queue) + 1] = r
  BY <1>1, AppendProperties
<1>3. Range(queue') = Range(queue) \cup {r}
  BY <1>1, <1>2 DEF Range
<1>4. QueueDistinct'
  <2> SUFFICES ASSUME NEW i \in 1..(Len(queue) + 1), NEW j \in 1..(Len(queue) + 1),
                      queue'[i] = queue'[j]
               PROVE  i = j
    BY <1>2 DEF QueueDistinct
  <2>1. \A k \in 1..Len(queue) : queue[k] # r BY <1>1 DEF Range
  <2> QED BY <1>1, <1>2, <2>1 DEF QueueInv, QueueDistinct
<1>5. ASSUME ~Unlimited PROVE QueueLimits'
  <2>1. Len(queue') <= QueueSize
    BY <1>1, <1>2, ConfigTyped DEF QueueFull
  <2>2. IsFiniteSet(SharedQueued) /\ r \notin SharedQueued
    <3>1. SharedQueued \subseteq Requests BY <1>1 DEF SharedQueued, Range
    <3> QED BY <3>1, AdmissionAssumption, FS_Subset DEF SharedQueued
  <2>3. Cardinality(SharedQueued') <= SharedQueue
    <3>1. CASE Shared(r)
      <4>1. SharedQueued' = SharedQueued \cup {r}
        BY <1>3, <3>1 DEF SharedQueued, Shared
      <4>2. Cardinality(SharedQueued') = Cardinality(SharedQueued) + 1
            /\ Cardinality(SharedQueued) \in Nat
        BY <2>2, <4>1, CountOne
      <4>3. ~(Cardinality(SharedQueued) >= SharedQueue) BY <3>1 DEF QueueFull
      <4> QED BY <4>2, <4>3, ConfigTyped
    <3>2. CASE ~Shared(r)
      <4>1. SharedQueued' = SharedQueued BY <1>3, <3>2 DEF SharedQueued, Shared
      <4> QED BY <1>5, <4>1 DEF QueueInv, QueueLimits
    <3> QED BY <3>1, <3>2
  <2> QED BY <2>1, <2>3 DEF QueueLimits, SharedQueue
<1> QED BY <1>2, <1>3, <1>4, <1>5 DEF QueueInv, QueueTyped

-----------------------------------------------------------------------------
\* The inductive invariant.  Exact counters are not inductive alone: that an
\* operation counts a ticket once needs to know what the ticket holds at each
\* place of its life, and which request the holder of the mutex serves.

Clean(r) == /\ r \notin running /\ r \notin Range(queue)
            /\ r \notin buffered /\ account[r] = NoAccount

CleanPlaces == \A r \in Requests :
    /\ pc[r] \in {"idle", "binding", "dropped", "gone"} => Clean(r)
    /\ pc[r] = "idle" => r \notin chooses
    /\ r \in released => pc[r] \in {"dropped", "gone"}

LockHolder == \A r \in Requests :
    /\ mu \in {<<r, "acquire">>, <<r, "admit">>} => pc[r] = "idle"
    /\ mu \in {<<r, "bind">>, <<r, "take">>} => pc[r] = "binding" /\ r \in chooses

RunningHolds == \A r \in running : ~Unlimited =>
    /\ r \in buffered
    /\ r \in chooses /\ r \notin failed => account[r] # NoAccount

Relations ==
    /\ running \cap Range(queue) = {}
    /\ CleanPlaces
    /\ LockHolder
    /\ RunningHolds
    /\ LeaseBacked

Counters == SlotsInv /\ MemoryInv /\ HoldingInv /\ QueueInv

AdmissionInv == Counters /\ ControlTyped /\ Relations

\* An action that touches none of the counted state keeps the counters.
LEMMA CountersKept ==
    ASSUME Counters, UNCHANGED <<slots, memory, holding, queue>>
    PROVE  Counters'
<1>1. SlotsInv'
  BY DEF Counters, SlotsInv, SlotsTyped, SlotsExact, SlotLimits, slots, Limit,
     SharedCapacity, AtMost, Shared
<1>2. MemoryInv'
  BY DEF Counters, MemoryInv, MemoryTyped, BuffersExact, MemoryLimits, memory,
     ChargeOf, Shared, SharedBufferBudget
<1>3. HoldingInv'
  BY DEF Counters, HoldingInv, HoldingTyped, AccountsExact, HoldingLimits, holding
<1>4. QueueInv'
  BY DEF Counters, QueueInv, QueueTyped, QueueDistinct, QueueLimits, SharedQueued,
     SharedQueue, Shared
<1> QED BY <1>1, <1>2, <1>3, <1>4 DEF Counters

\* Steps that leave the slot counters alone keep their part of the invariant.
LEMMA SlotsKept == ASSUME SlotsInv, UNCHANGED slots PROVE SlotsInv'
BY DEF SlotsInv, SlotsTyped, SlotsExact, SlotLimits, slots, Limit,
   SharedCapacity, AtMost, Shared

\* Steps that leave the response buffers alone keep their part.
LEMMA MemoryKept == ASSUME MemoryInv, UNCHANGED memory PROVE MemoryInv'
BY DEF MemoryInv, MemoryTyped, BuffersExact, MemoryLimits, memory, ChargeOf,
   Shared, SharedBufferBudget

\* Steps that leave the held accounts alone keep their part.
LEMMA HoldingKept == ASSUME HoldingInv, UNCHANGED holding PROVE HoldingInv'
BY DEF HoldingInv, HoldingTyped, AccountsExact, HoldingLimits, holding

\* Steps that leave the queue alone keep its part.
LEMMA QueueKept == ASSUME QueueInv, UNCHANGED queue PROVE QueueInv'
BY DEF QueueInv, QueueTyped, QueueDistinct, QueueLimits, SharedQueued,
   SharedQueue, Shared

\* removeLocked leaves a ticket with nothing, and every counter exact.
LEMMA RemoveTicketInv ==
    ASSUME AdmissionInv, NEW r \in Requests, RemoveTicket(r)
    PROVE  /\ Counters'
           /\ running' = running \ {r}
           /\ Range(queue') = Range(queue) \ {r}
           /\ buffered' = buffered \ {r}
           /\ account' = [account EXCEPT ![r] = NoAccount]
           /\ served' \in [Keys -> Nat] /\ sequence' \in Nat
<1>1. HoldingInv' /\ account' = [account EXCEPT ![r] = NoAccount]
  BY ReleaseAccountInv DEF AdmissionInv, Counters, RemoveTicket
<1>2. MemoryInv' /\ buffered' = buffered \ {r}
  BY ReleaseBufferInv DEF AdmissionInv, Counters, RemoveTicket
<1>3. /\ SlotsInv' /\ running' = running \ {r}
      /\ QueueInv' /\ Range(queue') = Range(queue) \ {r}
  <2>1. CASE r \in running
    <3>1. LeaveSlot(r) /\ queue' = queue BY <2>1 DEF RemoveTicket
    <3>2. SlotsInv' BY <2>1, <3>1, LeaveSlotInv DEF AdmissionInv, Counters
    <3>3. running' = running \ {r} BY <3>1 DEF LeaveSlot
    <3>4. QueueInv' BY <3>1, QueueKept DEF AdmissionInv, Counters
    <3>5. r \notin Range(queue) BY <2>1 DEF AdmissionInv, Relations
    <3> QED BY <3>1, <3>2, <3>3, <3>4, <3>5
  <2>2. CASE r \notin running
    <3>1. queue' = Without(r) /\ UNCHANGED slots BY <2>2 DEF RemoveTicket
    <3>2. SlotsInv' BY <3>1, SlotsKept DEF AdmissionInv, Counters
    <3>3. running' = running \ {r} BY <2>2, <3>1 DEF slots
    <3>4. QueueInv' /\ Range(queue') = Range(queue) \ {r}
      BY <3>1, WithoutInv DEF AdmissionInv, Counters
    <3> QED BY <3>2, <3>3, <3>4
  <2> QED BY <2>1, <2>2
<1>4. served' \in [Keys -> Nat] /\ sequence' \in Nat
  BY DEF AdmissionInv, ControlTyped, RemoveTicket
<1> QED BY <1>1, <1>2, <1>3, <1>4 DEF Counters

-----------------------------------------------------------------------------
\* The initial states, and one step per action.

\* The new controller has nothing queued, held or reserved.
LEMMA InitInv == Init => AdmissionInv
<1> SUFFICES ASSUME Init PROVE AdmissionInv OBVIOUS
<1>2. running = {} /\ buffered = {} /\ Range(queue) = {} /\ SharedQueued = {}
  BY DEF Init, Range, SharedQueued
<1>3. SlotsInv
  <2>1. \A k \in Keys : {r \in running : KeyOf[r] = k} = {} BY <1>2
  <2>2. \A m \in Models : {r \in running : Shared(r) /\ ModelOf[r] = m} = {} BY <1>2
  <2>3. {r \in running : Shared(r)} = {} BY <1>2
  <2> QED BY <1>2, <2>1, <2>2, <2>3, FS_EmptySet, ConfigTyped
       DEF Init, SlotsInv, SlotsTyped, SlotsExact, SlotLimits
<1>4. MemoryInv
  <2>1. {r \in buffered : Shared(r)} = {} BY <1>2
  <2>2. ChargeOf({}) = 0
    <3>1. {} \ Streaming = {} /\ {} \cap Streaming = {} OBVIOUS
    <3> QED BY <3>1, FS_EmptySet, ConfigTyped DEF ChargeOf
  <2> QED BY <1>2, <2>1, <2>2, ConfigTyped
       DEF Init, MemoryInv, MemoryTyped, BuffersExact, MemoryLimits
<1>5. HoldingInv
  <2>1. \A u \in Accounts : {r \in Requests : account[r] = u} = {}
    BY AdmissionAssumption DEF Init
  <2>2. HoldingTyped BY DEF Init, HoldingTyped
  <2>3. \A u \in Accounts : byAccount[u] = 0 BY DEF Init
  <2>4. AccountsExact BY <2>1, <2>3, FS_EmptySet DEF AccountsExact
  <2>5. HoldingLimits BY <2>3, ConfigTyped DEF HoldingLimits
  <2> QED BY <2>2, <2>4, <2>5 DEF HoldingInv
<1>6. QueueInv
  BY <1>2, FS_EmptySet, ConfigTyped, EmptySeq
     DEF Init, QueueInv, QueueTyped, QueueDistinct, QueueLimits
<1>7. ControlTyped
  <2>1. MaxBinds \in Nat /\ MaxPaces \in Nat BY AdmissionAssumption
  <2>2. binds \in [Requests -> 0..MaxBinds] /\ paces \in [Requests -> 0..MaxPaces]
    BY <2>1 DEF Init
  <2>3. pc \in [Requests -> Places] /\ mu \in {Free} \cup (Requests \X Phases)
    BY DEF Init, Places
  <2>4. served \in [Keys -> Nat] /\ sequence \in Nat
    BY DEF Init
  <2>5. /\ preferred \in [Requests -> Accounts \cup {NoAccount}]
        /\ steered \subseteq Requests /\ refused \subseteq Requests
    BY DEF Init
  <2>6. usable \subseteq Accounts /\ high \in BOOLEAN BY DEF Init
  <2>7. ready \subseteq Requests /\ chooses \subseteq Requests
        /\ failed \subseteq Requests /\ released \subseteq Requests
    BY DEF Init
  <2> QED BY <2>2, <2>3, <2>4, <2>5, <2>6, <2>7 DEF ControlTyped
<1>8. Relations
  BY <1>2 DEF Init, Relations, CleanPlaces, Clean, LockHolder, RunningHolds,
     LeaseBacked, Free
<1> QED BY <1>3, <1>4, <1>5, <1>6, <1>7, <1>8 DEF AdmissionInv, Counters

\* A turn is stamped with the next number.
LEMMA StampTyped ==
    ASSUME AdmissionInv, NEW r \in Requests, Stamp(r)
    PROVE  served' \in [Keys -> Nat] /\ sequence' \in Nat
<1>1. KeyOf[r] \in Keys BY AdmissionAssumption
<1> QED BY <1>1 DEF AdmissionInv, ControlTyped, Stamp

\* What the selectors settle on is an account the caller may use, and they
\* refuse tickets that were asked about.
LEMMA PickTyped ==
    ASSUME AdmissionInv, NEW S \in SUBSET Requests, NEW w \in Picks(S)
    PROVE  /\ Prefer(w) \in [Requests -> Accounts \cup {NoAccount}]
           /\ Refused(w) \subseteq Requests
           /\ \A r \in S \ Refusals(w) : NeedsAccount(r) /\ Open(r) # {}
                => Prefer(w)[r] \in Accounts
<1>1. /\ DOMAIN w = Asked(S) /\ Asked(S) \subseteq Requests
      /\ \A r \in Asked(S) \ Refusals(w) : w[r] \in Accounts
  BY DEF AdmissionInv, ControlTyped, Picks, Asked, Refusals, Open
<1>2. Refused(w) \subseteq Requests
  BY <1>1 DEF AdmissionInv, ControlTyped, Refused, Refusals
<1> QED BY <1>1, <1>2 DEF AdmissionInv, ControlTyped, Prefer, Asked

\* What is known of the selectors after they have looked.
LEMMA LookedTyped ==
    ASSUME AdmissionInv, NEW S \in SUBSET Requests, NEW w \in Picks(S), Looked(w)
    PROVE  /\ preferred' \in [Requests -> Accounts \cup {NoAccount}]
           /\ steered' \subseteq Requests /\ refused' \subseteq Requests
BY PickTyped DEF Looked, AdmissionInv, ControlTyped

\* dispatchLocked looks at requests.
LEMMA ScannedTyped == ASSUME AdmissionInv PROVE Scanned \in SUBSET Requests
BY RangeOfSeq DEF AdmissionInv, Counters, QueueInv, QueueTyped, Scanned

\* Actions that move only control: the counters stay and so do the relations.
LEMMA ControlStep ==
    ASSUME AdmissionInv, UNCHANGED <<slots, memory, holding, queue>>,
           UNCHANGED <<chooses, failed>>
    PROVE  /\ Counters'
           /\ running' = running /\ buffered' = buffered /\ account' = account
           /\ Range(queue') = Range(queue)
           /\ (running \cap Range(queue) = {})'
           /\ RunningHolds'
<1>1. Counters' BY CountersKept DEF AdmissionInv
<1> QED BY <1>1 DEF AdmissionInv, Relations, RunningHolds, slots, memory, holding

\* The end of dispatchLocked only gives control back.
LEMMA DispatchEndInv == ASSUME AdmissionInv, DispatchEnd PROVE AdmissionInv'
<1>0. UNCHANGED <<slots, memory, holding, queue>> /\ UNCHANGED <<chooses, failed>>
  BY DEF DispatchEnd
<1>1. PICK q \in Requests, f \in Phases : mu = <<q, f>>
  BY DEF AdmissionInv, ControlTyped, DispatchEnd, Scanning, Free
<1>2. \/ f = "unlock" /\ mu' = Free
      \/ f = "acquire" /\ mu' = <<q, "admit">>
      \/ f = "bind" /\ mu' = <<q, "take">>
  BY <1>1 DEF DispatchEnd, Scanning
<1>3. mu' \in {Free} \cup (Requests \X Phases)
  BY <1>1, <1>2 DEF Phases
<1>4. /\ preferred' \in [Requests -> Accounts \cup {NoAccount}]
      /\ steered' \subseteq Requests /\ refused' \subseteq Requests
  BY ScannedTyped, LookedTyped DEF AdmissionInv, ControlTyped, DispatchEnd
<1>5. ControlTyped'
  BY <1>3, <1>4 DEF AdmissionInv, ControlTyped, DispatchEnd, stamps, control, env
<1>6. LockHolder'
  <2>1. pc' = pc /\ chooses' = chooses BY DEF DispatchEnd
  <2> SUFFICES ASSUME NEW r \in Requests
               PROVE  /\ mu' \in {<<r, "acquire">>, <<r, "admit">>} => pc[r] = "idle"
                      /\ mu' \in {<<r, "bind">>, <<r, "take">>}
                           => pc[r] = "binding" /\ r \in chooses
    BY <2>1 DEF LockHolder
  <2>2. /\ mu = <<r, "acquire">> => pc[r] = "idle"
        /\ mu = <<r, "bind">> => pc[r] = "binding" /\ r \in chooses
    BY DEF AdmissionInv, Relations, LockHolder
  <2> QED BY <1>1, <1>2, <2>2 DEF Free
<1>7. CleanPlaces' /\ LeaseBacked'
  BY <1>0, ControlStep
     DEF AdmissionInv, Relations, CleanPlaces, Clean, LeaseBacked, DispatchEnd
<1> QED BY <1>0, <1>5, <1>6, <1>7, ControlStep DEF AdmissionInv, Relations

\* acquire takes the mutex and runs dispatchLocked.
LEMMA AcquireLimitedInv ==
    ASSUME AdmissionInv, ~Unlimited, NEW r \in Requests, AcquireLimited(r)
    PROVE  AdmissionInv'
<1>0. UNCHANGED <<slots, memory, holding, queue>> /\ UNCHANGED <<chooses, failed>>
  BY DEF AcquireLimited, choice
<1>1. ControlTyped'
  BY DEF AdmissionInv, ControlTyped, AcquireLimited, stamps, choice, control, env, Phases, Places
<1>2. LockHolder'
  BY DEF AdmissionInv, Relations, LockHolder, AcquireLimited, choice, Free, ControlTyped
<1>3. CleanPlaces' /\ LeaseBacked'
  BY <1>0, ControlStep
     DEF AdmissionInv, Relations, CleanPlaces, Clean, LeaseBacked, AcquireLimited, ControlTyped
<1> QED BY <1>0, <1>1, <1>2, <1>3, ControlStep DEF AdmissionInv, Relations

\* A ticket that got its slot goes on to its handler.
LEMMA StartInv ==
    ASSUME AdmissionInv, NEW r \in Requests, Start(r) PROVE AdmissionInv'
<1>0. UNCHANGED <<slots, memory, holding, queue>> /\ UNCHANGED <<chooses, failed>>
  BY DEF Start, choice
<1>1. ControlTyped'
  BY DEF AdmissionInv, ControlTyped, Start, stamps, choice, control, env, Places
<1>2. LockHolder'
  BY DEF AdmissionInv, Relations, LockHolder, Start, Free
<1>3. CleanPlaces'
  BY <1>0, ControlStep
     DEF AdmissionInv, Relations, CleanPlaces, Clean, Start, ControlTyped
<1>4. LeaseBacked'
  BY <1>0, ControlStep
     DEF AdmissionInv, Relations, LeaseBacked, RunningHolds, Start, ControlTyped
<1> QED BY <1>0, <1>1, <1>2, <1>3, <1>4, ControlStep DEF AdmissionInv, Relations

\* The ticker of await runs dispatchLocked again.
LEMMA TickInv ==
    ASSUME AdmissionInv, NEW r \in Requests, Tick(r) PROVE AdmissionInv'
<1>0. UNCHANGED <<slots, memory, holding, queue>> /\ UNCHANGED <<chooses, failed>>
  BY DEF Tick, choice
<1>1. ControlTyped'
  BY DEF AdmissionInv, ControlTyped, Tick, stamps, choice, control, env, Phases
<1>2. LockHolder'
  BY DEF AdmissionInv, Relations, LockHolder, Tick, Free
<1>3. CleanPlaces' /\ LeaseBacked'
  BY <1>0, ControlStep
     DEF AdmissionInv, Relations, CleanPlaces, Clean, LeaseBacked, Tick
<1> QED BY <1>0, <1>1, <1>2, <1>3, ControlStep DEF AdmissionInv, Relations

\* A pacing wait ends or fails: the ticket is ready again, or will be released.
LEMMA PaceEndInv ==
    ASSUME AdmissionInv, NEW r \in Requests, PaceDone(r) \/ PaceFail(r)
    PROVE AdmissionInv'
<1>0. UNCHANGED <<slots, memory, holding, queue>> /\ UNCHANGED <<chooses, failed>>
  BY DEF PaceDone, PaceFail, choice
<1>1. ControlTyped'
  BY DEF AdmissionInv, ControlTyped, PaceDone, PaceFail, stamps, choice, control,
     env, Phases, Places
<1>2. LockHolder'
  <2>1. CASE PaceDone(r)
    BY <2>1 DEF AdmissionInv, Relations, LockHolder, PaceDone, Free
  <2>2. CASE PaceFail(r)
    <3>1. mu' = mu /\ chooses' = chooses /\ pc[r] = "pacing"
          /\ \A q \in Requests \ {r} : pc'[q] = pc[q]
      BY <2>2 DEF PaceFail, choice, AdmissionInv, ControlTyped
    <3> QED BY <3>1 DEF AdmissionInv, Relations, LockHolder
  <2> QED BY <2>1, <2>2
<1>3. CleanPlaces' /\ LeaseBacked'
  BY <1>0, ControlStep
     DEF AdmissionInv, Relations, CleanPlaces, Clean, LeaseBacked, PaceDone, PaceFail,
         ControlTyped
<1> QED BY <1>0, <1>1, <1>2, <1>3, ControlStep DEF AdmissionInv, Relations

\* Usable accounts and memory pressure change; nothing that is counted does.
LEMMA EnvironmentInv == ASSUME AdmissionInv, Environment PROVE AdmissionInv'
<1>0. UNCHANGED <<slots, memory, holding, queue>> /\ UNCHANGED <<chooses, failed>>
  BY DEF Environment, choice
<1>1. usable' \subseteq Accounts /\ high' \in BOOLEAN /\ steered' \subseteq Requests
  BY DEF AdmissionInv, ControlTyped, Environment, Steer, env
<1>2. ControlTyped'
  BY <1>1 DEF AdmissionInv, ControlTyped, Environment, stamps, choice, control
<1>3. LockHolder'
  BY DEF AdmissionInv, Relations, LockHolder, Environment
<1>4. CleanPlaces' /\ LeaseBacked'
  BY <1>0, ControlStep
     DEF AdmissionInv, Relations, CleanPlaces, Clean, LeaseBacked, Environment
<1> QED BY <1>0, <1>2, <1>3, <1>4, ControlStep DEF AdmissionInv, Relations

\* One turn of dispatchLocked: a ticket leaves the queue and gets its slot,
\* and its buffer and account where it asks for them.
LEMMA DispatchOneInv == ASSUME AdmissionInv, DispatchOne PROVE AdmissionInv'
<1>0. PICK w \in Picks(Scanned) : \E r \in Startable(w) :
        /\ queue' = Without(r)
        /\ EnterSlot(r)
        /\ Stamp(r)
        /\ ReserveBuffer(r)
        /\ Looked(w)
        /\ failed' = IF NeedsAccount(r)
                     THEN IF Open(r) = {} THEN failed \cup {r} ELSE failed \ {r}
                     ELSE failed
        /\ IF NeedsAccount(r) /\ Open(r) # {}
           THEN HoldAccount(r, Prefer(w)[r])
           ELSE UNCHANGED holding
  BY DEF DispatchOne
<1>1. PICK r \in Startable(w) :
        /\ queue' = Without(r)
        /\ EnterSlot(r)
        /\ Stamp(r)
        /\ ReserveBuffer(r)
        /\ Looked(w)
        /\ failed' = IF NeedsAccount(r)
                     THEN IF Open(r) = {} THEN failed \cup {r} ELSE failed \ {r}
                     ELSE failed
        /\ IF NeedsAccount(r) /\ Open(r) # {}
           THEN HoldAccount(r, Prefer(w)[r])
           ELSE UNCHANGED holding
  BY <1>0
<1>2. /\ active < Capacity
      /\ UNCHANGED <<chooses, control, env, ready, released, mu, pc>>
  BY DEF DispatchOne
<1>3. r \in Range(queue) /\ r \in Scanned /\ Room(r)
  BY DEF Startable, Scanned
<1>4. r \in Requests
  BY <1>3, RangeOfSeq DEF AdmissionInv, Counters, QueueInv, QueueTyped
<1>5. r \notin running BY <1>3 DEF AdmissionInv, Relations
<1>6. SlotsInv' /\ running' = running \cup {r}
  BY <1>1, <1>2, <1>3, <1>4, <1>5, EnterSlotInv
     DEF AdmissionInv, Counters, Room, EnterSlot
<1>7. MemoryInv' /\ buffered' = buffered \cup {r}
  BY <1>1, <1>3, <1>4, ReserveBufferInv DEF AdmissionInv, Counters, Room
<1>8. QueueInv' /\ Range(queue') = Range(queue) \ {r}
  BY <1>1, <1>4, WithoutInv DEF AdmissionInv, Counters
<1>9. /\ HoldingInv'
      /\ \A q \in Requests \ {r} : account'[q] = account[q]
      /\ r \in chooses /\ r \notin failed' => account'[r] # NoAccount
      /\ account[r] # NoAccount => account'[r] # NoAccount
  <2>1. CASE NeedsAccount(r) /\ Open(r) # {}
    <3>0. r \notin Refusals(w) /\ Prefer(w)[r] \notin Busy BY <2>1 DEF Startable
    <3>1. Prefer(w)[r] \in Accounts BY <1>3, <2>1, <3>0, ScannedTyped, PickTyped
    <3>2. Prefer(w)[r] \notin Busy BY <3>0
    <3>3. HoldingInv' /\ account' = [account EXCEPT ![r] = Prefer(w)[r]]
      BY <1>1, <1>4, <2>1, <3>1, <3>2, HoldAccountInv
         DEF AdmissionInv, Counters, NeedsAccount
    <3>4. account \in [Requests -> Accounts \cup {NoAccount}]
      BY DEF AdmissionInv, Counters, HoldingInv, HoldingTyped
    <3> QED BY <1>4, <3>1, <3>3, <3>4, AdmissionAssumption
  <2>2. CASE ~(NeedsAccount(r) /\ Open(r) # {})
    <3>1. UNCHANGED holding BY <1>1, <2>2
    <3>2. HoldingInv' BY <3>1, HoldingKept DEF AdmissionInv, Counters
    <3> QED BY <1>1, <2>2, <3>1, <3>2 DEF holding, NeedsAccount
  <2> QED BY <2>1, <2>2
<1>10. ControlTyped'
  <2>1. served' \in [Keys -> Nat] /\ sequence' \in Nat
    BY <1>1, <1>4, StampTyped
  <2>2. failed' \subseteq Requests BY <1>1, <1>4 DEF AdmissionInv, ControlTyped
  <2>3. /\ preferred' \in [Requests -> Accounts \cup {NoAccount}]
        /\ steered' \subseteq Requests /\ refused' \subseteq Requests
    BY <1>1, ScannedTyped, LookedTyped
  <2> QED BY <1>2, <2>1, <2>2, <2>3 DEF AdmissionInv, ControlTyped, control, env
<1>11. (running \cap Range(queue) = {})'
  BY <1>6, <1>8 DEF AdmissionInv, Relations
<1>12. CleanPlaces'
  <2> SUFFICES ASSUME NEW q \in Requests,
                      pc[q] \in {"idle", "binding", "dropped", "gone"}
               PROVE  Clean(q)'
    BY <1>2 DEF AdmissionInv, Relations, CleanPlaces
  <2>1. Clean(q) /\ q # r BY <1>3 DEF AdmissionInv, Relations, CleanPlaces, Clean
  <2> QED BY <1>6, <1>7, <1>8, <1>9, <2>1 DEF Clean
<1>13. LockHolder' BY <1>2 DEF AdmissionInv, Relations, LockHolder
<1>14. RunningHolds'
  <2> SUFFICES ASSUME NEW q \in running', ~Unlimited
               PROVE  /\ q \in buffered'
                      /\ q \in chooses /\ q \notin failed' => account'[q] # NoAccount
    BY <1>2 DEF RunningHolds
  <2>1. CASE q = r BY <1>7, <1>9, <2>1
  <2>2. CASE q # r
    <3>1. q \in running /\ q \in Requests
      BY <1>6, <2>2 DEF AdmissionInv, Counters, SlotsInv, SlotsTyped
    <3>2. q \in failed <=> q \in failed' BY <1>1, <2>2
    <3> QED BY <1>7, <1>9, <2>2, <3>1, <3>2
         DEF AdmissionInv, Relations, RunningHolds
  <2> QED BY <2>1, <2>2
<1>15. LeaseBacked'
  <2> SUFFICES ASSUME NEW q \in Requests, pc[q] = "held"
               PROVE  /\ q \in running'
                      /\ ~Unlimited => q \in buffered'
                      /\ ~Unlimited /\ q \in chooses => account'[q] # NoAccount
    BY <1>2 DEF LeaseBacked
  <2>1. /\ q \in running
        /\ ~Unlimited => q \in buffered
        /\ ~Unlimited /\ q \in chooses => account[q] # NoAccount
    BY DEF AdmissionInv, Relations, LeaseBacked
  <2>2. q # r BY <1>5, <2>1
  <2> QED BY <1>6, <1>7, <1>9, <2>1, <2>2
<1> QED BY <1>6, <1>7, <1>8, <1>9, <1>10, <1>11, <1>12, <1>13, <1>14, <1>15
     DEF AdmissionInv, Counters, Relations

\* acquire without model limits: the request is counted and runs.
LEMMA AcquireUnlimitedInv ==
    ASSUME AdmissionInv, Unlimited, NEW r \in Requests, AcquireUnlimited(r)
    PROVE  AdmissionInv'
<1>1. /\ pc[r] = "idle" /\ Unlimited /\ mu = Free
      /\ pc' = [pc EXCEPT ![r] = "held"]
      /\ UNCHANGED <<stamps, memory, holding, choice, control, env, queue, ready,
                     released, mu>>
  BY DEF AcquireUnlimited
<1>2. Clean(r) BY <1>1 DEF AdmissionInv, Relations, CleanPlaces
<1>3. SlotsInv' /\ running' = running \cup {r}
  BY <1>1, <1>2, EnterSlotInv
     DEF AcquireUnlimited, AdmissionInv, Counters, EnterSlot, Clean
<1>4. MemoryInv' /\ HoldingInv' /\ QueueInv'
  BY <1>1, MemoryKept, HoldingKept, QueueKept DEF AdmissionInv, Counters
<1>5. ControlTyped'
  BY <1>1 DEF AdmissionInv, ControlTyped, stamps, choice, control, env, Places
<1>6. (running \cap Range(queue) = {})' /\ CleanPlaces' /\ LeaseBacked'
  BY <1>1, <1>2, <1>3 DEF AdmissionInv, Relations, CleanPlaces, Clean, LeaseBacked,
     memory, holding, choice, ControlTyped
<1>7. LockHolder' /\ RunningHolds'
  BY <1>1, <1>3 DEF LockHolder, RunningHolds, Free
<1> QED BY <1>3, <1>4, <1>5, <1>6, <1>7 DEF AdmissionInv, Counters, Relations

\* The rest of acquire: run, wait or be refused.
LEMMA AdmitInv ==
    ASSUME AdmissionInv, NEW r \in Requests, Admit(r) PROVE AdmissionInv'
<1>1. /\ mu = <<r, "admit">> /\ mu' = Free
      /\ UNCHANGED <<holding, choice, control, env, ready, released>>
  BY DEF Admit
<1>2. pc[r] = "idle" /\ Clean(r)
  BY <1>1 DEF AdmissionInv, Relations, LockHolder, CleanPlaces
<1>3. HoldingInv' /\ account' = account
  BY <1>1, HoldingKept DEF AdmissionInv, Counters, holding
<1>4. /\ SlotsInv' /\ MemoryInv' /\ QueueInv'
      /\ served' \in [Keys -> Nat] /\ sequence' \in Nat
      /\ \/ /\ running' = running \cup {r} /\ buffered' = buffered \cup {r}
            /\ Range(queue') = Range(queue) /\ pc' = [pc EXCEPT ![r] = "admitting"]
         \/ /\ running' = running /\ buffered' = buffered
            /\ Range(queue') = Range(queue) \cup {r}
            /\ pc' = [pc EXCEPT ![r] = "admitting"]
         \/ /\ running' = running /\ buffered' = buffered
            /\ Range(queue') = Range(queue) /\ pc' = [pc EXCEPT ![r] = "gone"]
  <2>1. CASE active < Capacity /\ Room(r)
    <3>1. EnterSlot(r) /\ Stamp(r) /\ ReserveBuffer(r) /\ queue' = queue
          /\ pc' = [pc EXCEPT ![r] = "admitting"]
      BY <2>1 DEF Admit
    <3>2. SlotsInv' /\ running' = running \cup {r}
      BY <1>2, <2>1, <3>1, EnterSlotInv
         DEF AdmissionInv, Counters, EnterSlot, Clean, Room
    <3>3. MemoryInv' /\ buffered' = buffered \cup {r}
      BY <2>1, <3>1, ReserveBufferInv DEF AdmissionInv, Counters, Room
    <3>4. QueueInv' BY <3>1, QueueKept DEF AdmissionInv, Counters
    <3>5. served' \in [Keys -> Nat] /\ sequence' \in Nat
      BY <3>1, StampTyped
    <3> QED BY <3>1, <3>2, <3>3, <3>4, <3>5
  <2>2. CASE ~(active < Capacity /\ Room(r))
    <3>1. /\ queue' = IF QueueFull(r) THEN queue ELSE Append(queue, r)
          /\ pc' = [pc EXCEPT ![r] = IF QueueFull(r) THEN "gone" ELSE "admitting"]
          /\ UNCHANGED <<slots, stamps, memory>>
      BY <2>2 DEF Admit
    <3>2. SlotsInv' /\ MemoryInv' /\ running' = running /\ buffered' = buffered
      BY <3>1, SlotsKept, MemoryKept DEF AdmissionInv, Counters, slots, memory
    <3>3. served' \in [Keys -> Nat] /\ sequence' \in Nat
      BY <3>1 DEF AdmissionInv, ControlTyped, stamps
    <3>4. CASE QueueFull(r)
      <4>1. QueueInv' /\ queue' = queue
        BY <3>1, <3>4, QueueKept DEF AdmissionInv, Counters
      <4> QED BY <3>1, <3>2, <3>3, <3>4, <4>1
    <3>5. CASE ~QueueFull(r)
      <4>1. QueueInv' /\ Range(queue') = Range(queue) \cup {r}
        BY <1>2, <3>1, <3>5, AppendInv DEF AdmissionInv, Counters, Clean
      <4> QED BY <3>1, <3>2, <3>3, <3>5, <4>1
    <3> QED BY <3>4, <3>5
  <2> QED BY <2>1, <2>2
<1>5. ControlTyped'
  BY <1>1, <1>4 DEF AdmissionInv, ControlTyped, choice, control, env, Places
<1>6. (running \cap Range(queue) = {})'
  BY <1>2, <1>4 DEF AdmissionInv, Relations, Clean
<1>7. CleanPlaces' /\ LeaseBacked'
  BY <1>1, <1>2, <1>3, <1>4
     DEF AdmissionInv, Relations, CleanPlaces, Clean, LeaseBacked, choice, ControlTyped
<1>8. LockHolder' BY <1>1 DEF LockHolder, Free
<1>9. RunningHolds'
  <2>1. r \notin chooses
    BY <1>2 DEF AdmissionInv, Relations, CleanPlaces
  <2> QED BY <1>1, <1>3, <1>4, <2>1 DEF AdmissionInv, Relations, RunningHolds, choice
<1> QED BY <1>3, <1>4, <1>5, <1>6, <1>7, <1>8, <1>9
     DEF AdmissionInv, Counters, Relations

\* A ticket that gives up or is released ends with nothing.
LEMMA DropTicketInv ==
    ASSUME AdmissionInv, NEW r \in Requests, RemoveTicket(r),
           mu' = <<r, "unlock">>,
           NEW x \in {"gone", "dropped"}, pc' = [pc EXCEPT ![r] = x],
           released' \in {released, released \cup {r}},
           UNCHANGED <<choice, control, env, ready>>
    PROVE  AdmissionInv'
<1>1. /\ Counters'
      /\ running' = running \ {r}
      /\ Range(queue') = Range(queue) \ {r}
      /\ buffered' = buffered \ {r}
      /\ account' = [account EXCEPT ![r] = NoAccount]
      /\ served' \in [Keys -> Nat] /\ sequence' \in Nat
  BY RemoveTicketInv
<1>2. ControlTyped'
  BY <1>1 DEF AdmissionInv, ControlTyped, choice, control, env, Places, Phases
<1>3. /\ r \notin running' /\ r \notin Range(queue') /\ r \notin buffered'
      /\ account'[r] = NoAccount
      /\ \A q \in Requests \ {r} :
           /\ q \in running' <=> q \in running
           /\ q \in Range(queue') <=> q \in Range(queue)
           /\ q \in buffered' <=> q \in buffered
           /\ account'[q] = account[q]
           /\ pc'[q] = pc[q]
      /\ pc'[r] = x
  BY <1>1 DEF AdmissionInv, ControlTyped, Counters, HoldingInv, HoldingTyped
<1>4. (running \cap Range(queue) = {})' BY <1>1 DEF AdmissionInv, Relations
<1>5. LockHolder' BY DEF LockHolder
<1>6. CleanPlaces'
  BY <1>3 DEF AdmissionInv, Relations, CleanPlaces, Clean, choice
<1>7. RunningHolds'
  <2>1. \A q \in running' : q \in Requests /\ q # r /\ q \in running
    BY <1>1 DEF AdmissionInv, Counters, SlotsInv, SlotsTyped
  <2> QED BY <1>3, <2>1 DEF AdmissionInv, Relations, RunningHolds, choice
<1>8. LeaseBacked'
  BY <1>3 DEF AdmissionInv, Relations, LeaseBacked, choice
<1> QED BY <1>1, <1>2, <1>4, <1>5, <1>6, <1>7, <1>8 DEF AdmissionInv, Relations

\* A cancelled or timed-out ticket leaves the queue.
LEMMA GiveUpInv ==
    ASSUME AdmissionInv, NEW r \in Requests, GiveUp(r) PROVE AdmissionInv'
<1>1. PICK x \in {"gone", "dropped"} : pc' = [pc EXCEPT ![r] = x] BY DEF GiveUp
<1> QED BY <1>1, DropTicketInv DEF GiveUp

\* release gives back the slot, the buffer and the account, once.
LEMMA ReleaseInv ==
    ASSUME AdmissionInv, NEW r \in Requests, Release(r) PROVE AdmissionInv'
<1>1. PICK x \in {"gone", "dropped"} : pc' = [pc EXCEPT ![r] = x]
  BY DEF Release
<1>2. CASE r \notin released
  BY <1>1, <1>2, DropTicketInv DEF Release
<1>3. CASE r \in released
  <2>0. UNCHANGED <<slots, memory, holding, queue>> /\ UNCHANGED <<chooses, failed>>
        /\ mu = Free /\ mu' = mu /\ released' = released
    BY <1>3 DEF Release, choice
  <2>1. pc[r] = "dropped" /\ Clean(r)
    BY <1>3 DEF Release, AdmissionInv, Relations, CleanPlaces
  <2>2. ControlTyped'
    BY <1>1, <2>0, <1>3
       DEF AdmissionInv, ControlTyped, Release, stamps, choice, control, env, Places
  <2>3. LockHolder' BY <2>0 DEF LockHolder, Free
  <2>4. CleanPlaces' /\ LeaseBacked'
    BY <1>1, <2>0, <2>1, ControlStep
       DEF AdmissionInv, Relations, CleanPlaces, Clean, LeaseBacked, ControlTyped
  <2> QED BY <2>0, <2>2, <2>3, <2>4, ControlStep DEF AdmissionInv, Relations
<1> QED BY <1>2, <1>3

\* Binding an account without model limits.
LEMMA BindUnlimitedInv ==
    ASSUME AdmissionInv, Unlimited, NEW r \in Requests, BindUnlimited(r)
    PROVE  AdmissionInv'
<1>1. /\ Unlimited /\ mu = Free /\ pc[r] = "held"
      /\ binds[r] < MaxBinds /\ binds' = [binds EXCEPT ![r] = @ + 1]
      /\ UNCHANGED <<slots, stamps, memory, choice, paces, env, queue, ready,
                     released, mu, pc>>
  BY DEF BindUnlimited
<1>2. SlotsInv' /\ MemoryInv' /\ QueueInv'
  BY <1>1, SlotsKept, MemoryKept, QueueKept DEF AdmissionInv, Counters
<1>3. HoldingInv' /\ \A q \in Requests \ {r} : account'[q] = account[q]
  <2>1. CASE UNCHANGED holding
    BY <2>1, HoldingKept DEF AdmissionInv, Counters, holding
  <2>2. CASE \E u \in Open(r) :
            /\ account' = [account EXCEPT ![r] = u]
            /\ byAccount' = [v \in Accounts |->
                 byAccount[v] + (IF v = u THEN 1 ELSE 0)
                              - (IF v = account[r] THEN 1 ELSE 0)]
    <3>1. PICK u \in Open(r) :
            /\ account' = [account EXCEPT ![r] = u]
            /\ byAccount' = [v \in Accounts |->
                 byAccount[v] + (IF v = u THEN 1 ELSE 0)
                              - (IF v = account[r] THEN 1 ELSE 0)]
      BY <2>2
    <3>2. u \in Accounts /\ NoAccount \notin Accounts
      BY AdmissionAssumption DEF Open, AdmissionInv, ControlTyped
    <3>3. HoldingTyped /\ AccountsExact BY DEF AdmissionInv, Counters, HoldingInv
    <3>4. ASSUME NEW v \in Accounts
          PROVE  /\ byAccount'[v] = Cardinality({q \in Requests : account'[q] = v})
                 /\ byAccount'[v] \in Nat
      <4> DEFINE A == {q \in Requests : account[q] = v}
                 B == {q \in Requests : account'[q] = v}
      <4>1. byAccount[v] = Cardinality(A) /\ byAccount[v] \in Nat
        BY <3>3 DEF AccountsExact, HoldingTyped
      <4>2. IsFiniteSet(A) /\ IsFiniteSet(B) BY AdmissionAssumption, FS_Subset
      <4>3. Cardinality(B) \in Nat BY <4>2, FS_CardinalityType
      <4>4. byAccount'[v] = byAccount[v] + (IF v = u THEN 1 ELSE 0)
                              - (IF v = account[r] THEN 1 ELSE 0)
        BY <3>1
      <4>5. CASE v = u /\ v # account[r]
        <5>1. B = A \cup {r} /\ r \notin A BY <3>1, <3>3, <4>5 DEF HoldingTyped
        <5> HIDE DEF A, B
        <5>2. Cardinality(A \cup {r}) = Cardinality(A) + 1 BY <4>2, <5>1, CountOne
        <5>3. byAccount'[v] = byAccount[v] + 1 BY <4>1, <4>4, <4>5
        <5> QED BY <4>1, <4>3, <5>1, <5>2, <5>3 DEF B
      <4>6. CASE v # u /\ v = account[r]
        <5>1. B = A \ {r} /\ r \in A BY <3>1, <3>3, <4>6 DEF HoldingTyped
        <5> HIDE DEF A, B
        <5>2. Cardinality(A \ {r}) = Cardinality(A) - 1 BY <4>2, <5>1, CountOne
        <5>3. byAccount'[v] = byAccount[v] - 1 BY <4>1, <4>4, <4>6
        <5> QED BY <4>1, <4>3, <5>1, <5>2, <5>3 DEF B
      <4>7. CASE (v = u /\ v = account[r]) \/ (v # u /\ v # account[r])
        <5>1. B = A BY <3>1, <3>3, <4>7 DEF HoldingTyped
        <5>2. byAccount'[v] = byAccount[v] BY <4>1, <4>4, <4>7
        <5> QED BY <4>1, <4>3, <5>1, <5>2
      <4> QED BY <4>5, <4>6, <4>7
    <3>5. HoldingTyped' BY <3>1, <3>2, <3>3, <3>4 DEF HoldingTyped
    <3>6. AccountsExact' BY <3>4 DEF AccountsExact
    <3> QED BY <1>1, <3>1, <3>3, <3>5, <3>6 DEF HoldingInv, HoldingTyped
  <2> QED BY <2>1, <2>2 DEF BindUnlimited
<1>4. ControlTyped'
  <2>1. binds' \in [Requests -> 0..MaxBinds]
    BY <1>1, AdmissionAssumption DEF AdmissionInv, ControlTyped
  <2> QED BY <1>1, <2>1 DEF AdmissionInv, ControlTyped, stamps, choice, env
<1>5. LockHolder' /\ RunningHolds' BY <1>1 DEF LockHolder, RunningHolds, Free
<1>6. (running \cap Range(queue) = {})' /\ LeaseBacked'
  BY <1>1 DEF AdmissionInv, Relations, LeaseBacked, slots
<1>7. CleanPlaces'
  BY <1>1, <1>3
     DEF AdmissionInv, Relations, CleanPlaces, Clean, slots, memory, choice
<1> QED BY <1>2, <1>3, <1>4, <1>5, <1>6, <1>7 DEF AdmissionInv, Counters, Relations

\* Bind returns the slot, the buffer and the former account.
LEMMA BindLimitedInv ==
    ASSUME AdmissionInv, ~Unlimited, NEW r \in Requests, BindLimited(r)
    PROVE  AdmissionInv'
<1>1. /\ mu = Free /\ pc[r] = "held" /\ r \in running /\ r \notin released
      /\ binds[r] < MaxBinds /\ binds' = [binds EXCEPT ![r] = @ + 1]
      /\ chooses' = chooses \cup {r} /\ failed' = failed \ {r}
      /\ mu' = <<r, "bind">>
      /\ pc' = [pc EXCEPT ![r] = "binding"]
      /\ UNCHANGED <<stamps, paces, env, queue, ready, released>>
  BY DEF BindLimited
<1>2. HoldingInv' /\ account' = [account EXCEPT ![r] = NoAccount]
  BY ReleaseAccountInv DEF AdmissionInv, Counters, BindLimited
<1>3. MemoryInv' /\ buffered' = buffered \ {r}
  BY ReleaseBufferInv DEF AdmissionInv, Counters, BindLimited
<1>4. SlotsInv' /\ running' = running \ {r}
  BY <1>1, LeaveSlotInv DEF AdmissionInv, Counters, BindLimited, LeaveSlot
<1>5. QueueInv' BY <1>1, QueueKept DEF AdmissionInv, Counters
<1>6. ControlTyped'
  <2>1. binds' \in [Requests -> 0..MaxBinds]
    BY <1>1, AdmissionAssumption DEF AdmissionInv, ControlTyped
  <2>2. preferred' \in [Requests -> Accounts \cup {NoAccount}]
    <3>1. Scope[r] \subseteq Accounts BY AdmissionAssumption
    <3> QED BY <3>1 DEF AdmissionInv, ControlTyped, BindLimited
  <2>3. steered' \subseteq Requests /\ refused' \subseteq Requests
    BY AdmissionAssumption DEF AdmissionInv, ControlTyped, BindLimited
  <2> QED BY <1>1, <2>1, <2>2, <2>3
       DEF AdmissionInv, ControlTyped, stamps, env, Phases, Places
<1>7. r \notin Range(queue) BY <1>1 DEF AdmissionInv, Relations
<1>8. /\ \A q \in Requests \ {r} :
           /\ q \in running' <=> q \in running
           /\ q \in buffered' <=> q \in buffered
           /\ account'[q] = account[q]
           /\ pc'[q] = pc[q]
           /\ q \in chooses' <=> q \in chooses
           /\ q \in failed' <=> q \in failed
      /\ pc'[r] = "binding" /\ account'[r] = NoAccount
      /\ r \notin running' /\ r \notin buffered'
  BY <1>1, <1>2, <1>3, <1>4
     DEF AdmissionInv, ControlTyped, Counters, HoldingInv, HoldingTyped
<1>9. (running \cap Range(queue) = {})' BY <1>1, <1>4 DEF AdmissionInv, Relations
<1>10. CleanPlaces'
  BY <1>1, <1>7, <1>8 DEF AdmissionInv, Relations, CleanPlaces, Clean
<1>11. LockHolder' BY <1>1, <1>8 DEF LockHolder
<1>12. RunningHolds'
  <2>1. \A q \in running' : q \in Requests /\ q # r /\ q \in running
    BY <1>4 DEF AdmissionInv, Counters, SlotsInv, SlotsTyped
  <2> QED BY <1>8, <2>1 DEF AdmissionInv, Relations, RunningHolds
<1>13. LeaseBacked' BY <1>8 DEF AdmissionInv, Relations, LeaseBacked
<1> QED BY <1>2, <1>3, <1>4, <1>5, <1>6, <1>9, <1>10, <1>11, <1>12, <1>13
     DEF AdmissionInv, Counters, Relations

\* Pace parks the ticket in the queue; the account and the buffer stay reserved.
LEMMA PaceInv ==
    ASSUME AdmissionInv, NEW r \in Requests, Pace(r) PROVE AdmissionInv'
<1>1. /\ mu = Free /\ pc[r] = "held" /\ r \in running
      /\ paces[r] < MaxPaces /\ paces' = [paces EXCEPT ![r] = @ + 1]
      /\ UNCHANGED <<stamps, memory, holding, choice, binds, env, released>>
  BY DEF Pace
<1>2. MemoryInv' /\ HoldingInv' /\ buffered' = buffered /\ account' = account
  BY <1>1, MemoryKept, HoldingKept DEF AdmissionInv, Counters, memory, holding
<1>3. paces' \in [Requests -> 0..MaxPaces]
  BY <1>1, AdmissionAssumption DEF AdmissionInv, ControlTyped
<1>4. CASE QueueFull(r)
  <2>0. UNCHANGED <<slots, queue, ready, mu, pc>> BY <1>4 DEF Pace
  <2>1. ControlTyped'
    BY <1>1, <1>3, <2>0 DEF AdmissionInv, ControlTyped, stamps, choice, env
  <2>2. Counters' BY <1>1, <2>0, CountersKept DEF AdmissionInv
  <2>3. Relations'
    BY <1>1, <1>2, <2>0 DEF AdmissionInv, Relations, CleanPlaces, Clean, LockHolder,
       RunningHolds, LeaseBacked, choice, slots
  <2> QED BY <2>1, <2>2, <2>3 DEF AdmissionInv
<1>5. CASE ~QueueFull(r)
  <2>0. /\ queue' = Append(queue, r) /\ ready' = ready \ {r} /\ LeaveSlot(r)
        /\ mu' = <<r, "unlock">> /\ pc' = [pc EXCEPT ![r] = "pacing"]
    BY <1>5 DEF Pace
  <2>1. SlotsInv' /\ running' = running \ {r}
    BY <1>1, <2>0, LeaveSlotInv DEF AdmissionInv, Counters, LeaveSlot
  <2>2. r \notin Range(queue) BY <1>1 DEF AdmissionInv, Relations
  <2>3. QueueInv' /\ Range(queue') = Range(queue) \cup {r}
    BY <1>5, <2>0, <2>2, AppendInv DEF AdmissionInv, Counters
  <2>4. ControlTyped'
    BY <1>1, <1>3, <2>0
       DEF AdmissionInv, ControlTyped, stamps, choice, env, Phases, Places
  <2>5. pc'[r] = "pacing" /\ \A q \in Requests \ {r} : pc'[q] = pc[q]
    BY <2>0 DEF AdmissionInv, ControlTyped
  <2>6. (running \cap Range(queue) = {})'
    BY <2>1, <2>3 DEF AdmissionInv, Relations
  <2>7. CleanPlaces'
    <3> SUFFICES ASSUME NEW q \in Requests
                 PROVE  /\ pc'[q] \in {"idle", "binding", "dropped", "gone"} => Clean(q)'
                        /\ pc'[q] = "idle" => q \notin chooses'
                        /\ q \in released' => pc'[q] \in {"dropped", "gone"}
      BY DEF CleanPlaces
    <3>1. CASE q = r
      BY <1>1, <2>5, <3>1 DEF AdmissionInv, Relations, CleanPlaces
    <3>2. CASE q # r
      BY <1>1, <1>2, <2>1, <2>3, <2>5, <3>2
         DEF AdmissionInv, Relations, CleanPlaces, Clean, choice
    <3> QED BY <3>1, <3>2
  <2>8. LockHolder' BY <2>0 DEF LockHolder
  <2>9. RunningHolds'
    BY <1>1, <1>2, <2>1 DEF AdmissionInv, Relations, RunningHolds, choice
  <2>10. LeaseBacked'
    BY <1>1, <1>2, <2>1, <2>5 DEF AdmissionInv, Relations, LeaseBacked, choice
  <2> QED BY <1>2, <2>1, <2>3, <2>4, <2>6, <2>7, <2>8, <2>9, <2>10
       DEF AdmissionInv, Counters, Relations
<1> QED BY <1>4, <1>5

\* The rest of Bind: slot and account together, or the queue, or an error.
LEMMA TakeAccountInv ==
    ASSUME AdmissionInv, NEW r \in Requests, TakeAccount(r) PROVE AdmissionInv'
<1> DEFINE S == {q \in {r} : active < Capacity /\ Room(q)}
<1>1. /\ mu = <<r, "take">> /\ mu' = Free
      /\ UNCHANGED <<chooses, control, env, ready, released>>
  BY DEF TakeAccount
<1>2. pc[r] = "binding" /\ Clean(r) /\ r \in chooses
  BY <1>1 DEF AdmissionInv, Relations, LockHolder, CleanPlaces
<1>3. NeedsAccount(r) BY <1>2 DEF NeedsAccount, Clean
<1>4. PICK w \in Picks(S) :
        /\ Looked(w)
        /\ \/ /\ active < Capacity /\ Room(r) /\ Open(r) = {}
              /\ failed' = failed \cup {r}
              /\ pc' = [pc EXCEPT ![r] = "dropped"]
              /\ UNCHANGED <<slots, stamps, memory, holding, queue>>
           \/ /\ active < Capacity /\ Room(r) /\ Open(r) # {}
              /\ r \notin Refusals(w) /\ Prefer(w)[r] \notin Busy
              /\ HoldAccount(r, Prefer(w)[r])
              /\ EnterSlot(r)
              /\ Stamp(r)
              /\ ReserveBuffer(r)
              /\ pc' = [pc EXCEPT ![r] = "waiting"]
              /\ UNCHANGED <<failed, queue>>
           \/ /\ queue' = IF QueueFull(r) THEN queue ELSE Append(queue, r)
              /\ pc' = [pc EXCEPT ![r] = IF QueueFull(r) THEN "dropped" ELSE "waiting"]
              /\ UNCHANGED <<slots, stamps, memory, holding, failed>>
  BY DEF TakeAccount
<1>5. /\ preferred' \in [Requests -> Accounts \cup {NoAccount}]
      /\ steered' \subseteq Requests /\ refused' \subseteq Requests
  BY <1>4, LookedTyped
<1>6. /\ Counters'
      /\ served' \in [Keys -> Nat] /\ sequence' \in Nat /\ failed' \subseteq Requests
      /\ \A q \in Requests \ {r} :
           /\ q \in failed' <=> q \in failed
           /\ account'[q] = account[q]
           /\ pc'[q] = pc[q]
      /\ \/ /\ running' = running \cup {r} /\ buffered' = buffered \cup {r}
            /\ account'[r] # NoAccount
            /\ Range(queue') = Range(queue) /\ pc' = [pc EXCEPT ![r] = "waiting"]
         \/ /\ running' = running /\ buffered' = buffered
            /\ account'[r] = NoAccount
            /\ \/ /\ Range(queue') = Range(queue)
                  /\ pc' = [pc EXCEPT ![r] = "dropped"]
               \/ /\ Range(queue') = Range(queue) \cup {r}
                  /\ pc' = [pc EXCEPT ![r] = "waiting"]
  <2>0. /\ pc \in [Requests -> Places] /\ failed \subseteq Requests
        /\ served \in [Keys -> Nat] /\ sequence \in Nat
        /\ account[r] = NoAccount
    BY <1>2 DEF AdmissionInv, ControlTyped, Clean
  <2>1. CASE /\ failed' = failed \cup {r}
             /\ pc' = [pc EXCEPT ![r] = "dropped"]
             /\ UNCHANGED <<slots, stamps, memory, holding, queue>>
    <3>1. Counters' BY <2>1, CountersKept DEF AdmissionInv
    <3> QED BY <2>0, <2>1, <3>1 DEF slots, stamps, memory, holding
  <2>2. CASE /\ active < Capacity /\ Room(r) /\ Open(r) # {}
             /\ r \notin Refusals(w) /\ Prefer(w)[r] \notin Busy
             /\ HoldAccount(r, Prefer(w)[r])
             /\ EnterSlot(r)
             /\ Stamp(r)
             /\ ReserveBuffer(r)
             /\ pc' = [pc EXCEPT ![r] = "waiting"]
             /\ UNCHANGED <<failed, queue>>
    <3>1. r \in S /\ Prefer(w)[r] \in Accounts BY <1>3, <2>2, PickTyped
    <3>2. HoldingInv' /\ account' = [account EXCEPT ![r] = Prefer(w)[r]]
      BY <2>0, <2>2, <3>1, HoldAccountInv DEF AdmissionInv, Counters
    <3>3. SlotsInv' /\ running' = running \cup {r}
      BY <1>2, <2>2, EnterSlotInv DEF AdmissionInv, Counters, EnterSlot, Clean, Room
    <3>4. MemoryInv' /\ buffered' = buffered \cup {r}
      BY <2>2, ReserveBufferInv DEF AdmissionInv, Counters, Room
    <3>5. QueueInv' BY <2>2, QueueKept DEF AdmissionInv, Counters
    <3>6. served' \in [Keys -> Nat] /\ sequence' \in Nat BY <2>2, StampTyped
    <3>7. account'[r] # NoAccount /\ \A q \in Requests \ {r} : account'[q] = account[q]
      BY <3>1, <3>2, AdmissionAssumption
         DEF AdmissionInv, Counters, HoldingInv, HoldingTyped
    <3> QED BY <2>0, <2>2, <3>2, <3>3, <3>4, <3>5, <3>6, <3>7 DEF Counters
  <2>3. CASE /\ queue' = IF QueueFull(r) THEN queue ELSE Append(queue, r)
             /\ pc' = [pc EXCEPT ![r] = IF QueueFull(r) THEN "dropped" ELSE "waiting"]
             /\ UNCHANGED <<slots, stamps, memory, holding, failed>>
    <3>1. SlotsInv' /\ MemoryInv' /\ HoldingInv'
      BY <2>3, SlotsKept, MemoryKept, HoldingKept DEF AdmissionInv, Counters
    <3>2. CASE QueueFull(r)
      <4>1. QueueInv' BY <2>3, <3>2, QueueKept DEF AdmissionInv, Counters
      <4> QED BY <2>0, <2>3, <3>1, <3>2, <4>1 DEF Counters, slots, stamps, memory, holding
    <3>3. CASE ~QueueFull(r)
      <4>1. QueueInv' /\ Range(queue') = Range(queue) \cup {r}
        BY <1>2, <2>3, <3>3, AppendInv DEF AdmissionInv, Counters, Clean
      <4> QED BY <2>0, <2>3, <3>1, <3>3, <4>1 DEF Counters, slots, stamps, memory, holding
    <3> QED BY <3>2, <3>3
  <2> QED BY <1>4, <2>1, <2>2, <2>3
<1>7. ControlTyped'
  BY <1>1, <1>5, <1>6 DEF AdmissionInv, ControlTyped, control, env, Places
<1>8. pc'[r] \in {"waiting", "dropped"} /\ (pc'[r] = "dropped" => Clean(r)')
  BY <1>2, <1>6 DEF AdmissionInv, ControlTyped, Clean
<1>9. (running \cap Range(queue) = {})'
  BY <1>2, <1>6 DEF AdmissionInv, Relations, Clean
<1>10. CleanPlaces'
  <2> SUFFICES ASSUME NEW q \in Requests
               PROVE  /\ pc'[q] \in {"idle", "binding", "dropped", "gone"} => Clean(q)'
                      /\ pc'[q] = "idle" => q \notin chooses'
                      /\ q \in released' => pc'[q] \in {"dropped", "gone"}
    BY DEF CleanPlaces
  <2>1. CASE q = r
    BY <1>1, <1>2, <1>8, <2>1 DEF AdmissionInv, Relations, CleanPlaces
  <2>2. CASE q # r
    BY <1>1, <1>6, <2>2 DEF AdmissionInv, Relations, CleanPlaces, Clean
  <2> QED BY <2>1, <2>2
<1>11. LockHolder' BY <1>1 DEF LockHolder, Free
<1>12. RunningHolds'
  <2>1. \A q \in running' : q \in Requests /\ (q = r \/ q \in running)
    BY <1>6 DEF AdmissionInv, Counters, SlotsInv, SlotsTyped
  <2>2. r \notin running BY <1>2 DEF Clean
  <2> QED BY <1>1, <1>6, <2>1, <2>2 DEF AdmissionInv, Relations, RunningHolds
<1>13. LeaseBacked'
  <2> SUFFICES ASSUME NEW q \in Requests, pc'[q] = "held"
               PROVE  /\ q \in running'
                      /\ ~Unlimited => q \in buffered'
                      /\ ~Unlimited /\ q \in chooses' => account'[q] # NoAccount
    BY DEF LeaseBacked
  <2>1. q # r /\ pc[q] = "held" BY <1>6, <1>8
  <2> QED BY <1>1, <1>6, <2>1 DEF AdmissionInv, Relations, LeaseBacked
<1> QED BY <1>6, <1>7, <1>9, <1>10, <1>11, <1>12, <1>13 DEF AdmissionInv, Relations

-----------------------------------------------------------------------------
\* The theorems.

\* Every step of the controller, its callers and time keeps the invariant.
LEMMA StepInv == AdmissionInv /\ [Next]_vars => AdmissionInv'
<1> SUFFICES ASSUME AdmissionInv, [Next]_vars PROVE AdmissionInv' OBVIOUS
<1>1. CASE UNCHANGED vars
  <2>0. UNCHANGED <<slots, memory, holding, queue>> /\ UNCHANGED <<chooses, failed>>
    BY <1>1 DEF vars, choice
  <2>1. ControlTyped'
    BY <1>1 DEF AdmissionInv, ControlTyped, vars, stamps, choice, control, env
  <2>2. LockHolder' BY <1>1 DEF AdmissionInv, Relations, LockHolder, vars, choice
  <2>3. CleanPlaces' /\ LeaseBacked'
    BY <1>1, <2>0, ControlStep
       DEF AdmissionInv, Relations, CleanPlaces, Clean, LeaseBacked, vars
  <2> QED BY <2>0, <2>1, <2>2, <2>3, ControlStep DEF AdmissionInv, Relations
<1>2. CASE DispatchOne BY <1>2, DispatchOneInv
<1>3. CASE DispatchEnd BY <1>3, DispatchEndInv
<1>4. CASE Environment BY <1>4, EnvironmentInv
<1>5. ASSUME NEW r \in Requests, Operation(r) PROVE AdmissionInv'
  BY <1>5, AcquireUnlimitedInv, AcquireLimitedInv, AdmitInv, StartInv, GiveUpInv, TickInv,
     BindUnlimitedInv, BindLimitedInv, TakeAccountInv, PaceInv, PaceEndInv, ReleaseInv
     DEF Operation, Acquire, Bind
<1> QED BY <1>1, <1>2, <1>3, <1>4, <1>5 DEF Next, Finished

\* The inductive invariant holds in every reachable state.
LEMMA InvariantHolds == Spec => []AdmissionInv
BY InitInv, StepInv, PTL DEF Spec

\* Every state of the admission controller is well typed: no counter of
\* modelAdmission ever goes below zero, whatever is released twice.
THEOREM TypeCorrect == Spec => []TypeOK
<1>1. AdmissionInv => TypeOK
  BY DEF AdmissionInv, Counters, SlotsInv, MemoryInv, HoldingInv, QueueInv, TypeOK
<1> QED BY <1>1, InvariantHolds, PTL

\* The slot, account and buffer counters equal what the tickets hold.
THEOREM CountersExact == Spec => []CountsMatch
<1>1. AdmissionInv => CountsMatch
  BY DEF AdmissionInv, Counters, SlotsInv, MemoryInv, HoldingInv, CountsMatch
<1> QED BY <1>1, InvariantHolds, PTL

\* No limit of the configuration is ever exceeded.
THEOREM LimitsHold == Spec => []WithinLimits
<1>1. AdmissionInv => WithinLimits
  BY DEF AdmissionInv, Counters, SlotsInv, MemoryInv, HoldingInv, QueueInv, WithinLimits
<1> QED BY <1>1, InvariantHolds, PTL

\* A handler that is given control holds its slot, buffer and account.
THEOREM LeasesBacked == Spec => []LeaseBacked
<1>1. AdmissionInv => LeaseBacked
  BY DEF AdmissionInv, Relations
<1> QED BY <1>1, InvariantHolds, PTL

\* When all requests have gone, nothing is held.
THEOREM NoLeak == Spec => []NothingLeaks
<1>1. AdmissionInv => NothingLeaks
  <2> SUFFICES ASSUME AdmissionInv, \A r \in Requests : pc[r] \in {"idle", "gone"}
               PROVE  /\ active = 0 /\ buffers = 0 /\ queue = <<>>
                      /\ \A u \in Accounts : byAccount[u] = 0
    BY DEF NothingLeaks
  <2>1. \A r \in Requests : Clean(r) BY DEF AdmissionInv, Relations, CleanPlaces
  <2>2. running = {} /\ buffered = {} /\ \A u \in Accounts : {r \in Requests : account[r] = u} = {}
    BY <2>1, AdmissionAssumption
       DEF Clean, AdmissionInv, Counters, SlotsInv, SlotsTyped, MemoryInv, MemoryTyped
  <2>3. active = 0 BY <2>2, FS_EmptySet DEF AdmissionInv, Counters, SlotsInv, SlotsExact
  <2>4. buffers = 0
    <3>1. {} \ Streaming = {} /\ {} \cap Streaming = {} OBVIOUS
    <3> QED BY <2>2, <3>1, FS_EmptySet, ConfigTyped
         DEF AdmissionInv, Counters, MemoryInv, BuffersExact, ChargeOf
  <2>5. \A u \in Accounts : byAccount[u] = 0
    BY <2>2, FS_EmptySet DEF AdmissionInv, Counters, HoldingInv, AccountsExact
  <2>6. queue = <<>>
    <3>1. queue \in Seq(Requests) BY DEF AdmissionInv, Counters, QueueInv, QueueTyped
    <3>2. \A i \in 1..Len(queue) : queue[i] \in Requests /\ queue[i] \in Range(queue)
      BY <3>1, LenProperties, ElementOfSeq DEF Range
    <3>3. Len(queue) = 0 BY <2>1, <3>1, <3>2, LenProperties DEF Clean
    <3> QED BY <3>1, <3>3, EmptySeq
  <2> QED BY <2>3, <2>4, <2>5, <2>6
<1> QED BY <1>1, InvariantHolds, PTL

-----------------------------------------------------------------------------
\* The queue: a second invariant, on top of the first.

\* Who keeps the turn of its key: a ticket in a slot or in the queue, one
\* between the two, and one that has still to be released.
Backs(r) ==
    \/ r \in running \/ r \in Range(queue)
    \/ pc[r] = "binding"
    \/ pc[r] = "dropped" /\ r \notin released

TurnsBacked ==
    \A k \in Keys : served[k] # 0 => \E r \in Requests : KeyOf[r] = k /\ Backs(r)

\* Without limits nothing is queued and only released leases take the mutex.
Uncapped == Unlimited =>
    /\ queue = <<>>
    /\ mu = Free \/ \E q \in Requests : mu = <<q, "unlock">>
    /\ \A r \in Requests : pc[r] \in {"idle", "held", "gone"}

\* A charge that exceeds the whole budget is refused at the door.
ChargesFit == ~Unlimited => \A r \in Requests :
    pc[r] \notin {"idle", "gone"} \/ mu \in {<<r, "acquire">>, <<r, "admit">>}
        => Charge(r) <= BufferBudget

\* What dispatchLocked leaves behind: a queued ticket that is ready and has
\* room waits for an account.
Stuck(r) == r \in ready /\ Room(r) =>
    /\ NeedsAccount(r)
    /\ ~Volatile => Open(r) # {} /\ (preferred[r] \in Busy \/ r \in refused)

WorkKept ==
    ~Scanning /\ ~MemoryGuard /\ active < Capacity => \A r \in Range(queue) : Stuck(r)

QueueFairInv == TurnsBacked /\ Uncapped /\ ChargesFit /\ WorkKept

-----------------------------------------------------------------------------
\* The turns of the keys

\* A step that stamps no key and keeps whoever keeps a turn.
LEMMA TurnsKept ==
    ASSUME TurnsBacked, served' = served,
           \A r \in Requests : Backs(r) => Backs(r)'
    PROVE  TurnsBacked'
BY DEF TurnsBacked

\* A ticket that takes a slot keeps the turn that its key is stamped with.
LEMMA TurnsStamped ==
    ASSUME AdmissionInv, TurnsBacked, NEW r \in Requests, Stamp(r), r \in running',
           \A q \in Requests \ {r} : Backs(q) => Backs(q)'
    PROVE  TurnsBacked'
<1> SUFFICES ASSUME NEW k \in Keys, served'[k] # 0
             PROVE  \E q \in Requests : KeyOf[q] = k /\ Backs(q)'
  BY DEF TurnsBacked
<1>1. Backs(r)' BY DEF Backs
<1>2. CASE k = KeyOf[r] BY <1>1, <1>2
<1>3. CASE k # KeyOf[r]
  <2>1. served'[k] = served[k] BY <1>3 DEF Stamp, AdmissionInv, ControlTyped
  <2>2. PICK q \in Requests : KeyOf[q] = k /\ Backs(q) BY <2>1 DEF TurnsBacked
  <2> QED BY <1>3, <2>2
<1> QED BY <1>2, <1>3

\* removeLocked forgets the turn when no ticket of the key is left.
LEMMA TurnsRemoved ==
    ASSUME AdmissionInv, TurnsBacked, NEW r \in Requests, RemoveTicket(r),
           \A q \in Requests \ {r} : pc'[q] = pc[q] /\ (q \in released' <=> q \in released)
    PROVE  TurnsBacked'
<1>1. /\ SlotsInv' /\ running' = running \ {r} /\ Range(queue') = Range(queue) \ {r}
  BY RemoveTicketInv DEF Counters
<1>2. served' = IF /\ byKey'[KeyOf[r]] = 0
                   /\ \A q \in Range(queue') : KeyOf[q] # KeyOf[r]
                THEN [served EXCEPT ![KeyOf[r]] = 0] ELSE served
  BY DEF RemoveTicket
<1>3. served \in [Keys -> Nat] /\ KeyOf[r] \in Keys
  BY AdmissionAssumption DEF AdmissionInv, ControlTyped
<1>4. queue \in Seq(Requests) /\ \A q \in Range(queue) : q \in Requests
  <2>1. queue \in Seq(Requests) BY DEF AdmissionInv, Counters, QueueInv, QueueTyped
  <2> QED BY <2>1, ElementOfSeq, LenProperties DEF Range
<1> SUFFICES ASSUME NEW k \in Keys, served'[k] # 0
             PROVE  \E q \in Requests : KeyOf[q] = k /\ Backs(q)'
  BY DEF TurnsBacked
<1>5. CASE k # KeyOf[r]
  <2>1. served'[k] = served[k] BY <1>2, <1>3, <1>5
  <2>2. PICK q \in Requests : KeyOf[q] = k /\ Backs(q) BY <2>1 DEF TurnsBacked
  <2>3. q # r BY <1>5, <2>2
  <2> QED BY <1>1, <2>2, <2>3 DEF Backs
<1>6. CASE k = KeyOf[r]
  <2>1. CASE \E q \in Range(queue') : KeyOf[q] = k
    BY <1>1, <1>4, <2>1 DEF Backs
  <2>2. CASE byKey'[k] # 0
    <3>1. byKey'[k] = Cardinality({q \in running' : KeyOf[q] = k})
      BY <1>1 DEF SlotsInv, SlotsExact
    <3>2. {q \in running' : KeyOf[q] = k} # {} BY <2>2, <3>1, FS_EmptySet
    <3> QED BY <1>1, <3>2 DEF Backs, SlotsInv, SlotsTyped
  <2> QED BY <1>2, <1>3, <1>6, <2>1, <2>2
<1> QED BY <1>5, <1>6

-----------------------------------------------------------------------------
\* Waiting for nothing

\* A step that touches nothing dispatchLocked looks at.
LEMMA WorkSame ==
    ASSUME WorkKept,
           UNCHANGED <<slots, memory, holding, queue, ready, mu>>,
           UNCHANGED <<chooses, preferred, refused>>,
           ~MemoryGuard => high' = high, ~Volatile => usable' = usable
    PROVE  WorkKept'
<1> SUFFICES ASSUME ~Scanning', ~MemoryGuard, active' < Capacity, NEW r \in Range(queue')
             PROVE  Stuck(r)'
  BY DEF WorkKept
<1>1. Stuck(r) BY DEF WorkKept, Scanning, slots
<1>2. Room(r)' <=> Room(r)
  BY DEF Room, SharedRoom, BufferRoom, slots, memory, Shared
<1>3. NeedsAccount(r)' <=> NeedsAccount(r) BY DEF NeedsAccount, holding
<1>4. Busy' = Busy BY DEF Busy, holding
<1>5. ~Volatile => Open(r)' = Open(r) BY DEF Open
<1> QED BY <1>1, <1>2, <1>3, <1>4, <1>5 DEF Stuck

\* A ticket that takes a slot and a buffer leaves no more room to the others.
LEMMA EnterTightens ==
    ASSUME AdmissionInv, NEW r \in Requests, EnterSlot(r), ReserveBuffer(r),
           high' = high
    PROVE  /\ active' > active
           /\ \A q \in Requests \ {r} : Room(q)' => Room(q)
<1>1. active' > active BY DEF EnterSlot, AdmissionInv, Counters, SlotsInv, SlotsTyped
<1>2. ASSUME NEW q \in Requests \ {r}, Room(q)' PROVE Room(q)
  <2>1. byKey[KeyOf[q]] < Limit(q)
    <3>1. KeyOf[q] \in Keys /\ byKey \in [Keys -> Nat] /\ Limit(q) \in Nat
      BY AdmissionAssumption, ConfigTyped DEF AdmissionInv, Counters, SlotsInv, SlotsTyped
    <3>2. byKey'[KeyOf[q]] >= byKey[KeyOf[q]] /\ byKey'[KeyOf[q]] \in Nat
      BY <3>1 DEF EnterSlot
    <3>3. byKey'[KeyOf[q]] < Limit(q) BY <1>2 DEF Room, Limit
    <3> QED BY <3>1, <3>2, <3>3
  <2>2. SharedRoom(q)
    BY <1>2, ConfigTyped
       DEF Room, SharedRoom, Shared, EnterSlot, AdmissionInv, Counters, SlotsInv, SlotsTyped,
           SharedCapacity
  <2>3. BufferRoom(q)
    <3>0. /\ buffers \in Nat /\ sharedBuffers \in Nat
          /\ Charge(q) \in Nat /\ Charge(r) \in Nat
          /\ SharedBufferBudget \in Nat /\ BufferBudget \in Nat
      BY ConfigTyped DEF AdmissionInv, Counters, MemoryInv, MemoryTyped
    <3>1. /\ q \in buffered' <=> q \in buffered
          /\ buffers' \in Nat /\ buffers' >= buffers
          /\ sharedBuffers' \in Nat /\ sharedBuffers' >= sharedBuffers
      BY <3>0 DEF ReserveBuffer, memory
    <3>2. BufferRoom(q)' BY <1>2 DEF Room
    <3>3. ~(MemoryGuard /\ high) BY <3>2 DEF BufferRoom
    <3>4. \/ q \in buffered'
          \/ /\ buffers' + Charge(q) <= BufferBudget
             /\ Shared(q) => sharedBuffers' + Charge(q) <= SharedBufferBudget
      BY <3>2 DEF BufferRoom, Charge, Shared, SharedBufferBudget
    <3> QED BY <3>0, <3>1, <3>3, <3>4 DEF BufferRoom
  <2> QED BY <2>1, <2>2, <2>3 DEF Room
<1> QED BY <1>1, <1>2

\* The queue holds requests.
LEMMA QueuedRequests == ASSUME AdmissionInv PROVE \A q \in Range(queue) : q \in Requests
<1>1. queue \in Seq(Requests) BY DEF AdmissionInv, Counters, QueueInv, QueueTyped
<1> QED BY <1>1, ElementOfSeq, LenProperties DEF Range

\* The loop ends only when no queued ticket can start.
LEMMA DispatchEndWork == ASSUME AdmissionInv, DispatchEnd PROVE WorkKept'
<1> SUFFICES ASSUME ~MemoryGuard, active' < Capacity, NEW r \in Range(queue')
             PROVE  Stuck(r)'
  BY DEF WorkKept
<1>0. /\ UNCHANGED <<slots, memory, holding, queue>>
      /\ UNCHANGED <<ready, chooses, high, usable>>
  BY DEF DispatchEnd, env
<1>1. active < Capacity /\ r \in Range(queue) BY <1>0 DEF slots
<1>2. PICK w \in Picks(Scanned) : Startable(w) = {} /\ Looked(w)
  BY <1>1, ConfigTyped DEF DispatchEnd, AdmissionInv, Counters, SlotsInv, SlotsTyped
<1>3. Room(r)' <=> Room(r)
  BY <1>0 DEF Room, SharedRoom, BufferRoom, slots, memory, Shared
<1>4. (NeedsAccount(r)' <=> NeedsAccount(r)) /\ Open(r)' = Open(r) /\ Busy' = Busy
  BY <1>0 DEF NeedsAccount, Open, Busy, holding
<1>5. ASSUME r \in ready, Room(r)
      PROVE  /\ NeedsAccount(r) /\ Open(r) # {}
             /\ Prefer(w)[r] \in Busy \/ r \in Refused(w)
  <2>1. r \in Scanned BY <1>1, <1>5 DEF Scanned
  <2> QED BY <1>2, <2>1 DEF Startable, Refused
<1> QED BY <1>0, <1>2, <1>3, <1>4, <1>5 DEF Stuck, Looked

-----------------------------------------------------------------------------
\* One step per action

\* The new controller has stamped nothing and queues nothing.
LEMMA InitFair == Init => QueueFairInv
<1> SUFFICES ASSUME Init PROVE QueueFairInv OBVIOUS
<1>1. Range(queue) = {} BY DEF Init, Range
<1> QED BY <1>1 DEF Init, QueueFairInv, TurnsBacked, Uncapped, ChargesFit, WorkKept, Free

\* dispatchLocked starts one ticket.
LEMMA DispatchOneFair ==
    ASSUME AdmissionInv, QueueFairInv, DispatchOne PROVE QueueFairInv'
<1>1. PICK r \in Range(queue) :
        /\ queue' = Without(r) /\ EnterSlot(r) /\ Stamp(r) /\ r \in Requests
  BY QueuedRequests DEF DispatchOne, Startable, Scanned
<1>2. Scanning /\ UNCHANGED <<mu, pc, released>> BY DEF DispatchOne
<1>3. running' = running \cup {r} BY <1>1 DEF EnterSlot
<1>4. Range(queue') = Range(queue) \ {r}
  BY <1>1, WithoutInv DEF AdmissionInv, Counters
<1>5. TurnsBacked'
  <2>1. r \in running' BY <1>3
  <2>2. \A q \in Requests \ {r} : Backs(q) => Backs(q)'
    BY <1>2, <1>3, <1>4 DEF Backs
  <2> QED BY <1>1, <2>1, <2>2, TurnsStamped DEF QueueFairInv
<1>6. Uncapped'
  <2>1. ~Unlimited
    <3>1. queue # <<>> BY <1>1 DEF Range
    <3> QED BY <3>1 DEF QueueFairInv, Uncapped
  <2> QED BY <2>1 DEF Uncapped
<1>7. ChargesFit' BY <1>2 DEF QueueFairInv, ChargesFit, Charge
<1>8. WorkKept' BY <1>2 DEF WorkKept, Scanning
<1> QED BY <1>5, <1>6, <1>7, <1>8 DEF QueueFairInv

\* The loop ends.
LEMMA DispatchEndFair ==
    ASSUME AdmissionInv, QueueFairInv, DispatchEnd PROVE QueueFairInv'
<1>1. UNCHANGED <<slots, served, sequence, queue, pc, released>> /\ Scanning
  BY DEF DispatchEnd, stamps
<1>2. PICK q \in Requests, f \in Phases : mu = <<q, f>>
  BY DEF AdmissionInv, ControlTyped, DispatchEnd, Scanning, Free
<1>3. \/ f = "unlock" /\ mu' = Free
      \/ f = "acquire" /\ mu' = <<q, "admit">>
      \/ f = "bind" /\ mu' = <<q, "take">>
  BY <1>2 DEF DispatchEnd, Scanning
<1>4. TurnsBacked'
  <2>1. \A r \in Requests : Backs(r) => Backs(r)' BY <1>1 DEF Backs, slots
  <2> QED BY <1>1, <2>1, TurnsKept DEF QueueFairInv
<1>5. Uncapped' BY <1>1, <1>2, <1>3 DEF QueueFairInv, Uncapped, Free
<1>6. ChargesFit'
  <2> SUFFICES ASSUME ~Unlimited, NEW r \in Requests,
                      pc[r] \notin {"idle", "gone"}
                        \/ mu' \in {<<r, "acquire">>, <<r, "admit">>}
               PROVE  Charge(r) <= BufferBudget
    BY <1>1 DEF ChargesFit, Charge
  <2> QED BY <1>2, <1>3 DEF QueueFairInv, ChargesFit, Free
<1> QED BY <1>4, <1>5, <1>6, DispatchEndWork DEF QueueFairInv

\* acquireWithBudget before its dispatch.
LEMMA AcquireFair ==
    ASSUME AdmissionInv, QueueFairInv, NEW r \in Requests, Acquire(r) PROVE QueueFairInv'
<1>0. /\ mu = Free /\ pc[r] = "idle" /\ ~Scanning
      /\ pc \in [Requests -> Places]
      /\ UNCHANGED <<served, queue, released, memory, holding, choice, ready, env>>
  BY DEF Acquire, AcquireUnlimited, AcquireLimited, Free, Scanning, stamps, AdmissionInv,
         ControlTyped
<1>1. CASE Unlimited
  <2>0. /\ running' = running \cup {r} /\ mu' = mu
        /\ pc' = [pc EXCEPT ![r] = "held"]
    BY <1>1 DEF Acquire, AcquireUnlimited, EnterSlot
  <2>1. \A q \in Requests : Backs(q) => Backs(q)' BY <1>0, <2>0 DEF Backs
  <2>2. TurnsBacked' BY <1>0, <2>1, TurnsKept DEF QueueFairInv
  <2>3. Uncapped' BY <1>0, <1>1, <2>0 DEF QueueFairInv, Uncapped
  <2>4. WorkKept' BY <1>0, <1>1 DEF QueueFairInv, Uncapped, WorkKept, Range
  <2> QED BY <1>1, <2>2, <2>3, <2>4 DEF QueueFairInv, ChargesFit
<1>2. CASE ~Unlimited
  <2>0. /\ UNCHANGED slots
        /\ \/ pc' = [pc EXCEPT ![r] = "gone"] /\ mu' = mu
           \/ /\ mu' = <<r, "acquire">> /\ pc' = pc
              /\ ~(Charge(r) > BufferBudget)
    BY <1>2 DEF Acquire, AcquireLimited
  <2>1. \A q \in Requests : Backs(q) => Backs(q)' BY <1>0, <2>0 DEF Backs, slots
  <2>2. TurnsBacked' BY <1>0, <2>1, TurnsKept DEF QueueFairInv
  <2>3. ChargesFit'
    <3> SUFFICES ASSUME NEW q \in Requests,
                        pc'[q] \notin {"idle", "gone"}
                          \/ mu' \in {<<q, "acquire">>, <<q, "admit">>}
                 PROVE  Charge(q) <= BufferBudget
      BY DEF ChargesFit, Charge
    <3>1. CASE pc'[q] \notin {"idle", "gone"}
      BY <1>0, <1>2, <2>0, <3>1 DEF QueueFairInv, ChargesFit
    <3>2. CASE mu' \in {<<q, "acquire">>, <<q, "admit">>}
      BY <1>0, <2>0, <3>2, ConfigTyped DEF Free
    <3> QED BY <3>1, <3>2
  <2>4. WorkKept'
    <3>1. CASE mu' = mu
      BY <1>0, <2>0, <3>1, WorkSame DEF QueueFairInv, choice, env
    <3>2. CASE mu' = <<r, "acquire">> BY <3>2 DEF WorkKept, Scanning
    <3> QED BY <2>0, <3>1, <3>2
  <2> QED BY <1>2, <2>2, <2>3, <2>4 DEF QueueFairInv, Uncapped
<1> QED BY <1>1, <1>2

\* The rest of acquireWithBudget.
LEMMA AdmitFair ==
    ASSUME AdmissionInv, QueueFairInv, NEW r \in Requests, Admit(r) PROVE QueueFairInv'
<1>0. /\ mu = <<r, "admit">> /\ mu' = Free /\ ~Scanning /\ ~Unlimited
      /\ UNCHANGED <<holding, choice, control, env, ready, released>>
      /\ pc \in [Requests -> Places]
      /\ pc[r] = "idle" /\ Clean(r)
  BY DEF Admit, Scanning, QueueFairInv, Uncapped, Free, AdmissionInv, Relations,
         LockHolder, CleanPlaces, ControlTyped
<1>1. ChargesFit'
  <2> SUFFICES ASSUME NEW q \in Requests, pc'[q] \notin {"idle", "gone"}
               PROVE  Charge(q) <= BufferBudget
    BY <1>0 DEF ChargesFit, Charge, Free
  <2>1. q = r \/ pc'[q] = pc[q] BY <1>0 DEF Admit
  <2> QED BY <1>0, <2>1 DEF QueueFairInv, ChargesFit
<1>2. CASE active < Capacity /\ Room(r)
  <2>0. /\ EnterSlot(r) /\ Stamp(r) /\ ReserveBuffer(r) /\ queue' = queue
        /\ pc' = [pc EXCEPT ![r] = "admitting"]
    BY <1>2 DEF Admit
  <2>1. running' = running \cup {r} BY <2>0 DEF EnterSlot
  <2>2. TurnsBacked'
    <3>1. r \in running' BY <2>1
    <3>2. \A q \in Requests \ {r} : Backs(q) => Backs(q)' BY <1>0, <2>0, <2>1 DEF Backs
    <3> QED BY <2>0, <3>1, <3>2, TurnsStamped DEF QueueFairInv
  <2>3. WorkKept'
    <3> SUFFICES ASSUME ~MemoryGuard, active' < Capacity, NEW q \in Range(queue')
                 PROVE  Stuck(q)'
      BY DEF WorkKept
    <3>1. q \in Requests /\ q # r
      BY <1>0, <2>0, QueuedRequests DEF Clean
    <3>2. active' > active /\ (Room(q)' => Room(q))
      BY <1>0, <2>0, <3>1, EnterTightens DEF env
    <3>3. Stuck(q) BY <1>0, <1>2, <2>0 DEF QueueFairInv, WorkKept
    <3>4. (NeedsAccount(q)' <=> NeedsAccount(q)) /\ Open(q)' = Open(q) /\ Busy' = Busy
      BY <1>0 DEF NeedsAccount, Open, Busy, holding, choice, env
    <3> QED BY <1>0, <3>2, <3>3, <3>4 DEF Stuck, choice
  <2> QED BY <1>0, <1>1, <2>2, <2>3 DEF QueueFairInv, Uncapped
<1>3. CASE ~(active < Capacity /\ Room(r))
  <2>0. /\ queue' = IF QueueFull(r) THEN queue ELSE Append(queue, r)
        /\ pc' = [pc EXCEPT ![r] = IF QueueFull(r) THEN "gone" ELSE "admitting"]
        /\ UNCHANGED <<slots, stamps, memory>>
    BY <1>3 DEF Admit
  <2>1. Range(queue) \subseteq Range(queue') /\ Range(queue') \subseteq Range(queue) \cup {r}
    BY <1>0, <2>0, AppendInv DEF AdmissionInv, Counters, Clean
  <2>2. TurnsBacked'
    <3>1. \A q \in Requests : Backs(q) => Backs(q)'
      BY <1>0, <2>0, <2>1 DEF Backs, slots
    <3> QED BY <2>0, <3>1, TurnsKept DEF QueueFairInv, stamps
  <2>3. WorkKept'
    <3> SUFFICES ASSUME ~MemoryGuard, active' < Capacity, NEW q \in Range(queue')
                 PROVE  Stuck(q)'
      BY DEF WorkKept
    <3>1. active < Capacity BY <2>0 DEF slots
    <3>2. Stuck(q)
      <4>1. CASE q = r BY <1>3, <3>1, <4>1 DEF Stuck
      <4>2. CASE q # r BY <1>0, <2>1, <3>1, <4>2 DEF QueueFairInv, WorkKept
      <4> QED BY <4>1, <4>2
    <3>3. Room(q)' <=> Room(q)
      BY <1>0, <2>0 DEF Room, SharedRoom, BufferRoom, slots, memory, Shared, env
    <3>4. (NeedsAccount(q)' <=> NeedsAccount(q)) /\ Open(q)' = Open(q) /\ Busy' = Busy
      BY <1>0 DEF NeedsAccount, Open, Busy, holding, choice, env
    <3> QED BY <1>0, <3>2, <3>3, <3>4 DEF Stuck, choice
  <2> QED BY <1>0, <1>1, <2>2, <2>3 DEF QueueFairInv, Uncapped
<1> QED BY <1>2, <1>3

\* The steps of await and throttle that only move a request along.
LEMMA MoveFair ==
    ASSUME AdmissionInv, QueueFairInv, NEW r \in Requests,
           Start(r) \/ Tick(r) \/ PaceDone(r) \/ PaceFail(r)
    PROVE  QueueFairInv'
<1>0. /\ UNCHANGED <<slots, stamps, memory, holding, choice, env, queue, released>>
      /\ pc \in [Requests -> Places]
      /\ pc[r] \in {"admitting", "waiting", "pacing"}
      /\ \/ pc' = pc
         \/ pc' = [pc EXCEPT ![r] = "held"]
         \/ pc' = [pc EXCEPT ![r] = "waiting"]
         \/ pc' = [pc EXCEPT ![r] = "failing"]
      /\ (mu' = mu /\ ready' = ready) \/ mu' = <<r, "unlock">>
  BY DEF Start, Tick, PaceDone, PaceFail, Waiting, AdmissionInv, ControlTyped
<1>1. ~Unlimited BY <1>0 DEF QueueFairInv, Uncapped
<1>2. TurnsBacked'
  <2>1. \A q \in Requests : Backs(q) => Backs(q)' BY <1>0 DEF Backs, slots
  <2> QED BY <1>0, <2>1, TurnsKept DEF QueueFairInv, stamps
<1>3. ChargesFit'
  <2> SUFFICES ASSUME NEW q \in Requests,
                      pc'[q] \notin {"idle", "gone"}
                        \/ mu' \in {<<q, "acquire">>, <<q, "admit">>}
               PROVE  Charge(q) <= BufferBudget
    BY DEF ChargesFit, Charge
  <2>1. pc'[q] \notin {"idle", "gone"} => pc[q] \notin {"idle", "gone"} BY <1>0
  <2>2. mu' \in {<<q, "acquire">>, <<q, "admit">>} => mu' = mu BY <1>0
  <2> QED BY <1>1, <2>1, <2>2 DEF QueueFairInv, ChargesFit
<1>4. WorkKept'
  <2>1. CASE mu' = mu /\ ready' = ready
    BY <1>0, <2>1, WorkSame DEF QueueFairInv, choice, env
  <2>2. CASE mu' = <<r, "unlock">> BY <2>2 DEF WorkKept, Scanning
  <2> QED BY <1>0, <2>1, <2>2
<1> QED BY <1>1, <1>2, <1>3, <1>4 DEF QueueFairInv, Uncapped

\* A ticket without limits is not queued, so that nothing leaves the queue.
LEMMA RemoveUncapped ==
    ASSUME Uncapped, Unlimited, NEW r \in Requests, RemoveTicket(r) PROVE queue' = <<>>
<1>1. queue = <<>> /\ Range(queue) = {} BY DEF Uncapped, Range
<1> QED BY <1>1 DEF RemoveTicket, Without

\* await gives its ticket up.
LEMMA GiveUpFair ==
    ASSUME AdmissionInv, QueueFairInv, NEW r \in Requests, GiveUp(r) PROVE QueueFairInv'
<1>0. /\ RemoveTicket(r) /\ mu' = <<r, "unlock">> /\ released' = released
      /\ pc[r] \in {"admitting", "waiting"} /\ pc \in [Requests -> Places]
      /\ \A q \in Requests \ {r} : pc'[q] = pc[q]
  BY DEF GiveUp, Waiting, AdmissionInv, ControlTyped
<1>1. ~Unlimited BY <1>0 DEF QueueFairInv, Uncapped
<1>2. TurnsBacked' BY <1>0, TurnsRemoved DEF QueueFairInv
<1>3. ChargesFit' BY <1>0, <1>1 DEF QueueFairInv, ChargesFit, Charge
<1>4. WorkKept' BY <1>0 DEF WorkKept, Scanning
<1> QED BY <1>1, <1>2, <1>3, <1>4 DEF QueueFairInv, Uncapped

\* A lease is released, by an error path or by the handler.
LEMMA ReleaseFair ==
    ASSUME AdmissionInv, QueueFairInv, NEW r \in Requests, Release(r) PROVE QueueFairInv'
<1>0. /\ UNCHANGED <<choice, control, env, ready>> /\ mu = Free
      /\ pc \in [Requests -> Places] /\ r \in DOMAIN pc
      /\ pc[r] \in {"failing", "held", "dropped"}
      /\ pc' = [pc EXCEPT ![r] = IF @ = "failing" THEN "dropped" ELSE "gone"]
  BY DEF Release, AdmissionInv, ControlTyped
<1>1. \A q \in Requests \ {r} : pc'[q] = pc[q] BY <1>0
<1>2. CASE r \in released
  <2>0. UNCHANGED <<slots, stamps, memory, holding, queue, released, mu>>
    BY <1>2 DEF Release
  <2>1. pc[r] = "dropped" /\ Clean(r)
    BY <1>0, <1>2 DEF AdmissionInv, Relations, CleanPlaces
  <2>2. TurnsBacked'
    <3>1. \A q \in Requests : Backs(q) => Backs(q)'
      BY <1>1, <1>2, <2>0, <2>1 DEF Backs, Clean, slots
    <3> QED BY <2>0, <3>1, TurnsKept DEF QueueFairInv, stamps
  <2>3. Uncapped' BY <2>1 DEF QueueFairInv, Uncapped
  <2>4. ChargesFit' BY <1>0, <1>1, <2>0 DEF QueueFairInv, ChargesFit, Charge
  <2>5. WorkKept' BY <1>0, <2>0, WorkSame DEF QueueFairInv, choice, env
  <2> QED BY <2>2, <2>3, <2>4, <2>5 DEF QueueFairInv
<1>3. CASE r \notin released
  <2>0. RemoveTicket(r) /\ mu' = <<r, "unlock">> /\ released' = released \cup {r}
    BY <1>3 DEF Release
  <2>1. TurnsBacked' BY <1>1, <2>0, TurnsRemoved DEF QueueFairInv
  <2>2. Uncapped'
    <3> SUFFICES ASSUME Unlimited
                 PROVE  /\ queue' = <<>>
                        /\ \A q \in Requests : pc'[q] \in {"idle", "held", "gone"}
      BY <2>0 DEF Uncapped
    <3>1. queue' = <<>> BY <2>0, RemoveUncapped DEF QueueFairInv
    <3>2. pc[r] = "held" BY <1>0 DEF QueueFairInv, Uncapped
    <3> QED BY <1>0, <1>1, <3>1, <3>2 DEF QueueFairInv, Uncapped
  <2>3. ChargesFit' BY <1>0, <1>1, <2>0 DEF QueueFairInv, ChargesFit, Charge
  <2>4. WorkKept' BY <2>0 DEF WorkKept, Scanning
  <2> QED BY <2>1, <2>2, <2>3, <2>4 DEF QueueFairInv
<1> QED BY <1>2, <1>3

\* bindProviderAccount: everything is given back before the dispatch.
LEMMA BindFair ==
    ASSUME AdmissionInv, QueueFairInv, NEW r \in Requests, Bind(r) PROVE QueueFairInv'
<1>0. /\ mu = Free /\ pc[r] = "held" /\ pc \in [Requests -> Places]
      /\ UNCHANGED <<stamps, queue, released, env>>
  BY DEF Bind, BindUnlimited, BindLimited, AdmissionInv, ControlTyped
<1>1. CASE Unlimited
  <2>0. UNCHANGED <<slots, pc, mu>> BY <1>1 DEF Bind, BindUnlimited
  <2>1. TurnsBacked'
    <3>1. \A q \in Requests : Backs(q) => Backs(q)' BY <1>0, <2>0 DEF Backs, slots
    <3> QED BY <1>0, <3>1, TurnsKept DEF QueueFairInv, stamps
  <2>2. Uncapped' BY <1>0, <2>0 DEF QueueFairInv, Uncapped
  <2>3. WorkKept' BY <1>0, <1>1 DEF QueueFairInv, Uncapped, WorkKept, Range
  <2> QED BY <1>1, <2>1, <2>2, <2>3 DEF QueueFairInv, ChargesFit
<1>2. CASE ~Unlimited
  <2>0. /\ LeaveSlot(r) /\ mu' = <<r, "bind">> /\ pc' = [pc EXCEPT ![r] = "binding"]
    BY <1>2 DEF Bind, BindLimited
  <2>1. running' = running \ {r} BY <2>0 DEF LeaveSlot
  <2>2. TurnsBacked'
    <3>1. \A q \in Requests : Backs(q) => Backs(q)' BY <1>0, <2>0, <2>1 DEF Backs
    <3> QED BY <1>0, <3>1, TurnsKept DEF QueueFairInv, stamps
  <2>3. ChargesFit' BY <1>0, <1>2, <2>0 DEF QueueFairInv, ChargesFit, Charge
  <2>4. WorkKept' BY <2>0 DEF WorkKept, Scanning
  <2> QED BY <1>2, <2>2, <2>3, <2>4 DEF QueueFairInv, Uncapped
<1> QED BY <1>1, <1>2

\* throttle: the ticket gives its slot back and waits for the account's pace.
LEMMA PaceFair ==
    ASSUME AdmissionInv, QueueFairInv, NEW r \in Requests, Pace(r) PROVE QueueFairInv'
<1>0. /\ ~Unlimited /\ pc[r] = "held" /\ pc \in [Requests -> Places]
      /\ UNCHANGED <<stamps, memory, holding, choice, binds, env, released>>
  BY DEF Pace, AdmissionInv, ControlTyped
<1>1. CASE QueueFull(r)
  <2>0. UNCHANGED <<slots, queue, ready, mu, pc>> BY <1>1 DEF Pace
  <2>1. TurnsBacked'
    <3>1. \A q \in Requests : Backs(q) => Backs(q)' BY <1>0, <2>0 DEF Backs, slots
    <3> QED BY <1>0, <3>1, TurnsKept DEF QueueFairInv, stamps
  <2>2. WorkKept' BY <1>0, <2>0, WorkSame DEF QueueFairInv, choice, env
  <2>3. ChargesFit' BY <2>0 DEF QueueFairInv, ChargesFit, Charge
  <2> QED BY <1>0, <2>1, <2>2, <2>3 DEF QueueFairInv, Uncapped
<1>2. CASE ~QueueFull(r)
  <2>0. /\ queue' = Append(queue, r) /\ LeaveSlot(r) /\ mu' = <<r, "unlock">>
        /\ pc' = [pc EXCEPT ![r] = "pacing"] /\ r \in running
    BY <1>2 DEF Pace
  <2>1. running' = running \ {r} BY <2>0 DEF LeaveSlot
  <2>2. Range(queue') = Range(queue) \cup {r}
    <3>1. r \notin Range(queue) BY <2>0 DEF AdmissionInv, Relations
    <3> QED BY <1>2, <2>0, <3>1, AppendInv DEF AdmissionInv, Counters
  <2>3. TurnsBacked'
    <3>1. \A q \in Requests : Backs(q) => Backs(q)'
      BY <1>0, <2>0, <2>1, <2>2 DEF Backs
    <3> QED BY <1>0, <3>1, TurnsKept DEF QueueFairInv, stamps
  <2>4. ChargesFit' BY <1>0, <2>0 DEF QueueFairInv, ChargesFit, Charge
  <2>5. WorkKept' BY <2>0 DEF WorkKept, Scanning
  <2> QED BY <1>0, <2>3, <2>4, <2>5 DEF QueueFairInv, Uncapped
<1> QED BY <1>1, <1>2

\* The rest of bindProviderAccount: slot and account together, the queue, or
\* an error that leaves the lease without a slot.
LEMMA TakeAccountFair ==
    ASSUME AdmissionInv, QueueFairInv, NEW r \in Requests, TakeAccount(r)
    PROVE  QueueFairInv'
<1> DEFINE S == {q \in {r} : active < Capacity /\ Room(q)}
<1>0. /\ mu = <<r, "take">> /\ mu' = Free /\ ~Scanning /\ ~Unlimited
      /\ UNCHANGED <<chooses, control, env, ready, released>>
      /\ pc \in [Requests -> Places] /\ r \notin released
      /\ pc[r] = "binding" /\ Clean(r) /\ r \in chooses
  BY DEF TakeAccount, Scanning, QueueFairInv, Uncapped, Free, AdmissionInv, Relations,
         LockHolder, CleanPlaces, ControlTyped
<1>1. NeedsAccount(r) BY <1>0 DEF NeedsAccount, Clean
<1>2. PICK w \in Picks(S) :
        /\ Looked(w)
        /\ \/ /\ active < Capacity /\ Room(r) /\ Open(r) = {}
              /\ failed' = failed \cup {r}
              /\ pc' = [pc EXCEPT ![r] = "dropped"]
              /\ UNCHANGED <<slots, stamps, memory, holding, queue>>
           \/ /\ active < Capacity /\ Room(r) /\ Open(r) # {}
              /\ r \notin Refusals(w) /\ Prefer(w)[r] \notin Busy
              /\ HoldAccount(r, Prefer(w)[r])
              /\ EnterSlot(r)
              /\ Stamp(r)
              /\ ReserveBuffer(r)
              /\ pc' = [pc EXCEPT ![r] = "waiting"]
              /\ UNCHANGED <<failed, queue>>
           \/ /\ \/ ~(active < Capacity /\ Room(r))
                 \/ r \in Refusals(w)
                 \/ Open(r) # {} /\ Prefer(w)[r] \in Busy
              /\ queue' = IF QueueFull(r) THEN queue ELSE Append(queue, r)
              /\ pc' = [pc EXCEPT ![r] = IF QueueFull(r) THEN "dropped" ELSE "waiting"]
              /\ UNCHANGED <<slots, stamps, memory, holding, failed>>
  BY DEF TakeAccount
<1>3. /\ \A q \in Requests \ {r} :
           /\ preferred'[q] = preferred[q] /\ pc'[q] = pc[q]
           /\ q \in refused' <=> q \in refused
      /\ DOMAIN w \subseteq {r}
  <2>1. DOMAIN w \subseteq {r} BY DEF Picks, Asked
  <2> QED BY <1>0, <1>2, <2>1
       DEF Looked, Prefer, Refused, Refusals, AdmissionInv, ControlTyped
<1>4. ChargesFit'
  <2> SUFFICES ASSUME NEW q \in Requests, pc'[q] \notin {"idle", "gone"}
               PROVE  Charge(q) <= BufferBudget
    BY <1>0 DEF ChargesFit, Charge, Free
  <2> QED BY <1>0, <1>3 DEF QueueFairInv, ChargesFit
<1>5. Uncapped' BY <1>0 DEF Uncapped
<1>6. Open(r)' = Open(r) /\ \A q \in Requests : Open(q)' = Open(q)
  BY <1>0 DEF Open, env
<1>7. CASE /\ pc' = [pc EXCEPT ![r] = "dropped"]
           /\ UNCHANGED <<slots, stamps, memory, holding, queue>>
  <2>1. TurnsBacked'
    <3>1. \A q \in Requests : Backs(q) => Backs(q)' BY <1>0, <1>7 DEF Backs, slots
    <3> QED BY <1>7, <3>1, TurnsKept DEF QueueFairInv, stamps
  <2>2. WorkKept'
    <3> SUFFICES ASSUME ~MemoryGuard, active' < Capacity, NEW q \in Range(queue')
                 PROVE  Stuck(q)'
      BY DEF WorkKept
    <3>1. q \in Requests /\ q # r BY <1>0, <1>7, QueuedRequests DEF Clean
    <3>2. Stuck(q) BY <1>0, <1>7 DEF QueueFairInv, WorkKept, slots
    <3>3. Room(q)' <=> Room(q)
      BY <1>0, <1>7 DEF Room, SharedRoom, BufferRoom, slots, memory, Shared, env
    <3>4. (NeedsAccount(q)' <=> NeedsAccount(q)) /\ Busy' = Busy
      BY <1>0, <1>7 DEF NeedsAccount, Busy, holding
    <3> QED BY <1>0, <1>3, <1>6, <3>1, <3>2, <3>3, <3>4 DEF Stuck
  <2> QED BY <1>4, <1>5, <2>1, <2>2 DEF QueueFairInv
<1>8. CASE /\ active < Capacity /\ Room(r) /\ Open(r) # {}
           /\ r \notin Refusals(w)
           /\ HoldAccount(r, Prefer(w)[r]) /\ EnterSlot(r) /\ Stamp(r) /\ ReserveBuffer(r)
           /\ queue' = queue
  <2>0. running' = running \cup {r} BY <1>8 DEF EnterSlot
  <2>1. TurnsBacked'
    <3>1. r \in running' BY <2>0
    <3>2. \A q \in Requests \ {r} : Backs(q) => Backs(q)'
      BY <1>0, <1>3, <1>8, <2>0 DEF Backs
    <3> QED BY <1>8, <3>1, <3>2, TurnsStamped DEF QueueFairInv
  <2>2. r \in S /\ Prefer(w)[r] \in Accounts BY <1>1, <1>8, PickTyped
  <2>3. Busy \subseteq Busy' /\ \A q \in Requests \ {r} : account'[q] = account[q]
    BY <1>8, <2>2, ConfigTyped
       DEF HoldAccount, Busy, AdmissionInv, Counters, HoldingInv, HoldingTyped
  <2>4. WorkKept'
    <3> SUFFICES ASSUME ~MemoryGuard, active' < Capacity, NEW q \in Range(queue')
                 PROVE  Stuck(q)'
      BY DEF WorkKept
    <3>1. q \in Requests /\ q # r BY <1>0, <1>8, QueuedRequests DEF Clean
    <3>2. Stuck(q) BY <1>0, <1>8 DEF QueueFairInv, WorkKept
    <3>3. Room(q)' => Room(q) BY <1>0, <1>8, <3>1, EnterTightens DEF env
    <3>4. NeedsAccount(q)' <=> NeedsAccount(q) BY <1>0, <2>3, <3>1 DEF NeedsAccount
    <3> QED BY <1>0, <1>3, <1>6, <2>3, <3>1, <3>2, <3>3, <3>4 DEF Stuck
  <2> QED BY <1>4, <1>5, <2>1, <2>4 DEF QueueFairInv
<1>9. CASE /\ \/ ~(active < Capacity /\ Room(r))
              \/ r \in Refusals(w)
              \/ Open(r) # {} /\ Prefer(w)[r] \in Busy
           /\ queue' = IF QueueFull(r) THEN queue ELSE Append(queue, r)
           /\ pc' = [pc EXCEPT ![r] = IF QueueFull(r) THEN "dropped" ELSE "waiting"]
           /\ UNCHANGED <<slots, stamps, memory, holding, failed>>
  <2>0. /\ Range(queue) \subseteq Range(queue')
        /\ Range(queue') \subseteq Range(queue) \cup {r}
        /\ ~QueueFull(r) => r \in Range(queue')
    BY <1>0, <1>9, AppendInv DEF AdmissionInv, Counters, Clean
  <2>1. TurnsBacked'
    <3>1. \A q \in Requests : Backs(q) => Backs(q)'
      BY <1>0, <1>3, <1>9, <2>0 DEF Backs, slots
    <3> QED BY <1>9, <3>1, TurnsKept DEF QueueFairInv, stamps
  <2>2. WorkKept'
    <3> SUFFICES ASSUME ~MemoryGuard, active' < Capacity, NEW q \in Range(queue')
                 PROVE  Stuck(q)'
      BY DEF WorkKept
    <3>1. active < Capacity BY <1>9 DEF slots
    <3>2. Room(q)' <=> Room(q)
      BY <1>0, <1>9 DEF Room, SharedRoom, BufferRoom, slots, memory, Shared, env
    <3>3. (NeedsAccount(q)' <=> NeedsAccount(q)) /\ Busy' = Busy
      BY <1>0, <1>9 DEF NeedsAccount, Busy, holding
    <3>4. CASE q = r
      <4>1. r \in Refusals(w) => r \in refused' /\ r \in Asked(S)
        BY <1>2 DEF Looked, Refused, Refusals, Picks
      <4>2. Prefer(w)[r] = preferred'[r] BY <1>2 DEF Looked
      <4> QED BY <1>1, <1>6, <1>9, <3>1, <3>2, <3>3, <3>4, <4>1, <4>2 DEF Stuck, Asked
    <3>5. CASE q # r
      <4>1. q \in Range(queue) BY <2>0, <3>5
      <4>2. q \in Requests BY <4>1, QueuedRequests
      <4>3. Stuck(q) BY <1>0, <3>1, <4>1 DEF QueueFairInv, WorkKept
      <4> QED BY <1>0, <1>3, <1>6, <3>2, <3>3, <3>5, <4>2, <4>3 DEF Stuck
    <3> QED BY <3>4, <3>5
  <2> QED BY <1>4, <1>5, <2>1, <2>2 DEF QueueFairInv
<1> QED BY <1>2, <1>7, <1>8, <1>9

\* A step that moves nothing but the environment, which moves only with the
\* memory guard or with accounts that come and go.
LEMMA QuietFair ==
    ASSUME QueueFairInv, Environment \/ UNCHANGED vars PROVE QueueFairInv'
<1>0. /\ UNCHANGED <<slots, stamps, memory, holding, queue, ready, released, mu, pc>>
      /\ UNCHANGED <<chooses, preferred, refused>>
      /\ ~MemoryGuard => high' = high
      /\ ~Volatile => usable' = usable
  BY DEF Environment, Steer, vars, env, choice
<1>1. TurnsBacked'
  <2>1. \A q \in Requests : Backs(q) => Backs(q)' BY <1>0 DEF Backs, slots
  <2> QED BY <1>0, <2>1, TurnsKept DEF QueueFairInv, stamps
<1>2. WorkKept' BY <1>0, WorkSame DEF QueueFairInv
<1>3. Uncapped' BY <1>0 DEF QueueFairInv, Uncapped
<1>4. ChargesFit' BY <1>0 DEF QueueFairInv, ChargesFit, Charge
<1> QED BY <1>1, <1>2, <1>3, <1>4 DEF QueueFairInv

\* Every step of the controller keeps the invariant of the queue.
LEMMA StepFair == AdmissionInv /\ QueueFairInv /\ [Next]_vars => QueueFairInv'
<1> SUFFICES ASSUME AdmissionInv, QueueFairInv, [Next]_vars PROVE QueueFairInv' OBVIOUS
<1>1. CASE Environment \/ UNCHANGED vars BY <1>1, QuietFair
<1>2. CASE DispatchOne BY <1>2, DispatchOneFair
<1>3. CASE DispatchEnd BY <1>3, DispatchEndFair
<1>4. ASSUME NEW r \in Requests, Operation(r) PROVE QueueFairInv'
  BY <1>4, AcquireFair, AdmitFair, MoveFair, GiveUpFair, BindFair, TakeAccountFair,
     PaceFair, ReleaseFair
     DEF Operation
<1> QED BY <1>1, <1>2, <1>3, <1>4 DEF Next, Finished

\* The invariant of the queue holds in every reachable state.
LEMMA QueueInvariantHolds == Spec => []QueueFairInv
BY InitFair, StepFair, InvariantHolds, PTL DEF Spec

-----------------------------------------------------------------------------
\* What the invariant gives

\* While no other private request holds anything, a private ticket has room:
\* the clamps of newModelAdmission leave it a slot and its charge.
LEMMA PrivateRoom ==
    ASSUME AdmissionInv, NEW r \in Requests, r \notin running, ~Shared(r),
           Capacity > 1, ~MemoryGuard, ~Unlimited, Charge(r) <= BufferBudget,
           \A q \in (running \cup buffered) \ {r} : Shared(q)
    PROVE  active < Capacity /\ Room(r)
<1>1. SlotsInv /\ MemoryInv BY DEF AdmissionInv, Counters
<1>2. {q \in running : Shared(q)} = running /\ {q \in running : KeyOf[q] = KeyOf[r]} = {}
  BY DEF Shared
<1>3. active < Capacity
  <2>1. active = sharedActive /\ sharedActive <= SharedCapacity
    BY <1>1, <1>2 DEF SlotsInv, SlotsExact, SlotLimits
  <2>2. SharedCapacity < Capacity
    BY AdmissionAssumption DEF SharedCapacity, AtMost
  <2> QED BY <1>1, <2>1, <2>2, ConfigTyped DEF SlotsInv, SlotsTyped
<1>4. byKey[KeyOf[r]] < Limit(r)
  <2>1. byKey[KeyOf[r]] = 0
    <3>1. PICK k \in Keys : k = KeyOf[r] BY AdmissionAssumption
    <3>2. byKey[k] = Cardinality({q \in running : KeyOf[q] = k})
      BY <1>1 DEF SlotsInv, SlotsExact
    <3>3. {q \in running : KeyOf[q] = k} = {} BY <1>2, <3>1
    <3> QED BY <3>1, <3>2, <3>3, FS_EmptySet
  <2>2. KeyLimit[KeyOf[r]] \in Nat /\ Capacity \in Nat BY AdmissionAssumption
  <2>3. Limit(r) >= 1 BY <2>2 DEF Limit, AtMost
  <2> QED BY <2>1, <2>3, ConfigTyped
<1>5. BufferRoom(r)
  <2>1. CASE r \in buffered BY <2>1 DEF BufferRoom
  <2>2. CASE r \notin buffered
    <3>1. {q \in buffered : Shared(q)} = buffered BY <2>2
    <3>2. buffers = sharedBuffers /\ sharedBuffers <= SharedBufferBudget
      BY <1>1, <3>1 DEF MemoryInv, BuffersExact, MemoryLimits
    <3>3. Charge(r) <= 4 * ResponseLimit BY ConfigTyped DEF Charge
    <3>4. SharedBufferBudget = 0 \/ SharedBufferBudget = BufferBudget - 4 * ResponseLimit
      BY DEF SharedBufferBudget
    <3>5. buffers + Charge(r) <= BufferBudget
      BY <1>1, <3>2, <3>3, <3>4, ConfigTyped DEF MemoryInv, MemoryTyped
    <3> QED BY <3>5 DEF BufferRoom
  <2> QED BY <2>1, <2>2
<1> QED BY <1>3, <1>4, <1>5 DEF Room, SharedRoom

\* No wakeup of the queue is lost, private capacity is left to private
\* requests, and a key's turn does not outlive its leases, in whatever order
\* requests are admitted, bound, paced, cancelled and released.
THEOREM QueueStaysFair == Spec => []QueueFair
<1>1. AdmissionInv /\ QueueFairInv => WorkConserving
  BY DEF QueueFairInv, WorkKept, WorkConserving, Scanned, Stuck, Scanning, Free
<1>2. AdmissionInv /\ QueueFairInv => PrivateReserve
  <2> SUFFICES ASSUME AdmissionInv, QueueFairInv, NEW r \in Range(queue),
                      mu = Free, Capacity > 1, ~MemoryGuard,
                      ~Shared(r), r \in ready, ~NeedsAccount(r),
                      \A q \in (running \cup buffered) \ {r} : Shared(q)
               PROVE  FALSE
    BY DEF PrivateReserve
  <2>1. r \in Requests /\ r \notin running
    BY QueuedRequests DEF AdmissionInv, Relations
  <2>2. ~Unlimited BY DEF QueueFairInv, Uncapped, Range
  <2>3. pc[r] \notin {"idle", "gone"}
    BY <2>1 DEF AdmissionInv, Relations, CleanPlaces, Clean
  <2>4. Charge(r) <= BufferBudget BY <2>1, <2>2, <2>3 DEF QueueFairInv, ChargesFit
  <2>5. active < Capacity /\ Room(r) BY <2>1, <2>2, <2>4, PrivateRoom
  <2> QED BY <2>5 DEF QueueFairInv, WorkKept, Stuck, Scanning, Free
<1>3. AdmissionInv /\ QueueFairInv => TurnsForgotten
  BY DEF AdmissionInv, Relations, CleanPlaces, Clean, QueueFairInv, TurnsBacked, Backs,
         TurnsForgotten
<1> QED BY <1>1, <1>2, <1>3, InvariantHolds, QueueInvariantHolds, PTL DEF QueueFair
=============================================================================
