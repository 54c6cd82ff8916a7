----------------------- MODULE ParallelPrefetchProofs -----------------------
EXTENDS ParallelPrefetch, FiniteSetTheorems, TLAPS

(* Two indices of one window of Capacity consecutive numbers that share a  *)
(* ring slot are the same index.                                           *)
LEMMA SameSlot ==
  ASSUME NEW N \in Nat \ {0}, NEW a \in Nat, NEW i \in Nat, NEW j \in Nat,
         a <= i, i < a + N, a <= j, j < a + N, i % N = j % N
  PROVE  i = j
  <1> DEFINE p == i \div N
             q == j \div N
  <1>1. p \in Int /\ q \in Int
    OBVIOUS
  <1>2. i = (N * p) + (i % N) /\ j = (N * q) + (j % N)
    OBVIOUS
  <1>3. i - j = N * p - N * q
    BY <1>1, <1>2
  <1>4. -N < i - j /\ i - j < N
    OBVIOUS
  <1>5. CASE p = q
    BY <1>3, <1>5
  <1>6. CASE p >= q + 1
    <2>1. N * p >= N * q + N
      BY <1>1, <1>6
    <2> QED BY <2>1, <1>1, <1>3, <1>4
  <1>7. CASE q >= p + 1
    <2>1. N * q >= N * p + N
      BY <1>1, <1>7
    <2> QED BY <2>1, <1>1, <1>3, <1>4
  <1> QED BY <1>1, <1>5, <1>6, <1>7

-----------------------------------------------------------------------------
(* Arithmetic of the ring, from the assumptions on the constants. *)

LEMMA SlotInRing == \A i \in Nat : i % Capacity \in Slots
  BY CapacityAssumption DEF Slots

LEMMA ConstantsTyped == Count \in Nat /\ Capacity \in Nat /\ Capacity > 0
  BY CountAssumption, CapacityAssumption

-----------------------------------------------------------------------------
(* Type correctness *)

LEMMA TypeInit == Init => TypeOK
  <1> SUFFICES ASSUME Init PROVE TypeOK
    OBVIOUS
  <1>1. out \in Seq(Indices)
    BY DEF Init
  <1>2. /\ assigned \in 0 .. Count /\ consumed \in 0 .. Count
        /\ readyCount \in Int /\ peak \in Int
    BY ConstantsTyped DEF Init
  <1>3. slots \in [Slots -> Indices \cup {Empty}]
    BY DEF Init
  <1> QED BY <1>1, <1>2, <1>3 DEF Init, TypeOK, WorkerStates, ConsumerStates

LEMMA TypeWorker ==
  ASSUME TypeOK, NEW w \in Workers, WorkerStep(w)
  PROVE  TypeOK'
  <1> USE ConstantsTyped DEF TypeOK, WorkerStates, Empty, ring
  <1>1. CASE WorkerSleep(w)
    BY <1>1 DEF WorkerSleep, Threads, AtWait
  <1>2. CASE WorkerExit(w)
    BY <1>2 DEF WorkerExit, AtWait
  <1>3. CASE Claim(w)
    BY <1>3 DEF Claim, AtWait, Indices
  <1>4. CASE Produce(w)
    BY <1>4 DEF Produce
  <1>5. CASE ProduceThrows(w)
    BY <1>5 DEF ProduceThrows
  <1>6. CASE Discard(w)
    BY <1>6 DEF Discard
  <1>7. CASE Store(w)
    <2>1. peak' \in Int /\ readyCount' \in Int
      BY <1>7 DEF Store
    <2>2. slots' \in [Slots -> Indices \cup {Empty}]
      BY <1>7 DEF Store
    <2> QED BY <1>7, <2>1, <2>2 DEF Store
  <1>8. CASE WorkerNotify(w)
    BY <1>8 DEF WorkerNotify
  <1>9. CASE Fail(w)
    BY <1>9 DEF Fail
  <1>10. CASE FailNotify(w)
    BY <1>10 DEF FailNotify
  <1> QED BY <1>1, <1>2, <1>3, <1>4, <1>5, <1>6, <1>7, <1>8, <1>9, <1>10 DEF WorkerStep

LEMMA TypeConsumer ==
  ASSUME TypeOK, ConsumerStep \/ CallPop \/ Destroy \/ SpuriousWake \/ Finished
  PROVE  TypeOK'
  <1> USE ConstantsTyped DEF TypeOK, ConsumerStates, Empty, ring
  <1>1. CASE Spawn
    BY <1>1 DEF Spawn, WorkerStates
  <1>2. CASE SpawnFails
    BY <1>2 DEF SpawnFails
  <1>3. CASE Constructed
    BY <1>3 DEF Constructed
  <1>4. CASE PopSleep
    BY <1>4 DEF PopSleep, Threads, AtPop
  <1>5. CASE PopError
    BY <1>5 DEF PopError, AtPop
  <1>6. CASE PopExhausted
    BY <1>6 DEF PopExhausted, AtPop
  <1>7. CASE PopItem
    <2>1. FrontSlot \in Slots
      BY SlotInRing DEF FrontSlot
    <2>2. slots[FrontSlot] \in Indices
      BY <1>7, <2>1 DEF PopItem
    <2>3. out' \in Seq(Indices)
      BY <1>7, <2>2 DEF PopItem
    <2>4. slots' \in [Slots -> Indices \cup {Empty}]
      BY <1>7 DEF PopItem
    <2> QED BY <1>7, <2>3, <2>4 DEF PopItem
  <1>8. CASE PopNotify
    BY <1>8 DEF PopNotify
  <1>9. CASE Cancel
    BY <1>9 DEF Cancel
  <1>10. CASE CancelNotify
    BY <1>10 DEF CancelNotify
  <1>11. CASE Join
    BY <1>11 DEF Join
  <1>12. CASE CallPop
    BY <1>12 DEF CallPop
  <1>13. CASE Destroy
    BY <1>13 DEF Destroy
  <1>14. CASE SpuriousWake
    BY <1>14 DEF SpuriousWake
  <1>15. CASE Finished
    BY <1>15 DEF Finished, vars
  <1> QED BY <1>1, <1>2, <1>3, <1>4, <1>5, <1>6, <1>7, <1>8, <1>9, <1>10, <1>11, <1>12, <1>13, <1>14, <1>15 DEF ConsumerStep

LEMMA TypeStep == TypeOK /\ [Next]_vars => TypeOK'
  <1> SUFFICES ASSUME TypeOK, [Next]_vars PROVE TypeOK'
    OBVIOUS
  <1>1. CASE \E w \in Workers : WorkerStep(w)
    BY <1>1, TypeWorker
  <1>2. CASE ConsumerStep \/ CallPop \/ Destroy \/ SpuriousWake \/ Finished
    BY <1>2, TypeConsumer
  <1>3. CASE UNCHANGED vars
    BY <1>3 DEF TypeOK, vars, ring
  <1> QED BY <1>1, <1>2, <1>3 DEF Next

(* Every reachable state of the ring and its threads has the declared type. *)
THEOREM TypeCorrect == Spec => []TypeOK
  <1> QED BY TypeInit, TypeStep, PTL DEF Spec

-----------------------------------------------------------------------------
(* The inductive invariant.  Order needs the window (two indices in one     *)
(* window never share a slot), the window needs every holder inside it, and *)
(* a failure is recorded together with the cancellation.                   *)

FailureStops == error # Empty => cancelled

IInv == TypeOK /\ SlotsInv /\ FailureStops

LEMMA IInvInit == Init => IInv
  <1> SUFFICES ASSUME Init PROVE IInv
    OBVIOUS
  <1>1. TypeOK
    BY TypeInit
  <1>2. InFlight = {} /\ Occupied = {}
    BY DEF Init, InFlight, Occupied
  <1>3. WindowInv /\ OneHolder
    BY <1>2, ConstantsTyped DEF Init, WindowInv, OneHolder
  <1>4. OrderedDelivery
    BY DEF Init, OrderedDelivery
  <1> QED BY <1>1, <1>3, <1>4 DEF Init, IInv, SlotsInv, FailureStops

(* A step that leaves the ring, the deliveries and every holder alone, or   *)
(* only lets holders go, keeps the ring invariant.                          *)
LEMMA RingUntouched ==
  ASSUME SlotsInv, UNCHANGED <<assigned, consumed, slots, out>>,
         InFlight' \in SUBSET InFlight,
         \A w \in InFlight' : windex'[w] = windex[w]
  PROVE  SlotsInv'
  <1>1. Occupied' = Occupied
    BY DEF Occupied
  <1>2. WindowInv'
    BY <1>1 DEF SlotsInv, WindowInv
  <1>3. OneHolder'
    BY <1>1 DEF SlotsInv, OneHolder
  <1>4. OrderedDelivery'
    BY DEF SlotsInv, OrderedDelivery
  <1> QED BY <1>2, <1>3, <1>4 DEF SlotsInv

LEMMA RingClaim ==
  ASSUME IInv, NEW w \in Workers, Claim(w)
  PROVE  SlotsInv'
  <1>1. TypeOK /\ TypeOK'
    BY TypeWorker DEF IInv, WorkerStep
  <1>2. Occupied' = Occupied
    BY DEF Claim, Occupied
  <1>3. InFlight' = InFlight \cup {w} /\ w \notin InFlight
    BY <1>1 DEF Claim, AtWait, InFlight, TypeOK
  <1>4. windex'[w] = assigned /\ \A v \in InFlight : windex'[v] = windex[v]
    BY <1>1, <1>3 DEF Claim, TypeOK, InFlight
  <1>5. WindowInv'
    <2>1. /\ assigned \in Nat /\ consumed \in Nat /\ WindowInv
          /\ assigned' = assigned + 1 /\ consumed' = consumed /\ slots' = slots
          /\ assigned - consumed < Capacity
      BY <1>1, ConstantsTyped DEF Claim, HasRoom, IInv, SlotsInv, TypeOK
    <2>2. \A v \in InFlight : windex[v] \in Int
      BY <1>1, ConstantsTyped DEF TypeOK, InFlight, Indices, Empty
    <2>3. \A k \in Occupied : slots[k] \in Int
      BY <1>1, ConstantsTyped DEF TypeOK, Occupied, Indices, Empty
    <2>4. consumed' <= assigned' /\ assigned' - consumed' <= Capacity
      BY <2>1, ConstantsTyped DEF WindowInv
    <2>5. \A v \in InFlight' : consumed' <= windex'[v] /\ windex'[v] < assigned'
      BY <1>3, <1>4, <2>1, <2>2 DEF WindowInv
    <2>6. \A k \in Occupied' : /\ consumed' <= slots'[k] /\ slots'[k] < assigned'
                               /\ slots'[k] % Capacity = k
      BY <1>2, <2>1, <2>3 DEF WindowInv
    <2> QED BY <2>4, <2>5, <2>6 DEF WindowInv
  <1>6. OneHolder'
    <2>1. \A v \in InFlight : windex[v] # assigned
      BY <1>1, <1>3 DEF IInv, SlotsInv, WindowInv, TypeOK
    <2>2. \A k \in Occupied : slots[k] # assigned
      BY <1>1 DEF IInv, SlotsInv, WindowInv, TypeOK
    <2> QED BY <1>2, <1>3, <1>4, <2>1, <2>2
            DEF Claim, IInv, SlotsInv, OneHolder
  <1>7. OrderedDelivery'
    BY DEF Claim, IInv, SlotsInv, OrderedDelivery
  <1> QED BY <1>5, <1>6, <1>7 DEF SlotsInv

LEMMA RingStore ==
  ASSUME IInv, NEW w \in Workers, Store(w)
  PROVE  SlotsInv'
  <1> DEFINE i == windex[w]
             k == i % Capacity
  <1>1. TypeOK
    BY DEF IInv
  <1>2. w \in InFlight
    BY DEF Store, InFlight
  <1>3. i \in Nat /\ consumed <= i /\ i < assigned
    BY <1>1, <1>2, ConstantsTyped DEF IInv, SlotsInv, WindowInv, TypeOK, Indices, Empty
  <1>4. k \in Slots
    BY <1>3, SlotInRing
  <1>5. slots'[k] = i /\ \A m \in Slots \ {k} : slots'[m] = slots[m]
    BY <1>1, <1>4 DEF Store, TypeOK
  <1>6. Occupied' \in SUBSET (Occupied \cup {k})
    BY <1>5 DEF Occupied
  <1>7. InFlight' = InFlight \ {w} /\ \A v \in InFlight' : windex'[v] = windex[v]
    BY <1>1, <1>2 DEF Store, InFlight, TypeOK
  <1>8. WindowInv'
    BY <1>3, <1>5, <1>6, <1>7 DEF Store, IInv, SlotsInv, WindowInv, Occupied
  <1>9. OneHolder'
    <2>1. \A u, v \in InFlight' : windex'[u] = windex'[v] => u = v
      BY <1>7 DEF IInv, SlotsInv, OneHolder
    <2>2. ASSUME NEW v \in InFlight', NEW m \in Occupied'
          PROVE  slots'[m] # windex'[v]
      BY <1>2, <1>5, <1>6, <1>7 DEF IInv, SlotsInv, OneHolder, Occupied
    <2> QED BY <2>1, <2>2 DEF OneHolder
  <1>10. OrderedDelivery'
    BY DEF Store, IInv, SlotsInv, OrderedDelivery
  <1> QED BY <1>8, <1>9, <1>10 DEF SlotsInv

(* The item in the front slot is the next one in order: ring position and   *)
(* window together leave no other index.                                   *)
LEMMA FrontIsNext ==
  ASSUME IInv, slots[FrontSlot] # Empty
  PROVE  FrontSlot \in Occupied /\ slots[FrontSlot] = consumed
  <1>1. TypeOK /\ WindowInv
    BY DEF IInv, SlotsInv
  <1>2. consumed \in Nat /\ assigned \in Nat
    BY <1>1, ConstantsTyped DEF TypeOK
  <1>3. FrontSlot \in Slots
    BY <1>2, SlotInRing DEF FrontSlot
  <1>4. FrontSlot \in Occupied
    BY <1>3 DEF Occupied
  <1>5. slots[FrontSlot] \in Nat
    BY <1>1, <1>3, ConstantsTyped DEF TypeOK, Indices
  <1>6. /\ consumed <= slots[FrontSlot]
        /\ slots[FrontSlot] < assigned
        /\ slots[FrontSlot] % Capacity = consumed % Capacity
    BY <1>1, <1>4 DEF WindowInv, FrontSlot
  <1>7. slots[FrontSlot] < consumed + Capacity
    BY <1>1, <1>2, <1>5, <1>6, ConstantsTyped DEF WindowInv
  <1>8. slots[FrontSlot] = consumed
    BY <1>2, <1>5, <1>6, <1>7, ConstantsTyped, CapacityAssumption, SameSlot
  <1> QED BY <1>4, <1>8

LEMMA RingPop ==
  ASSUME IInv, PopItem
  PROVE  SlotsInv'
  <1> DEFINE f == FrontSlot
  <1>1. TypeOK /\ TypeOK' /\ WindowInv
    BY TypeConsumer DEF IInv, SlotsInv, ConsumerStep
  <1>2. f \in Occupied /\ slots[f] = consumed /\ f \in Slots
    BY FrontIsNext DEF PopItem, Occupied
  <1>3. slots'[f] = Empty /\ \A m \in Slots \ {f} : slots'[m] = slots[m]
    BY <1>1, <1>2 DEF PopItem, TypeOK
  <1>4. Occupied' = Occupied \ {f}
    BY <1>3 DEF Occupied
  <1>5. InFlight' = InFlight /\ windex' = windex
    BY DEF PopItem, InFlight
  <1>6. consumed' = consumed + 1 /\ assigned' = assigned
    BY DEF PopItem
  <1>7. consumed \in Nat /\ assigned \in Nat /\ consumed < assigned
    BY <1>1, <1>2, ConstantsTyped DEF TypeOK, WindowInv
  <1>8. \A v \in InFlight : windex[v] # consumed
    BY <1>2 DEF IInv, SlotsInv, OneHolder
  <1>9. \A m \in Occupied \ {f} : slots[m] # consumed
    BY <1>1, <1>2 DEF WindowInv, FrontSlot
  <1>10. \A m \in Occupied \ {f} : slots[m] \in Int
    BY <1>1, ConstantsTyped DEF TypeOK, Occupied, Indices, Empty
  <1>11. \A v \in InFlight : windex[v] \in Int
    BY <1>1, ConstantsTyped DEF TypeOK, InFlight, Indices, Empty
  <1>12. WindowInv'
    <2>1. \A v \in InFlight' : consumed' <= windex'[v] /\ windex'[v] < assigned'
      BY <1>1, <1>5, <1>6, <1>7, <1>8, <1>11 DEF WindowInv
    <2>2. \A m \in Occupied' : /\ consumed' <= slots'[m] /\ slots'[m] < assigned'
                               /\ slots'[m] % Capacity = m
      BY <1>1, <1>3, <1>4, <1>6, <1>7, <1>9, <1>10 DEF WindowInv, Occupied
    <2>3. consumed' <= assigned' /\ assigned' - consumed' <= Capacity
      BY <1>1, <1>6, <1>7, ConstantsTyped DEF WindowInv
    <2> QED BY <2>1, <2>2, <2>3 DEF WindowInv
  <1>13. OneHolder'
    BY <1>3, <1>4, <1>5 DEF IInv, SlotsInv, OneHolder, Occupied
  <1>14. OrderedDelivery'
    <2>1. out' = Append(out, consumed) /\ Len(out) = consumed
      BY <1>2 DEF PopItem, IInv, SlotsInv, OrderedDelivery
    <2>2. out \in Seq(Indices)
      BY <1>1 DEF TypeOK
    <2>3. Len(out') = consumed + 1 /\ out'[consumed + 1] = consumed
      BY <1>7, <2>1, <2>2
    <2>4. \A i \in 1 .. consumed : out'[i] = out[i]
      BY <1>7, <2>1, <2>2
    <2>5. \A i \in 1 .. consumed : out[i] = i - 1
      BY <2>1 DEF IInv, SlotsInv, OrderedDelivery
    <2> QED BY <1>6, <1>7, <2>3, <2>4, <2>5 DEF OrderedDelivery
  <1> QED BY <1>12, <1>13, <1>14 DEF SlotsInv

(* Every other worker step only moves or drops a holder. *)
LEMMA RingWorker ==
  ASSUME IInv, NEW w \in Workers, WorkerStep(w)
  PROVE  SlotsInv'
  <1>1. CASE Claim(w)
    BY <1>1, RingClaim
  <1>2. CASE Store(w)
    BY <1>2, RingStore
  <1>3. CASE \/ WorkerSleep(w) \/ WorkerExit(w) \/ Produce(w) \/ ProduceThrows(w)
             \/ Discard(w) \/ WorkerNotify(w) \/ Fail(w) \/ FailNotify(w)
    <2>1. TypeOK /\ SlotsInv
      BY DEF IInv
    <2>2. UNCHANGED <<assigned, consumed, slots, out>>
      BY <1>3 DEF WorkerSleep, WorkerExit, Produce, ProduceThrows, Discard,
                  WorkerNotify, Fail, FailNotify, ring
    <2>3. \A v \in Workers \ {w} : wpc'[v] = wpc[v] /\ windex'[v] = windex[v]
      BY <1>3, <2>1 DEF TypeOK, WorkerSleep, WorkerExit, Produce, ProduceThrows,
                        Discard, WorkerNotify, Fail, FailNotify
    <2>4. w \in InFlight' => w \in InFlight /\ windex'[w] = windex[w]
      BY <1>3, <2>1 DEF TypeOK, InFlight, WorkerSleep, AtWait, WorkerExit, Produce,
                        ProduceThrows, Discard, WorkerNotify, Fail, FailNotify
    <2>5. /\ InFlight' \in SUBSET InFlight
          /\ \A v \in InFlight' : windex'[v] = windex[v]
      BY <2>3, <2>4 DEF InFlight
    <2> QED BY <2>1, <2>2, <2>5, RingUntouched
  <1> QED BY <1>1, <1>2, <1>3 DEF WorkerStep

LEMMA RingConsumer ==
  ASSUME IInv, ConsumerStep \/ CallPop \/ Destroy \/ SpuriousWake \/ Finished
  PROVE  SlotsInv'
  <1>1. CASE PopItem
    BY <1>1, RingPop
  <1>2. CASE \/ Spawn \/ SpawnFails \/ Constructed \/ PopSleep \/ PopError
             \/ PopExhausted \/ PopNotify \/ Cancel \/ CancelNotify \/ Join
             \/ CallPop \/ Destroy \/ SpuriousWake \/ Finished
    <2>1. TypeOK /\ SlotsInv
      BY DEF IInv
    <2>2. UNCHANGED <<assigned, consumed, slots, out, windex>>
      BY <1>2 DEF Spawn, SpawnFails, Constructed, PopSleep, PopError, PopExhausted,
                  PopNotify, Cancel, CancelNotify, Join, CallPop, Destroy,
                  SpuriousWake, Finished, ring, vars
    <2>3. InFlight' \in SUBSET InFlight
      <3>1. CASE Spawn
        BY <2>1, <3>1 DEF Spawn, InFlight, TypeOK
      <3>2. CASE ~Spawn
        <4>1. wpc' = wpc
          BY <1>2, <3>2 DEF SpawnFails, Constructed, PopSleep, PopError, PopExhausted,
                  PopNotify, Cancel, CancelNotify, Join, CallPop, Destroy,
                  SpuriousWake, Finished, vars
        <4> QED BY <4>1 DEF InFlight
      <3> QED BY <3>1, <3>2
    <2> QED BY <2>1, <2>2, <2>3, RingUntouched
  <1> QED BY <1>1, <1>2 DEF ConsumerStep

LEMMA FailureStep == FailureStops /\ [Next]_vars => FailureStops'
  <1> SUFFICES ASSUME FailureStops, [Next]_vars PROVE FailureStops'
    OBVIOUS
  <1>1. ASSUME NEW w \in Workers, WorkerStep(w) PROVE FailureStops'
    BY <1>1 DEF FailureStops, WorkerStep, WorkerSleep, WorkerExit, Claim, Produce,
        ProduceThrows, Discard, Store, WorkerNotify, Fail, FailNotify
  <1>2. CASE ConsumerStep \/ CallPop \/ Destroy \/ SpuriousWake \/ Finished
    BY <1>2 DEF FailureStops, ConsumerStep, Spawn, SpawnFails, Constructed, PopSleep,
        PopError, PopExhausted, PopItem, PopNotify, Cancel, CancelNotify, Join,
        CallPop, Destroy, SpuriousWake, Finished, vars
  <1>3. CASE UNCHANGED vars
    BY <1>3 DEF FailureStops, vars
  <1> QED BY <1>1, <1>2, <1>3 DEF Next

LEMMA IInvStep == IInv /\ [Next]_vars => IInv'
  <1> SUFFICES ASSUME IInv, [Next]_vars PROVE IInv'
    OBVIOUS
  <1>1. TypeOK'
    BY TypeStep DEF IInv
  <1>2. FailureStops'
    BY FailureStep DEF IInv
  <1>3. SlotsInv'
    <2>1. CASE \E w \in Workers : WorkerStep(w)
      BY <2>1, RingWorker
    <2>2. CASE ConsumerStep \/ CallPop \/ Destroy \/ SpuriousWake \/ Finished
      BY <2>2, RingConsumer
    <2>3. CASE UNCHANGED vars
      <3>1. UNCHANGED <<assigned, consumed, slots, out, windex>> /\ InFlight' = InFlight
        BY <2>3 DEF vars, ring, InFlight
      <3> QED BY <3>1, RingUntouched DEF IInv
    <2> QED BY <2>1, <2>2, <2>3 DEF Next
  <1> QED BY <1>1, <1>2, <1>3 DEF IInv

LEMMA Inductive == Spec => []IInv
  <1> QED BY IInvInit, IInvStep, PTL DEF Spec

(* The window is never exceeded, no index has two holders, and pop() returns *)
(* the items in index order whatever the order of completion.               *)
THEOREM RingCorrect == Spec => []RingInv
  <1>1. IInv => RingInv
    BY DEF IInv, RingInv
  <1> QED BY <1>1, Inductive, PTL

-----------------------------------------------------------------------------
(* The counters and the payload bound *)

CountInv == readyCount = Cardinality(Occupied) /\ peak <= Capacity

LEMMA OccupiedFinite ==
  /\ IsFiniteSet(Occupied) /\ Cardinality(Occupied) <= Capacity
  /\ IsFiniteSet(Occupied') /\ Cardinality(Occupied') <= Capacity
  <1>1. IsFiniteSet(Slots) /\ Cardinality(Slots) = Capacity
    BY FS_Interval, ConstantsTyped DEF Slots
  <1>2. Occupied \in SUBSET Slots /\ Occupied' \in SUBSET Slots
    BY DEF Occupied
  <1> QED BY <1>1, <1>2, FS_Subset

(* A claimed index finds its own slot empty: whoever held that slot last    *)
(* has been consumed, since both indices cannot be in one window.           *)
LEMMA OwnSlotEmpty ==
  ASSUME IInv, NEW w \in InFlight
  PROVE  windex[w] % Capacity \in Slots \ Occupied
  <1> DEFINE i == windex[w]
             k == i % Capacity
  <1>1. TypeOK /\ WindowInv /\ OneHolder
    BY DEF IInv, SlotsInv
  <1>2. consumed \in Nat /\ assigned \in Nat /\ assigned - consumed <= Capacity
    BY <1>1, ConstantsTyped DEF TypeOK, WindowInv
  <1>3. i \in Nat /\ consumed <= i /\ i < assigned
    BY <1>1, <1>2, ConstantsTyped DEF TypeOK, WindowInv, InFlight, Indices, Empty
  <1>4. k \in Slots
    BY <1>3, SlotInRing
  <1>5. ASSUME k \in Occupied PROVE FALSE
    <2>1. slots[k] \in Nat /\ consumed <= slots[k] /\ slots[k] < assigned
      BY <1>1, <1>5, ConstantsTyped DEF TypeOK, WindowInv, Occupied, Indices
    <2>2. slots[k] % Capacity = i % Capacity
      BY <1>1, <1>5 DEF WindowInv
    <2>3. i < consumed + Capacity /\ slots[k] < consumed + Capacity
      BY <1>2, <1>3, <2>1, ConstantsTyped
    <2>4. slots[k] = i
      BY <1>2, <1>3, <2>1, <2>2, <2>3, CapacityAssumption, SameSlot
    <2> QED BY <1>1, <1>5, <2>4 DEF OneHolder
  <1> QED BY <1>4, <1>5

LEMMA CountStep == IInv /\ CountInv /\ [Next]_vars => CountInv'
  <1> SUFFICES ASSUME IInv, CountInv, [Next]_vars PROVE CountInv'
    OBVIOUS
  <1>1. TypeOK
    BY DEF IInv
  <1>2. ASSUME NEW w \in Workers, Store(w) PROVE CountInv'
    <2> DEFINE k == windex[w] % Capacity
    <2>1. k \in Slots /\ k \notin Occupied /\ w \in InFlight
      BY <1>2, OwnSlotEmpty DEF Store, InFlight
    <2>2. windex[w] # Empty
      BY <1>1, <2>1, ConstantsTyped
      DEF IInv, SlotsInv, WindowInv, TypeOK, Empty
    <2>3. Occupied' = Occupied \cup {k}
      BY <1>1, <1>2, <2>1, <2>2 DEF Store, Occupied, TypeOK
    <2>4. Cardinality(Occupied') = Cardinality(Occupied) + 1
      BY <2>1, <2>3, OccupiedFinite, FS_AddElement
    <2>5. readyCount' = Cardinality(Occupied')
      BY <1>2, <2>4 DEF Store, CountInv
    <2>6. peak' <= Capacity
      BY <1>1, <1>2, <2>5, OccupiedFinite, ConstantsTyped DEF Store, CountInv, TypeOK
    <2> QED BY <2>5, <2>6 DEF CountInv
  <1>3. CASE PopItem
    <2>1. FrontSlot \in Occupied
      BY <1>3, FrontIsNext DEF PopItem
    <2>2. Occupied' = Occupied \ {FrontSlot}
      BY <1>1, <1>3, <2>1 DEF PopItem, Occupied, TypeOK
    <2>3. Cardinality(Occupied') = Cardinality(Occupied) - 1
      BY <2>1, <2>2, OccupiedFinite, FS_RemoveElement
    <2> QED BY <1>3, <2>3 DEF PopItem, CountInv
  <1>4. CASE UNCHANGED <<slots, readyCount, peak>>
    BY <1>4 DEF CountInv, Occupied
  <1>5. ASSUME NEW w \in Workers, WorkerStep(w), ~Store(w)
        PROVE  UNCHANGED <<slots, readyCount, peak>>
    BY <1>5 DEF WorkerStep, WorkerSleep, WorkerExit, Claim, Produce,
        ProduceThrows, Discard, WorkerNotify, Fail, FailNotify, ring
  <1>6. ASSUME ConsumerStep \/ CallPop \/ Destroy \/ SpuriousWake \/ Finished, ~PopItem
        PROVE  UNCHANGED <<slots, readyCount, peak>>
    BY <1>6 DEF ConsumerStep, Spawn, SpawnFails, Constructed, PopSleep,
        PopError, PopExhausted, PopNotify, Cancel, CancelNotify, Join,
        CallPop, Destroy, SpuriousWake, Finished, vars, ring
  <1>7. CASE UNCHANGED vars
    BY <1>4, <1>7 DEF vars, ring
  <1> QED BY <1>2, <1>3, <1>4, <1>5, <1>6, <1>7 DEF Next

LEMMA HeldBound ==
  ASSUME IInv
  PROVE  Cardinality(Preparing \cup Ready) <= Capacity
  <1>1. TypeOK /\ WindowInv
    BY DEF IInv, SlotsInv
  <1>2. /\ consumed \in Int /\ assigned \in Int /\ assigned - 1 \in Int
        /\ consumed <= assigned /\ assigned - consumed <= Capacity
    BY <1>1, ConstantsTyped DEF TypeOK, WindowInv
  <1>3. \A w \in InFlight : windex[w] \in Int
    BY <1>1, ConstantsTyped DEF TypeOK, InFlight, Indices, Empty
  <1>4. \A k \in Occupied : slots[k] \in Int
    BY <1>1, ConstantsTyped DEF TypeOK, Occupied, Indices, Empty
  <1>5. \A w \in InFlight : windex[w] \in consumed .. (assigned - 1)
    BY <1>1, <1>2, <1>3 DEF WindowInv, TypeOK
  <1>6. \A k \in Occupied : slots[k] \in consumed .. (assigned - 1)
    BY <1>1, <1>2, <1>4 DEF WindowInv, TypeOK
  <1>7. Preparing \cup Ready \in SUBSET (consumed .. (assigned - 1))
    BY <1>5, <1>6 DEF Preparing, Ready
  <1>8. /\ IsFiniteSet(consumed .. (assigned - 1))
        /\ Cardinality(consumed .. (assigned - 1)) <= Capacity
    <2> DEFINE a == consumed
               b == assigned - 1
    <2>1. a \in Int /\ b \in Int /\ (IF a > b THEN 0 ELSE b - a + 1) <= Capacity
      BY <1>2, ConstantsTyped
    <2>2. IsFiniteSet(a .. b) /\ Cardinality(a .. b) = IF a > b THEN 0 ELSE b - a + 1
      BY <2>1, FS_Interval
    <2> QED BY <2>1, <2>2
  <1>9. Cardinality(Preparing \cup Ready) <= Cardinality(consumed .. (assigned - 1))
    BY <1>7, <1>8, FS_Subset
  <1>10. Cardinality(Preparing \cup Ready) \in Nat
    BY <1>7, <1>8, FS_Subset, FS_CardinalityType
  <1>11. Cardinality(consumed .. (assigned - 1)) \in Nat
    BY <1>8, FS_CardinalityType
  <1> QED BY <1>8, <1>9, <1>10, <1>11, ConstantsTyped

(* In-flight and ready payloads together, the ready count and the reported  *)
(* peak never exceed the capacity, for every count, capacity and workers.   *)
THEOREM PayloadBounded == Spec => []PayloadBound
  <1>1. Init => CountInv
    <2> SUFFICES ASSUME Init PROVE CountInv
      OBVIOUS
    <2>1. Occupied = {}
      BY DEF Init, Occupied
    <2> QED BY <2>1, FS_EmptySet, ConstantsTyped DEF Init, CountInv
  <1>2. Spec => []CountInv
    BY <1>1, CountStep, Inductive, PTL DEF Spec
  <1>3. IInv /\ CountInv => PayloadBound
    BY HeldBound DEF CountInv, PayloadBound
  <1> QED BY <1>2, <1>3, Inductive, PTL

-----------------------------------------------------------------------------
(* No claimed index is lost: Store moves an index from its worker to an      *)
(* empty slot, PopItem takes out the oldest one, and whoever drops an index  *)
(* does it under cancellation.                                              *)

LEMMA LostOnStore ==
  ASSUME IInv, NoIndexLost, NEW w \in Workers, Store(w)
  PROVE  NoIndexLost'
  <1> DEFINE k == windex[w] % Capacity
  <1>1. TypeOK /\ w \in InFlight /\ k \in Slots \ Occupied
    BY OwnSlotEmpty DEF IInv, Store, InFlight
  <1>2. windex[w] # Empty
    BY <1>1, ConstantsTyped DEF IInv, SlotsInv, WindowInv, TypeOK, Empty
  <1>3. slots'[k] = windex[w] /\ k \in Occupied'
    BY <1>1, <1>2 DEF Store, TypeOK, Occupied
  <1>4. \A j \in Occupied : j \in Occupied' /\ slots'[j] = slots[j]
    BY <1>1 DEF Store, TypeOK, Occupied
  <1>5. \A v \in InFlight : v = w \/ (v \in InFlight' /\ windex'[v] = windex[v])
    BY <1>1 DEF Store, TypeOK, InFlight
  <1>6. Preparing \cup Ready \subseteq Preparing' \cup Ready'
    BY <1>3, <1>4, <1>5 DEF Preparing, Ready
  <1> QED BY <1>6 DEF NoIndexLost, Store

LEMMA LostOnPop ==
  ASSUME IInv, NoIndexLost, PopItem
  PROVE  NoIndexLost'
  <1>1. TypeOK /\ FrontSlot \in Occupied /\ slots[FrontSlot] = consumed
    BY FrontIsNext DEF IInv, PopItem
  <1>2. \A j \in Occupied : slots[j] = consumed \/ (j \in Occupied' /\ slots'[j] = slots[j])
    BY <1>1 DEF PopItem, TypeOK, Occupied
  <1>3. InFlight' = InFlight /\ Preparing' = Preparing
    BY DEF PopItem, InFlight, Preparing
  <1>4. Preparing \cup Ready \subseteq (Preparing' \cup Ready') \cup {consumed}
    BY <1>2, <1>3 DEF Ready
  <1>5. consumed \in Int /\ assigned \in Int /\ consumed' = consumed + 1 /\ assigned' = assigned
    BY <1>1, ConstantsTyped DEF TypeOK, PopItem
  <1>6. \A i \in consumed' .. (assigned' - 1) : i \in consumed .. (assigned - 1) /\ i # consumed
    BY <1>5
  <1> QED BY <1>4, <1>6 DEF NoIndexLost, PopItem

LEMMA LostOnClaim ==
  ASSUME IInv, NoIndexLost, NEW w \in Workers, Claim(w)
  PROVE  NoIndexLost'
  <1>1. TypeOK /\ w \notin InFlight
    BY DEF IInv, Claim, AtWait, InFlight
  <1>2. w \in InFlight' /\ windex'[w] = assigned
    BY <1>1 DEF Claim, TypeOK, InFlight
  <1>3. \A v \in InFlight : v \in InFlight' /\ windex'[v] = windex[v]
    BY <1>1 DEF Claim, TypeOK, InFlight
  <1>4. Ready' = Ready
    BY DEF Claim, Ready, Occupied
  <1>5. Preparing \cup Ready \cup {assigned} \subseteq Preparing' \cup Ready'
    BY <1>2, <1>3, <1>4 DEF Preparing
  <1>6. consumed \in Int /\ assigned \in Int /\ consumed' = consumed /\ assigned' = assigned + 1
    BY <1>1, ConstantsTyped DEF TypeOK, Claim
  <1>7. \A i \in consumed' .. (assigned' - 1) : i \in consumed .. (assigned - 1) \/ i = assigned
    BY <1>6
  <1> QED BY <1>5, <1>7 DEF NoIndexLost, Claim

(* A step that neither claims, moves nor drops an index. *)
LEMMA LostUntouched ==
  ASSUME NoIndexLost, UNCHANGED <<assigned, consumed, slots, windex>>,
         InFlight' = InFlight, cancelled => cancelled'
  PROVE  NoIndexLost'
  BY DEF NoIndexLost, Preparing, Ready, Occupied

LEMMA LostStep == IInv /\ NoIndexLost /\ [Next]_vars => NoIndexLost'
  <1> SUFFICES ASSUME IInv, NoIndexLost, [Next]_vars PROVE NoIndexLost'
    OBVIOUS
  <1>1. TypeOK
    BY DEF IInv
  <1>2. ASSUME NEW w \in Workers, WorkerStep(w) PROVE NoIndexLost'
    <2>1. CASE Claim(w)
      BY <2>1, LostOnClaim
    <2>2. CASE Store(w)
      BY <2>2, LostOnStore
    <2>3. CASE Discard(w) \/ Fail(w) \/ FailNotify(w)
      <3>1. CASE Discard(w) \/ Fail(w)
        BY <3>1 DEF Discard, Fail, NoIndexLost
      <3>2. CASE FailNotify(w)
        BY <1>1, <3>2, LostUntouched DEF FailNotify, ring, InFlight, TypeOK
      <3> QED BY <2>3, <3>1, <3>2
    <2>4. CASE WorkerSleep(w)
      BY <1>1, <2>4, LostUntouched DEF WorkerSleep, ring, InFlight, TypeOK
    <2>5. CASE WorkerExit(w)
      BY <1>1, <2>5, LostUntouched DEF WorkerExit, AtWait, ring, InFlight, TypeOK
    <2>6. CASE Produce(w)
      BY <1>1, <2>6, LostUntouched DEF Produce, ring, InFlight, TypeOK
    <2>7. CASE ProduceThrows(w)
      BY <1>1, <2>7, LostUntouched DEF ProduceThrows, ring, InFlight, TypeOK
    <2>8. CASE WorkerNotify(w)
      BY <1>1, <2>8, LostUntouched DEF WorkerNotify, ring, InFlight, TypeOK
    <2> QED BY <1>2, <2>1, <2>2, <2>3, <2>4, <2>5, <2>6, <2>7, <2>8 DEF WorkerStep
  <1>3. CASE PopItem
    BY <1>3, LostOnPop
  <1>4. CASE Spawn
    BY <1>1, <1>4, LostUntouched DEF Spawn, NextUnborn, ring, InFlight, TypeOK
  <1>5. CASE /\ ConsumerStep \/ CallPop \/ Destroy \/ SpuriousWake \/ Finished
             /\ ~PopItem /\ ~Spawn
    <2>1. UNCHANGED <<assigned, consumed, slots, windex, wpc>> /\ (cancelled => cancelled')
      BY <1>5 DEF ConsumerStep, SpawnFails, Constructed, PopSleep, PopError,
          PopExhausted, PopNotify, Cancel, CancelNotify, Join, CallPop,
          Destroy, SpuriousWake, Finished, vars, ring
    <2> QED BY <2>1, LostUntouched DEF InFlight
  <1>6. CASE UNCHANGED vars
    BY <1>6, LostUntouched DEF vars, ring, InFlight
  <1> QED BY <1>2, <1>3, <1>4, <1>5, <1>6 DEF Next

LEMMA IndicesHeld == Spec => []NoIndexLost
  <1>1. Init => NoIndexLost
    BY ConstantsTyped DEF Init, NoIndexLost
  <1> QED BY <1>1, LostStep, Inductive, PTL DEF Spec

-----------------------------------------------------------------------------
(* Wake-ups *)

LEMMA Apart == Consumer \notin Workers /\ \A w \in Workers : w # Consumer
  BY WorkerAssumption DEF Consumer, Workers

(* A step that wakes everyone leaves nobody to lose.                        *)
LEMMA AllAwake ==
  ASSUME asleep' = {}
  PROVE  NoWakeupLost'
  BY DEF NoWakeupLost

(* What a step may do to those who sleep, if it takes no notification away.  *)
LEMMA WakeupsKept ==
  ASSUME NoWakeupLost, asleep' \subseteq asleep,
         \A w \in Workers \cap asleep : wpc[w] = "wait" => wpc'[w] = "wait",
         Consumer \in asleep' => cpc' = cpc,
         Notifying => Notifying',
         WorkerReady' => WorkerReady \/ Notifying',
         Consumer \in asleep' /\ PopReady' => PopReady \/ Notifying'
  PROVE  NoWakeupLost'
  BY DEF NoWakeupLost

LEMMA WakeupsWorker ==
  ASSUME TypeOK, NoWakeupLost, NEW w \in Workers, WorkerStep(w)
  PROVE  NoWakeupLost'
  <1> USE DEF TypeOK
  <1>1. CASE WorkerSleep(w)
    <2>1. /\ wpc' = wpc /\ cpc' = cpc /\ asleep' = asleep \cup {w} /\ wpc[w] = "wait" /\ ~WorkerReady
          /\ WorkerReady' = WorkerReady /\ PopReady' = PopReady /\ Notifying' = Notifying
      BY <1>1 DEF WorkerSleep, AtWait, ring, WorkerReady, HasRoom, PopReady, FrontSlot, Notifying
    <2> QED BY <2>1, Apart DEF NoWakeupLost
  <1>2. CASE WorkerExit(w)
    <2>1. /\ asleep' = asleep /\ cpc' = cpc /\ wpc[w] = "wait" /\ w \notin asleep
          /\ wpc' = [wpc EXCEPT ![w] = "done"]
          /\ WorkerReady' = WorkerReady /\ PopReady' = PopReady
      BY <1>2 DEF WorkerExit, AtWait, ring, WorkerReady, HasRoom, PopReady, FrontSlot
    <2>2. Notifying => Notifying'
      BY <2>1 DEF Notifying
    <2> QED BY <2>1, <2>2, WakeupsKept
  <1>3. CASE Claim(w)
    <2>1. /\ asleep' = asleep /\ cpc' = cpc /\ wpc[w] = "wait" /\ w \notin asleep
          /\ wpc' = [wpc EXCEPT ![w] = "produce"]
          /\ WorkerReady /\ PopReady' = PopReady
      BY <1>3 DEF Claim, AtWait, WorkerReady, HasRoom, PopReady, FrontSlot
    <2>2. Notifying => Notifying'
      BY <2>1 DEF Notifying
    <2> QED BY <2>1, <2>2, WakeupsKept
  <1>4. CASE Produce(w) \/ ProduceThrows(w) \/ Discard(w)
    <2>1. /\ asleep' = asleep /\ cpc' = cpc /\ wpc[w] \in {"produce", "store"}
          /\ \E s \in WorkerStates : wpc' = [wpc EXCEPT ![w] = s]
          /\ WorkerReady' = WorkerReady /\ PopReady' = PopReady
      BY <1>4 DEF Produce, ProduceThrows, Discard, ring, WorkerReady, HasRoom, PopReady,
                  FrontSlot, WorkerStates
    <2>2. Notifying => Notifying'
      BY <2>1 DEF Notifying
    <2> QED BY <2>1, <2>2, WakeupsKept
  <1>5. CASE Store(w) \/ Fail(w)
    <2>1. /\ asleep' = asleep /\ cpc' = cpc /\ wpc[w] \in {"store", "failed"}
          /\ \E s \in {"notify", "failnotify"} : wpc' = [wpc EXCEPT ![w] = s]
      BY <1>5 DEF Store, Fail, ring
    <2>2. Notifying'
      BY <2>1 DEF Notifying
    <2> QED BY <2>1, <2>2, WakeupsKept
  <1>6. CASE WorkerNotify(w) \/ FailNotify(w)
    BY <1>6, AllAwake DEF WorkerNotify, FailNotify
  <1> QED BY <1>1, <1>2, <1>3, <1>4, <1>5, <1>6 DEF WorkerStep

LEMMA WakeupsConsumer ==
  ASSUME TypeOK, NoWakeupLost,
         ConsumerStep \/ CallPop \/ Destroy \/ SpuriousWake \/ Finished \/ UNCHANGED vars
  PROVE  NoWakeupLost'
  <1> USE DEF TypeOK
  <1>1. CASE Spawn
    <2>1. PICK w \in Workers : wpc[w] = "unborn" /\ wpc' = [wpc EXCEPT ![w] = "wait"]
      BY <1>1 DEF Spawn, NextUnborn
    <2>2. /\ asleep' = asleep /\ cpc' = cpc
          /\ WorkerReady' = WorkerReady /\ PopReady' = PopReady
      BY <1>1 DEF Spawn, ring, WorkerReady, HasRoom, PopReady, FrontSlot
    <2>3. Notifying => Notifying'
      BY <2>1, <2>2 DEF Notifying
    <2> QED BY <2>1, <2>2, <2>3, WakeupsKept
  <1>2. CASE SpawnFails \/ Constructed \/ CallPop \/ PopError \/ PopExhausted \/ Destroy
    <2>1. /\ asleep' = asleep /\ wpc' = wpc /\ cpc \notin {"popnotify", "cancelnotify"}
          /\ Consumer \notin asleep
          /\ WorkerReady' = WorkerReady /\ PopReady' = PopReady
      BY <1>2 DEF SpawnFails, Constructed, CallPop, PopError, PopExhausted, Destroy, AtPop, ring,
                  WorkerReady, HasRoom, PopReady, FrontSlot, NoWakeupLost
    <2>2. Notifying => Notifying'
      BY <2>1 DEF Notifying
    <2> QED BY <2>1, <2>2, WakeupsKept
  <1>3. CASE PopSleep
    <2>1. /\ wpc' = wpc /\ cpc' = cpc /\ asleep' = asleep \cup {Consumer} /\ cpc = "pop" /\ ~PopReady
          /\ WorkerReady' = WorkerReady /\ PopReady' = PopReady /\ Notifying' = Notifying
      BY <1>3 DEF PopSleep, AtPop, ring, WorkerReady, HasRoom, PopReady, FrontSlot, Notifying
    <2> QED BY <2>1, Apart DEF NoWakeupLost
  <1>4. CASE PopItem \/ Cancel
    <2>1. /\ asleep' = asleep /\ wpc' = wpc /\ Consumer \notin asleep
          /\ cpc' \in {"popnotify", "cancelnotify"}
      BY <1>4 DEF PopItem, Cancel, AtPop, ring, NoWakeupLost
    <2>2. Notifying'
      BY <2>1 DEF Notifying
    <2> QED BY <2>1, <2>2, WakeupsKept
  <1>5. CASE PopNotify \/ CancelNotify
    BY <1>5, AllAwake DEF PopNotify, CancelNotify
  <1>6. CASE Join
    <2>1. /\ asleep' = asleep /\ wpc' = wpc /\ cpc = "join" /\ Consumer \notin asleep
          /\ WorkerReady' = WorkerReady /\ PopReady' = PopReady
      BY <1>6 DEF Join, ring, WorkerReady, HasRoom, PopReady, FrontSlot, NoWakeupLost
    <2>2. Notifying => Notifying'
      BY <2>1 DEF Notifying
    <2> QED BY <2>1, <2>2, WakeupsKept
  <1>7. CASE SpuriousWake \/ Finished \/ UNCHANGED vars
    <2>1. /\ asleep' \subseteq asleep /\ wpc' = wpc /\ cpc' = cpc
          /\ WorkerReady' = WorkerReady /\ PopReady' = PopReady
      BY <1>7 DEF SpuriousWake, Finished, vars, ring, WorkerReady, HasRoom, PopReady, FrontSlot
    <2>2. Notifying => Notifying'
      BY <2>1 DEF Notifying
    <2> QED BY <2>1, <2>2, WakeupsKept
  <1> QED BY <1>1, <1>2, <1>3, <1>4, <1>5, <1>6, <1>7 DEF ConsumerStep

LEMMA WakeupsHeld == Spec => []NoWakeupLost
  <1>1. Init => NoWakeupLost
    BY DEF Init, NoWakeupLost
  <1>2. IInv /\ NoWakeupLost /\ [Next]_vars => NoWakeupLost'
    BY WakeupsWorker, WakeupsConsumer DEF IInv, Next
  <1> QED BY <1>1, <1>2, Inductive, PTL DEF Spec

(* Unless production was cancelled, every claimed and unconsumed index is in *)
(* preparation or ready: pop() never waits for an item nobody will store;    *)
(* and nobody sleeps on a true predicate without a notification to come.    *)
THEOREM NoneLost == Spec => []NothingLost
  BY IndicesHeld, WakeupsHeld, PTL DEF NothingLost

-----------------------------------------------------------------------------
(* Deadlock *)

(* How far production may have been stopped, and how workers end.          *)
StopInv ==
  /\ cancelled => error # Empty \/ cpc \in {"cancelnotify", "join", "gone"}
  /\ cpc \in {"cancelnotify", "join", "gone"} => cancelled
  /\ cpc \in {"idle", "pop", "popnotify"} => \A w \in Workers : wpc[w] # "unborn"
  /\ \A w \in Workers :
       /\ wpc[w] = "done" => cancelled \/ assigned = Count
       /\ wpc[w] = "failnotify" => cancelled
       /\ wpc[w] = "failed" => windex[w] # Empty

LEMMA StopStep == IInv /\ StopInv /\ [Next]_vars => StopInv'
  <1> SUFFICES ASSUME IInv, StopInv, [Next]_vars PROVE StopInv'
    OBVIOUS
  <1> USE DEF IInv, TypeOK, StopInv
  <1>1. ASSUME NEW w \in Workers, WorkerStep(w) PROVE StopInv'
    <2>1. CASE WorkerSleep(w) \/ WorkerExit(w)
      BY <1>1, <2>1 DEF WorkerSleep, WorkerExit, AtWait, ring
    <2>2. CASE Claim(w)
      BY <1>1, <2>2, ConstantsTyped DEF Claim, AtWait, Empty
    <2>3. CASE Produce(w) \/ ProduceThrows(w)
      <3>1. windex[w] # Empty
        BY <1>1, <2>3, ConstantsTyped DEF Produce, ProduceThrows, SlotsInv, WindowInv, InFlight, Empty
      <3> QED BY <1>1, <2>3, <3>1 DEF Produce, ProduceThrows, ring
    <2>4. CASE Discard(w) \/ Store(w)
      BY <1>1, <2>4 DEF Discard, Store, ring
    <2>5. CASE WorkerNotify(w) \/ FailNotify(w)
      BY <1>1, <2>5 DEF WorkerNotify, FailNotify, ring
    <2>6. CASE Fail(w)
      BY <1>1, <2>6 DEF Fail, ring
    <2> QED BY <1>1, <2>1, <2>2, <2>3, <2>4, <2>5, <2>6 DEF WorkerStep
  <1>2. CASE Spawn
    BY <1>2 DEF Spawn, NextUnborn, ring
  <1>3. CASE \/ SpawnFails \/ Constructed \/ PopSleep \/ PopError \/ PopExhausted \/ PopNotify
             \/ Cancel \/ CancelNotify \/ Join \/ CallPop \/ Destroy
    BY <1>3 DEF SpawnFails, Constructed, PopSleep, PopError, PopExhausted, PopNotify, Cancel,
                CancelNotify, Join, CallPop, Destroy, AtPop, ring
  <1>4. CASE PopItem
    BY <1>4 DEF PopItem, AtPop
  <1>5. CASE SpuriousWake \/ Finished \/ UNCHANGED vars
    BY <1>5 DEF SpuriousWake, Finished, vars, ring
  <1> QED BY <1>1, <1>2, <1>3, <1>4, <1>5 DEF Next, ConsumerStep

(* A pop() that sleeps waits for a worker that runs: if none does, all sleep *)
(* or have ended, none of them with room, and the item at the front, which  *)
(* is not lost, would be in its slot.                                      *)
LEMMA PopServed ==
  ASSUME IInv, StopInv, NothingLost, cpc = "pop", Consumer \in asleep,
         \A w \in Workers : ~WorkerRuns(w)
  PROVE  FALSE
  <1> USE DEF IInv, TypeOK
  <1>1. \A w \in Workers : wpc[w] = "done" \/ (wpc[w] = "wait" /\ w \in asleep)
    BY DEF WorkerRuns, StopInv, NothingLost, NoWakeupLost
  <1>2. ~Notifying
    BY <1>1 DEF Notifying
  <1>3. error = Empty /\ consumed # Count /\ slots[FrontSlot] = Empty
    BY <1>2 DEF NothingLost, NoWakeupLost, PopReady
  <1>4. ~cancelled
    BY <1>3 DEF StopInv
  <1>5. consumed = assigned
    <2> SUFFICES ASSUME consumed # assigned PROVE FALSE
      OBVIOUS
    <2>1. consumed \in consumed .. (assigned - 1) /\ consumed \in Nat
      BY ConstantsTyped DEF SlotsInv, WindowInv
    <2>2. consumed \in Preparing \cup Ready
      BY <1>4, <2>1 DEF NothingLost, NoIndexLost
    <2>3. InFlight = {}
      BY <1>1 DEF InFlight
    <2>4. PICK k \in Occupied : consumed = slots[k]
      BY <2>2, <2>3 DEF Preparing, Ready
    <2>5. k = FrontSlot /\ slots[k] # Empty
      BY <2>4 DEF SlotsInv, WindowInv, FrontSlot, Occupied
    <2> QED BY <1>3, <2>5
  <1>6. assigned # Count /\ HasRoom
    BY <1>3, <1>5, ConstantsTyped DEF HasRoom
  <1>7. \A w \in Workers : FALSE
    BY <1>1, <1>2, <1>4, <1>6 DEF StopInv, NothingLost, NoWakeupLost, WorkerReady
  <1>8. 0 \in Workers
    BY <1>3, ConstantsTyped, WorkerAssumption DEF Workers
  <1> QED BY <1>7, <1>8

LEMMA SomeoneRuns == IInv /\ StopInv /\ NothingLost => NoDeadlock
  <1> SUFFICES ASSUME IInv, StopInv, NothingLost, cpc # "gone", ~ConsumerRuns,
                      \A w \in Workers : ~WorkerRuns(w)
               PROVE  FALSE
    BY DEF NoDeadlock
  <1>1. CASE cpc = "pop"
    BY <1>1, PopServed DEF ConsumerRuns, AtPop
  <1>2. CASE cpc = "join"
    <2>1. PICK w \in Workers : wpc[w] \notin {"unborn", "done"}
      BY <1>2 DEF ConsumerRuns
    <2>2. w \in asleep /\ cancelled
      BY <1>2, <2>1 DEF WorkerRuns, StopInv
    <2>3. Notifying
      BY <2>2 DEF NothingLost, NoWakeupLost, WorkerReady
    <2>4. PICK v \in Workers : wpc[v] \in {"notify", "failnotify"}
      BY <1>2, <2>3 DEF Notifying
    <2> QED BY <2>4 DEF WorkerRuns, NothingLost, NoWakeupLost
  <1> QED BY <1>1, <1>2 DEF ConsumerRuns, IInv, TypeOK, ConsumerStates

(* As long as the object exists some thread can take a step, so that neither *)
(* pop() nor the destructor waits for one that waits itself, for any number  *)
(* of items, slots and workers and whichever of them fail.                  *)
THEOREM NeverDeadlocks == Spec => []NoDeadlock
  <1>1. Init => StopInv
    BY DEF Init, StopInv
  <1> QED BY <1>1, StopStep, SomeoneRuns, Inductive, NoneLost, PTL DEF Spec

-----------------------------------------------------------------------------
(* The ring implements the channel *)

LEMMA ChannelInit == Init => Channel!Init
  BY DEF Init, Channel!Init, channelStatus, Empty

LEMMA ChannelStep ==
  ASSUME IInv, [Next]_vars
  PROVE  [Channel!Next]_(Channel!vars)
  <1> USE DEF channelStatus, Channel!vars, Channel!Next
  <1>1. TypeOK /\ WindowInv /\ OrderedDelivery
    BY DEF IInv, SlotsInv
  <1>2. ASSUME NEW w \in Workers, Fail(w) PROVE [Channel!Next]_(Channel!vars)
    <2>1. w \in InFlight
      BY <1>2 DEF Fail, InFlight
    <2>2. Len(out) < Count
      BY <1>1, <2>1, ConstantsTyped
      DEF WindowInv, OrderedDelivery, TypeOK, Indices, Empty, InFlight
    <2>3. windex[w] # Empty
      BY <1>1, <2>1, ConstantsTyped DEF WindowInv, TypeOK, Empty
    <2>4. CASE channelStatus = "open"
      BY <1>2, <2>2, <2>3, <2>4 DEF Fail, Channel!Break
    <2>5. CASE channelStatus # "open"
      BY <1>2, <2>3, <2>5 DEF Fail
    <2> QED BY <2>4, <2>5
  <1>3. ASSUME NEW w \in Workers, WorkerStep(w), ~Fail(w)
        PROVE  UNCHANGED Channel!vars
    BY <1>3 DEF WorkerStep, WorkerSleep, WorkerExit, Claim, Produce,
        ProduceThrows, Discard, Store, WorkerNotify, FailNotify
  <1>4. CASE PopItem
    <2>1. slots[FrontSlot] = consumed /\ FrontSlot \in Occupied
      BY <1>4, FrontIsNext DEF PopItem
    <2>2. out' = Append(out, Len(out)) /\ Len(out) = consumed
      BY <1>1, <1>4, <2>1 DEF PopItem, OrderedDelivery
    <2>3. Len(out) < Count
      BY <1>1, <1>4, <2>2, ConstantsTyped DEF PopItem, TypeOK
    <2> QED BY <1>4, <2>2, <2>3 DEF PopItem, AtPop, Channel!Deliver
  <1>5. CASE PopExhausted
    BY <1>1, <1>5 DEF PopExhausted, AtPop, OrderedDelivery, Channel!Exhaust
  <1>6. CASE PopError
    BY <1>6 DEF PopError, AtPop, Channel!Report
  <1>7. CASE Cancel
    BY <1>7 DEF Cancel, Channel!Close
  <1>8. CASE \/ Spawn \/ SpawnFails \/ Constructed \/ PopSleep \/ PopNotify
             \/ CancelNotify \/ Join \/ CallPop \/ Destroy \/ SpuriousWake
             \/ Finished \/ UNCHANGED vars
    BY <1>8 DEF Spawn, SpawnFails, Constructed, PopSleep, PopNotify, CancelNotify,
                Join, CallPop, Destroy, SpuriousWake, Finished, vars
  <1> QED BY <1>2, <1>3, <1>4, <1>5, <1>6, <1>7, <1>8 DEF Next, ConsumerStep

(* The multi-worker ring implements the ordered channel: in-order delivery, *)
(* failure before any further item, exhaustion only after the last one, and *)
(* nothing after cancellation.                                             *)
THEOREM ImplementsChannel == Spec => ChannelSpec
  <1>1. IInv /\ [Next]_vars => [Channel!Next]_(Channel!vars)
    BY ChannelStep
  <1> QED BY ChannelInit, <1>1, Inductive, PTL DEF Spec, ChannelSpec, Channel!Spec
=============================================================================
