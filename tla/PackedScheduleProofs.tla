----------------------- MODULE PackedScheduleProofs -----------------------
(***************************************************************************)
(* Proofs about PackedSchedule, and on top of them about PackedSources:     *)
(* sharing public ciphertexts by stripped keys is exact for every program,  *)
(* vector and order, and every client call meets its own reference.         *)
(***************************************************************************)
EXTENDS PackedSources, FiniteSetTheorems, SequenceTheorems, WellFoundedInduction, TLAPS

-----------------------------------------------------------------------------
(* Facts about numbers and finite sets *)

LEMMA LeastOf ==
  ASSUME NEW S, S \subseteq Nat, S # {}
  PROVE  Min(S) \in S /\ \A y \in S : Min(S) <= y
  <1> DEFINE Below == {0 .. x : x \in S}
  <1>1. Below \subseteq FiniteSubsetsOf(Nat) /\ Below # {}
    <2>1. \A x \in S : 0 .. x \in SUBSET Nat /\ IsFiniteSet(0 .. x)
      BY FS_Interval
    <2> QED BY <2>1 DEF FiniteSubsetsOf
  <1>2. IsWellFoundedOn(StrictSubsetOrdering(Nat), FiniteSubsetsOf(Nat))
    BY FS_StrictSubsetOrderingWellFounded
  <1>3. \E b \in Below : \A a \in Below : ~(<<a, b>> \in StrictSubsetOrdering(Nat))
    <2> HIDE DEF Below
    <2> QED BY <1>1, <1>2, WFMin, Zenon
  <1>4. PICK x \in S : \A y \in S : ~(<<0 .. y, 0 .. x>> \in StrictSubsetOrdering(Nat))
    BY <1>3
  <1>5. \A y \in S : x <= y
    <2>1. SUFFICES ASSUME NEW y \in S, y < x PROVE FALSE
      OBVIOUS
    <2>2. 0 .. y \subseteq 0 .. x /\ 0 .. y \in SUBSET Nat /\ 0 .. x \in SUBSET Nat
      BY <2>1
    <2>3. 0 .. y # 0 .. x
      <3>1. x \in 0 .. x /\ x \notin 0 .. y
        BY <2>1
      <3> QED BY <3>1
    <2>4. <<0 .. y, 0 .. x>> \in StrictSubsetOrdering(Nat)
      BY <2>2, <2>3 DEF StrictSubsetOrdering
    <2> QED BY <1>4, <2>4
  <1> QED BY <1>5 DEF Min

LEMMA PairFinite == IsFiniteSet(1 .. 2)
  <1>1. \A k \in 1 .. 2 : k <= 2
    OBVIOUS
  <1>2. 1 .. 2 \in SUBSET Nat
    OBVIOUS
  <1> QED BY <1>1, <1>2, FS_BoundedSetOfNaturals

LEMMA SequenceShape ==
  ASSUME NEW S, NEW s \in Seq(S)
  PROVE  DOMAIN s = 1 .. Len(s) /\ \A k \in DOMAIN s : s[k] \in S
  OBVIOUS

LEMMA CountWithout ==
  ASSUME NEW S, IsFiniteSet(S), NEW T, T \subseteq S
  PROVE  /\ Cardinality(S \ T) = Cardinality(S) - Cardinality(T)
         /\ Cardinality(S) \in Nat /\ Cardinality(T) \in Nat
         /\ Cardinality(S \ T) \in Nat /\ IsFiniteSet(S \ T) /\ IsFiniteSet(T)
  <1>1. S \cap T = T /\ IsFiniteSet(T)
    BY FS_Subset
  <1> QED BY <1>1, FS_Difference, FS_CardinalityType

LEMMA EmptyIffZero ==
  ASSUME NEW S, IsFiniteSet(S)
  PROVE  Cardinality(S) \in Nat /\ (Cardinality(S) = 0 <=> S = {})
  BY FS_CardinalityType, FS_EmptySet

-----------------------------------------------------------------------------
(* Facts about programs *)

LEMMA ProgramShape ==
  ASSUME NEW p \in Programs
  PROVE  /\ IsFiniteSet(Nodes(p)) /\ Nodes(p) \subseteq Nat
         /\ p.outputs \subseteq Nodes(p)
         /\ \A i \in Nodes(p) :
              /\ Len(p.parents[i]) \in 0 .. 2
              /\ DOMAIN p.parents[i] = 1 .. Len(p.parents[i])
              /\ Operands(p, i) \subseteq Nodes(p)
              /\ \A v \in Operands(p, i) : v < i
  <1>1. WellFormed(p)
    BY ProgramsAssumption
  <1>2. Cardinality(Nodes(p)) \in Nat
    BY <1>1, FS_CardinalityType DEF WellFormed
  <1>3. Nodes(p) \subseteq Nat
    BY <1>1, <1>2 DEF WellFormed
  <1>4. ASSUME NEW i \in Nodes(p)
        PROVE  /\ Len(p.parents[i]) \in 0 .. 2
               /\ DOMAIN p.parents[i] = 1 .. Len(p.parents[i])
               /\ Operands(p, i) \subseteq Nodes(p)
               /\ \A v \in Operands(p, i) : v < i
    <2>1. p.parents[i] \in Seq(0 .. (i - 1))
      BY <1>1 DEF WellFormed
    <2>2. Len(p.parents[i]) = Arity[p.op[i]] /\ p.op[i] \in DOMAIN Arity
      BY <1>1 DEF WellFormed
    <2>3. \A o \in DOMAIN Arity : Arity[o] \in 0 .. 2
      BY DEF Arity
    <2>4. 0 .. (i - 1) \subseteq Nodes(p)
      BY <1>1, <1>2, <1>3 DEF WellFormed
    <2>5. Operands(p, i) \subseteq 0 .. (i - 1)
      <3>1. \A k \in DOMAIN p.parents[i] : p.parents[i][k] \in 0 .. (i - 1)
        BY <2>1, SequenceShape
      <3> QED BY <3>1, Zenon DEF Operands
    <2>6. DOMAIN p.parents[i] = 1 .. Len(p.parents[i])
      BY <2>1
    <2>7. \A v \in Operands(p, i) : v < i
      BY <2>5, <1>3
    <2> QED BY <2>2, <2>3, <2>4, <2>5, <2>6, <2>7
  <1> QED BY <1>1, <1>3, <1>4 DEF WellFormed

(* Live nodes are the outputs, and the operands of live nodes. *)
LEMMA LiveShape ==
  ASSUME NEW p \in Programs
  PROVE  /\ LiveNodes(p) \subseteq Nodes(p)
         /\ p.outputs \subseteq LiveNodes(p)
         /\ \A i \in LiveNodes(p) : Operands(p, i) \subseteq LiveNodes(p)
         /\ \A i \in LiveNodes(p) :
              i \in p.outputs \/ \E c \in LiveNodes(p) : i \in Operands(p, c)
  <1>1. /\ LiveNodes(p) \subseteq Nodes(p)
        /\ p.outputs \subseteq LiveNodes(p)
    BY ProgramShape DEF LiveNodes, Supplied
  <1>2. \A i \in LiveNodes(p) : Operands(p, i) \subseteq LiveNodes(p)
    BY <1>1, ProgramShape DEF LiveNodes, Supplied
  <1>3. ASSUME NEW i \in LiveNodes(p), i \notin p.outputs,
               \A c \in LiveNodes(p) : i \notin Operands(p, c)
        PROVE  FALSE
    <2> DEFINE S == LiveNodes(p) \ {i}
    <2>1. S \in SUBSET Nodes(p) /\ p.outputs \subseteq S
      BY <1>1, <1>3
    <2>2. \A j \in S : Operands(p, j) \subseteq S
      BY <1>2, <1>3
    <2>3. Supplied(p, S)
      BY <2>1, <2>2 DEF Supplied
    <2>4. i \in S
      BY <2>1, <2>3, <1>3 DEF LiveNodes
    <2> QED BY <2>4
  <1> QED BY <1>1, <1>2, <1>3

LEMMA EpochShape ==
  ASSUME NEW p \in Programs
  PROVE  /\ Cardinality(Feedbacks(p)) \in Nat
         /\ IsFiniteSet(Epochs(p)) /\ Epochs(p) \subseteq Nat
         /\ Cardinality(Epochs(p)) = Cardinality(Feedbacks(p)) + 1
         /\ \A i \in Nodes(p) : EpochOf(p, i) \in Epochs(p)
         /\ \A i, j \in Nodes(p) : i <= j => EpochOf(p, i) <= EpochOf(p, j)
         /\ \A i \in Nodes(p), f \in Feedbacks(p) : i < f => EpochOf(p, i) < EpochOf(p, f)
  <1> DEFINE Upto(i) == {f \in Feedbacks(p) : f <= i}
  <1>1. IsFiniteSet(Feedbacks(p)) /\ Feedbacks(p) \subseteq Nodes(p)
    BY ProgramShape, FS_Subset DEF Feedbacks
  <1>2. Cardinality(Feedbacks(p)) \in Nat
    BY <1>1, FS_CardinalityType
  <1>3. \A i : /\ IsFiniteSet(Upto(i)) /\ Cardinality(Upto(i)) \in Nat
               /\ Cardinality(Upto(i)) <= Cardinality(Feedbacks(p))
    BY <1>1, FS_Subset, FS_CardinalityType
  <1>4. \A i \in Nodes(p) : EpochOf(p, i) \in Epochs(p)
    BY <1>2, <1>3 DEF EpochOf, Epochs
  <1>5. ASSUME NEW i \in Nodes(p), NEW j \in Nodes(p), i <= j
        PROVE  Cardinality(Upto(i)) <= Cardinality(Upto(j)) /\ Upto(i) \subseteq Upto(j)
    <2>1. Upto(i) \subseteq Upto(j)
      BY <1>1, <1>5, ProgramShape
    <2> QED BY <2>1, <1>3, FS_Subset
  <1>6. ASSUME NEW i \in Nodes(p), NEW f \in Feedbacks(p), i < f
        PROVE  Cardinality(Upto(i)) < Cardinality(Upto(f))
    <2>1. i \in Nat /\ f \in Nat /\ f \in Nodes(p)
      BY <1>1, ProgramShape
    <2>2. f \in Upto(f) /\ f \notin Upto(i)
      BY <1>6, <2>1
    <2>3. Upto(i) \subseteq Upto(f) /\ Cardinality(Upto(i)) <= Cardinality(Upto(f))
      BY <1>5, <1>6, <2>1
    <2>4. Upto(i) # Upto(f)
      BY <2>2
    <2>5. Cardinality(Upto(i)) # Cardinality(Upto(f))
      <3> HIDE DEF Upto
      <3> QED BY <2>3, <2>4, <1>3, FS_Subset
    <2> QED BY <2>3, <2>5, <1>3
  <1>7. /\ IsFiniteSet(Epochs(p)) /\ Epochs(p) \subseteq Nat
        /\ Cardinality(Epochs(p)) = Cardinality(Feedbacks(p)) + 1
    BY <1>2, FS_Interval DEF Epochs
  <1> QED BY <1>2, <1>4, <1>5, <1>6, <1>7 DEF EpochOf

(* Uses counted by edge: those by one consumer are the places it names v at. *)
LEMMA EdgesOfConsumer ==
  ASSUME NEW p \in Programs, NEW live_, live_ \subseteq Nodes(p),
         NEW i \in live_, NEW v
  PROVE  /\ IsFiniteSet(UseEdges(p, live_, v))
         /\ Cardinality({e \in UseEdges(p, live_, v) : e[1] = i}) = EdgesBetween(p, v, i)
  <1> DEFINE K == {k \in DOMAIN p.parents[i] : p.parents[i][k] = v}
             E == {e \in UseEdges(p, live_, v) : e[1] = i}
             f == [k \in K |-> <<i, k>>]
  <1>1. IsFiniteSet(UseEdges(p, live_, v))
    <2>1. IsFiniteSet(live_) /\ IsFiniteSet(1 .. 2)
      BY ProgramShape, FS_Subset, PairFinite
    <2>2. IsFiniteSet(live_ \X (1 .. 2))
      BY <2>1, FS_Product
    <2> QED BY <2>2, FS_Subset DEF UseEdges
  <1>2. K \subseteq 1 .. 2 /\ DOMAIN p.parents[i] \subseteq 1 .. 2
    BY ProgramShape
  <1>3. IsFiniteSet(K)
    BY <1>2, PairFinite, FS_Subset
  <1>4. \A k \in K : <<i, k>> \in E
    BY <1>2 DEF UseEdges
  <1>5. \A e \in E : e[2] \in K /\ e = <<i, e[2]>>
    BY DEF UseEdges
  <1>6. f \in Bijection(K, E)
    <2>1. f \in [K -> E]
      BY <1>4
    <2>2. \A a, b \in K : f[a] = f[b] => a = b
      OBVIOUS
    <2>3. \A e \in E : \E k \in K : f[k] = e
      BY <1>5
    <2> HIDE DEF K, E, f
    <2> QED BY <2>1, <2>2, <2>3 DEF Bijection, Injection, Surjection, IsInjective
  <1>7. Cardinality(E) = Cardinality(K)
    <2> HIDE DEF K, E, f
    <2> QED BY <1>3, <1>6, FS_Bijection DEF ExistsBijection
  <1> QED BY <1>1, <1>7 DEF EdgesBetween
-----------------------------------------------------------------------------
(* The inductive invariant: what the counters mean, and where the epochs are. *)

Undone == live \ done

(* Done nodes have done operands; the active epoch is the first with a node   *)
(* left, or lies past the last.                                             *)
ProgressInv ==
  /\ prog \in Programs /\ live = LiveNodes(prog)
  /\ done \subseteq Nodes(prog) /\ Nodes(prog) \ live \subseteq done
  /\ \A i \in done \cap live : Operands(prog, i) \subseteq done
  /\ activeEpoch \in Nat
  /\ \A i \in Undone : EpochOf(prog, i) >= activeEpoch
  /\ Undone # {} => \E i \in Undone : EpochOf(prog, i) = activeEpoch

Domains ==
  /\ DOMAIN pending = Nodes(prog) /\ DOMAIN remainingUses = Nodes(prog)
  /\ DOMAIN epochRemaining = Epochs(prog)

(* The parts of CountersExact. *)
Missing(p, finished, i) == {k \in DOMAIN p.parents[i] : p.parents[i][k] \notin finished}
UsesLeft(p, lv, finished, i) == {e \in UseEdges(p, lv, i) : e[1] \notin finished}
InEpoch(p, left, e) == {i \in left : EpochOf(p, i) = e}

PendingExact == \A i \in live : pending[i] = Cardinality(Missing(prog, done, i))
UsesExact ==
  \A i \in Nodes(prog) : remainingUses[i] = Cardinality(UsesLeft(prog, live, done, i))
EpochsExact ==
  \A e \in Epochs(prog) : epochRemaining[e] = Cardinality(InEpoch(prog, Undone, e))
TotalsExact == remaining = Cardinality(Undone) /\ liveValues = Cardinality(retained)
ReadyExact ==
  ready = {i \in Undone : EpochOf(prog, i) = activeEpoch /\ Operands(prog, i) \subseteq done}

IInv ==
  /\ ProgressInv /\ Domains
  /\ PendingExact /\ UsesExact /\ EpochsExact /\ TotalsExact /\ ReadyExact
  /\ RetainedIsNeeded

LEMMA CountersSplit ==
  CountersExact <=> PendingExact /\ UsesExact /\ EpochsExact /\ TotalsExact /\ ReadyExact
  BY Zenon DEF CountersExact, PendingExact, UsesExact, EpochsExact, TotalsExact, ReadyExact,
     Missing, UsesLeft, InEpoch, Undone

LEMMA LiveFinite ==
  ASSUME ProgressInv
  PROVE  /\ live \subseteq Nodes(prog) /\ IsFiniteSet(live)
         /\ IsFiniteSet(Undone) /\ Undone \subseteq Nodes(prog)
         /\ Nodes(prog) \subseteq Nat /\ IsFiniteSet(Nodes(prog))
  BY ProgramShape, LiveShape, FS_Subset DEF ProgressInv, Undone

LEMMA MissingShape ==
  ASSUME NEW p \in Programs, NEW i \in Nodes(p), NEW finished
  PROVE  /\ IsFiniteSet(Missing(p, finished, i))
         /\ Missing(p, finished, i) = {} <=> Operands(p, i) \subseteq finished
  <1>1. DOMAIN p.parents[i] \subseteq 1 .. 2
    BY ProgramShape
  <1>2. IsFiniteSet(Missing(p, finished, i))
    BY <1>1, PairFinite, FS_Subset DEF Missing
  <1>3. Missing(p, finished, i) = {} <=> Operands(p, i) \subseteq finished
    BY Zenon DEF Missing, Operands
  <1> QED BY <1>2, <1>3

(* activate_epoch finds the first epoch with a node left. *)
LEMMA NextEpochFirst ==
  ASSUME NEW p \in Programs, NEW left, left \subseteq Nodes(p),
         NEW count, DOMAIN count = Epochs(p),
         \A e \in Epochs(p) : count[e] = Cardinality(InEpoch(p, left, e)),
         NEW from \in Nat, \A i \in left : EpochOf(p, i) >= from
  PROVE  /\ NextEpoch(count, from) \in Nat
         /\ \A i \in left : EpochOf(p, i) >= NextEpoch(count, from)
         /\ left # {} => \E i \in left : EpochOf(p, i) = NextEpoch(count, from)
  <1> DEFINE open == {e \in DOMAIN count : e >= from /\ count[e] > 0}
  <1>1. IsFiniteSet(left) /\ Epochs(p) \subseteq Nat
    BY ProgramShape, EpochShape, FS_Subset
  <1>2. \A e \in Epochs(p) : /\ IsFiniteSet(InEpoch(p, left, e))
                             /\ count[e] \in Nat
                             /\ count[e] > 0 <=> InEpoch(p, left, e) # {}
    <2>1. SUFFICES ASSUME NEW e \in Epochs(p)
                   PROVE  /\ IsFiniteSet(InEpoch(p, left, e))
                          /\ count[e] \in Nat
                          /\ count[e] > 0 <=> InEpoch(p, left, e) # {}
      OBVIOUS
    <2>2. IsFiniteSet(InEpoch(p, left, e))
      BY <1>1, FS_Subset DEF InEpoch
    <2> QED BY <2>2, EmptyIffZero
  <1>3. \A i \in left : EpochOf(p, i) \in open
    BY <1>2, EpochShape DEF InEpoch
  <1>4. \A e \in open : \E i \in left : EpochOf(p, i) = e
    BY <1>2 DEF InEpoch
  <1>5. open \subseteq Nat
    BY <1>1
  <1>6. CASE open = {}
    <2>1. left = {}
      BY <1>3, <1>6
    <2>2. NextEpoch(count, from) = Cardinality(Epochs(p))
      BY <1>6 DEF NextEpoch
    <2> QED BY <2>1, <2>2, EpochShape
  <1>7. CASE open # {}
    <2>1. NextEpoch(count, from) = Min(open)
      BY <1>7 DEF NextEpoch
    <2> HIDE DEF open
    <2>2. Min(open) \in open /\ \A e \in open : Min(open) <= e
      BY <1>5, <1>7, LeastOf
    <2> QED BY <2>1, <2>2, <1>3, <1>4, <1>5
  <1> QED BY <1>6, <1>7

-----------------------------------------------------------------------------
(* The initial state *)

LEMMA InitIInv == Init => IInv
  <1> SUFFICES ASSUME NEW p \in Programs, NEW lim \in LiveLimits, InitSchedule(p, lim)
               PROVE  IInv
    BY DEF Init
  <1> DEFINE lv == LiveNodes(p)
  <1>1. /\ prog = p /\ live = lv /\ done = Nodes(p) \ lv /\ retained = {}
        /\ pending = [i \in Nodes(p) |-> IF i \in lv THEN Len(p.parents[i]) ELSE 0]
        /\ remainingUses = [i \in Nodes(p) |-> Cardinality(UseEdges(p, lv, i))]
        /\ epochRemaining = [e \in Epochs(p) |-> Cardinality({i \in lv : EpochOf(p, i) = e})]
        /\ remaining = Cardinality(lv) /\ liveValues = 0
        /\ activeEpoch = NextEpoch(epochRemaining, 0)
        /\ ready = Admissible(p, done, pending, activeEpoch)
    BY DEF InitSchedule
  <1>2. lv \subseteq Nodes(p) /\ \A i \in lv : Operands(p, i) \subseteq lv
    BY LiveShape
  <1>3. Undone = lv
    BY <1>1, <1>2 DEF Undone
  <1>4. ProgressInv
    <2>1. \A i \in lv : EpochOf(p, i) >= 0
      BY <1>2, EpochShape
    <2>2. /\ activeEpoch \in Nat
          /\ \A i \in lv : EpochOf(p, i) >= activeEpoch
          /\ lv # {} => \E i \in lv : EpochOf(p, i) = activeEpoch
      <3>1. \A e \in Epochs(p) : epochRemaining[e] = Cardinality(InEpoch(p, lv, e))
        BY <1>1 DEF InEpoch
      <3>2. lv \subseteq Nodes(p) /\ DOMAIN epochRemaining = Epochs(p)
        BY <1>1, <1>2
      <3>3. activeEpoch = NextEpoch(epochRemaining, 0)
        BY <1>1
      <3> HIDE DEF lv
      <3> QED BY ONLY <3>1, <3>2, <3>3, <2>1, NextEpochFirst
    <2> QED BY <2>2, <1>1, <1>2, <1>3 DEF ProgressInv
  <1>5. Domains
    BY <1>1 DEF Domains
  <1>6. \A i \in lv : pending[i] = Cardinality(Missing(p, done, i))
    <2>1. SUFFICES ASSUME NEW i \in lv
                   PROVE  Cardinality(Missing(p, done, i)) = Len(p.parents[i])
      BY <1>1, <1>2
    <2>2. \A k \in DOMAIN p.parents[i] : p.parents[i][k] \in lv
      BY <1>2 DEF Operands
    <2>3. Missing(p, done, i) = 1 .. Len(p.parents[i])
      BY <2>2, <1>1, <1>2, ProgramShape DEF Missing
    <2>4. Len(p.parents[i]) \in Nat
      BY <1>2, ProgramShape
    <2> QED BY <2>3, <2>4, FS_Interval
  <1>7. UsesExact
    <2>1. SUFFICES ASSUME NEW i \in Nodes(p)
                   PROVE  UsesLeft(p, lv, done, i) = UseEdges(p, lv, i)
      BY <1>1 DEF UsesExact
    <2>2. \A e \in UseEdges(p, lv, i) : e[1] \in lv
      BY DEF UseEdges
    <2> QED BY <2>2, <1>1 DEF UsesLeft
  <1>8. EpochsExact
    BY <1>1, <1>3 DEF EpochsExact, InEpoch
  <1>9. TotalsExact
    BY <1>1, <1>3, FS_EmptySet DEF TotalsExact
  <1>10. ReadyExact
    <2>1. \A i \in lv : pending[i] = 0 <=> Operands(p, i) \subseteq done
      <3>1. SUFFICES ASSUME NEW i \in lv
                     PROVE  pending[i] = 0 <=> Operands(p, i) \subseteq done
        OBVIOUS
      <3>2. i \in Nodes(p)
        BY <1>2
      <3> QED BY <3>2, <1>6, MissingShape, EmptyIffZero
    <2>2. Nodes(p) \ done = lv
      BY <1>1, <1>2
    <2> QED BY <1>1, <1>3, <2>1, <2>2 DEF ReadyExact, Admissible
  <1>11. RetainedIsNeeded
    BY <1>1, <1>2 DEF RetainedIsNeeded, NodesDone
  <1> QED BY <1>1, <1>4, <1>5, <1>6, <1>7, <1>8, <1>9, <1>10, <1>11 DEF IInv, PendingExact
-----------------------------------------------------------------------------
(* complete(i), piece by piece *)

(* What is known of the node that completes. *)
LEMMA CompletingNode ==
  ASSUME IInv, NEW i, Complete(i)
  PROVE  /\ prog \in Programs /\ i \in Nodes(prog) /\ i \in live /\ i \notin done
         /\ EpochOf(prog, i) = activeEpoch /\ activeEpoch \in Epochs(prog)
         /\ Operands(prog, i) \subseteq done /\ i \notin Operands(prog, i)
         /\ done' = done \cup {i} /\ Undone' = Undone \ {i}
         /\ prog' = prog /\ live' = live
         /\ \A c \in done \cap live : i \notin Operands(prog, c)
  <1>1. i \in Undone /\ EpochOf(prog, i) = activeEpoch /\ Operands(prog, i) \subseteq done
    BY DEF IInv, ReadyExact, Complete
  <1>2. prog \in Programs /\ i \in Nodes(prog) /\ i \in live /\ i \notin done
    BY <1>1, LiveFinite DEF IInv, ProgressInv, Undone
  <1>3. done' = done \cup {i} /\ prog' = prog /\ live' = live
    BY DEF Complete
  <1>4. Undone' = Undone \ {i}
    BY <1>3 DEF Undone
  <1>5. \A c \in done \cap live : i \notin Operands(prog, c)
    BY <1>2 DEF IInv, ProgressInv
  <1> QED BY <1>1, <1>2, <1>3, <1>4, <1>5, EpochShape

LEMMA PendingStep ==
  ASSUME IInv, NEW i, Complete(i)
  PROVE  /\ PendingExact' /\ DOMAIN pending' = Nodes(prog)
         /\ pending' = WaitsAfter(i)
         /\ \A c \in live : WaitsAfter(i)[c] = 0 <=> Operands(prog, c) \subseteq done'
  <1>1. /\ prog \in Programs /\ live \subseteq Nodes(prog) /\ i \notin done
        /\ done' = done \cup {i} /\ prog' = prog /\ live' = live
    BY CompletingNode, LiveFinite DEF IInv
  <1>2. pending' = WaitsAfter(i) /\ DOMAIN pending' = Nodes(prog)
    BY DEF Complete, WaitsAfter, Without, IInv, Domains
  <1>3. ASSUME NEW c \in live
        PROVE  pending'[c] = Cardinality(Missing(prog, done', c))
    <2> DEFINE M == Missing(prog, done, c)
               T == {k \in DOMAIN prog.parents[c] : prog.parents[c][k] = i}
    <2>1. pending[c] = Cardinality(M)
      BY DEF IInv, PendingExact
    <2>2. pending'[c] = pending[c] - Cardinality(T)
      BY <1>1, <1>2 DEF WaitsAfter, Without, IInv, Domains, EdgesBetween
    <2>3. T \subseteq M /\ Missing(prog, done', c) = M \ T
      BY <1>1 DEF Missing
    <2>4. IsFiniteSet(M)
      BY <1>1, MissingShape
    <2> HIDE DEF M, T
    <2> QED BY <2>1, <2>2, <2>3, <2>4, CountWithout
  <1>4. PendingExact'
    BY <1>1, <1>3 DEF PendingExact
  <1>5. ASSUME NEW c \in live
        PROVE  WaitsAfter(i)[c] = 0 <=> Operands(prog, c) \subseteq done'
    BY <1>1, <1>2, <1>3, MissingShape, EmptyIffZero
  <1> QED BY <1>2, <1>4, <1>5

(* Uses left once i, which is ready, is done: the edges of its own operands   *)
(* are gone, and none is left exactly if all consumers are done.             *)
LEMMA UsesAfterReady ==
  ASSUME IInv, NEW i \in ready
  PROVE  /\ DOMAIN UsesAfter(i) = Nodes(prog)
         /\ \A v \in Nodes(prog) :
              /\ remainingUses[v] \in Nat /\ EdgesBetween(prog, v, i) \in Nat
              /\ UsesAfter(i)[v] = remainingUses[v] - EdgesBetween(prog, v, i)
              /\ UsesAfter(i)[v] = Cardinality(UsesLeft(prog, live, done \cup {i}, v))
              /\ UsesAfter(i)[v] = 0 <=> Consumers(prog, live, v) \subseteq done \cup {i}
  <1> DEFINE after == done \cup {i}
  <1>1. prog \in Programs /\ live \subseteq Nodes(prog) /\ i \in live /\ i \notin done
    BY LiveFinite DEF IInv, ReadyExact, Undone, ProgressInv
  <1>2. DOMAIN UsesAfter(i) = Nodes(prog)
    BY DEF UsesAfter, Without, IInv, Domains
  <1>3. ASSUME NEW v \in Nodes(prog)
        PROVE  /\ remainingUses[v] \in Nat /\ EdgesBetween(prog, v, i) \in Nat
               /\ UsesAfter(i)[v] = remainingUses[v] - EdgesBetween(prog, v, i)
               /\ UsesAfter(i)[v] = Cardinality(UsesLeft(prog, live, after, v))
               /\ IsFiniteSet(UsesLeft(prog, live, after, v))
    <2> DEFINE U == UsesLeft(prog, live, done, v)
               T == {e \in UseEdges(prog, live, v) : e[1] = i}
    <2>1. remainingUses[v] = Cardinality(U)
      BY DEF IInv, UsesExact
    <2>2. IsFiniteSet(UseEdges(prog, live, v)) /\ Cardinality(T) = EdgesBetween(prog, v, i)
      BY <1>1, EdgesOfConsumer
    <2>3. UsesAfter(i)[v] = remainingUses[v] - EdgesBetween(prog, v, i)
      BY <1>2 DEF UsesAfter, Without
    <2>4. T \subseteq U /\ UsesLeft(prog, live, after, v) = U \ T
      BY <1>1 DEF UsesLeft
    <2>5. IsFiniteSet(U)
      BY <2>2, FS_Subset DEF UsesLeft
    <2> HIDE DEF U, T, after
    <2> QED BY <2>1, <2>2, <2>3, <2>4, <2>5, CountWithout
  <1>4. ASSUME NEW v \in Nodes(prog)
        PROVE  UsesLeft(prog, live, after, v) = {} <=> Consumers(prog, live, v) \subseteq after
    <2>1. ASSUME NEW e \in UsesLeft(prog, live, after, v)
          PROVE  e[1] \in Consumers(prog, live, v) /\ e[1] \notin after
      BY DEF UsesLeft, UseEdges, Consumers, Operands
    <2>2. ASSUME NEW c \in Consumers(prog, live, v), c \notin after
          PROVE  UsesLeft(prog, live, after, v) # {}
      <3>1. PICK k \in DOMAIN prog.parents[c] : prog.parents[c][k] = v
        BY DEF Consumers, Operands
      <3>2. k \in 1 .. 2
        BY <1>1, ProgramShape DEF Consumers
      <3>3. <<c, k>> \in UsesLeft(prog, live, after, v)
        BY <3>1, <3>2, <2>2 DEF UsesLeft, UseEdges, Consumers
      <3> QED BY <3>3
    <2> QED BY <2>1, <2>2
  <1>5. ASSUME NEW v \in Nodes(prog)
        PROVE  UsesAfter(i)[v] = 0 <=> Consumers(prog, live, v) \subseteq after
    BY <1>3, <1>4, EmptyIffZero
  <1> QED BY <1>2, <1>3, <1>5

LEMMA UsesStep ==
  ASSUME IInv, NEW i, Complete(i)
  PROVE  /\ UsesExact' /\ DOMAIN remainingUses' = Nodes(prog)
         /\ remainingUses' = UsesAfter(i)
         /\ \A v \in Nodes(prog) : UsesAfter(i)[v] = 0 <=> Consumers(prog, live, v) \subseteq done'
  <1>1. done' = done \cup {i} /\ prog' = prog /\ live' = live
    BY CompletingNode
  <1>2. i \in ready /\ remainingUses' = UsesAfter(i)
    BY DEF Complete
  <1>3. UsesExact'
    BY <1>1, <1>2, UsesAfterReady DEF UsesExact
  <1> QED BY <1>1, <1>2, <1>3, UsesAfterReady

LEMMA EpochStep ==
  ASSUME IInv, NEW i, Complete(i)
  PROVE  /\ EpochsExact' /\ DOMAIN epochRemaining' = Epochs(prog)
         /\ activeEpoch' = EpochAfter(epochRemaining')
         /\ ProgressInv'
         /\ activeEpoch' # activeEpoch => InEpoch(prog, Undone', activeEpoch) = {}
  <1> DEFINE left == [epochRemaining EXCEPT ![activeEpoch] = @ - 1]
             U == Undone \ {i}
  <1>1. /\ prog \in Programs /\ i \in Undone /\ U \subseteq Nodes(prog) /\ IsFiniteSet(Undone)
        /\ Undone \subseteq Nodes(prog)
        /\ EpochOf(prog, i) = activeEpoch /\ activeEpoch \in Epochs(prog)
        /\ prog' = prog /\ live' = live /\ done' = done \cup {i} /\ Undone' = U
    BY CompletingNode, LiveFinite DEF IInv, Undone
  <1>2. epochRemaining' = left /\ activeEpoch' = EpochAfter(left) /\ DOMAIN left = Epochs(prog)
    BY DEF Complete, IInv, Domains
  <1>3. \A e \in Epochs(prog) : left[e] = Cardinality(InEpoch(prog, U, e))
    <2>1. SUFFICES ASSUME NEW e \in Epochs(prog)
                   PROVE  left[e] = Cardinality(InEpoch(prog, U, e))
      OBVIOUS
    <2>2. /\ epochRemaining[e] = Cardinality(InEpoch(prog, Undone, e))
          /\ IsFiniteSet(InEpoch(prog, Undone, e))
      BY <1>1, FS_Subset DEF IInv, EpochsExact, InEpoch
    <2>3. CASE e = activeEpoch
      <3>1. /\ i \in InEpoch(prog, Undone, e)
            /\ InEpoch(prog, U, e) = InEpoch(prog, Undone, e) \ {i}
        BY <1>1, <2>3 DEF InEpoch
      <3>2. left[e] = epochRemaining[e] - 1
        BY <2>3, <1>1 DEF IInv, Domains
      <3> QED BY <3>1, <3>2, <2>2, FS_RemoveElement
    <2>4. CASE e # activeEpoch
      <3>1. InEpoch(prog, U, e) = InEpoch(prog, Undone, e)
        BY <1>1, <2>4 DEF InEpoch
      <3>2. left[e] = epochRemaining[e]
        BY <2>4, <1>1 DEF IInv, Domains
      <3> QED BY <3>1, <3>2, <2>2
    <2> QED BY <2>3, <2>4
  <1>4. EpochsExact'
    BY <1>1, <1>2, <1>3 DEF EpochsExact
  <1>5. activeEpoch \in Nat /\ \A j \in U : EpochOf(prog, j) >= activeEpoch
    BY DEF IInv, ProgressInv
  <1>6. left[activeEpoch] = 0 <=> InEpoch(prog, U, activeEpoch) = {}
    <2>1. IsFiniteSet(InEpoch(prog, U, activeEpoch))
      BY <1>1, FS_Subset DEF InEpoch
    <2> QED BY <2>1, <1>1, <1>3, EmptyIffZero
  <1>7. /\ EpochAfter(left) \in Nat
        /\ \A j \in U : EpochOf(prog, j) >= EpochAfter(left)
        /\ U # {} => \E j \in U : EpochOf(prog, j) = EpochAfter(left)
        /\ EpochAfter(left) # activeEpoch => InEpoch(prog, U, activeEpoch) = {}
    <2>1. CASE left[activeEpoch] = 0
      <3>1. EpochAfter(left) = NextEpoch(left, activeEpoch)
        BY <2>1 DEF EpochAfter
      <3>2. /\ NextEpoch(left, activeEpoch) \in Nat
            /\ \A j \in U : EpochOf(prog, j) >= NextEpoch(left, activeEpoch)
            /\ U # {} => \E j \in U : EpochOf(prog, j) = NextEpoch(left, activeEpoch)
        <4>1. prog \in Programs /\ U \subseteq Nodes(prog) /\ DOMAIN left = Epochs(prog)
          BY <1>1, <1>2
        <4> HIDE DEF left, U
        <4> QED BY ONLY <4>1, <1>3, <1>5, NextEpochFirst
      <3> QED BY <3>1, <3>2, <1>6, <2>1
    <2>2. CASE left[activeEpoch] # 0
      <3>1. EpochAfter(left) = activeEpoch
        BY <2>2 DEF EpochAfter
      <3>2. \E j \in U : EpochOf(prog, j) = activeEpoch
        BY <2>2, <1>6 DEF InEpoch
      <3> QED BY <3>1, <3>2, <1>5
    <2> QED BY <2>1, <2>2
  <1>8. \A j \in done' \cap live' : Operands(prog', j) \subseteq done'
    BY <1>1, CompletingNode DEF IInv, ProgressInv
  <1>9. done' \subseteq Nodes(prog') /\ Nodes(prog') \ live' \subseteq done'
    BY <1>1 DEF IInv, ProgressInv
  <1>10. prog' \in Programs /\ live' = LiveNodes(prog')
    BY <1>1 DEF IInv, ProgressInv
  <1>11. ProgressInv'
    BY <1>1, <1>2, <1>7, <1>8, <1>9, <1>10 DEF ProgressInv
  <1> QED BY <1>1, <1>2, <1>4, <1>7, <1>11

LEMMA TotalsStep ==
  ASSUME IInv, NEW i, Complete(i)
  PROVE  TotalsExact'
  <1> DEFINE freed == {v \in Operands(prog, i) \cap retained : Releasable(v, UsesAfter(i))}
             kept == retained \cup {i}
  <1>1. /\ retained' = kept \ freed
        /\ liveValues' = liveValues + 1 - Cardinality(freed)
        /\ remaining' = remaining - 1
    BY DEF Complete
  <1>2. /\ i \in Undone /\ Undone' = Undone \ {i} /\ IsFiniteSet(Undone)
        /\ i \notin retained /\ IsFiniteSet(retained)
    <2>1. retained \subseteq Nodes(prog) /\ retained \subseteq done
      BY LiveFinite DEF IInv, RetainedIsNeeded, NodesDone
    <2> QED BY <2>1, CompletingNode, LiveFinite, FS_Subset DEF IInv, Undone
  <1>3. remaining' = Cardinality(Undone')
    BY <1>1, <1>2, FS_RemoveElement DEF IInv, TotalsExact
  <1>4. IsFiniteSet(kept) /\ Cardinality(kept) = Cardinality(retained) + 1
    BY <1>2, FS_AddElement
  <1>5. freed \subseteq kept
    OBVIOUS
  <1>6. /\ Cardinality(kept \ freed) = Cardinality(kept) - Cardinality(freed)
        /\ Cardinality(freed) \in Nat /\ Cardinality(kept) \in Nat
    <2> HIDE DEF kept, freed
    <2> QED BY <1>4, <1>5, CountWithout
  <1>7. liveValues' = Cardinality(retained')
    <2>1. liveValues = Cardinality(retained) /\ Cardinality(retained) \in Nat
      BY <1>2, FS_CardinalityType DEF IInv, TotalsExact
    <2> HIDE DEF kept, freed
    <2> QED BY <1>1, <1>4, <1>6, <2>1
  <1> QED BY <1>3, <1>7 DEF TotalsExact

LEMMA ReadyStep ==
  ASSUME IInv, NEW i, Complete(i)
  PROVE  ReadyExact'
  <1> DEFINE waits == WaitsAfter(i)
             same == (ready \ {i}) \cup Freed(i, waits)
             U == Undone \ {i}
  <1>1. /\ prog \in Programs /\ live \subseteq Nodes(prog)
        /\ i \in live /\ i \notin done /\ i \notin Operands(prog, i)
        /\ prog' = prog /\ live' = live /\ done' = done \cup {i} /\ Undone' = U
        /\ \A c \in done \cap live : i \notin Operands(prog, c)
    BY CompletingNode, LiveFinite DEF IInv
  <1>2. \A c \in live : waits[c] = 0 <=> Operands(prog, c) \subseteq done'
    BY PendingStep
  <1>3. ready = {j \in Undone : EpochOf(prog, j) = activeEpoch /\ Operands(prog, j) \subseteq done}
    BY DEF IInv, ReadyExact
  <1>4. Freed(i, waits) = {c \in U : /\ EpochOf(prog, c) = activeEpoch
                                     /\ i \in Operands(prog, c)
                                     /\ Operands(prog, c) \subseteq done'}
    <2>1. \A c \in Consumers(prog, live, i) : c \in U
      BY <1>1 DEF Consumers, Undone
    <2>2. \A c \in U : i \in Operands(prog, c) => c \in Consumers(prog, live, i)
      BY DEF Consumers, Undone
    <2>3. \A c \in U : c \in live
      BY DEF Undone
    <2> HIDE DEF U, waits
    <2> QED BY <2>1, <2>2, <2>3, <1>2 DEF Freed, Consumers
  <1>5. same = {j \in U : EpochOf(prog, j) = activeEpoch /\ Operands(prog, j) \subseteq done'}
    BY <1>1, <1>3, <1>4
  <1>6. ready' = IF activeEpoch' = activeEpoch THEN same
                 ELSE same \cup Admissible(prog, done', waits, activeEpoch')
    BY DEF Complete
  <1>7. CASE activeEpoch' = activeEpoch
    BY <1>1, <1>5, <1>6, <1>7 DEF ReadyExact
  <1>8. CASE activeEpoch' # activeEpoch
    <2>1. InEpoch(prog, U, activeEpoch) = {}
      BY <1>1, <1>8, EpochStep
    <2>2. same = {}
      BY <1>5, <2>1 DEF InEpoch
    <2>3. Nodes(prog) \ done' = U
      BY <1>1 DEF IInv, ProgressInv, Undone
    <2>4. \A j \in U : j \in live
      BY DEF Undone
    <2>5. Admissible(prog, done', waits, activeEpoch')
            = {j \in U : EpochOf(prog, j) = activeEpoch' /\ Operands(prog, j) \subseteq done'}
      <3> HIDE DEF U, waits
      <3> QED BY <2>3, <2>4, <1>2 DEF Admissible
    <2>6. ready' = Admissible(prog, done', waits, activeEpoch')
      BY <1>6, <1>8, <2>2
    <2> QED BY <1>1, <2>5, <2>6 DEF ReadyExact
  <1> QED BY <1>7, <1>8

LEMMA RetainedStep ==
  ASSUME IInv, NEW i, Complete(i)
  PROVE  RetainedIsNeeded'
  <1> DEFINE Wanted(v) == v \in pinned \/ ~(Consumers(prog, live, v) \subseteq done')
             freed == {v \in Operands(prog, i) \cap retained : Releasable(v, UsesAfter(i))}
  <1>1. /\ prog \in Programs /\ live = LiveNodes(prog) /\ live \subseteq Nodes(prog)
        /\ i \in live /\ i \notin done
        /\ prog' = prog /\ live' = live /\ done' = done \cup {i}
        /\ \A c \in done \cap live : i \notin Operands(prog, c)
        /\ i \notin Operands(prog, i)
    BY CompletingNode, LiveFinite DEF IInv, ProgressInv
  <1>2. retained' = (retained \cup {i}) \ freed
    BY DEF Complete
  <1>3. retained = {v \in done \cap live : v \in pinned \/ ~(Consumers(prog, live, v) \subseteq done)}
    BY DEF IInv, RetainedIsNeeded, NodesDone
  <1>4. \A v \in Nodes(prog) : UsesAfter(i)[v] = 0 <=> Consumers(prog, live, v) \subseteq done'
    BY UsesStep
  <1>5. \A v \in freed : ~Wanted(v)
    BY <1>1, <1>3, <1>4 DEF Releasable
  <1>6. Wanted(i)
    <2>1. CASE i \in prog.outputs
      BY <2>1 DEF pinned
    <2>2. CASE i \notin prog.outputs
      <3>1. PICK c \in live : i \in Operands(prog, c)
        BY <1>1, <2>2, LiveShape
      <3>2. c \notin done /\ c # i
        BY <1>1, <3>1
      <3> QED BY <1>1, <3>1, <3>2 DEF Consumers
    <2> QED BY <2>1, <2>2
  <1>7. ASSUME NEW v \in retained, v \notin freed
        PROVE  Wanted(v)
    <2>1. CASE v \in Operands(prog, i)
      BY <1>1, <1>3, <1>4, <1>7, <2>1 DEF Releasable
    <2>2. CASE v \notin Operands(prog, i)
      BY <1>1, <1>3, <1>7, <2>2 DEF Consumers
    <2> QED BY <2>1, <2>2
  <1>8. ASSUME NEW v \in done \cap live, v \notin retained
        PROVE  ~Wanted(v)
    BY <1>1, <1>3, <1>8
  <1>9. retained' = {v \in done' \cap live : Wanted(v)}
    BY <1>1, <1>2, <1>3, <1>5, <1>6, <1>7, <1>8
  <1> QED BY <1>1, <1>9 DEF RetainedIsNeeded, NodesDone, pinned

LEMMA CompleteIInv ==
  ASSUME IInv, NEW i, Complete(i)
  PROVE  IInv'
  <1>1. Domains'
    BY PendingStep, UsesStep, EpochStep DEF Domains, Complete
  <1> QED BY <1>1, PendingStep, UsesStep, EpochStep, TotalsStep, ReadyStep, RetainedStep DEF IInv

LEMMA StutterIInv == IInv /\ UNCHANGED schedule => IInv'
  <1> SUFFICES ASSUME IInv, UNCHANGED schedule
               PROVE  IInv'
    OBVIOUS
  <1> USE DEF schedule, counters
  <1>1. ProgressInv' /\ Undone' = Undone
    BY DEF IInv, ProgressInv, Undone
  <1>2. Domains'
    BY DEF IInv, Domains
  <1>3. PendingExact'
    BY DEF IInv, PendingExact
  <1>4. UsesExact'
    BY DEF IInv, UsesExact
  <1>5. EpochsExact'
    BY <1>1 DEF IInv, EpochsExact
  <1>6. TotalsExact'
    BY <1>1 DEF IInv, TotalsExact
  <1>7. ReadyExact'
    BY <1>1 DEF IInv, ReadyExact
  <1>8. RetainedIsNeeded'
    BY DEF IInv, RetainedIsNeeded, NodesDone, pinned
  <1> QED BY <1>1, <1>2, <1>3, <1>4, <1>5, <1>6, <1>7, <1>8 DEF IInv

(* The inductive invariant. *)
THEOREM IInvAlways == Spec => []IInv
  <1>1. IInv /\ [Next]_schedule => IInv'
    BY CompleteIInv, StutterIInv DEF Next
  <1> QED BY InitIInv, <1>1, PTL DEF Spec

-----------------------------------------------------------------------------
(* What follows *)

(* For every set of programs the counters of PackedReadySchedule mean what    *)
(* they are named for, after any number of calls of complete().              *)
THEOREM CountersCorrect == Spec => []CountersExact
  <1>1. IInv => CountersExact
    BY CountersSplit DEF IInv
  <1> QED BY <1>1, IInvAlways, PTL

(* For every set of programs exactly the values still needed are retained.    *)
THEOREM RetainedCorrect == Spec => []RetainedIsNeeded
  <1>1. IInv => RetainedIsNeeded
    BY DEF IInv
  <1> QED BY <1>1, IInvAlways, PTL

(* The least node left in the active epoch has all its operands done.         *)
LEMMA NeverStuckFromIInv == IInv => NeverStuck
  <1> SUFFICES ASSUME IInv, remaining > 0
               PROVE  ready # {}
    BY DEF NeverStuck
  <1> DEFINE open == {i \in Undone : EpochOf(prog, i) = activeEpoch}
  <1>1. prog \in Programs /\ Undone \subseteq Nodes(prog) /\ IsFiniteSet(Undone)
        /\ Nodes(prog) \subseteq Nat
    BY LiveFinite DEF IInv, ProgressInv
  <1>2. Undone # {}
    BY <1>1, FS_EmptySet DEF IInv, TotalsExact
  <1>3. open # {} /\ open \subseteq Nat
    BY <1>1, <1>2 DEF IInv, ProgressInv
  <1> DEFINE least == Min(open)
  <1>4. least \in open /\ \A j \in open : least <= j
    <2> HIDE DEF open
    <2> QED BY <1>3, LeastOf
  <1>5. Operands(prog, least) \subseteq done
    <2>1. SUFFICES ASSUME NEW v \in Operands(prog, least), v \notin done
                   PROVE  FALSE
      OBVIOUS
    <2>2. v \in Nodes(prog) /\ v < least /\ least \in Nodes(prog)
      BY <1>1, <1>4, ProgramShape
    <2>3. v \in Undone
      BY <2>1, <2>2 DEF IInv, ProgressInv, Undone
    <2>4. EpochOf(prog, v) <= EpochOf(prog, least) /\ EpochOf(prog, v) >= activeEpoch
      BY <1>1, <2>2, <2>3, EpochShape DEF IInv, ProgressInv
    <2>5. EpochOf(prog, v) = activeEpoch
      BY <2>4, <1>1, <1>4, <2>2, EpochShape DEF IInv, ProgressInv
    <2> QED BY <2>2, <2>3, <2>5, <1>1, <1>4
  <1> QED BY <1>4, <1>5 DEF IInv, ReadyExact

(* For every set of programs select() never throws "cannot advance".         *)
THEOREM Advances == Spec => []NeverStuck
  BY NeverStuckFromIInv, IInvAlways, PTL

-----------------------------------------------------------------------------
(* The feedback barrier.  It is not inductive from the counters alone: that   *)
(* nothing overtakes a feedback of the active epoch is the choice of select() *)
(* and needs that a ready feedback is among the nodes that fit.              *)

LEMMA ReadyFeedback ==
  ASSUME IInv, NEW f \in Feedbacks(prog), f \in ready, NEW j \in live, j < f
  PROVE  j \in done
  <1>1. prog \in Programs /\ f \in Nodes(prog) /\ j \in Nodes(prog)
    BY LiveFinite DEF IInv, ProgressInv, Feedbacks
  <1>2. EpochOf(prog, j) < EpochOf(prog, f) /\ EpochOf(prog, f) = activeEpoch
    BY <1>1, EpochShape DEF IInv, ReadyExact
  <1>3. j \in Undone => EpochOf(prog, j) >= activeEpoch
    BY DEF IInv, ProgressInv
  <1>4. EpochOf(prog, j) \in Nat /\ activeEpoch \in Nat
    BY <1>1, EpochShape DEF IInv, ProgressInv
  <1> QED BY <1>2, <1>3, <1>4 DEF Undone

(* While an open feedback precedes it, no later node is selected.            *)
LEMMA NotOvertaken ==
  ASSUME IInv, NEW fits, fits \subseteq ready, ready \cap Feedbacks(prog) \subseteq fits,
         Complete(Selection(fits)), NEW f \in Feedbacks(prog) \cap live, f \notin done
  PROVE  ~(Selection(fits) > f)
  <1> DEFINE i == Selection(fits)
  <1> SUFFICES ASSUME i > f PROVE FALSE
    OBVIOUS
  <1>1. /\ prog \in Programs /\ i \in Nodes(prog) /\ f \in Nodes(prog)
        /\ EpochOf(prog, i) = activeEpoch /\ f \in Undone
        /\ Nodes(prog) \subseteq Nat /\ Undone \subseteq Nodes(prog)
    <2> HIDE DEF i
    <2> QED BY CompletingNode, LiveFinite DEF i, IInv, Undone, Feedbacks
  <1>2. \A v \in Undone : EpochOf(prog, v) \in Nat /\ EpochOf(prog, v) >= activeEpoch
    BY <1>1, EpochShape DEF IInv, ProgressInv
  <1>3. EpochOf(prog, f) = activeEpoch
    <2>1. EpochOf(prog, f) <= EpochOf(prog, i) /\ activeEpoch \in Nat
      BY <1>1, EpochShape DEF IInv, ProgressInv
    <2> QED BY <2>1, <1>1, <1>2
  <1>4. \A v \in Undone : v < f => FALSE
    <2>1. SUFFICES ASSUME NEW v \in Undone, v < f PROVE FALSE
      OBVIOUS
    <2>2. EpochOf(prog, v) < EpochOf(prog, f)
      BY <1>1, <2>1, EpochShape
    <2> QED BY <2>2, <1>1, <1>2, <1>3
  <1>5. f \in ready
    <2>1. Operands(prog, f) \subseteq done
      BY <1>1, <1>4, ProgramShape DEF IInv, ProgressInv, Undone
    <2> QED BY <2>1, <1>1, <1>3 DEF IInv, ReadyExact
  <1>6. Min(ready) = f
    <2>1. ready \subseteq Undone
      BY DEF IInv, ReadyExact
    <2>2. Min(ready) \in ready /\ Min(ready) <= f
      BY <1>1, <1>5, <2>1, LeastOf
    <2> QED BY <2>1, <2>2, <1>1, <1>4
  <1>7. Selection(fits) = f
    BY <1>5, <1>6 DEF Selection
  <1> QED BY <1>1, <1>7

LEMMA BarrierStep ==
  ASSUME IInv, IInv', FeedbackBarrier, Next
  PROVE  FeedbackBarrier'
  <1>1. PICK fits \in SUBSET ready : /\ ready \cap Feedbacks(prog) \subseteq fits
                                    /\ Complete(Selection(fits))
    BY DEF Next
  <1> DEFINE i == Selection(fits)
  <1>2. /\ done' = done \cup {i} /\ prog' = prog /\ live' = live /\ i \in ready
        /\ i \in Nodes(prog) /\ Nodes(prog) \subseteq Nat
    BY <1>1, CompletingNode, LiveFinite DEF Complete, IInv
  <1>3. SUFFICES ASSUME NEW f \in Feedbacks(prog) \cap live, NEW j \in live
                 PROVE  /\ f \in ready' \cup done' /\ j < f => j \in done'
                        /\ f \notin done' /\ j > f => j \notin done'
    BY <1>2 DEF FeedbackBarrier
  <1>4. ASSUME f \in ready' \cup done', j < f
        PROVE  j \in done'
    <2>1. CASE f \in done \cup ready
      BY <2>1, <1>2, <1>4 DEF FeedbackBarrier
    <2>2. CASE f \in ready'
      <3>1. EpochOf(prog, f) = activeEpoch'
        BY <2>2, <1>2 DEF IInv, ReadyExact
      <3>2. j \notin done' => EpochOf(prog, j) >= activeEpoch'
        BY <1>2 DEF IInv, ProgressInv, Undone
      <3>3. /\ prog \in Programs /\ j \in Nodes(prog)
            /\ EpochOf(prog, j) < EpochOf(prog, f)
        BY <1>4, LiveFinite, EpochShape DEF IInv, ProgressInv
      <3>4. EpochOf(prog, j) \in Nat /\ activeEpoch' \in Nat
        BY <3>3, EpochShape DEF IInv, ProgressInv
      <3> QED BY <3>1, <3>2, <3>3, <3>4
    <2> QED BY <2>1, <2>2, <1>2, <1>4
  <1>5. ASSUME f \notin done', j > f
        PROVE  j \notin done'
    <2>1. f \notin done /\ j \notin done
      BY <1>2, <1>5 DEF FeedbackBarrier
    <2>2. ~(i > f)
      <3> HIDE DEF i
      <3> QED BY <1>1, <2>1, NotOvertaken DEF i
    <2> QED BY <1>2, <1>5, <2>1, <2>2
  <1> QED BY <1>4, <1>5

(* For every set of programs a feedback starts after all before it, and        *)
(* nothing after it is done first, whatever nodes the evaluator lets fit.     *)
THEOREM BarrierHolds == Spec => []FeedbackBarrier
  <1>1. Init => FeedbackBarrier
    <2>1. SUFFICES ASSUME Init PROVE FeedbackBarrier
      OBVIOUS
    <2>2. IInv
      BY <2>1, InitIInv
    <2>3. done \cap live = {}
      BY <2>1 DEF Init, InitSchedule
    <2> QED BY <2>2, <2>3, ReadyFeedback DEF FeedbackBarrier
  <1>2. IInv /\ IInv' /\ FeedbackBarrier /\ [Next]_schedule => FeedbackBarrier'
    <2>1. FeedbackBarrier /\ UNCHANGED schedule => FeedbackBarrier'
      BY DEF FeedbackBarrier, schedule, counters
    <2> QED BY <2>1, BarrierStep
  <1> QED BY <1>1, <1>2, IInvAlways, PTL DEF Spec

-----------------------------------------------------------------------------
(* PackedSources: keys of public vectors *)

LEMMA GreatestOf ==
  ASSUME NEW S, S \subseteq Int, S # {}, NEW b \in Int, \A x \in S : x <= b
  PROVE  Max(S) \in S /\ \A y \in S : Max(S) >= y
  <1> DEFINE T == {b - x : x \in S}
  <1>0. \A x \in S : b - x \in Nat
    OBVIOUS
  <1>1. T \subseteq Nat /\ T # {}
    BY <1>0
  <1> DEFINE m == Min(T)
  <1>2. m \in T /\ \A y \in T : m <= y
    <2> HIDE DEF T
    <2> QED BY <1>1, LeastOf
  <1>3. PICK x \in S : m = b - x
    BY <1>2
  <1>4. \A y \in S : x >= y
    <2> HIDE DEF m
    <2>1. SUFFICES ASSUME NEW y \in S PROVE x >= y
      OBVIOUS
    <2>2. b - y \in T
      OBVIOUS
    <2>3. m <= b - y
      BY <1>2, <2>2
    <2> QED BY <1>3, <2>3
  <1> QED BY <1>4 DEF Max

(* The padded vector can be read off the key: the padding a key loses is the *)
(* padding encrypt() adds.                                                 *)
LEMMA PaddedByKey ==
  ASSUME NEW v \in Seq(Coefficients)
  PROVE  Padded(v) = [k \in 1 .. Slots |-> IF k \in DOMAIN Key(v) THEN Key(v)[k] ELSE "zero"]
  <1> DEFINE S == {0} \cup {k \in DOMAIN v : v[k] # "zero"}
             n == Max(S)
  <1>1. Len(v) \in Nat /\ DOMAIN v = 1 .. Len(v)
    OBVIOUS
  <1>2. S \subseteq 0 .. Len(v) /\ S # {}
    BY <1>1
  <1>3. n \in 0 .. Len(v) /\ \A k \in S : n >= k
    <2> HIDE DEF n, S
    <2>1. S \subseteq Int /\ Len(v) \in Int /\ \A k \in S : k <= Len(v)
      BY <1>1, <1>2
    <2>2. Max(S) \in S /\ \A k \in S : Max(S) >= k
      BY <1>2, <2>1, GreatestOf
    <2> QED BY <1>2, <2>2 DEF n
  <1>4. \A k \in DOMAIN v : v[k] # "zero" => k <= n
    BY <1>1, <1>3
  <1>5. Key(v) = SubSeq(v, 1, n)
    BY DEF Key
  <1> HIDE DEF n, S
  <1>6. DOMAIN Key(v) = 1 .. n /\ \A k \in 1 .. n : Key(v)[k] = v[k]
    BY <1>1, <1>3, <1>5
  <1>7. \A k \in 1 .. Slots :
          (IF k \in DOMAIN v THEN v[k] ELSE "zero")
            = (IF k \in DOMAIN Key(v) THEN Key(v)[k] ELSE "zero")
    BY <1>1, <1>3, <1>4, <1>6, SlotsAssumption
  <1> QED BY <1>7 DEF Padded

LEMMA SameKeySamePadding ==
  ASSUME NEW v \in Seq(Coefficients), NEW w \in Seq(Coefficients), Key(v) = Key(w)
  PROVE  Padded(v) = Padded(w)
  BY PaddedByKey

-----------------------------------------------------------------------------
(* Public ciphertexts *)

publicNodes == Publics(prog, data, live)
Left(key) == GroupOf(data, publicNodes, key) \ done
Came(key) == GroupOf(data, publicNodes, key) \cap done # {}

PublicInv ==
  /\ data \in SourceData(prog)
  /\ DOMAIN uses = Keys(data, publicNodes) /\ DOMAIN encryptions = Keys(data, publicNodes)
  /\ SeedsExact /\ PublicRight
  /\ \A key \in DOMAIN seeds : \A i \in publicNodes :
       Key(data[i]) = key => seeds[key] = Padded(data[i])

LEMMA SeedsSplit ==
  SeedsExact <=>
    /\ DOMAIN given = publicNodes \cap done
    /\ \A key \in Keys(data, publicNodes) :
         /\ uses[key] = Cardinality(Left(key))
         /\ encryptions[key] = IF Came(key) THEN 1 ELSE 0
    /\ DOMAIN seeds = {key \in Keys(data, publicNodes) : Came(key) /\ Cardinality(Left(key)) > 0}
  BY DEF SeedsExact, publicNodes, Left, Came

LEMMA PublicShape ==
  ASSUME IInv, data \in SourceData(prog)
  PROVE  /\ publicNodes \subseteq live /\ publicNodes \subseteq Nodes(prog)
         /\ \A i \in publicNodes : data[i] \in Seq(Coefficients) /\ Key(data[i]) \in Keys(data, publicNodes)
         /\ \A key : IsFiniteSet(Left(key)) /\ Cardinality(Left(key)) \in Nat
  <1>1. live \subseteq Nodes(prog) /\ IsFiniteSet(live) /\ prog \in Programs
    BY LiveFinite DEF IInv, ProgressInv
  <1>2. publicNodes \subseteq live
    BY DEF publicNodes, Publics
  <1>3. \A i \in publicNodes : data[i] \in Seq(Coefficients)
    BY <1>1, <1>2, SourceDataAssumption DEF publicNodes, Publics
  <1>4. \A i \in publicNodes : Key(data[i]) \in Keys(data, publicNodes)
    BY DEF Keys
  <1>5. \A key : Left(key) \subseteq live
    BY <1>2 DEF Left, GroupOf
  <1> QED BY <1>1, <1>2, <1>3, <1>4, <1>5, FS_Subset, FS_CardinalityType

LEMMA InitPublic == SourcesInit => PublicInv
  <1> SUFFICES ASSUME SourcesInit
               PROVE  PublicInv
    OBVIOUS
  <1>1. PICK p \in Programs, lim \in LiveLimits :
          /\ InitSchedule(p, lim)
          /\ \E assigned \in SourceData(p) :
               /\ data = assigned
               /\ uses = [key \in Keys(assigned, Publics(p, assigned, live)) |->
                            Cardinality(GroupOf(assigned, Publics(p, assigned, live), key))]
               /\ encryptions = [key \in Keys(assigned, Publics(p, assigned, live)) |-> 0]
    BY DEF SourcesInit
  <1>2. prog = p /\ live = LiveNodes(p) /\ done = Nodes(p) \ live /\ data \in SourceData(prog)
    BY <1>1 DEF InitSchedule
  <1>3. /\ uses = [key \in Keys(data, publicNodes) |-> Cardinality(GroupOf(data, publicNodes, key))]
        /\ encryptions = [key \in Keys(data, publicNodes) |-> 0]
        /\ seeds = <<>> /\ given = <<>>
    BY <1>1, <1>2 DEF SourcesInit, publicNodes
  <1>4. publicNodes \cap done = {}
    BY <1>2 DEF publicNodes, Publics
  <1>5. \A key : Left(key) = GroupOf(data, publicNodes, key) /\ ~Came(key)
    BY <1>4 DEF Left, Came, GroupOf
  <1>6. DOMAIN seeds = {} /\ DOMAIN given = {}
    BY <1>3
  <1> QED BY <1>2, <1>3, <1>4, <1>5, <1>6, SeedsSplit DEF PublicInv, PublicRight

(* One node is done: only a public node changes what is left of a group. *)
LEMMA LeftAfter ==
  ASSUME IInv, data \in SourceData(prog), data' = data, NEW i, Complete(i)
  PROVE  /\ publicNodes' = publicNodes /\ i \notin done
         /\ \A key : Left(key)' = Left(key) \ {i}
         /\ \A key : i \notin GroupOf(data, publicNodes, key) =>
              Left(key)' = Left(key) /\ (Came(key)' <=> Came(key))
         /\ \A key : i \in GroupOf(data, publicNodes, key) =>
              Cardinality(Left(key)') = Cardinality(Left(key)) - 1 /\ Came(key)'
  <1>1. /\ prog' = prog /\ live' = live /\ done' = done \cup {i} /\ i \notin done
    BY CompletingNode
  <1>2. publicNodes' = publicNodes
    BY <1>1 DEF publicNodes
  <1>3. \A key : Left(key)' = Left(key) \ {i}
    BY <1>1, <1>2 DEF Left
  <1>4. \A key : i \notin GroupOf(data, publicNodes, key) =>
          Left(key)' = Left(key) /\ (Came(key)' <=> Came(key))
    BY <1>1, <1>2 DEF Left, Came
  <1>5. SUFFICES ASSUME NEW key, i \in GroupOf(data, publicNodes, key)
                 PROVE  Cardinality(Left(key)') = Cardinality(Left(key)) - 1 /\ Came(key)'
    BY <1>1, <1>2, <1>3, <1>4
  <1>6. i \in Left(key) /\ IsFiniteSet(Left(key))
    BY <1>1, <1>5, PublicShape DEF Left
  <1>7. Cardinality(Left(key) \ {i}) = Cardinality(Left(key)) - 1
    BY <1>6, FS_RemoveElement
  <1>8. Came(key)'
    BY <1>1, <1>2, <1>5 DEF Came
  <1> QED BY <1>3, <1>7, <1>8

LEMMA OtherStepPublic ==
  ASSUME IInv, PublicInv, NEW i, Complete(i), ~IsPublic(i),
         UNCHANGED <<data, uses, seeds, encryptions, given>>
  PROVE  PublicInv'
  <1>1. /\ data \in SourceData(prog) /\ prog' = prog
    BY CompletingNode DEF PublicInv
  <1>2. publicNodes' = publicNodes /\ \A key : i \notin GroupOf(data, publicNodes, key)
    BY <1>1, LeftAfter DEF GroupOf, IsPublic, publicNodes
  <1>3. \A key : Left(key)' = Left(key) /\ (Came(key)' <=> Came(key))
    BY <1>1, <1>2, LeftAfter
  <1>4. publicNodes' \cap done' = publicNodes \cap done
    BY <1>2, CompletingNode DEF IsPublic, publicNodes
  <1>5. SeedsExact'
    <2>1. SeedsExact
      BY DEF PublicInv
    <2>2. /\ DOMAIN given' = publicNodes' \cap done'
          /\ \A key \in Keys(data', publicNodes') :
               /\ uses'[key] = Cardinality(Left(key)')
               /\ encryptions'[key] = IF Came(key)' THEN 1 ELSE 0
          /\ DOMAIN seeds' = {key \in Keys(data', publicNodes') :
                                Came(key)' /\ Cardinality(Left(key)') > 0}
      BY <2>1, <1>2, <1>3, <1>4, SeedsSplit
    <2> QED BY <2>2 DEF SeedsExact, publicNodes, Left, Came
  <1>6. PublicRight'
    BY DEF PublicInv, PublicRight
  <1> QED BY <1>1, <1>2, <1>5, <1>6 DEF PublicInv

LEMMA PublicStepPublic ==
  ASSUME IInv, PublicInv, NEW i, Complete(i), IsPublic(i), GetPublic(i), data' = data,
         NEW key, key = Key(data[i])
  PROVE  PublicInv'
  <1> DEFINE seed == IF key \in DOMAIN seeds THEN seeds[key] ELSE Padded(data[i])
             keys == Keys(data, publicNodes)
  <1>1. data \in SourceData(prog) /\ prog' = prog /\ done' = done \cup {i}
    BY CompletingNode DEF PublicInv
  <1>2. i \in publicNodes /\ key \in keys /\ publicNodes' = publicNodes /\ i \notin done
    BY <1>1, LeftAfter, PublicShape DEF IsPublic, publicNodes
  <1>3. /\ uses' = [uses EXCEPT ![key] = @ - 1]
        /\ encryptions' = IF key \in DOMAIN seeds THEN encryptions
                          ELSE [encryptions EXCEPT ![key] = @ + 1]
        /\ seeds' = SeedsAfter(key, seed)
        /\ given' = With(given, i, seed)
    BY DEF GetPublic
  <1>4. /\ DOMAIN given = publicNodes \cap done
        /\ \A k \in keys : /\ uses[k] = Cardinality(Left(k))
                           /\ encryptions[k] = IF Came(k) THEN 1 ELSE 0
        /\ DOMAIN seeds = {k \in keys : Came(k) /\ Cardinality(Left(k)) > 0}
        /\ DOMAIN uses = keys /\ DOMAIN encryptions = keys
    BY SeedsSplit DEF PublicInv
  <1>5. /\ i \in GroupOf(data, publicNodes, key)
        /\ \A k : k # key => i \notin GroupOf(data, publicNodes, k)
    BY <1>2 DEF GroupOf
  <1>6. /\ \A k : k # key => Left(k)' = Left(k) /\ (Came(k)' <=> Came(k))
        /\ Cardinality(Left(key)') = Cardinality(Left(key)) - 1 /\ Came(key)'
    BY <1>1, <1>5, LeftAfter
  <1>7. \A k : Cardinality(Left(k)) \in Nat
    BY <1>1, PublicShape
  <1>8. i \in Left(key) /\ IsFiniteSet(Left(key)) /\ Cardinality(Left(key)) > 0
    <2>1. i \in Left(key) /\ IsFiniteSet(Left(key))
      BY <1>1, <1>2, <1>5, PublicShape DEF Left
    <2> QED BY <2>1, <1>7, EmptyIffZero
  <1>9. seed = Padded(data[i])
    BY <1>2 DEF PublicInv
  <1>10. publicNodes' \cap done' = (publicNodes \cap done) \cup {i}
    BY <1>1, <1>2
  <1>11. DOMAIN given' = publicNodes' \cap done'
    BY <1>3, <1>4, <1>10 DEF With
  <1>12. DOMAIN seeds' = IF Cardinality(Left(key)) > 1 THEN DOMAIN seeds \cup {key}
                         ELSE DOMAIN seeds \ {key}
    BY <1>2, <1>3, <1>4 DEF SeedsAfter, With
  <1> HIDE DEF seed, keys
  <1>13. \A k \in keys : /\ uses'[k] = Cardinality(Left(k)')
                         /\ encryptions'[k] = IF Came(k)' THEN 1 ELSE 0
    <2>1. SUFFICES ASSUME NEW k \in keys
                   PROVE  /\ uses'[k] = Cardinality(Left(k)')
                          /\ encryptions'[k] = IF Came(k)' THEN 1 ELSE 0
      OBVIOUS
    <2>2. CASE k # key
      BY <2>2, <1>3, <1>4, <1>6
    <2>3. CASE k = key
      <3>1. uses'[key] = Cardinality(Left(key)')
        BY <1>2, <1>3, <1>4, <1>6
      <3>2. encryptions'[key] = 1
        BY <1>2, <1>3, <1>4, <1>8
      <3> QED BY <3>1, <3>2, <2>3, <1>6
    <2> QED BY <2>2, <2>3
  <1>14. DOMAIN seeds' = {k \in keys : Came(k)' /\ Cardinality(Left(k)') > 0}
    <2>1. Cardinality(Left(key)') > 0 <=> Cardinality(Left(key)) > 1
      BY <1>6, <1>7
    <2>2. \A k \in keys : k # key =>
            (k \in DOMAIN seeds <=> Came(k)' /\ Cardinality(Left(k)') > 0)
      BY <1>4, <1>6
    <2>3. key \in keys /\ (key \in DOMAIN seeds' <=> Cardinality(Left(key)) > 1)
      BY <1>2, <1>12
    <2>4. \A k : k # key => (k \in DOMAIN seeds' <=> k \in DOMAIN seeds)
      BY <1>12
    <2>5. \A k \in DOMAIN seeds : k \in keys
      BY <1>4
    <2> QED BY <2>1, <2>2, <2>3, <2>4, <2>5, <1>6
  <1>15. SeedsExact'
    <2>1. keys = Keys(data', publicNodes')
      BY <1>2 DEF keys
    <2> QED BY <2>1, <1>11, <1>13, <1>14 DEF SeedsExact, publicNodes, Left, Came
  <1>16. PublicRight'
    <2>1. SUFFICES ASSUME NEW j \in DOMAIN given' PROVE given'[j] = Padded(data'[j])
      BY DEF PublicRight
    <2>2. CASE j = i
      BY <2>2, <1>3, <1>9 DEF With
    <2>3. CASE j # i
      BY <2>1, <2>3, <1>3 DEF With, PublicInv, PublicRight
    <2> QED BY <2>2, <2>3
  <1>17. \A k \in DOMAIN seeds' : \A j \in publicNodes' :
           Key(data'[j]) = k => seeds'[k] = Padded(data'[j])
    <2>1. SUFFICES ASSUME NEW k \in DOMAIN seeds', NEW j \in publicNodes, Key(data[j]) = k
                   PROVE  seeds'[k] = Padded(data[j])
      BY <1>2
    <2>2. CASE k # key
      BY <2>1, <2>2, <1>3, <1>12 DEF SeedsAfter, With, PublicInv
    <2>3. CASE k = key
      <3>1. seeds'[key] = seed
        BY <2>1, <2>3, <1>3, <1>4, <1>12, <1>2 DEF SeedsAfter, With
      <3>2. Padded(data[j]) = Padded(data[i])
        BY <2>1, <2>3, <1>1, <1>2, PublicShape, SameKeySamePadding
      <3> QED BY <3>1, <3>2, <1>9, <2>3
    <2> QED BY <2>2, <2>3
  <1>18. DOMAIN uses' = Keys(data', publicNodes') /\ DOMAIN encryptions' = Keys(data', publicNodes')
    BY <1>2, <1>3, <1>4 DEF keys
  <1> QED BY <1>1, <1>15, <1>16, <1>17, <1>18 DEF PublicInv

LEMMA SourcesStepIsScheduleStep ==
  [SourcesNext]_<<schedule, sourceVars>> => [Next]_schedule
  BY DEF SourcesNext, Next

LEMMA SourcesImplementSchedule == SourcesSpec => Spec
  <1>1. SourcesInit => Init
    BY DEF SourcesInit, Init
  <1> QED BY <1>1, SourcesStepIsScheduleStep, PTL DEF SourcesSpec, Spec

(* What the reuse of public ciphertexts keeps from node to node: counted      *)
(* uses, and seeds that hold the vector of all of their group.              *)
THEOREM PublicInvAlways == SourcesSpec => []PublicInv
  <1>1. IInv /\ PublicInv /\ [SourcesNext]_<<schedule, sourceVars>> => PublicInv'
    <2> SUFFICES ASSUME IInv, PublicInv, [SourcesNext]_<<schedule, sourceVars>>
                 PROVE  PublicInv'
      OBVIOUS
    <2>1. CASE SourcesNext
      <3>1. PICK i : Source(i) /\ Complete(i)
        BY <2>1 DEF SourcesNext
      <3>2. CASE IsPublic(i)
        BY <3>1, <3>2, PublicStepPublic DEF Source
      <3>3. CASE ~IsPublic(i)
        <4>1. UNCHANGED <<data, uses, seeds, encryptions, given>>
          BY <3>1, <3>3 DEF Source, sourceVars
        <4> QED BY <4>1, <3>1, <3>3, OtherStepPublic
      <3> QED BY <3>2, <3>3
    <2>2. CASE UNCHANGED <<schedule, sourceVars>>
      <3>1. /\ prog' = prog /\ live' = live /\ done' = done
            /\ UNCHANGED <<data, uses, seeds, encryptions, given>>
        BY <2>2 DEF schedule, counters, sourceVars
      <3> QED BY <3>1 DEF PublicInv, SeedsExact, PublicRight, publicNodes
    <2> QED BY <2>1, <2>2
  <1> QED BY InitPublic, <1>1, SourcesImplementSchedule, IInvAlways, PTL DEF SourcesSpec

(* Every public node gets an encryption of its own vector. *)
THEOREM PublicCorrect == SourcesSpec => []PublicRight
  <1>1. PublicInv => PublicRight
    BY DEF PublicInv
  <1> QED BY <1>1, PublicInvAlways, PTL

(* Uses are counted, seeds kept and vectors encrypted exactly as needed. *)
THEOREM SeedsCorrect == SourcesSpec => []SeedsExact
  <1>1. PublicInv => SeedsExact
    BY DEF PublicInv
  <1> QED BY <1>1, PublicInvAlways, PTL

-----------------------------------------------------------------------------
(* Client calls *)

Called == Feedbacks(prog) \cap done
OwnReference(p, f) ==
  LET hidden == p.parents[f][1]
  IN  IF hidden \in p.outputs THEN hidden ELSE NoReference

(* No two feedbacks open the same epoch. *)
LEMMA EpochOfFeedback ==
  ASSUME NEW p \in Programs, NEW f \in Feedbacks(p), NEW g \in Feedbacks(p),
         EpochOf(p, f) = EpochOf(p, g)
  PROVE  f = g
  <1>1. f \in Nodes(p) /\ g \in Nodes(p) /\ f \in Nat /\ g \in Nat
    BY ProgramShape DEF Feedbacks
  <1>2. EpochOf(p, f) \in Nat
    BY <1>1, EpochShape
  <1> QED BY <1>1, <1>2, EpochShape

(* A feedback about to run opens the epoch after those already called. *)
LEMMA NextCall ==
  ASSUME IInv, FeedbackBarrier, Feedbacks(prog) \subseteq live,
         NEW f \in Feedbacks(prog), f \in ready
  PROVE  /\ Cardinality(Called) \in Nat
         /\ EpochOf(prog, f) = Cardinality(Called) + 1
         /\ EpochOf(prog, f) \in 1 .. Cardinality(Feedbacks(prog))
         /\ IsFiniteSet(Called) /\ f \notin done
  <1>1. prog \in Programs /\ f \notin done
    BY DEF IInv, ProgressInv, ReadyExact, Undone
  <1>2. IsFiniteSet(Feedbacks(prog)) /\ Feedbacks(prog) \subseteq Nat
    BY <1>1, ProgramShape, FS_Subset DEF Feedbacks
  <1>3. \A g \in Feedbacks(prog) : g \in done <=> g < f
    <2>1. \A g \in Feedbacks(prog) : (g < f => g \in done) /\ (g > f => g \notin done)
      BY <1>1 DEF FeedbackBarrier
    <2> QED BY <2>1, <1>1, <1>2
  <1>4. {h \in Feedbacks(prog) : h <= f} = Called \cup {f}
    BY <1>2, <1>3 DEF Called
  <1>5. IsFiniteSet(Called) /\ Cardinality(Called) \in Nat
    BY <1>2, FS_Subset, FS_CardinalityType DEF Called
  <1>6. Cardinality(Called \cup {f}) = Cardinality(Called) + 1
    BY <1>1, <1>5, FS_AddElement DEF Called
  <1>7. EpochOf(prog, f) = Cardinality(Called) + 1
    BY <1>4, <1>6 DEF EpochOf
  <1>8. Cardinality(Called \cup {f}) <= Cardinality(Feedbacks(prog))
        /\ Cardinality(Feedbacks(prog)) \in Nat
    BY <1>2, FS_Subset, FS_CardinalityType DEF Called
  <1> QED BY <1>1, <1>5, <1>6, <1>7, <1>8

CallsInv ==
  Feedbacks(prog) \subseteq live =>
    /\ checked \in Seq(Feedbacks(prog) \X (Int \cup Nodes(prog)))
    /\ Len(checked) = Cardinality(Called)
    /\ \A k \in DOMAIN checked : checked[k][2] = OwnReference(prog, checked[k][1])

LEMMA CallStep ==
  ASSUME IInv, FeedbackBarrier, CallsInv, Feedbacks(prog) \subseteq live,
         NEW f \in Feedbacks(prog), Complete(f), CallClient(f)
  PROVE  CallsInv'
  <1>1. f \in ready /\ prog \in Programs /\ done' = done \cup {f}
        /\ prog' = prog /\ live' = live
    BY CompletingNode DEF Complete
  <1>2. /\ Cardinality(Called) \in Nat
        /\ EpochOf(prog, f) = Cardinality(Called) + 1
        /\ EpochOf(prog, f) \in 1 .. Cardinality(Feedbacks(prog))
        /\ IsFiniteSet(Called) /\ f \notin done
    BY <1>1, NextCall
  <1>3. /\ checked \in Seq(Feedbacks(prog) \X (Int \cup Nodes(prog)))
        /\ Len(checked) = Cardinality(Called)
        /\ \A k \in DOMAIN checked : checked[k][2] = OwnReference(prog, checked[k][1])
    BY DEF CallsInv
  <1> DEFINE n == Cardinality(Called) + 1
             g == CHOOSE h \in Feedbacks(prog) : EpochOf(prog, h) = n
  <1>4. g = f
    <2>1. g \in Feedbacks(prog) /\ EpochOf(prog, g) = n
      BY <1>2
    <2> HIDE DEF g
    <2> QED BY <2>1, <1>1, <1>2, EpochOfFeedback
  <1>5. FeedbackReferences[n] = OwnReference(prog, f)
    <2>1. n \in 1 .. Cardinality(Feedbacks(prog))
      BY <1>2
    <2>2. FeedbackReferences[n] = OwnReference(prog, g)
      BY <2>1 DEF FeedbackReferences, OwnReference
    <2> QED BY <2>2, <1>4
  <1>6. OwnReference(prog, f) \in Int \cup Nodes(prog)
    BY <1>1, ProgramShape DEF OwnReference, NoReference
  <1>7. checked' = Append(checked, <<f, OwnReference(prog, f)>>)
    BY <1>3, <1>5 DEF CallClient
  <1>8. Called' = Called \cup {f} /\ f \notin Called
    BY <1>1, <1>2 DEF Called
  <1>9. Cardinality(Called') = Cardinality(Called) + 1
    BY <1>2, <1>8, FS_AddElement
  <1>10. /\ checked' \in Seq(Feedbacks(prog) \X (Int \cup Nodes(prog)))
         /\ Len(checked') = Len(checked) + 1
         /\ \A k \in DOMAIN checked' :
              checked'[k] = IF k = Len(checked) + 1 THEN <<f, OwnReference(prog, f)>> ELSE checked[k]
         /\ \A k \in DOMAIN checked' : k # Len(checked) + 1 => k \in DOMAIN checked
    BY <1>3, <1>6, <1>7
  <1>11. \A k \in DOMAIN checked' : checked'[k][2] = OwnReference(prog, checked'[k][1])
    BY <1>3, <1>10
  <1>12. /\ checked' \in Seq(Feedbacks(prog') \X (Int \cup Nodes(prog')))
         /\ Len(checked') = Cardinality(Called')
         /\ \A k \in DOMAIN checked' : checked'[k][2] = OwnReference(prog', checked'[k][1])
    BY <1>1, <1>3, <1>9, <1>10, <1>11
  <1> HIDE DEF n, g
  <1> QED BY <1>12 DEF CallsInv

LEMMA OtherStepCalls ==
  ASSUME IInv, CallsInv, NEW i, Complete(i), i \notin Feedbacks(prog), checked' = checked
  PROVE  CallsInv'
  <1>1. prog' = prog /\ live' = live /\ done' = done \cup {i}
    BY CompletingNode
  <1>2. Called' = Called
    BY <1>1 DEF Called
  <1> QED BY <1>1, <1>2 DEF CallsInv, OwnReference

(* The calls so far, one per feedback that is done, each with its reference. *)
THEOREM CallsInvAlways == SourcesSpec => []CallsInv
  <1>1. SourcesInit => CallsInv
    <2>1. SUFFICES ASSUME SourcesInit PROVE CallsInv
      OBVIOUS
    <2>2. checked = <<>> /\ done = Nodes(prog) \ live
      BY <2>1 DEF SourcesInit, InitSchedule
    <2>3. Feedbacks(prog) \subseteq live => Called = {}
      BY <2>2 DEF Called
    <2> QED BY <2>2, <2>3, FS_EmptySet DEF CallsInv
  <1>2. IInv /\ FeedbackBarrier /\ CallsInv /\ [SourcesNext]_<<schedule, sourceVars>> => CallsInv'
    <2> SUFFICES ASSUME IInv, FeedbackBarrier, CallsInv,
                        [SourcesNext]_<<schedule, sourceVars>>
                 PROVE  CallsInv'
      OBVIOUS
    <2>1. CASE SourcesNext
      <3>1. PICK i : Source(i) /\ Complete(i)
        BY <2>1 DEF SourcesNext
      <3>2. CASE i \in Feedbacks(prog)
        <4>1. ~IsPublic(i)
          BY <3>2 DEF IsPublic, Publics, Feedbacks
        <4>2. CallClient(i)
          BY <3>1, <3>2, <4>1 DEF Source
        <4>3. prog' = prog /\ live' = live
          BY <3>1, CompletingNode
        <4> QED BY <3>1, <3>2, <4>2, <4>3, CallStep DEF CallsInv
      <3>3. CASE i \notin Feedbacks(prog)
        <4>1. checked' = checked
          BY <3>1, <3>3 DEF Source, sourceVars
        <4> QED BY <3>1, <3>3, <4>1, OtherStepCalls
      <3> QED BY <3>2, <3>3
    <2>2. CASE UNCHANGED <<schedule, sourceVars>>
      BY <2>2 DEF CallsInv, Called, OwnReference, schedule, counters, sourceVars
    <2> QED BY <2>1, <2>2
  <1> QED BY <1>1, <1>2, SourcesImplementSchedule, IInvAlways, BarrierHolds, PTL DEF SourcesSpec

(* With no dead feedback, every client call meets its own reference. *)
THEOREM ReferenceCorrect == SourcesSpec => []ReferenceIsOwn
  <1>1. CallsInv => ReferenceIsOwn
    BY DEF CallsInv, ReferenceIsOwn, OwnReference
  <1> QED BY <1>1, CallsInvAlways, PTL
=============================================================================
