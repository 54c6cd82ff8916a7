------------------------------ MODULE Stage1Proofs ------------------------------
(***************************************************************************)
(* Proofs about a Stage 1 run, for any dimensions, payloads, options and    *)
(* number of faults: whatever the circuit rotates by has a key, or its      *)
(* signed digits have, and is an index that the frequencies count; a        *)
(* refresh divides by a bound that is calibrated for what it refreshes; a    *)
(* product multiplies by the plaintexts of its serial loop, whoever encoded  *)
(* them, and none but a table's is encoded deeper than what it meets; and    *)
(* the verdict is right when the evaluation is.                            *)
(*                                                                         *)
(* What computed a ciphertext is its log, and the kernels are followed by   *)
(* what they add to it.  The slots never matter here.                      *)
(***************************************************************************)
EXTENDS Stage1Properties, SequenceTheorems, FiniteSetTheorems, WellFoundedInduction, TLAPS

-----------------------------------------------------------------------------
(* Minima, maxima, and induction over a set of naturals *)

LEMMA LeastOf ==
  ASSUME NEW S, S \subseteq Nat, S # {}
  PROVE  \E x \in S : \A y \in S : x <= y
  <1> DEFINE Below == {0 .. x : x \in S}
  <1>1. Below \subseteq FiniteSubsetsOf(Nat) /\ Below # {}
    <2>1. \A x \in S : 0 .. x \in SUBSET Nat /\ IsFiniteSet(0 .. x)
      BY FS_Interval
    <2> QED BY <2>1 DEF FiniteSubsetsOf
  <1>2. IsWellFoundedOn(StrictSubsetOrdering(Nat), FiniteSubsetsOf(Nat))
    BY FS_StrictSubsetOrderingWellFounded
  <1>3. \E b \in Below : \A a \in Below : ~(<<a, b>> \in StrictSubsetOrdering(Nat))
    <2> HIDE DEF Below
    <2> QED BY <1>1, <1>2, WFMin, Zenon
  <1>4. PICK x \in S : \A y \in S : ~(<<0 .. y, 0 .. x>> \in StrictSubsetOrdering(Nat))
    BY <1>3
  <1>5. \A y \in S : x <= y
    <2>1. SUFFICES ASSUME NEW y \in S, y < x PROVE FALSE
      OBVIOUS
    <2>2. 0 .. y \subseteq 0 .. x /\ 0 .. y \in SUBSET Nat /\ 0 .. x \in SUBSET Nat
      BY <2>1
    <2>3. 0 .. y # 0 .. x
      <3>1. x \in 0 .. x /\ x \notin 0 .. y
        BY <2>1
      <3> QED BY <3>1
    <2>4. <<0 .. y, 0 .. x>> \in StrictSubsetOrdering(Nat)
      BY <2>2, <2>3 DEF StrictSubsetOrdering
    <2> QED BY <1>4, <2>4
  <1> QED BY <1>5

LEMMA GreatestOf ==
  ASSUME NEW S, S \subseteq Int, S # {}, NEW b \in Int, \A x \in S : x <= b
  PROVE  \E x \in S : \A y \in S : y <= x
  <1> DEFINE T == {b - x : x \in S}
  <1>1. T \subseteq Nat /\ T # {}
    <2>1. \A x \in S : b - x \in Nat
      OBVIOUS
    <2> QED BY <2>1
  <1>2. PICK m \in T : \A y \in T : m <= y
    <2> HIDE DEF T
    <2> QED BY <1>1, LeastOf
  <1>3. PICK x \in S : m = b - x
    BY <1>2
  <1>4. ASSUME NEW y \in S PROVE y <= x
    <2>1. b - y \in T /\ b - x <= b - y
      BY <1>2, <1>3
    <2> QED BY <2>1
  <1> QED BY <1>4

(* Induction, on a set instead of a predicate. *)
LEMMA SetInduction ==
  ASSUME NEW S, 0 \in S, \A n \in Nat : n \in S => n + 1 \in S
  PROVE  \A n \in Nat : n \in S
  <1>1. SUFFICES ASSUME Nat \ S # {} PROVE FALSE
    OBVIOUS
  <1>2. PICK m \in Nat \ S : \A y \in Nat \ S : m <= y
    <2> DEFINE T == Nat \ S
    <2>1. T \subseteq Nat /\ T # {}
      BY <1>1
    <2> HIDE DEF T
    <2>2. \E x \in T : \A y \in T : x <= y
      BY <2>1, LeastOf
    <2> QED BY <2>2 DEF T
  <1>3. m # 0 /\ m - 1 \in Nat /\ ~(m <= m - 1)
    BY <1>2
  <1>4. m - 1 \in S
    BY <1>2, <1>3
  <1>5. (m - 1) + 1 = m
    BY <1>2
  <1> QED BY <1>2, <1>3, <1>4, <1>5

-----------------------------------------------------------------------------
(* Powers of two *)

(* There is a function of that recursion: one on every initial segment.      *)
LEMMA PowersExist ==
  \E f \in [Nat -> Nat] : f[0] = 1 /\ \A k \in Nat : f[k + 1] = 2 * f[k]
  <1> DEFINE Upto(n, g) == /\ g \in [0 .. n -> Nat] /\ g[0] = 1
                           /\ \A k \in Nat : k < n => g[k + 1] = 2 * g[k]
             S == {n \in Nat : \E g \in [0 .. n -> Nat] : Upto(n, g)}
  <1>1. 0 \in S
    <2>1. Upto(0, [k \in 0 .. 0 |-> 1])
      OBVIOUS
    <2> QED BY <2>1
  <1>2. ASSUME NEW n \in Nat, n \in S PROVE n + 1 \in S
    <2>1. PICK g \in [0 .. n -> Nat] : Upto(n, g)
      BY <1>2
    <2> DEFINE h == [k \in 0 .. n + 1 |-> IF k = n + 1 THEN 2 * g[n] ELSE g[k]]
    <2>2. n \in 0 .. n /\ g[n] \in Nat
      OBVIOUS
    <2>3. h \in [0 .. n + 1 -> Nat]
      <3>1. \A k \in 0 .. n + 1 : k # n + 1 => k \in 0 .. n
        OBVIOUS
      <3> QED BY <2>2, <3>1
    <2>4. h[0] = 1
      BY <2>1
    <2>5. \A k \in Nat : k < n + 1 => h[k + 1] = 2 * h[k]
      <3>1. SUFFICES ASSUME NEW k \in Nat, k < n + 1 PROVE h[k + 1] = 2 * h[k]
        OBVIOUS
      <3>2. CASE k = n
        BY <3>2
      <3>3. CASE k # n
        <4>1. k < n /\ k + 1 \in 0 .. n + 1 /\ k \in 0 .. n + 1 /\ k + 1 # n + 1 /\ k # n + 1
          BY <3>1, <3>3
        <4>2. g[k + 1] = 2 * g[k]
          BY <2>1, <4>1
        <4> QED BY <4>1, <4>2
      <3> QED BY <3>2, <3>3
    <2> HIDE DEF h
    <2>6. Upto(n + 1, h)
      BY <2>3, <2>4, <2>5
    <2> HIDE DEF Upto
    <2>7. \E f \in [0 .. n + 1 -> Nat] : Upto(n + 1, f)
      BY <2>3, <2>6
    <2> QED BY <2>7
  <1>3. \A n \in Nat : n \in S
    <2> HIDE DEF S
    <2> QED BY <1>1, <1>2, SetInduction
  <1> DEFINE G0(n) == CHOOSE g \in [0 .. n -> Nat] : Upto(n, g)
             f == [n \in Nat |-> G0(n)[n]]
  <1>4. ASSUME NEW n \in Nat PROVE Upto(n, G0(n))
    <2>1. \E g \in [0 .. n -> Nat] : Upto(n, g)
      BY <1>3
    <2> HIDE DEF Upto
    <2> QED BY <2>1
  <1>5. ASSUME NEW n \in Nat PROVE \A k \in 0 .. n : G0(n)[k] = G0(n + 1)[k]
    <2> DEFINE g == G0(n)
               h == G0(n + 1)
               T == {k \in Nat : k \in 0 .. n => g[k] = h[k]}
    <2>1. Upto(n, g) /\ Upto(n + 1, h)
      <3>1. n + 1 \in Nat
        OBVIOUS
      <3> HIDE DEF Upto
      <3> QED BY <1>4, <3>1
    <2> HIDE DEF g, h
    <2>2. 0 \in T
      BY <2>1
    <2>3. ASSUME NEW k \in Nat, k \in T PROVE k + 1 \in T
      <3>1. SUFFICES ASSUME k + 1 \in 0 .. n PROVE g[k + 1] = h[k + 1]
        OBVIOUS
      <3>2. k \in 0 .. n /\ k < n /\ k < n + 1
        BY <3>1
      <3> QED BY <2>1, <2>3, <3>2
    <2>4. \A k \in Nat : k \in T
      <3> HIDE DEF T
      <3> QED BY <2>2, <2>3, SetInduction
    <2>5. \A k \in 0 .. n : k \in Nat
      OBVIOUS
    <2>6. \A k \in 0 .. n : g[k] = h[k]
      BY <2>4, <2>5
    <2> QED BY <2>6 DEF g, h
  <1> HIDE DEF G0
  <1>6. ASSUME NEW n \in Nat PROVE f[n] \in Nat
    <2>1. G0(n) \in [0 .. n -> Nat] /\ n \in 0 .. n
      BY <1>4
    <2> QED BY <2>1
  <1>7. f[0] = 1
    BY <1>4
  <1>8. ASSUME NEW n \in Nat PROVE f[n + 1] = 2 * f[n]
    <2>1. n \in 0 .. n /\ n < n + 1 /\ n + 1 \in Nat
      OBVIOUS
    <2>2. G0(n)[n] = G0(n + 1)[n]
      BY <1>5, <2>1
    <2>3. G0(n + 1)[n + 1] = 2 * G0(n + 1)[n]
      BY <1>4, <2>1
    <2> QED BY <2>1, <2>2, <2>3
  <1>9. f \in [Nat -> Nat]
    BY <1>6
  <1> HIDE DEF f
  <1> QED BY <1>7, <1>8, <1>9

LEMMA Pow2Steps ==
  /\ Pow2[0] = 1
  /\ \A k \in Nat : Pow2[k] \in Nat \ {0} /\ Pow2[k + 1] = 2 * Pow2[k]
  <1> DEFINE Is(f) == f = [k \in Nat |-> IF k = 0 THEN 1 ELSE 2 * f[k - 1]]
  <1>1. PICK f \in [Nat -> Nat] : f[0] = 1 /\ \A k \in Nat : f[k + 1] = 2 * f[k]
    BY PowersExist
  <1>2. Is(f)
    <2>1. ASSUME NEW k \in Nat PROVE f[k] = IF k = 0 THEN 1 ELSE 2 * f[k - 1]
      <3>1. CASE k = 0
        BY <1>1, <3>1
      <3>2. CASE k # 0
        <4>1. k - 1 \in Nat /\ (k - 1) + 1 = k
          BY <3>2
        <4>2. f[(k - 1) + 1] = 2 * f[k - 1]
          BY <1>1, <4>1
        <4> QED BY <3>2, <4>1, <4>2
      <3> QED BY <3>1, <3>2
    <2> QED BY <2>1
  <1>3. Pow2 = CHOOSE g : Is(g)
    BY DEF Pow2
  <1>4. Is(Pow2)
    <2> HIDE DEF Is
    <2> QED BY <1>2, <1>3
  <1>5. \A k \in Nat : Pow2[k] = IF k = 0 THEN 1 ELSE 2 * Pow2[k - 1]
    BY <1>4
  <1>6. Pow2[0] = 1
    BY <1>5
  <1>7. ASSUME NEW k \in Nat PROVE Pow2[k + 1] = 2 * Pow2[k]
    <2>1. k + 1 \in Nat /\ k + 1 # 0 /\ (k + 1) - 1 = k
      OBVIOUS
    <2>2. Pow2[k + 1] = 2 * Pow2[(k + 1) - 1]
      BY <1>5, <2>1
    <2> QED BY <2>1, <2>2
  <1> DEFINE S == {k \in Nat : Pow2[k] \in Nat \ {0}}
  <1>8. \A k \in Nat : k \in S
    <2>1. 0 \in S
      BY <1>6
    <2>2. ASSUME NEW k \in Nat, k \in S PROVE k + 1 \in S
      <3>1. Pow2[k] \in Nat \ {0} /\ Pow2[k + 1] = 2 * Pow2[k] /\ k + 1 \in Nat
        BY <1>7, <2>2
      <3> QED BY <3>1
    <2> HIDE DEF S
    <2> QED BY <2>1, <2>2, SetInduction
  <1> QED BY <1>6, <1>7, <1>8

LEMMA Pow2Above ==
  \A k \in Nat : k < Pow2[k]
  <1> DEFINE S == {k \in Nat : k < Pow2[k]}
  <1>1. 0 \in S
    BY Pow2Steps
  <1>2. ASSUME NEW k \in Nat, k \in S PROVE k + 1 \in S
    <2>1. k < Pow2[k] /\ Pow2[k] \in Nat /\ Pow2[k + 1] = 2 * Pow2[k] /\ k + 1 \in Nat
      BY <1>2, Pow2Steps
    <2> QED BY <2>1
  <1>3. \A k \in Nat : k \in S
    <2> HIDE DEF S
    <2> QED BY <1>1, <1>2, SetInduction
  <1> QED BY <1>3

LEMMA Pow2Sum ==
  ASSUME NEW a \in Nat, NEW b \in Nat
  PROVE  Pow2[a + b] = Pow2[a] * Pow2[b]
  <1> DEFINE S == {k \in Nat : Pow2[a + k] = Pow2[a] * Pow2[k]}
  <1>1. 0 \in S
    <2>1. a + 0 = a /\ Pow2[a] * 1 = Pow2[a]
      BY Pow2Steps
    <2> QED BY <2>1, Pow2Steps
  <1>2. ASSUME NEW k \in Nat, k \in S PROVE k + 1 \in S
    <2>1. a + (k + 1) = (a + k) + 1 /\ a + k \in Nat /\ k + 1 \in Nat
      OBVIOUS
    <2>2. Pow2[(a + k) + 1] = 2 * Pow2[a + k] /\ Pow2[k + 1] = 2 * Pow2[k]
      BY <2>1, Pow2Steps
    <2>3. Pow2[a + k] = Pow2[a] * Pow2[k]
      BY <1>2
    <2>4. ASSUME NEW x \in Nat, NEW y \in Nat PROVE 2 * (x * y) = x * (2 * y)
      OBVIOUS
    <2>5. 2 * (Pow2[a] * Pow2[k]) = Pow2[a] * (2 * Pow2[k])
      BY <2>4, Pow2Steps
    <2> QED BY <2>1, <2>2, <2>3, <2>5
  <1>3. \A k \in Nat : k \in S
    <2> HIDE DEF S
    <2> QED BY <1>1, <1>2, SetInduction
  <1> QED BY <1>3

LEMMA Pow2Grows ==
  ASSUME NEW a \in Nat, NEW b \in Nat, a <= b
  PROVE  Pow2[a] <= Pow2[b]
  <1>1. b - a \in Nat /\ a + (b - a) = b
    OBVIOUS
  <1>2. Pow2[b] = Pow2[a] * Pow2[b - a]
    BY <1>1, Pow2Sum
  <1>3. ASSUME NEW x \in Nat \ {0}, NEW y \in Nat \ {0} PROVE x <= x * y
    OBVIOUS
  <1> QED BY <1>1, <1>2, <1>3, Pow2Steps

LEMMA Log2Least ==
  ASSUME NEW n \in Nat
  PROVE  /\ Log2(n) \in Nat /\ n <= Pow2[Log2(n)]
         /\ \A j \in Nat : j < Log2(n) => Pow2[j] < n
  <1> DEFINE S == {k \in Nat : n <= Pow2[k]}
  <1>1. n \in S
    BY Pow2Above, Pow2Steps
  <1>2. PICK m \in S : \A y \in S : m <= y
    <2>1. S \subseteq Nat /\ S # {}
      BY <1>1
    <2> HIDE DEF S
    <2> QED BY <2>1, LeastOf
  <1> DEFINE Is(k) == n <= Pow2[k] /\ \A j \in 0 .. (k - 1) : Pow2[j] < n
  <1>3. m \in 0 .. n /\ Is(m)
    <2>1. m \in 0 .. n
      BY <1>1, <1>2
    <2>2. ASSUME NEW j \in 0 .. (m - 1) PROVE Pow2[j] < n
      <3>1. j \in Nat /\ ~(m <= j) /\ j \notin S
        BY <1>2, <2>1
      <3> QED BY <3>1, Pow2Steps
    <2> QED BY <1>2, <2>1, <2>2
  <1>4. Log2(n) = CHOOSE k \in 0 .. n : Is(k)
    BY DEF Log2
  <1>5. Log2(n) \in 0 .. n /\ Is(Log2(n))
    <2> HIDE DEF Is
    <2> QED BY <1>3, <1>4
  <1>6. \A j \in Nat : j < Log2(n) => j \in 0 .. (Log2(n) - 1)
    BY <1>5
  <1> QED BY <1>5, <1>6

(* A power of two below n is one of the powers below its logarithm.         *)
LEMMA BelowLog2 ==
  ASSUME NEW n \in Nat, NEW k \in Nat
  PROVE  Pow2[k] < n <=> k \in 0 .. (Log2(n) - 1)
  <1>1. Log2(n) \in Nat /\ n <= Pow2[Log2(n)] /\ \A j \in Nat : j < Log2(n) => Pow2[j] < n
    BY Log2Least
  <1>2. ASSUME Pow2[k] < n PROVE k < Log2(n)
    <2>1. SUFFICES ASSUME Log2(n) <= k PROVE FALSE
      BY <1>1
    <2>2. Pow2[Log2(n)] <= Pow2[k]
      BY <1>1, <2>1, Pow2Grows
    <2> QED BY <1>1, <1>2, <2>2, Pow2Steps
  <1> QED BY <1>1, <1>2

-----------------------------------------------------------------------------
(* Sequences whose elements form no set *)

IsSequence(f) == f \in Seq(Range(f))

LEMMA Tabulated ==
  ASSUME NEW f, NEW n \in Nat, f = [i \in DOMAIN f |-> f[i]], DOMAIN f = 1 .. n
  PROVE  IsSequence(f) /\ <<>> \o f = f /\ Len(f) = n
  <1>1. f \in Seq(Range(f)) /\ Len(f) = n
    <2>1. \A i \in 1 .. n : f[i] \in Range(f)
      BY DEF Range
    <2>2. f \in [1 .. n -> Range(f)]
      BY <2>1
    <2> QED BY <2>2, SeqDef
  <1> QED BY <1>1, ConcatEmptySeq DEF IsSequence

LEMMA SequenceDomain ==
  ASSUME NEW f, IsSequence(f)
  PROVE  /\ Len(f) \in Nat /\ DOMAIN f = 1 .. Len(f)
         /\ f = [i \in DOMAIN f |-> f[i]] /\ <<>> \o f = f
  BY LenProperties, ConcatEmptySeq DEF IsSequence


-----------------------------------------------------------------------------
(* What every process of an accepted run holds *)

Ready == run \in DOMAIN Configs /\ host = Host(run) /\ host.accepted

LEMMA LayersAreSome ==
  ASSUME NEW r \in DOMAIN Configs
  PROVE  /\ IsSequence(Layers(Configs[r])) /\ Len(Layers(Configs[r])) > 0
         /\ \A k \in DOMAIN Layers(Configs[r]) :
              /\ k \in DOMAIN Payloads[Configs[r].payload].layers
              /\ Layers(Configs[r])[k] = Payloads[Configs[r].payload].layers[k]
  <1> DEFINE c == Configs[r]
             all == Payloads[c.payload].layers
  <1>1. all \in Seq(Range(all)) /\ all # <<>> /\ c.max_layers \in Nat
    BY PayloadsAssumption, ConfigsAssumption
  <1>2. Len(all) \in Nat \ {0} /\ DOMAIN all = 1 .. Len(all)
    BY <1>1, LenProperties, EmptySeq
  <1>3. ASSUME NEW n \in 1 .. Len(all)
        PROVE  /\ IsSequence(SubSeq(all, 1, n)) /\ Len(SubSeq(all, 1, n)) > 0
               /\ \A k \in DOMAIN SubSeq(all, 1, n) :
                    k \in DOMAIN all /\ SubSeq(all, 1, n)[k] = all[k]
    <2> HIDE DEF all
    <2>1. SubSeq(all, 1, n) \in Seq(Range(all)) /\ Len(SubSeq(all, 1, n)) = n
          /\ \A k \in 1 .. n : SubSeq(all, 1, n)[k] = all[k]
      BY <1>1, <1>2, <1>3
    <2>2. DOMAIN SubSeq(all, 1, n) = 1 .. n
      BY <2>1, LenProperties
    <2>3. SubSeq(all, 1, n) = [k \in DOMAIN SubSeq(all, 1, n) |-> SubSeq(all, 1, n)[k]]
      BY <2>1, <2>2, LenProperties
    <2>4. IsSequence(SubSeq(all, 1, n))
      <3> DEFINE s == SubSeq(all, 1, n)
      <3>1. s = [k \in DOMAIN s |-> s[k]] /\ DOMAIN s = 1 .. n /\ n \in Nat
        BY <2>2, <2>3, <1>2
      <3> HIDE DEF s
      <3>2. IsSequence(s)
        BY <3>1, Tabulated
      <3> QED BY <3>2 DEF s
    <2> QED BY <2>1, <2>2, <2>4, <1>2
  <1>4. \/ Layers(c) = all
        \/ \E n \in 1 .. Len(all) : Layers(c) = SubSeq(all, 1, n)
    <2>1. CASE ~c.chain
      <3>1. Layers(c) = SubSeq(all, 1, 1) /\ 1 \in 1 .. Len(all)
        BY <2>1, <1>2 DEF Layers
      <3> QED BY <3>1
    <2>2. CASE c.chain /\ c.max_layers > 0 /\ c.max_layers < Len(all)
      <3>1. Layers(c) = SubSeq(all, 1, c.max_layers) /\ c.max_layers \in 1 .. Len(all)
        BY <2>2, <1>1, <1>2 DEF Layers
      <3> QED BY <3>1
    <2>3. CASE c.chain /\ ~(c.max_layers > 0 /\ c.max_layers < Len(all))
      BY <2>3 DEF Layers
    <2> QED BY <2>1, <2>2, <2>3
  <1>5. CASE Layers(c) = all
    BY <1>1, <1>2, <1>5 DEF IsSequence
  <1>6. CASE \E n \in 1 .. Len(all) : Layers(c) = SubSeq(all, 1, n)
    BY <1>3, <1>6
  <1> QED BY <1>4, <1>5, <1>6

LEMMA HostHolds ==
  ASSUME run \in DOMAIN Configs, host = Host(run)
  PROVE  /\ C = Configs[run] /\ Layered = Layers(C)
         /\ LoadedPayload = Payloads[C.payload]
         /\ host.accepted <=> Accepted(C)
  BY DEF Host, C, Layered, LoadedPayload

LEMMA ReadyHolds ==
  ASSUME Ready
  PROVE  /\ G = DerivePacking(Dims, C)
         /\ Keys = RotationKeys(C, RotationFrequencies(Dims, G, C))
         /\ \A k \in DOMAIN Layered : Plan(k) = LayerPlan(Layered[k], G, C)
  <1> DEFINE plans == [k \in DOMAIN Layered |-> LayerPlan(Layered[k], DerivePacking(Dims, C), C)]
  <1>1. C = Configs[run] /\ Layered = Layers(C) /\ Accepted(C)
    BY HostHolds DEF Ready
  <1>2. <<>> \o plans = plans
    <2>1. IsSequence(Layered)
      BY <1>1, LayersAreSome DEF Ready
    <2>2. DOMAIN plans = 1 .. Len(Layered) /\ Len(Layered) \in Nat
          /\ plans = [k \in DOMAIN plans |-> plans[k]]
      BY <2>1, SequenceDomain
    <2> HIDE DEF plans
    <2> QED BY <2>2, Tabulated
  <1>3. host.packing = DerivePacking(Dims, C) /\ host.plans = <<>> \o plans
        /\ host.keys = RotationKeys(C, RotationFrequencies(Dims, DerivePacking(Dims, C), C))
    BY <1>1 DEF Ready, Host
  <1> QED BY <1>2, <1>3 DEF G, Keys, Plan

LEMMA LayersOfPayload ==
  ASSUME Ready
  PROVE  /\ IsSequence(Layered) /\ Len(Layered) \in Nat \ {0} /\ DOMAIN Layered = 1 .. Len(Layered)
         /\ LoadedPayload = Payloads[C.payload] /\ C.payload \in DOMAIN Payloads
         /\ \A k \in DOMAIN Layered :
              k \in DOMAIN LoadedPayload.layers /\ Layered[k] = LoadedPayload.layers[k]
  <1>1. /\ C = Configs[run] /\ Layered = Layers(Configs[run]) /\ run \in DOMAIN Configs
        /\ LoadedPayload = Payloads[C.payload]
    BY HostHolds DEF Ready
  <1>2. IsSequence(Layered) /\ Len(Layered) > 0
    BY <1>1, LayersAreSome
  <1>3. Len(Layered) \in Nat /\ DOMAIN Layered = 1 .. Len(Layered)
    BY <1>2, SequenceDomain
  <1>4. C.payload \in DOMAIN Payloads
    BY <1>1, ConfigsAssumption
  <1>5. \A k \in DOMAIN Layered :
          k \in DOMAIN LoadedPayload.layers /\ Layered[k] = LoadedPayload.layers[k]
    BY <1>1, LayersAreSome
  <1> QED BY <1>1, <1>2, <1>3, <1>4, <1>5

-----------------------------------------------------------------------------
(* Rotation keys *)

Required == RequiredRotations(Dims, G, C)
Turnable(amount) == amount = 0 \/ amount \in Counted

LEMMA AcceptedHolds ==
  ASSUME Ready
  PROVE  /\ ValidGeometry(Dims, C) /\ NafVerified(Required) /\ AcceptedOptions(C)
         /\ \A k \in DOMAIN Layered : NormalizedPossible(Layered[k], G, C)
         /\ AcceptedPayload(C)
  BY HostHolds, ReadyHolds DEF Ready, Accepted, AcceptedGeometry, Required

(* A balanced plan keeps the base keys. *)
LEMMA BalancedKeepsBase ==
  ASSUME NEW freq, NEW base, NEW affordable
  PROVE  base \subseteq BalancedKeys(freq, base, affordable)
  BY DEF BalancedKeys, Sorted

LEMMA RequiredCovered ==
  ASSUME Ready
  PROVE  \A amount \in Required : Covered(amount)
  <1> DEFINE freq == RotationFrequencies(Dims, G, C)
             base == BaseKeys(DOMAIN freq)
  <1>1. DOMAIN freq = Required
    BY DEF RotationFrequencies, Required
  <1>2. \A amount \in Required : Range(NafSteps(amount)) \subseteq base
    BY <1>1 DEF BaseKeys
  <1>3. \A amount \in Required : SumSeq(NafSteps(amount)) = amount
    BY AcceptedHolds DEF NafVerified
  <1>4. Keys = RotationKeys(C, freq) /\ C.keys \in {"full", "compact", "balanced"}
    BY HostHolds, ReadyHolds, ConfigsAssumption DEF Ready
  <1>5. CASE C.keys = "full"
    <2>1. Keys = DOMAIN freq
      BY <1>4, <1>5 DEF RotationKeys
    <2> QED BY <1>1, <2>1 DEF Covered
  <1>6. CASE C.keys \in {"compact", "balanced"}
    <2>1. base \subseteq Keys
      <3> HIDE DEF freq
      <3> QED BY <1>4, <1>6, BalancedKeepsBase DEF RotationKeys
    <2> QED BY <1>2, <1>3, <2>1 DEF Covered
  <1> QED BY <1>4, <1>5, <1>6

-----------------------------------------------------------------------------
(* Geometry of the packing *)

LEMMA Divides ==
  ASSUME NEW a \in Nat \ {0}, NEW b \in Nat \ {0}, a % b = 0
  PROVE  a \div b \in Nat \ {0} /\ a = b * (a \div b)
  <1>1. a = b * (a \div b) + (a % b) /\ a \div b \in Int
    <2>1. a \div b \in Int
      OBVIOUS
    <2>2. a % b = a - b * (a \div b)
      OBVIOUS
    <2>3. a % b \in Int
      OBVIOUS
    <2>4. b * (a \div b) \in Int
      OBVIOUS
    <2> QED BY <2>1, <2>2, <2>3, <2>4
  <1>2. a = b * (a \div b)
    BY <1>1
  <1>3. a \div b > 0
    <2> DEFINE q == a \div b
    <2>1. SUFFICES ASSUME q <= 0 PROVE FALSE
      BY <1>1
    <2> HIDE DEF q
    <2>2. q \in Int /\ a = b * q
      BY <1>1, <1>2 DEF q
    <2>3. b * q <= 0
      BY <2>1, <2>2
    <2> QED BY <2>2, <2>3
  <1> QED BY <1>1, <1>2, <1>3

LEMMA Geometry ==
  ASSUME Ready
  PROVE  /\ {G.batch, G.block, G.group_heads, G.group_count} \subseteq Nat \ {0}
         /\ G.batch = G.block * Dims.state_size
         /\ Dims.num_heads = G.group_heads * G.group_count
         /\ Dims.state_size \in Nat \ {0} /\ Dims.head_dim \in Nat \ {0}
         /\ G.block = G.group_heads * Dims.head_dim
         /\ PowerOfTwo(G.block) /\ PowerOfTwo(Dims.state_size) /\ PowerOfTwo(G.batch)
         /\ G.batch = C.batch /\ G.stride = C.batch \div C.streams
         /\ C.streams \in Nat \ {0}
  <1> DEFINE batch == C.batch
             heads == C.batch \div (Dims.head_dim * Dims.state_size)
  <1>1. {Dims.state_size, Dims.head_dim, Dims.num_heads} \subseteq Nat \ {0}
    BY DimsAssumption
  <1>2. batch \in Nat \ {0} /\ C.streams \in Nat \ {0}
    <2>1. batch \in Nat /\ C.streams \in Nat
      BY HostHolds, ConfigsAssumption DEF Ready
    <2> QED BY <2>1, AcceptedHolds DEF ValidGeometry, PowerOfTwo
  <1>3. /\ PowerOfTwo(Dims.state_size) /\ PowerOfTwo(batch)
        /\ batch % (Dims.head_dim * Dims.state_size) = 0
        /\ Dims.num_heads % heads = 0 /\ PowerOfTwo(heads * Dims.head_dim)
    BY AcceptedHolds DEF ValidGeometry
  <1>4. /\ G.batch = batch /\ G.group_heads = heads /\ G.block = heads * Dims.head_dim
        /\ G.group_count = Dims.num_heads \div heads /\ G.stride = C.batch \div C.streams
    BY ReadyHolds DEF DerivePacking
  <1>5. Dims.head_dim * Dims.state_size \in Nat \ {0}
    BY <1>1
  <1>6. heads \in Nat \ {0} /\ batch = (Dims.head_dim * Dims.state_size) * heads
    <2> HIDE DEF batch
    <2>1. heads = batch \div (Dims.head_dim * Dims.state_size)
      BY DEF batch
    <2> QED BY <1>2, <1>3, <1>5, <2>1, Divides
  <1>7. Dims.num_heads \div heads \in Nat \ {0} /\ Dims.num_heads = heads * (Dims.num_heads \div heads)
    <2> HIDE DEF heads
    <2> QED BY <1>1, <1>3, <1>6, Divides
  <1>8. heads * Dims.head_dim \in Nat \ {0}
        /\ batch = (heads * Dims.head_dim) * Dims.state_size
    <2> HIDE DEF heads, batch
    <2> QED BY <1>1, <1>6
  <1> QED
    <2> HIDE DEF heads, batch
    <2>1. batch = C.batch
      BY DEF batch
    <2> QED BY <1>1, <1>2, <1>3, <1>4, <1>6, <1>7, <1>8, <2>1
-----------------------------------------------------------------------------
(* Sums of sequences of naturals *)

LEMMA SumBounds ==
  ASSUME NEW n \in Nat, NEW s \in [1 .. n -> Nat]
  PROVE  SumSeq(s) \in Nat /\ \A i \in 1 .. n : s[i] <= SumSeq(s)
  <1> DEFINE Is(f, m) == f = [i \in 0 .. m |-> IF i = 0 THEN 0 ELSE f[i - 1] + s[i]]
             S == {m \in Nat : m <= n => \E f : Is(f, m)}
             sum == CHOOSE f : Is(f, n)
             T == {m \in Nat : m <= n => sum[m] \in Nat /\ \A i \in 1 .. m : s[i] <= sum[m]}
  <1>1. Len(s) = n
    <2>1. s \in Seq(Nat)
      BY SeqDef
    <2> QED BY <2>1, LenProperties
  <1>2. SumSeq(s) = sum[n]
    BY <1>1 DEF SumSeq
  <1>3. \A m \in Nat : m \in S
    <2>1. 0 \in S
      <3>1. Is([i \in 0 .. 0 |-> 0], 0)
        OBVIOUS
      <3> QED BY <3>1
    <2>2. ASSUME NEW m \in Nat, m \in S PROVE m + 1 \in S
      <3>1. SUFFICES ASSUME m + 1 <= n PROVE \E f : Is(f, m + 1)
        OBVIOUS
      <3>2. PICK f : Is(f, m)
        BY <2>2, <3>1
      <3> DEFINE h == [i \in 0 .. (m + 1) |-> IF i <= m THEN f[i] ELSE f[m] + s[m + 1]]
      <3>3. ASSUME NEW i \in 0 .. (m + 1)
            PROVE  h[i] = IF i = 0 THEN 0 ELSE h[i - 1] + s[i]
        <4>1. CASE i = 0
          BY <3>2, <4>1
        <4>2. CASE i # 0 /\ i <= m
          <5>1. i - 1 \in 0 .. (m + 1) /\ i - 1 <= m /\ i \in 0 .. m
            BY <4>2
          <5>2. h[i - 1] = f[i - 1] /\ h[i] = f[i]
            BY <4>2, <5>1
          <5>3. f[i] = f[i - 1] + s[i]
            BY <3>2, <4>2, <5>1
          <5> HIDE DEF h
          <5> QED BY <4>2, <5>2, <5>3
        <4>3. CASE i # 0 /\ ~(i <= m)
          <5>1. i = m + 1 /\ i - 1 = m /\ m \in 0 .. (m + 1) /\ m <= m
            BY <4>3
          <5>2. h[m] = f[m] /\ h[i] = f[m] + s[m + 1]
            BY <4>3, <5>1
          <5> HIDE DEF h
          <5> QED BY <4>3, <5>1, <5>2
        <4> QED BY <4>1, <4>2, <4>3
      <3>4. h = [i \in 0 .. (m + 1) |-> h[i]]
        OBVIOUS
      <3> HIDE DEF h
      <3>5. Is(h, m + 1)
        BY <3>3, <3>4, Zenon
      <3> HIDE DEF Is
      <3> QED BY <3>5
    <2> HIDE DEF S
    <2> QED BY <2>1, <2>2, SetInduction
  <1>4. Is(sum, n)
    <2>1. n \in S
      <3> HIDE DEF S
      <3> QED BY <1>3
    <2>2. \E f : Is(f, n)
      <3> HIDE DEF Is
      <3>1. n <= n
        OBVIOUS
      <3> QED BY <2>1, <3>1
    <2> HIDE DEF Is
    <2> QED BY <2>2
  <1> HIDE DEF sum
  <1>5. \A m \in Nat : m \in T
    <2>1. 0 \in T
      BY <1>4
    <2>2. ASSUME NEW m \in Nat, m \in T PROVE m + 1 \in T
      <3>1. SUFFICES ASSUME m + 1 <= n
                     PROVE  /\ sum[m + 1] \in Nat
                            /\ \A i \in 1 .. (m + 1) : s[i] <= sum[m + 1]
        OBVIOUS
      <3>2. sum[m] \in Nat /\ \A i \in 1 .. m : s[i] <= sum[m]
        BY <2>2, <3>1
      <3>3. sum[m + 1] = sum[m] + s[m + 1]
        <4>1. m + 1 \in 0 .. n /\ m + 1 # 0 /\ (m + 1) - 1 = m
          BY <3>1
        <4> QED BY <1>4, <4>1
      <3>4. s[m + 1] \in Nat
        BY <3>1
      <3>5. ASSUME NEW i \in 1 .. (m + 1) PROVE s[i] <= sum[m + 1]
        <4>1. CASE i = m + 1
          BY <3>2, <3>3, <3>4, <4>1
        <4>2. CASE i # m + 1
          <5>1. i \in 1 .. m /\ i \in 1 .. n
            BY <3>1, <4>2
          <5>2. s[i] \in Nat /\ s[i] <= sum[m]
            BY <3>2, <5>1
          <5>3. sum[m] <= sum[m + 1]
            BY <3>2, <3>3, <3>4
          <5> QED BY <3>2, <3>3, <3>4, <5>2, <5>3
        <4> QED BY <4>1, <4>2
      <3> QED BY <3>2, <3>3, <3>4, <3>5
    <2> HIDE DEF T
    <2> QED BY <2>1, <2>2, SetInduction
  <1>6. n \in T /\ n <= n
    BY <1>5
  <1> QED BY <1>2, <1>6

(* What one family counts, the sum counts.                                 *)
LEMMA CountedOnce ==
  ASSUME NEW families, IsSequence(families), NEW index,
         \A i \in DOMAIN families : families[i].count \in Nat,
         NEW k \in DOMAIN families, index \in families[k].indices, families[k].count > 0
  PROVE  FrequencyOf(families, index) > 0
  <1> DEFINE n == Len(families)
             s == [i \in DOMAIN families |->
                     IF index \in families[i].indices THEN families[i].count ELSE 0]
  <1>1. n \in Nat /\ DOMAIN families = 1 .. n
    BY SequenceDomain
  <1>2. s \in [1 .. n -> Nat] /\ s[k] = families[k].count /\ k \in 1 .. n
    BY <1>1
  <1>3. FrequencyOf(families, index) = SumSeq(s)
    BY DEF FrequencyOf
  <1> HIDE DEF s, n
  <1>4. SumSeq(s) \in Nat /\ s[k] <= SumSeq(s) /\ s[k] \in Nat
    BY <1>1, <1>2, SumBounds
  <1> QED BY <1>2, <1>3, <1>4

LEMMA Joined ==
  ASSUME NEW a, NEW b, IsSequence(a), IsSequence(b)
  PROVE  IsSequence(a \o b) /\ Range(a \o b) = Range(a) \cup Range(b)
  <1> DEFINE S == Range(a) \cup Range(b)
  <1>1. a \in Seq(S) /\ b \in Seq(S)
    <2>1. DOMAIN a = 1 .. Len(a) /\ DOMAIN b = 1 .. Len(b) /\ Len(a) \in Nat /\ Len(b) \in Nat
      BY SequenceDomain
    <2>2. a \in [1 .. Len(a) -> S] /\ b \in [1 .. Len(b) -> S]
      <3>1. a \in [1 .. Len(a) -> Range(a)] /\ b \in [1 .. Len(b) -> Range(b)]
        BY LenProperties DEF IsSequence
      <3> QED BY <3>1
    <2> QED BY <2>1, <2>2, SeqDef
  <1> HIDE DEF S
  <1>2. /\ a \o b \in Seq(S) /\ Len(a \o b) = Len(a) + Len(b)
        /\ \A i \in 1 .. Len(a) : (a \o b)[i] = a[i]
        /\ \A i \in (Len(a) + 1) .. (Len(a) + Len(b)) : (a \o b)[i] = b[i - Len(a)]
    BY <1>1, ConcatProperties
  <1>3. /\ DOMAIN a = 1 .. Len(a) /\ DOMAIN b = 1 .. Len(b)
        /\ Len(a) \in Nat /\ Len(b) \in Nat
        /\ DOMAIN (a \o b) = 1 .. (Len(a) + Len(b))
    BY <1>1, <1>2, LenProperties
  <1>4. Range(a \o b) \subseteq S
    BY <1>2, LenProperties DEF Range
  <1>5. ASSUME NEW i \in DOMAIN a PROVE a[i] \in Range(a \o b)
    <2>1. i \in DOMAIN (a \o b) /\ (a \o b)[i] = a[i]
      BY <1>2, <1>3
    <2> QED BY <2>1 DEF Range
  <1>6. ASSUME NEW i \in DOMAIN b PROVE b[i] \in Range(a \o b)
    <2>1. i + Len(a) \in DOMAIN (a \o b) /\ i + Len(a) \in (Len(a) + 1) .. (Len(a) + Len(b))
          /\ (i + Len(a)) - Len(a) = i
      BY <1>3
    <2>2. (a \o b)[i + Len(a)] = b[i]
      BY <1>2, <2>1
    <2> QED BY <2>1, <2>2 DEF Range
  <1>7. Range(a \o b) = S
    BY <1>4, <1>5, <1>6 DEF Range, S
  <1>8. IsSequence(a \o b)
    BY <1>2, <1>7 DEF IsSequence
  <1> QED BY <1>7, <1>8 DEF S


-----------------------------------------------------------------------------
(* The rotations required *)

(* Every index of a family that is used counts. *)
Uses == RotationFamilies(Dims, G, C)

LEMMA UsesAre ==
  ASSUME Ready
  PROVE  /\ IsSequence(Uses) /\ \A f \in Range(Uses) : f.count \in Nat \ {0}
         /\ \A p \in {ProductRotations(G.rep_in, Dims.proj_dim, Dims.d_model),
                      ProductRotations(G.rep_out, Dims.d_model, Dims.d_inner)} :
              \A i \in DOMAIN p : Family(p[i], 1) \in Range(Uses)
         /\ \E n \in Nat \ {0} :
              Family(Powers(IF C.streams = 1 THEN G.batch ELSE G.stride, 1), n) \in Range(Uses)
         /\ \E n \in Nat \ {0} : Family(Powers(G.block, -1), n) \in Range(Uses)
         /\ \E n \in Nat \ {0} : Family(Powers(Dims.state_size, -G.block), n) \in Range(Uses)
         /\ \E n \in Nat \ {0} : Family({G.xbc0}, n) \in Range(Uses)
         /\ \E n \in Nat \ {0} : Family(Multiples(G.group_count, G.block), n) \in Range(Uses)
         /\ \E n \in Nat \ {0} : Family(Multiples(G.group_count, -G.block), n) \in Range(Uses)
         /\ \E n \in Nat \ {0} : Family(Powers(Dims.state_size, G.block), n) \in Range(Uses)
         /\ C.rep_blocks => \E n, m \in Nat \ {0} :
              /\ Family({G.b_base}, n) \in Range(Uses) /\ Family({G.c_base}, n) \in Range(Uses)
              /\ Family(Powers(Dims.state_size, 1 - G.block), m) \in Range(Uses)
         /\ ~C.rep_blocks => \E n, m \in Nat \ {0} :
              /\ \A base \in {G.b_base, G.c_base} :
                   Family({base - (G.block - 1) * b : b \in 0 .. (G.group_heads - 1)}, n)
                     \in Range(Uses)
              /\ Family(Multiples(Dims.state_size \div G.group_heads,
                                  -G.group_heads * (G.block - 1)), m) \in Range(Uses)
         /\ \E n \in Nat \ {0} :
              Family(IF C.shared THEN {G.dt0}
                     ELSE {G.dt0 + G.group_heads * i : i \in 0 .. (G.group_count - 1)}, n)
                \in Range(Uses)
         /\ \E n \in Nat \ {0} :
              Family(Multiples(PlacedHeads(Dims, G, C), 1 - Dims.head_dim), n) \in Range(Uses)
  <1> DEFINE s == C.streams
             g == G.group_count
             each == IF C.shared THEN 1 ELSE g
             bits == IF s = 1 THEN G.batch ELSE G.stride
             Babies(base) == {base - (G.block - 1) * b : b \in 0 .. (G.group_heads - 1)}
             p1 == ProductRotations(G.rep_in, Dims.proj_dim, Dims.d_model)
             p2 == ProductRotations(G.rep_out, Dims.d_model, Dims.d_inner)
             a1 == ProductFamilies(p1)
             a2 == ProductFamilies(p2)
             a3 == <<Family(Powers(bits, 1), 2),
                     Family(IF s > 1 THEN Powers(bits, -1) ELSE {}, 2),
                     Family(Powers(G.block, -1), 2 * s),
                     Family(Powers(Dims.head_dim, -1), 2 * each * s),
                     Family(Powers(Dims.state_size, -G.block), 3 * g * s),
                     Family({G.xbc0}, 1),
                     Family(Multiples(g, G.block), IF C.shared THEN 3 * s ELSE s),
                     Family(Multiples(g, -G.block), s),
                     Family(Powers(Dims.state_size, G.block), g * s)>>
             a4 == IF C.rep_blocks
                   THEN <<Family({G.b_base}, s), Family({G.c_base}, s),
                          Family(Powers(Dims.state_size, 1 - G.block), 2 * s)>>
                   ELSE <<Family(Babies(G.b_base), s), Family(Babies(G.c_base), s),
                          Family(Multiples(Dims.state_size \div G.group_heads,
                                           -G.group_heads * (G.block - 1)), 2 * s)>>
             a5 == <<Family(IF C.shared THEN {G.dt0}
                            ELSE {G.dt0 + G.group_heads * i : i \in 0 .. (g - 1)}, 2 * s),
                     Family(Multiples(PlacedHeads(Dims, G, C), 1 - Dims.head_dim), 2 * each * s)>>
  <1>1. s \in Nat \ {0} /\ g \in Nat \ {0} /\ each \in Nat \ {0}
    BY Geometry
  <1>2. 2 * s \in Nat \ {0} /\ 2 * each * s \in Nat \ {0} /\ 3 * g * s \in Nat \ {0}
        /\ 3 * s \in Nat \ {0} /\ g * s \in Nat \ {0}
    <2> HIDE DEF s, g, each
    <2>1. each * s \in Nat \ {0} /\ g * s \in Nat \ {0}
      BY <1>1
    <2>2. 2 * each * s = 2 * (each * s) /\ 3 * g * s = 3 * (g * s)
      BY <1>1
    <2> QED BY <1>1, <2>1, <2>2
  <1>3. Uses = a1 \o a2 \o a3 \o a4 \o a5
    BY DEF Uses, RotationFamilies
  <1>4. ASSUME NEW rotations, NEW n \in Nat, DOMAIN rotations = 1 .. n
        PROVE  /\ IsSequence(ProductFamilies(rotations))
               /\ Range(ProductFamilies(rotations)) = {Family(rotations[i], 1) : i \in 1 .. n}
    <2> DEFINE f == ProductFamilies(rotations)
    <2>1. f = [i \in 1 .. n |-> Family(rotations[i], 1)]
      BY <1>4 DEF ProductFamilies
    <2>2. DOMAIN f = 1 .. n /\ f = [i \in DOMAIN f |-> f[i]]
      BY <2>1
    <2>3. Range(f) = {Family(rotations[i], 1) : i \in 1 .. n}
      BY <2>1 DEF Range
    <2> HIDE DEF f
    <2>4. IsSequence(f)
      BY <2>2, Tabulated
    <2> QED BY <2>3, <2>4 DEF f
  <1>5. ASSUME NEW S, NEW m, NEW n
        PROVE  DOMAIN ProductRotations(S, m, n) \in {1 .. 5, 1 .. 2}
    BY DEF ProductRotations, ReplicatedRotations, SlotBsgsRotations
  <1>6. /\ IsSequence(a1) /\ Range(a1) = {Family(p1[i], 1) : i \in DOMAIN p1}
        /\ IsSequence(a2) /\ Range(a2) = {Family(p2[i], 1) : i \in DOMAIN p2}
    <2>1. DOMAIN p1 \in {1 .. 5, 1 .. 2} /\ DOMAIN p2 \in {1 .. 5, 1 .. 2}
      BY <1>5
    <2> HIDE DEF p1, p2
    <2> QED BY <1>4, <2>1
  <1>7. /\ IsSequence(a3) /\ Range(a3) =
             {Family(Powers(bits, 1), 2),
              Family(IF s > 1 THEN Powers(bits, -1) ELSE {}, 2),
              Family(Powers(G.block, -1), 2 * s),
              Family(Powers(Dims.head_dim, -1), 2 * each * s),
              Family(Powers(Dims.state_size, -G.block), 3 * g * s),
              Family({G.xbc0}, 1),
              Family(Multiples(g, G.block), IF C.shared THEN 3 * s ELSE s),
              Family(Multiples(g, -G.block), s),
              Family(Powers(Dims.state_size, G.block), g * s)}
    <2> DEFINE f == a3
    <2>1. DOMAIN f = 1 .. 9 /\ f = [i \in DOMAIN f |-> f[i]]
      OBVIOUS
    <2>2. Range(f) = {f[1], f[2], f[3], f[4], f[5], f[6], f[7], f[8], f[9]}
      <3> HIDE DEF f
      <3>1. \A i \in 1 .. 9 : i \in {1, 2, 3, 4, 5, 6, 7, 8, 9}
        OBVIOUS
      <3> QED BY <2>1, <3>1 DEF Range
    <2>3. IsSequence(f)
      <3> HIDE DEF f
      <3> QED BY <2>1, Tabulated
    <2> QED BY <2>2, <2>3
  <1>8. /\ IsSequence(a4)
        /\ C.rep_blocks => Range(a4) =
             {Family({G.b_base}, s), Family({G.c_base}, s),
              Family(Powers(Dims.state_size, 1 - G.block), 2 * s)}
        /\ ~C.rep_blocks => Range(a4) =
             {Family(Babies(G.b_base), s), Family(Babies(G.c_base), s),
              Family(Multiples(Dims.state_size \div G.group_heads,
                               -G.group_heads * (G.block - 1)), 2 * s)}
    <2> DEFINE f == a4
    <2>1. DOMAIN f = 1 .. 3 /\ f = [i \in DOMAIN f |-> f[i]]
      OBVIOUS
    <2>2. Range(f) = {f[1], f[2], f[3]}
      <3> HIDE DEF f
      <3>1. \A i \in 1 .. 3 : i \in {1, 2, 3}
        OBVIOUS
      <3> QED BY <2>1, <3>1 DEF Range
    <2>3. IsSequence(f)
      <3> HIDE DEF f
      <3> QED BY <2>1, Tabulated
    <2> QED BY <2>2, <2>3
  <1>9. /\ IsSequence(a5) /\ Range(a5) =
             {Family(IF C.shared THEN {G.dt0}
                     ELSE {G.dt0 + G.group_heads * i : i \in 0 .. (g - 1)}, 2 * s),
              Family(Multiples(PlacedHeads(Dims, G, C), 1 - Dims.head_dim), 2 * each * s)}
    <2> DEFINE f == a5
    <2>1. DOMAIN f = 1 .. 2 /\ f = [i \in DOMAIN f |-> f[i]]
      OBVIOUS
    <2>2. Range(f) = {f[1], f[2]}
      <3> HIDE DEF f
      <3>1. \A i \in 1 .. 2 : i \in {1, 2}
        OBVIOUS
      <3> QED BY <2>1, <3>1 DEF Range
    <2>3. IsSequence(f)
      <3> HIDE DEF f
      <3> QED BY <2>1, Tabulated
    <2> QED BY <2>2, <2>3
  <1>10. /\ IsSequence(Uses)
         /\ Range(Uses) = Range(a1) \cup Range(a2) \cup Range(a3) \cup Range(a4) \cup Range(a5)
    <2> HIDE DEF a1, a2, a3, a4, a5
    <2>1. IsSequence(a1 \o a2) /\ Range(a1 \o a2) = Range(a1) \cup Range(a2)
      BY <1>6, Joined
    <2>2. /\ IsSequence(a1 \o a2 \o a3)
          /\ Range(a1 \o a2 \o a3) = Range(a1 \o a2) \cup Range(a3)
      BY <1>7, <2>1, Joined
    <2>3. /\ IsSequence(a1 \o a2 \o a3 \o a4)
          /\ Range(a1 \o a2 \o a3 \o a4) = Range(a1 \o a2 \o a3) \cup Range(a4)
      BY <1>8, <2>2, Joined
    <2>4. /\ IsSequence(a1 \o a2 \o a3 \o a4 \o a5)
          /\ Range(a1 \o a2 \o a3 \o a4 \o a5) = Range(a1 \o a2 \o a3 \o a4) \cup Range(a5)
      BY <1>9, <2>3, Joined
    <2> QED BY <1>3, <2>1, <2>2, <2>3, <2>4
  <1> HIDE DEF s, g, each, bits, Babies, p1, p2, a1, a2, a3, a4, a5
  <1>11. \A indices, n : Family(indices, n).count = n
    BY DEF Family
  <1>12. ASSUME NEW f \in Range(Uses) PROVE f.count \in Nat \ {0}
    <2>1. CASE f \in Range(a1) \cup Range(a2)
      BY <1>6, <1>11, <2>1
    <2>2. CASE f \in Range(a3)
      BY <1>1, <1>2, <1>7, <1>11, <2>2
    <2>3. CASE f \in Range(a4)
      BY <1>1, <1>2, <1>8, <1>11, <2>3
    <2>4. CASE f \in Range(a5)
      BY <1>1, <1>2, <1>9, <1>11, <2>4
    <2> QED BY <1>10, <2>1, <2>2, <2>3, <2>4
  <1>13. \A i \in DOMAIN p1 : Family(p1[i], 1) \in Range(Uses)
    BY <1>6, <1>10
  <1>14. \A i \in DOMAIN p2 : Family(p2[i], 1) \in Range(Uses)
    BY <1>6, <1>10
  <1>15. /\ Family(Powers(bits, 1), 2) \in Range(Uses)
         /\ Family(Powers(G.block, -1), 2 * s) \in Range(Uses)
         /\ Family(Powers(Dims.state_size, -G.block), 3 * g * s) \in Range(Uses)
         /\ Family({G.xbc0}, 1) \in Range(Uses)
         /\ Family(Multiples(g, G.block), IF C.shared THEN 3 * s ELSE s) \in Range(Uses)
         /\ Family(Multiples(g, -G.block), s) \in Range(Uses)
         /\ Family(Powers(Dims.state_size, G.block), g * s) \in Range(Uses)
    BY <1>7, <1>10
  <1>16. C.rep_blocks =>
           /\ Family({G.b_base}, s) \in Range(Uses) /\ Family({G.c_base}, s) \in Range(Uses)
           /\ Family(Powers(Dims.state_size, 1 - G.block), 2 * s) \in Range(Uses)
    BY <1>8, <1>10
  <1>17. ~C.rep_blocks =>
           /\ \A base \in {G.b_base, G.c_base} : Family(Babies(base), s) \in Range(Uses)
           /\ Family(Multiples(Dims.state_size \div G.group_heads,
                               -G.group_heads * (G.block - 1)), 2 * s) \in Range(Uses)
    BY <1>8, <1>10
  <1>18. /\ Family(IF C.shared THEN {G.dt0}
                   ELSE {G.dt0 + G.group_heads * i : i \in 0 .. (g - 1)}, 2 * s)
              \in Range(Uses)
         /\ Family(Multiples(PlacedHeads(Dims, G, C), 1 - Dims.head_dim), 2 * each * s)
              \in Range(Uses)
    BY <1>9, <1>10
  <1>19. (IF C.shared THEN 3 * s ELSE s) \in Nat \ {0} /\ 1 \in Nat \ {0} /\ 2 \in Nat \ {0}
    BY <1>1, <1>2
  <1>20. bits = IF C.streams = 1 THEN G.batch ELSE G.stride
    BY DEF bits, s
  <1>21. \A base : Babies(base) = {base - (G.block - 1) * b : b \in 0 .. (G.group_heads - 1)}
    BY DEF Babies
  <1>22. g = G.group_count
    BY DEF g
  <1>23. /\ \A p \in {p1, p2} : \A i \in DOMAIN p : Family(p[i], 1) \in Range(Uses)
    BY <1>13, <1>14
  <1>24. /\ \E n \in Nat \ {0} : Family(Powers(bits, 1), n) \in Range(Uses)
         /\ \E n \in Nat \ {0} : Family(Powers(G.block, -1), n) \in Range(Uses)
         /\ \E n \in Nat \ {0} : Family(Powers(Dims.state_size, -G.block), n) \in Range(Uses)
         /\ \E n \in Nat \ {0} : Family({G.xbc0}, n) \in Range(Uses)
         /\ \E n \in Nat \ {0} : Family(Multiples(g, G.block), n) \in Range(Uses)
         /\ \E n \in Nat \ {0} : Family(Multiples(g, -G.block), n) \in Range(Uses)
         /\ \E n \in Nat \ {0} : Family(Powers(Dims.state_size, G.block), n) \in Range(Uses)
    BY <1>1, <1>2, <1>15, <1>19, Zenon
  <1>25. C.rep_blocks => \E n, m \in Nat \ {0} :
           /\ Family({G.b_base}, n) \in Range(Uses) /\ Family({G.c_base}, n) \in Range(Uses)
           /\ Family(Powers(Dims.state_size, 1 - G.block), m) \in Range(Uses)
    BY <1>1, <1>2, <1>16, Zenon
  <1>26. ~C.rep_blocks => \E n, m \in Nat \ {0} :
           /\ \A base \in {G.b_base, G.c_base} :
                Family({base - (G.block - 1) * b : b \in 0 .. (G.group_heads - 1)}, n)
                  \in Range(Uses)
           /\ Family(Multiples(Dims.state_size \div G.group_heads,
                               -G.group_heads * (G.block - 1)), m) \in Range(Uses)
    BY <1>1, <1>2, <1>17, Zenon DEF Babies
  <1>27. /\ \E n \in Nat \ {0} :
              Family(IF C.shared THEN {G.dt0}
                     ELSE {G.dt0 + G.group_heads * i : i \in 0 .. (g - 1)}, n) \in Range(Uses)
         /\ \E n \in Nat \ {0} :
              Family(Multiples(PlacedHeads(Dims, G, C), 1 - Dims.head_dim), n) \in Range(Uses)
    BY <1>2, <1>18, Zenon
  <1>28. /\ p1 = ProductRotations(G.rep_in, Dims.proj_dim, Dims.d_model)
         /\ p2 = ProductRotations(G.rep_out, Dims.d_model, Dims.d_inner)
    BY DEF p1, p2
  <1>29. \A f \in Range(Uses) : f.count \in Nat \ {0}
    BY <1>12
  <1> QED BY <1>10, <1>20, <1>22, <1>23, <1>24, <1>25, <1>26, <1>27, <1>28, <1>29, Zenon

LEMMA FamilyTurns ==
  ASSUME Ready, NEW indices, NEW n \in Nat \ {0}, Family(indices, n) \in Range(Uses),
         NEW a \in indices, a = 0 \/ a \in Required
  PROVE  Turnable(a)
  <1> SUFFICES ASSUME a # 0 PROVE a \in Counted
    BY DEF Turnable
  <1>1. PICK k \in DOMAIN Uses : Uses[k] = Family(indices, n)
    BY DEF Range
  <1>2. Uses[k].indices = indices /\ Uses[k].count = n
    BY <1>1 DEF Family
  <1>3. IsSequence(Uses) /\ \A i \in DOMAIN Uses : Uses[i].count \in Nat
    BY UsesAre DEF Range
  <1>4. FrequencyOf(Uses, a) > 0
    <2>1. n > 0 /\ a \in Uses[k].indices /\ Uses[k].count > 0
      BY <1>2
    <2> HIDE DEF Uses
    <2> QED BY <1>1, <1>3, <2>1, CountedOnce
  <1> QED BY <1>4 DEF Counted, Uses, Required

LEMMA ProductTurns0 ==
  ASSUME Ready, NEW p, \A i \in DOMAIN p : Family(p[i], 1) \in Range(Uses),
         \A a \in Needed(p) : a = 0 \/ a \in Required
  PROVE  \A a \in Needed(p) : Turnable(a)
  <1> SUFFICES ASSUME NEW a \in Needed(p) PROVE Turnable(a)
    OBVIOUS
  <1>1. PICK i \in DOMAIN p : a \in p[i]
    BY DEF Needed
  <1>2. \A x \in p[i] : x \in Needed(p)
    BY DEF Needed
  <1>3. Family(p[i], 1) \in Range(Uses) /\ 1 \in Nat \ {0}
    OBVIOUS
  <1> HIDE DEF Uses
  <1> QED BY <1>1, <1>2, <1>3, FamilyTurns

LEMMA AllRequired ==
  LET Known(S) == \A a \in S : a = 0 \/ a \in Required IN
  /\ Known(Needed(ProductRotations(G.rep_in, Dims.proj_dim, Dims.d_model)))
  /\ Known(Needed(ProductRotations(G.rep_out, Dims.d_model, Dims.d_inner)))
  /\ Known(Powers(G.batch, 1)) /\ Known(Powers(G.block, -1))
  /\ Known(Powers(Dims.state_size, -G.block)) /\ Known({G.xbc0})
  /\ Known(Multiples(G.group_count, G.block)) /\ Known(Powers(Dims.state_size, G.block))
  /\ Known(Multiples(G.group_count, -G.block))
  /\ C.rep_blocks => Known({G.b_base}) /\ Known({G.c_base})
                      /\ Known(Powers(Dims.state_size, 1 - G.block))
  /\ ~C.rep_blocks =>
       /\ Known(BlockBabies(G))
       /\ Known(Multiples(Dims.state_size \div G.group_heads, -G.group_heads * (G.block - 1)))
  /\ C.shared => Known({G.dt0})
  /\ ~C.shared => Known({G.dt0 + G.group_heads * g : g \in 0 .. (G.group_count - 1)})
  /\ Known(Multiples(PlacedHeads(Dims, G, C), 1 - Dims.head_dim))
  BY DEF Required, RequiredRotations

LEMMA Families ==
  ASSUME Ready
  PROVE
  /\ \A a \in Needed(ProductRotations(G.rep_in, Dims.proj_dim, Dims.d_model)) : Turnable(a)
  /\ \A a \in Needed(ProductRotations(G.rep_out, Dims.d_model, Dims.d_inner)) : Turnable(a)
  /\ \A a \in Powers(G.block, -1) : Turnable(a)
  /\ \A a \in Powers(Dims.state_size, -G.block) : Turnable(a)
  /\ Turnable(G.xbc0)
  /\ \A a \in Multiples(G.group_count, G.block) : Turnable(a)
  /\ \A a \in Powers(Dims.state_size, G.block) : Turnable(a)
  /\ \A a \in Multiples(G.group_count, -G.block) : Turnable(a)
  /\ C.rep_blocks =>
       /\ Turnable(G.b_base) /\ Turnable(G.c_base)
       /\ \A a \in Powers(Dims.state_size, 1 - G.block) : Turnable(a)
  /\ ~C.rep_blocks =>
       /\ \A a \in BlockBabies(G) : Turnable(a)
       /\ \A a \in Multiples(Dims.state_size \div G.group_heads,
                             -G.group_heads * (G.block - 1)) : Turnable(a)
  /\ C.shared => Turnable(G.dt0)
  /\ ~C.shared =>
       \A g \in 0 .. (G.group_count - 1) : Turnable(G.dt0 + G.group_heads * g)
  /\ \A a \in Multiples(PlacedHeads(Dims, G, C), 1 - Dims.head_dim) : Turnable(a)
  <1> DEFINE Known(S) == \A a \in S : a = 0 \/ a \in Required
             Turns0(S) == \A a \in S : Turnable(a)
             Seen(S) == \E n \in Nat \ {0} : Family(S, n) \in Range(Uses)
             p1 == ProductRotations(G.rep_in, Dims.proj_dim, Dims.d_model)
             p2 == ProductRotations(G.rep_out, Dims.d_model, Dims.d_inner)
             heads == {G.dt0 + G.group_heads * g : g \in 0 .. (G.group_count - 1)}
             Babies(base) == {base - (G.block - 1) * b : b \in 0 .. (G.group_heads - 1)}
             giants == Multiples(Dims.state_size \div G.group_heads,
                                 -G.group_heads * (G.block - 1))
  <1>1. ASSUME NEW S, Known(S), Seen(S) PROVE Turns0(S)
    <2>1. PICK n \in Nat \ {0} : Family(S, n) \in Range(Uses)
      BY <1>1
    <2> HIDE DEF Uses
    <2> QED BY <1>1, <2>1, FamilyTurns
  <1>2. Turns0(Needed(p1)) /\ Turns0(Needed(p2))
    <2>1. \A p \in {p1, p2} : \A i \in DOMAIN p : Family(p[i], 1) \in Range(Uses)
      BY UsesAre
    <2>2. Known(Needed(p1)) /\ Known(Needed(p2))
      BY AllRequired
    <2> HIDE DEF p1, p2, Uses
    <2>3. Turns0(Needed(p1))
      BY <2>1, <2>2, ProductTurns0
    <2>4. Turns0(Needed(p2))
      BY <2>1, <2>2, ProductTurns0
    <2> QED BY <2>3, <2>4
  <1>3. /\ Seen(Powers(G.block, -1)) /\ Seen(Powers(Dims.state_size, -G.block))
        /\ Seen({G.xbc0}) /\ Seen(Multiples(G.group_count, G.block))
        /\ Seen(Multiples(G.group_count, -G.block)) /\ Seen(Powers(Dims.state_size, G.block))
        /\ C.rep_blocks => Seen({G.b_base}) /\ Seen({G.c_base})
                            /\ Seen(Powers(Dims.state_size, 1 - G.block))
        /\ ~C.rep_blocks => /\ \A base \in {G.b_base, G.c_base} : Seen(Babies(base))
                            /\ Seen(giants)
        /\ Seen(IF C.shared THEN {G.dt0} ELSE heads)
        /\ Seen(Multiples(PlacedHeads(Dims, G, C), 1 - Dims.head_dim))
    <2> HIDE DEF Uses
    <2> QED BY UsesAre, Zenon
  <1>4. /\ Known(Powers(G.block, -1)) /\ Known(Powers(Dims.state_size, -G.block))
        /\ Known({G.xbc0}) /\ Known(Multiples(G.group_count, G.block))
        /\ Known(Powers(Dims.state_size, G.block)) /\ Known(Multiples(G.group_count, -G.block))
        /\ C.rep_blocks => Known({G.b_base}) /\ Known({G.c_base})
                            /\ Known(Powers(Dims.state_size, 1 - G.block))
        /\ ~C.rep_blocks => Known(BlockBabies(G)) /\ Known(giants)
        /\ C.shared => Known({G.dt0})
        /\ ~C.shared => Known(heads)
        /\ Known(Multiples(PlacedHeads(Dims, G, C), 1 - Dims.head_dim))
    BY AllRequired
  <1>5. BlockBabies(G) = Babies(G.b_base) \cup Babies(G.c_base)
    BY DEF BlockBabies
  <1> HIDE DEF Known, Seen, Turns0, p1, p2, heads, giants, Babies
  <1>6. /\ Turns0(Powers(G.block, -1)) /\ Turns0(Powers(Dims.state_size, -G.block))
        /\ Turns0({G.xbc0}) /\ Turns0(Multiples(G.group_count, G.block))
        /\ Turns0(Powers(Dims.state_size, G.block)) /\ Turns0(Multiples(G.group_count, -G.block))
        /\ Turns0(Multiples(PlacedHeads(Dims, G, C), 1 - Dims.head_dim))
    BY <1>1, <1>3, <1>4
  <1>7. C.rep_blocks => Turns0({G.b_base}) /\ Turns0({G.c_base})
                        /\ Turns0(Powers(Dims.state_size, 1 - G.block))
    BY <1>1, <1>3, <1>4
  <1>8. ~C.rep_blocks => Turns0(BlockBabies(G)) /\ Turns0(giants)
    <2> SUFFICES ASSUME ~C.rep_blocks PROVE Turns0(BlockBabies(G)) /\ Turns0(giants)
      OBVIOUS
    <2>1. Known(Babies(G.b_base)) /\ Known(Babies(G.c_base))
      BY <1>4, <1>5 DEF Known
    <2>2. Turns0(Babies(G.b_base)) /\ Turns0(Babies(G.c_base)) /\ Turns0(giants)
      BY <1>1, <1>3, <1>4, <2>1
    <2> QED BY <1>5, <2>2 DEF Turns0
  <1>9. (C.shared => Turns0({G.dt0})) /\ (~C.shared => Turns0(heads))
    BY <1>1, <1>3, <1>4
  <1>10. ~C.shared => \A g \in 0 .. (G.group_count - 1) : Turnable(G.dt0 + G.group_heads * g)
    BY <1>9 DEF Turns0, heads
  <1>11. Turns0({G.xbc0}) => Turnable(G.xbc0)
    BY DEF Turns0
  <1>12. (Turns0({G.b_base}) => Turnable(G.b_base)) /\ (Turns0({G.c_base}) => Turnable(G.c_base))
         /\ (Turns0({G.dt0}) => Turnable(G.dt0))
    BY DEF Turns0
  <1> QED BY <1>2, <1>6, <1>7, <1>8, <1>9, <1>10, <1>11, <1>12 DEF Turns0, p1, p2, giants

LEMMA StrideWide ==
  ASSUME Ready
  PROVE  G.block <= IF C.streams = 1 THEN G.batch ELSE G.stride
  <1>1. /\ {G.batch, G.block, G.group_heads, G.group_count} \subseteq Nat \ {0}
        /\ G.batch = G.block * Dims.state_size /\ Dims.num_heads = G.group_heads * G.group_count
        /\ Dims.state_size \in Nat \ {0} /\ Dims.head_dim \in Nat \ {0}
        /\ G.block = G.group_heads * Dims.head_dim
        /\ G.stride = C.batch \div C.streams /\ C.streams \in Nat \ {0}
    BY Geometry
  <1>2. CASE C.streams = 1
    <2>1. \A x, y \in Nat \ {0} : x <= x * y
      OBVIOUS
    <2> QED BY <1>1, <1>2, <2>1
  <1>3. CASE C.streams # 1
    <2>1. C.streams > 1 /\ G.stride >= Dims.proj_dim
      <3>1. C.streams > 1
        <4>1. \A x \in Nat \ {0} : x # 1 => x > 1
          OBVIOUS
        <4> QED BY <1>1, <1>3, <4>1, Zenon
      <3>2. C.batch \div C.streams >= Dims.proj_dim
        BY <3>1, AcceptedHolds DEF ValidGeometry
      <3> QED BY <1>1, <3>1, <3>2
    <2>2. /\ Dims.proj_dim = Dims.d_inner + Dims.conv_dim + Dims.num_heads
          /\ Dims.d_inner = Dims.num_heads * Dims.head_dim
      <3>1. PICK k \in DOMAIN LoadedPayload.layers : TRUE
        BY LayersOfPayload
      <3>2. ValidLayer(LoadedPayload.layers[k])
        BY <3>1, AcceptedHolds, LayersOfPayload DEF AcceptedPayload, ValidPayload
      <3> QED BY <3>2 DEF ValidLayer
    <2>3. {Dims.d_inner, Dims.conv_dim, Dims.num_heads, Dims.proj_dim} \subseteq Nat \ {0}
      BY DimsAssumption
    <2>4. G.block <= Dims.d_inner
      <3> DEFINE a == G.group_heads
                 b == G.group_count
                 h == Dims.head_dim
      <3>1. a \in Nat \ {0} /\ b \in Nat \ {0} /\ h \in Nat \ {0}
            /\ G.block = a * h /\ Dims.d_inner = (a * b) * h
        BY <1>1, <2>2
      <3> HIDE DEF a, b, h
      <3>2. (a * b) * h = (a * h) * b /\ a * h \in Nat \ {0}
        BY <3>1
      <3>3. \A x, y \in Nat \ {0} : x <= x * y
        OBVIOUS
      <3> QED BY <3>1, <3>2, <3>3
    <2>5. G.stride \in Int
      BY <1>1, Geometry
    <2> QED BY <1>1, <1>3, <2>1, <2>2, <2>3, <2>4, <2>5
  <1> QED BY <1>2, <1>3

LEMMA PowersTurn ==
  ASSUME Ready, NEW k \in Nat, Pow2[k] < G.batch
  PROVE  Turnable(Pow2[k]) /\ Turnable(-Pow2[k])
  <1>1. Pow2[k] \in Nat \ {0}
    BY Pow2Steps
  <1> DEFINE bits == IF C.streams = 1 THEN G.batch ELSE G.stride
  <1>2. ASSUME Pow2[k] < G.block PROVE Turnable(Pow2[k])
    <2>1. PICK n \in Nat \ {0} : Family(Powers(bits, 1), n) \in Range(Uses)
      <3> HIDE DEF Uses
      <3> QED BY UsesAre
    <2>2. bits \in Nat /\ Pow2[k] < bits
      <3>1. bits \in Int /\ G.block \in Nat \ {0} /\ G.block <= bits
        BY Geometry, StrideWide
      <3> QED BY <1>1, <1>2, <3>1
    <2>3. k \in 0 .. (Log2(bits) - 1) /\ k \in 0 .. (Log2(G.batch) - 1)
      <3> HIDE DEF bits
      <3> QED BY <2>2, BelowLog2, Geometry
    <2>4. 1 * Pow2[k] = Pow2[k]
      BY <1>1
    <2> HIDE DEF bits, Uses
    <2>5. Pow2[k] \in Powers(bits, 1) /\ Pow2[k] \in Powers(G.batch, 1)
      BY <2>3, <2>4 DEF Powers
    <2>6. Pow2[k] = 0 \/ Pow2[k] \in Required
      BY <2>5, AllRequired
    <2> QED BY <2>1, <2>5, <2>6, FamilyTurns
  <1>3. CASE Pow2[k] < G.block
    <2>1. k \in 0 .. (Log2(G.block) - 1)
      BY <1>3, BelowLog2, Geometry
    <2>2. (-1) * Pow2[k] \in Powers(G.block, -1)
      BY <2>1 DEF Powers
    <2>3. (-1) * Pow2[k] = -Pow2[k]
      BY <1>1
    <2> QED BY <1>2, <1>3, <2>2, <2>3, Families
  <1>4. CASE ~(Pow2[k] < G.block)
    <2>1. G.block \in Nat \ {0} /\ Dims.state_size \in Nat \ {0}
          /\ G.batch = G.block * Dims.state_size
      BY Geometry
    <2>2. PICK a \in Nat : Pow2[a] = G.block
      BY Geometry, Log2Least DEF PowerOfTwo
    <2>3. a <= k
      <3>1. SUFFICES ASSUME k + 1 <= a PROVE FALSE
        BY <2>2
      <3>2. Pow2[k + 1] <= Pow2[a] /\ Pow2[k + 1] = 2 * Pow2[k]
        BY <2>2, <3>1, Pow2Grows, Pow2Steps
      <3>3. G.block <= Pow2[k] /\ 2 * Pow2[k] <= G.block
        BY <1>1, <1>4, <2>1, <2>2, <3>2
      <3> QED BY <1>1, <2>1, <3>3
    <2> DEFINE j == k - a
    <2>4. j \in Nat /\ k = a + j
      BY <2>2, <2>3
    <2>5. Pow2[k] = G.block * Pow2[j] /\ Pow2[j] \in Nat \ {0}
      <3> HIDE DEF j
      <3>1. Pow2[a + j] = Pow2[a] * Pow2[j]
        BY <2>2, <2>4, Pow2Sum
      <3>2. Pow2[j] \in Nat \ {0}
        BY <2>4, Pow2Steps
      <3> QED BY <2>2, <2>4, <3>1, <3>2
    <2>6. Pow2[j] < Dims.state_size
      <3> DEFINE x == Pow2[j]
                 y == Dims.state_size
                 b == G.block
      <3>1. b * x < b * y /\ x \in Nat /\ y \in Nat /\ b \in Nat \ {0}
        BY <2>1, <2>5
      <3> HIDE DEF x, y, b
      <3>2. ~(y <= x)
        BY <3>1
      <3>3. x < y
        BY <3>1, <3>2
      <3> QED BY <3>3 DEF x, y
    <2>7. j \in 0 .. (Log2(Dims.state_size) - 1)
      <3> HIDE DEF j
      <3> QED BY <2>1, <2>4, <2>6, BelowLog2
    <2>8. (-G.block) * Pow2[j] \in Powers(Dims.state_size, -G.block)
      <3> HIDE DEF j
      <3> QED BY <2>7 DEF Powers
    <2>9. (-G.block) * Pow2[j] = -Pow2[k]
      <3> HIDE DEF j
      <3> QED BY <2>1, <2>5
    <2>10. G.block * Pow2[j] \in Powers(Dims.state_size, G.block)
      <3> HIDE DEF j
      <3> QED BY <2>7 DEF Powers
    <2> QED BY <2>5, <2>8, <2>9, <2>10, Families
  <1> QED BY <1>3, <1>4

-----------------------------------------------------------------------------
(* Shapes of the products *)

LEMMA CeilTyped ==
  ASSUME NEW a \in Nat \ {0}, NEW b \in Nat \ {0}
  PROVE  Ceil(a, b) \in Nat \ {0}
  <1>1. Ceil(a, b) \in Int
    BY DEF Ceil
  <1>2. Ceil(a, b) > 0
    <2> DEFINE x == a + b - 1
               q == x \div b
    <2>1. q \in Int /\ x \in Int /\ b <= x
      OBVIOUS
    <2>2. x % b = x - b * q /\ x % b < b
      OBVIOUS
    <2>3. SUFFICES ASSUME q <= 0 PROVE FALSE
      BY <2>1 DEF Ceil
    <2> HIDE DEF x, q
    <2>4. b * q <= 0 /\ b * q \in Int
      BY <2>1, <2>3
    <2>5. x - b * q >= b
      BY <2>1, <2>4
    <2> QED BY <2>1, <2>2, <2>4, <2>5
  <1> QED BY <1>1, <1>2

LEMMA ISqrtTyped ==
  ASSUME NEW n \in Nat
  PROVE  ISqrt(n) \in Nat
  <1> DEFINE S == {r \in 0 .. n : r * r <= n}
  <1>1. 0 \in S /\ S \subseteq Int /\ \A r \in S : r <= n
    OBVIOUS
  <1>2. PICK m \in S : \A y \in S : y <= m
    <2> HIDE DEF S
    <2>1. S \subseteq Int /\ S # {} /\ n \in Int /\ \A x \in S : x <= n
      BY <1>1
    <2> QED BY <2>1, GreatestOf
  <1>3. m \in 0 .. n /\ m * m <= n
    OBVIOUS
  <1>4. (m + 1) * (m + 1) > n
    <2>1. SUFFICES ASSUME (m + 1) * (m + 1) <= n PROVE FALSE
      BY <1>3
    <2>2. m + 1 <= (m + 1) * (m + 1)
      BY <1>3
    <2>3. m + 1 \in S
      BY <1>3, <2>1, <2>2
    <2> QED BY <1>2, <1>3, <2>3
  <1>5. \E r \in 0 .. n : r * r <= n /\ (r + 1) * (r + 1) > n
    BY <1>3, <1>4
  <1>6. ISqrt(n) \in 0 .. n
    BY <1>5, Zenon DEF ISqrt
  <1> QED BY <1>6

(* A shape without replicas, or with some: a record either way. *)
LEMMA ShapesAre ==
  ASSUME NEW replicas, NEW window, NEW n, NEW guard, NEW b
  PROVE  /\ DirectShape.replicas = 1
         /\ ShapeOf(replicas, window, n, guard).replicas = replicas
         /\ ShapeOf(replicas, window, n, guard).per_replica = Ceil(n, replicas)
  BY DEF ShapeOf, DirectShape

LEMMA ReplicatedTyped ==
  ASSUME NEW m \in Nat \ {0}, NEW n \in Nat \ {0}, NEW batch \in Nat \ {0}, NEW force \in Int,
         ResolveReplicatedShape(m, n, batch, force).replicas > 1
  PROVE  /\ ResolveReplicatedShape(m, n, batch, force).replicas \in Nat \ {0}
         /\ ResolveReplicatedShape(m, n, batch, force).per_replica
              = Ceil(n, ResolveReplicatedShape(m, n, batch, force).replicas)
  <1> DEFINE window   == n * Ceil(m + n, n)
             fitting  == Min2(n, batch \div window)
             replicas == IF force > 0 THEN Min2(fitting, force) ELSE fitting
  <1>1. window \in Nat \ {0}
    <2>1. m + n \in Nat \ {0}
      OBVIOUS
    <2>2. Ceil(m + n, n) \in Nat \ {0}
      BY <2>1, CeilTyped
    <2> QED BY <2>2
  <1>2. replicas \in Int
    <2>1. batch \div window \in Int
      <3> HIDE DEF window
      <3> QED BY <1>1
    <2> HIDE DEF window
    <2> QED BY <2>1 DEF Min2
  <1>3. ResolveReplicatedShape(m, n, batch, force)
          = IF replicas <= 1 THEN DirectShape ELSE ShapeOf(replicas, window, n, 0)
    BY DEF ResolveReplicatedShape
  <1> HIDE DEF replicas, window
  <1>4. CASE replicas <= 1
    BY <1>3, <1>4, ShapesAre
  <1>5. CASE ~(replicas <= 1)
    BY <1>2, <1>3, <1>5, ShapesAre
  <1> QED BY <1>4, <1>5

LEMMA InterleavedTyped ==
  ASSUME NEW m \in Nat \ {0}, NEW n \in Nat \ {0}, NEW batch \in Nat \ {0}, NEW force \in Int,
         ResolveInterleavedShape(m, n, batch, force).replicas > 1
  PROVE  /\ ResolveInterleavedShape(m, n, batch, force).replicas \in Nat \ {0}
         /\ ResolveInterleavedShape(m, n, batch, force).per_replica
              = Ceil(n, ResolveInterleavedShape(m, n, batch, force).replicas)
  <1> DEFINE room == (batch \div n) - 1
             most == Min2(n, IF force > 0 THEN Min2(room, force) ELSE room)
             Widest(r) == n * Ceil(m + r - 1, n)
             fits == {r \in 2 .. most : (r + 1) * Widest(r) <= batch}
             chosen == CHOOSE x \in fits : \A y \in fits : y <= x
  <1>1. most \in Int
    BY DEF Min2
  <1>2. ResolveInterleavedShape(m, n, batch, force)
          = IF fits = {} THEN ResolveReplicatedShape(m, n, batch, force)
            ELSE ShapeOf(chosen, Widest(chosen), n, 1)
    BY DEF ResolveInterleavedShape
  <1>3. CASE fits = {}
    <2> HIDE DEF fits
    <2> QED BY <1>2, <1>3, ReplicatedTyped
  <1>4. CASE fits # {}
    <2>1. fits \subseteq Int /\ \A x \in fits : x <= most
      BY <1>1
    <2>2. \A x \in fits : x \in Nat \ {0}
      BY <1>1
    <2>3. chosen \in fits
      <3> HIDE DEF fits, most
      <3>1. \E x \in fits : \A y \in fits : y <= x
        BY <1>1, <1>4, <2>1, GreatestOf
      <3> QED BY <3>1
    <2> HIDE DEF fits, chosen, Widest
    <2> QED BY <1>2, <1>4, <2>2, <2>3, ShapesAre
  <1> QED BY <1>3, <1>4

LEMMA ShapeTyped ==
  ASSUME Ready, NEW m \in Nat \ {0}, NEW n \in Nat \ {0},
         ProjectionShape(C, m, n).replicas > 1
  PROVE  /\ ProjectionShape(C, m, n).replicas \in Nat \ {0}
         /\ ProjectionShape(C, m, n).per_replica \in Nat \ {0}
         /\ ProjectionShape(C, m, n).baby \in Nat \ {0}
  <1> DEFINE shape == IF C.replicas < 0 THEN DirectShape
                      ELSE IF C.interleaved
                           THEN ResolveInterleavedShape(m, n, C.batch, C.replicas)
                           ELSE ResolveReplicatedShape(m, n, C.batch, C.replicas)
             baby == IF C.true_bsgs /\ shape.replicas > 1
                     THEN Max2(1, ISqrt(shape.per_replica)) ELSE 1
  <1>1. C.replicas \in Int /\ C.batch \in Nat \ {0}
    BY HostHolds, ConfigsAssumption, Geometry DEF Ready
  <1>2. ProjectionShape(C, m, n) = [shape EXCEPT !.logarithmic = C.logarithmic, !.baby = baby]
    BY DEF ProjectionShape
  <1>3. \/ shape = DirectShape
        \/ shape = ResolveInterleavedShape(m, n, C.batch, C.replicas)
        \/ shape = ResolveReplicatedShape(m, n, C.batch, C.replicas)
    OBVIOUS
  <1>4. {"replicas", "per_replica", "baby"} \subseteq DOMAIN shape
    <2>1. \A r, w, g : DOMAIN ShapeOf(r, w, n, g) = DOMAIN DirectShape
      BY DEF ShapeOf
    <2>2. {"replicas", "per_replica", "baby"} \subseteq DOMAIN DirectShape
      BY DEF DirectShape
    <2>3. shape = DirectShape \/ \E r, w, g : shape = ShapeOf(r, w, n, g)
      BY DEF ResolveInterleavedShape, ResolveReplicatedShape
    <2> HIDE DEF shape
    <2> QED BY <2>1, <2>2, <2>3
  <1> HIDE DEF shape
  <1>5. /\ ProjectionShape(C, m, n).replicas = shape.replicas
        /\ ProjectionShape(C, m, n).per_replica = shape.per_replica
        /\ ProjectionShape(C, m, n).baby = baby
    <2> HIDE DEF baby
    <2> QED BY <1>2, <1>4
  <1>6. shape.replicas > 1
    BY <1>5
  <1>7. shape.replicas \in Nat \ {0} /\ shape.per_replica = Ceil(n, shape.replicas)
    <2>1. shape # DirectShape
      BY <1>6, ShapesAre
    <2> QED BY <1>1, <1>3, <1>6, <2>1, ReplicatedTyped, InterleavedTyped
  <1>8. shape.per_replica \in Nat \ {0}
    BY <1>7, CeilTyped
  <1>9. baby \in Nat \ {0}
    <2>1. ISqrt(shape.per_replica) \in Nat
      BY <1>8, ISqrtTyped
    <2> QED BY <2>1 DEF Max2
  <1> QED BY <1>5, <1>7, <1>8, <1>9

-----------------------------------------------------------------------------
(* Logs: every rotation has its keys, every refresh its own bound, and every *)
(* plaintext is in time or comes from the table of a product               *)

TableUse(e) ==
  e[2] \in DOMAIN PlainCache /\ TableKey(e[2]) /\ e[3] = PlainCache[e[2]].level

GoodEvent(e) ==
  /\ e[1] = "rot" => Covered(e[2]) /\ e[2] \in Counted
  /\ e[1] = "boot" => Owned(e[2])
  /\ e[1] = "pt" => InTime(e) \/ TableUse(e)
Good(log) == \A e \in log : GoodEvent(e)

LEMMA UnaryGood ==
  ASSUME NEW x, NEW k, Good(x.log)
  PROVE  Good(Square(x).log) /\ Good(ScaleCt(x, k).log) /\ Good(AddScalar(x, k).log)
  BY DEF Square, ScaleCt, AddScalar, Made

LEMMA BinaryGood ==
  ASSUME NEW x, NEW y, Good(x.log), Good(y.log)
  PROVE  Good(AddCt(x, y).log) /\ Good(MulCt(x, y).log)
  BY DEF AddCt, MulCt, Made, Good

LEMMA SumGood ==
  ASSUME NEW cts, \A c \in cts : Good(c[2].log)
  PROVE  Good(SumCts(cts).log)
  <1>1. SumCts(cts).log = UNION {c[2].log : c \in cts}
    BY DEF SumCts, Made
  <1> QED BY <1>1 DEF Good

(* What cached_plain returns is in time where it was asked for.             *)
LEMMA CachedGood ==
  ASSUME NEW ct, NEW key, NEW values
  PROVE  GoodEvent(PlainUse(key, CachedPlain(key, values, ct.lvl), ct))
  <1> DEFINE plain == CachedPlain(key, values, ct.lvl)
             e == PlainUse(key, plain, ct)
  <1>1. plain.level \in {0, ct.lvl} \/ plain.level <= ct.lvl
    BY DEF CachedPlain, Hit, MissLevel
  <1> HIDE DEF plain
  <1>2. e[1] = "pt" /\ e[3] = plain.level /\ e[4] = ct.lvl
    BY DEF PlainUse
  <1>3. InTime(e)
    BY <1>1, <1>2 DEF InTime
  <1> QED BY <1>2, <1>3 DEF GoodEvent, plain

LEMMA PlainGood ==
  ASSUME NEW ct, NEW key, NEW plain, Good(ct.log), GoodEvent(PlainUse(key, plain, ct))
  PROVE  Good(MulPlain(ct, key, plain).log)
  BY DEF MulPlain, Made, Good

LEMMA MaskGood ==
  ASSUME NEW ct, NEW key, NEW mask, Good(ct.log)
  PROVE  Good(MulMask(ct, key, mask).log) /\ Good(AddConstVector(ct, key, mask).log)
  <1>1. GoodEvent(PlainUse(key, CachedPlain(key, mask, ct.lvl), ct))
    BY CachedGood
  <1>2. Good(MulMask(ct, key, mask).log)
    BY <1>1, PlainGood DEF MulMask
  <1>3. Good(AddConstVector(ct, key, mask).log)
    BY <1>1 DEF AddConstVector, Made, Good
  <1> QED BY <1>2, <1>3

LEMMA ChebyshevGood ==
  ASSUME NEW u, NEW c, Good(u.log)
  PROVE  Good(EvalChebyshev(u, c).log)
  BY DEF EvalChebyshev, Made

LEMMA TurnsGood ==
  ASSUME Ready, NEW S, \A a \in S : Turnable(a)
  PROVE  Good(Turns(S))
  <1>1. ASSUME NEW a \in S, a # 0 PROVE Covered(a) /\ a \in Counted
    <2>1. a \in Counted
      BY <1>1 DEF Turnable
    <2> QED BY <2>1, RequiredCovered DEF Counted, Required
  <1>2. ASSUME NEW e \in Turns(S) PROVE GoodEvent(e)
    <2>1. PICK a \in S : a # 0 /\ e = <<"rot", a>>
      BY DEF Turns
    <2> QED BY <1>1, <2>1 DEF GoodEvent
  <1> QED BY <1>2 DEF Good

LEMMA RotateGood ==
  ASSUME Ready, NEW ct, NEW amount, Good(ct.log), Turnable(amount)
  PROVE  Good(Rotate(ct, amount).log)
  <1>1. Good(Turns({amount}))
    BY TurnsGood
  <1> QED BY <1>1 DEF Rotate, Made, Good

LEMMA BabiesGood ==
  ASSUME Ready, NEW ct, NEW S, Good(ct.log), \A a \in S : Turnable(a)
  PROVE  Good(WithBabies(ct, S).log)
  <1>1. Good(Turns(S))
    BY TurnsGood
  <1> QED BY <1>1 DEF WithBabies, Made, Good

LEMMA DoubledGood ==
  ASSUME Ready, NEW ct, NEW stride, NEW steps, Good(ct.log),
         \A k \in 0 .. (steps - 1) : Turnable(stride * Pow2[k])
  PROVE  Good(Doubled(ct, stride, steps).log)
  <1>1. Good(Turns({stride * Pow2[k] : k \in 0 .. (steps - 1)}))
    <2> DEFINE S == {stride * Pow2[k] : k \in 0 .. (steps - 1)}
    <2>1. \A a \in S : Turnable(a)
      OBVIOUS
    <2> HIDE DEF S
    <2>2. Good(Turns(S))
      BY <2>1, TurnsGood
    <2> QED BY <2>2 DEF S
  <1> QED BY <1>1 DEF Doubled, Made, Good

LEMMA RotationSumGood ==
  ASSUME Ready, NEW ct, NEW count, NEW stride, NEW logarithmic, Good(ct.log),
         \A a \in Offsets(RotationSumSchedule(count, logarithmic), stride) : Turnable(a)
  PROVE  Good(RotationSum(ct, count, stride, logarithmic).log)
  <1>1. Good(Turns(Offsets(RotationSumSchedule(count, logarithmic), stride)))
    BY TurnsGood
  <1> QED BY <1>1 DEF RotationSum, Made, Good

(* The ladders of the circuit. *)
LEMMA BelowTurns ==
  ASSUME Ready, NEW n \in Nat, n <= G.batch, NEW k \in 0 .. (Log2(n) - 1)
  PROVE  Turnable(1 * Pow2[k]) /\ Turnable((-1) * Pow2[k])
  <1>1. k \in Nat /\ Pow2[k] \in Nat /\ Pow2[k] < n
    <2>1. k \in Nat
      BY Log2Least
    <2> QED BY <2>1, BelowLog2, Pow2Steps
  <1>2. Pow2[k] < G.batch
    BY <1>1, Geometry
  <1>3. 1 * Pow2[k] = Pow2[k] /\ (-1) * Pow2[k] = -Pow2[k]
    BY <1>1
  <1> QED BY <1>1, <1>2, <1>3, PowersTurn

LEMMA LaddersGood ==
  ASSUME Ready, NEW ct, Good(ct.log), NEW n \in Nat, n <= G.batch
  PROVE  Good(Doubled(ct, 1, Log2(n)).log) /\ Good(DoublingFill(ct, 1, Log2(n)).log)
  <1>1. Good(Doubled(ct, 1, Log2(n)).log)
    BY BelowTurns, DoubledGood
  <1>2. Good(Doubled(ct, -1, Log2(n)).log)
    BY BelowTurns, DoubledGood
  <1> QED BY <1>1, <1>2 DEF DoublingFill

LEMMA WidthsFit ==
  ASSUME Ready
  PROVE  /\ G.batch \in Nat /\ G.batch <= G.batch
         /\ G.block \in Nat /\ G.block <= G.batch
         /\ Dims.head_dim \in Nat /\ Dims.head_dim <= G.batch
         /\ G.stride \in Nat /\ G.stride <= G.batch
         /\ \A s \in 0 .. (C.streams - 1) : s * G.stride \in Nat /\ s * G.stride < G.batch
  <1> DEFINE b == G.batch
             w == G.block
             n == Dims.state_size
             h == Dims.head_dim
             q == C.streams
             t == G.stride
  <1>1. /\ {b, w, n, h, q, G.group_heads} \subseteq Nat \ {0}
        /\ b = w * n /\ w = G.group_heads * h /\ t = b \div q
    BY Geometry
  <1>2. \A x, y \in Nat \ {0} : x <= x * y /\ y <= x * y
    OBVIOUS
  <1>3. w <= b /\ h <= w
    <2> HIDE DEF b, w, n, h
    <2> QED BY <1>1, <1>2
  <1>4. t \in Nat /\ q * t <= b
    <2> HIDE DEF b, q, t
    <2>1. t \in Int /\ b % q = b - q * t /\ b % q \in 0 .. (q - 1)
      <3>1. b \in Nat \ {0} /\ q \in Nat \ {0}
        BY <1>1
      <3>2. b \div q \in Int
        BY <3>1
      <3>3. b % q = b - q * (b \div q)
        BY <3>1
      <3>4. b % q \in 0 .. (q - 1)
        BY <3>1
      <3> QED BY <1>1, <3>2, <3>3, <3>4
    <2>2. t >= 0
      <3>1. SUFFICES ASSUME t <= -1 PROVE FALSE
        BY <2>1
      <3>2. q * t <= -q
        BY <1>1, <2>1, <3>1
      <3> QED BY <1>1, <2>1, <3>2
    <2>3. q * t \in Int
      BY <1>1, <2>1
    <2> QED BY <1>1, <2>1, <2>2, <2>3
  <1>5. t <= q * t
    <2> HIDE DEF b, q, t
    <2> QED BY <1>1, <1>4
  <1>6. ASSUME NEW s \in 0 .. (q - 1) PROVE s * t \in Nat /\ s * t < b
    <2> HIDE DEF b, q, t
    <2>1. s \in Nat /\ s * t \in Nat /\ q * t \in Nat
      BY <1>1, <1>4
    <2>2. CASE t = 0
      BY <1>1, <2>2
    <2>3. CASE t > 0
      <3>1. s * t + t <= q * t
        <4>1. (s + 1) * t <= q * t
          BY <1>1, <1>4
        <4> QED BY <4>1, <2>1, <1>4
      <3> QED BY <3>1, <1>4, <2>1, <2>3, <1>1
    <2> QED BY <1>4, <2>2, <2>3
  <1>7. /\ b \in Nat /\ b <= b /\ w \in Nat /\ w <= b /\ h \in Nat /\ h <= b
        /\ t \in Nat /\ t <= b
    <2> HIDE DEF b, w, n, h, q, t
    <2>1. q * t \in Nat /\ b \in Nat /\ w \in Nat /\ h \in Nat
      BY <1>1, <1>4
    <2> QED BY <1>3, <1>4, <1>5, <2>1
  <1> QED BY <1>6, <1>7

LEMMA VarianceGood ==
  ASSUME Ready, NEW ct, Good(ct.log)
  PROVE  Good(NormVarianceSum(ct).log)
  <1>1. Good(FullBatchSum(ct).log)
    BY LaddersGood, WidthsFit DEF FullBatchSum
  <1>2. Good(Doubled(ct, 1, Log2(G.stride)).log)
    BY LaddersGood, WidthsFit
  <1> DEFINE based == MulMask(Doubled(ct, 1, Log2(G.stride)), <<"streambase">>, StreamBaseMask(G))
  <1>3. Good(based.log)
    BY <1>2, MaskGood
  <1>4. Good(DoublingFill(based, 1, Log2(G.stride)).log)
    <2> HIDE DEF based
    <2> QED BY <1>3, LaddersGood, WidthsFit
  <1> QED BY <1>1, <1>4 DEF NormVarianceSum

(* By powers of two below the batch, up or down. *)
LEMMA CompositeGood ==
  ASSUME Ready, NEW ct, Good(ct.log), NEW amount \in Int,
         -G.batch < amount, amount < G.batch
  PROVE  Good(RotateComposite(ct, amount).log)
  <1> DEFINE sign == IF amount < 0 THEN -1 ELSE 1
             magnitude == sign * amount
             S == {sign * Pow2[bit] : bit \in Bits(magnitude)}
  <1>1. magnitude \in Nat /\ magnitude + 1 <= G.batch /\ sign \in {-1, 1}
    BY Geometry
  <1>2. \A bit \in Bits(magnitude) : bit \in 0 .. (Log2(magnitude + 1) - 1)
    BY DEF Bits
  <1> HIDE DEF magnitude, sign
  <1>3. \A a \in S : Turnable(a)
    <2>1. ASSUME NEW bit \in Bits(magnitude)
          PROVE  Turnable(1 * Pow2[bit]) /\ Turnable((-1) * Pow2[bit])
      <3>1. magnitude + 1 \in Nat
        BY <1>1
      <3> QED BY <1>1, <1>2, <3>1, BelowTurns
    <2>2. sign = 1 \/ sign = -1
      BY <1>1
    <2> QED BY <2>1, <2>2
  <1> HIDE DEF S
  <1>4. Good(Turns(S))
    BY <1>3, TurnsGood
  <1>5. RotateComposite(ct, amount).log = ct.log \cup Turns(S)
    BY DEF RotateComposite, Made, S, magnitude, sign
  <1> QED BY <1>4, <1>5 DEF Good

(* The fills of the recurrent block. *)
LEMMA GroupLaddersGood ==
  ASSUME Ready, NEW ct, Good(ct.log)
  PROVE  /\ Good(Doubled(ct, G.block, Log2(Dims.state_size)).log)
         /\ Good(DoublingFill(ct, G.block, Log2(Dims.state_size)).log)
         /\ C.rep_blocks => Good(DoublingFill(ct, G.block - 1, Log2(Dims.state_size)).log)
  <1> DEFINE steps == Log2(Dims.state_size)
  <1>1. \A k \in 0 .. (steps - 1) : Turnable(G.block * Pow2[k]) /\ Turnable((-G.block) * Pow2[k])
    BY Families DEF Powers
  <1>2. C.rep_blocks => \A k \in 0 .. (steps - 1) : Turnable((-(G.block - 1)) * Pow2[k])
    <2>1. 1 - G.block = -(G.block - 1)
      BY Geometry
    <2> QED BY <2>1, Families DEF Powers
  <1> HIDE DEF steps
  <1>3. Good(Doubled(ct, G.block, steps).log)
    BY <1>1, DoubledGood
  <1>4. Good(Doubled(ct, -G.block, steps).log)
    BY <1>1, DoubledGood
  <1>5. C.rep_blocks => Good(Doubled(ct, -(G.block - 1), steps).log)
    BY <1>2, DoubledGood
  <1> QED BY <1>3, <1>4, <1>5 DEF DoublingFill, steps

-----------------------------------------------------------------------------
(* Matrix products *)

LEMMA SlotBsgsGood ==
  ASSUME Ready, NEW ct, NEW plains, NEW name, NEW k, NEW m, NEW n, Good(ct.log),
         \A a \in Needed(SlotBsgsRotations(m, n)) : Turnable(a),
         \A gi \in DOMAIN SlotBsgsGiants(m, n), b \in 0 .. (BabyStep - 1) :
           LET p == (gi - 1) * BabyStep + b
           IN  GoodEvent(<<"pt", <<name, k, p>>, plains[p + 1].level, ct.lvl>>)
  PROVE  Good(SlotBsgs(ct, plains, name, k, m, n).log)
  <1> DEFINE giants == SlotBsgsGiants(m, n)
             Position(gi, b) == (gi - 1) * BabyStep + b
             Used(gi) == {b \in 0 .. (BabyStep - 1) : plains[Position(gi, b) + 1].values # <<>>}
             Term(gi, b) == MulPlain(Rotate(ct, b), <<name, k, Position(gi, b)>>,
                                     plains[Position(gi, b) + 1])
             Inner(gi) == {<<b, Term(gi, b)>> : b \in Used(gi)}
             Giant(gi) == Rotate(SumCts(Inner(gi)), giants[gi])
             groups == {gi \in DOMAIN giants : Used(gi) # {}}
             cts == {<<gi, Giant(gi)>> : gi \in groups}
  <1>1. /\ \A b \in 1 .. (BabyStep - 1) : Turnable(b)
        /\ \A gi \in DOMAIN giants : Turnable(giants[gi])
    <2>1. /\ \A b \in 1 .. (BabyStep - 1) : b \in Needed(SlotBsgsRotations(m, n))
          /\ \A a \in Range(giants) \ {0} : a \in Needed(SlotBsgsRotations(m, n))
      <3> HIDE DEF giants
      <3>1. SlotBsgsRotations(m, n)[1] = 1 .. (BabyStep - 1)
            /\ SlotBsgsRotations(m, n)[2] = Range(giants) \ {0}
            /\ {1, 2} \subseteq DOMAIN SlotBsgsRotations(m, n)
        BY DEF SlotBsgsRotations, giants
      <3> QED BY <3>1 DEF Needed
    <2>2. \A gi \in DOMAIN giants : giants[gi] \in Range(giants)
      BY DEF Range
    <2> HIDE DEF giants
    <2> QED BY <2>1, <2>2 DEF Turnable
  <1>2. ASSUME NEW gi \in DOMAIN giants, NEW b \in 0 .. (BabyStep - 1)
        PROVE  Good(Term(gi, b).log)
    <2>1. b = 0 \/ b \in 1 .. (BabyStep - 1)
      BY BabyAssumption
    <2>2. Turnable(b)
      BY <1>1, <2>1 DEF Turnable
    <2>3. Good(Rotate(ct, b).log) /\ Rotate(ct, b).lvl = ct.lvl
      BY <2>2, RotateGood DEF Rotate, Made
    <2>4. GoodEvent(PlainUse(<<name, k, Position(gi, b)>>, plains[Position(gi, b) + 1],
                             Rotate(ct, b)))
      BY <1>2, <2>3 DEF PlainUse
    <2> QED BY <2>3, <2>4, PlainGood
  <1>3. ASSUME NEW gi \in DOMAIN giants PROVE Good(Giant(gi).log)
    <2>1. \A c \in Inner(gi) : Good(c[2].log)
      <3> HIDE DEF Term
      <3> QED BY <1>2, <1>3
    <2>2. Good(SumCts(Inner(gi)).log)
      <3> HIDE DEF Inner
      <3> QED BY <2>1, SumGood
    <2> HIDE DEF Inner, giants
    <2> QED BY <1>1, <1>3, <2>2, RotateGood
  <1>4. \A c \in cts : Good(c[2].log)
    <2> HIDE DEF Giant
    <2> QED BY <1>3
  <1>5. Good(SumCts(cts).log)
    <2> HIDE DEF cts
    <2> QED BY <1>4, SumGood
  <1>6. Good(WithBabies(SumCts(cts), 1 .. (BabyStep - 1)).log)
    <2> HIDE DEF cts
    <2> QED BY <1>1, <1>5, BabiesGood
  <1> QED BY <1>6 DEF SlotBsgs, SumOver

LEMMA ReplicatedSets ==
  ASSUME NEW n, NEW S, \A a \in Needed(ReplicatedRotations(n, S)) : Turnable(a)
  PROVE  /\ \A a \in Offsets(RotationSumSchedule(S.reps, S.logarithmic), -n) : Turnable(a)
         /\ \A a \in Offsets(RotationSumSchedule(S.replicas + S.guard, S.logarithmic),
                             -S.window) : Turnable(a)
         /\ S.baby > 1 => \A b \in 1 .. (S.baby - 1) : Turnable(b * S.replicas)
         /\ ~(S.baby > 1) => \A k \in 1 .. (S.per_replica - 1) : Turnable(k * S.replicas)
         /\ S.baby > 1 => \A g \in 1 .. (Ceil(S.per_replica, S.baby) - 1) :
              Turnable(g * S.baby * S.replicas)
         /\ \A a \in Offsets(RotationSumSchedule(S.replicas,
                               S.logarithmic \/ PowerOfTwo(S.replicas)), S.window + 1) :
              Turnable(a)
  <1> DEFINE all == ReplicatedRotations(n, S)
  <1>1. \A i \in 1 .. 5 : i \in DOMAIN all
    BY DEF ReplicatedRotations
  <1>2. /\ all[1] = Offsets(RotationSumSchedule(S.reps, S.logarithmic), -n)
        /\ all[2] = Offsets(RotationSumSchedule(S.replicas + S.guard, S.logarithmic), -S.window)
        /\ S.baby > 1 => all[3] = {b * S.replicas : b \in 1 .. (S.baby - 1)}
        /\ ~(S.baby > 1) => all[3] = {k * S.replicas : k \in 1 .. (S.per_replica - 1)}
        /\ S.baby > 1 => all[4] = {g * S.baby * S.replicas :
                                     g \in 1 .. (Ceil(S.per_replica, S.baby) - 1)}
        /\ all[5] = Offsets(RotationSumSchedule(S.replicas,
                              S.logarithmic \/ PowerOfTwo(S.replicas)), S.window + 1)
    BY DEF ReplicatedRotations, FoldSchedule
  <1>3. \A i \in 1 .. 5 : \A a \in all[i] : Turnable(a)
    <2> HIDE DEF all
    <2>1. Needed(all) = UNION {all[i] : i \in DOMAIN all} /\ \A a \in Needed(all) : Turnable(a)
      BY DEF Needed, all
    <2> QED BY <1>1, <2>1
  <1> HIDE DEF all
  <1>4. /\ \A a \in all[1] : Turnable(a)
        /\ \A a \in all[2] : Turnable(a)
        /\ \A a \in all[3] : Turnable(a)
        /\ \A a \in all[4] : Turnable(a)
        /\ \A a \in all[5] : Turnable(a)
    BY <1>3
  <1> QED BY <1>2, <1>4

LEMMA ReplicatedBsgsGood ==
  ASSUME Ready, NEW ct, NEW w, NEW name, NEW l, NEW m, NEW n, NEW S, Good(ct.log),
         S.replicas \in Nat \ {0}, S.per_replica \in Nat \ {0}, S.baby \in Nat \ {0},
         \A a \in Needed(ReplicatedRotations(n, S)) : Turnable(a)
  PROVE  Good(ReplicatedBsgs(ct, w, name, l, m, n, S).log)
  <1> DEFINE filled == Replicated(ct, n, S)
             giants == Ceil(S.per_replica, S.baby)
             fused == S.baby > 1 /\ FusedAllowed(S, giants, name)
             Key(k) == <<name, l, k>>
             Mask(k) == ReplicatedPreMask(w, m, n, k, S, G.batch)
             used == {k \in 0 .. (S.per_replica - 1) :
                        fused \/ Hit(Key(k), filled.lvl) \/ ~IsZero(Mask(k))}
             Turned(k) == Rotate(filled, (IF S.baby > 1 THEN k % S.baby ELSE k) * S.replicas)
             Term(k) == MulPlain(Turned(k), Key(k), CachedPlain(Key(k), Mask(k), filled.lvl))
             InGiant(g) == {k \in used : k \div S.baby = g}
             Terms(T) == {<<k, Term(k)>> : k \in T}
             Giant(g) ==
               LET sum == SumCts(Terms(InGiant(g)))
                   by == g * S.baby * S.replicas
               IN  IF ~fused THEN Rotate(sum, by)
                   ELSE Made(Rot(sum.v, by), sum.lvl,
                             sum.log \cup Turns(IF g = 0 THEN {} ELSE {S.baby * S.replicas}))
             groups == {g \in 0 .. (giants - 1) : InGiant(g) # {}}
             cts == {<<g, Giant(g)>> : g \in groups}
             product == IF S.baby <= 1 THEN SumCts(Terms(used)) ELSE SumCts(cts)
             babies == {b * S.replicas : b \in 1 .. (S.baby - 1)}
  <1>1. Good(filled.log)
    <2>1. Good(RotationSum(ct, S.reps, -n, S.logarithmic).log)
      BY ReplicatedSets, RotationSumGood
    <2> QED BY <2>1, ReplicatedSets, RotationSumGood DEF Replicated
  <1> HIDE DEF filled
  <1>2. /\ S.baby > 1 => \A b \in 1 .. (S.baby - 1) : Turnable(b * S.replicas)
        /\ ~(S.baby > 1) => \A k \in 1 .. (S.per_replica - 1) : Turnable(k * S.replicas)
        /\ S.baby > 1 => \A g \in 1 .. (giants - 1) : Turnable(g * S.baby * S.replicas)
    BY ReplicatedSets
  <1>3. 0 * S.replicas = 0 /\ Turnable(0)
    BY DEF Turnable
  <1>4. \A a \in babies : Turnable(a)
    <2>1. CASE S.baby > 1
      BY <1>2, <2>1
    <2>2. CASE ~(S.baby > 1)
      <3>1. 1 .. (S.baby - 1) = {}
        BY <2>2
      <3> QED BY <3>1
    <2> QED BY <2>1, <2>2
  <1>5. ASSUME NEW k \in used PROVE Good(Term(k).log)
    <2>1. k \in 0 .. (S.per_replica - 1)
      OBVIOUS
    <2> HIDE DEF used
    <2>2. Turnable((IF S.baby > 1 THEN k % S.baby ELSE k) * S.replicas)
      <3>1. CASE S.baby > 1
        <4>1. k % S.baby \in 0 .. (S.baby - 1)
          BY <2>1, <3>1
        <4>2. ASSUME NEW b \in 0 .. (S.baby - 1) PROVE Turnable(b * S.replicas)
          <5>1. b = 0 \/ b \in 1 .. (S.baby - 1)
            OBVIOUS
          <5> QED BY <1>2, <1>3, <3>1, <5>1
        <4> QED BY <3>1, <4>1, <4>2
      <3>2. CASE ~(S.baby > 1)
        <4>1. k = 0 \/ k \in 1 .. (S.per_replica - 1)
          BY <2>1
        <4> QED BY <1>2, <1>3, <3>2, <4>1
      <3> QED BY <3>1, <3>2
    <2>3. Good(Turned(k).log) /\ Turned(k).lvl = filled.lvl
      BY <1>1, <2>2, RotateGood DEF Rotate, Made
    <2> HIDE DEF Turned, Mask
    <2>4. GoodEvent(PlainUse(Key(k), CachedPlain(Key(k), Mask(k), filled.lvl), Turned(k)))
      BY <2>3, CachedGood
    <2> QED BY <2>3, <2>4, PlainGood
  <1>6. ASSUME NEW T \in SUBSET used PROVE Good(SumCts(Terms(T)).log)
    <2>1. \A c \in Terms(T) : Good(c[2].log)
      <3> HIDE DEF Term, used
      <3> QED BY <1>5, <1>6
    <2> HIDE DEF Terms
    <2> QED BY <2>1, SumGood
  <1>7. ASSUME NEW g \in groups, S.baby > 1 PROVE Good(Giant(g).log)
    <2> DEFINE sum == SumCts(Terms(InGiant(g)))
               by == g * S.baby * S.replicas
    <2>1. Good(sum.log)
      <3>1. InGiant(g) \in SUBSET used
        OBVIOUS
      <3> HIDE DEF InGiant, Terms
      <3> QED BY <1>6, <3>1
    <2>2. g \in 0 .. (giants - 1) /\ giants \in Int
      BY DEF Ceil
    <2> HIDE DEF sum, giants
    <2>3. g = 0 \/ g \in 1 .. (giants - 1)
      BY <2>2
    <2>4. Turnable(by)
      <3>1. 0 * S.baby * S.replicas = 0
        OBVIOUS
      <3> QED BY <1>2, <1>3, <1>7, <2>3, <3>1
    <2>5. g # 0 => Turnable(S.baby * S.replicas)
      <3>1. SUFFICES ASSUME g # 0 PROVE Turnable(S.baby * S.replicas)
        OBVIOUS
      <3>2. 1 \in 1 .. (giants - 1)
        BY <2>2, <2>3, <3>1
      <3>3. 1 * S.baby * S.replicas = S.baby * S.replicas
        OBVIOUS
      <3> QED BY <1>2, <1>7, <3>2, <3>3
    <2>6. Good(Rotate(sum, by).log)
      <3> HIDE DEF by
      <3> QED BY <2>1, <2>4, RotateGood
    <2>7. Good(Turns(IF g = 0 THEN {} ELSE {S.baby * S.replicas}))
      <3> DEFINE by0 == IF g = 0 THEN {} ELSE {S.baby * S.replicas}
      <3>1. \A a \in by0 : Turnable(a)
        BY <2>5
      <3> HIDE DEF by0
      <3>2. Good(Turns(by0))
        BY <3>1, TurnsGood
      <3> QED BY <3>2 DEF by0
    <2>8. \/ Giant(g) = Rotate(sum, by)
          \/ Giant(g).log = sum.log \cup Turns(IF g = 0 THEN {} ELSE {S.baby * S.replicas})
      BY DEF sum, Made
    <2> HIDE DEF Giant
    <2> QED BY <2>1, <2>6, <2>7, <2>8 DEF Good
  <1>8. Good(product.log)
    <2>1. CASE S.baby <= 1
      <3>1. used \in SUBSET used
        OBVIOUS
      <3>2. Good(SumCts(Terms(used)).log)
        <4> HIDE DEF Terms, used
        <4> QED BY <1>6, <3>1
      <3> QED BY <2>1, <3>2
    <2>2. CASE ~(S.baby <= 1)
      <3>1. \A c \in cts : Good(c[2].log)
        <4>1. S.baby > 1
          BY <2>2
        <4> HIDE DEF Giant, groups
        <4> QED BY <1>7, <4>1
      <3>2. Good(SumCts(cts).log)
        <4> HIDE DEF cts
        <4> QED BY <3>1, SumGood
      <3> HIDE DEF cts, Terms, used
      <3> QED BY <2>2, <3>2
    <2> HIDE DEF product
    <2> QED BY <2>1, <2>2
  <1> HIDE DEF babies, product
  <1>9. Good(WithBabies(product, babies).log)
    BY <1>4, <1>8, BabiesGood
  <1>10. Good(RotationSum(WithBabies(product, babies), S.replicas, S.window + 1,
                          S.logarithmic \/ PowerOfTwo(S.replicas)).log)
    BY <1>9, ReplicatedSets, RotationSumGood
  <1>11. ReplicatedBsgs(ct, w, name, l, m, n, S)
           = RotationSum(WithBabies(product, babies), S.replicas, S.window + 1,
                         S.logarithmic \/ PowerOfTwo(S.replicas))
    BY Zenon DEF ReplicatedBsgs, Fused, ReplicatedTerms, SumOver, babies, product, filled
  <1> QED BY <1>10, <1>11

-----------------------------------------------------------------------------
(* Placements of the recurrent block *)

LEMMA Bases ==
  ASSUME Ready
  PROVE  /\ {G.block, G.group_heads, G.group_count, Dims.head_dim, Dims.state_size,
             Dims.num_heads} \subseteq Nat \ {0}
         /\ {G.b_base, G.c_base, G.xbc0, G.dt0} \subseteq Nat
         /\ {G.b_base, G.c_base} = {Dims.d_inner, Dims.d_inner + Dims.state_size}
  <1>1. {Dims.d_inner, Dims.state_size, Dims.conv_dim, Dims.num_heads, Dims.head_dim}
          \subseteq Nat \ {0}
    BY DimsAssumption
  <1>2. /\ G.xbc0 = Dims.d_inner /\ G.dt0 = Dims.d_inner + Dims.conv_dim
        /\ G.b_base = Dims.d_inner /\ G.c_base = Dims.d_inner + Dims.state_size
    BY ReadyHolds DEF DerivePacking
  <1> QED BY <1>1, <1>2, Geometry

LEMMA StateBlocksGood ==
  ASSUME Ready, NEW conv, Good(conv.log), NEW base \in {G.b_base, G.c_base}, ~C.rep_blocks
  PROVE  Good(PlaceStateBlocks(conv, base).log)
  <1> DEFINE stride == G.block - 1
             Term(a, b) == MulMask(Rotate(conv, base - stride * b),
                             <<"unit", G.group_heads * a + G.block * b>>,
                             UnitMask(G, G.group_heads * a + G.block * b))
             Terms(a) == {<<b, Term(a, b)>> : b \in 0 .. (G.group_heads - 1)}
             Placed(a) == Rotate(SumCts(Terms(a)), -G.group_heads * stride * a)
             giants == 0 .. ((Dims.state_size \div G.group_heads) - 1)
             cts == {<<a, Placed(a)>> : a \in giants}
  <1>1. ASSUME NEW a, NEW b \in 0 .. (G.group_heads - 1) PROVE Good(Term(a, b).log)
    <2>1. base - stride * b \in BlockBabies(G)
      BY DEF BlockBabies
    <2>2. Turnable(base - stride * b)
      BY <2>1, Families
    <2>3. Good(Rotate(conv, base - stride * b).log)
      <3> HIDE DEF stride
      <3> QED BY <2>2, RotateGood
    <2> HIDE DEF stride
    <2> QED BY <2>3, MaskGood
  <1>2. ASSUME NEW a PROVE Good(SumCts(Terms(a)).log)
    <2>1. \A c \in Terms(a) : Good(c[2].log)
      <3> HIDE DEF Term
      <3> QED BY <1>1
    <2> HIDE DEF Terms
    <2> QED BY <2>1, SumGood
  <1>3. ASSUME NEW a \in giants PROVE Turnable(-G.group_heads * stride * a)
    <2> DEFINE q == Dims.state_size \div G.group_heads
               w == G.group_heads
               s == G.block - 1
    <2>1. w \in Int /\ s \in Int /\ q \in Int /\ a \in 0 .. (q - 1)
      BY Bases
    <2>2. \A k \in Multiples(q, -w * s) : Turnable(k)
      BY Families
    <2> HIDE DEF q, w, s
    <2>3. CASE a = 0
      <3>1. -w * s * a = 0
        BY <2>1, <2>3
      <3> QED BY <3>1 DEF Turnable, w, s
    <2>4. CASE a # 0
      <3>1. a \in 1 .. (q - 1)
        BY <2>1, <2>4
      <3>2. (-w * s) * a \in Multiples(q, -w * s)
        BY <3>1 DEF Multiples
      <3>3. (-w * s) * a = -w * s * a
        BY <2>1
      <3>4. Turnable(-w * s * a)
        BY <2>2, <3>2, <3>3
      <3> QED BY <3>4 DEF w, s
    <2> QED BY <2>3, <2>4
  <1>4. ASSUME NEW a \in giants PROVE Good(Placed(a).log)
    <2> HIDE DEF Terms, stride, giants
    <2> QED BY <1>2, <1>3, <1>4, RotateGood
  <1>5. \A c \in cts : Good(c[2].log)
    <2> HIDE DEF Placed, giants
    <2> QED BY <1>4
  <1>6. Good(SumCts(cts).log)
    <2> HIDE DEF cts
    <2> QED BY <1>5, SumGood
  <1>7. Good(DoublingFill(SumCts(cts), 1, Log2(G.block)).log)
    <2> HIDE DEF cts
    <2> QED BY <1>6, LaddersGood, WidthsFit
  <1>8. PlaceStateBlocks(conv, base) = DoublingFill(SumCts(cts), 1, Log2(G.block))
    BY Zenon DEF PlaceStateBlocks, SumOver
  <1> QED BY <1>7, <1>8

LEMMA ExpandGood ==
  ASSUME Ready, NEW conv, Good(conv.log), NEW base \in {G.b_base, G.c_base}
  PROVE  Good(BcExpand(conv, base).log)
  <1>1. CASE ~C.rep_blocks
    BY <1>1, StateBlocksGood DEF BcExpand
  <1>2. CASE C.rep_blocks
    <2> DEFINE source == MulMask(conv, <<"bc_source">>, BlockMask(G, G.b_base, 2 * Dims.state_size))
               copies == DoublingFill(Rotate(source, base), G.block - 1, Log2(Dims.state_size))
               seeded == MulMask(copies, <<"state_seed">>, StateSeedMask(G))
    <2>1. Good(source.log)
      BY MaskGood
    <2>2. Good(Rotate(source, base).log)
      <3> HIDE DEF source
      <3>1. Turnable(base)
        BY <1>2, Families
      <3> QED BY <2>1, <3>1, RotateGood
    <2>3. Good(copies.log)
      <3> HIDE DEF source
      <3> QED BY <1>2, <2>2, GroupLaddersGood
    <2>4. Good(seeded.log)
      <3> HIDE DEF copies
      <3> QED BY <2>3, MaskGood
    <2>5. Good(DoublingFill(seeded, 1, Log2(G.block)).log)
      <3> HIDE DEF seeded
      <3> QED BY <2>4, LaddersGood, WidthsFit
    <2>6. BcExpand(conv, base) = DoublingFill(seeded, 1, Log2(G.block))
      BY <1>2 DEF BcExpand, PlaceStateBlocksReplicated
    <2> QED BY <2>5, <2>6
  <1> QED BY <1>1, <1>2

LEMMA PlacedGood ==
  ASSUME Ready, NEW shifted, Good(shifted.log),
         NEW heads \in SUBSET (0 .. (PlacedHeads(Dims, G, C) - 1))
  PROVE  Good(PlacedHeadsSum(shifted, heads).log)
  <1> DEFINE Term(h) == Rotate(MulMask(shifted, <<"unit", h>>, UnitMask(G, h)),
                               -(Dims.head_dim - 1) * h)
             cts == {<<h, Term(h)>> : h \in heads}
  <1>1. ASSUME NEW h \in heads PROVE Turnable(-(Dims.head_dim - 1) * h)
    <2> DEFINE q == PlacedHeads(Dims, G, C)
               d == Dims.head_dim
    <2>1. h \in 0 .. (q - 1) /\ q \in Int /\ d \in Int
      BY Bases DEF PlacedHeads
    <2>2. \A k \in Multiples(q, 1 - d) : Turnable(k)
      BY Families
    <2> HIDE DEF q, d
    <2>3. CASE h = 0
      <3>1. -(d - 1) * h = 0
        BY <2>1, <2>3
      <3> QED BY <3>1 DEF Turnable, d
    <2>4. CASE h # 0
      <3>1. h \in 1 .. (q - 1)
        BY <2>1, <2>4
      <3>2. (1 - d) * h \in Multiples(q, 1 - d)
        BY <3>1 DEF Multiples
      <3>3. (1 - d) * h = -(d - 1) * h
        BY <2>1
      <3>4. Turnable(-(d - 1) * h)
        BY <2>2, <3>2, <3>3
      <3> QED BY <3>4 DEF d
    <2> QED BY <2>3, <2>4
  <1>2. ASSUME NEW h \in heads PROVE Good(Term(h).log)
    <2>1. Good(MulMask(shifted, <<"unit", h>>, UnitMask(G, h)).log)
      BY MaskGood
    <2> QED BY <1>1, <1>2, <2>1, RotateGood
  <1>3. \A c \in cts : Good(c[2].log)
    <2> HIDE DEF Term
    <2> QED BY <1>2
  <1>4. Good(SumCts(cts).log)
    <2> HIDE DEF cts
    <2> QED BY <1>3, SumGood
  <1> QED BY <1>4, Zenon DEF PlacedHeadsSum, SumOver

LEMMA PlaceHeadsGood ==
  ASSUME Ready, NEW source, Good(source.log), NEW g \in 0 .. (G.group_count - 1), NEW kept,
         ~C.shared
  PROVE  Good(PlaceHeads(source, g, kept).log)
  <1> DEFINE local == {h \in 0 .. (G.group_heads - 1) : G.group_heads * g + h \in kept}
             shifted == Rotate(source, G.dt0 + G.group_heads * g)
             placed == PlacedHeadsSum(shifted, local)
             filled == DoublingFill(placed, 1, Log2(Dims.head_dim))
  <1>1. Good(shifted.log)
    BY Families, RotateGood
  <1>2. Good(placed.log)
    <2>1. local \in SUBSET (0 .. (PlacedHeads(Dims, G, C) - 1))
      BY DEF PlacedHeads
    <2> HIDE DEF shifted, local
    <2> QED BY <1>1, <2>1, PlacedGood
  <1>3. Good(filled.log)
    <2> HIDE DEF placed
    <2> QED BY <1>2, LaddersGood, WidthsFit
  <1>4. Good(DoublingFill(filled, G.block, Log2(Dims.state_size)).log)
    <2> HIDE DEF filled
    <2> QED BY <1>3, GroupLaddersGood
  <1> QED BY <1>4, Zenon DEF PlaceHeads

LEMMA PlaceAllHeadsGood ==
  ASSUME Ready, NEW source, Good(source.log), NEW kept \in SUBSET Heads, C.shared
  PROVE  Good(PlaceAllHeads(source, kept).log)
  <1> DEFINE shifted == Rotate(source, G.dt0)
             placed == PlacedHeadsSum(shifted, kept)
  <1>1. Good(shifted.log)
    BY Families, RotateGood
  <1>2. Good(placed.log)
    <2>1. kept \in SUBSET (0 .. (PlacedHeads(Dims, G, C) - 1))
      BY DEF PlacedHeads, Heads
    <2> HIDE DEF shifted
    <2> QED BY <1>1, <2>1, PlacedGood
  <1>3. Good(DoublingFill(placed, 1, Log2(Dims.head_dim)).log)
    <2> HIDE DEF placed
    <2> QED BY <1>2, LaddersGood, WidthsFit
  <1> QED BY <1>3, Zenon DEF PlaceAllHeads

(* To the first group and back. *)
LEMMA GroupTurns ==
  ASSUME Ready, NEW g \in 0 .. (G.group_count - 1)
  PROVE  Turnable(G.block * g) /\ Turnable(-G.block * g)
  <1> DEFINE q == G.group_count
             w == G.block
  <1>1. q \in Int /\ w \in Int /\ g \in 0 .. (q - 1)
    BY Bases
  <1>2. /\ \A a \in Multiples(q, w) : Turnable(a)
        /\ \A a \in Multiples(q, -w) : Turnable(a)
    BY Families
  <1> HIDE DEF q, w
  <1>3. CASE g = 0
    <2>1. w * g = 0 /\ -w * g = 0
      BY <1>1, <1>3
    <2> QED BY <2>1 DEF Turnable, w
  <1>4. CASE g # 0
    <2>1. g \in 1 .. (q - 1)
      BY <1>1, <1>4
    <2>2. w * g \in Multiples(q, w) /\ (-w) * g \in Multiples(q, -w)
      BY <2>1 DEF Multiples
    <2>3. (-w) * g = -w * g
      BY <1>1
    <2>4. Turnable(w * g) /\ Turnable(-w * g)
      BY <1>2, <2>2, <2>3
    <2> QED BY <2>4 DEF w
  <1> QED BY <1>3, <1>4

(* A masked block, moved to the first and spread over the state. *)
LEMMA SpreadGood ==
  ASSUME Ready, NEW ct, NEW key, NEW mask, Good(ct.log), NEW g \in 0 .. (G.group_count - 1)
  PROVE  Good(DoublingFill(Rotate(MulMask(ct, key, mask), G.block * g),
                           G.block, Log2(Dims.state_size)).log)
  <1> DEFINE masked == MulMask(ct, key, mask)
             moved == Rotate(masked, G.block * g)
  <1>1. Good(masked.log)
    BY MaskGood
  <1>2. Good(moved.log)
    <2> HIDE DEF masked
    <2> QED BY <1>1, GroupTurns, RotateGood
  <1>3. Good(DoublingFill(moved, G.block, Log2(Dims.state_size)).log)
    <2> HIDE DEF moved
    <2> QED BY <1>2, GroupLaddersGood
  <1> QED BY <1>3

LEMMA ExtractGood ==
  ASSUME Ready, NEW ct, Good(ct.log), NEW g \in 0 .. (G.group_count - 1)
  PROVE  Good(ExtractSharedHeadGroup(ct, g).log)
  BY SpreadGood DEF ExtractSharedHeadGroup

LEMMA ExpandXGood ==
  ASSUME Ready, NEW ct, Good(ct.log), NEW g \in 0 .. (G.group_count - 1), NEW k
  PROVE  Good(ExpandX(ct, g, k).log)
  <1> DEFINE mask == IF C.normalized THEN NormalizedUpdateMask(Layer(k), G, C, g)
                     ELSE BlockMask(G, G.block * g, G.block)
             key == IF C.normalized THEN <<"state_x", k, g>> ELSE <<"xblock", g>>
  <1>1. ExpandX(ct, g, k) = DoublingFill(Rotate(MulMask(ct, key, mask), G.block * g),
                                         G.block, Log2(Dims.state_size))
    BY Zenon DEF ExpandX
  <1> HIDE DEF mask, key
  <1> QED BY <1>1, SpreadGood

LEMMA ReadoutGood ==
  ASSUME Ready, NEW st, NEW c, Good(st.log), Good(c.log),
         NEW g \in 0 .. (G.group_count - 1), NEW k
  PROVE  Good(ReadoutGroup(st, c, g, k).log)
  <1> DEFINE sum == Doubled(MulCt(st, c), G.block, Log2(Dims.state_size))
             mask == IF C.normalized THEN NormalizedReadoutMask(Layer(k), G, C, g)
                     ELSE BlockMask(G, 0, G.block)
             key == IF C.normalized THEN <<"state_readout", k, g>> ELSE <<"group">>
             masked == MulMask(sum, key, mask)
  <1>1. Good(sum.log)
    <2>1. Good(MulCt(st, c).log)
      BY BinaryGood
    <2> QED BY <2>1, GroupLaddersGood
  <1>2. Good(masked.log)
    <2> HIDE DEF sum, mask, key
    <2> QED BY <1>1, MaskGood
  <1>3. Good(Rotate(masked, -G.block * g).log)
    <2> HIDE DEF masked
    <2> QED BY <1>2, GroupTurns, RotateGood
  <1> QED BY <1>3, Zenon DEF ReadoutGroup

LEMMA JointGood ==
  ASSUME NEW u, NEW joint, NEW c, Good(u.log)
  PROVE  Good(JointRoot(u, joint, c).log)
  <1>1. \E powers : JointRoot(u, joint, c).log = u.log \cup JointUses(u, powers)
    BY Zenon DEF JointRoot, Made
  <1>2. ASSUME NEW powers PROVE Good(JointUses(u, powers))
    <2> DEFINE key == <<"joint_streaming">>
               Use(ct) == PlainUse(key, CachedPlain(key, <<>>, ct.lvl), ct)
    <2>1. \A ct : GoodEvent(Use(ct))
      BY CachedGood
    <2>2. JointUses(u, powers) = {Use(JointOnes)} \cup {Use(JointT(u, i)) : i \in powers}
      BY DEF JointUses
    <2> HIDE DEF Use
    <2> QED BY <2>1, <2>2 DEF Good
  <1> QED BY <1>1, <1>2 DEF Good

-----------------------------------------------------------------------------
(* Bounds *)

LEMMA PlanBounds ==
  ASSUME NEW L, NEW g, NEW c
  PROVE  /\ LayerPlan(L, g, c).points = TrustedBounds(L).points
         /\ LayerPlan(L, g, c).fifo_bound = TrustedBounds(L).fifo
         /\ LayerPlan(L, g, c).group_bounds
              = IF c.normalized THEN [n \in 1 .. g.group_count |-> 2] ELSE GroupBounds(L, g)
         /\ LayerPlan(L, g, c).state_bound = IF c.normalized THEN 2 ELSE TrustedBounds(L).state
  BY DEF LayerPlan, Slots

LEMMA TrustedTyped ==
  ASSUME Ready, NEW k \in DOMAIN Layered
  PROVE  /\ TrustedBounds(Layered[k]).fifo \in Nat
         /\ TrustedBounds(Layered[k]).state \in Nat
         /\ TrustedBounds(Layered[k]).heads \in Seq(Nat)
         /\ DOMAIN TrustedBounds(Layered[k]).points \subseteq CalibratedNames
         /\ \A name \in DOMAIN TrustedBounds(Layered[k]).points :
              TrustedBounds(Layered[k]).points[name] \in Nat
         /\ TrustedBounds(Layered[k]).heads # <<>> =>
              Len(TrustedBounds(Layered[k]).heads) = Dims.num_heads
  <1> DEFINE bounds == Layered[k].bounds
  <1>1. /\ bounds \in [source : STRING, state : Nat, fifo : Nat, heads : Seq(Nat),
                        rows : Seq(Nat), points : {bounds.points}]
        /\ bounds.points \in [DOMAIN bounds.points -> Nat]
        /\ DOMAIN bounds.points \subseteq CalibratedNames
    BY LayersOfPayload, PayloadsAssumption
  <1>2. bounds.heads # <<>> => Len(bounds.heads) = Dims.num_heads
    BY AcceptedHolds, LayersOfPayload DEF AcceptedPayload, ValidPayload, ValidLayer
  <1>3. TrustedBounds(Layered[k]) =
          IF bounds.source = "calibration_text" THEN bounds
          ELSE [bounds EXCEPT !.state = 0, !.heads = <<>>, !.rows = <<>>, !.fifo = 0, !.points = <<>>]
    BY DEF TrustedBounds
  <1> HIDE DEF bounds
  <1>4. CASE bounds.source = "calibration_text"
    <2>1. TrustedBounds(Layered[k]) = bounds
      BY <1>3, <1>4
    <2> QED BY <1>1, <1>2, <2>1
  <1>5. CASE bounds.source # "calibration_text"
    <2> DEFINE none == [bounds EXCEPT !.state = 0, !.heads = <<>>, !.rows = <<>>, !.fifo = 0,
                                      !.points = <<>>]
    <2>1. /\ none.fifo = 0 /\ none.state = 0 /\ none.heads = <<>> /\ none.points = <<>>
      BY <1>1
    <2>2. TrustedBounds(Layered[k]) = none
      BY <1>3, <1>5
    <2> HIDE DEF none
    <2>3. none.heads \in Seq(Nat) /\ DOMAIN none.points = {}
      BY <2>1
    <2>4. none.fifo \in Nat /\ none.state \in Nat /\ DOMAIN none.points \subseteq CalibratedNames
          /\ \A name \in DOMAIN none.points : none.points[name] \in Nat
      BY <2>1, <2>3
    <2> QED BY <2>1, <2>2, <2>3, <2>4
  <1> QED BY <1>4, <1>5

LEMMA Bounded ==
  ASSUME NEW f, NEW m \in Nat, \A i \in 1 .. m : f[i] \in Nat
  PROVE  \E b \in Nat : \A i \in 1 .. m : f[i] <= b
  <1> DEFINE S == {n \in Nat : n <= m => \E b \in Nat : \A i \in 1 .. n : f[i] <= b}
  <1>1. 0 \in S
    <2>1. 1 .. 0 = {}
      OBVIOUS
    <2> QED BY <2>1
  <1>2. ASSUME NEW n \in Nat, n \in S PROVE n + 1 \in S
    <2>1. SUFFICES ASSUME n + 1 <= m PROVE \E b \in Nat : \A i \in 1 .. (n + 1) : f[i] <= b
      OBVIOUS
    <2>2. PICK b \in Nat : \A i \in 1 .. n : f[i] <= b
      BY <1>2, <2>1
    <2>3. f[n + 1] \in Nat
      BY <2>1
    <2>4. \A i \in 1 .. (n + 1) : f[i] <= b + f[n + 1]
      <3>1. TAKE i \in 1 .. (n + 1)
      <3>2. CASE i = n + 1
        BY <2>3, <3>2
      <3>3. CASE i # n + 1
        <4>1. i \in 1 .. n /\ f[i] \in Nat
          BY <2>1, <3>3
        <4> QED BY <2>2, <2>3, <4>1
      <3> QED BY <3>2, <3>3
    <2> QED BY <2>3, <2>4
  <1>3. \A n \in Nat : n \in S
    <2> HIDE DEF S
    <2> QED BY <1>1, <1>2, SetInduction
  <1>4. m \in S
    BY <1>3
  <1>5. m <= m
    OBVIOUS
  <1> QED BY <1>4, <1>5

(* The bound of a group is at least that of each of its heads. *)
LEMMA GroupBoundHolds ==
  ASSUME Ready, NEW k \in DOMAIN Layered, TrustedBounds(Layered[k]).heads # <<>>,
         NEW g \in 0 .. (G.group_count - 1)
  PROVE  /\ GroupBounds(Layered[k], G) # <<>>
         /\ Len(GroupBounds(Layered[k], G)) = G.group_count
         /\ GroupBounds(Layered[k], G)[g + 1] \in Nat
         /\ \A h \in HeadsOf(g) :
              /\ TrustedBounds(Layered[k]).heads[h + 1] \in Nat
              /\ TrustedBounds(Layered[k]).heads[h + 1] <= GroupBounds(Layered[k], G)[g + 1]
  <1> DEFINE heads == TrustedBounds(Layered[k]).heads
             n == G.group_count
             w == G.group_heads
             Bounds(i) == {heads[(i - 1) * w + h] : h \in 1 .. w}
             f == [i \in 1 .. n |-> SetMax(Bounds(i))]
  <1>1. n \in Nat \ {0} /\ w \in Nat \ {0} /\ Dims.num_heads = w * n
    BY Geometry
  <1>2. heads \in Seq(Nat) /\ heads # <<>> /\ Len(heads) = w * n
    BY <1>1, TrustedTyped
  <1>3. GroupBounds(Layered[k], G) = <<>> \o f
    BY <1>2 DEF GroupBounds
  <1>4. <<>> \o f = f /\ Len(f) = n
    <2>1. f = [i \in DOMAIN f |-> f[i]] /\ DOMAIN f = 1 .. n
      OBVIOUS
    <2> HIDE DEF f, n
    <2> QED BY <1>1, <2>1, Tabulated
  <1>5. ASSUME NEW h \in 1 .. w PROVE heads[g * w + h] \in Nat
    <2>1. g \in Nat /\ g + 1 <= n /\ h \in Nat
      BY <1>1
    <2> HIDE DEF heads, n, w
    <2>2. (g + 1) * w <= n * w
      BY <1>1, <2>1
    <2>3. g * w + h <= w * n /\ g * w + h >= 1 /\ g * w + h \in Int
      BY <1>1, <2>1, <2>2
    <2>4. g * w + h \in 1 .. Len(heads)
      BY <1>1, <1>2, <2>3
    <2> QED BY <1>2, <2>4
  <1> DEFINE S == {heads[g * w + h] : h \in 1 .. w}
  <1>6. f[g + 1] = SetMax(S)
    <2>1. g + 1 \in 1 .. n /\ (g + 1) - 1 = g
      BY <1>1
    <2>2. f[g + 1] = SetMax(Bounds(g + 1))
      <3> HIDE DEF Bounds, n
      <3> QED BY <2>1
    <2> HIDE DEF f, heads, w
    <2> QED BY <2>1, <2>2
  <1>7. SetMax(S) \in S /\ \A x \in S : x <= SetMax(S)
    <2> DEFINE e == [h \in 1 .. w |-> heads[g * w + h]]
    <2>1. PICK b \in Nat : \A h \in 1 .. w : e[h] <= b
      <3>1. \A h \in 1 .. w : e[h] \in Nat
        <4> HIDE DEF heads, w
        <4> QED BY <1>5
      <3> HIDE DEF e, w
      <3> QED BY <1>1, <3>1, Bounded
    <2>2. S \subseteq Int /\ S # {} /\ \A x \in S : x <= b /\ b \in Int
      <3> HIDE DEF heads, w
      <3>1. \A h \in 1 .. w : heads[g * w + h] <= b
        BY <2>1
      <3>2. 1 \in 1 .. w
        BY <1>1
      <3> QED BY <1>5, <2>1, <3>1, <3>2
    <2> HIDE DEF S
    <2>3. \E x \in S : \A y \in S : y <= x
      BY <2>1, <2>2, GreatestOf
    <2> QED BY <2>3 DEF SetMax
  <1>8. S \subseteq Nat
    <2> HIDE DEF heads, w
    <2> QED BY <1>5
  <1>9. ASSUME NEW h \in HeadsOf(g) PROVE heads[h + 1] \in S
    <2> HIDE DEF heads
    <2>1. h \in (g * w) .. ((g + 1) * w - 1) /\ g \in Int /\ w \in Nat
      BY <1>1 DEF HeadsOf
    <2> HIDE DEF w
    <2> DEFINE i == h + 1 - g * w
    <2>2. (g + 1) * w = g * w + w /\ g * w \in Int
      BY <2>1
    <2>3. i \in 1 .. w /\ h + 1 = g * w + i
      BY <2>1, <2>2
    <2> HIDE DEF i
    <2> QED BY <2>3
  <1> HIDE DEF S, f, heads
  <1>10. /\ GroupBounds(Layered[k], G) = f /\ f[g + 1] \in Nat
         /\ \A h \in HeadsOf(g) : heads[h + 1] \in Nat /\ heads[h + 1] <= f[g + 1]
    BY <1>3, <1>4, <1>6, <1>7, <1>8, <1>9
  <1>11. f # <<>>
    BY <1>1, <1>4
  <1> QED BY <1>4, <1>10, <1>11 DEF heads

(* A checkpoint under the bounds of its own layer, the head of a token under *)
(* those of the last.                                                      *)
PointOK(what, act) ==
  /\ act \in DOMAIN Layered
  /\ what.layer = act \/ (what.layer = 0 /\ act = Len(Layered))
  /\ what.slot \in Nat
  /\ what.kind = "y_scaled" => what.layer # 0
  /\ what.kind = "final_norm_scaled" => what.layer = 0 /\ WholeChain

LEMMA PlanHolds ==
  ASSUME Ready, NEW act \in DOMAIN Layered
  PROVE  /\ Plan(act).points = TrustedBounds(Layered[act]).points
         /\ Plan(act).fifo_bound = TrustedBounds(Layered[act]).fifo
         /\ Plan(act).group_bounds = IF C.normalized THEN [n \in 1 .. G.group_count |-> 2]
                                     ELSE GroupBounds(Layered[act], G)
         /\ Plan(act).state_bound = IF C.normalized THEN 2
                                    ELSE TrustedBounds(Layered[act]).state
  <1>1. Plan(act) = LayerPlan(Layered[act], G, C)
    BY ReadyHolds
  <1> DEFINE L == Layered[act]
  <1>2. /\ LayerPlan(L, G, C).points = TrustedBounds(L).points
        /\ LayerPlan(L, G, C).fifo_bound = TrustedBounds(L).fifo
        /\ LayerPlan(L, G, C).group_bounds
             = IF C.normalized THEN [n \in 1 .. G.group_count |-> 2] ELSE GroupBounds(L, G)
        /\ LayerPlan(L, G, C).state_bound = IF C.normalized THEN 2 ELSE TrustedBounds(L).state
    <2> HIDE DEF L
    <2> QED BY PlanBounds, Zenon
  <1> QED BY <1>1, <1>2

LEMMA CalibrationHolds ==
  ASSUME Ready, NEW what, NEW act, PointOK(what, act)
  PROVE  /\ Calibration(what) = TrustedBounds(Layered[act])
         /\ act \in DOMAIN Layered /\ Len(Layered) \in Nat \ {0}
         /\ what.layer # 0 => Layer(what.layer) = Layered[act]
  <1>1. act # 0 /\ Len(Layered) \in Nat \ {0}
    BY LayersOfPayload DEF PointOK
  <1> QED BY <1>1 DEF PointOK, Calibration, Layer

LEMMA Margins ==
  ASSUME Ready
  PROVE  C.norm_margin \in Nat \ {0} /\ C.state_margin \in Nat \ {0}
  BY HostHolds, ConfigsAssumption DEF Ready

LEMMA Scaled ==
  ASSUME NEW x \in Nat, NEW m \in Nat \ {0}
  PROVE  x * m \in Nat /\ x <= x * m
  OBVIOUS

LEMMA CarriedOwned ==
  ASSUME Ready, NEW b, NEW act, PointOK(b.what, act), IsCarried(b.what),
         b.bound = BootstrapBound(b.what, act)
  PROVE  CarriedEnough(b)
  <1> DEFINE L == Layered[act]
             what == b.what
             margin == C.state_margin
             base == CheckpointBound(what.kind)
  <1>1. Calibration(what) = TrustedBounds(L) /\ act \in DOMAIN Layered
    BY CalibrationHolds
  <1>2. margin \in Nat \ {0}
    BY Margins
  <1>3. base \in Nat
    BY DEF IsCarried, CheckpointBound
  <1>4. ASSUME NEW x \in Nat PROVE (IF x > 0 THEN x ELSE base) * margin >= x
    <2> DEFINE y == IF x > 0 THEN x ELSE base
    <2>1. y \in Nat /\ y >= x
      BY <1>3
    <2> HIDE DEF y, margin
    <2>2. y * margin >= y /\ y * margin \in Nat
      BY <1>2, <2>1, Scaled
    <2>3. y * margin >= x
      BY <2>1, <2>2
    <2> QED BY <2>3 DEF y
  <1>5. CASE what.kind = "fifo"
    <2>1. b.bound = (IF Plan(act).fifo_bound > 0 THEN Plan(act).fifo_bound ELSE base) * margin
      BY <1>5 DEF BootstrapBound
    <2>2. Plan(act).fifo_bound = TrustedBounds(L).fifo /\ TrustedBounds(L).fifo \in Nat
      BY <1>1, PlanHolds, TrustedTyped
    <2>3. b.bound >= TrustedBounds(L).fifo
      <3> HIDE DEF L, margin, base
      <3> QED BY <1>4, <2>1, <2>2
    <2> QED BY <1>1, <1>5, <2>3 DEF CarriedEnough
  <1>6. CASE what.kind # "fifo" /\ ~C.normalized /\ TrustedBounds(L).heads # <<>>
    <2> DEFINE g == what.slot % G.group_count
               all == GroupBounds(L, G)
    <2>1. g \in 0 .. (G.group_count - 1) /\ G.group_count \in Nat \ {0}
      <3>1. what.slot \in Nat /\ G.group_count \in Nat \ {0}
        BY Geometry DEF PointOK
      <3> QED BY <3>1
    <2>2. Plan(act).group_bounds = all
      BY <1>1, <1>6, PlanHolds
    <2> HIDE DEF g
    <2>3. /\ all # <<>> /\ Len(all) = G.group_count /\ all[g + 1] \in Nat
          /\ \A h \in HeadsOf(g) : /\ TrustedBounds(L).heads[h + 1] \in Nat
                                   /\ TrustedBounds(L).heads[h + 1] <= all[g + 1]
      BY <1>1, <1>6, <2>1, GroupBoundHolds
    <2> HIDE DEF all
    <2>4. b.bound = (IF all[g + 1] > 0 THEN all[g + 1] ELSE base) * margin
      <3>1. b.bound = (IF all[(what.slot % Len(all)) + 1] > 0 THEN all[(what.slot % Len(all)) + 1]
                       ELSE base) * margin
        BY <1>6, <2>2, <2>3 DEF BootstrapBound
      <3> QED BY <2>3, <3>1 DEF g
    <2>5. b.bound >= all[g + 1] /\ b.bound \in Nat
      <3>1. \A x \in Nat : (IF x > 0 THEN x ELSE base) * margin \in Nat
        BY <1>2, <1>3
      <3> HIDE DEF margin, base
      <3> QED BY <1>4, <2>3, <2>4, <3>1
    <2>6. \A h \in HeadsOf(g) : b.bound >= TrustedBounds(L).heads[h + 1]
      <3> HIDE DEF L
      <3> QED BY <2>3, <2>5
    <2> QED BY <1>1, <1>6, <2>6 DEF CarriedEnough, g
  <1>7. CASE what.kind # "fifo" /\ ~(~C.normalized /\ TrustedBounds(L).heads # <<>>)
    BY <1>1, <1>7 DEF CarriedEnough
  <1> QED BY <1>5, <1>6, <1>7

LEMMA FinalScaleHolds ==
  ASSUME Ready, WholeChain, "output" \in DOMAIN TrustedBounds(Layered[Len(Layered)]).points
  PROVE  /\ FinalScale(LoadedPayload, C) \in Nat
         /\ FinalScale(LoadedPayload, C) >=
              TrustedBounds(Layered[Len(Layered)]).points["output"] * C.norm_margin
  <1> DEFINE n == Len(Layered)
             points == TrustedBounds(Layered[n]).points
             x == points["output"] * C.norm_margin
  <1>1. n \in DOMAIN Layered
    BY LayersOfPayload
  <1>2. Layered[n] = LoadedPayload.layers[Len(LoadedPayload.layers)]
    BY <1>1, LayersOfPayload DEF WholeChain, FullChain
  <1>3. x \in Nat
    <2>1. points["output"] \in Nat
      BY <1>1, TrustedTyped
    <2> HIDE DEF points
    <2> QED BY <2>1, Margins
  <1>4. FinalScale(LoadedPayload, C) = Max2(2, x)
    BY <1>2 DEF FinalScale
  <1> HIDE DEF x
  <1>5. Max2(2, x) \in Nat /\ Max2(2, x) >= x
    BY <1>3 DEF Max2
  <1>6. FinalScale(LoadedPayload, C) \in Nat /\ FinalScale(LoadedPayload, C) >= x
    BY <1>4, <1>5
  <1> QED BY <1>6 DEF x

LEMMA TransientOwned ==
  ASSUME Ready, NEW b, NEW act, PointOK(b.what, act), ~IsCarried(b.what),
         b.bound = BootstrapBound(b.what, act)
  PROVE  TransientEnough(b)
  <1> DEFINE L == Layered[act]
             kind == b.what.kind
             margin == C.norm_margin
             points == TrustedBounds(L).points
             base == CheckpointBound(kind)
             Calibrated(name) == IF name \in DOMAIN points THEN points[name] ELSE base
             transient == CASE kind = "y_scaled" -> 2
                            [] kind \in {"y", "y_out"} -> Calibrated("y")
                            [] OTHER -> Calibrated(kind)
  <1>1. /\ Calibration(b.what) = TrustedBounds(L) /\ act \in DOMAIN Layered
        /\ b.what.layer # 0 => Layer(b.what.layer) = L
    BY CalibrationHolds
  <1>2. margin \in Nat \ {0}
    BY Margins
  <1>3. DOMAIN points \subseteq CalibratedNames /\ \A name \in DOMAIN points : points[name] \in Nat
    BY <1>1, TrustedTyped
  <1>4. b.bound = transient * margin
    <2>1. Plan(act).points = points
      BY <1>1, PlanHolds
    <2> QED BY <2>1 DEF BootstrapBound
  <1>5. CASE kind = "y_scaled"
    <2>1. b.bound = 2 * margin /\ b.what.layer # 0
      BY <1>4, <1>5 DEF PointOK
    <2>2. kind \notin DOMAIN points
      BY <1>3, <1>5 DEF CalibratedNames
    <2>3. "y" \in DOMAIN points => b.bound * YScale(Layer(b.what.layer)) >= 2 * points["y"]
      <3>1. SUFFICES ASSUME "y" \in DOMAIN points
                     PROVE  b.bound * YScale(Layer(b.what.layer)) >= 2 * points["y"]
        OBVIOUS
      <3>2. YScale(L) = Max2(2, points["y"]) /\ points["y"] \in Nat
        BY <1>3, <3>1 DEF YScale
      <3> DEFINE y == points["y"]
                 s == YScale(L)
      <3>3. s \in Nat /\ s >= y /\ y \in Nat
        BY <3>2 DEF Max2
      <3>4. Layer(b.what.layer) = L
        BY <1>1, <2>1
      <3> HIDE DEF y, s, margin
      <3>5. (2 * margin) * s >= 2 * y
        <4>1. s * margin \in Nat /\ s * margin >= s
          BY <1>2, <3>3, Scaled
        <4>2. (2 * margin) * s = 2 * (s * margin)
          BY <1>2, <3>3
        <4> QED BY <3>3, <4>1, <4>2
      <3> QED BY <2>1, <3>4, <3>5 DEF y, s
    <2> HIDE DEF points
    <2> QED BY <1>1, <1>5, <2>2, <2>3 DEF TransientEnough, points
  <1>6. CASE kind \in {"y", "y_out"}
    <2>1. b.bound = Calibrated("y") * margin
      BY <1>4, <1>6
    <2>2. "y" \in DOMAIN points => b.bound >= points["y"]
      <3>1. SUFFICES ASSUME "y" \in DOMAIN points PROVE b.bound >= points["y"]
        OBVIOUS
      <3>2. points["y"] \in Nat /\ b.bound = points["y"] * margin
        BY <1>3, <2>1, <3>1
      <3> HIDE DEF points, margin
      <3>3. points["y"] <= points["y"] * margin /\ points["y"] * margin \in Nat
        BY <1>2, <3>2, Scaled
      <3> QED BY <3>2, <3>3
    <2>3. kind \in DOMAIN points => kind = "y"
      BY <1>3, <1>6 DEF CalibratedNames
    <2> QED BY <1>1, <1>6, <2>2, <2>3 DEF TransientEnough
  <1>7. CASE kind = "final_norm_scaled"
    <2>1. kind \notin DOMAIN points
      BY <1>3, <1>7 DEF CalibratedNames
    <2>2. b.bound = 2 * margin
      BY <1>4, <1>7, <2>1 DEF CheckpointBound
    <2>3. "output" \in DOMAIN points =>
            b.bound * FinalScale(LoadedPayload, C) >= 2 * points["output"]
      <3>1. SUFFICES ASSUME "output" \in DOMAIN points
                     PROVE  b.bound * FinalScale(LoadedPayload, C) >= 2 * points["output"]
        OBVIOUS
      <3>2. act = Len(Layered) /\ WholeChain
        BY <1>7, LayersOfPayload DEF PointOK
      <3> DEFINE y == points["output"]
                 s == FinalScale(LoadedPayload, C)
      <3>3. s \in Nat /\ s >= y * margin /\ y \in Nat
        BY <1>3, <3>1, <3>2, FinalScaleHolds
      <3> HIDE DEF y, s, margin
      <3>4. y * margin >= y /\ y * margin \in Nat
        BY <1>2, <3>3, Scaled
      <3>5. (2 * margin) * s >= 2 * y
        <4>1. s * margin \in Nat /\ s * margin >= s
          BY <1>2, <3>3, Scaled
        <4>2. (2 * margin) * s = 2 * (s * margin)
          BY <1>2, <3>3
        <4> QED BY <3>3, <3>4, <4>1, <4>2
      <3> QED BY <2>2, <3>5 DEF y, s
    <2> HIDE DEF points
    <2> QED BY <1>1, <1>7, <2>1, <2>3 DEF TransientEnough, points
  <1>8. CASE kind \notin {"y_scaled", "y", "y_out", "final_norm_scaled"}
    <2>1. b.bound = Calibrated(kind) * margin
      BY <1>4, <1>8
    <2>2. kind \in DOMAIN points => b.bound >= points[kind]
      <3>1. SUFFICES ASSUME kind \in DOMAIN points PROVE b.bound >= points[kind]
        OBVIOUS
      <3>2. points[kind] \in Nat /\ b.bound = points[kind] * margin
        BY <1>3, <2>1, <3>1
      <3> HIDE DEF points, margin, kind
      <3>3. points[kind] <= points[kind] * margin /\ points[kind] * margin \in Nat
        BY <1>2, <3>2, Scaled
      <3> QED BY <3>2, <3>3
    <2> QED BY <1>1, <1>8, <2>2 DEF TransientEnough
  <1> QED BY <1>5, <1>6, <1>7, <1>8

LEMMA BoundOwned ==
  ASSUME Ready, NEW what, NEW act, PointOK(what, act), NEW lvl, NEW meta, NEW paired
  PROVE  GoodEvent(BootEvent(what, BootstrapBound(what, act), lvl, meta, paired))
  <1> DEFINE bound == BootstrapBound(what, act)
             b == [what |-> what, bound |-> bound, deepest |-> lvl + (IF meta THEN 2 ELSE 1),
                   meta |-> meta, paired |-> paired]
  <1>1. BootEvent(what, bound, lvl, meta, paired) = <<"boot", b>>
    BY DEF BootEvent
  <1>2. b.what = what /\ b.bound = BootstrapBound(b.what, act) /\ PointOK(b.what, act)
    OBVIOUS
  <1> HIDE DEF b
  <1>3. Owned(b)
    BY <1>2, CarriedOwned, TransientOwned DEF Owned
  <1> QED BY <1>1, <1>3 DEF GoodEvent

(* The iterates of a scheduled norm are bounded by its recipe: no           *)
(* calibration says anything of them.                                      *)
LEMMA RecipeOwned ==
  ASSUME Ready, NEW what, NEW act, PointOK(what, act), what.kind = "scheduled_norm",
         NEW bound, NEW lvl, NEW meta, NEW paired
  PROVE  GoodEvent(BootEvent(what, bound, lvl, meta, paired))
  <1> DEFINE b == [what |-> what, bound |-> bound, deepest |-> lvl + (IF meta THEN 2 ELSE 1),
                   meta |-> meta, paired |-> paired]
  <1>1. BootEvent(what, bound, lvl, meta, paired) = <<"boot", b>> /\ b.what = what
    BY DEF BootEvent
  <1>2. DOMAIN Calibration(what).points \subseteq CalibratedNames
    BY CalibrationHolds, TrustedTyped
  <1> HIDE DEF b
  <1>3. Owned(b)
    BY <1>1, <1>2 DEF Owned, IsCarried, TransientEnough, CalibratedNames
  <1> QED BY <1>1, <1>3 DEF GoodEvent

-----------------------------------------------------------------------------
(* Refreshes, and the iterations that refresh their iterates *)

LEMMA MaybeGood ==
  ASSUME Ready, NEW ct, NEW requirement, NEW what, NEW act, PointOK(what, act), Good(ct.log)
  PROVE  Good(MaybeBootstrap(ct, requirement, what, act).log)
  <1> DEFINE meta == UsesMeta(what, act)
             event == BootEvent(what, BootstrapBound(what, act), ct.lvl, meta, FALSE)
  <1>1. GoodEvent(event)
    <2> HIDE DEF meta
    <2> QED BY BoundOwned
  <1>2. Refreshed(ct, what, act, 0).log = ct.log \cup {event}
    <2>1. ~(0 > 0)
      OBVIOUS
    <2> QED BY <2>1 DEF Refreshed, Made
  <1> HIDE DEF event
  <1>3. Good(Refreshed(ct, what, act, 0).log)
    BY <1>1, <1>2 DEF Good
  <1> QED BY <1>3 DEF MaybeBootstrap

LEMMA PairGood ==
  ASSUME Ready, NEW x, NEW y, NEW requirement, NEW a, NEW b, NEW act,
         PointOK(a, act), PointOK(b, act), Good(x.log), Good(y.log)
  PROVE  /\ DOMAIN MaybeBootstrapPair(x, y, requirement, a, b, act) = 1 .. 2
         /\ \A i \in 1 .. 2 : Good(MaybeBootstrapPair(x, y, requirement, a, b, act)[i].log)
  <1> DEFINE pair == MaybeBootstrapPair(x, y, requirement, a, b, act)
  <1>1. CASE ~Pairable(x, y, requirement, a, b, act)
    <2>1. pair = <<MaybeBootstrap(x, requirement, a, act), MaybeBootstrap(y, requirement, b, act)>>
      BY <1>1 DEF MaybeBootstrapPair
    <2>2. Good(MaybeBootstrap(x, requirement, a, act).log)
          /\ Good(MaybeBootstrap(y, requirement, b, act).log)
      BY MaybeGood
    <2> HIDE DEF pair
    <2>3. DOMAIN pair = 1 .. 2 /\ Good(pair[1].log) /\ Good(pair[2].log)
      BY <2>1, <2>2
    <2>4. \A i \in 1 .. 2 : i = 1 \/ i = 2
      OBVIOUS
    <2> QED BY <2>3, <2>4 DEF pair
  <1>2. CASE Pairable(x, y, requirement, a, b, act)
    <2> DEFINE first == BootEvent(a, BootstrapBound(a, act), x.lvl, FALSE, TRUE)
               second == BootEvent(b, BootstrapBound(b, act), y.lvl, FALSE, TRUE)
               log == x.log \cup y.log \cup {first, second}
    <2>1. GoodEvent(first) /\ GoodEvent(second)
      BY BoundOwned
    <2>2. pair[1].log = log /\ pair[2].log = log
      BY <1>2 DEF MaybeBootstrapPair, Made
    <2>d. \E p, q : pair = <<p, q>>
      BY <1>2, Zenon DEF MaybeBootstrapPair
    <2> HIDE DEF first, second, pair
    <2>3. Good(log)
      BY <2>1 DEF Good
    <2>4. pair[1].log = log /\ pair[2].log = log /\ Good(log) /\ DOMAIN pair = 1 .. 2
      BY <2>d, <2>2, <2>3
    <2> HIDE DEF log
    <2>5. \A i \in 1 .. 2 : i = 1 \/ i = 2
      OBVIOUS
    <2> QED BY <2>4, <2>5 DEF pair
  <1> QED BY <1>1, <1>2

LEMMA InverseCheckpointGood ==
  ASSUME Ready, NEW y, NEW recipe, NEW what, NEW act, PointOK(what, act),
         what.kind = "scheduled_norm", Good(y.log)
  PROVE  Good(InverseCheckpoint(y, recipe, what, act).log)
  <1> DEFINE meta == UsesMeta(what, act)
             bound == IF recipe.bound > 0 THEN recipe.bound ELSE BootstrapBound(what, act)
             event == BootEvent(what, bound, y.lvl, meta, FALSE)
  <1>1. GoodEvent(event)
    <2> HIDE DEF meta, bound
    <2> QED BY RecipeOwned
  <1>2. Refreshed(y, what, act, recipe.bound).log = y.log \cup {event}
    BY DEF Refreshed, Made
  <1> HIDE DEF event
  <1>3. Good(Refreshed(y, what, act, recipe.bound).log)
    BY <1>1, <1>2 DEF Good
  <1> QED BY <1>3 DEF InverseCheckpoint

(* A fold is the last value of a function that exists: by induction on where *)
(* it ends.                                                                *)
LEMMA NewtonRefineGood ==
  ASSUME Ready, NEW y, NEW v, NEW n \in Nat, NEW what, NEW act, PointOK(what, act),
         Good(y.log), Good(v.log)
  PROVE  Good(NewtonRefine(y, v, n, what, act).log)
  <1> DEFINE R0(acc) == MaybeBootstrap(acc, 2, what, act)
             Step(acc, i) == AddCt(ScaleCt(R0(acc), 3 * Half), MulCt(MulCt(v, R0(acc)), Square(R0(acc))))
             Fold(f, m) == f = [i \in (1 - 1) .. m |-> IF i < 1 THEN y ELSE Step(f[i - 1], i)]
             S == {m \in Nat : \E f : Fold(f, m)}
             fold == CHOOSE f : Fold(f, n)
             T == {m \in Nat : m <= n => Good(fold[m].log)}
  <1>1. ASSUME NEW acc, NEW i, Good(acc.log) PROVE Good(Step(acc, i).log)
    <2>1. Good(R0(acc).log)
      BY <1>1, MaybeGood
    <2> HIDE DEF R0
    <2>2. Good(ScaleCt(R0(acc), 3 * Half).log) /\ Good(Square(R0(acc)).log)
      BY <2>1, UnaryGood
    <2>3. Good(MulCt(v, R0(acc)).log)
      BY <2>1, BinaryGood
    <2>4. Good(MulCt(MulCt(v, R0(acc)), Square(R0(acc))).log)
      BY <2>2, <2>3, BinaryGood
    <2> QED BY <2>2, <2>4, BinaryGood
  <1>2. NewtonRefine(y, v, n, what, act) = fold[n]
    BY DEF NewtonRefine, FoldRange
  <1> HIDE DEF Step
  <1>3. \A m \in Nat : m \in S
    <2>1. 0 \in S
      <3> DEFINE f == [i \in (1 - 1) .. 0 |-> y]
      <3>1. Fold(f, 0)
        OBVIOUS
      <3> QED BY <3>1
    <2>2. ASSUME NEW m \in Nat, m \in S PROVE m + 1 \in S
      <3>1. PICK f : Fold(f, m)
        BY <2>2
      <3> DEFINE h == [i \in (1 - 1) .. (m + 1) |-> IF i <= m THEN f[i] ELSE Step(f[m], m + 1)]
      <3>2. Fold(h, m + 1)
        <4>1. ASSUME NEW i \in (1 - 1) .. (m + 1)
              PROVE  h[i] = IF i < 1 THEN y ELSE Step(h[i - 1], i)
          <5>1. CASE i < 1
            BY <3>1, <5>1
          <5>2. CASE ~(i < 1) /\ i <= m
            <6>1. i - 1 \in (1 - 1) .. (m + 1) /\ i - 1 <= m /\ i \in (1 - 1) .. m
              BY <5>2
            <6>2. h[i - 1] = f[i - 1] /\ h[i] = f[i]
              BY <5>2, <6>1
            <6>3. f[i] = Step(f[i - 1], i)
              BY <3>1, <5>2, <6>1
            <6> HIDE DEF h
            <6> QED BY <5>2, <6>2, <6>3
          <5>3. CASE ~(i < 1) /\ ~(i <= m)
            <6>1. i = m + 1 /\ i - 1 = m /\ m \in (1 - 1) .. (m + 1) /\ m <= m
              BY <5>3
            <6>2. h[m] = f[m] /\ h[i] = Step(f[m], m + 1)
              BY <5>3, <6>1
            <6> HIDE DEF h
            <6> QED BY <5>3, <6>1, <6>2
          <5> QED BY <5>1, <5>2, <5>3
        <4>2. h = [i \in (1 - 1) .. (m + 1) |-> h[i]]
          OBVIOUS
        <4> HIDE DEF h
        <4> QED BY <4>1, <4>2, Zenon
      <3>3. m + 1 \in Nat
        OBVIOUS
      <3> HIDE DEF Fold, h
      <3>4. \E g : Fold(g, m + 1)
        BY <3>2
      <3> QED BY <3>3, <3>4
    <2> HIDE DEF S
    <2> QED BY <2>1, <2>2, SetInduction
  <1>4. Fold(fold, n)
    <2>1. \E f : Fold(f, n)
      BY <1>3
    <2> HIDE DEF Fold
    <2> QED BY <2>1
  <1> HIDE DEF fold
  <1>5. \A m \in Nat : m \in T
    <2>1. 0 \in T
      <3>1. fold[0] = y
        BY <1>4
      <3> QED BY <3>1
    <2>2. ASSUME NEW m \in Nat, m \in T PROVE m + 1 \in T
      <3>1. SUFFICES ASSUME m + 1 <= n PROVE Good(fold[m + 1].log)
        OBVIOUS
      <3>2. fold[m + 1] = Step(fold[m], m + 1)
        <4>1. m + 1 \in (1 - 1) .. n /\ ~(m + 1 < 1) /\ (m + 1) - 1 = m
          BY <3>1
        <4> QED BY <1>4, <4>1
      <3>3. Good(fold[m].log)
        BY <2>2, <3>1
      <3> QED BY <1>1, <3>2, <3>3
    <2> HIDE DEF T
    <2> QED BY <2>1, <2>2, SetInduction
  <1>6. n \in T /\ n <= n
    BY <1>5
  <1>7. Good(fold[n].log)
    BY <1>6
  <1> QED BY <1>2, <1>7

LEMMA ScheduledInverseGood ==
  ASSUME Ready, NEW v, NEW recipe, NEW what, NEW act, PointOK(what, act),
         what.kind = "scheduled_norm", Len(recipe.stages) \in Nat, Good(v.log)
  PROVE  Good(ScheduledInverse(v, recipe, what, act).log)
  <1> DEFINE n == Len(recipe.stages)
             seed == recipe.stages[1]
             u == ScaleCt(ScaleCt(v, recipe.seed), recipe.seed)
             y == ScaleCt(AddScalar(ScaleCt(u, -seed.b), seed.a), recipe.seed)
             K(i) == IF i = n THEN [a |-> 3 * Half, b |-> Half] ELSE recipe.stages[i + 1]
             R0(acc) == InverseCheckpoint(acc, recipe, what, act)
             Step(acc, i) == AddCt(ScaleCt(R0(acc), K(i).a),
                                   MulCt(MulCt(ScaleCt(v, -K(i).b), R0(acc)), Square(R0(acc))))
             Fold(f, m) == f = [i \in (1 - 1) .. m |-> IF i < 1 THEN y ELSE Step(f[i - 1], i)]
             S == {m \in Nat : \E f : Fold(f, m)}
             fold == CHOOSE f : Fold(f, n)
             T == {m \in Nat : m <= n => Good(fold[m].log)}
  <1>1. ASSUME NEW acc, NEW i, Good(acc.log) PROVE Good(Step(acc, i).log)
    <2>1. Good(R0(acc).log)
      BY <1>1, InverseCheckpointGood
    <2> HIDE DEF R0, K
    <2>2. Good(ScaleCt(R0(acc), K(i).a).log) /\ Good(Square(R0(acc)).log)
          /\ Good(ScaleCt(v, -K(i).b).log)
      BY <2>1, UnaryGood
    <2>3. Good(MulCt(ScaleCt(v, -K(i).b), R0(acc)).log)
      BY <2>1, <2>2, BinaryGood
    <2>4. Good(MulCt(MulCt(ScaleCt(v, -K(i).b), R0(acc)), Square(R0(acc))).log)
      BY <2>2, <2>3, BinaryGood
    <2> QED BY <2>2, <2>4, BinaryGood
  <1>2. ScheduledInverse(v, recipe, what, act) = fold[n]
    BY DEF ScheduledInverse, FoldRange
  <1>0. Good(y.log)
    <2>1. Good(ScaleCt(v, recipe.seed).log)
      BY UnaryGood
    <2>2. Good(u.log)
      BY <2>1, UnaryGood
    <2> HIDE DEF u, seed
    <2>3. Good(ScaleCt(u, -seed.b).log)
      BY <2>2, UnaryGood
    <2>4. Good(AddScalar(ScaleCt(u, -seed.b), seed.a).log)
      BY <2>3, UnaryGood
    <2> QED BY <2>4, UnaryGood
  <1> HIDE DEF y
  <1>n. n \in Nat
    OBVIOUS
  <1> HIDE DEF Step, n
  <1>3. \A m \in Nat : m \in S
    <2>1. 0 \in S
      <3> DEFINE f == [i \in (1 - 1) .. 0 |-> y]
      <3>1. Fold(f, 0)
        OBVIOUS
      <3> QED BY <3>1
    <2>2. ASSUME NEW m \in Nat, m \in S PROVE m + 1 \in S
      <3>1. PICK f : Fold(f, m)
        BY <2>2
      <3> DEFINE h == [i \in (1 - 1) .. (m + 1) |-> IF i <= m THEN f[i] ELSE Step(f[m], m + 1)]
      <3>2. Fold(h, m + 1)
        <4>1. ASSUME NEW i \in (1 - 1) .. (m + 1)
              PROVE  h[i] = IF i < 1 THEN y ELSE Step(h[i - 1], i)
          <5>1. CASE i < 1
            BY <3>1, <5>1
          <5>2. CASE ~(i < 1) /\ i <= m
            <6>1. i - 1 \in (1 - 1) .. (m + 1) /\ i - 1 <= m /\ i \in (1 - 1) .. m
              BY <5>2
            <6>2. h[i - 1] = f[i - 1] /\ h[i] = f[i]
              BY <5>2, <6>1
            <6>3. f[i] = Step(f[i - 1], i)
              BY <3>1, <5>2, <6>1
            <6> HIDE DEF h
            <6> QED BY <5>2, <6>2, <6>3
          <5>3. CASE ~(i < 1) /\ ~(i <= m)
            <6>1. i = m + 1 /\ i - 1 = m /\ m \in (1 - 1) .. (m + 1) /\ m <= m
              BY <5>3
            <6>2. h[m] = f[m] /\ h[i] = Step(f[m], m + 1)
              BY <5>3, <6>1
            <6> HIDE DEF h
            <6> QED BY <5>3, <6>1, <6>2
          <5> QED BY <5>1, <5>2, <5>3
        <4>2. h = [i \in (1 - 1) .. (m + 1) |-> h[i]]
          OBVIOUS
        <4> HIDE DEF h
        <4> QED BY <4>1, <4>2, Zenon
      <3>3. m + 1 \in Nat
        OBVIOUS
      <3> HIDE DEF Fold, h
      <3>4. \E g : Fold(g, m + 1)
        BY <3>2
      <3> QED BY <3>3, <3>4
    <2> HIDE DEF S
    <2> QED BY <2>1, <2>2, SetInduction
  <1>4. Fold(fold, n)
    <2>1. \E f : Fold(f, n)
      BY <1>3, <1>n
    <2> HIDE DEF Fold
    <2> QED BY <2>1
  <1> HIDE DEF fold
  <1>5. \A m \in Nat : m \in T
    <2>1. 0 \in T
      <3>1. fold[0] = y
        BY <1>4, <1>n
      <3> QED BY <1>0, <3>1
    <2>2. ASSUME NEW m \in Nat, m \in T PROVE m + 1 \in T
      <3>1. SUFFICES ASSUME m + 1 <= n PROVE Good(fold[m + 1].log)
        OBVIOUS
      <3>2. fold[m + 1] = Step(fold[m], m + 1)
        <4>1. m + 1 \in (1 - 1) .. n /\ ~(m + 1 < 1) /\ (m + 1) - 1 = m
          BY <1>n, <3>1
        <4> QED BY <1>4, <4>1
      <3>3. Good(fold[m].log)
        BY <1>n, <2>2, <3>1
      <3> QED BY <1>1, <3>2, <3>3
    <2> HIDE DEF T
    <2> QED BY <2>1, <2>2, SetInduction
  <1>6. n \in T /\ n <= n
    BY <1>5, <1>n
  <1>7. Good(fold[n].log)
    BY <1>6
  <1> QED BY <1>2, <1>7

(* The counts that estimate_levels accepts. *)
LEMMA CountsHold ==
  ASSUME Ready, NEW k \in DOMAIN Layered
  PROVE  /\ ~Scheduled(Layered[k].rms) => Layered[k].rms.iterations \in Nat \ {0}
         /\ ~Scheduled(Layered[k].gated) => Layered[k].gated.iterations \in Nat \ {0}
         /\ Layered[k].exp.squarings \in Nat
         /\ Scheduled(Layered[k].rms) => Len(Layered[k].rms.stages) \in Nat
         /\ Scheduled(Layered[k].gated) => Len(Layered[k].gated.stages) \in Nat
  <1> DEFINE L == Layered[k]
  <1>1. {L.rms.iterations, L.gated.iterations, L.exp.squarings} \subseteq Int
    BY LayersOfPayload, PayloadsAssumption
  <1>2. ValidCounts(L)
    <2>1. Layered = Layers(C)
      BY HostHolds DEF Ready
    <2> QED BY <2>1, AcceptedHolds DEF AcceptedPayload
  <1>3. ValidPoly(L.rms, TRUE) /\ ValidPoly(L.gated, TRUE)
    BY AcceptedHolds, LayersOfPayload DEF AcceptedPayload, ValidPayload, ValidLayer
  <1> HIDE DEF L
  <1>4. /\ ~Scheduled(L.rms) => L.rms.iterations \in Nat \ {0}
        /\ ~Scheduled(L.gated) => L.gated.iterations \in Nat \ {0}
        /\ L.exp.squarings \in Nat
    BY <1>1, <1>2 DEF ValidCounts
  <1>5. /\ Scheduled(L.rms) => Len(L.rms.stages) \in Nat
        /\ Scheduled(L.gated) => Len(L.gated.stages) \in Nat
    BY <1>3 DEF ValidPoly, Scheduled
  <1> QED BY <1>4, <1>5 DEF L

LEMMA DecayPolyGood ==
  ASSUME Ready, layer \in DOMAIN Layered, active = layer, reg.dt.log = {}
  PROVE  Good(DecayPoly.log)
  <1> DEFINE plan == Plan(layer)
             u == AddScalar(MulMask(reg.dt, <<"a_vec", layer>>, plan.a_vec), Layer(layer).exp.b)
             y == EvalChebyshev(u, Layer(layer).exp.c)
             what == Point("decay_sq", layer)
             n == plan.exp_squarings
             R0(acc, i) == MaybeBootstrap(acc, n - i + Req.decay, what, active)
             Step(acc, i) == Square(R0(acc, i))
             Fold(f, m) == f = [i \in (0 - 1) .. m |-> IF i < 0 THEN y ELSE Step(f[i - 1], i)]
             S == {m \in Nat : \E f : Fold(f, m - 1)}
             fold == CHOOSE f : Fold(f, n - 1)
             T == {m \in Nat : m <= n => Good(fold[m - 1].log)}
  <1>n. n \in Nat
    <2>1. plan = LayerPlan(Layered[layer], G, C)
      BY ReadyHolds
    <2> HIDE DEF plan
    <2>2. CASE Layered[layer].joint.on
      <3>1. n = 0
        BY <2>1, <2>2 DEF LayerPlan
      <3> QED BY <3>1
    <2>3. CASE ~Layered[layer].joint.on
      <3>1. n = Layered[layer].exp.squarings
        BY <2>1, <2>3 DEF LayerPlan
      <3> QED BY <3>1, CountsHold
    <2> QED BY <2>2, <2>3
  <1>p. PointOK(what, active)
    BY DEF PointOK, Point
  <1> HIDE DEF n, what
  <1>0. Good(y.log)
    <2>1. Good({})
      BY DEF Good
    <2>2. Good(MulMask(reg.dt, <<"a_vec", layer>>, plan.a_vec).log)
      <3> HIDE DEF plan
      <3> QED BY <2>1, MaskGood
    <2>3. Good(u.log)
      <3> HIDE DEF plan
      <3> QED BY <2>2, UnaryGood
    <2> HIDE DEF u
    <2> QED BY <2>3, ChebyshevGood
  <1> HIDE DEF y
  <1>1. ASSUME NEW acc, NEW i, Good(acc.log) PROVE Good(Step(acc, i).log)
    <2>1. Good(R0(acc, i).log)
      BY <1>1, <1>p, MaybeGood
    <2> HIDE DEF R0
    <2> QED BY <2>1, UnaryGood
  <1>2. DecayPoly = fold[n - 1]
    BY DEF DecayPoly, FoldRange, n, y, what
  <1> HIDE DEF Step
  <1>3. \A m \in Nat : m \in S
    <2>1. 0 \in S
      <3> DEFINE f == [i \in (0 - 1) .. (0 - 1) |-> y]
      <3>1. Fold(f, 0 - 1)
        OBVIOUS
      <3> HIDE DEF Fold, f
      <3> QED BY <3>1
    <2>2. ASSUME NEW m \in Nat, m \in S PROVE m + 1 \in S
      <3>1. PICK f : Fold(f, m - 1)
        BY <2>2
      <3> DEFINE h == [i \in (0 - 1) .. m |-> IF i < m THEN f[i] ELSE Step(f[m - 1], m)]
      <3>2. Fold(h, m)
        <4>1. ASSUME NEW i \in (0 - 1) .. m
              PROVE  h[i] = IF i < 0 THEN y ELSE Step(h[i - 1], i)
          <5>1. CASE i < 0
            BY <3>1, <5>1
          <5>2. CASE ~(i < 0) /\ i < m
            <6>1. i - 1 \in (0 - 1) .. m /\ i - 1 < m /\ i \in (0 - 1) .. (m - 1)
              BY <5>2
            <6>2. h[i - 1] = f[i - 1] /\ h[i] = f[i]
              BY <5>2, <6>1
            <6>3. f[i] = Step(f[i - 1], i)
              BY <3>1, <5>2, <6>1
            <6> HIDE DEF h
            <6> QED BY <5>2, <6>2, <6>3
          <5>3. CASE ~(i < 0) /\ ~(i < m)
            <6>1. i = m /\ m - 1 \in (0 - 1) .. m /\ m - 1 < m
              BY <5>3
            <6>2. h[m - 1] = f[m - 1] /\ h[m] = Step(f[m - 1], m)
              BY <5>3, <6>1
            <6> HIDE DEF h
            <6> QED BY <5>3, <6>1, <6>2
          <5> QED BY <5>1, <5>2, <5>3
        <4>2. h = [i \in (0 - 1) .. m |-> h[i]]
          OBVIOUS
        <4> HIDE DEF h
        <4> QED BY <4>1, <4>2, Zenon
      <3>3. m + 1 \in Nat /\ (m + 1) - 1 = m
        OBVIOUS
      <3> HIDE DEF Fold, h
      <3>4. \E g : Fold(g, (m + 1) - 1)
        BY <3>2, <3>3
      <3> QED BY <3>3, <3>4
    <2> HIDE DEF S
    <2> QED BY <2>1, <2>2, SetInduction
  <1>4. Fold(fold, n - 1)
    <2>1. \E f : Fold(f, n - 1)
      BY <1>3, <1>n
    <2> HIDE DEF Fold
    <2> QED BY <2>1
  <1> HIDE DEF fold
  <1>5. \A m \in Nat : m \in T
    <2>1. 0 \in T
      <3>1. fold[0 - 1] = y
        BY <1>4, <1>n
      <3> QED BY <1>0, <3>1
    <2>2. ASSUME NEW m \in Nat, m \in T PROVE m + 1 \in T
      <3>1. SUFFICES ASSUME m + 1 <= n PROVE Good(fold[(m + 1) - 1].log)
        OBVIOUS
      <3>2. fold[m] = Step(fold[m - 1], m)
        <4>1. m \in (0 - 1) .. (n - 1) /\ ~(m < 0)
          BY <1>n, <3>1
        <4> QED BY <1>4, <4>1
      <3>3. Good(fold[m - 1].log)
        BY <1>n, <2>2, <3>1
      <3>4. (m + 1) - 1 = m
        OBVIOUS
      <3> QED BY <1>1, <3>2, <3>3, <3>4
    <2> HIDE DEF T
    <2> QED BY <2>1, <2>2, SetInduction
  <1>6. n \in T /\ n <= n
    BY <1>5, <1>n
  <1>7. Good(fold[n - 1].log)
    BY <1>6
  <1> QED BY <1>2, <1>7

-----------------------------------------------------------------------------
(* Look-ahead encoding: what a product has taken so far is what its serial   *)
(* loop would have built, whoever encoded it                               *)

LEMMA ConcatIs ==
  ASSUME NEW n \in Nat, NEW k \in Nat, NEW f, NEW g,
         f = [i \in 1 .. n |-> f[i]], g = [i \in 1 .. k |-> g[i]]
  PROVE  f \o g = [i \in 1 .. (n + k) |-> IF i <= n THEN f[i] ELSE g[i - n]]
  <1> DEFINE V == {f[i] : i \in 1 .. n} \cup {g[i] : i \in 1 .. k}
             r == f \o g
  <1>1. f \in Seq(V) /\ g \in Seq(V)
    <2>1. \A i \in 1 .. n : f[i] \in V
      OBVIOUS
    <2>2. \A i \in 1 .. k : g[i] \in V
      OBVIOUS
    <2> HIDE DEF V
    <2>3. f \in [1 .. n -> V] /\ g \in [1 .. k -> V]
      BY <2>1, <2>2
    <2> QED BY <2>3, SeqDef
  <1> HIDE DEF V
  <1>2. Len(f) = n /\ Len(g) = k
    BY <1>1, LenProperties
  <1>3. r \in Seq(V) /\ Len(r) = n + k
        /\ \A i \in 1 .. (n + k) : r[i] = IF i <= n THEN f[i] ELSE g[i - n]
    BY <1>1, <1>2, ConcatProperties
  <1>4. r = [i \in 1 .. (n + k) |-> r[i]]
    BY <1>3, LenProperties
  <1> HIDE DEF r
  <1>5. r = [i \in 1 .. (n + k) |-> IF i <= n THEN f[i] ELSE g[i - n]]
    BY <1>3, <1>4
  <1> QED BY <1>5 DEF r

LEMMA PositionsAre ==
  ASSUME NEW m \in Int, NEW n \in Int
  PROVE  /\ Positions(m, n) \in Nat
         /\ \A gi \in DOMAIN SlotBsgsGiants(m, n), b \in 0 .. (BabyStep - 1) :
              (gi - 1) * BabyStep + b \in 0 .. (Positions(m, n) - 1)
  <1> DEFINE giants == SlotBsgsGiants(m, n)
             S == {o - (o % BabyStep) : o \in (1 - m) .. (n - 1)}
  <1>1. IsFiniteSet(S)
    <2>1. ASSUME NEW o \in (1 - m) .. (n - 1)
          PROVE  o - (o % BabyStep) \in (1 - m - BabyStep) .. (n - 1)
      <3>1. o % BabyStep \in 0 .. (BabyStep - 1)
        BY BabyAssumption
      <3> QED BY <3>1, BabyAssumption
    <2>2. S \subseteq (1 - m - BabyStep) .. (n - 1)
      BY <2>1
    <2>3. IsFiniteSet((1 - m - BabyStep) .. (n - 1))
      BY FS_Interval, BabyAssumption
    <2> HIDE DEF S
    <2> QED BY <2>2, <2>3, FS_Subset
  <1> DEFINE Nth(i) == CHOOSE x \in S : Cardinality({y \in S : y < x}) = i - 1
             f == [i \in 1 .. Cardinality(S) |-> Nth(i)]
  <1>2. giants = <<>> \o f
    BY DEF SlotBsgsGiants, Sorted
  <1>6. Cardinality(S) \in Nat
    BY <1>1, FS_CardinalityType
  <1> HIDE DEF giants, S, Nth
  <1>7. f = [i \in 1 .. Cardinality(S) |-> f[i]]
    OBVIOUS
  <1>8. DOMAIN f = 1 .. Cardinality(S)
    OBVIOUS
  <1> HIDE DEF f
  <1>9. <<>> \o f = f /\ Len(f) = Cardinality(S)
    BY <1>6, <1>7, Tabulated
  <1>3. Len(giants) \in Nat /\ DOMAIN giants = 1 .. Len(giants)
    BY <1>2, <1>6, <1>8, <1>9
  <1>4. Positions(m, n) = Len(giants) * BabyStep /\ BabyStep \in Nat
    BY BabyAssumption DEF Positions, giants
  <1>5. ASSUME NEW gi \in DOMAIN giants, NEW b \in 0 .. (BabyStep - 1)
        PROVE  (gi - 1) * BabyStep + b \in 0 .. (Len(giants) * BabyStep - 1)
    <2>1. gi \in Nat /\ 1 <= gi /\ gi <= Len(giants) /\ b \in Nat /\ b < BabyStep
      BY <1>3, <1>4
    <2>2. (gi - 1) * BabyStep <= (Len(giants) - 1) * BabyStep /\ 0 <= (gi - 1) * BabyStep
      BY <1>3, <1>4, <2>1
    <2>3. (Len(giants) - 1) * BabyStep = Len(giants) * BabyStep - BabyStep
          /\ (gi - 1) * BabyStep \in Int /\ Len(giants) * BabyStep \in Int
      BY <1>3, <1>4, <2>1
    <2> DEFINE u == (gi - 1) * BabyStep
               v == Len(giants) * BabyStep
    <2> HIDE DEF u, v
    <2>4. u \in Int /\ v \in Int /\ u <= v - BabyStep /\ 0 <= u
      BY <2>2, <2>3 DEF u, v
    <2>5. u + b \in 0 .. (v - 1)
      BY <1>4, <2>1, <2>4
    <2> QED BY <2>5 DEF u, v
  <1> QED BY <1>3, <1>4, <1>5 DEF giants

LEMMA EndTyped ==
  ASSUME NEW name
  PROVE  EndOf(name) \in Nat
  <1>1. Outputs(name) \in Int /\ Inputs(name) \in Int
    BY DimsAssumption DEF Outputs, Inputs
  <1> QED BY <1>1, PositionsAre DEF EndOf

(* The fields of `ahead`, which EXCEPT needs to know. *)
AheadFields == {"name", "next", "ready", "pending", "results", "job", "used"}

(* A position not yet encoded is still some worker's: ahead of where it is,   *)
(* at the distance of its stride.                                          *)
Owed(j) == \E w \in DOMAIN ahead.job, n \in Nat : j = ahead.job[w] + n * Workers
Encoded(name, j) == ahead.results[j] = EncodedMask(DiagonalOf(name, ahead.pending[j]))

BatchInv(name) ==
  /\ Len(ahead.pending) \in Nat /\ DOMAIN ahead.pending = 1 .. Len(ahead.pending)
  /\ DOMAIN ahead.results = DOMAIN ahead.pending
  /\ \A w \in DOMAIN ahead.job : ahead.job[w] \in Nat \ {0}
  /\ \A j \in DOMAIN ahead.pending : Encoded(name, j) \/ Owed(j)

ReadyInv(name) ==
  \A p \in DOMAIN ahead.ready : ahead.ready[p] = EncodedMask(DiagonalOf(name, p))
UsedInv(name) ==
  /\ ahead.next \in 0 .. EndOf(name)
  /\ ahead.used = [p \in 1 .. ahead.next |-> SerialAt(name, p - 1)]

(* A product that encodes ahead is the one about to multiply. *)
Encoding(name) ==
  /\ pc = PhaseOf(name) /\ LooksAhead(ShapeOfProduct(name))
  /\ DOMAIN ahead = AheadFields /\ ahead.name = name
  /\ UsedInv(name) /\ ReadyInv(name) /\ BatchInv(name)

AheadInv ==
  /\ threads \in Nat \ {0}
  /\ ahead = NoAhead \/ \E name \in Products : Encoding(name)

LEMMA Nameless == NoAhead.name = ""
  BY DEF NoAhead

LEMMA NoAheadIs ==
  /\ DOMAIN NoAhead = AheadFields /\ NoAhead.next = 0
  /\ NoAhead.ready = <<>> /\ NoAhead.pending = <<>> /\ NoAhead.results = <<>>
  /\ NoAhead.job = <<>> /\ NoAhead.used = <<>>
  BY DEF NoAhead, AheadFields

LEMMA Named ==
  ASSUME AheadInv, NEW name \in Products, ahead.name = name
  PROVE  Encoding(name)
  <1>1. name # ""
    BY Zenon DEF Products
  <1>2. ahead # NoAhead
    BY <1>1, Nameless, Zenon
  <1>3. PICK other \in Products : Encoding(other)
    BY <1>2 DEF AheadInv
  <1>4. other = name
    BY <1>3 DEF Encoding
  <1> QED BY <1>3, <1>4

LEMMA SerialIs ==
  ASSUME NEW name
  PROVE  Serial(name) = [p \in 1 .. EndOf(name) |-> SerialAt(name, p - 1)]
  <1> DEFINE f == [p \in 1 .. EndOf(name) |-> SerialAt(name, p - 1)]
  <1>1. DOMAIN f = 1 .. EndOf(name) /\ f = [p \in DOMAIN f |-> f[p]]
    OBVIOUS
  <1>2. Serial(name) = <<>> \o f
    BY DEF Serial, EndOf
  <1> HIDE DEF f
  <1>3. Serial(name) = f
    BY <1>1, <1>2, EndTyped, Tabulated
  <1> QED BY <1>3 DEF f

LEMMA AheadSerial == AheadInv => AheadIsSerial
  <1> SUFFICES ASSUME AheadInv, NEW name \in Products,
                      ahead.name = name, ahead.next = EndOf(name)
               PROVE  ahead.used = Serial(name)
    BY DEF AheadIsSerial
  <1>1. UsedInv(name)
    BY Named DEF Encoding
  <1> QED BY <1>1, SerialIs DEF UsedInv

(* What a product without replicas multiplies by is in time or comes from    *)
(* its table.                                                              *)
LEMMA PlainsGood ==
  ASSUME AheadInv, NEW name \in Products, pc = PhaseOf(name),
         EncodedFor(name, ShapeOfProduct(name)), ~(ShapeOfProduct(name).replicas > 1),
         NEW p \in 0 .. (EndOf(name) - 1), NEW lvl
  PROVE  LET plains == IF ahead.name = name THEN ahead.used ELSE Serial(name)
         IN  GoodEvent(<<"pt", <<name, layer, p>>, plains[p + 1].level, lvl>>)
  <1> DEFINE plains == IF ahead.name = name THEN ahead.used ELSE Serial(name)
             key == <<name, layer, p>>
             e == <<"pt", key, plains[p + 1].level, lvl>>
  <1>0. EndOf(name) \in Nat /\ p + 1 \in 1 .. EndOf(name) /\ (p + 1) - 1 = p
    BY EndTyped
  <1>1. plains[p + 1] = SerialAt(name, p)
    <2>1. CASE ahead.name = name
      <3>1. Encoding(name)
        BY <2>1, Named
      <3>2. ahead.next = EndOf(name)
        BY <3>1 DEF Encoding, EncodedFor, EndOf
      <3> QED BY <1>0, <2>1, <3>1, <3>2 DEF Encoding, UsedInv
    <2>2. CASE ahead.name # name
      BY <1>0, <2>2, SerialIs
    <2> QED BY <2>1, <2>2
  <1> HIDE DEF plains
  <1>2. CASE InTable(name, layer, p)
    <2>1. key \in DOMAIN PlainCache /\ plains[p + 1].level = PlainCache[key].level
      BY <1>1, <1>2 DEF SerialAt, SerialPlain, InTable
    <2>2. key[1] = name
      OBVIOUS
    <2>3. TableKey(key)
      BY <2>2 DEF TableKey
    <2>4. e[1] = "pt" /\ e[2] = key /\ e[3] = plains[p + 1].level
      OBVIOUS
    <2> HIDE DEF key, e
    <2>5. TableUse(e)
      BY <2>1, <2>3, <2>4 DEF TableUse
    <2> QED BY <2>4, <2>5 DEF GoodEvent, key, e, plains
  <1>3. CASE ~InTable(name, layer, p)
    <2>1. plains[p + 1].level = 0
      BY <1>1, <1>3 DEF SerialAt, SerialPlain
    <2>2. InTime(e)
      BY <2>1 DEF InTime
    <2> QED BY <2>2 DEF GoodEvent, plains
  <1> QED BY <1>2, <1>3

-----------------------------------------------------------------------------
(* The inductive invariant *)

Silent(cts) == IsSequence(cts) /\ \A i \in DOMAIN cts : cts[i].log = {}

Running ==
  pc \in {"reencrypt", "refresh", "encrypt_input", "residual", "block_norm", "in_proj", "conv",
          "gate", "dt", "decay", "expand", "scan", "skip_gate", "gated_norm", "out_proj", "final"}

(* What an invocation derives does not change, and a process past its start *)
(* has accepted it.                                                        *)
HostInv ==
  /\ run \in DOMAIN Configs /\ host = Host(run)
  /\ pc \notin {"idle", "start", "done"} => host.accepted

(* The layer at work, and whose bounds are active. *)
PhaseInv ==
  /\ InLayer => layer \in DOMAIN Layered
  /\ InLayer /\ pc # "residual" => active = layer
  /\ pc = "final" => active = Len(Layered)
  /\ pc \in {"expand", "scan"} => stream \in 0 .. (C.streams - 1)
  /\ pc = "scan" => group \in 0 .. G.group_count
  /\ has_state \subseteq DOMAIN Layered

(* Between two steps a ciphertext is kept without what computed it. *)
RegInv ==
  /\ reg = [f \in DOMAIN NoRegisters |-> reg[f]]
  /\ \A f \in DOMAIN NoRegisters : reg[f].log = {}

CarriedInv ==
  /\ fifo = [k \in DOMAIN Layered |-> fifo[k]] /\ state = [k \in DOMAIN Layered |-> state[k]]
  /\ \A k \in DOMAIN Layered : Silent(fifo[k]) /\ Silent(state[k])
  /\ Running => \A k \in DOMAIN Layered : Len(state[k]) = Slotted

DiskInv == \A file \in DOMAIN disk : file[2] = "input" => disk[file].ct.log = {}

EventsInv == \A e \in events : GoodEvent(e)

Inv == HostInv /\ PhaseInv /\ RegInv /\ CarriedInv /\ DiskInv /\ EventsInv

(* A layer between its first refresh and its last step. *)
InPhase == Ready /\ layer \in DOMAIN Layered /\ active = layer /\ RegInv

LEMMA PointsAre ==
  ASSUME InPhase, NEW kind, kind # "final_norm_scaled"
  PROVE  /\ PointOK(Point(kind, layer), active)
         /\ \A s \in Nat : PointOK(PointAt(kind, layer, s), active)
  <1>1. layer # 0
    BY LayersOfPayload DEF InPhase
  <1> QED BY <1>1 DEF InPhase, PointOK, Point, PointAt

LEMMA Registers ==
  ASSUME RegInv
  PROVE  /\ reg.hidden.log = {} /\ reg.inv.log = {} /\ reg.linear.log = {} /\ reg.proj.log = {}
         /\ reg.conv.log = {} /\ reg.gate.log = {} /\ reg.dt.log = {} /\ reg.decay.log = {}
         /\ reg.b.log = {} /\ reg.c.log = {} /\ reg.conv_s.log = {} /\ reg.dt_s.log = {}
         /\ reg.decay_s.log = {} /\ reg.dt_heads.log = {} /\ reg.decay_heads.log = {}
         /\ reg.y_stream.log = {} /\ reg.y.log = {}
  BY DEF RegInv, NoRegisters

LEMMA EmptyGood == Good({})
  BY DEF Good

(* Up to the recurrence *)

LEMMA BlockInverseGood ==
  ASSUME InPhase
  PROVE  Good(BlockInverseCt.log)
  <1> DEFINE l == Layer(layer)
             plan == Plan(layer)
             variance == NormVarianceSum(Square(reg.hidden))
             sum == AddScalar(variance, Dims.d_model * l.eps_block)
             u == AddScalar(ScaleCt(sum, plan.a_rms_v), l.rms.b)
             mean == AddScalar(ScaleCt(variance, Div(1, Dims.d_model)), l.eps_block)
             guess == EvalChebyshev(u, plan.rms_coeffs)
             half == ScaleCt(sum, -Half)
             norm == Point("scheduled_norm", layer)
             newton == Point("rms_newton", layer)
  <1>0. Ready /\ layer \in DOMAIN Layered /\ l = Layered[layer]
    BY DEF InPhase, Layer
  <1>1. Good(variance.log)
    <2>1. Good(reg.hidden.log)
      BY Registers, EmptyGood DEF InPhase
    <2> QED BY <1>0, <2>1, UnaryGood, VarianceGood
  <1>2. PointOK(norm, active) /\ PointOK(newton, active) /\ norm.kind = "scheduled_norm"
    BY PointsAre DEF Point
  <1> HIDE DEF l, plan, variance, norm, newton
  <1>3. Good(sum.log)
    BY <1>1, UnaryGood
  <1> HIDE DEF sum
  <1>4. Good(half.log) /\ Good(ScaleCt(sum, plan.a_rms_v).log)
    BY <1>3, UnaryGood
  <1>5. Good(u.log)
    BY <1>4, UnaryGood
  <1>6. Good(ScaleCt(variance, Div(1, Dims.d_model)).log)
    BY <1>1, UnaryGood
  <1>7. Good(mean.log)
    BY <1>6, UnaryGood
  <1> HIDE DEF u, mean, half
  <1>8. Good(guess.log)
    BY <1>5, ChebyshevGood
  <1> HIDE DEF guess
  <1>9. CASE Scheduled(l.rms)
    <2>1. BlockInverseCt = ScheduledInverse(mean, l.rms, norm, active)
      BY <1>9 DEF BlockInverseCt, l, plan, variance, sum, u, mean, guess, half, norm, newton
    <2>2. Len(l.rms.stages) \in Nat
      BY <1>0, <1>9, CountsHold
    <2>3. Good(ScheduledInverse(mean, l.rms, norm, active).log)
      BY <1>0, <1>2, <1>7, <2>2, ScheduledInverseGood
    <2> QED BY <2>1, <2>3
  <1>10. CASE ~Scheduled(l.rms)
    <2>1. BlockInverseCt = NewtonRefine(guess, half, l.rms.iterations, newton, active)
      BY <1>10 DEF BlockInverseCt, l, plan, variance, sum, u, mean, guess, half, norm, newton
    <2>2. l.rms.iterations \in Nat
      BY <1>0, <1>10, CountsHold
    <2>3. Good(NewtonRefine(guess, half, l.rms.iterations, newton, active).log)
      BY <1>0, <1>2, <1>4, <1>8, <2>2, NewtonRefineGood
    <2> QED BY <2>1, <2>3
  <1> QED BY <1>9, <1>10

(* Either shape of a product. *)
LEMMA ProductTurns ==
  ASSUME Ready, NEW m, NEW n, NEW S,
         \A a \in Needed(ProductRotations(S, m, n)) : Turnable(a)
  PROVE  /\ S.replicas > 1 => \A a \in Needed(ReplicatedRotations(n, S)) : Turnable(a)
         /\ ~(S.replicas > 1) => \A a \in Needed(SlotBsgsRotations(m, n)) : Turnable(a)
  BY DEF ProductRotations

LEMMA LateInputGood ==
  ASSUME NEW input, NEW inverse, NEW levels, Good(input.log)
  PROVE  Good(LateLevelInput(input, inverse, levels).log)
  BY DEF LateLevelInput, Made

LEMMA InPlainsGood ==
  ASSUME AheadInv, pc = "in_proj", EncodedFor("in", G.rep_in), ~(G.rep_in.replicas > 1),
         NEW gi \in DOMAIN SlotBsgsGiants(Dims.proj_dim, Dims.d_model), NEW b \in 0 .. (BabyStep - 1)
  PROVE  LET plains == IF ahead.name = "in" THEN ahead.used ELSE Serial("in")
             p == (gi - 1) * BabyStep + b
         IN  GoodEvent(<<"pt", <<"in", layer, p>>, plains[p + 1].level, InputOf("in").lvl>>)
  <1> DEFINE p == (gi - 1) * BabyStep + b
  <1>1. "in" \in Products /\ pc = PhaseOf("in") /\ ShapeOfProduct("in") = G.rep_in
    BY DEF Products, PhaseOf, ShapeOfProduct
  <1>2. EndOf("in") = Positions(Dims.proj_dim, Dims.d_model)
    BY DEF EndOf, Outputs, Inputs
  <1>3. p \in 0 .. (EndOf("in") - 1)
    <2>1. Dims.proj_dim \in Int /\ Dims.d_model \in Int
      BY DimsAssumption
    <2> QED BY <1>2, <2>1, PositionsAre
  <1> HIDE DEF p
  <1> QED BY <1>1, <1>3, PlainsGood DEF p

LEMMA InProjectionGood ==
  ASSUME InPhase, AheadInv, pc = "in_proj", EncodedFor("in", G.rep_in)
  PROVE  Good(InProjection.log)
  <1>1. Ready /\ Good(reg.hidden.log)
    BY Registers, EmptyGood DEF InPhase
  <1>2. Good(InputOf("in").log)
    <2>1. InputOf("in") = LateLevelInput(reg.hidden, reg.inv, 1)
      BY DEF InputOf
    <2> QED BY <1>1, <2>1, LateInputGood
  <1>3. \A a \in Needed(ProductRotations(G.rep_in, Dims.proj_dim, Dims.d_model)) : Turnable(a)
    BY <1>1, Families
  <1>4. CASE G.rep_in.replicas > 1
    <2>1. \A a \in Needed(ReplicatedRotations(Dims.d_model, G.rep_in)) : Turnable(a)
      BY <1>1, <1>3, <1>4, ProductTurns
    <2>2. /\ G.rep_in.replicas \in Nat \ {0} /\ G.rep_in.per_replica \in Nat \ {0}
          /\ G.rep_in.baby \in Nat \ {0}
      <3>1. G.rep_in = ProjectionShape(C, Dims.proj_dim, Dims.d_model)
        BY <1>1, ReadyHolds DEF DerivePacking
      <3>2. Dims.proj_dim \in Nat \ {0} /\ Dims.d_model \in Nat \ {0}
        BY DimsAssumption
      <3> QED BY <1>1, <1>4, <3>1, <3>2, ShapeTyped
    <2>3. Good(ReplicatedBsgs(InputOf("in"), Weights("in"), "in", layer, Dims.proj_dim,
                              Dims.d_model, G.rep_in).log)
      BY <1>1, <1>2, <2>1, <2>2, ReplicatedBsgsGood
    <2> QED BY <1>4, <2>3 DEF InProjection
  <1>5. CASE ~(G.rep_in.replicas > 1)
    <2>1. \A a \in Needed(SlotBsgsRotations(Dims.proj_dim, Dims.d_model)) : Turnable(a)
      BY <1>1, <1>3, <1>5, ProductTurns
    <2>2. Good(LegacyProduct("in").log)
      <3> DEFINE plains == IF ahead.name = "in" THEN ahead.used ELSE Serial("in")
      <3>1. LegacyProduct("in")
              = SlotBsgs(InputOf("in"), plains, "in", layer, Dims.proj_dim, Dims.d_model)
        BY DEF LegacyProduct, Outputs, Inputs
      <3>2. \A gi \in DOMAIN SlotBsgsGiants(Dims.proj_dim, Dims.d_model), b \in 0 .. (BabyStep - 1) :
              LET p == (gi - 1) * BabyStep + b
              IN  GoodEvent(<<"pt", <<"in", layer, p>>, plains[p + 1].level,
                              InputOf("in").lvl>>)
        BY <1>5, InPlainsGood
      <3> HIDE DEF plains
      <3>3. Good(SlotBsgs(InputOf("in"), plains, "in", layer, Dims.proj_dim, Dims.d_model).log)
        BY <1>1, <1>2, <2>1, <3>2, SlotBsgsGood
      <3> QED BY <3>1, <3>3
    <2> QED BY <1>5, <2>2 DEF InProjection
  <1> QED BY <1>4, <1>5

LEMMA OutPlainsGood ==
  ASSUME AheadInv, pc = "out_proj", EncodedFor("out", G.rep_out), ~(G.rep_out.replicas > 1),
         NEW gi \in DOMAIN SlotBsgsGiants(Dims.d_model, Dims.d_inner), NEW b \in 0 .. (BabyStep - 1)
  PROVE  LET plains == IF ahead.name = "out" THEN ahead.used ELSE Serial("out")
             p == (gi - 1) * BabyStep + b
         IN  GoodEvent(<<"pt", <<"out", layer, p>>, plains[p + 1].level, InputOf("out").lvl>>)
  <1> DEFINE p == (gi - 1) * BabyStep + b
  <1>1. "out" \in Products /\ pc = PhaseOf("out") /\ ShapeOfProduct("out") = G.rep_out
    BY DEF Products, PhaseOf, ShapeOfProduct
  <1>2. EndOf("out") = Positions(Dims.d_model, Dims.d_inner)
    BY DEF EndOf, Outputs, Inputs
  <1>3. p \in 0 .. (EndOf("out") - 1)
    <2>1. Dims.d_model \in Int /\ Dims.d_inner \in Int
      BY DimsAssumption
    <2> QED BY <1>2, <2>1, PositionsAre
  <1> HIDE DEF p
  <1> QED BY <1>1, <1>3, PlainsGood DEF p

LEMMA OutProjectionGood ==
  ASSUME InPhase, AheadInv, pc = "out_proj", EncodedFor("out", G.rep_out)
  PROVE  Good(OutProjection.log)
  <1>1. Ready /\ Good(reg.y.log)
    BY Registers, EmptyGood DEF InPhase
  <1>2. Good(InputOf("out").log)
    <2> DEFINE levels == IF G.rep_out.replicas > 1 THEN 2 ELSE 1
    <2>1. InputOf("out") = LateLevelInput(reg.y, reg.inv, levels)
      BY DEF InputOf
    <2> HIDE DEF levels
    <2> QED BY <1>1, <2>1, LateInputGood
  <1>3. \A a \in Needed(ProductRotations(G.rep_out, Dims.d_model, Dims.d_inner)) : Turnable(a)
    BY <1>1, Families
  <1>4. CASE G.rep_out.replicas > 1
    <2> DEFINE product == ReplicatedBsgs(InputOf("out"), Weights("out"), "out", layer,
                                         Dims.d_model, Dims.d_inner, G.rep_out)
    <2>1. \A a \in Needed(ReplicatedRotations(Dims.d_inner, G.rep_out)) : Turnable(a)
      BY <1>1, <1>3, <1>4, ProductTurns
    <2>2. /\ G.rep_out.replicas \in Nat \ {0} /\ G.rep_out.per_replica \in Nat \ {0}
          /\ G.rep_out.baby \in Nat \ {0}
      <3>1. G.rep_out = ProjectionShape(C, Dims.d_model, Dims.d_inner)
        BY <1>1, ReadyHolds DEF DerivePacking
      <3>2. Dims.d_model \in Nat \ {0} /\ Dims.d_inner \in Nat \ {0}
        BY DimsAssumption
      <3> QED BY <1>1, <1>4, <3>1, <3>2, ShapeTyped
    <2>3. Good(product.log)
      BY <1>1, <1>2, <2>1, <2>2, ReplicatedBsgsGood
    <2>4. OutProjection = MulMask(product, <<"out_clean">>, BlockMask(G, 0, Dims.d_model))
      BY <1>4 DEF OutProjection
    <2> HIDE DEF product
    <2> QED BY <2>3, <2>4, MaskGood
  <1>5. CASE ~(G.rep_out.replicas > 1)
    <2>1. \A a \in Needed(SlotBsgsRotations(Dims.d_model, Dims.d_inner)) : Turnable(a)
      BY <1>1, <1>3, <1>5, ProductTurns
    <2>2. Good(LegacyProduct("out").log)
      <3> DEFINE plains == IF ahead.name = "out" THEN ahead.used ELSE Serial("out")
      <3>1. LegacyProduct("out")
              = SlotBsgs(InputOf("out"), plains, "out", layer, Dims.d_model, Dims.d_inner)
        BY DEF LegacyProduct, Outputs, Inputs
      <3>2. \A gi \in DOMAIN SlotBsgsGiants(Dims.d_model, Dims.d_inner), b \in 0 .. (BabyStep - 1) :
              LET p == (gi - 1) * BabyStep + b
              IN  GoodEvent(<<"pt", <<"out", layer, p>>, plains[p + 1].level,
                              InputOf("out").lvl>>)
        BY <1>5, OutPlainsGood
      <3> HIDE DEF plains
      <3>3. Good(SlotBsgs(InputOf("out"), plains, "out", layer, Dims.d_model, Dims.d_inner).log)
        BY <1>1, <1>2, <2>1, <3>2, SlotBsgsGood
      <3> QED BY <3>1, <3>3
    <2> QED BY <1>5, <2>2 DEF OutProjection
  <1> QED BY <1>4, <1>5

(* Sequences of ciphertexts *)

LEMMA SequenceOf ==
  ASSUME NEW V, NEW s \in Seq(V)
  PROVE  IsSequence(s) /\ \A i \in DOMAIN s : s[i] \in V
  <1>1. s = [i \in DOMAIN s |-> s[i]] /\ DOMAIN s = 1 .. Len(s) /\ Len(s) \in Nat
        /\ \A i \in DOMAIN s : s[i] \in V
    BY LenProperties
  <1> QED BY <1>1, Tabulated

LEMMA FreshSilent ==
  ASSUME NEW cts, NEW n \in Nat, DOMAIN cts = 1 .. n
  PROVE  Silent(AllFresh(cts)) /\ Len(AllFresh(cts)) = n /\ DOMAIN AllFresh(cts) = 1 .. n
  <1> DEFINE f == [i \in DOMAIN cts |-> Fresh(cts[i])]
  <1>1. f = [i \in DOMAIN f |-> f[i]] /\ DOMAIN f = 1 .. n /\ \A i \in DOMAIN f : f[i].log = {}
    BY DEF Fresh, Ct, Made
  <1>2. AllFresh(cts) = <<>> \o f
    BY DEF AllFresh
  <1> HIDE DEF f
  <1>3. IsSequence(f) /\ <<>> \o f = f /\ Len(f) = n
    BY <1>1, Tabulated
  <1> QED BY <1>1, <1>2, <1>3 DEF Silent

LEMMA LogsGood ==
  ASSUME NEW cts, \A i \in DOMAIN cts : Good(cts[i].log)
  PROVE  Good(Logs(cts))
  BY DEF Logs, Good

LEMMA SilentGood ==
  ASSUME NEW cts, Silent(cts)
  PROVE  /\ Len(cts) \in Nat /\ DOMAIN cts = 1 .. Len(cts)
         /\ \A i \in DOMAIN cts : Good(cts[i].log)
  BY SequenceDomain, EmptyGood DEF Silent

(* The window, and the phases up to the recurrence *)

LEMMA WindowSilent ==
  ASSUME InPhase, CarriedInv
  PROVE  Silent(Window) /\ Window # <<>>
  <1> DEFINE f == fifo[layer]
             V == Range(f) \cup {reg.proj}
             pushed == Append(f, reg.proj)
  <1>1. Silent(f) /\ reg.proj.log = {}
    BY Registers DEF InPhase, CarriedInv
  <1>2. f \in Seq(V) /\ \A v \in V : v.log = {}
    <2>1. f \in Seq(Range(f)) /\ \A v \in Range(f) : v.log = {}
      BY <1>1 DEF Silent, IsSequence, Range
    <2> HIDE DEF f
    <2>2. Range(f) \subseteq V
      OBVIOUS
    <2>3. f \in Seq(V)
      <3> DEFINE W == Range(f)
      <3>1. f \in Seq(W) /\ W \subseteq V
        BY <2>1, <2>2
      <3> HIDE DEF W, V
      <3> QED BY <3>1
    <2> QED BY <1>1, <2>1, <2>3
  <1>3. Dims.conv_kernel \in Nat \ {0}
    BY DimsAssumption
  <1>4. Window = IF Len(pushed) > Dims.conv_kernel THEN Tail(pushed) ELSE pushed
    BY DEF Window
  <1>v. reg.proj \in V
    OBVIOUS
  <1> HIDE DEF V, f
  <1>5. pushed \in Seq(V) /\ Len(pushed) = Len(f) + 1 /\ Len(f) \in Nat
    BY <1>2, <1>v
  <1>6. Window \in Seq(V) /\ Window # <<>>
    <2> HIDE DEF pushed
    <2>1. CASE Len(pushed) > Dims.conv_kernel
      <3>1. Len(pushed) > 1 /\ pushed # <<>>
        BY <1>3, <1>5, <2>1
      <3>2. Tail(pushed) \in Seq(V) /\ Len(Tail(pushed)) = Len(pushed) - 1
        BY <1>5, <3>1
      <3>3. Tail(pushed) # <<>>
        <4>1. Len(Tail(pushed)) > 0
          BY <1>5, <3>1, <3>2
        <4>2. Len(<<>>) = 0
          OBVIOUS
        <4> QED BY <4>1, <4>2
      <3> QED BY <1>4, <2>1, <3>2, <3>3
    <2>2. CASE ~(Len(pushed) > Dims.conv_kernel)
      <3>1. pushed # <<>>
        BY <1>5
      <3> QED BY <1>4, <1>5, <2>2, <3>1
    <2> QED BY <2>1, <2>2
  <1> QED BY <1>2, <1>6, SequenceOf DEF Silent

LEMMA RefreshedWindowGood ==
  ASSUME InPhase, NEW window, Silent(window)
  PROVE  /\ DOMAIN RefreshedWindow(window) = 1 .. Len(window) /\ Len(window) \in Nat
         /\ \A i \in DOMAIN RefreshedWindow(window) : Good(RefreshedWindow(window)[i].log)
  <1> DEFINE f == [i \in DOMAIN window |->
                     MaybeBootstrap(window[i], Req.fifo, PointAt("fifo", layer, i - 1), active)]
  <1>1. /\ Len(window) \in Nat /\ DOMAIN window = 1 .. Len(window)
        /\ \A i \in DOMAIN window : Good(window[i].log)
    BY SilentGood
  <1>2. \A i \in DOMAIN f : Good(f[i].log)
    <2>1. SUFFICES ASSUME NEW i \in DOMAIN window PROVE Good(f[i].log)
      OBVIOUS
    <2>2. i - 1 \in Nat /\ Good(window[i].log) /\ Ready
      BY <1>1, <2>1 DEF InPhase
    <2>3. PointOK(PointAt("fifo", layer, i - 1), active)
      BY <2>2, PointsAre
    <2>4. Good(MaybeBootstrap(window[i], Req.fifo, PointAt("fifo", layer, i - 1), active).log)
      BY <2>2, <2>3, MaybeGood
    <2> QED BY <2>1, <2>4
  <1>3. f = [i \in DOMAIN f |-> f[i]] /\ DOMAIN f = 1 .. Len(window)
    BY <1>1
  <1>4. RefreshedWindow(window) = <<>> \o f
    BY DEF RefreshedWindow
  <1> HIDE DEF f
  <1>5. <<>> \o f = f
    BY <1>1, <1>3, Tabulated
  <1> QED BY <1>1, <1>2, <1>3, <1>4, <1>5

LEMMA ConvGood ==
  ASSUME InPhase, NEW window, NEW n \in Nat, DOMAIN window = 1 .. n
  PROVE  Good(ConvOf(window).log)
  <1> DEFINE w == AllFresh(window)
             Term(i) == MulMask(w[i], <<"tap", layer, Dims.conv_kernel - Len(w) + i - 1>>,
                                Plan(layer).taps[Dims.conv_kernel - Len(w) + i - 1 + 1])
             cts == {<<i, Term(i)>> : i \in DOMAIN w}
             sum == SumCts(cts)
             u == AddConstVector(sum, <<"conv_const", layer>>, Plan(layer).conv_const)
             y == EvalChebyshev(u, Layer(layer).conv.c)
  <1>1. \A i \in DOMAIN w : Good(w[i].log)
    <2>1. Silent(w)
      BY FreshSilent
    <2> HIDE DEF w
    <2> QED BY <2>1, SilentGood
  <1>2. ConvPacked(w) = Rotate(y, G.xbc0)
    BY Zenon DEF ConvPacked, SumOver
  <1> HIDE DEF w
  <1>3. \A c \in cts : Good(c[2].log)
    <2>1. \A i \in DOMAIN w : Good(Term(i).log)
      BY <1>1, MaskGood
    <2> HIDE DEF Term
    <2> QED BY <2>1
  <1> HIDE DEF cts
  <1>4. Good(sum.log)
    BY <1>3, SumGood
  <1> HIDE DEF sum
  <1>5. Good(u.log)
    BY <1>4, MaskGood
  <1> HIDE DEF u
  <1>6. Good(y.log)
    BY <1>5, ChebyshevGood
  <1> HIDE DEF y
  <1>7. Good(ConvPacked(w).log) /\ Ready
    <2>1. Ready /\ Turnable(G.xbc0)
      BY Families DEF InPhase
    <2>2. Good(Rotate(y, G.xbc0).log)
      BY <1>6, <2>1, RotateGood
    <2> QED BY <1>2, <2>1, <2>2
  <1>8. PointOK(Point("conv_silu", layer), active)
    BY PointsAre
  <1>9. Good(MaybeBootstrap(ConvPacked(w), Req.conv, Point("conv_silu", layer), active).log)
    BY <1>7, <1>8, MaybeGood
  <1> QED BY <1>9 DEF ConvOf, w

LEMMA GateGood ==
  ASSUME InPhase
  PROVE  Good(EvalChebyshev(
           AddScalar(MulMask(reg.proj, <<"gate_mask", layer>>, Plan(layer).gate_mask),
                     Layer(layer).gate.b), Plan(layer).gate_coeffs).log)
  <1> DEFINE masked == MulMask(reg.proj, <<"gate_mask", layer>>, Plan(layer).gate_mask)
             u == AddScalar(masked, Layer(layer).gate.b)
  <1>1. Good(reg.proj.log)
    BY Registers, EmptyGood DEF InPhase
  <1>2. Good(masked.log)
    BY <1>1, MaskGood
  <1>3. Good(u.log)
    <2> HIDE DEF masked
    <2> QED BY <1>2, UnaryGood
  <1>4. Good(EvalChebyshev(u, Plan(layer).gate_coeffs).log)
    <2> HIDE DEF u
    <2> QED BY <1>3, ChebyshevGood
  <1> QED BY <1>4

LEMMA DtInputGood ==
  ASSUME InPhase
  PROVE  Good(DtInput.log)
  <1> DEFINE plan == Plan(layer)
             shifted == AddConstVector(reg.proj, <<"joint_dt_bias", layer>>, plan.joint_dt_bias)
             biased == IF Layer(layer).joint.on THEN shifted ELSE reg.proj
             masked == MulMask(biased, <<"dt_mask", layer>>, plan.dt_mask)
  <1>1. Good(reg.proj.log)
    BY Registers, EmptyGood DEF InPhase
  <1>2. Good(shifted.log)
    BY <1>1, MaskGood
  <1>3. Good(biased.log)
    <2> HIDE DEF shifted
    <2> QED BY <1>1, <1>2
  <1>4. DtInput = AddConstVector(masked, <<"dt_const", layer>>, plan.dt_const)
    BY DEF DtInput
  <1> HIDE DEF biased, plan
  <1>5. Good(masked.log)
    BY <1>3, MaskGood
  <1> HIDE DEF masked
  <1> QED BY <1>4, <1>5, MaskGood

LEMMA StepGood ==
  ASSUME InPhase
  PROVE  Good(Dissipation.log) /\ Good(StepOf(Dissipation).log)
  <1> DEFINE joint == Layer(layer).joint
             p == JointRoot(DtInput, joint, joint.p)
             q == JointRoot(DtInput, joint, joint.q)
             fitted == EvalChebyshev(DtInput, Layer(layer).dt.c)
             both == MulCt(Dissipation, Square(q))
             raw == IF joint.on THEN both ELSE Square(fitted)
  <1>1. Good(DtInput.log) /\ Ready /\ PointOK(Point("dt", layer), active)
    BY DtInputGood, PointsAre DEF InPhase
  <1>2. Good(p.log) /\ Good(q.log) /\ Good(fitted.log)
    <2> HIDE DEF joint
    <2> QED BY <1>1, JointGood, ChebyshevGood
  <1>3. Dissipation = Square(p)
    BY DEF Dissipation
  <1> HIDE DEF p, q, fitted
  <1>4. Good(Dissipation.log) /\ Good(Square(q).log) /\ Good(Square(fitted).log)
    BY <1>2, <1>3, UnaryGood
  <1>5. Good(both.log)
    BY <1>4, BinaryGood
  <1>6. StepOf(Dissipation) = MaybeBootstrap(raw, Req.dt, Point("dt", layer), active)
    BY DEF StepOf, q, fitted
  <1>7. Good(raw.log)
    <2> HIDE DEF both
    <2> QED BY <1>4, <1>5
  <1> HIDE DEF raw
  <1>8. Good(StepOf(Dissipation).log)
    BY <1>1, <1>6, <1>7, MaybeGood
  <1> QED BY <1>4, <1>8

LEMMA DecayGood ==
  ASSUME InPhase
  PROVE  Good(MaybeBootstrap(IF Layer(layer).joint.on THEN reg.decay ELSE DecayPoly,
                             Req.decay, Point("decay", layer), active).log)
  <1> DEFINE raw == IF Layer(layer).joint.on THEN reg.decay ELSE DecayPoly
  <1>1. /\ Good(reg.decay.log) /\ reg.dt.log = {} /\ Ready /\ layer \in DOMAIN Layered
        /\ active = layer /\ PointOK(Point("decay", layer), active)
    BY Registers, EmptyGood, PointsAre DEF InPhase
  <1>2. Good(DecayPoly.log)
    BY <1>1, DecayPolyGood
  <1>3. Good(raw.log)
    BY <1>1, <1>2
  <1> HIDE DEF raw
  <1>4. Good(MaybeBootstrap(raw, Req.decay, Point("decay", layer), active).log)
    BY <1>1, <1>3, MaybeGood
  <1> QED BY <1>4 DEF raw

(* The recurrence *)

LEMMA ShiftGood ==
  ASSUME Ready, NEW ct, Good(ct.log), stream \in 0 .. (C.streams - 1)
  PROVE  /\ Good(RotateComposite(ct, stream * G.stride).log)
         /\ Good(RotateComposite(ct, -(stream * G.stride)).log)
  <1> DEFINE by == stream * G.stride
  <1>1. by \in Nat /\ by < G.batch /\ G.batch \in Nat
    BY WidthsFit
  <1> HIDE DEF by
  <1>2. /\ by \in Int /\ -G.batch < by /\ by < G.batch
        /\ -by \in Int /\ -G.batch < -by /\ -by < G.batch
    BY <1>1
  <1>3. Good(RotateComposite(ct, by).log) /\ Good(RotateComposite(ct, -by).log)
    BY <1>2, CompositeGood
  <1> QED BY <1>3 DEF by

LEMMA ExpandLogGood ==
  ASSUME InPhase, stream \in 0 .. (C.streams - 1), Expand
  PROVE  Good(events')
  <1> DEFINE Shifted(ct) == IF stream = 0 THEN ct ELSE RotateComposite(ct, stream * G.stride)
             conv == Shifted(reg.conv)
             dt == Shifted(reg.dt)
             decay == IF layer \in has_state THEN Shifted(reg.decay) ELSE NoCt
             b == BcExpand(conv, G.b_base)
             c == BcExpand(conv, G.c_base)
             dt_heads == IF C.shared THEN PlaceAllHeads(dt, Heads) ELSE NoCt
             decay_heads == IF C.shared /\ layer \in has_state /\ Kept # {}
                            THEN PlaceAllHeads(decay, Kept) ELSE NoCt
  <1>1. events' = UNION {ct.log : ct \in {conv, dt, decay, b, c, dt_heads, decay_heads}}
    BY DEF Expand, Logged
  <1>2. Ready /\ Good(reg.conv.log) /\ Good(reg.dt.log) /\ Good(reg.decay.log)
    BY Registers, EmptyGood DEF InPhase
  <1>3. ASSUME NEW ct, Good(ct.log) PROVE Good(Shifted(ct).log)
    BY <1>2, <1>3, ShiftGood
  <1>4. Good(conv.log) /\ Good(dt.log) /\ Good(Shifted(reg.decay).log)
    <2> HIDE DEF Shifted
    <2> QED BY <1>2, <1>3
  <1> HIDE DEF Shifted
  <1>5. Good(NoCt.log)
    BY EmptyGood DEF NoCt, Ct, Made
  <1>6. Good(decay.log)
    BY <1>4, <1>5
  <1> HIDE DEF conv, dt, decay
  <1>7. Good(b.log) /\ Good(c.log)
    BY <1>2, <1>4, ExpandGood
  <1>8. Good(dt_heads.log)
    <2>1. CASE C.shared
      <3>1. Good(PlaceAllHeads(dt, Heads).log)
        BY <1>2, <1>4, <2>1, PlaceAllHeadsGood
      <3> QED BY <2>1, <3>1
    <2>2. CASE ~C.shared
      BY <1>5, <2>2
    <2> QED BY <2>1, <2>2
  <1>9. Good(decay_heads.log)
    <2>1. CASE C.shared /\ layer \in has_state /\ Kept # {}
      <3>1. Kept \in SUBSET Heads
        BY DEF Kept
      <3>2. Good(PlaceAllHeads(decay, Kept).log)
        BY <1>2, <1>6, <2>1, <3>1, PlaceAllHeadsGood
      <3> QED BY <2>1, <3>2
    <2>2. CASE ~(C.shared /\ layer \in has_state /\ Kept # {})
      BY <1>5, <2>2
    <2> QED BY <2>1, <2>2
  <1> HIDE DEF b, c, dt_heads, decay_heads
  <1> QED BY <1>1, <1>4, <1>6, <1>7, <1>8, <1>9 DEF Good

LEMMA UpdatedGood ==
  ASSUME InPhase, NEW g \in 0 .. (G.group_count - 1), NEW previous, Good(previous.log)
  PROVE  Good(UpdatedState(g, previous).log)
  <1> DEFINE x == ExpandX(reg.conv_s, g, layer)
             dt == IF C.shared THEN ExtractSharedHeadGroup(reg.dt_heads, g)
                   ELSE PlaceHeads(reg.dt_s, g, Heads)
             decay == IF C.shared THEN ExtractSharedHeadGroup(reg.decay_heads, g)
                      ELSE PlaceHeads(reg.decay_s, g, Kept)
             update == MulCt(MulCt(x, dt), reg.b)
             sum == AddCt(MulCt(decay, previous), update)
  <1>1. /\ Ready /\ Good(reg.conv_s.log) /\ Good(reg.dt_heads.log) /\ Good(reg.dt_s.log)
        /\ Good(reg.decay_heads.log) /\ Good(reg.decay_s.log) /\ Good(reg.b.log)
    BY Registers, EmptyGood DEF InPhase
  <1>2. Good(x.log)
    BY <1>1, ExpandXGood
  <1>3. Good(dt.log) /\ Good(decay.log)
    <2>1. CASE C.shared
      <3>1. Good(ExtractSharedHeadGroup(reg.dt_heads, g).log)
            /\ Good(ExtractSharedHeadGroup(reg.decay_heads, g).log)
        BY <1>1, ExtractGood
      <3> QED BY <2>1, <3>1
    <2>2. CASE ~C.shared
      <3>1. Good(PlaceHeads(reg.dt_s, g, Heads).log) /\ Good(PlaceHeads(reg.decay_s, g, Kept).log)
        BY <1>1, <2>2, PlaceHeadsGood
      <3> QED BY <2>2, <3>1
    <2> QED BY <2>1, <2>2
  <1>4. UpdatedState(g, previous)
          = IF layer \in has_state /\ Kept \cap HeadsOf(g) # {} THEN sum ELSE update
    BY DEF UpdatedState
  <1> HIDE DEF x, dt, decay
  <1>5. Good(MulCt(x, dt).log) /\ Good(MulCt(decay, previous).log)
    BY <1>2, <1>3, BinaryGood
  <1>6. Good(update.log)
    BY <1>1, <1>5, BinaryGood
  <1> HIDE DEF update
  <1>7. Good(sum.log)
    BY <1>5, <1>6, BinaryGood
  <1> QED BY <1>4, <1>6, <1>7

LEMMA RefreshBatchGood ==
  ASSUME InPhase, NEW batch, NEW cts, NEW requirement, NEW kind \in {"state", "state_post"},
         Len(batch) \in {1, 2},
         \A i \in 1 .. Len(batch) : StateSlot(batch[i]) \in Nat /\ Good(cts[i].log)
  PROVE  /\ DOMAIN RefreshBatch(batch, cts, requirement, kind) = 1 .. Len(batch)
         /\ \A i \in 1 .. Len(batch) : Good(RefreshBatch(batch, cts, requirement, kind)[i].log)
  <1> DEFINE At1(i) == StatePoint(kind, batch[i])
  <1>1. ASSUME NEW i \in 1 .. Len(batch) PROVE PointOK(At1(i), active) /\ Good(cts[i].log)
    <2>1. kind # "final_norm_scaled" /\ StateSlot(batch[i]) \in Nat
      OBVIOUS
    <2>2. PointOK(PointAt(kind, layer, StateSlot(batch[i])), active)
      BY <2>1, PointsAre
    <2> QED BY <2>2 DEF StatePoint
  <1>0. Ready
    BY DEF InPhase
  <1> HIDE DEF At1
  <1>2. CASE Len(batch) = 2
    <2> DEFINE pair == MaybeBootstrapPair(cts[1], cts[2], requirement, At1(1), At1(2), active)
    <2>1. 1 \in 1 .. Len(batch) /\ 2 \in 1 .. Len(batch)
      BY <1>2
    <2>2. PointOK(At1(1), active) /\ PointOK(At1(2), active) /\ Good(cts[1].log) /\ Good(cts[2].log)
      BY <1>1, <2>1
    <2>3. DOMAIN pair = 1 .. 2 /\ \A i \in 1 .. 2 : Good(pair[i].log)
      BY <1>0, <2>2, PairGood
    <2>4. RefreshBatch(batch, cts, requirement, kind) = pair
      BY <1>2 DEF RefreshBatch, At1
    <2> HIDE DEF pair
    <2> QED BY <1>2, <2>3, <2>4
  <1>3. CASE Len(batch) = 1
    <2> DEFINE one == MaybeBootstrap(cts[1], requirement, At1(1), active)
    <2>1. 1 \in 1 .. Len(batch)
      BY <1>3
    <2>2. PointOK(At1(1), active) /\ Good(cts[1].log)
      BY <1>1, <2>1
    <2>3. Good(one.log)
      BY <1>0, <2>2, MaybeGood
    <2>4. RefreshBatch(batch, cts, requirement, kind) = <<one>>
      BY <1>3 DEF RefreshBatch, At1
    <2> HIDE DEF one
    <2>5. \A i \in 1 .. 1 : i = 1
      OBVIOUS
    <2> QED BY <1>3, <2>3, <2>4, <2>5
  <1> QED BY <1>2, <1>3

LEMMA BatchHolds ==
  ASSUME InPhase, CarriedInv, Running, stream \in 0 .. (C.streams - 1),
         group \in 0 .. G.group_count, group < G.group_count
  PROVE  /\ IsSequence(GroupBatch) /\ Len(GroupBatch) \in {1, 2}
         /\ DOMAIN GroupBatch = 1 .. Len(GroupBatch)
         /\ group + Len(GroupBatch) \in 0 .. G.group_count
         /\ \A i \in DOMAIN GroupBatch :
              /\ GroupBatch[i] \in 0 .. (G.group_count - 1)
              /\ StateSlot(GroupBatch[i]) \in Nat
              /\ state[layer][StateSlot(GroupBatch[i]) + 1].log = {}
  <1> DEFINE n == Min2(IF C.complex_pairing THEN 2 ELSE 1, G.group_count - group)
             f == [i \in 1 .. n |-> group + i - 1]
             k == G.group_count
  <1>1. k \in Nat \ {0} /\ group \in Nat /\ group < k
    BY Geometry DEF InPhase
  <1> HIDE DEF k
  <1>2. n \in {1, 2} /\ group + n <= k
    <2>1. n = Min2(1, k - group) \/ n = Min2(2, k - group)
      BY DEF k
    <2> HIDE DEF n
    <2> QED BY <1>1, <2>1 DEF Min2
  <1>3. GroupBatch = f
    BY Zenon DEF GroupBatch
  <1> HIDE DEF n
  <1>4. IsSequence(f) /\ Len(f) = n /\ DOMAIN f = 1 .. n
    <2>1. f = [i \in DOMAIN f |-> f[i]] /\ DOMAIN f = 1 .. n /\ n \in Nat
      BY <1>2
    <2> HIDE DEF f
    <2> QED BY <2>1, Tabulated
  <1>5. ASSUME NEW i \in 1 .. n
        PROVE  /\ f[i] \in 0 .. (k - 1) /\ StateSlot(f[i]) \in Nat
               /\ state[layer][StateSlot(f[i]) + 1].log = {}
    <2>1. f[i] \in 0 .. (k - 1)
      BY <1>1, <1>2
    <2> HIDE DEF f
    <2> DEFINE g == f[i]
               slot == StateSlot(g)
    <2>2. slot = stream * k + g /\ stream \in Nat /\ C.streams \in Nat /\ stream + 1 <= C.streams
      BY Geometry DEF InPhase, StateSlot, k
    <2> HIDE DEF g, slot
    <2>3. g \in Nat /\ g < k
      BY <1>1, <2>1 DEF g
    <2>4. slot \in Nat /\ slot + 1 <= k * C.streams
      <3>1. stream * k \in Nat /\ (stream + 1) * k <= C.streams * k
            /\ (stream + 1) * k = stream * k + k /\ C.streams * k = k * C.streams
        BY <1>1, <2>2
      <3> QED BY <1>1, <2>2, <2>3, <3>1
    <2>5. Len(state[layer]) = k * C.streams /\ Silent(state[layer])
      BY DEF InPhase, CarriedInv, Slotted, k
    <2>6. slot + 1 \in DOMAIN state[layer]
      <3>1. DOMAIN state[layer] = 1 .. Len(state[layer])
        BY <2>5, SilentGood
      <3>2. k * C.streams \in Nat
        BY <1>1, <2>2
      <3> QED BY <2>4, <2>5, <3>1, <3>2
    <2>7. state[layer][slot + 1].log = {}
      BY <2>5, <2>6 DEF Silent
    <2> QED BY <2>1, <2>4, <2>7 DEF g, slot
  <1> HIDE DEF f
  <1>6. group + n \in 0 .. k
    BY <1>1, <1>2
  <1> QED BY <1>2, <1>3, <1>4, <1>5, <1>6 DEF k

LEMMA EnteringGood ==
  ASSUME InPhase, CarriedInv, Running, stream \in 0 .. (C.streams - 1),
         group \in 0 .. G.group_count, group < G.group_count
  PROVE  /\ DOMAIN Entering(GroupBatch) = DOMAIN GroupBatch
         /\ \A i \in DOMAIN GroupBatch : Good(Entering(GroupBatch)[i].log)
  <1> DEFINE batch == GroupBatch
             stored == [i \in DOMAIN batch |-> state[layer][StateSlot(batch[i]) + 1]]
             fresh == RefreshBatch(batch, stored, Req.state_pre, "state")
  <1>1. /\ Len(batch) \in {1, 2} /\ DOMAIN batch = 1 .. Len(batch)
        /\ \A i \in DOMAIN batch : /\ StateSlot(batch[i]) \in Nat
                                   /\ state[layer][StateSlot(batch[i]) + 1].log = {}
    BY BatchHolds
  <1>2. DOMAIN stored = DOMAIN batch /\ \A i \in DOMAIN batch : Good(stored[i].log)
    <2> HIDE DEF batch
    <2> QED BY <1>1, EmptyGood
  <1>3. Entering(batch) = IF layer \in has_state THEN fresh ELSE stored
    BY DEF Entering
  <1> HIDE DEF stored, batch
  <1>4. DOMAIN fresh = DOMAIN batch /\ \A i \in DOMAIN batch : Good(fresh[i].log)
    <2>1. "state" \in {"state", "state_post"}
      OBVIOUS
    <2>2. \A i \in 1 .. Len(batch) : StateSlot(batch[i]) \in Nat /\ Good(stored[i].log)
      BY <1>1, <1>2
    <2> QED BY <1>1, <2>1, <2>2, RefreshBatchGood
  <1> HIDE DEF fresh
  <1>5. /\ DOMAIN Entering(batch) = DOMAIN batch
        /\ \A i \in DOMAIN batch : Good(Entering(batch)[i].log)
    BY <1>2, <1>3, <1>4
  <1> QED BY <1>5 DEF batch

LEMMA LeavingGood ==
  ASSUME InPhase, CarriedInv, Running, stream \in 0 .. (C.streams - 1),
         group \in 0 .. G.group_count, group < G.group_count, NEW entering,
         \A i \in DOMAIN GroupBatch : Good(entering[i].log)
  PROVE  /\ DOMAIN Leaving(GroupBatch, entering) = DOMAIN GroupBatch
         /\ \A i \in DOMAIN GroupBatch : Good(Leaving(GroupBatch, entering)[i].log)
  <1> DEFINE batch == GroupBatch
             f == [i \in DOMAIN batch |-> UpdatedState(batch[i], entering[i])]
             updated == <<>> \o f
  <1>1. /\ Len(batch) \in {1, 2} /\ DOMAIN batch = 1 .. Len(batch)
        /\ \A i \in DOMAIN batch : /\ StateSlot(batch[i]) \in Nat
                                   /\ batch[i] \in 0 .. (G.group_count - 1)
    BY BatchHolds
  <1>2. Leaving(batch, entering) = RefreshBatch(batch, updated, PostRequirement, "state_post")
    BY DEF Leaving
  <1>0. \A i \in DOMAIN batch : Good(entering[i].log)
    OBVIOUS
  <1> HIDE DEF batch
  <1>3. updated = f
    <2>1. f = [i \in DOMAIN f |-> f[i]] /\ DOMAIN f = 1 .. Len(batch) /\ Len(batch) \in Nat
      BY <1>1
    <2> HIDE DEF f
    <2> QED BY <2>1, Tabulated
  <1> HIDE DEF updated
  <1>4. \A i \in DOMAIN batch : Good(updated[i].log)
    <2>1. ASSUME NEW i \in DOMAIN batch PROVE Good(UpdatedState(batch[i], entering[i]).log)
      BY <1>0, <1>1, UpdatedGood
    <2> QED BY <1>3, <2>1
  <1> HIDE DEF f
  <1>5. "state_post" \in {"state", "state_post"}
    OBVIOUS
  <1>6. \A i \in 1 .. Len(batch) : StateSlot(batch[i]) \in Nat /\ Good(updated[i].log)
    BY <1>1, <1>4
  <1>7. /\ DOMAIN Leaving(batch, entering) = DOMAIN batch
        /\ \A i \in DOMAIN batch : Good(Leaving(batch, entering)[i].log)
    BY <1>1, <1>2, <1>5, <1>6, RefreshBatchGood
  <1> QED BY <1>7 DEF batch

LEMMA ReadoutBatchGood ==
  ASSUME InPhase, NEW batch, NEW leaving,
         \A i \in DOMAIN batch : batch[i] \in 0 .. (G.group_count - 1)
  PROVE  Good(Readout(batch, leaving).log)
  <1> DEFINE Term(i) == ReadoutGroup(Fresh(leaving[i]), reg.c, batch[i], layer)
             cts == {<<i, Term(i)>> : i \in DOMAIN batch}
  <1>1. \A i \in DOMAIN batch : Good(Term(i).log)
    <2>1. SUFFICES ASSUME NEW i \in DOMAIN batch PROVE Good(Term(i).log)
      OBVIOUS
    <2>2. Ready /\ Good(reg.c.log) /\ batch[i] \in 0 .. (G.group_count - 1)
      BY Registers, EmptyGood DEF InPhase
    <2>3. Good(Fresh(leaving[i]).log)
      BY EmptyGood DEF Fresh, Ct, Made
    <2> QED BY <2>2, <2>3, ReadoutGood
  <1>2. Readout(batch, leaving) = SumCts(cts)
    BY Zenon DEF Readout, SumOver
  <1>3. \A c \in cts : Good(c[2].log)
    <2> HIDE DEF Term
    <2> QED BY <1>1
  <1> HIDE DEF cts
  <1>4. Good(SumCts(cts).log)
    BY <1>3, SumGood
  <1> QED BY <1>2, <1>4

LEMMA ScanLogGood ==
  ASSUME InPhase, CarriedInv, Running, stream \in 0 .. (C.streams - 1),
         group \in 0 .. G.group_count, Scan
  PROVE  Good(events')
  <1> DEFINE batch == GroupBatch
             entering == Entering(batch)
             leaving == Leaving(batch, entering)
             readout == Readout(batch, leaving)
             y == IF group = 0 THEN readout ELSE AddCt(reg.y_stream, readout)
  <1>1. group < G.group_count
    BY DEF Scan
  <1>2. events' = Logs(entering) \cup Logs(leaving) \cup y.log
    BY DEF Scan, AdvanceStates, Logged
  <1>3. DOMAIN entering = DOMAIN batch /\ \A i \in DOMAIN batch : Good(entering[i].log)
    BY <1>1, EnteringGood
  <1>4. \A i \in DOMAIN batch : batch[i] \in 0 .. (G.group_count - 1)
    BY <1>1, BatchHolds
  <1> HIDE DEF entering
  <1>5. DOMAIN leaving = DOMAIN batch /\ \A i \in DOMAIN batch : Good(leaving[i].log)
    BY <1>1, <1>3, LeavingGood
  <1> HIDE DEF leaving, batch
  <1>6. Good(readout.log)
    BY <1>4, ReadoutBatchGood
  <1> HIDE DEF readout
  <1>7. Good(y.log)
    <2>1. Good(reg.y_stream.log)
      BY Registers, EmptyGood DEF InPhase
    <2>2. Good(AddCt(reg.y_stream, readout).log)
      BY <1>6, <2>1, BinaryGood
    <2> QED BY <1>6, <2>2
  <1> HIDE DEF y
  <1>8. Good(Logs(entering)) /\ Good(Logs(leaving))
    BY <1>3, <1>5, LogsGood
  <1> QED BY <1>2, <1>7, <1>8 DEF Good

LEMMA EndStreamGood ==
  ASSUME InPhase, stream \in 0 .. (C.streams - 1), EndStream
  PROVE  Good(events')
  <1> DEFINE turned == RotateComposite(reg.y_stream, -(stream * G.stride))
             back == IF stream = 0 THEN reg.y_stream ELSE turned
             sum == AddCt(reg.y, back)
             y == IF stream = 0 THEN back ELSE sum
  <1>1. Ready /\ Good(reg.y_stream.log) /\ Good(reg.y.log)
    BY Registers, EmptyGood DEF InPhase
  <1>2. Good(turned.log)
    BY <1>1, ShiftGood
  <1>3. events' = y.log
    BY DEF EndStream, Compute, Logged
  <1> HIDE DEF turned
  <1>4. Good(back.log)
    BY <1>1, <1>2
  <1> HIDE DEF back
  <1>5. Good(sum.log)
    BY <1>1, <1>4, BinaryGood
  <1> HIDE DEF sum
  <1>6. Good(y.log)
    BY <1>4, <1>5
  <1> HIDE DEF y
  <1> QED BY <1>3, <1>6 DEF Good

(* From the readout to the residual *)

LEMMA SkipGateGood ==
  ASSUME InPhase, SkipGate
  PROVE  Good(events')
  <1> DEFINE skip == MulMask(reg.conv, <<"d_vec", layer>>, Plan(layer).d_vec)
             summed == AddCt(reg.y, skip)
             gated == MulCt(summed, reg.gate)
             kind == IF MeanGated(Layer(layer)) THEN "y_scaled" ELSE "y"
             out == MaybeBootstrap(gated, Req.y, Point(kind, layer), active)
  <1>1. Ready /\ Good(reg.conv.log) /\ Good(reg.y.log) /\ Good(reg.gate.log)
    BY Registers, EmptyGood DEF InPhase
  <1>2. Good(skip.log)
    BY <1>1, MaskGood
  <1>3. events' = out.log
    BY DEF SkipGate, Compute, Logged
  <1>4. PointOK(Point(kind, layer), active)
    <2>1. kind # "final_norm_scaled"
      OBVIOUS
    <2> HIDE DEF kind
    <2> QED BY <2>1, PointsAre
  <1> HIDE DEF skip, kind
  <1>5. Good(summed.log)
    BY <1>1, <1>2, BinaryGood
  <1> HIDE DEF summed
  <1>6. Good(gated.log)
    BY <1>1, <1>5, BinaryGood
  <1> HIDE DEF gated
  <1>7. Good(out.log)
    BY <1>1, <1>4, <1>6, MaybeGood
  <1> HIDE DEF out
  <1> QED BY <1>3, <1>7 DEF Good

LEMMA GatedScheduledGood ==
  ASSUME InPhase, NEW variance, Good(variance.log), NEW scale, Scheduled(Layer(layer).gated)
  PROVE  Good(GatedScheduled(Layer(layer), variance, scale).log)
  <1> DEFINE l == Layer(layer)
             scaled == ScaleCt(variance, Div(scale * scale, Dims.d_inner))
             mean == AddScalar(scaled, l.eps_gated)
             what == Point("scheduled_norm", layer)
  <1>1. Ready /\ layer \in DOMAIN Layered /\ l = Layered[layer]
    BY DEF InPhase, Layer
  <1>2. PointOK(what, active) /\ what.kind = "scheduled_norm"
    BY PointsAre DEF Point
  <1>3. Good(scaled.log)
    BY UnaryGood
  <1>4. GatedScheduled(l, variance, scale) = ScheduledInverse(mean, l.gated, what, active)
    BY DEF GatedScheduled
  <1>5. Len(l.gated.stages) \in Nat
    BY <1>1, CountsHold
  <1> HIDE DEF what, l, scaled
  <1>6. Good(mean.log)
    BY <1>3, UnaryGood
  <1> HIDE DEF mean
  <1>7. Good(ScheduledInverse(mean, l.gated, what, active).log)
    BY <1>1, <1>2, <1>5, <1>6, ScheduledInverseGood
  <1> QED BY <1>4, <1>7 DEF l

LEMMA GatedPolynomialGood ==
  ASSUME InPhase, NEW plan, NEW sum, Good(sum.log), NEW scale, ~Scheduled(Layer(layer).gated)
  PROVE  Good(GatedPolynomial(Layer(layer), plan, sum, scale).log)
  <1> DEFINE l == Layer(layer)
             input == Point("gated_poly_input", layer)
             newton == Point("gated_newton", layer)
             affine == AddScalar(ScaleCt(sum, plan.a_gated_v * R(scale * scale)), l.gated.b)
             u == MaybeBootstrap(affine, ChebPSDepth(Degree(l.gated.c)) + 1 + 2 * l.gated.iterations,
                                 input, active)
             cheb == EvalChebyshev(u, l.gated.c)
             guess == ScaleCt(Square(cheb), l.gated.damping)
             half == ScaleCt(AddScalar(u, -l.gated.b), -Div(Half, plan.a_gated_v * Dims.d_inner))
  <1>1. Ready /\ layer \in DOMAIN Layered /\ l = Layered[layer]
    BY DEF InPhase, Layer
  <1>2. PointOK(input, active) /\ PointOK(newton, active)
    BY PointsAre
  <1>3. l.gated.iterations \in Nat
    BY <1>1, CountsHold
  <1>4. GatedPolynomial(l, plan, sum, scale)
          = NewtonRefine(guess, half, l.gated.iterations, newton, active)
    BY DEF GatedPolynomial
  <1>5. Good(ScaleCt(sum, plan.a_gated_v * R(scale * scale)).log)
    BY UnaryGood
  <1> HIDE DEF l, input, newton
  <1>6. Good(affine.log)
    BY <1>5, UnaryGood
  <1> HIDE DEF affine
  <1>7. Good(u.log)
    BY <1>1, <1>2, <1>6, MaybeGood
  <1> HIDE DEF u
  <1>8. Good(cheb.log)
    BY <1>7, ChebyshevGood
  <1> HIDE DEF cheb
  <1>9. Good(Square(cheb).log) /\ Good(AddScalar(u, -l.gated.b).log)
    BY <1>7, <1>8, UnaryGood
  <1>10. Good(guess.log) /\ Good(half.log)
    BY <1>9, UnaryGood
  <1> HIDE DEF guess, half
  <1>11. Good(NewtonRefine(guess, half, l.gated.iterations, newton, active).log)
    BY <1>1, <1>2, <1>3, <1>10, NewtonRefineGood
  <1> QED BY <1>4, <1>11 DEF l

LEMMA GatedConstantGood ==
  ASSUME InPhase, NEW plan, NEW sum, Good(sum.log), ~Scheduled(Layer(layer).gated)
  PROVE  Good(GatedConstantGuess(Layer(layer), plan, sum).log)
  <1> DEFINE l == Layer(layer)
             c0 == plan.gated_guess_v
             variance == Point("gated_variance", layer)
             newton == Point("gated_newton", layer)
             scaled == ScaleCt(sum, -Half * R(c0 * c0))
             half == MaybeBootstrap(scaled, KNewtonSegmentEstimate, variance, active)
             first == AddScalar(half, 3 * Half)
             n == l.gated.iterations - 1
             refined == NewtonRefine(first, half, n, newton, active)
  <1>1. Ready /\ layer \in DOMAIN Layered /\ l = Layered[layer]
    BY DEF InPhase, Layer
  <1>2. PointOK(variance, active) /\ PointOK(newton, active)
    BY PointsAre
  <1>3. n \in Nat
    <2>1. l.gated.iterations \in Nat \ {0}
      BY <1>1, CountsHold
    <2> HIDE DEF l
    <2> QED BY <2>1
  <1>4. GatedConstantGuess(l, plan, sum) = ScaleCt(refined, c0)
    BY DEF GatedConstantGuess
  <1>5. Good(scaled.log)
    BY UnaryGood
  <1> HIDE DEF l, variance, newton, scaled, n
  <1>6. Good(half.log)
    BY <1>1, <1>2, <1>5, MaybeGood
  <1> HIDE DEF half
  <1>7. Good(first.log)
    BY <1>6, UnaryGood
  <1> HIDE DEF first
  <1>8. Good(refined.log)
    BY <1>1, <1>2, <1>3, <1>6, <1>7, NewtonRefineGood
  <1> HIDE DEF refined
  <1>9. Good(ScaleCt(refined, c0).log)
    BY <1>8, UnaryGood
  <1> QED BY <1>4, <1>9 DEF l

LEMMA GatedInverseGood ==
  ASSUME InPhase
  PROVE  Good(GatedInverseCt.log)
  <1> DEFINE l == Layer(layer)
             plan == Plan(layer)
             scale == IF MeanGated(l) THEN plan.y_scale ELSE 1
             variance == NormVarianceSum(Square(reg.y))
             sum == AddScalar(variance, Div(Dims.d_inner * l.eps_gated, scale * scale))
  <1>1. Good(variance.log)
    <2>1. Ready /\ Good(reg.y.log)
      BY Registers, EmptyGood DEF InPhase
    <2> QED BY <2>1, UnaryGood, VarianceGood
  <1>2. GatedInverseCt = IF Scheduled(l.gated) THEN GatedScheduled(l, variance, scale)
                         ELSE IF l.gated.c # <<>> THEN GatedPolynomial(l, plan, sum, scale)
                         ELSE GatedConstantGuess(l, plan, sum)
    BY DEF GatedInverseCt
  <1> HIDE DEF variance, scale
  <1>3. Good(sum.log)
    BY <1>1, UnaryGood
  <1> HIDE DEF sum
  <1>4. CASE Scheduled(l.gated)
    <2>1. Good(GatedScheduled(l, variance, scale).log)
      BY <1>1, <1>4, GatedScheduledGood
    <2> QED BY <1>2, <1>4, <2>1
  <1>5. CASE ~Scheduled(l.gated) /\ l.gated.c # <<>>
    <2> HIDE DEF plan
    <2>1. Good(GatedPolynomial(l, plan, sum, scale).log)
      BY <1>3, <1>5, GatedPolynomialGood
    <2> QED BY <1>2, <1>5, <2>1
  <1>6. CASE ~Scheduled(l.gated) /\ ~(l.gated.c # <<>>)
    <2> HIDE DEF plan
    <2>1. Good(GatedConstantGuess(l, plan, sum).log)
      BY <1>3, <1>6, GatedConstantGood
    <2> QED BY <1>2, <1>6, <2>1
  <1> QED BY <1>4, <1>5, <1>6

LEMMA OutProjGood ==
  ASSUME InPhase, AheadInv, pc = "out_proj", EncodedFor("out", G.rep_out)
  PROVE  Good(AddCt(MulCt(OutProjection, reg.inv), reg.hidden).log)
  <1>1. Good(reg.inv.log) /\ Good(reg.hidden.log) /\ Good(OutProjection.log)
    BY Registers, EmptyGood, OutProjectionGood DEF InPhase
  <1>2. Good(MulCt(OutProjection, reg.inv).log)
    BY <1>1, BinaryGood
  <1> QED BY <1>1, <1>2, BinaryGood

LEMMA InProjGood ==
  ASSUME InPhase, AheadInv, pc = "in_proj", EncodedFor("in", G.rep_in)
  PROVE  Good(MaybeBootstrap(MulCt(InProjection, reg.inv), Req.proj, Point("proj", layer),
                             active).log)
  <1>1. Good(reg.inv.log) /\ Good(InProjection.log) /\ Ready
        /\ PointOK(Point("proj", layer), active)
    BY Registers, EmptyGood, InProjectionGood, PointsAre DEF InPhase
  <1>2. Good(MulCt(InProjection, reg.inv).log)
    BY <1>1, BinaryGood
  <1> QED BY <1>1, <1>2, MaybeGood

LEMMA YOutGood ==
  ASSUME InPhase
  PROVE  Good(MaybeBootstrap(reg.y, Req.out, Point("y_out", layer), active).log)
  <1>1. Good(reg.y.log) /\ Ready /\ PointOK(Point("y_out", layer), active)
    BY Registers, EmptyGood, PointsAre DEF InPhase
  <1> QED BY <1>1, MaybeGood

(* The head of a token *)

InHead == Ready /\ active = Len(Layered) /\ RegInv

LEMMA HeadPoints ==
  ASSUME InHead, NEW kind, kind # "y_scaled", kind = "final_norm_scaled" => WholeChain
  PROVE  PointOK(Point(kind, 0), active)
  <1>1. Len(Layered) \in DOMAIN Layered
    BY LayersOfPayload DEF InHead
  <1>2. 0 \in Nat
    OBVIOUS
  <1> QED BY <1>1, <1>2 DEF InHead, PointOK, Point

LEMMA FinalNormHolds ==
  ASSUME Ready, WholeChain
  PROVE  /\ Scheduled(FinalNorm(LoadedPayload, C).rms) =>
              Len(FinalNorm(LoadedPayload, C).rms.stages) \in Nat
         /\ ~Scheduled(FinalNorm(LoadedPayload, C).rms) =>
              FinalNorm(LoadedPayload, C).rms.iterations \in Nat
  <1> DEFINE p == LoadedPayload
             n == Len(Layered)
             rms == FinalNorm(p, C).rms
  <1>1. n \in DOMAIN Layered /\ Layered[n] = p.layers[Len(p.layers)]
    BY LayersOfPayload DEF WholeChain, FullChain
  <1>2. rms = IF p.final_norm.kind = "scheduled" THEN p.final_norm ELSE p.layers[Len(p.layers)].rms
    BY DEF FinalNorm
  <1>3. ValidPoly(p.final_norm, TRUE)
    BY AcceptedHolds, LayersOfPayload DEF AcceptedPayload, ValidPayload
  <1> HIDE DEF p, rms
  <1>4. CASE p.final_norm.kind = "scheduled"
    <2>1. Len(rms.stages) \in Nat /\ Scheduled(rms)
      BY <1>2, <1>3, <1>4 DEF ValidPoly, Scheduled
    <2> QED BY <2>1 DEF p, rms
  <1>5. CASE p.final_norm.kind # "scheduled"
    <2>1. rms = Layered[n].rms
      BY <1>1, <1>2, <1>5
    <2>2. /\ ~Scheduled(Layered[n].rms) => Layered[n].rms.iterations \in Nat
          /\ Scheduled(Layered[n].rms) => Len(Layered[n].rms.stages) \in Nat
      BY <1>1, CountsHold
    <2> QED BY <2>1, <2>2 DEF p, rms
  <1> QED BY <1>4, <1>5

LEMMA FinalOutputGood ==
  ASSUME InHead, WholeChain
  PROVE  Good(FinalOutput(FinalNorm(LoadedPayload, C)).log)
  <1> DEFINE f == FinalNorm(LoadedPayload, C)
             divided == ScaleCt(reg.hidden, Div(1, f.scale))
             need == IF LoadedPayload.final_norm.kind = "scheduled"
                     THEN KScheduledNormInputRequirement ELSE 12
             kind == IF Scheduled(f.rms) THEN "final_norm_scheduled" ELSE "final_norm_scaled"
             scaled == MaybeBootstrap(divided, need, Point(kind, 0), active)
             Weighted(ct) == MulMask(ct, <<"final_w">>, FinalVector(LoadedPayload, C, G))
             variance == NormVarianceSum(Square(scaled))
             mean == AddScalar(ScaleCt(variance, Div(f.scale * f.scale, Dims.d_model)),
                               LoadedPayload.final_eps)
             sum == AddScalar(variance, Div(Dims.d_model * LoadedPayload.final_eps,
                                            f.scale * f.scale))
             u == AddScalar(ScaleCt(sum, f.a_v), f.rms.b)
             guess == EvalChebyshev(u, f.coeffs)
             half == ScaleCt(sum, -Half)
             norm == Point("scheduled_norm", 0)
             newton == Point("final_newton", 0)
             inverse == ScheduledInverse(mean, f.rms, norm, active)
             refined == NewtonRefine(guess, half, f.rms.iterations, newton, active)
  <1>1. FinalOutput(f) = IF Scheduled(f.rms) THEN MulCt(Weighted(scaled), inverse)
                         ELSE Weighted(MulCt(scaled, refined))
    BY Zenon DEF FinalOutput
  <1>2. Ready /\ Good(reg.hidden.log)
    BY Registers, EmptyGood DEF InHead
  <1>3. PointOK(Point(kind, 0), active) /\ PointOK(norm, active) /\ PointOK(newton, active)
        /\ norm.kind = "scheduled_norm"
    <2>1. kind # "y_scaled"
      OBVIOUS
    <2>2. PointOK(Point(kind, 0), active)
      <3> HIDE DEF kind
      <3> QED BY <2>1, HeadPoints
    <2>3. PointOK(norm, active) /\ PointOK(newton, active)
      BY HeadPoints
    <2> QED BY <2>2, <2>3 DEF Point
  <1>4. /\ Scheduled(f.rms) => Len(f.rms.stages) \in Nat
        /\ ~Scheduled(f.rms) => f.rms.iterations \in Nat
    BY <1>2, FinalNormHolds
  <1>5. Good(divided.log)
    <2> HIDE DEF f
    <2> QED BY <1>2, UnaryGood
  <1> HIDE DEF f, divided, need, kind, norm, newton
  <1>6. Good(scaled.log)
    BY <1>2, <1>3, <1>5, MaybeGood
  <1> HIDE DEF scaled
  <1>7. Good(variance.log)
    BY <1>2, <1>6, UnaryGood, VarianceGood
  <1> HIDE DEF variance
  <1>8. Good(ScaleCt(variance, Div(f.scale * f.scale, Dims.d_model)).log) /\ Good(sum.log)
    BY <1>7, UnaryGood
  <1> HIDE DEF sum
  <1>9. Good(mean.log) /\ Good(half.log) /\ Good(ScaleCt(sum, f.a_v).log)
    BY <1>8, UnaryGood
  <1>10. Good(u.log)
    BY <1>9, UnaryGood
  <1> HIDE DEF mean, half, u
  <1>11. Good(guess.log)
    BY <1>10, ChebyshevGood
  <1> HIDE DEF guess
  <1>12. CASE Scheduled(f.rms)
    <2>1. Good(inverse.log)
      BY <1>2, <1>3, <1>4, <1>9, <1>12, ScheduledInverseGood
    <2> HIDE DEF inverse
    <2>2. Good(Weighted(scaled).log)
      BY <1>6, MaskGood
    <2> HIDE DEF Weighted
    <2>3. Good(MulCt(Weighted(scaled), inverse).log)
      BY <2>1, <2>2, BinaryGood
    <2> QED BY <1>1, <1>12, <2>3 DEF f
  <1>13. CASE ~Scheduled(f.rms)
    <2>1. Good(refined.log)
      BY <1>2, <1>3, <1>4, <1>9, <1>11, <1>13, NewtonRefineGood
    <2> HIDE DEF refined
    <2>2. Good(MulCt(scaled, refined).log)
      BY <1>6, <2>1, BinaryGood
    <2>3. Good(Weighted(MulCt(scaled, refined)).log)
      BY <2>2, MaskGood
    <2> HIDE DEF Weighted
    <2> QED BY <1>1, <1>13, <2>3 DEF f
  <1> QED BY <1>12, <1>13

LEMMA OutputGood ==
  ASSUME InHead
  PROVE  Good(Output.log)
  <1>1. CASE WholeChain
    BY <1>1, FinalOutputGood DEF Output
  <1>2. CASE ~WholeChain
    <2> DEFINE need == Max2(0, KDecryptHeadroom - C.auto_headroom)
               what == Point("output", 0)
    <2>1. Ready /\ Good(reg.hidden.log)
      BY Registers, EmptyGood DEF InHead
    <2>2. PointOK(what, active)
      BY HeadPoints
    <2>3. Output = MaybeBootstrap(reg.hidden, need, what, active)
      BY <1>2 DEF Output
    <2> HIDE DEF need, what
    <2>4. Good(MaybeBootstrap(reg.hidden, need, what, active).log)
      BY <2>1, <2>2, MaybeGood
    <2> QED BY <2>3, <2>4
  <1> QED BY <1>1, <1>2

(* Between tokens *)

LEMMA RefreshedFifoGood ==
  ASSUME Ready, CarriedInv, NEW k \in DOMAIN Layered, NEW requirement
  PROVE  /\ DOMAIN RefreshedFifo(k, requirement) = 1 .. Len(fifo[k]) /\ Len(fifo[k]) \in Nat
         /\ \A i \in DOMAIN RefreshedFifo(k, requirement) :
              Good(RefreshedFifo(k, requirement)[i].log)
  <1> DEFINE cts == fifo[k]
             f == [i \in DOMAIN cts |->
                     MaybeBootstrap(cts[i], requirement, PointAt("fifo", k, i - 1), k)]
  <1>1. Silent(cts)
    BY DEF CarriedInv
  <1>2. RefreshedFifo(k, requirement) = <<>> \o f
    BY DEF RefreshedFifo
  <1> HIDE DEF cts
  <1>3. /\ Len(cts) \in Nat /\ DOMAIN cts = 1 .. Len(cts)
        /\ \A i \in DOMAIN cts : Good(cts[i].log)
    BY <1>1, SilentGood
  <1>4. \A i \in DOMAIN f : Good(f[i].log)
    <2>1. SUFFICES ASSUME NEW i \in DOMAIN cts PROVE Good(f[i].log)
      OBVIOUS
    <2>2. i - 1 \in Nat /\ Good(cts[i].log)
      BY <1>3
    <2>3. PointOK(PointAt("fifo", k, i - 1), k)
      BY <2>2 DEF PointOK, PointAt
    <2>4. Good(MaybeBootstrap(cts[i], requirement, PointAt("fifo", k, i - 1), k).log)
      BY <2>2, <2>3, MaybeGood
    <2> QED BY <2>4
  <1>5. f = [i \in DOMAIN f |-> f[i]] /\ DOMAIN f = 1 .. Len(cts)
    BY <1>3
  <1> HIDE DEF f
  <1>6. <<>> \o f = f
    BY <1>3, <1>5, Tabulated
  <1> QED BY <1>2, <1>3, <1>4, <1>5, <1>6 DEF cts

LEMMA RefreshedStatesGood ==
  ASSUME Ready, CarriedInv, NEW k \in DOMAIN Layered
  PROVE  /\ DOMAIN RefreshedStates(k) = 1 .. Len(state[k]) /\ Len(state[k]) \in Nat
         /\ \A i \in DOMAIN RefreshedStates(k) : Good(RefreshedStates(k)[i].log)
  <1> DEFINE cts == state[k]
             m == Len(cts)
             At0(i) == PointAt("state", k, i)
             Pair(i) == MaybeBootstrapPair(cts[i + 1], cts[i + 2], C.depth,
                                           At0(i), At0(i + 1), k)
             Alone(n) == MaybeBootstrap(cts[n], C.depth, At0(n - 1), k)
             f == [n \in DOMAIN cts |->
                     IF ~C.complex_pairing \/ ((n - 1) % 2 = 0 /\ n = m) THEN Alone(n)
                     ELSE IF (n - 1) % 2 = 0 THEN Pair(n - 1)[1] ELSE Pair(n - 1 - 1)[2]]
  <1>1. Silent(cts)
    BY DEF CarriedInv
  <1>2. RefreshedStates(k) = <<>> \o f
    BY DEF RefreshedStates
  <1> HIDE DEF cts
  <1>3. /\ m \in Nat /\ DOMAIN cts = 1 .. m
        /\ \A i \in DOMAIN cts : Good(cts[i].log)
    BY <1>1, SilentGood
  <1>4. ASSUME NEW i \in Nat PROVE PointOK(At0(i), k)
    BY DEF PointOK, PointAt
  <1> HIDE DEF At0, m
  <1>5. ASSUME NEW n \in 1 .. m PROVE Good(Alone(n).log)
    <2>1. n - 1 \in Nat /\ Good(cts[n].log)
      BY <1>3
    <2>2. PointOK(At0(n - 1), k)
      BY <1>4, <2>1
    <2> QED BY <2>1, <2>2, MaybeGood
  <1>6. ASSUME NEW i \in Nat, i + 2 <= m PROVE Good(Pair(i)[1].log) /\ Good(Pair(i)[2].log)
    <2>1. i + 1 \in 1 .. m /\ i + 2 \in 1 .. m /\ i + 1 \in Nat
      BY <1>3, <1>6
    <2>2. /\ Good(cts[i + 1].log) /\ Good(cts[i + 2].log)
          /\ PointOK(At0(i), k) /\ PointOK(At0(i + 1), k)
      BY <1>3, <1>4, <2>1
    <2>3. \A j \in 1 .. 2 : Good(Pair(i)[j].log)
      BY <2>2, PairGood
    <2> HIDE DEF Pair
    <2> QED BY <2>3
  <1> HIDE DEF Alone, Pair
  <1>7. \A n \in DOMAIN f : Good(f[n].log)
    <2>1. SUFFICES ASSUME NEW n \in 1 .. m PROVE Good(f[n].log)
      BY <1>3
    <2>2. n \in DOMAIN cts /\ n \in Nat
      BY <1>3
    <2>3. CASE ~C.complex_pairing \/ ((n - 1) % 2 = 0 /\ n = m)
      <3>1. f[n] = Alone(n)
        BY <2>2, <2>3
      <3> QED BY <1>5, <3>1
    <2>4. CASE C.complex_pairing /\ (n - 1) % 2 = 0 /\ n # m
      <3>1. f[n] = Pair(n - 1)[1]
        BY <2>2, <2>4
      <3>2. n - 1 \in Nat /\ (n - 1) + 2 <= m
        BY <1>3, <2>4
      <3> QED BY <1>6, <3>1, <3>2
    <2>5. CASE C.complex_pairing /\ (n - 1) % 2 # 0
      <3>1. f[n] = Pair(n - 1 - 1)[2]
        BY <2>2, <2>5
      <3>2. n # 1
        BY <2>5
      <3>3. n - 1 - 1 \in Nat /\ (n - 1 - 1) + 2 <= m
        BY <1>3, <3>2
      <3> QED BY <1>6, <3>1, <3>3
    <2> QED BY <2>3, <2>4, <2>5
  <1>8. f = [i \in DOMAIN f |-> f[i]] /\ DOMAIN f = 1 .. m
    BY <1>3
  <1> HIDE DEF f
  <1>9. <<>> \o f = f
    BY <1>3, <1>8, Tabulated
  <1> QED BY <1>2, <1>3, <1>7, <1>8, <1>9 DEF cts, m

-----------------------------------------------------------------------------
(* What every step of an evaluation keeps *)

LEMMA HostConstant ==
  ASSUME host' = host
  PROVE  /\ C' = C /\ G' = G /\ Layered' = Layered /\ Keys' = Keys
         /\ LoadedPayload' = LoadedPayload /\ WholeChain' = WholeChain /\ Slotted' = Slotted
  BY DEF C, G, Layered, Keys, LoadedPayload, WholeChain, Slotted

LEMMA OwnedKept ==
  ASSUME host' = host, NEW b, Owned(b)
  PROVE  Owned(b)'
  <1>1. /\ C' = C /\ G' = G /\ Layered' = Layered /\ LoadedPayload' = LoadedPayload
    BY HostConstant
  <1>2. \A k : Layer(k)' = Layer(k)
    BY <1>1 DEF Layer
  <1>3. Calibration(b.what)' = Calibration(b.what)
    BY <1>1, <1>2 DEF Calibration
  <1>4. CarriedEnough(b)' = CarriedEnough(b)
    BY <1>1, <1>3 DEF CarriedEnough, HeadsOf
  <1>5. TransientEnough(b)' = TransientEnough(b)
    BY <1>1, <1>2, <1>3, Zenon DEF TransientEnough
  <1>6. IsCarried(b.what)' = IsCarried(b.what)
    BY DEF IsCarried
  <1> QED BY <1>4, <1>5, <1>6 DEF Owned

LEMMA GoodKept ==
  ASSUME host' = host, NEW e, GoodEvent(e)
  PROVE  GoodEvent(e)'
  <1>1. /\ C' = C /\ G' = G /\ Layered' = Layered /\ Keys' = Keys
        /\ LoadedPayload' = LoadedPayload
    BY HostConstant
  <1>2. Covered(e[2]) => Covered(e[2])'
    BY <1>1 DEF Covered
  <1>3. Owned(e[2]) => Owned(e[2])'
    BY OwnedKept
  <1>4. Counted' = Counted
    BY <1>1 DEF Counted
  <1>5. TableUse(e) => TableUse(e)'
    BY <1>1 DEF TableUse, TableKey, ShapeOfProduct, PlainCache
  <1> QED BY <1>2, <1>3, <1>4, <1>5, Zenon DEF GoodEvent, InTime

LEMMA EventsKept ==
  ASSUME host' = host, Good(events')
  PROVE  EventsInv'
  <1>1. \A e \in events' : GoodEvent(e)
    BY DEF Good
  <1>2. \A e \in events' : GoodEvent(e)'
    BY <1>1, GoodKept
  <1> QED BY <1>2 DEF EventsInv

LEMMA SetKeeps ==
  ASSUME RegInv, NEW f \in DOMAIN NoRegisters, NEW ct, Set(f, ct)
  PROVE  RegInv'
  <1>1. reg' = [reg EXCEPT ![f] = Fresh(ct)] /\ Fresh(ct).log = {}
    BY DEF Set, Fresh, Ct, Made
  <1>2. DOMAIN reg = DOMAIN NoRegisters
    BY DEF RegInv
  <1> QED BY <1>1, <1>2 DEF RegInv

LEMMA FieldsAre ==
  DOMAIN NoRegisters =
    {"hidden", "inv", "linear", "proj", "conv", "gate", "dt", "decay", "b", "c", "conv_s", "dt_s",
     "decay_s", "dt_heads", "decay_heads", "y_stream", "y"}
  BY DEF NoRegisters

LEMMA ReadyWhenRunning ==
  ASSUME HostInv, pc \notin {"idle", "start", "done"}
  PROVE  Ready
  BY DEF HostInv, Ready

LEMMA LayerEntered ==
  ASSUME Inv, InLayer, pc # "residual"
  PROVE  InPhase /\ Running /\ CarriedInv
  <1>1. Ready
    BY ReadyWhenRunning DEF Inv, InLayer
  <1> QED BY <1>1 DEF Inv, PhaseInv, InPhase, InLayer, Running

(* A step that leaves the carried ciphertexts alone. *)
LEMMA StepKeeps ==
  ASSUME Inv, UNCHANGED invocation, disk' = disk, fifo' = fifo, state' = state, Running,
         PhaseInv', RegInv', Good(events')
  PROVE  Inv'
  <1>1. host' = host /\ run' = run
    BY DEF invocation
  <1>2. HostInv'
    <2>1. host.accepted
      BY DEF Inv, HostInv, Running
    <2> QED BY <1>1, <2>1 DEF Inv, HostInv
  <1>3. CarriedInv'
    BY <1>1, HostConstant DEF Inv, CarriedInv
  <1>4. DiskInv'
    BY DEF Inv, DiskInv
  <1>5. EventsInv'
    BY <1>1, EventsKept
  <1> QED BY <1>2, <1>3, <1>4, <1>5 DEF Inv

(* The phases of a layer, one by one *)

LEMMA PhaseOn ==
  ASSUME Inv, host' = host, InLayer, pc # "residual",
         pc' \in {"in_proj", "conv", "gate", "dt", "decay", "gated_norm", "out_proj"},
         layer' = layer, active' = active, has_state' = has_state
  PROVE  PhaseInv'
  <1>1. layer \in DOMAIN Layered /\ active = layer /\ has_state \subseteq DOMAIN Layered
    BY DEF Inv, PhaseInv
  <1>2. pc' \notin {"final", "expand", "scan"} /\ Layered' = Layered
    BY HostConstant
  <1> QED BY <1>1, <1>2 DEF PhaseInv

LEMMA ResidualStep ==
  ASSUME Inv, Residual, UNCHANGED invocation, disk' = disk
  PROVE  Inv'
  <1> DEFINE what == Point("residual", layer)
             out == MaybeBootstrap(reg.hidden, Req.residual, what, layer)
  <1>1. /\ pc = "residual" /\ active' = layer /\ Enter(out) /\ pc' = "block_norm"
        /\ UNCHANGED <<layer, stream, group, fifo, state, has_state>>
    BY DEF Residual
  <1>2. Ready /\ layer \in DOMAIN Layered /\ has_state \subseteq DOMAIN Layered /\ RegInv
    BY <1>1, ReadyWhenRunning DEF Inv, PhaseInv, InLayer
  <1>3. PointOK(what, layer)
    <2>1. layer # 0
      BY <1>2, LayersOfPayload
    <2> QED BY <1>2, <2>1 DEF PointOK, Point
  <1> HIDE DEF what
  <1>4. Good(out.log)
    <2>1. Good(reg.hidden.log)
      BY <1>2, Registers, EmptyGood
    <2> QED BY <1>2, <1>3, <2>1, MaybeGood
  <1> HIDE DEF out
  <1>5. Good(events')
    <2>1. events' = out.log
      BY <1>1 DEF Enter
    <2> QED BY <1>4, <2>1 DEF Good
  <1>6. RegInv'
    <2>1. Set("hidden", out) /\ "hidden" \in DOMAIN NoRegisters
      BY <1>1, FieldsAre DEF Enter
    <2> QED BY <1>2, <2>1, SetKeeps
  <1>7. PhaseInv'
    <2>1. Layered' = Layered
      BY HostConstant DEF invocation
    <2> QED BY <1>1, <1>2, <2>1 DEF PhaseInv
  <1> QED BY <1>1, <1>5, <1>6, <1>7, StepKeeps DEF Running

(* A phase that computes one register. *)
LEMMA ComputeStep ==
  ASSUME Inv, UNCHANGED invocation, disk' = disk, InLayer, pc # "residual",
         NEW f \in DOMAIN NoRegisters, NEW ct, Compute(f, ct), Good(ct.log),
         PhaseInv', fifo' = fifo, state' = state
  PROVE  Inv'
  <1>1. Set(f, ct) /\ events' = ct.log
    BY DEF Compute, Logged
  <1>2. Good(events')
    BY <1>1 DEF Good
  <1>3. RegInv'
    BY <1>1, SetKeeps DEF Inv
  <1> QED BY <1>2, <1>3, LayerEntered, StepKeeps

LEMMA BlockNormStep ==
  ASSUME Inv, BlockNorm, UNCHANGED invocation, disk' = disk
  PROVE  Inv'
  <1>1. /\ pc = "block_norm" /\ Compute("inv", BlockInverseCt) /\ pc' = "in_proj"
        /\ UNCHANGED <<layer, active, fifo, state, has_state>>
    BY DEF BlockNorm
  <1>2. InLayer /\ pc # "residual"
    BY <1>1 DEF InLayer
  <1>3. PhaseInv'
    BY <1>1, <1>2, PhaseOn DEF invocation
  <1>4. Good(BlockInverseCt.log)
    BY <1>2, LayerEntered, BlockInverseGood
  <1> QED BY <1>1, <1>2, <1>3, <1>4, ComputeStep, FieldsAre

LEMMA InProjStep ==
  ASSUME Inv, AheadInv, InProj, UNCHANGED invocation, disk' = disk
  PROVE  Inv'
  <1> DEFINE out == MaybeBootstrap(MulCt(InProjection, reg.inv), Req.proj, Point("proj", layer),
                                   active)
  <1>1. /\ pc = "in_proj" /\ EncodedFor("in", G.rep_in) /\ Compute("proj", out) /\ pc' = "conv"
        /\ UNCHANGED <<layer, active, fifo, state, has_state>>
    BY DEF InProj
  <1>2. InLayer /\ pc # "residual"
    BY <1>1 DEF InLayer
  <1>3. PhaseInv'
    BY <1>1, <1>2, PhaseOn DEF invocation
  <1>4. Good(out.log)
    BY <1>1, <1>2, LayerEntered, InProjGood
  <1> HIDE DEF out
  <1> QED BY <1>1, <1>2, <1>3, <1>4, ComputeStep, FieldsAre

LEMMA GateStep ==
  ASSUME Inv, Gate, UNCHANGED invocation, disk' = disk
  PROVE  Inv'
  <1> DEFINE u == AddScalar(MulMask(reg.proj, <<"gate_mask", layer>>, Plan(layer).gate_mask),
                            Layer(layer).gate.b)
             out == EvalChebyshev(u, Plan(layer).gate_coeffs)
  <1>1. /\ pc = "gate" /\ Compute("gate", out) /\ pc' = "dt"
        /\ UNCHANGED <<layer, active, fifo, state, has_state>>
    BY DEF Gate
  <1>2. InLayer /\ pc # "residual"
    BY <1>1 DEF InLayer
  <1>3. PhaseInv'
    BY <1>1, <1>2, PhaseOn DEF invocation
  <1>4. Good(out.log)
    BY <1>2, LayerEntered, GateGood
  <1> HIDE DEF out
  <1> QED BY <1>1, <1>2, <1>3, <1>4, ComputeStep, FieldsAre

LEMMA TimeStepStep ==
  ASSUME Inv, TimeStep, UNCHANGED invocation, disk' = disk
  PROVE  Inv'
  <1> DEFINE dt == StepOf(Dissipation)
  <1>1. /\ pc = "dt" /\ Discretize(Dissipation, dt) /\ pc' = "decay"
        /\ UNCHANGED <<layer, active, fifo, state, has_state>>
    BY DEF TimeStep
  <1>2. InLayer /\ pc # "residual"
    BY <1>1 DEF InLayer
  <1>3. PhaseInv'
    BY <1>1, <1>2, PhaseOn DEF invocation
  <1>4. Good(dt.log)
    BY <1>2, LayerEntered, StepGood
  <1> HIDE DEF dt
  <1>5. Good(events')
    <2>1. events' = dt.log
      BY <1>1 DEF Discretize, Logged
    <2> QED BY <1>4, <2>1 DEF Good
  <1>6. RegInv'
    <2> DEFINE a == Fresh(dt)
               b == IF Layer(layer).joint.on /\ layer \in has_state
                    THEN Fresh(AddScalar(ScaleCt(Dissipation, -1), 1)) ELSE NoCt
    <2>1. reg' = [reg EXCEPT !.dt = a, !.decay = b]
      BY <1>1 DEF Discretize
    <2>2. a.log = {} /\ b.log = {}
      BY DEF Fresh, NoCt, Ct, Made
    <2> HIDE DEF a, b
    <2>3. RegInv
      BY DEF Inv
    <2> QED BY <2>1, <2>2, <2>3, FieldsAre DEF RegInv
  <1> QED BY <1>1, <1>2, <1>3, <1>5, <1>6, LayerEntered, StepKeeps

LEMMA DecayStep ==
  ASSUME Inv, Decay, UNCHANGED invocation, disk' = disk
  PROVE  Inv'
  <1> DEFINE out == MaybeBootstrap(IF Layer(layer).joint.on THEN reg.decay ELSE DecayPoly,
                                   Req.decay, Point("decay", layer), active)
  <1>1. /\ pc = "decay" /\ stream' = 0 /\ pc' = "expand"
        /\ UNCHANGED <<layer, active, fifo, state, has_state>>
        /\ \/ Compute("decay", out)
           \/ events' = {} /\ UNCHANGED <<reg, rots>>
    BY DEF Decay
  <1>2. InLayer /\ pc # "residual"
    BY <1>1 DEF InLayer
  <1>3. PhaseInv'
    <2>1. layer \in DOMAIN Layered /\ active = layer /\ has_state \subseteq DOMAIN Layered
      BY <1>2 DEF Inv, PhaseInv
    <2>2. Layered' = Layered /\ C' = C
      BY HostConstant DEF invocation
    <2>3. 0 \in 0 .. (C.streams - 1)
      <3>1. C.streams \in Nat \ {0}
        BY <1>2, LayerEntered, Geometry DEF InPhase
      <3> QED BY <3>1
    <2> QED BY <1>1, <2>1, <2>2, <2>3 DEF PhaseInv
  <1>4. Good(out.log)
    BY <1>2, LayerEntered, DecayGood
  <1> HIDE DEF out
  <1>5. CASE Compute("decay", out)
    BY <1>1, <1>2, <1>3, <1>4, <1>5, ComputeStep, FieldsAre
  <1>6. CASE events' = {} /\ UNCHANGED <<reg, rots>>
    <2>1. Good(events')
      BY <1>6 DEF Good
    <2>2. RegInv'
      BY <1>6 DEF Inv, RegInv
    <2> QED BY <1>1, <1>2, <1>3, <2>1, <2>2, LayerEntered, StepKeeps
  <1> QED BY <1>1, <1>5, <1>6

(* A register bank with one register replaced is still one. *)
Cleared(r) == r = [f \in DOMAIN NoRegisters |-> r[f]] /\ \A f \in DOMAIN NoRegisters : r[f].log = {}

LEMMA ReplaceOne ==
  ASSUME NEW r, Cleared(r), NEW f \in DOMAIN NoRegisters, NEW ct, ct.log = {}
  PROVE  Cleared([r EXCEPT ![f] = ct])
  BY DEF Cleared

LEMMA ExpandStep ==
  ASSUME Inv, Expand, UNCHANGED invocation, disk' = disk
  PROVE  Inv'
  <1>1. /\ pc = "expand" /\ group' = 0 /\ pc' = "scan"
        /\ UNCHANGED <<layer, stream, active, fifo, state, has_state>>
    BY DEF Expand
  <1>2. InLayer /\ pc # "residual"
    BY <1>1 DEF InLayer
  <1>0. stream \in 0 .. (C.streams - 1)
    BY <1>1 DEF Inv, PhaseInv
  <1>3. PhaseInv'
    <2>1. layer \in DOMAIN Layered /\ active = layer /\ has_state \subseteq DOMAIN Layered
      BY <1>2 DEF Inv, PhaseInv
    <2>2. Layered' = Layered /\ C' = C /\ G' = G
      BY HostConstant DEF invocation
    <2>3. 0 \in 0 .. G.group_count
      <3>1. G.group_count \in Nat \ {0}
        BY <1>2, LayerEntered, Geometry DEF InPhase
      <3> QED BY <3>1
    <2> QED BY <1>0, <1>1, <2>1, <2>2, <2>3 DEF PhaseInv
  <1>4. Good(events')
    BY <1>0, <1>2, LayerEntered, ExpandLogGood
  <1>5. RegInv'
    <2> DEFINE Shifted(ct) == IF stream = 0 THEN ct ELSE RotateComposite(ct, stream * G.stride)
               conv == Shifted(reg.conv)
               dt == Shifted(reg.dt)
               decay == IF layer \in has_state THEN Shifted(reg.decay) ELSE NoCt
               b == BcExpand(conv, G.b_base)
               c == BcExpand(conv, G.c_base)
               dt_heads == IF C.shared THEN PlaceAllHeads(dt, Heads) ELSE NoCt
               decay_heads == IF C.shared /\ layer \in has_state /\ Kept # {}
                              THEN PlaceAllHeads(decay, Kept) ELSE NoCt
               r1 == [reg EXCEPT !.conv_s = Fresh(conv)]
               r2 == [r1 EXCEPT !.dt_s = Fresh(dt)]
               r3 == [r2 EXCEPT !.decay_s = Fresh(decay)]
               r4 == [r3 EXCEPT !.b = Fresh(b)]
               r5 == [r4 EXCEPT !.c = Fresh(c)]
               r6 == [r5 EXCEPT !.dt_heads = Fresh(dt_heads)]
               r7 == [r6 EXCEPT !.decay_heads = Fresh(decay_heads)]
               r8 == [r7 EXCEPT !.y_stream = NoCt]
    <2>1. reg' = r8
      BY Zenon DEF Expand
    <2> HIDE DEF Shifted, conv, dt, decay, b, c, dt_heads, decay_heads
    <2>2. \A ct : Fresh(ct).log = {}
      BY DEF Fresh, Ct, Made
    <2>3. NoCt.log = {}
      BY DEF NoCt, Ct, Made
    <2>4. Cleared(reg)
      BY DEF Inv, RegInv, Cleared
    <2> HIDE DEF r1, r2, r3, r4, r5, r6, r7, r8
    <2>5. Cleared(r1)
      BY <2>2, <2>4, ReplaceOne, FieldsAre, Zenon DEF r1
    <2>6. Cleared(r2)
      BY <2>2, <2>5, ReplaceOne, FieldsAre, Zenon DEF r2
    <2>7. Cleared(r3)
      BY <2>2, <2>6, ReplaceOne, FieldsAre, Zenon DEF r3
    <2>8. Cleared(r4)
      BY <2>2, <2>7, ReplaceOne, FieldsAre, Zenon DEF r4
    <2>9. Cleared(r5)
      BY <2>2, <2>8, ReplaceOne, FieldsAre, Zenon DEF r5
    <2>10. Cleared(r6)
      BY <2>2, <2>9, ReplaceOne, FieldsAre, Zenon DEF r6
    <2>11. Cleared(r7)
      BY <2>2, <2>10, ReplaceOne, FieldsAre, Zenon DEF r7
    <2>12. Cleared(r8)
      BY <2>3, <2>11, ReplaceOne, FieldsAre, Zenon DEF r8
    <2> QED BY <2>1, <2>12 DEF RegInv, Cleared
  <1> QED BY <1>1, <1>2, <1>3, <1>4, <1>5, LayerEntered, StepKeeps

-----------------------------------------------------------------------------
(* The steps of look-ahead encoding *)

(* What a step of an encoding leaves alone. *)
Framed == UNCHANGED <<invocation, cached, threads, pc, layer>>

LEMMA FramedSerial ==
  ASSUME Framed
  PROVE  \A name : /\ EndOf(name)' = EndOf(name)
                   /\ \A p : /\ SerialAt(name, p)' = SerialAt(name, p)
                             /\ DiagonalOf(name, p)' = DiagonalOf(name, p)
                             /\ InTable(name, layer, p)' = InTable(name, layer, p)
                   /\ ShapeOfProduct(name)' = ShapeOfProduct(name)
                   /\ \A S : LooksAhead(S)' = LooksAhead(S)
  <1>1. host' = host /\ cached' = cached /\ layer' = layer /\ threads' = threads
    BY DEF Framed, invocation
  <1>2. C' = C /\ G' = G /\ Layered' = Layered
    BY <1>1, HostConstant
  <1> SUFFICES ASSUME NEW name
               PROVE  /\ EndOf(name)' = EndOf(name)
                      /\ \A p : /\ SerialAt(name, p)' = SerialAt(name, p)
                                /\ DiagonalOf(name, p)' = DiagonalOf(name, p)
                                /\ InTable(name, layer, p)' = InTable(name, layer, p)
                      /\ ShapeOfProduct(name)' = ShapeOfProduct(name)
                      /\ \A S : LooksAhead(S)' = LooksAhead(S)
    OBVIOUS
  <1>3. Weights(name)' = Weights(name)
    BY <1>1, <1>2 DEF Weights, Plan
  <1>4. PlainCache' = PlainCache
    BY <1>1 DEF PlainCache
  <1>5. \A p : DiagonalOf(name, p)' = DiagonalOf(name, p)
    BY <1>2, <1>3 DEF DiagonalOf, Outputs, Inputs
  <1>6. \A p : InTable(name, layer, p)' = InTable(name, layer, p)
    BY <1>1, <1>4 DEF InTable
  <1>7. \A p : SerialAt(name, p)' = SerialAt(name, p)
    BY <1>1, <1>2, <1>3, <1>4, <1>6 DEF SerialAt, SerialPlain, InTable, Outputs, Inputs
  <1>8. EndOf(name)' = EndOf(name)
    BY DEF EndOf, Outputs, Inputs
  <1>9. ShapeOfProduct(name)' = ShapeOfProduct(name) /\ \A S : LooksAhead(S)' = LooksAhead(S)
    BY <1>1, <1>2 DEF ShapeOfProduct, LooksAhead
  <1> QED BY <1>5, <1>6, <1>7, <1>8, <1>9

LEMMA BeginAhead ==
  ASSUME AheadInv, Framed, NEW name \in Products, BeginEncode(name)
  PROVE  AheadInv'
  <1>1. /\ pc = PhaseOf(name) /\ LooksAhead(ShapeOfProduct(name))
        /\ ahead' = [NoAhead EXCEPT !.name = name]
    BY DEF BeginEncode
  <1>2. /\ DOMAIN ahead' = AheadFields /\ ahead'.name = name /\ ahead'.next = 0
        /\ ahead'.ready = <<>> /\ ahead'.pending = <<>> /\ ahead'.results = <<>>
        /\ ahead'.job = <<>> /\ ahead'.used = <<>>
    BY <1>1, NoAheadIs DEF AheadFields
  <1>3. UsedInv(name)'
    <2>1. EndOf(name)' \in Nat
      BY FramedSerial, EndTyped
    <2> DEFINE f == [p \in 1 .. 0 |-> SerialAt(name, p - 1)']
    <2>2. DOMAIN f = 1 .. 0 /\ f = [p \in DOMAIN f |-> f[p]]
      OBVIOUS
    <2> HIDE DEF f
    <2>3. f \in Seq({}) /\ Len(f) = 0
      <3>1. f \in [1 .. 0 -> {}]
        BY <2>2
      <3>2. f \in Seq({})
        BY <3>1, SeqDef
      <3> QED BY <2>2, <3>2, LenProperties
    <2>4. f = <<>>
      BY <2>3, EmptySeq
    <2> QED BY <1>2, <2>1, <2>4 DEF UsedInv, f
  <1>4. ReadyInv(name)'
    BY <1>2 DEF ReadyInv
  <1>5. BatchInv(name)'
    BY <1>2 DEF BatchInv
  <1>6. pc' = PhaseOf(name) /\ LooksAhead(ShapeOfProduct(name))'
    BY <1>1, FramedSerial DEF Framed, LooksAhead, ShapeOfProduct
  <1>7. Encoding(name)'
    BY <1>2, <1>3, <1>4, <1>5, <1>6 DEF Encoding
  <1>8. (threads \in Nat \ {0})'
    BY DEF AheadInv, Framed
  <1> QED BY <1>7, <1>8 DEF AheadInv

(* What a position takes is what its serial loop would build there. *)
LEMMA TakenIsSerial ==
  ASSUME NEW name, ReadyInv(name), NEW p, Available(name, p)
  PROVE  Taken(name, p) = SerialAt(name, p)
  <1>1. CASE InTable(name, layer, p)
    BY <1>1 DEF Taken, SerialAt, SerialPlain
  <1>2. CASE ~InTable(name, layer, p)
    <2>1. p \in DOMAIN ahead.ready
      BY <1>2 DEF Available
    <2>2. ahead.ready[p] = EncodedMask(DiagonalOf(name, p))
      BY <2>1 DEF ReadyInv
    <2> QED BY <1>2, <2>2 DEF Taken, SerialAt, SerialPlain, DiagonalOf
  <1> QED BY <1>1, <1>2

(* The loop stops at the end, or where a plaintext is missing. *)
LEMMA TakeEnds ==
  ASSUME NEW name, NEW first \in Nat, first < EndOf(name), Available(name, first)
  PROVE  \E p \in (first + 1) .. EndOf(name) :
           /\ \A q \in first .. (p - 1) : Available(name, q)
           /\ p < EndOf(name) => ~Available(name, p)
  <1> DEFINE T == {p \in (first + 1) .. EndOf(name) : p = EndOf(name) \/ ~Available(name, p)}
  <1>0. EndOf(name) \in Nat
    BY EndTyped
  <1>1. T \subseteq Nat /\ EndOf(name) \in T
    BY <1>0
  <1>2. PICK p \in T : \A q \in T : p <= q
    <2> HIDE DEF T
    <2> QED BY <1>1, LeastOf
  <1>3. ASSUME NEW q \in first .. (p - 1) PROVE Available(name, q)
    <2>1. CASE q = first
      BY <2>1
    <2>2. CASE q # first
      <3>1. q \in (first + 1) .. EndOf(name) /\ q < p
        BY <1>0, <2>2
      <3>2. q \notin T
        <4> HIDE DEF T
        <4> QED BY <1>1, <1>2, <3>1
      <3> QED BY <3>1, <3>2
    <2> QED BY <2>1, <2>2
  <1> QED BY <1>2, <1>3

(* What the fields that a step leaves alone keep. *)
LEMMA BatchFramed ==
  ASSUME NEW name, BatchInv(name), Framed, ahead'.pending = ahead.pending,
         ahead'.results = ahead.results, ahead'.job = ahead.job
  PROVE  BatchInv(name)'
  <1>1. Workers' = Workers
    BY DEF Workers, Framed
  <1>2. \A j \in DOMAIN ahead.pending : Encoded(name, j) => Encoded(name, j)'
    BY FramedSerial DEF Encoded
  <1>3. \A j : Owed(j) => Owed(j)'
    BY <1>1 DEF Owed
  <1> QED BY <1>2, <1>3 DEF BatchInv

LEMMA UsedFramed ==
  ASSUME NEW name, UsedInv(name), Framed, ahead'.next = ahead.next, ahead'.used = ahead.used
  PROVE  UsedInv(name)'
  <1>1. EndOf(name)' = EndOf(name) /\ \A p : SerialAt(name, p)' = SerialAt(name, p)
    BY FramedSerial
  <1>2. ahead'.next \in 0 .. EndOf(name)'
    BY <1>1 DEF UsedInv
  <1>3. ahead'.used = [p \in 1 .. ahead'.next |-> SerialAt(name, p - 1)']
    BY <1>1 DEF UsedInv
  <1> QED BY <1>2, <1>3 DEF UsedInv

LEMMA FieldsFramed ==
  ASSUME NEW name, UsedInv(name), ReadyInv(name), Framed, ahead'.next = ahead.next,
         ahead'.ready = ahead.ready, ahead'.used = ahead.used
  PROVE  UsedInv(name)' /\ ReadyInv(name)'
  BY UsedFramed, FramedSerial DEF ReadyInv

LEMMA EncodingFramed ==
  ASSUME NEW name, Encoding(name), Framed, DOMAIN ahead' = AheadFields, ahead'.name = name,
         UsedInv(name)', ReadyInv(name)', BatchInv(name)'
  PROVE  Encoding(name)'
  <1>1. pc' = PhaseOf(name) /\ LooksAhead(ShapeOfProduct(name))
    BY DEF Encoding, Framed
  <1>2. LooksAhead(ShapeOfProduct(name))'
    BY <1>1, FramedSerial DEF LooksAhead, ShapeOfProduct
  <1> QED BY <1>1, <1>2 DEF Encoding

LEMMA TakeAhead ==
  ASSUME NEW name \in Products, Encoding(name), Framed, Take
  PROVE  Encoding(name)'
  <1> DEFINE next == ahead.next
             Ends(p) == /\ \A q \in next .. (p - 1) : Available(name, q)
                        /\ p < EndOf(name) => ~Available(name, p)
             end == CHOOSE p \in (next + 1) .. EndOf(name) : Ends(p)
             ready == [p \in DOMAIN ahead.ready \ (next .. (end - 1)) |-> ahead.ready[p]]
             more == [i \in 1 .. (end - next) |-> Taken(name, next + i - 1)]
  <1>2. ahead.name = name
    BY DEF Encoding
  <1>1. /\ ahead.pending = <<>> /\ next < EndOf(name) /\ Available(name, next)
        /\ ahead' = [ahead EXCEPT !.next = end, !.ready = ready, !.used = ahead.used \o more]
    BY <1>2, Zenon DEF Take
  <1>3. next \in Nat /\ EndOf(name) \in Nat
    BY EndTyped DEF Encoding, UsedInv
  <1>4. end \in (next + 1) .. EndOf(name) /\ Ends(end)
    <2>1. \E p \in (next + 1) .. EndOf(name) : Ends(p)
      BY <1>1, <1>3, TakeEnds
    <2> HIDE DEF Ends
    <2> QED BY <2>1
  <1> HIDE DEF end
  <1>5. \A p \in next .. (end - 1) : Taken(name, p) = SerialAt(name, p)
    BY <1>4, TakenIsSerial DEF Encoding
  <1>6. ahead.used \o more = [p \in 1 .. end |-> SerialAt(name, p - 1)]
    <2> DEFINE used == ahead.used
    <2>1. used = [p \in 1 .. next |-> SerialAt(name, p - 1)]
      BY DEF Encoding, UsedInv
    <2>2. used = [i \in 1 .. next |-> used[i]] /\ \A p \in 1 .. next : used[p] = SerialAt(name, p - 1)
      BY <2>1
    <2>3. more = [i \in 1 .. (end - next) |-> more[i]]
      OBVIOUS
    <2>4. \A i \in 1 .. (end - next) : more[i] = SerialAt(name, next + i - 1)
      <3>1. \A i \in 1 .. (end - next) : next + i - 1 \in next .. (end - 1)
        BY <1>3, <1>4
      <3> QED BY <1>5, <3>1
    <2> HIDE DEF used, more
    <2>5. end - next \in Nat /\ next + (end - next) = end
      BY <1>3, <1>4
    <2>6. used \o more = [i \in 1 .. end |-> IF i <= next THEN used[i] ELSE more[i - next]]
      BY <1>3, <2>2, <2>3, <2>5, ConcatIs
    <2>7. \A i \in 1 .. end :
            (IF i <= next THEN used[i] ELSE more[i - next]) = SerialAt(name, i - 1)
      <3> SUFFICES ASSUME NEW i \in 1 .. end
                   PROVE  (IF i <= next THEN used[i] ELSE more[i - next]) = SerialAt(name, i - 1)
        OBVIOUS
      <3>1. CASE i <= next
        <4>1. end \in Nat
          BY <1>3, <1>4
        <4>2. i \in 1 .. next
          BY <1>3, <3>1, <4>1
        <4> QED BY <2>2, <3>1, <4>2
      <3>2. CASE ~(i <= next)
        <4>1. i - next \in 1 .. (end - next) /\ next + (i - next) - 1 = i - 1
          BY <1>3, <1>4, <3>2
        <4> QED BY <2>4, <3>2, <4>1
      <3> QED BY <3>1, <3>2
    <2>8. used \o more = [p \in 1 .. end |-> SerialAt(name, p - 1)]
      BY <2>6, <2>7
    <2> QED BY <2>8 DEF used
  <1>7. /\ DOMAIN ahead' = AheadFields /\ ahead'.name = name /\ ahead'.next = end
        /\ ahead'.ready = ready /\ ahead'.pending = ahead.pending
        /\ ahead'.results = ahead.results
        /\ ahead'.job = ahead.job /\ ahead'.used = ahead.used \o more
    <2> HIDE DEF ready, more
    <2>1. DOMAIN ahead = AheadFields
      BY DEF Encoding
    <2> QED BY <1>1, <1>2, <2>1 DEF AheadFields
  <1>8. UsedInv(name)'
    <2>1. EndOf(name)' = EndOf(name) /\ \A p : SerialAt(name, p)' = SerialAt(name, p)
      BY FramedSerial
    <2>2. ahead'.next \in 0 .. EndOf(name)'
      BY <1>3, <1>4, <1>7, <2>1
    <2>3. ahead'.used = [p \in 1 .. ahead'.next |-> SerialAt(name, p - 1)']
      <3> HIDE DEF more
      <3> QED BY <1>6, <1>7, <2>1
    <2> QED BY <2>2, <2>3 DEF UsedInv
  <1>9. ReadyInv(name)'
    <2>1. \A p \in DOMAIN ready : ready[p] = EncodedMask(DiagonalOf(name, p))
      BY DEF Encoding, ReadyInv
    <2> HIDE DEF ready
    <2> QED BY <1>7, <2>1, FramedSerial DEF ReadyInv
  <1>10. BatchInv(name)'
    <2> HIDE DEF ready, more
    <2> QED BY <1>7, BatchFramed DEF Encoding
  <1> QED BY <1>7, <1>8, <1>9, <1>10, EncodingFramed

(* In the jobs' first round worker w owes every Workers-th position from w. *)
LEMMA OwedAtFirst ==
  ASSUME NEW n \in Nat, NEW k \in Nat \ {0}, NEW j \in 1 .. n
  PROVE  LET stride == Min2(k, n)
         IN  stride \in Nat \ {0} /\ \E w \in 1 .. stride, q \in Nat : j = w + q * stride
  <1> DEFINE stride == Min2(k, n)
  <1>1. stride \in Nat \ {0}
    BY DEF Min2
  <1> HIDE DEF stride
  <1>2. (j - 1) % stride \in 0 .. (stride - 1) /\ (j - 1) \div stride \in Nat
        /\ j - 1 = stride * ((j - 1) \div stride) + ((j - 1) % stride)
    BY <1>1, Divides
  <1> DEFINE w == ((j - 1) % stride) + 1
             q == (j - 1) \div stride
  <1>3. w \in 1 .. stride /\ q \in Nat /\ j = w + q * stride
    BY <1>1, <1>2
  <1> QED BY <1>1, <1>3 DEF stride

LEMMA PrefetchAhead ==
  ASSUME NEW name \in Products, Encoding(name), threads \in Nat \ {0}, Framed, Prefetch
  PROVE  Encoding(name)'
  <1> DEFINE S == {p \in ahead.next .. (EndOf(ahead.name) - 1) : ~Available(ahead.name, p)}
             Nth(i) == CHOOSE x \in S : Cardinality({y \in S : y < x}) = i - 1
             f == [i \in 1 .. Cardinality(S) |-> Nth(i)]
             missing == <<>> \o f
             most == Min2(Len(missing), threads * EncodePerThread)
             pending == SubSeq(missing, 1, most)
             results == <<>> \o [i \in DOMAIN pending |-> <<>>]
             job == <<>> \o [w \in 1 .. Min2(threads, Len(pending)) |-> w]
  <1>1. ahead.name = name /\ ahead.next \in Nat /\ EndOf(name) \in Nat
    BY EndTyped DEF Encoding, UsedInv
  <1>2. ahead' = [ahead EXCEPT !.pending = pending, !.results = results, !.job = job]
    BY Zenon DEF Prefetch, Sorted
  <1>3. IsSequence(pending)
    <2>1. IsFiniteSet(S)
      <3>1. ahead.next \in Int /\ EndOf(ahead.name) - 1 \in Int
        BY <1>1
      <3>2. IsFiniteSet(ahead.next .. (EndOf(ahead.name) - 1))
        BY <3>1, FS_Interval
      <3>3. S \subseteq ahead.next .. (EndOf(ahead.name) - 1)
        OBVIOUS
      <3> HIDE DEF S
      <3> QED BY <3>2, <3>3, FS_Subset
    <2> HIDE DEF S
    <2>2. Cardinality(S) \in Nat
      BY <2>1, FS_CardinalityType
    <2> HIDE DEF Nth
    <2>3. f = [i \in DOMAIN f |-> f[i]] /\ DOMAIN f = 1 .. Cardinality(S)
      OBVIOUS
    <2> HIDE DEF f
    <2>4. IsSequence(missing) /\ Len(missing) = Cardinality(S)
      BY <2>2, <2>3, Tabulated
    <2> HIDE DEF missing
    <2>5. most \in Nat /\ most <= Len(missing)
      BY <2>2, <2>4, EncodePerThreadAssumption DEF Min2
    <2> HIDE DEF most
    <2>6. \A i \in 1 .. most : missing[i] \in Range(missing)
      BY <2>4, <2>5, SequenceDomain DEF Range
    <2>7. pending \in Seq(Range(missing))
      BY <2>5, <2>6, SubSeqProperties
    <2> HIDE DEF pending
    <2> QED BY <2>7, LenProperties, Tabulated
  <1> HIDE DEF pending
  <1>4. Len(pending) \in Nat /\ DOMAIN pending = 1 .. Len(pending)
    BY <1>3, SequenceDomain
  <1>5. /\ DOMAIN results = 1 .. Len(pending)
        /\ DOMAIN job = 1 .. Min2(threads, Len(pending))
        /\ \A w \in DOMAIN job : job[w] = w
    <2> DEFINE r == [i \in DOMAIN pending |-> <<>>]
               n == Min2(threads, Len(pending))
               b == [w \in 1 .. n |-> w]
    <2>1. n \in Nat
      BY <1>4 DEF Min2
    <2> HIDE DEF n
    <2>2. r = [i \in DOMAIN r |-> r[i]] /\ DOMAIN r = 1 .. Len(pending)
      BY <1>4
    <2>3. b = [i \in DOMAIN b |-> b[i]] /\ DOMAIN b = 1 .. n /\ \A w \in 1 .. n : b[w] = w
      OBVIOUS
    <2> HIDE DEF r, b
    <2>4. <<>> \o r = r /\ <<>> \o b = b
      BY <1>4, <2>1, <2>2, <2>3, Tabulated
    <2> QED BY <2>2, <2>3, <2>4 DEF r, b, n
  <1>6. /\ DOMAIN ahead' = AheadFields /\ ahead'.name = name /\ ahead'.next = ahead.next
        /\ ahead'.ready = ahead.ready /\ ahead'.pending = pending
        /\ ahead'.results = results /\ ahead'.job = job /\ ahead'.used = ahead.used
    <2> HIDE DEF results, job
    <2>1. DOMAIN ahead = AheadFields
      BY DEF Encoding
    <2> QED BY <1>1, <1>2, <2>1 DEF AheadFields
  <1> HIDE DEF results, job
  <1>7. UsedInv(name)' /\ ReadyInv(name)'
    BY <1>6, FieldsFramed DEF Encoding
  <1>8. BatchInv(name)'
    <2>1. Workers' = Min2(threads, Len(pending))
      BY <1>6 DEF Workers, Framed
    <2>2. ASSUME NEW j \in DOMAIN pending PROVE Owed(j)'
      <3> DEFINE stride == Min2(threads, Len(pending))
      <3>0. \E w \in 1 .. stride, q \in Nat : j = w + q * stride
        BY <1>4, <2>2, OwedAtFirst
      <3> HIDE DEF stride
      <3>1. PICK w \in 1 .. Workers', q \in Nat : j = w + q * Workers'
        BY <2>1, <3>0 DEF stride
      <3>2. w \in DOMAIN ahead'.job /\ j = ahead'.job[w] + q * Workers'
        BY <1>5, <1>6, <2>1, <3>1
      <3> QED BY <3>2 DEF Owed
    <2>3. \A w \in DOMAIN ahead'.job : ahead'.job[w] \in Nat \ {0}
      BY <1>5, <1>6
    <2> QED BY <1>4, <1>5, <1>6, <2>2, <2>3 DEF BatchInv
  <1> QED BY <1>6, <1>7, <1>8, EncodingFramed

LEMMA EncodeJobAhead ==
  ASSUME NEW name \in Products, Encoding(name), threads \in Nat \ {0}, Framed,
         NEW w \in DOMAIN ahead.job, EncodeJob(w)
  PROVE  Encoding(name)'
  <1> DEFINE at == ahead.job[w]
             mask == DiagonalOf(name, ahead.pending[at])
             results == [ahead.results EXCEPT ![at] = EncodedMask(mask)]
             job == [ahead.job EXCEPT ![w] = at + Workers]
  <1>1. ahead.name = name /\ DOMAIN ahead = AheadFields /\ BatchInv(name)
    BY DEF Encoding
  <1>2. at \in DOMAIN ahead.pending
        /\ ahead' = [ahead EXCEPT !.results = results, !.job = job]
    <2>1. ahead' = [ahead EXCEPT !.results[at] = EncodedMask(mask), !.job[w] = @ + Workers]
      BY <1>1, Zenon DEF EncodeJob
    <2> QED BY <2>1 DEF EncodeJob
  <1> HIDE DEF results, job
  <1>3. /\ DOMAIN ahead' = AheadFields /\ ahead'.name = name /\ ahead'.next = ahead.next
        /\ ahead'.ready = ahead.ready /\ ahead'.pending = ahead.pending
        /\ ahead'.results = results /\ ahead'.job = job /\ ahead'.used = ahead.used
    BY <1>1, <1>2 DEF AheadFields
  <1>4. UsedInv(name)' /\ ReadyInv(name)'
    BY <1>3, FieldsFramed DEF Encoding
  <1>5. /\ DOMAIN job = DOMAIN ahead.job /\ DOMAIN results = DOMAIN ahead.results
        /\ job[w] = at + Workers /\ results[at] = EncodedMask(mask)
        /\ \A v \in DOMAIN ahead.job : v # w => job[v] = ahead.job[v]
        /\ \A j \in DOMAIN ahead.results : j # at => results[j] = ahead.results[j]
    BY <1>1, <1>2 DEF job, results, BatchInv
  <1>6. Workers \in Nat /\ at \in Nat \ {0} /\ Workers' = Workers
    BY <1>1, <1>3 DEF BatchInv, Workers, Min2, Framed
  <1>7. ASSUME NEW j \in DOMAIN ahead.pending
        PROVE  Encoded(name, j)' \/ Owed(j)'
    <2>1. CASE j = at
      BY <1>3, <1>5, <2>1, FramedSerial DEF Encoded
    <2>2. CASE j # at /\ Encoded(name, j)
      <3>1. j \in DOMAIN ahead.results
        BY <1>1, <1>7 DEF BatchInv
      <3>2. ahead'.results[j] = ahead.results[j] /\ ahead'.pending[j] = ahead.pending[j]
        BY <1>3, <1>5, <2>2, <3>1
      <3>3. Encoded(name, j)'
        BY <2>2, <3>2, FramedSerial DEF Encoded
      <3> QED BY <3>3
    <2>3. CASE j # at /\ Owed(j)
      <3>1. PICK v \in DOMAIN ahead.job, q \in Nat : j = ahead.job[v] + q * Workers
        BY <2>3 DEF Owed
      <3>2. CASE v # w
        BY <1>3, <1>5, <1>6, <3>1, <3>2 DEF Owed
      <3>3. CASE v = w
        <4>1. q # 0
          BY <1>6, <2>3, <3>1, <3>3
        <4>2. q - 1 \in Nat /\ j = job[w] + (q - 1) * Workers
          <5>1. q * Workers = Workers + (q - 1) * Workers
            BY <1>6
          <5> QED BY <1>5, <1>6, <3>1, <3>3, <4>1, <5>1
        <4> QED BY <1>3, <1>5, <1>6, <4>2 DEF Owed
      <3> QED BY <3>2, <3>3
    <2> QED BY <1>1, <1>7, <2>1, <2>2, <2>3 DEF BatchInv
  <1>8. \A v \in DOMAIN job : job[v] \in Nat \ {0}
    BY <1>1, <1>5, <1>6 DEF BatchInv
  <1>9. BatchInv(name)'
    BY <1>1, <1>3, <1>5, <1>7, <1>8 DEF BatchInv
  <1> QED BY <1>3, <1>4, <1>9, EncodingFramed

LEMMA JoinAhead ==
  ASSUME NEW name \in Products, Encoding(name), threads \in Nat \ {0}, Framed, Join
  PROVE  Encoding(name)'
  <1> DEFINE Place(p) == CHOOSE i \in DOMAIN ahead.pending : ahead.pending[i] = p
             Result(p) == ahead.results[Place(p)]
             ready == [p \in DOMAIN ahead.ready \cup Range(ahead.pending) |->
                         IF p \in Range(ahead.pending) THEN Result(p) ELSE ahead.ready[p]]
  <1>1. ahead.name = name /\ DOMAIN ahead = AheadFields /\ BatchInv(name)
    BY DEF Encoding
  <1>2. /\ \A w \in DOMAIN ahead.job : ahead.job[w] \notin DOMAIN ahead.pending
        /\ ahead' = [ahead EXCEPT !.ready = ready, !.pending = <<>>, !.results = <<>>,
                                  !.job = <<>>]
    BY Zenon DEF Join
  <1>3. ASSUME NEW j \in DOMAIN ahead.pending
        PROVE  Encoded(name, j)
    <2>1. SUFFICES ASSUME Owed(j) PROVE FALSE
      BY <1>1, <1>3 DEF BatchInv
    <2>2. PICK w \in DOMAIN ahead.job, q \in Nat : j = ahead.job[w] + q * Workers
      BY <2>1 DEF Owed
    <2>3. Len(ahead.pending) \in Nat /\ DOMAIN ahead.pending = 1 .. Len(ahead.pending)
      BY <1>1 DEF BatchInv
    <2>4. ahead.job[w] \in Nat /\ ahead.job[w] > Len(ahead.pending)
      BY <1>1, <1>2, <2>3 DEF BatchInv
    <2>5. Workers \in Nat
      BY <2>3 DEF Workers, Min2
    <2>6. q * Workers \in Nat
      BY <2>5
    <2> QED BY <1>3, <2>2, <2>3, <2>4, <2>6
  <1>4. \A p \in DOMAIN ready : ready[p] = EncodedMask(DiagonalOf(name, p))
    <2> SUFFICES ASSUME NEW p \in DOMAIN ready
                 PROVE  ready[p] = EncodedMask(DiagonalOf(name, p))
      OBVIOUS
    <2>1. CASE p \in Range(ahead.pending)
      <3>1. \E i \in DOMAIN ahead.pending : ahead.pending[i] = p
        BY <2>1 DEF Range
      <3>2. Place(p) \in DOMAIN ahead.pending /\ ahead.pending[Place(p)] = p
        BY <3>1
      <3> HIDE DEF Place
      <3>3. Result(p) = EncodedMask(DiagonalOf(name, p))
        BY <1>3, <3>2 DEF Encoded
      <3> HIDE DEF Result
      <3> QED BY <2>1, <3>3
    <2>2. CASE p \notin Range(ahead.pending)
      <3> HIDE DEF Result
      <3>1. p \in DOMAIN ahead.ready /\ ready[p] = ahead.ready[p]
        BY <2>2
      <3> QED BY <3>1 DEF Encoding, ReadyInv
    <2> QED BY <2>1, <2>2
  <1> HIDE DEF ready
  <1>5. /\ DOMAIN ahead' = AheadFields /\ ahead'.name = name /\ ahead'.next = ahead.next
        /\ ahead'.ready = ready /\ ahead'.pending = <<>> /\ ahead'.results = <<>>
        /\ ahead'.job = <<>> /\ ahead'.used = ahead.used
    BY <1>1, <1>2 DEF AheadFields
  <1>6. UsedInv(name)'
    BY <1>5, UsedFramed DEF Encoding
  <1>7. ReadyInv(name)'
    BY <1>4, <1>5, FramedSerial DEF ReadyInv
  <1>8. BatchInv(name)'
    BY <1>5 DEF BatchInv
  <1> QED BY <1>5, <1>6, <1>7, <1>8, EncodingFramed

LEMMA EncodeAhead ==
  ASSUME AheadInv, Encode, Framed
  PROVE  AheadInv'
  <1>1. threads \in Nat \ {0} /\ (threads \in Nat \ {0})'
    BY DEF AheadInv, Framed
  <1>2. (\E name \in Products : Encoding(name)') => AheadInv'
    BY <1>1 DEF AheadInv
  <1>3. ahead # NoAhead => \E name \in Products : Encoding(name)
    BY DEF AheadInv
  <1>4. CASE \E name \in Products : BeginEncode(name)
    BY <1>4, BeginAhead
  <1>5. CASE Take
    <2>1. ahead.name \in Products
      BY <1>5 DEF Take
    <2>2. PICK name \in Products : Encoding(name)
      BY <2>1, Named
    <2> QED BY <1>2, <1>5, <2>2, TakeAhead
  <1>6. CASE Prefetch
    <2>1. ahead.name \in Products
      BY <1>6 DEF Prefetch
    <2>2. PICK name \in Products : Encoding(name)
      BY <2>1, Named
    <2> QED BY <1>1, <1>2, <1>6, <2>2, PrefetchAhead
  <1>7. CASE Join
    <2>1. ahead # NoAhead
      BY <1>7, NoAheadIs DEF Join
    <2>2. PICK name \in Products : Encoding(name)
      BY <1>3, <2>1
    <2> QED BY <1>1, <1>2, <1>7, <2>2, JoinAhead
  <1>8. ASSUME NEW w \in DOMAIN ahead.job, EncodeJob(w)
        PROVE  AheadInv'
    <2>1. ahead # NoAhead
      BY <1>8, NoAheadIs
    <2>2. PICK name \in Products : Encoding(name)
      BY <1>3, <2>1
    <2> QED BY <1>1, <1>2, <1>8, <2>2, EncodeJobAhead
  <1> QED BY <1>4, <1>5, <1>6, <1>7, <1>8 DEF Encode

(* Outside the two products nothing is encoded ahead. *)
LEMMA NotAhead ==
  ASSUME AheadInv, pc \notin {"in_proj", "out_proj"}
  PROVE  ahead = NoAhead
  <1>1. SUFFICES ASSUME NEW name \in Products, Encoding(name) PROVE FALSE
    BY DEF AheadInv
  <1> QED BY <1>1 DEF Encoding, PhaseOf

LEMMA LayerAhead ==
  ASSUME AheadInv, LayerStep
  PROVE  ahead' = NoAhead
  <1>1. CASE Residual
    BY <1>1, NotAhead DEF Residual
  <1>2. CASE BlockNorm
    BY <1>2, NotAhead DEF BlockNorm
  <1>3. CASE InProj \/ OutProj
    BY <1>3 DEF InProj, OutProj
  <1>4. CASE ConvFifo
    BY <1>4, NotAhead DEF ConvFifo, Convolve
  <1>5. CASE Gate
    BY <1>5, NotAhead DEF Gate
  <1>6. CASE TimeStep
    BY <1>6, NotAhead DEF TimeStep, Discretize
  <1>7. CASE Decay
    BY <1>7, NotAhead DEF Decay
  <1>8. CASE Expand
    BY <1>8, NotAhead, Zenon DEF Expand
  <1>9. CASE Scan
    BY <1>9, NotAhead, Zenon DEF Scan
  <1>10. CASE EndStream
    BY <1>10, NotAhead, Zenon DEF EndStream
  <1>11. CASE SkipGate
    BY <1>11, NotAhead, Zenon DEF SkipGate
  <1>12. CASE GatedNorm
    BY <1>12, NotAhead, Zenon DEF GatedNorm
  <1> QED BY <1>1, <1>2, <1>3, <1>4, <1>5, <1>6, <1>7, <1>8, <1>9, <1>10, <1>11, <1>12
         DEF LayerStep

LEMMA EvaluateAhead ==
  ASSUME AheadInv, Evaluate
  PROVE  AheadInv'
  <1>1. UNCHANGED <<invocation, cached, threads>>
    BY DEF Evaluate
  <1>2. (threads \in Nat \ {0})'
    BY <1>1 DEF AheadInv
  <1>3. CASE ahead' = NoAhead
    BY <1>2, <1>3 DEF AheadInv
  <1>4. CASE Encode
    <2>1. UNCHANGED <<pc, layer>>
      BY <1>4, Zenon DEF Encode, BeginEncode, Take, Prefetch, Join, EncodeJob
    <2> QED BY <1>1, <1>4, <2>1, EncodeAhead DEF Framed
  <1>5. CASE LayerStep
    BY <1>3, <1>5, LayerAhead
  <1>6. CASE Reencrypt \/ ScheduledRefresh \/ EncryptInput \/ LoadInput \/ Finalize \/ Compare
    <2>1. pc \notin {"in_proj", "out_proj"} /\ ahead' = ahead
      BY <1>6, Zenon DEF Reencrypt, ScheduledRefresh, EncryptInput, LoadInput, EnterLayers,
                        Finalize, Compare, circuit
    <2> QED BY <1>3, <2>1, NotAhead
  <1> QED BY <1>4, <1>5, <1>6 DEF Evaluate

LEMMA StartAhead ==
  ASSUME AheadInv, Ready, pc = "start", Start
  PROVE  AheadInv'
  <1>1. threads' \in {C.encode_threads, 1} /\ ahead' = ahead
    BY DEF Start, SelfTested
  <1>2. C.encode_threads \in Nat \ {0}
    BY AcceptedHolds, HostHolds, ConfigsAssumption DEF Ready, Accepted, AcceptedOptions
  <1>3. ahead = NoAhead
    BY NotAhead
  <1> QED BY <1>1, <1>2, <1>3 DEF AheadInv

LEMMA VanishAhead ==
  ASSUME NEW after, Vanish(after)
  PROVE  AheadInv'
  BY DEF Vanish, AheadInv

(* A step of a process that evaluates nothing. *)
LEMMA IdleAhead ==
  ASSUME AheadInv, pc \notin {"in_proj", "out_proj"}, UNCHANGED <<threads, circuit>>
  PROVE  AheadInv'
  BY NotAhead DEF AheadInv, circuit

LEMMA NextAhead ==
  ASSUME HostInv, AheadInv, [Next]_vars
  PROVE  AheadInv'
  <1>1. CASE \E after : Vanish(after)
    BY <1>1, VanishAhead
  <1>2. CASE Reject \/ MissingInput \/ Decrypt \/ EmptyProduct \/ EncodingFails \/ Crash
    <2>1. \E after : Vanish(after)
      BY <1>2, Zenon DEF Reject, MissingInput, Decrypt, EmptyProduct, EncodingFails, Crash, Conclude
    <2> QED BY <1>1, <2>1
  <1>3. CASE InlineStart
    BY <1>3, StartAhead DEF InlineStart, Begins, HostInv, Ready
  <1>4. CASE ServerStart
    <2>1. CASE Start
      BY <1>4, <2>1, StartAhead DEF ServerStart, Begins, HostInv, Ready
    <2>2. CASE Conclude("error")
      BY <1>1, <2>2 DEF Conclude
    <2> QED BY <1>4, <2>1, <2>2 DEF ServerStart
  <1>5. CASE Prepare \/ WriteInit \/ Publish \/ WriteOutput \/ \E i \in DOMAIN Phases : Launch(i)
    <2>1. \/ \E after : Vanish(after)
          \/ pc \notin {"in_proj", "out_proj"} /\ UNCHANGED <<threads, circuit>>
      BY <1>5, Zenon DEF Prepare, Begins, WriteInit, Publish, WriteOutput, Launch, Conclude, Exit
    <2> QED BY <1>1, <2>1, IdleAhead
  <1>6. CASE Evaluate
    BY <1>6, EvaluateAhead
  <1>7. CASE Misplace \/ Done \/ UNCHANGED vars
    <2>1. Framed /\ ahead' = ahead
      BY <1>7 DEF Misplace, Done, vars, circuit, Framed
    <2>2. CASE ahead = NoAhead
      BY <2>1, <2>2 DEF AheadInv, Framed
    <2>3. ASSUME NEW name \in Products, Encoding(name)
          PROVE  AheadInv'
      <3>1. UsedInv(name)' /\ ReadyInv(name)' /\ BatchInv(name)'
        BY <2>1, <2>3, FieldsFramed, BatchFramed DEF Encoding
      <3>2. Encoding(name)'
        BY <2>1, <2>3, <3>1, EncodingFramed DEF Encoding
      <3> QED BY <2>1, <3>2 DEF AheadInv, Framed
    <2> QED BY <2>2, <2>3 DEF AheadInv
  <1> QED BY <1>2, <1>3, <1>4, <1>5, <1>6, <1>7 DEF Next, Progress

LEMMA InitAhead == Init => AheadInv
  BY DEF Init, AheadInv

(* A step of a layer that moves the window or the states. *)
LEMMA CarryStep ==
  ASSUME Inv, UNCHANGED invocation, disk' = disk, Running, PhaseInv', RegInv', CarriedInv',
         Good(events')
  PROVE  Inv'
  <1>1. host' = host /\ run' = run
    BY DEF invocation
  <1>2. HostInv'
    <2>1. host.accepted
      BY DEF Inv, HostInv, Running
    <2> QED BY <1>1, <2>1 DEF Inv, HostInv
  <1>3. DiskInv'
    BY DEF Inv, DiskInv
  <1>4. EventsInv'
    BY <1>1, EventsKept
  <1> QED BY <1>2, <1>3, <1>4 DEF Inv

LEMMA ConvFifoStep ==
  ASSUME Inv, ConvFifo, UNCHANGED invocation, disk' = disk
  PROVE  Inv'
  <1> DEFINE fresh == RefreshedWindow(Window)
             conv == ConvOf(fresh)
             kept == AfterRefresh(reg.proj, Window[Len(Window)],
                                  PointAt("fifo", layer, Len(Window) - 1))
  <1>1. /\ pc = "conv" /\ Convolve(Window, fresh, conv) /\ pc' = "gate"
        /\ UNCHANGED <<layer, stream, group, active, state, has_state>>
    BY DEF ConvFifo
  <1>2. InLayer /\ pc # "residual"
    BY <1>1 DEF InLayer
  <1>3. PhaseInv'
    BY <1>1, <1>2, PhaseOn DEF invocation
  <1>4. InPhase /\ Running /\ CarriedInv
    BY <1>2, LayerEntered
  <1>5. Silent(Window)
    BY <1>4, WindowSilent
  <1>6. /\ DOMAIN fresh = 1 .. Len(Window) /\ Len(Window) \in Nat
        /\ \A i \in DOMAIN fresh : Good(fresh[i].log)
    BY <1>4, <1>5, RefreshedWindowGood
  <1>7. /\ fifo' = [fifo EXCEPT ![layer] = AllFresh(fresh)]
        /\ reg' = [reg EXCEPT !.conv = Fresh(conv), !.proj = kept]
        /\ events' = conv.log \cup Logs(fresh)
    BY <1>1 DEF Convolve, Logged
  <1> HIDE DEF fresh
  <1>8. Good(conv.log)
    BY <1>4, <1>6, ConvGood
  <1> HIDE DEF conv
  <1>9. Good(events')
    <2>1. Good(Logs(fresh))
      BY <1>6, LogsGood
    <2> QED BY <1>7, <1>8, <2>1 DEF Good
  <1>10. RegInv'
    <2>1. Cleared(reg) /\ reg.proj.log = {}
      BY <1>4, Registers DEF InPhase, RegInv, Cleared
    <2>2. Fresh(conv).log = {}
      BY DEF Fresh, Ct, Made
    <2>3. kept.log = {}
      BY <2>1 DEF AfterRefresh, ScaleCt, Made
    <2> HIDE DEF kept
    <2> DEFINE r1 == [reg EXCEPT !.conv = Fresh(conv)]
               r2 == [r1 EXCEPT !.proj = kept]
    <2>4. reg' = r2
      BY <1>7, Zenon
    <2> HIDE DEF r1, r2
    <2>5. Cleared(r1)
      BY <2>1, <2>2, ReplaceOne, FieldsAre, Zenon DEF r1
    <2>6. Cleared(r2)
      BY <2>3, <2>5, ReplaceOne, FieldsAre, Zenon DEF r2
    <2> QED BY <2>4, <2>6 DEF RegInv, Cleared
  <1>11. CarriedInv'
    <2>1. Layered' = Layered /\ Slotted' = Slotted
      BY HostConstant DEF invocation
    <2>2. Silent(AllFresh(fresh))
      BY <1>6, FreshSilent
    <2>3. DOMAIN fifo = DOMAIN Layered /\ layer \in DOMAIN Layered
      BY <1>4 DEF CarriedInv, InPhase
    <2>4. \A k \in DOMAIN Layered : fifo'[k] = IF k = layer THEN AllFresh(fresh) ELSE fifo[k]
      BY <1>7, <2>3
    <2>5. fifo' = [k \in DOMAIN Layered |-> fifo'[k]]
      BY <1>7, <2>3
    <2>6. \A k \in DOMAIN Layered : Silent(fifo'[k])
      BY <1>4, <2>2, <2>4 DEF CarriedInv
    <2>7. state' = state
      BY <1>1
    <2> QED BY <1>4, <2>1, <2>5, <2>6, <2>7 DEF CarriedInv, Silent
  <1> QED BY <1>3, <1>4, <1>9, <1>10, <1>11, CarryStep

LEMMA SkipGateStep ==
  ASSUME Inv, SkipGate, UNCHANGED invocation, disk' = disk
  PROVE  Inv'
  <1>1. /\ pc = "skip_gate" /\ pc' = "gated_norm" /\ \E ct : Set("y", ct)
        /\ UNCHANGED <<layer, active, fifo, state, has_state>>
    BY DEF SkipGate, Compute
  <1>2. InLayer /\ pc # "residual"
    BY <1>1 DEF InLayer
  <1>3. PhaseInv'
    BY <1>1, <1>2, PhaseOn DEF invocation
  <1>4. InPhase /\ Running
    BY <1>2, LayerEntered
  <1>5. Good(events')
    BY <1>4, SkipGateGood
  <1>6. RegInv'
    BY <1>1, <1>4, SetKeeps, FieldsAre DEF InPhase
  <1> QED BY <1>1, <1>3, <1>4, <1>5, <1>6, StepKeeps

LEMMA GatedNormStep ==
  ASSUME Inv, GatedNorm, UNCHANGED invocation, disk' = disk
  PROVE  Inv'
  <1> DEFINE inv == GatedInverseCt
             y == MaybeBootstrap(reg.y, Req.out, Point("y_out", layer), active)
  <1>1. /\ pc = "gated_norm" /\ Normalize(inv, y) /\ pc' = "out_proj"
        /\ UNCHANGED <<layer, active, fifo, state, has_state>>
    BY DEF GatedNorm
  <1>2. InLayer /\ pc # "residual"
    BY <1>1 DEF InLayer
  <1>3. PhaseInv'
    BY <1>1, <1>2, PhaseOn DEF invocation
  <1>4. InPhase /\ Running
    BY <1>2, LayerEntered
  <1>5. Good(inv.log) /\ Good(y.log)
    BY <1>4, GatedInverseGood, YOutGood
  <1> HIDE DEF inv, y
  <1>6. reg' = [reg EXCEPT !.inv = Fresh(inv), !.y = Fresh(y)] /\ events' = inv.log \cup y.log
    BY <1>1 DEF Normalize, Logged
  <1>7. Good(events')
    BY <1>5, <1>6 DEF Good
  <1>8. RegInv'
    <2>1. Cleared(reg)
      BY <1>4 DEF InPhase, RegInv, Cleared
    <2>2. \A ct : Fresh(ct).log = {}
      BY DEF Fresh, Ct, Made
    <2> DEFINE r1 == [reg EXCEPT !.inv = Fresh(inv)]
               r2 == [r1 EXCEPT !.y = Fresh(y)]
    <2>3. reg' = r2
      BY <1>6, Zenon
    <2> HIDE DEF r1, r2
    <2>4. Cleared(r1)
      BY <2>1, <2>2, ReplaceOne, FieldsAre, Zenon DEF r1
    <2>5. Cleared(r2)
      BY <2>2, <2>4, ReplaceOne, FieldsAre, Zenon DEF r2
    <2> QED BY <2>3, <2>5 DEF RegInv, Cleared
  <1> QED BY <1>1, <1>3, <1>4, <1>7, <1>8, StepKeeps

LEMMA EntryKeeps ==
  ASSUME NEW hidden, hidden.log = {}, reg' = [NoRegisters EXCEPT !.hidden = hidden]
  PROVE  RegInv'
  <1>1. Cleared(NoRegisters)
    BY DEF Cleared, NoRegisters, NoCt, Ct, Made
  <1>2. Cleared(reg')
    BY <1>1, ReplaceOne, FieldsAre
  <1> QED BY <1>2 DEF RegInv, Cleared

LEMMA OutProjStep ==
  ASSUME Inv, AheadInv, OutProj, UNCHANGED invocation, disk' = disk
  PROVE  Inv'
  <1> DEFINE out == AddCt(MulCt(OutProjection, reg.inv), reg.hidden)
  <1>1. /\ pc = "out_proj" /\ EncodedFor("out", G.rep_out) /\ Leave(out)
        /\ \/ layer < Len(Layered) /\ layer' = layer + 1 /\ pc' = "residual"
           \/ ~(layer < Len(Layered)) /\ layer' = layer /\ pc' = "final"
        /\ UNCHANGED <<active, fifo, state, has_state>>
    BY DEF OutProj
  <1>2. InLayer /\ pc # "residual"
    BY <1>1 DEF InLayer
  <1>3. InPhase /\ Running
    BY <1>2, LayerEntered
  <1>4. Good(out.log)
    BY <1>1, <1>3, OutProjGood
  <1> HIDE DEF out
  <1>5. reg' = [NoRegisters EXCEPT !.hidden = Fresh(out)] /\ events' = out.log
    BY <1>1 DEF Leave, Logged
  <1>6. Good(events')
    BY <1>4, <1>5 DEF Good
  <1>7. RegInv'
    <2>1. Fresh(out).log = {}
      BY DEF Fresh, Ct, Made
    <2> QED BY <1>5, <2>1, EntryKeeps
  <1>8. PhaseInv'
    <2>1. Layered' = Layered
      BY HostConstant DEF invocation
    <2>2. /\ has_state \subseteq DOMAIN Layered /\ layer \in DOMAIN Layered /\ active = layer
          /\ DOMAIN Layered = 1 .. Len(Layered) /\ Len(Layered) \in Nat
      BY <1>3, LayersOfPayload DEF Inv, PhaseInv, InPhase
    <2>3. CASE layer < Len(Layered) /\ layer' = layer + 1 /\ pc' = "residual"
      <3>1. layer + 1 \in DOMAIN Layered
        BY <2>2, <2>3
      <3> QED BY <1>1, <2>1, <2>2, <2>3, <3>1 DEF PhaseInv
    <2>4. CASE ~(layer < Len(Layered)) /\ layer' = layer /\ pc' = "final"
      <3>1. layer = Len(Layered)
        BY <2>2, <2>4
      <3> QED BY <1>1, <2>1, <2>2, <2>4, <3>1 DEF PhaseInv, InLayer
    <2> QED BY <1>1, <2>3, <2>4
  <1> QED BY <1>1, <1>3, <1>6, <1>7, <1>8, StepKeeps

LEMMA EndStreamStep ==
  ASSUME Inv, EndStream, UNCHANGED invocation, disk' = disk
  PROVE  Inv'
  <1>1. /\ pc = "scan" /\ \E ct : Set("y", ct)
        /\ \/ stream + 1 < C.streams /\ stream' = stream + 1 /\ pc' = "expand" /\ has_state' = has_state
           \/ /\ stream' = 0 /\ pc' = "skip_gate" /\ has_state' = has_state \cup {layer}
        /\ UNCHANGED <<layer, group, active, fifo, state>>
    BY DEF EndStream, Compute
  <1>2. InLayer /\ pc # "residual"
    BY <1>1 DEF InLayer
  <1>3. InPhase /\ Running
    BY <1>2, LayerEntered
  <1>4. stream \in 0 .. (C.streams - 1)
    BY <1>1 DEF Inv, PhaseInv
  <1>5. Good(events')
    BY <1>3, <1>4, EndStreamGood
  <1>6. RegInv'
    BY <1>1, <1>3, SetKeeps, FieldsAre DEF InPhase
  <1>7. PhaseInv'
    <2>1. Layered' = Layered /\ C' = C /\ G' = G
      BY HostConstant DEF invocation
    <2>2. has_state \subseteq DOMAIN Layered /\ layer \in DOMAIN Layered /\ active = layer
      BY <1>3 DEF Inv, PhaseInv, InPhase
    <2>3. CASE stream + 1 < C.streams /\ stream' = stream + 1 /\ pc' = "expand" /\ has_state' = has_state
      <3>1. stream' \in 0 .. (C.streams - 1)
        <4>1. C.streams \in Nat
          BY <1>3, Geometry DEF InPhase
        <4> QED BY <1>4, <2>3, <4>1
      <3> QED BY <1>1, <2>1, <2>2, <2>3, <3>1 DEF PhaseInv
    <2>4. CASE stream' = 0 /\ pc' = "skip_gate" /\ has_state' = has_state \cup {layer}
      BY <1>1, <2>1, <2>2, <2>4 DEF PhaseInv
    <2> QED BY <1>1, <2>3, <2>4
  <1> QED BY <1>1, <1>3, <1>5, <1>6, <1>7, StepKeeps

(* Advancing the states of a layer keeps their number. *)
LEMMA StatesAdvance ==
  ASSUME NEW cts, Silent(cts), NEW moved, moved = [slot \in DOMAIN cts |-> moved[slot]],
         \A slot \in DOMAIN cts : moved[slot].log = {}
  PROVE  Silent(moved) /\ Len(moved) = Len(cts)
  <1>1. Len(cts) \in Nat /\ DOMAIN cts = 1 .. Len(cts)
    BY SilentGood
  <1>2. DOMAIN moved = 1 .. Len(cts) /\ moved = [slot \in DOMAIN moved |-> moved[slot]]
    BY <1>1
  <1>3. IsSequence(moved) /\ Len(moved) = Len(cts)
    BY <1>1, <1>2, Tabulated
  <1>4. \A i \in DOMAIN moved : moved[i].log = {}
    BY <1>1, <1>2
  <1> QED BY <1>3, <1>4 DEF Silent

LEMMA ScanStep ==
  ASSUME Inv, Scan, UNCHANGED invocation, disk' = disk
  PROVE  Inv'
  <1> DEFINE batch == GroupBatch
             Index(slot) == slot - StateSlot(group)
             moved(leaving) == [slot \in DOMAIN state[layer] |->
                IF Index(slot) \in DOMAIN batch THEN Fresh(leaving[Index(slot)]) ELSE state[layer][slot]]
  <1>1. /\ pc = "scan" /\ group < G.group_count
        /\ UNCHANGED <<pc, layer, stream, active, fifo, has_state>>
    BY DEF Scan
  <1>2. InLayer /\ pc # "residual"
    BY <1>1 DEF InLayer
  <1>3. InPhase /\ Running /\ CarriedInv
    BY <1>2, LayerEntered
  <1>4. stream \in 0 .. (C.streams - 1) /\ group \in 0 .. G.group_count
    BY <1>1 DEF Inv, PhaseInv
  <1>5. Good(events')
    BY <1>3, <1>4, ScanLogGood
  <1>6. \E leaving, y : AdvanceStates(batch, Entering(batch), leaving, y)
    BY Zenon DEF Scan
  <1>7. PICK leaving, y : AdvanceStates(batch, Entering(batch), leaving, y)
    BY <1>6
  <1>8. RegInv'
    <2>1. Set("y_stream", y)
      BY <1>7 DEF AdvanceStates
    <2> QED BY <1>3, <2>1, SetKeeps, FieldsAre DEF InPhase
  <1>9. PhaseInv'
    <2>1. Layered' = Layered /\ C' = C /\ G' = G
      BY HostConstant DEF invocation
    <2>2. group' = group + Len(batch)
      BY <1>7 DEF AdvanceStates
    <2>3. group' \in 0 .. G.group_count
      BY <1>1, <1>3, <1>4, <2>2, BatchHolds
    <2>4. has_state \subseteq DOMAIN Layered /\ layer \in DOMAIN Layered /\ active = layer
      BY <1>3 DEF Inv, PhaseInv, InPhase
    <2> QED BY <1>1, <1>4, <2>1, <2>3, <2>4 DEF PhaseInv
  <1>10. CarriedInv'
    <2>1. Layered' = Layered /\ Slotted' = Slotted
      BY HostConstant DEF invocation
    <2>2. DOMAIN state = DOMAIN Layered /\ layer \in DOMAIN Layered /\ Silent(state[layer])
      BY <1>3 DEF CarriedInv, InPhase
    <2>3. state' = [state EXCEPT ![layer] = moved(leaving)]
      BY <1>7, Zenon DEF AdvanceStates
    <2>4. Silent(moved(leaving)) /\ Len(moved(leaving)) = Len(state[layer])
      <3>1. \A slot \in DOMAIN state[layer] : moved(leaving)[slot].log = {}
        <4> HIDE DEF Index
        <4> QED BY <2>2 DEF Silent, Fresh, Ct, Made
      <3>2. moved(leaving) = [slot \in DOMAIN state[layer] |-> moved(leaving)[slot]]
        <4> HIDE DEF Index
        <4> QED OBVIOUS
      <3> HIDE DEF moved
      <3> QED BY <2>2, <3>1, <3>2, StatesAdvance
    <2> HIDE DEF moved
    <2>5. \A k \in DOMAIN Layered : state'[k] = IF k = layer THEN moved(leaving) ELSE state[k]
      BY <2>2, <2>3
    <2>6. state' = [k \in DOMAIN Layered |-> state'[k]]
      BY <2>2, <2>3
    <2>7. \A k \in DOMAIN Layered : Silent(state'[k]) /\ Len(state'[k]) = Slotted
      BY <1>3, <2>4, <2>5 DEF CarriedInv
    <2>8. fifo' = fifo
      BY <1>1
    <2> QED BY <1>3, <2>1, <2>6, <2>7, <2>8 DEF CarriedInv, Silent
  <1> QED
    <2>1. pc' = pc
      BY <1>1
    <2> QED BY <1>3, <1>5, <1>8, <1>9, <1>10, CarryStep

LEMMA LayerStepKeeps ==
  ASSUME Inv, AheadInv, LayerStep, UNCHANGED invocation, disk' = disk
  PROVE  Inv'
  BY ResidualStep, BlockNormStep, InProjStep, ConvFifoStep, GateStep, TimeStepStep, DecayStep,
     ExpandStep, ScanStep, EndStreamStep, SkipGateStep, GatedNormStep, OutProjStep DEF LayerStep

(* The token loop *)

LEMMA OutsideLayers ==
  ASSUME Inv, host' = host, has_state' = has_state,
         pc' \in {"reencrypt", "refresh", "encrypt_input", "publish", "outputs", "compare"}
  PROVE  PhaseInv'
  <1>1. Layered' = Layered /\ has_state \subseteq DOMAIN Layered
    BY HostConstant DEF Inv, PhaseInv
  <1> QED BY <1>1 DEF PhaseInv, InLayer

(* A step none of the invariant's variables sees. *)
LEMMA Unmoved ==
  ASSUME Inv, UNCHANGED <<run, host, pc, layer, stream, group, active, reg, fifo, state,
                          has_state, events, disk>>
  PROVE  Inv'
  <1>1. HostInv'
    BY DEF Inv, HostInv
  <1>2. /\ C' = C /\ G' = G /\ Layered' = Layered /\ Slotted' = Slotted
    BY HostConstant
  <1>3. PhaseInv'
    BY <1>2 DEF Inv, PhaseInv, InLayer
  <1>4. RegInv'
    BY DEF Inv, RegInv
  <1>5. CarriedInv'
    BY <1>2 DEF Inv, CarriedInv, Silent, Running
  <1>6. DiskInv'
    BY DEF Inv, DiskInv
  <1>7. EventsInv'
    <2>1. Good(events')
      BY DEF Inv, EventsInv, Good
    <2> QED BY <2>1, EventsKept
  <1> QED BY <1>1, <1>3, <1>4, <1>5, <1>6, <1>7 DEF Inv

LEMMA EncodeStep ==
  ASSUME Inv, Encode, UNCHANGED invocation, disk' = disk
  PROVE  Inv'
  <1>1. UNCHANGED <<pc, layer, stream, group, active, reg, fifo, state, has_state, events>>
    <2>1. ASSUME NEW name \in Products, BeginEncode(name)
          PROVE  UNCHANGED <<pc, layer, stream, group, active, reg, fifo, state, has_state, events>>
      BY <2>1, Zenon DEF BeginEncode
    <2>2. CASE Take
      BY <2>2, Zenon DEF Take
    <2>3. CASE Prefetch
      BY <2>3, Zenon DEF Prefetch
    <2>4. CASE Join
      BY <2>4, Zenon DEF Join
    <2>5. ASSUME NEW w \in DOMAIN ahead.job, EncodeJob(w)
          PROVE  UNCHANGED <<pc, layer, stream, group, active, reg, fifo, state, has_state, events>>
      BY <2>5, Zenon DEF EncodeJob
    <2> QED BY <2>1, <2>2, <2>3, <2>4, <2>5, Zenon DEF Encode
  <1> QED BY <1>1, Unmoved DEF invocation

LEMMA EncryptedSilent ==
  ASSUME NEW cts, Silent(cts)
  PROVE  /\ Silent(<<>> \o [i \in DOMAIN cts |-> Encrypted(cts[i].v)])
         /\ Len(<<>> \o [i \in DOMAIN cts |-> Encrypted(cts[i].v)]) = Len(cts)
  <1> DEFINE f == [i \in DOMAIN cts |-> Encrypted(cts[i].v)]
  <1>1. Len(cts) \in Nat /\ DOMAIN cts = 1 .. Len(cts)
    BY SilentGood
  <1>2. IsSequence(f) /\ <<>> \o f = f /\ Len(f) = Len(cts)
    BY <1>1, Tabulated
  <1>3. \A i \in DOMAIN f : f[i].log = {}
    BY DEF Encrypted, Ct, Made
  <1> QED BY <1>2, <1>3 DEF Silent

LEMMA ReencryptStep ==
  ASSUME Inv, Reencrypt, UNCHANGED invocation, disk' = disk
  PROVE  Inv'
  <1>1. /\ pc = "reencrypt" /\ pc' = "refresh"
        /\ UNCHANGED <<layer, stream, group, active, reg, has_state, events>>
    BY DEF Reencrypt
  <1>2. PhaseInv' /\ Running
    BY <1>1, OutsideLayers DEF Running, invocation
  <1>3. RegInv'
    BY <1>1 DEF Inv, RegInv
  <1>4. Good(events')
    BY <1>1 DEF Inv, EventsInv, Good
  <1>5. Layered' = Layered /\ Slotted' = Slotted
    BY HostConstant DEF invocation
  <1>6. CarriedInv'
    <2>1. CASE UNCHANGED <<state, fifo>>
      BY <1>2, <1>5, <2>1 DEF Inv, CarriedInv, Silent
    <2> DEFINE Again(cts) == <<>> \o [i \in DOMAIN cts |-> Encrypted(cts[i].v)]
    <2>2. CASE /\ state' = [k \in DOMAIN state |->
                    IF k \in has_state THEN Again(state[k]) ELSE state[k]]
               /\ fifo' = [k \in DOMAIN fifo |->
                    IF k \in has_state THEN Again(fifo[k]) ELSE fifo[k]]
      <3>1. DOMAIN state = DOMAIN Layered /\ DOMAIN fifo = DOMAIN Layered
        BY DEF Inv, CarriedInv
      <3>2. \A cts : Silent(cts) => Silent(Again(cts)) /\ Len(Again(cts)) = Len(cts)
        BY EncryptedSilent
      <3> HIDE DEF Again
      <3>3. state' = [k \in DOMAIN Layered |-> state'[k]] /\ fifo' = [k \in DOMAIN Layered |-> fifo'[k]]
        BY <2>2, <3>1
      <3>4. \A k \in DOMAIN Layered : Silent(state'[k]) /\ Len(state'[k]) = Slotted /\ Silent(fifo'[k])
        BY <1>2, <2>2, <3>1, <3>2 DEF Inv, CarriedInv
      <3> QED BY <1>5, <3>3, <3>4 DEF CarriedInv, Silent
    <2> QED BY <2>1, <2>2, Zenon DEF Reencrypt
  <1> QED BY <1>2, <1>3, <1>4, <1>6, CarryStep

LEMMA ScheduledRefreshStep ==
  ASSUME Inv, ScheduledRefresh, UNCHANGED invocation, disk' = disk
  PROVE  Inv'
  <1>1. /\ pc = "refresh" /\ pc' = "encrypt_input"
        /\ UNCHANGED <<layer, stream, group, reg, has_state>>
    BY DEF ScheduledRefresh
  <1>2. PhaseInv' /\ Running
    BY <1>1, OutsideLayers DEF Running, invocation
  <1>3. RegInv'
    BY <1>1 DEF Inv, RegInv
  <1>4. Layered' = Layered /\ Slotted' = Slotted
    BY HostConstant DEF invocation
  <1>5. Ready /\ CarriedInv /\ has_state \subseteq DOMAIN Layered
    BY <1>1, ReadyWhenRunning DEF Inv, PhaseInv
  <1> DEFINE states == [k \in has_state |-> RefreshedStates(k)]
             fifos == [k \in has_state |-> RefreshedFifo(k, C.depth)]
  <1>6. CASE events' = {} /\ UNCHANGED <<state, fifo>>
    <2>1. Good(events')
      BY <1>6 DEF Good
    <2> QED BY <1>2, <1>3, <1>6, <2>1, StepKeeps
  <1>7. CASE /\ state' = [k \in DOMAIN state |->
                  IF k \in has_state THEN AllFresh(states[k]) ELSE state[k]]
             /\ fifo' = [k \in DOMAIN fifo |->
                  IF k \in has_state THEN AllFresh(fifos[k]) ELSE fifo[k]]
             /\ events' = UNION {Logs(states[k]) \cup Logs(fifos[k]) : k \in has_state}
    <2>1. ASSUME NEW k \in has_state
          PROVE  /\ Good(Logs(states[k])) /\ Good(Logs(fifos[k]))
                 /\ Silent(AllFresh(states[k])) /\ Len(AllFresh(states[k])) = Len(state[k])
                 /\ Silent(AllFresh(fifos[k]))
      <3>1. k \in DOMAIN Layered /\ states[k] = RefreshedStates(k)
            /\ fifos[k] = RefreshedFifo(k, C.depth)
        BY <1>5
      <3>2. Good(Logs(RefreshedStates(k))) /\ Silent(AllFresh(RefreshedStates(k)))
            /\ Len(AllFresh(RefreshedStates(k))) = Len(state[k])
        BY <1>5, <3>1, RefreshedStatesGood, LogsGood, FreshSilent
      <3>3. Good(Logs(RefreshedFifo(k, C.depth))) /\ Silent(AllFresh(RefreshedFifo(k, C.depth)))
        BY <1>5, <3>1, RefreshedFifoGood, LogsGood, FreshSilent
      <3> QED BY <3>1, <3>2, <3>3
    <2> HIDE DEF states, fifos
    <2>2. Good(events')
      BY <1>7, <2>1 DEF Good
    <2>3. DOMAIN state = DOMAIN Layered /\ DOMAIN fifo = DOMAIN Layered
      BY <1>5 DEF CarriedInv
    <2>4. state' = [k \in DOMAIN Layered |-> state'[k]] /\ fifo' = [k \in DOMAIN Layered |-> fifo'[k]]
      BY <1>7, <2>3
    <2>5. \A k \in DOMAIN Layered : Silent(state'[k]) /\ Len(state'[k]) = Slotted /\ Silent(fifo'[k])
      BY <1>2, <1>5, <1>7, <2>1, <2>3 DEF CarriedInv
    <2>6. CarriedInv'
      BY <1>4, <2>4, <2>5 DEF CarriedInv, Silent
    <2> QED BY <1>2, <1>3, <2>2, <2>6, CarryStep
  <1> QED BY <1>6, <1>7, Zenon DEF ScheduledRefresh

LEMMA EnterLayersStep ==
  ASSUME Inv, NEW hidden, EnterLayers(hidden), hidden.log = {}, UNCHANGED invocation, disk' = disk
  PROVE  Inv'
  <1>1. /\ pc = "encrypt_input" /\ reg' = [NoRegisters EXCEPT !.hidden = hidden]
        /\ layer' = 1 /\ pc' = "residual"
        /\ UNCHANGED <<active, fifo, state, has_state, events>>
    BY DEF EnterLayers
  <1>2. Ready /\ Running
    BY <1>1, ReadyWhenRunning DEF Inv, Running
  <1>3. RegInv'
    BY <1>1, EntryKeeps
  <1>4. PhaseInv'
    <2>1. 1 \in DOMAIN Layered
      BY <1>2, LayersOfPayload
    <2>2. Layered' = Layered
      BY HostConstant DEF invocation
    <2> QED BY <1>1, <2>1, <2>2 DEF Inv, PhaseInv
  <1>5. Good(events')
    BY <1>1 DEF Inv, EventsInv, Good
  <1> QED BY <1>1, <1>2, <1>3, <1>4, <1>5, StepKeeps

LEMMA InputStep ==
  ASSUME Inv, EncryptInput \/ LoadInput, UNCHANGED invocation, disk' = disk
  PROVE  Inv'
  <1>1. CASE EncryptInput
    <2>1. Encrypted(InputSlots(InputVector)).log = {}
      BY DEF Encrypted, Ct, Made
    <2>2. EnterLayers(Encrypted(InputSlots(InputVector)))
      BY <1>1 DEF EncryptInput
    <2> QED BY <2>1, <2>2, EnterLayersStep
  <1>2. CASE LoadInput
    <2>1. InputFile(token) \in DOMAIN disk /\ EnterLayers(disk[InputFile(token)].ct)
      BY <1>2 DEF LoadInput, Present
    <2>2. InputFile(token)[2] = "input"
      BY DEF InputFile
    <2>3. disk[InputFile(token)].ct.log = {}
      BY <2>1, <2>2 DEF Inv, DiskInv
    <2> QED BY <2>1, <2>3, EnterLayersStep
  <1> QED BY <1>1, <1>2

LEMMA FinalizeStep ==
  ASSUME Inv, Finalize, UNCHANGED invocation, disk' = disk
  PROVE  Inv'
  <1>1. /\ pc = "final" /\ events' = Output.log /\ reg' = NoRegisters
        /\ pc' \in {"reencrypt", "publish", "compare"}
        /\ UNCHANGED <<active, fifo, state, has_state>>
    BY Zenon DEF Finalize, Deliver
  <1>2. InHead /\ Running
    BY <1>1, ReadyWhenRunning DEF Inv, PhaseInv, InHead, Running
  <1>3. Good(events')
    <2>1. Good(Output.log)
      BY <1>2, OutputGood
    <2> QED BY <1>1, <2>1 DEF Good
  <1>4. RegInv'
    <2>1. Cleared(NoRegisters)
      BY DEF Cleared, NoRegisters, NoCt, Ct, Made
    <2> QED BY <1>1, <2>1 DEF RegInv, Cleared
  <1>5. PhaseInv'
    BY <1>1, OutsideLayers DEF invocation
  <1> QED BY <1>1, <1>2, <1>3, <1>4, <1>5, StepKeeps

LEMMA CompareStep ==
  ASSUME Inv, Compare, UNCHANGED invocation, disk' = disk
  PROVE  Inv'
  <1>1. /\ pc = "compare" /\ pc' = "done"
        /\ UNCHANGED <<reg, fifo, state, has_state, events>>
    BY DEF Compare, circuit
  <1>2. HostInv' /\ DiskInv'
    BY <1>1 DEF Inv, HostInv, DiskInv, invocation
  <1>3. Layered' = Layered /\ Slotted' = Slotted
    BY HostConstant DEF invocation
  <1>4. PhaseInv'
    BY <1>1, <1>3 DEF Inv, PhaseInv, InLayer
  <1>5. RegInv'
    BY <1>1 DEF Inv, RegInv
  <1>6. CarriedInv'
    BY <1>1, <1>3 DEF Inv, CarriedInv, Silent, Running
  <1>7. EventsInv'
    <2>1. Good(events')
      BY <1>1 DEF Inv, EventsInv, Good
    <2> QED BY <2>1, EventsKept DEF invocation
  <1> QED BY <1>2, <1>4, <1>5, <1>6, <1>7 DEF Inv

LEMMA EvaluateStep ==
  ASSUME Inv, AheadInv, Evaluate, UNCHANGED process
  PROVE  Inv'
  <1>1. UNCHANGED invocation /\ disk' = disk
    BY DEF Evaluate, process
  <1>2. Reencrypt \/ ScheduledRefresh \/ EncryptInput \/ LoadInput
          \/ LayerStep \/ Encode \/ Finalize \/ Compare
    BY DEF Evaluate
  <1> QED BY <1>1, <1>2, ReencryptStep, ScheduledRefreshStep, InputStep, LayerStepKeeps,
             EncodeStep, FinalizeStep, CompareStep

(* Processes that start, write and end *)

LEMMA FileReplaced ==
  ASSUME DiskInv, NEW file, NEW whole, NEW ct, file[2] = "input" => ct.log = {},
         disk' = Replaced(file, whole, ct)
  PROVE  DiskInv'
  <1>1. \A f \in DOMAIN disk' :
          \/ f = file /\ disk'[f] = [whole |-> whole, ct |-> ct]
          \/ f \in DOMAIN disk /\ disk'[f] = disk[f]
    BY DEF Replaced
  <1> QED BY <1>1 DEF DiskInv

LEMMA WrittenKeeps ==
  ASSUME DiskInv, NEW file, NEW ct, file[2] = "input" => ct.log = {}, disk' = Written(file, ct)
  PROVE  DiskInv'
  BY FileReplaced DEF Written

LEMMA NothingSilent == Silent(<<>>) /\ Len(<<>>) = 0
  BY DEF Silent, IsSequence

LEMMA NoCtSilent == NoCt.log = {}
  BY DEF NoCt, Ct, Made

(* Whatever ends, its ciphertexts are gone. *)
LEMMA VanishKeeps ==
  ASSUME Inv, NEW after \in {"idle", "done"}, Vanish(after), DiskInv'
  PROVE  Inv'
  <1>1. /\ pc' = after /\ reg' = NoRegisters /\ has_state' = {} /\ events' = {}
        /\ fifo' = [k \in DOMAIN Layered |-> <<>>] /\ state' = [k \in DOMAIN Layered |-> <<>>]
        /\ host' = host /\ run' = run
    BY DEF Vanish, NoStates, invocation
  <1>2. HostInv'
    BY <1>1 DEF Inv, HostInv
  <1>3. Layered' = Layered
    BY <1>1, HostConstant
  <1>4. PhaseInv'
    BY <1>1, <1>3 DEF PhaseInv, InLayer
  <1>5. RegInv'
    <2>1. Cleared(NoRegisters)
      BY DEF Cleared, NoRegisters, NoCt, Ct, Made
    <2> QED BY <1>1, <2>1 DEF RegInv, Cleared
  <1>6. CarriedInv'
    BY <1>1, <1>3, NothingSilent DEF CarriedInv, Silent, Running
  <1>7. EventsInv'
    BY <1>1 DEF EventsInv
  <1> QED BY <1>2, <1>4, <1>5, <1>6, <1>7 DEF Inv

LEMMA ConcludeStep ==
  ASSUME Inv, NEW outcome, Conclude(outcome)
  PROVE  Inv'
  <1>1. Vanish("done") /\ disk' = disk
    BY DEF Conclude
  <1>2. DiskInv'
    BY <1>1 DEF Inv, DiskInv
  <1> QED BY <1>1, <1>2, VanishKeeps

LEMMA StartStep ==
  ASSUME Inv, pc = "start", host.accepted, Start, UNCHANGED <<invocation, process>>
  PROVE  Inv'
  <1>1. /\ pc' = "reencrypt"
        /\ state' = [k \in DOMAIN Layered |-> <<>> \o [i \in 1 .. Slotted |-> NoCt]]
        /\ UNCHANGED <<run, host, disk, reg, fifo, has_state, events>>
    BY DEF Start, invocation, process
  <1>2. Ready
    BY DEF Inv, HostInv, Ready
  <1>3. Layered' = Layered /\ Slotted' = Slotted
    BY <1>1, HostConstant
  <1>4. HostInv' /\ DiskInv' /\ RegInv'
    BY <1>1 DEF Inv, HostInv, DiskInv, RegInv
  <1>5. PhaseInv'
    BY <1>1, OutsideLayers
  <1>6. EventsInv'
    <2>1. Good(events')
      BY <1>1 DEF Inv, EventsInv, Good
    <2> QED BY <1>1, <2>1, EventsKept
  <1>7. CarriedInv'
    <2> DEFINE fresh == [i \in 1 .. Slotted |-> NoCt]
    <2>1. Slotted \in Nat
      BY <1>2, Geometry DEF Slotted
    <2>2. Silent(<<>> \o fresh) /\ Len(<<>> \o fresh) = Slotted
      <3>1. IsSequence(fresh) /\ <<>> \o fresh = fresh /\ Len(fresh) = Slotted
        BY <2>1, Tabulated
      <3>2. \A i \in DOMAIN fresh : fresh[i].log = {}
        BY DEF NoCt, Ct, Made
      <3> QED BY <3>1, <3>2 DEF Silent
    <2> HIDE DEF fresh
    <2>3. /\ state' = [k \in DOMAIN Layered |-> state'[k]]
          /\ \A k \in DOMAIN Layered : state'[k] = <<>> \o fresh
      BY <1>1 DEF fresh
    <2>4. fifo' = fifo /\ CarriedInv
      BY <1>1 DEF Inv
    <2>5. \A k \in DOMAIN Layered : Silent(state'[k]) /\ Len(state'[k]) = Slotted
      BY <2>2, <2>3
    <2> QED BY <1>3, <2>3, <2>4, <2>5 DEF CarriedInv, Silent
  <1> QED BY <1>4, <1>5, <1>6, <1>7 DEF Inv

(* A process that goes on, its circuit untouched. *)
LEMMA ProcessMoves ==
  ASSUME Inv, UNCHANGED invocation, UNCHANGED circuit, DiskInv',
         \/ pc' \in {pc, "start"}
         \/ pc' \in {"write", "outputs"} /\ host.accepted
  PROVE  Inv'
  <1>1. UNCHANGED <<run, host, layer, stream, group, active, reg, fifo, state, has_state, events>>
    BY DEF invocation, circuit
  <1>2. /\ C' = C /\ G' = G /\ Layered' = Layered /\ Slotted' = Slotted
    BY <1>1, HostConstant
  <1>3. HostInv'
    BY <1>1 DEF Inv, HostInv
  <1>4. PhaseInv'
    BY <1>1, <1>2 DEF Inv, PhaseInv, InLayer
  <1>5. RegInv'
    BY <1>1 DEF Inv, RegInv
  <1>6. CarriedInv'
    BY <1>1, <1>2 DEF Inv, CarriedInv, Silent, Running
  <1>7. EventsInv'
    <2>1. Good(events')
      BY <1>1 DEF Inv, EventsInv, Good
    <2> QED BY <1>1, <2>1, EventsKept
  <1> QED BY <1>3, <1>4, <1>5, <1>6, <1>7 DEF Inv

LEMMA ProgressStep ==
  ASSUME Inv, AheadInv, Progress
  PROVE  Inv'
  <1>1. CASE Reject
    BY <1>1, ConcludeStep DEF Reject
  <1>2. CASE InlineStart
    BY <1>2, StartStep DEF InlineStart, Begins
  <1>3. CASE Prepare
    <2>1. CASE Conclude("error")
      BY <2>1, ConcludeStep
    <2>2. CASE /\ host.accepted /\ disk' = Written(Root, NoCt) /\ pc' = "write"
               /\ UNCHANGED <<invocation, circuit>>
      <3>1. DiskInv'
        BY <2>2, WrittenKeeps, NoCtSilent DEF Inv
      <3> QED BY <2>2, <3>1, ProcessMoves
    <2> QED BY <1>3, <2>1, <2>2 DEF Prepare
  <1>4. CASE WriteInit
    <2> DEFINE file == InitFiles[cursor + 1]
    <2>1. /\ pc = "write" /\ disk' = Written(file, InitContent(file))
          /\ Vanish("idle") \/ UNCHANGED <<invocation, pc, circuit>>
      BY <1>4, Zenon DEF WriteInit, Exit
    <2> HIDE DEF file
    <2>2. DiskInv'
      <3>1. InitContent(file).log = {}
        BY DEF InitContent, Encrypted, NoCt, Ct, Made
      <3> QED BY <2>1, <3>1, WrittenKeeps DEF Inv
    <2>3. CASE Vanish("idle")
      BY <2>2, <2>3, VanishKeeps
    <2>4. CASE UNCHANGED <<invocation, pc, circuit>>
      BY <2>2, <2>4, ProcessMoves
    <2> QED BY <2>1, <2>3, <2>4
  <1>5. CASE ServerStart
    <2>1. CASE Conclude("error")
      BY <2>1, ConcludeStep
    <2>2. CASE Start /\ UNCHANGED <<invocation, process>>
      BY <1>5, <2>2, StartStep DEF ServerStart, Begins
    <2> QED BY <1>5, <2>1, <2>2 DEF ServerStart
  <1>6. CASE MissingInput
    BY <1>6, ConcludeStep DEF MissingInput
  <1>7. CASE Publish
    <2>1. CASE Conclude("error")
      BY <2>1, ConcludeStep
    <2>2. CASE pc' = "outputs" /\ UNCHANGED <<invocation, circuit, process>>
      <3>1. host.accepted /\ DiskInv'
        BY <1>7, <2>2 DEF Publish, Inv, HostInv, DiskInv, process
      <3> QED BY <2>2, <3>1, ProcessMoves
    <2> QED BY <1>7, <2>1, <2>2 DEF Publish
  <1>8. CASE WriteOutput
    <2>1. /\ disk' = Written(OutputFile(cursor), outs[cursor + 1])
          /\ Vanish("idle") \/ UNCHANGED <<invocation, pc, circuit>>
      BY <1>8, Zenon DEF WriteOutput, Exit
    <2>2. DiskInv'
      BY <2>1, WrittenKeeps DEF Inv, OutputFile
    <2>3. CASE Vanish("idle")
      BY <2>2, <2>3, VanishKeeps
    <2>4. CASE UNCHANGED <<invocation, pc, circuit>>
      BY <2>2, <2>4, ProcessMoves
    <2> QED BY <2>1, <2>3, <2>4
  <1>9. CASE Decrypt
    BY <1>9, ConcludeStep, Zenon DEF Decrypt
  <1>10. ASSUME NEW i \in DOMAIN Phases, Launch(i)
         PROVE  Inv'
    <2>1. pc' = "start" /\ UNCHANGED <<invocation, circuit, disk>>
      BY <1>10 DEF Launch
    <2>2. DiskInv'
      BY <2>1 DEF Inv, DiskInv
    <2> QED BY <2>1, <2>2, ProcessMoves
  <1>11. CASE Evaluate /\ UNCHANGED process
    BY <1>11, EvaluateStep
  <1>12. CASE EmptyProduct
    BY <1>12, ConcludeStep DEF EmptyProduct
  <1> QED BY <1>1, <1>2, <1>3, <1>4, <1>5, <1>6, <1>7, <1>8, <1>9, <1>10, <1>11, <1>12
         DEF Progress

LEMMA FaultStep ==
  ASSUME Inv, EncodingFails \/ Crash \/ Misplace
  PROVE  Inv'
  <1>1. CASE EncodingFails
    BY <1>1, ConcludeStep DEF EncodingFails
  <1>2. CASE Crash
    <2>1. /\ Vanish("idle")
          /\ disk' = disk \/ disk' = Replaced(AtWork[1], FALSE, NoCt)
      BY <1>2 DEF Crash
    <2>2. NoCt.log = {}
      BY NoCtSilent
    <2>3. DiskInv'
      <3>1. CASE disk' = disk
        BY <3>1 DEF Inv, DiskInv
      <3>2. CASE disk' = Replaced(AtWork[1], FALSE, NoCt)
        BY <2>2, <3>2, FileReplaced DEF Inv
      <3> QED BY <2>1, <3>1, <3>2
    <2> QED BY <2>1, <2>3, VanishKeeps
  <1>3. CASE Misplace
    <2>1. disk' = Written(MisplacedSecret, NoCt) /\ UNCHANGED <<invocation, pc, circuit>>
      BY <1>3 DEF Misplace
    <2>2. DiskInv'
      BY <2>1, WrittenKeeps, NoCtSilent DEF Inv
    <2>3. UNCHANGED invocation /\ UNCHANGED circuit /\ pc' = pc
      BY <2>1
    <2> QED BY <2>2, <2>3, ProcessMoves
  <1> QED BY <1>1, <1>2, <1>3

LEMMA InitInv == Init => Inv
  <1> SUFFICES ASSUME Init PROVE Inv
    OBVIOUS
  <1>1. /\ run \in DOMAIN Configs /\ host = Host(run) /\ pc \in {"idle", "start"}
        /\ reg = NoRegisters /\ has_state = {} /\ events = {} /\ disk = <<>>
        /\ fifo = [k \in DOMAIN Layered |-> <<>>] /\ state = [k \in DOMAIN Layered |-> <<>>]
    BY DEF Init, NoStates
  <1>2. HostInv
    BY <1>1 DEF HostInv
  <1>3. PhaseInv
    BY <1>1 DEF PhaseInv, InLayer
  <1>4. RegInv
    <2>1. Cleared(NoRegisters)
      BY DEF Cleared, NoRegisters, NoCt, Ct, Made
    <2> QED BY <1>1, <2>1 DEF RegInv, Cleared
  <1>5. CarriedInv
    BY <1>1, NothingSilent DEF CarriedInv, Running
  <1>6. DiskInv /\ EventsInv
    BY <1>1 DEF DiskInv, EventsInv
  <1> QED BY <1>2, <1>3, <1>4, <1>5, <1>6 DEF Inv

LEMMA NextInv == Inv /\ AheadInv /\ [Next]_vars => Inv'
  <1> SUFFICES ASSUME Inv, AheadInv, [Next]_vars PROVE Inv'
    OBVIOUS
  <1>1. CASE Next
    <2>1. CASE Done
      <3>1. UNCHANGED <<run, host, pc, layer, stream, group, active, reg, fifo, state,
                        has_state, events, disk>>
        BY <2>1 DEF Done, vars, invocation, circuit, process
      <3> QED BY <3>1, Unmoved
    <2> QED BY <1>1, <2>1, ProgressStep, FaultStep DEF Next
  <1>2. CASE UNCHANGED vars
    <2>1. UNCHANGED <<run, host, pc, layer, stream, group, active, reg, fifo, state,
                      has_state, events, disk>>
      BY <1>2 DEF vars, invocation, circuit, process
    <2> QED BY <2>1, Unmoved
  <1> QED BY <1>1, <1>2

-----------------------------------------------------------------------------
(* The theorems *)

(* In every reachable state what an invocation derives is fixed, the bounds  *)
(* that are active are the ones of the layer run_layer works on, a ciphertext *)
(* kept between two steps has no log of its own, and the steps log nothing   *)
(* but rotations that are covered and counted, refreshes at their own bound, *)
(* and plaintexts that are in time or come from the table of a product.      *)
(* What a product has taken ahead is its serial loop's, and every position   *)
(* it still waits for is owed by a worker (run_layer, prefetch_from).       *)
THEOREM InvHolds == Spec => []Inv /\ []AheadInv
  <1>1. Inv /\ AheadInv /\ [Next]_vars => Inv' /\ AheadInv'
    BY NextInv, NextAhead DEF Inv
  <1> QED BY <1>1, InitInv, InitAhead, PTL DEF Spec

LEMMA InvCovers == Inv => KeysCover
  <1> SUFFICES ASSUME Inv, NEW amount \in Rotations(events) PROVE Covered(amount)
    BY DEF KeysCover
  <1>1. PICK e \in events : e[1] = "rot" /\ amount = e[2]
    BY DEF Rotations
  <1> QED BY <1>1 DEF Inv, EventsInv, GoodEvent

(* No rotation of the circuit throws "missing rotation key": its index has a *)
(* key, or the steps of its signed-digit form have one each and add up to it *)
(* (rotate and rotation_key_plan).                                         *)
THEOREM KeysCoverHolds == Spec => []KeysCover
  BY InvHolds, InvCovers, PTL

LEMMA InvBounds == Inv => BoundOfOwner
  <1> SUFFICES ASSUME Inv, NEW b \in Boots PROVE Owned(b)
    BY DEF BoundOfOwner
  <1>1. PICK e \in events : e[1] = "boot" /\ b = e[2]
    BY DEF Boots
  <1> QED BY <1>1 DEF Inv, EventsInv, GoodEvent

(* A refresh divides by a bound on what it refreshes: the calibrated maximum *)
(* of the ciphertext's own layer and of its own group of heads, whichever    *)
(* layer ran before (bootstrap_bound_for).                                 *)
THEOREM BoundOfOwnerHolds == Spec => []BoundOfOwner
  BY InvHolds, InvBounds, PTL

-----------------------------------------------------------------------------
(* The rotations of a layer are the logged ones, summed over its steps *)

Turned == rots' \subseteq rots \cup Rotations(events')

LEMMA ComputedTurns ==
  ASSUME NEW f, NEW ct, Compute(f, ct)
  PROVE  Turned
  BY DEF Compute, Logged, Turned

LEMMA LayerTurns ==
  ASSUME LayerStep
  PROVE  Turned
  <1>1. CASE Residual
    BY <1>1 DEF Residual, Enter, Turned
  <1>2. CASE BlockNorm
    BY <1>2, ComputedTurns, Zenon DEF BlockNorm
  <1>3. CASE InProj
    BY <1>3, ComputedTurns, Zenon DEF InProj
  <1>4. CASE ConvFifo
    <2>1. PICK window, fresh, conv : Convolve(window, fresh, conv)
      BY <1>4, Zenon DEF ConvFifo
    <2> QED BY <2>1 DEF Convolve, Logged, Turned
  <1>5. CASE Gate
    BY <1>5, ComputedTurns, Zenon DEF Gate
  <1>6. CASE TimeStep
    <2>1. \E dissipation, dt : Discretize(dissipation, dt)
      BY <1>6, Zenon DEF TimeStep
    <2> QED BY <2>1 DEF Discretize, Logged, Turned
  <1>7. CASE Decay
    <2>1. (\E ct : Compute("decay", ct)) \/ UNCHANGED rots
      BY <1>7, Zenon DEF Decay
    <2> QED BY <2>1, ComputedTurns DEF Turned
  <1>8. CASE Expand
    <2>1. \E log : Logged(log)
      BY <1>8, Zenon DEF Expand
    <2> QED BY <2>1 DEF Logged, Turned
  <1>9. CASE Scan
    <2>1. \E batch, entering, leaving, y : AdvanceStates(batch, entering, leaving, y)
      BY <1>9, Zenon DEF Scan
    <2> QED BY <2>1 DEF AdvanceStates, Logged, Turned
  <1>10. CASE EndStream
    BY <1>10, ComputedTurns, Zenon DEF EndStream
  <1>11. CASE SkipGate
    BY <1>11, ComputedTurns, Zenon DEF SkipGate
  <1>12. CASE GatedNorm
    <2>1. \E inv, y : Normalize(inv, y)
      BY <1>12, Zenon DEF GatedNorm
    <2> QED BY <2>1 DEF Normalize, Logged, Turned
  <1>13. CASE OutProj
    <2>1. \E hidden : Leave(hidden)
      BY <1>13, Zenon DEF OutProj
    <2> QED BY <2>1 DEF Leave, Logged, Turned
  <1> QED BY <1>1, <1>2, <1>3, <1>4, <1>5, <1>6, <1>7, <1>8, <1>9, <1>10, <1>11, <1>12,
             <1>13 DEF LayerStep

LEMMA EvaluateTurns ==
  ASSUME Evaluate
  PROVE  Turned /\ UNCHANGED invocation
  <1>1. UNCHANGED invocation
    BY DEF Evaluate
  <1>2. CASE LayerStep
    BY <1>1, <1>2, LayerTurns
  <1>3. CASE Encode
    BY <1>1, <1>3, Zenon DEF Encode, BeginEncode, Take, Prefetch, Join, EncodeJob, Turned
  <1>4. CASE EncryptInput \/ LoadInput
    BY <1>1, <1>4 DEF EncryptInput, LoadInput, EnterLayers, Turned
  <1>5. CASE Reencrypt \/ ScheduledRefresh \/ Finalize
    <2>1. UNCHANGED rots
      BY <1>5, Zenon DEF Reencrypt, ScheduledRefresh, Finalize
    <2> QED BY <1>1, <2>1 DEF Turned
  <1>6. CASE Compare
    BY <1>1, <1>6 DEF Compare, circuit, Turned
  <1> QED BY <1>2, <1>3, <1>4, <1>5, <1>6 DEF Evaluate

(* A process that ends forgets what it rotated; nothing else but a phase of *)
(* a layer adds to it.                                                     *)
LEMMA StepTurns ==
  ASSUME [Next]_vars
  PROVE  Turned /\ UNCHANGED invocation
  <1>1. ASSUME NEW after, Vanish(after)
        PROVE  Turned /\ UNCHANGED invocation
    BY <1>1 DEF Vanish, Turned
  <1>2. ASSUME NEW outcome, Conclude(outcome)
        PROVE  Turned /\ UNCHANGED invocation
    BY <1>1, <1>2 DEF Conclude
  <1>3. ASSUME UNCHANGED invocation, UNCHANGED circuit
        PROVE  Turned /\ UNCHANGED invocation
    BY <1>3 DEF circuit, Turned
  <1>4. CASE Reject \/ MissingInput \/ Decrypt \/ EmptyProduct \/ EncodingFails
    BY <1>2, <1>4, Zenon DEF Reject, MissingInput, Decrypt, EmptyProduct, EncodingFails
  <1>5. ASSUME Start, UNCHANGED invocation
        PROVE  Turned /\ UNCHANGED invocation
    BY <1>5 DEF Start, Turned
  <1>6. CASE InlineStart \/ ServerStart
    BY <1>2, <1>5, <1>6, Zenon DEF InlineStart, ServerStart
  <1>7. CASE Prepare \/ Publish
    <2>1. Conclude("error") \/ (UNCHANGED invocation /\ UNCHANGED circuit)
      BY <1>7 DEF Prepare, Publish
    <2> QED BY <1>2, <1>3, <2>1
  <1>8. CASE WriteInit \/ WriteOutput
    <2>1. Vanish("idle") \/ (UNCHANGED invocation /\ UNCHANGED circuit)
      BY <1>8, Zenon DEF WriteInit, WriteOutput, Exit
    <2> QED BY <1>1, <1>3, <2>1
  <1>9. CASE Crash
    BY <1>1, <1>9 DEF Crash
  <1>10. CASE Misplace \/ Done \/ UNCHANGED vars \/ \E i \in DOMAIN Phases : Launch(i)
    <2>1. UNCHANGED invocation /\ UNCHANGED circuit
      BY <1>10 DEF Misplace, Done, vars, Launch
    <2> QED BY <1>3, <2>1
  <1>11. CASE Evaluate
    BY <1>11, EvaluateTurns
  <1> QED BY <1>4, <1>6, <1>7, <1>8, <1>9, <1>10, <1>11 DEF Next, Progress

LEMMA NextCounted ==
  ASSUME Inv, AheadInv, RotationsCounted, [Next]_vars
  PROVE  RotationsCounted'
  <1>1. Turned /\ host' = host
    BY StepTurns DEF invocation
  <1>2. Counted' = Counted
    BY <1>1, HostConstant DEF Counted
  <1>3. Rotations(events') \subseteq Counted
    <2>1. EventsInv'
      BY NextInv DEF Inv
    <2>2. \A e \in events' : e[1] = "rot" => e[2] \in Counted
      BY <1>2, <2>1 DEF EventsInv, GoodEvent
    <2> QED BY <2>2 DEF Rotations
  <1> QED BY <1>1, <1>2, <1>3 DEF RotationsCounted, Turned

(* Every rotation a layer makes, in any state and for any configuration that *)
(* is accepted, is one the frequencies count with a positive number: when     *)
(* memory is short, no key the circuit uses is ranked with the unused ones   *)
(* (rotation_frequencies and the balanced key plan).                       *)
THEOREM RotationsCountedHolds == Spec => []RotationsCounted
  <1>1. Init => RotationsCounted
    BY DEF Init, RotationsCounted
  <1>2. Inv /\ AheadInv /\ RotationsCounted /\ [Next]_vars => RotationsCounted'
    BY NextCounted
  <1> QED BY <1>1, <1>2, InvHolds, PTL DEF Spec

-----------------------------------------------------------------------------
(* Plaintexts *)

(* Whatever the number of threads and the order in which they finish their   *)
(* jobs, a product encoded ahead multiplies by the plaintexts its serial     *)
(* loop would build, at the same levels and in the same order               *)
(* (prefetch_from and the position loop of the product).                   *)
THEOREM AheadIsSerialHolds == Spec => []AheadIsSerial
  BY InvHolds, AheadSerial, PTL

LEMMA InvTables ==
  Inv => \A e \in events : e[1] = "pt" => InTime(e) \/ TableUse(e)
  BY DEF Inv, EventsInv, GoodEvent

(* Only the table of a product without replicas can be encoded deeper than    *)
(* the ciphertext it meets: whatever goes through cached_plain is encoded in  *)
(* full, at the ciphertext's level, or above it.                            *)
THEOREM OnlyTablesSpend ==
  Spec => [](\A e \in events : e[1] = "pt" => InTime(e) \/ TableUse(e))
  BY InvHolds, InvTables, PTL

LEMMA FullInTime ==
  ASSUME Inv, TablesFull
  PROVE  CacheSpendsNoDepth
  <1> SUFFICES ASSUME NEW e \in events, e[1] = "pt", TableUse(e) PROVE InTime(e)
    BY InvTables DEF CacheSpendsNoDepth
  <1>1. e[3] = 0
    BY DEF TableUse, TablesFull
  <1> QED BY <1>1 DEF InTime

(* A product multiplies by the plaintexts of its serial loop, and when the    *)
(* tables of products without replicas are encoded in full, as the option    *)
(* that gives their level asks of its caller, none spends a level by where   *)
(* it was kept (cached_plain, prefetch_from, --pt-cache-level).            *)
THEOREM PlaintextsExactHolds == Spec /\ []TablesFull => []PlaintextsExact
  <1>1. Inv /\ AheadInv /\ TablesFull => PlaintextsExact
    BY FullInTime, AheadSerial DEF PlaintextsExact
  <1> QED BY <1>1, InvHolds, PTL

-----------------------------------------------------------------------------
(* The outcome: what the client finds in the directory of a handoff is what  *)
(* some server computed, whole, whatever died in between.                  *)

Finished == pc \in {"publish", "outputs", "compare"}

(* Only a handoff has other processes than the inline one, and each counts   *)
(* the files it wrote.                                                     *)
ProcInv ==
  /\ pc \in {"idle", "write", "publish", "outputs"} \/ proc \in Range(Phases) => Separated(C)
  /\ pc = "compare" => ~Separated(C)
  /\ pc = "write" => cursor \in 0 .. (Len(InitFiles) - 1)
  /\ pc = "outputs" => cursor \in 0 .. (C.tokens - 1)
  /\ pc \notin {"write", "outputs"} => cursor = 0

(* An output per token done, and of a handoff none that a client consumed. *)
TokenInv ==
  /\ IsSequence(outs) /\ IsSequence(decrypted) /\ Len(decrypted) = Len(outs)
  /\ pc \in {"idle", "start", "write"} => token = 0 /\ outs = <<>>
  /\ Running => Len(outs) = token /\ token < C.tokens
  /\ Finished => Len(outs) = C.tokens
  /\ Separated(C) => \A t \in DOMAIN decrypted : decrypted[t] = <<>>

(* A whole output file holds the output of its own token. *)
OutputInv ==
  \A t \in 1 .. C.tokens :
    Present(OutputFile(t - 1)) =>
      (Decrypted(disk[OutputFile(t - 1)].ct) = Reference[t] <=> t \notin LoadedPayload.wrong)

VerdictInv == (pc # "done" => verdict = "none") /\ VerdictExact

Settled == ProcInv /\ TokenInv /\ OutputInv /\ VerdictInv

LEMMA SettledConstants ==
  ASSUME UNCHANGED invocation
  PROVE  /\ C' = C /\ G' = G /\ Layered' = Layered /\ LoadedPayload' = LoadedPayload
         /\ Reference' = Reference /\ InitFiles' = InitFiles
  <1>1. /\ C' = C /\ G' = G /\ Layered' = Layered /\ LoadedPayload' = LoadedPayload
        /\ WholeChain' = WholeChain
    BY HostConstant DEF invocation
  <1> QED BY <1>1 DEF Reference, InitFiles

LEMMA AppendIs ==
  ASSUME NEW s, IsSequence(s), NEW x
  PROVE  /\ IsSequence(Append(s, x)) /\ Len(Append(s, x)) = Len(s) + 1
         /\ \A i \in DOMAIN Append(s, x) :
              Append(s, x)[i] = IF i = Len(s) + 1 THEN x ELSE s[i]
         /\ DOMAIN Append(s, x) = 1 .. (Len(s) + 1)
         /\ \A i \in DOMAIN Append(s, x) : i # Len(s) + 1 => i \in DOMAIN s
  <1> DEFINE V == Range(s) \cup {x}
             n == Len(s)
             r == Append(s, x)
  <1>1. n \in Nat /\ DOMAIN s = 1 .. n /\ s = [i \in DOMAIN s |-> s[i]]
    BY SequenceDomain
  <1>2. s \in Seq(V)
    <2>1. \A i \in 1 .. n : s[i] \in V
      BY <1>1 DEF Range
    <2>2. s \in [1 .. n -> V]
      BY <1>1, <2>1
    <2> QED BY <1>1, <2>2, SeqDef
  <1>3. x \in V
    OBVIOUS
  <1> HIDE DEF V
  <1>4. /\ r \in Seq(V) /\ Len(r) = n + 1
        /\ \A i \in 1 .. n : r[i] = s[i]
        /\ r[n + 1] = x
    BY <1>2, <1>3, AppendProperties
  <1>5. DOMAIN r = 1 .. (n + 1) /\ r = [i \in DOMAIN r |-> r[i]]
    BY <1>4, LenProperties
  <1> HIDE DEF r, n
  <1>6. IsSequence(r)
    BY <1>1, <1>5, Tabulated
  <1>7. \A i \in DOMAIN r : i # n + 1 => i \in 1 .. n
    BY <1>1, <1>5
  <1> QED BY <1>1, <1>4, <1>5, <1>6, <1>7 DEF r, n

LEMMA OutputsKept ==
  ASSUME OutputInv, UNCHANGED invocation, disk' = disk
  PROVE  OutputInv'
  BY SettledConstants DEF OutputInv, Present, Decrypted

(* Another file, or a torn one, is no output. *)
LEMMA OtherFile ==
  ASSUME OutputInv, UNCHANGED invocation, NEW file, NEW whole \in BOOLEAN, NEW ct,
         disk' = Replaced(file, whole, ct), whole => file[2] # "output"
  PROVE  OutputInv'
  <1> SUFFICES ASSUME NEW t \in 1 .. C.tokens, Present(OutputFile(t - 1))'
               PROVE  Decrypted(disk'[OutputFile(t - 1)].ct) = Reference[t]
                        <=> t \notin LoadedPayload.wrong
    BY SettledConstants DEF OutputInv, Decrypted
  <1> DEFINE out == OutputFile(t - 1)
  <1>1. out[2] = "output"
    BY DEF OutputFile
  <1>2. out \in DOMAIN disk' /\ disk'[out].whole
    BY DEF Present, OutputFile
  <1> HIDE DEF out
  <1>3. out # file
    BY <1>1, <1>2 DEF Replaced
  <1>4. out \in DOMAIN disk /\ disk'[out] = disk[out]
    BY <1>2, <1>3 DEF Replaced
  <1>5. Present(out)
    BY <1>2, <1>4 DEF Present
  <1> QED BY <1>4, <1>5 DEF OutputInv, out

LEMMA InitFilesAre ==
  ASSUME C.tokens \in Nat
  PROVE  /\ Len(InitFiles) = 6 + C.tokens
         /\ \A i \in 1 .. Len(InitFiles) : InitFiles[i][2] # "output"
  <1> DEFINE inputs == [t \in 1 .. C.tokens |-> InputFile(t - 1)]
             first == <<ClientContext, ServerFiles[1], ServerFiles[2], ClientSecret,
                        ServerFiles[3], ServerFiles[4]>>
             F == {ClientContext, ServerFiles[1], ServerFiles[2], ClientSecret,
                   ServerFiles[3], ServerFiles[4]} \cup {inputs[t] : t \in 1 .. C.tokens}
  <1>1. first \in Seq(F) /\ Len(first) = 6
    OBVIOUS
  <1>2. inputs \in Seq(F) /\ Len(inputs) = C.tokens
    <2>1. \A t \in 1 .. C.tokens : inputs[t] \in F
      OBVIOUS
    <2>2. DOMAIN inputs = 1 .. C.tokens /\ inputs = [t \in DOMAIN inputs |-> inputs[t]]
      OBVIOUS
    <2> HIDE DEF F, inputs
    <2>3. inputs \in [1 .. C.tokens -> F]
      BY <2>1, <2>2
    <2>4. Len(inputs) = C.tokens
      BY <2>2, Tabulated
    <2> QED BY <2>3, <2>4, SeqDef
  <1>3. InitFiles = first \o inputs
    <2>1. first \o <<>> = first
      BY <1>1, ConcatEmptySeq
    <2> QED BY <2>1 DEF InitFiles
  <1>4. \A file \in F : file[2] # "output"
    <2>1. \A t \in 1 .. C.tokens : inputs[t][2] = "input"
      BY DEF InputFile
    <2>2. ServerFiles[1][2] # "output" /\ ServerFiles[2][2] # "output"
          /\ ServerFiles[3][2] # "output" /\ ServerFiles[4][2] # "output"
      BY DEF ServerFiles, ServerContext
    <2>3. ClientContext[2] # "output" /\ ClientSecret[2] # "output"
      BY DEF ClientContext, ClientSecret
    <2> HIDE DEF inputs
    <2> QED BY <2>1, <2>2, <2>3
  <1> HIDE DEF F, first, inputs
  <1>5. first \o inputs \in Seq(F) /\ Len(first \o inputs) = Len(first) + Len(inputs)
    BY <1>1, <1>2, ConcatProperties
  <1>6. \A i \in 1 .. Len(InitFiles) : InitFiles[i] \in F
    BY <1>3, <1>5, ElementOfSeq
  <1> QED BY <1>1, <1>2, <1>3, <1>4, <1>5, <1>6

(* A step of the circuit that finishes no token. *)
Stays ==
  /\ UNCHANGED <<token, outs, decrypted, verdict>>
  /\ pc' = pc \/ (Running /\ Running')

LEMMA LayerStays ==
  ASSUME LayerStep
  PROVE  Stays
  <1>1. CASE Residual
    <2>1. pc = "residual" /\ pc' = "block_norm" /\ UNCHANGED <<token, outs, decrypted, verdict>>
      BY <1>1, Zenon DEF Residual
    <2> QED BY <2>1 DEF Stays, Running
  <1>2. CASE BlockNorm
    <2>1. pc = "block_norm" /\ pc' = "in_proj" /\ UNCHANGED <<token, outs, decrypted, verdict>>
      BY <1>2, Zenon DEF BlockNorm
    <2> QED BY <2>1 DEF Stays, Running
  <1>3. CASE InProj
    <2>1. pc = "in_proj" /\ pc' = "conv" /\ UNCHANGED <<token, outs, decrypted, verdict>>
      BY <1>3, Zenon DEF InProj
    <2> QED BY <2>1 DEF Stays, Running
  <1>4. CASE ConvFifo
    <2>1. pc = "conv" /\ pc' = "gate" /\ UNCHANGED <<token, outs, decrypted, verdict>>
      BY <1>4, Zenon DEF ConvFifo
    <2> QED BY <2>1 DEF Stays, Running
  <1>5. CASE Gate
    <2>1. pc = "gate" /\ pc' = "dt" /\ UNCHANGED <<token, outs, decrypted, verdict>>
      BY <1>5, Zenon DEF Gate
    <2> QED BY <2>1 DEF Stays, Running
  <1>6. CASE TimeStep
    <2>1. pc = "dt" /\ pc' = "decay" /\ UNCHANGED <<token, outs, decrypted, verdict>>
      BY <1>6, Zenon DEF TimeStep
    <2> QED BY <2>1 DEF Stays, Running
  <1>7. CASE Decay
    <2>1. pc = "decay" /\ pc' = "expand" /\ UNCHANGED <<token, outs, decrypted, verdict>>
      BY <1>7, Zenon DEF Decay
    <2> QED BY <2>1 DEF Stays, Running
  <1>8. CASE Expand
    <2>1. pc = "expand" /\ pc' = "scan" /\ UNCHANGED <<token, outs, decrypted, verdict>>
      BY <1>8, Zenon DEF Expand
    <2> QED BY <2>1 DEF Stays, Running
  <1>9. CASE Scan
    <2>1. UNCHANGED <<pc, token, outs, decrypted, verdict>>
      BY <1>9, Zenon DEF Scan
    <2> QED BY <2>1 DEF Stays
  <1>10. CASE EndStream
    <2>1. pc = "scan" /\ pc' \in {"expand", "skip_gate"} /\ UNCHANGED <<token, outs, decrypted, verdict>>
      BY <1>10 DEF EndStream
    <2> QED BY <2>1 DEF Stays, Running
  <1>11. CASE SkipGate
    <2>1. pc = "skip_gate" /\ pc' = "gated_norm" /\ UNCHANGED <<token, outs, decrypted, verdict>>
      BY <1>11, Zenon DEF SkipGate
    <2> QED BY <2>1 DEF Stays, Running
  <1>12. CASE GatedNorm
    <2>1. pc = "gated_norm" /\ pc' = "out_proj" /\ UNCHANGED <<token, outs, decrypted, verdict>>
      BY <1>12, Zenon DEF GatedNorm
    <2> QED BY <2>1 DEF Stays, Running
  <1>13. CASE OutProj
    <2>1. pc = "out_proj" /\ pc' \in {"residual", "final"} /\ UNCHANGED <<token, outs, decrypted, verdict>>
      BY <1>13 DEF OutProj
    <2> QED BY <2>1 DEF Stays, Running
  <1> QED BY <1>1, <1>2, <1>3, <1>4, <1>5, <1>6, <1>7, <1>8, <1>9, <1>10, <1>11, <1>12, <1>13
         DEF LayerStep

LEMMA EncodeStays ==
  ASSUME Encode
  PROVE  Stays
  <1>1. UNCHANGED <<pc, token, outs, decrypted, verdict>>
    BY Zenon DEF Encode, BeginEncode, Take, Prefetch, Join, EncodeJob
  <1> QED BY <1>1 DEF Stays

LEMMA BetweenStays ==
  ASSUME Reencrypt \/ ScheduledRefresh \/ EncryptInput \/ LoadInput
  PROVE  Stays
  <1>1. CASE Reencrypt
    <2>1. pc = "reencrypt" /\ pc' = "refresh" /\ UNCHANGED <<token, outs, decrypted, verdict>>
      BY <1>1, Zenon DEF Reencrypt
    <2> QED BY <2>1 DEF Stays, Running
  <1>2. CASE ScheduledRefresh
    <2>1. pc = "refresh" /\ pc' = "encrypt_input" /\ UNCHANGED <<token, outs, decrypted, verdict>>
      BY <1>2, Zenon DEF ScheduledRefresh
    <2> QED BY <2>1 DEF Stays, Running
  <1>3. CASE EncryptInput \/ LoadInput
    <2>1. pc = "encrypt_input" /\ pc' = "residual" /\ UNCHANGED <<token, outs, decrypted, verdict>>
      BY <1>3, Zenon DEF EncryptInput, LoadInput, EnterLayers
    <2> QED BY <2>1 DEF Stays, Running
  <1> QED BY <1>1, <1>2, <1>3

(* What is settled does not change before the verdict is given, nor after it. *)
LEMMA VerdictKept ==
  ASSUME VerdictInv, UNCHANGED <<invocation, verdict>>, pc = "done" => pc' = "done",
         verdict \in {"passed", "failed"} => disk' = disk
  PROVE  VerdictInv'
  <1>1. C' = C /\ LoadedPayload' = LoadedPayload
    BY SettledConstants
  <1>2. ASSUME verdict \in {"passed", "failed"}
        PROVE  OutputsWhole' = OutputsWhole /\ SecretFiles' = SecretFiles
    BY <1>1, <1>2 DEF OutputsWhole, Present, SecretFiles
  <1>3. VerdictExact'
    BY <1>1, <1>2 DEF VerdictInv, VerdictExact
  <1> QED BY <1>3 DEF VerdictInv

LEMMA StaysSettled ==
  ASSUME Settled, Stays, UNCHANGED <<invocation, process>>
  PROVE  Settled'
  <1>1. /\ C' = C /\ InitFiles' = InitFiles /\ UNCHANGED <<proc, cursor, disk>>
        /\ UNCHANGED <<token, outs, decrypted, verdict>>
    BY SettledConstants DEF process, Stays
  <1>2. pc' = pc \/ (Running /\ Running')
    BY DEF Stays
  <1>3. ProcInv'
    BY <1>1, <1>2 DEF Settled, ProcInv, Running
  <1>4. TokenInv'
    BY <1>1, <1>2 DEF Settled, TokenInv, Running, Finished
  <1>5. OutputInv'
    BY <1>1, OutputsKept DEF Settled
  <1>6. VerdictInv'
    BY <1>1, <1>2, VerdictKept DEF Settled, Running
  <1> QED BY <1>3, <1>4, <1>5, <1>6 DEF Settled

LEMMA StartSettled ==
  ASSUME Settled, Ready, pc = "start", Start, UNCHANGED <<invocation, process>>
  PROVE  Settled'
  <1>1. /\ C' = C /\ InitFiles' = InitFiles /\ UNCHANGED <<proc, cursor, disk>>
        /\ pc' = "reencrypt" /\ UNCHANGED <<token, outs, decrypted, verdict>>
    BY SettledConstants DEF process, Start
  <1>2. C.tokens > 0
    BY HostHolds DEF Ready, Accepted, AcceptedOptions
  <1>3. ProcInv'
    BY <1>1 DEF Settled, ProcInv
  <1>4. TokenInv'
    <2>1. token = 0 /\ outs = <<>>
      BY DEF Settled, TokenInv, Running, Finished
    <2> QED BY <1>1, <1>2, <2>1 DEF Settled, TokenInv, Running, Finished
  <1>5. OutputInv'
    BY <1>1, OutputsKept DEF Settled
  <1>6. VerdictInv'
    BY <1>1, VerdictKept DEF Settled
  <1> QED BY <1>3, <1>4, <1>5, <1>6 DEF Settled

(* What ends forgets its tokens; the verdict and the files are its caller's. *)
LEMMA VanishSettled ==
  ASSUME Settled, NEW after \in {"idle", "done"}, Vanish(after), OutputInv', VerdictInv',
         after = "idle" => Separated(C)
  PROVE  Settled'
  <1>1. /\ C' = C /\ pc' = after /\ proc' = "none" /\ cursor' = 0
        /\ token' = 0 /\ outs' = <<>> /\ decrypted' = <<>>
    BY SettledConstants DEF Vanish
  <1>2. ProcInv'
    BY <1>1 DEF ProcInv, Phases, Range
  <1>3. TokenInv'
    BY <1>1 DEF TokenInv, IsSequence, Running, Finished
  <1> QED BY <1>2, <1>3 DEF Settled

LEMMA ConcludeSettled ==
  ASSUME Settled, NEW outcome, Conclude(outcome),
         outcome \in {"passed", "failed"} =>
           (outcome = "passed" <=>
              /\ LoadedPayload.wrong \cap 1 .. C.tokens = {}
              /\ Separated(C) => OutputsWhole /\ SecretFiles = {})
  PROVE  Settled'
  <1>1. /\ Vanish("done") /\ disk' = disk /\ verdict' = outcome /\ pc' = "done"
        /\ UNCHANGED invocation
    BY DEF Conclude, Vanish
  <1>2. OutputInv'
    BY <1>1, OutputsKept DEF Settled
  <1>3. VerdictInv'
    <2>1. C' = C /\ LoadedPayload' = LoadedPayload
      BY <1>1, SettledConstants
    <2>2. OutputsWhole' = OutputsWhole /\ SecretFiles' = SecretFiles
      BY <1>1, <2>1 DEF OutputsWhole, Present, SecretFiles
    <2> QED BY <1>1, <2>1, <2>2 DEF VerdictInv, VerdictExact
  <1> QED BY <1>1, <1>2, <1>3, VanishSettled

LEMMA FinalizeSettled ==
  ASSUME Settled, Ready, Finalize, UNCHANGED <<invocation, process>>
  PROVE  Settled'
  <1> DEFINE output == Output
             hidden == Decrypted(Output)
  <1>1. /\ pc = "final" /\ Deliver(output, hidden) /\ token' = token + 1 /\ verdict' = verdict
        /\ pc' = IF token + 1 < C.tokens THEN "reencrypt"
                 ELSE IF Separated(C) THEN "publish" ELSE "compare"
    BY Zenon DEF Finalize
  <1> HIDE DEF output, hidden
  <1>2. /\ C' = C /\ InitFiles' = InitFiles /\ UNCHANGED <<proc, cursor, disk>>
    BY SettledConstants DEF process
  <1>3. C.tokens \in Nat
    BY HostHolds, ConfigsAssumption DEF Ready
  <1>4. /\ IsSequence(outs) /\ IsSequence(decrypted) /\ Len(outs) = token /\ token \in Nat
        /\ Len(decrypted) = Len(outs) /\ token < C.tokens
    <2>1. Running
      BY <1>1 DEF Running
    <2> QED BY <2>1, SequenceDomain DEF Settled, TokenInv
  <1>5. ProcInv'
    BY <1>1, <1>2 DEF Settled, ProcInv
  <1>6. \E x, y : outs' = Append(outs, x) /\ decrypted' = Append(decrypted, y)
                  /\ (Separated(C) => y = <<>>)
    <2>1. Separated(C) => ~C.loop
      BY HostHolds DEF Ready, Accepted, AcceptedOptions
    <2>2. CASE ClientConsumes
      BY <1>1, <2>1, <2>2 DEF Deliver, ClientConsumes
    <2>3. CASE ~ClientConsumes
      BY <1>1, <2>3 DEF Deliver
    <2> QED BY <2>2, <2>3
  <1>7. PICK x, y : outs' = Append(outs, x) /\ decrypted' = Append(decrypted, y)
                    /\ (Separated(C) => y = <<>>)
    BY <1>6
  <1>8. /\ IsSequence(outs') /\ Len(outs') = token + 1
        /\ IsSequence(decrypted') /\ Len(decrypted') = token + 1
    BY <1>4, <1>7, AppendIs
  <1>9. Separated(C) => \A t \in DOMAIN decrypted' : decrypted'[t] = <<>>
    <2>1. Separated(C) => \A t \in DOMAIN decrypted : decrypted[t] = <<>>
      BY DEF Settled, TokenInv
    <2> QED BY <1>4, <1>7, <2>1, AppendIs
  <1>10. TokenInv'
    BY <1>1, <1>2, <1>3, <1>4, <1>8, <1>9 DEF TokenInv, Running, Finished
  <1>11. OutputInv'
    BY <1>2, OutputsKept DEF Settled
  <1>12. VerdictInv'
    BY <1>1, <1>2, VerdictKept DEF Settled
  <1> QED BY <1>5, <1>10, <1>11, <1>12 DEF Settled

(* Every stream of a token is judged alike, so the first decides. *)
LEMMA TokenJudged ==
  ASSUME Ready, OutputsExported, NEW t \in DOMAIN outs
  PROVE  TokenRight(t) <=> t \notin LoadedPayload.wrong
  <1>1. 0 \in 0 .. (C.streams - 1)
    BY Geometry
  <1> QED BY <1>1 DEF OutputsExported, TokenRight

LEMMA CompareSettled ==
  ASSUME Settled, Ready, OutputsExported, Compare, UNCHANGED <<invocation, process>>
  PROVE  Settled'
  <1>1. /\ pc = "compare" /\ pc' = "done" /\ UNCHANGED <<token, outs, decrypted>>
        /\ verdict' = IF IdsRight /\ \A t \in 1 .. C.tokens : TokenRight(t)
                      THEN "passed" ELSE "failed"
    BY DEF Compare, circuit
  <1>2. /\ C' = C /\ LoadedPayload' = LoadedPayload /\ InitFiles' = InitFiles
        /\ UNCHANGED <<proc, cursor, disk>>
    BY SettledConstants DEF process
  <1>3. ~Separated(C)
    BY <1>1 DEF Settled, ProcInv
  <1>4. DOMAIN outs = 1 .. C.tokens
    BY <1>1, SequenceDomain DEF Settled, TokenInv, Finished
  <1>5. verdict' = IF LoadedPayload.wrong \cap 1 .. C.tokens = {} THEN "passed" ELSE "failed"
    <2>1. IdsRight
      BY <1>1 DEF OutputsExported
    <2>2. \A t \in 1 .. C.tokens : TokenRight(t) <=> t \notin LoadedPayload.wrong
      BY <1>4, TokenJudged
    <2> QED BY <1>1, <2>1, <2>2
  <1>6. ProcInv'
    BY <1>1, <1>2 DEF Settled, ProcInv
  <1>7. TokenInv'
    BY <1>1, <1>2 DEF Settled, TokenInv, Running, Finished
  <1>8. OutputInv'
    BY <1>2, OutputsKept DEF Settled
  <1>9. VerdictInv'
    BY <1>1, <1>2, <1>3, <1>5 DEF VerdictInv, VerdictExact
  <1> QED BY <1>6, <1>7, <1>8, <1>9 DEF Settled

LEMMA EvaluateSettled ==
  ASSUME Settled, Inv, OutputsExported, Evaluate, UNCHANGED process
  PROVE  Settled'
  <1>1. UNCHANGED invocation
    BY DEF Evaluate
  <1>2. CASE LayerStep \/ Encode \/ Reencrypt \/ ScheduledRefresh \/ EncryptInput \/ LoadInput
    BY <1>1, <1>2, LayerStays, EncodeStays, BetweenStays, StaysSettled
  <1>3. CASE Finalize
    <2>1. Ready
      BY <1>3, ReadyWhenRunning DEF Inv, Finalize
    <2> QED BY <1>1, <1>3, <2>1, FinalizeSettled
  <1>4. CASE Compare
    <2>1. Ready
      BY <1>4, ReadyWhenRunning DEF Inv, Compare
    <2> QED BY <1>1, <1>4, <2>1, CompareSettled
  <1> QED BY <1>2, <1>3, <1>4 DEF Evaluate

(* A process of a handoff that goes on. *)
LEMMA HandoffSettled ==
  ASSUME Settled, UNCHANGED <<invocation, circuit, verdict>>, ProcInv', OutputInv', pc # "done",
         <<pc, pc'>> \in {<<pc, pc>>, <<"idle", "start">>, <<"start", "write">>,
                          <<"publish", "outputs">>}
  PROVE  Settled'
  <1>1. C' = C /\ UNCHANGED <<token, outs, decrypted>>
    BY SettledConstants DEF circuit
  <1>2. /\ pc' # "done"
        /\ \/ pc' = pc \/ (pc = "idle" /\ pc' = "start") \/ (pc = "start" /\ pc' = "write")
           \/ (pc = "publish" /\ pc' = "outputs")
    OBVIOUS
  <1>3. TokenInv'
    BY <1>1, <1>2 DEF Settled, TokenInv, Running, Finished
  <1>4. VerdictInv'
    BY <1>2 DEF Settled, VerdictInv, VerdictExact
  <1> QED BY <1>3, <1>4 DEF Settled

LEMMA WriteInitSettled ==
  ASSUME Settled, Ready, WriteInit
  PROVE  Settled'
  <1> DEFINE file == InitFiles[cursor + 1]
  <1>1. C.tokens \in Nat
    BY HostHolds, ConfigsAssumption DEF Ready
  <1>2. pc = "write" /\ cursor \in 0 .. (Len(InitFiles) - 1) /\ Separated(C)
    BY DEF WriteInit, Settled, ProcInv
  <1>3. file[2] # "output"
    <2>1. cursor + 1 \in 1 .. Len(InitFiles)
      BY <1>1, <1>2, InitFilesAre
    <2> QED BY <1>1, <2>1, InitFilesAre
  <1>4. disk' = Replaced(file, TRUE, InitContent(file)) /\ UNCHANGED invocation
    BY DEF WriteInit, Written, Exit, Vanish
  <1> HIDE DEF file
  <1>5. OutputInv'
    BY <1>3, <1>4, OtherFile DEF Settled
  <1>6. CASE Exit
    <2>1. Vanish("idle") /\ verdict' = verdict /\ pc' = "idle"
      BY <1>6 DEF Exit, Vanish
    <2>2. VerdictInv'
      BY <1>2, <2>1 DEF Settled, VerdictInv, VerdictExact
    <2> QED BY <1>2, <1>5, <2>1, <2>2, VanishSettled
  <1>7. CASE /\ cursor + 1 # Len(InitFiles) /\ cursor' = cursor + 1
             /\ UNCHANGED <<invocation, pc, circuit, verdict, proc>>
    <2>1. C' = C /\ InitFiles' = InitFiles
      BY <1>4, SettledConstants
    <2>2. ProcInv'
      BY <1>1, <1>2, <1>7, <2>1, InitFilesAre DEF Settled, ProcInv
    <2> QED BY <1>2, <1>5, <1>7, <2>2, HandoffSettled
  <1> QED BY <1>6, <1>7 DEF WriteInit

LEMMA WriteOutputSettled ==
  ASSUME Settled, Ready, OutputsExported, WriteOutput
  PROVE  Settled'
  <1> DEFINE file == OutputFile(cursor)
             ct == outs[cursor + 1]
  <1>1. C.tokens \in Nat
    BY HostHolds, ConfigsAssumption DEF Ready
  <1>2. pc = "outputs" /\ cursor \in 0 .. (C.tokens - 1) /\ Separated(C)
    BY DEF WriteOutput, Settled, ProcInv
  <1>3. disk' = Replaced(file, TRUE, ct) /\ UNCHANGED invocation
    BY DEF WriteOutput, Written, Exit, Vanish
  <1>4. cursor + 1 \in DOMAIN outs /\ decrypted[cursor + 1] = <<>>
    <2>1. DOMAIN outs = 1 .. C.tokens /\ DOMAIN decrypted = 1 .. C.tokens
      BY <1>2, SequenceDomain DEF Settled, TokenInv, Finished
    <2> QED BY <1>1, <1>2, <2>1 DEF Settled, TokenInv
  <1>5. Decrypted(ct) = Reference[cursor + 1] <=> cursor + 1 \notin LoadedPayload.wrong
    <2>1. 0 \in 0 .. (C.streams - 1) /\ 0 * G.stride + 1 = 1
          /\ 0 * G.stride + Dims.d_model = Dims.d_model
      BY Geometry, WidthsFit, DimsAssumption
    <2>2. SubSeq(outs[cursor + 1].v, 0 * G.stride + 1, 0 * G.stride + Dims.d_model)
            = Reference[cursor + 1] <=> cursor + 1 \notin LoadedPayload.wrong
      BY <1>4, <2>1 DEF OutputsExported
    <2> QED BY <2>1, <2>2 DEF Decrypted
  <1> HIDE DEF ct
  <1>6. OutputInv'
    <2>1. SUFFICES ASSUME NEW t \in 1 .. C.tokens, Present(OutputFile(t - 1))'
                   PROVE  Decrypted(disk'[OutputFile(t - 1)].ct) = Reference[t]
                            <=> t \notin LoadedPayload.wrong
      BY <1>3, SettledConstants DEF OutputInv, Decrypted
    <2>2. CASE t = cursor + 1
      <3>1. OutputFile(t - 1) = file
        BY <1>1, <1>2, <2>2
      <3>2. disk'[file].ct = ct
        BY <1>3 DEF Replaced
      <3> QED BY <1>5, <2>2, <3>1, <3>2
    <2>3. CASE t # cursor + 1
      <3> DEFINE out == OutputFile(t - 1)
      <3>1. out # file
        BY <1>1, <1>2, <2>3 DEF OutputFile
      <3>2. out \in DOMAIN disk' /\ disk'[out].whole
        BY <2>1 DEF Present, OutputFile
      <3> HIDE DEF out, file
      <3>3. out \in DOMAIN disk /\ disk'[out] = disk[out]
        BY <1>3, <3>1, <3>2 DEF Replaced
      <3>4. Present(out)
        BY <3>2, <3>3 DEF Present
      <3> QED BY <3>3, <3>4 DEF Settled, OutputInv, out
    <2> QED BY <2>2, <2>3
  <1>7. CASE Exit
    <2>1. Vanish("idle") /\ verdict' = verdict /\ pc' = "idle"
      BY <1>7 DEF Exit, Vanish
    <2>2. VerdictInv'
      BY <1>2, <2>1 DEF Settled, VerdictInv, VerdictExact
    <2> QED BY <1>2, <1>6, <2>1, <2>2, VanishSettled
  <1>8. CASE /\ cursor + 1 # C.tokens /\ cursor' = cursor + 1
             /\ UNCHANGED <<invocation, pc, circuit, verdict, proc>>
    <2>1. C' = C /\ InitFiles' = InitFiles
      BY <1>3, SettledConstants
    <2>2. ProcInv'
      BY <1>1, <1>2, <1>8, <2>1 DEF Settled, ProcInv
    <2> QED BY <1>2, <1>6, <1>8, <2>2, HandoffSettled
  <1> QED BY <1>7, <1>8 DEF WriteOutput

LEMMA FailureSettled ==
  ASSUME Settled, NEW outcome \in {"rejected", "error"}, Conclude(outcome)
  PROVE  Settled'
  BY ConcludeSettled

LEMMA StartsSettled ==
  ASSUME Settled, Inv, InlineStart \/ ServerStart
  PROVE  Settled'
  <1>1. CASE Conclude("error")
    BY <1>1, FailureSettled
  <1>2. CASE pc = "start" /\ host.accepted /\ Start /\ UNCHANGED <<invocation, process>>
    BY <1>2, StartSettled DEF Inv, HostInv, Ready
  <1> QED BY <1>1, <1>2, Zenon DEF InlineStart, ServerStart, Begins

LEMMA PrepareSettled ==
  ASSUME Settled, Inv, Prepare
  PROVE  Settled'
  <1>1. pc = "start" /\ proc = "init" /\ Ready
    BY DEF Prepare, Begins, Inv, HostInv, Ready
  <1>2. CASE Conclude("error")
    BY <1>2, FailureSettled
  <1>3. CASE /\ disk' = Written(Root, NoCt) /\ pc' = "write"
             /\ UNCHANGED <<invocation, cached, threads, circuit, verdict, proc, exits, cursor,
                            faults>>
    <2>1. C.tokens \in Nat
      BY <1>1, HostHolds, ConfigsAssumption DEF Ready
    <2>2. Separated(C) /\ cursor = 0
      BY <1>1 DEF Settled, ProcInv, Phases, Range
    <2>3. C' = C /\ InitFiles' = InitFiles
      BY <1>3, SettledConstants
    <2>4. ProcInv'
      BY <1>3, <2>1, <2>2, <2>3, InitFilesAre DEF ProcInv
    <2>5. OutputInv'
      <3>1. Root[2] # "output"
        BY DEF Root
      <3>2. disk' = Replaced(Root, TRUE, NoCt)
        BY <1>3 DEF Written
      <3> QED BY <1>3, <3>1, <3>2, OtherFile DEF Settled
    <2> QED BY <1>1, <1>3, <2>4, <2>5, HandoffSettled
  <1> QED BY <1>2, <1>3, Zenon DEF Prepare

LEMMA LaunchSettled ==
  ASSUME Settled, NEW i \in DOMAIN Phases, Launch(i)
  PROVE  Settled'
  <1>1. /\ pc = "idle" /\ pc' = "start" /\ disk' = disk /\ cursor' = cursor
        /\ UNCHANGED <<invocation, circuit, verdict>>
    BY DEF Launch
  <1>2. Separated(C) /\ cursor = 0
    BY <1>1 DEF Settled, ProcInv
  <1>3. C' = C /\ InitFiles' = InitFiles
    BY <1>1, SettledConstants
  <1>4. ProcInv'
    BY <1>1, <1>2, <1>3 DEF ProcInv
  <1>5. OutputInv'
    BY <1>1, OutputsKept DEF Settled
  <1> QED BY <1>1, <1>4, <1>5, HandoffSettled

LEMMA PublishSettled ==
  ASSUME Settled, Inv, Publish
  PROVE  Settled'
  <1>1. pc = "publish"
    BY DEF Publish
  <1>2. CASE Conclude("error")
    BY <1>2, FailureSettled
  <1>3. CASE pc' = "outputs" /\ UNCHANGED <<invocation, cached, threads, circuit, verdict, process>>
    <2>1. Ready
      BY <1>1, ReadyWhenRunning DEF Inv
    <2>2. C.tokens \in Nat /\ C.tokens > 0
      BY <2>1, HostHolds, ConfigsAssumption DEF Ready, Accepted, AcceptedOptions
    <2>3. Separated(C) /\ cursor = 0
      BY <1>1 DEF Settled, ProcInv
    <2>4. C' = C /\ InitFiles' = InitFiles /\ disk' = disk /\ cursor' = cursor
      BY <1>3, SettledConstants DEF process
    <2>5. ProcInv'
      BY <1>3, <2>2, <2>3, <2>4 DEF ProcInv
    <2>6. OutputInv'
      BY <1>3, <2>4, OutputsKept DEF Settled
    <2> QED BY <1>1, <1>3, <2>5, <2>6, HandoffSettled
  <1> QED BY <1>2, <1>3 DEF Publish

LEMMA DecryptSettled ==
  ASSUME Settled, Inv, Decrypt
  PROVE  Settled'
  <1> DEFINE right == \A t \in 1 .. C.tokens : OutputRight(t)
  <1>1. pc = "start" /\ proc = "decrypt" /\ Ready
    BY DEF Decrypt, Begins, Inv, HostInv, Ready
  <1>2. Separated(C)
    BY <1>1 DEF Settled, ProcInv, Phases, Range
  <1>3. C.tokens \in Nat
    BY <1>1, HostHolds, ConfigsAssumption DEF Ready
  <1>4. right <=> OutputsWhole /\ LoadedPayload.wrong \cap 1 .. C.tokens = {}
    <2>1. OutputsWhole <=> \A t \in 1 .. C.tokens : Present(OutputFile(t - 1))
      <3>1. \A t \in 1 .. C.tokens : t - 1 \in 0 .. (C.tokens - 1)
        BY <1>3
      <3>2. \A t \in 0 .. (C.tokens - 1) : t + 1 \in 1 .. C.tokens /\ (t + 1) - 1 = t
        BY <1>3
      <3> QED BY <3>1, <3>2 DEF OutputsWhole
    <2>2. \A t \in 1 .. C.tokens : Present(OutputFile(t - 1)) =>
            (Decrypted(disk[OutputFile(t - 1)].ct) = Reference[t] <=> t \notin LoadedPayload.wrong)
      BY DEF Settled, OutputInv
    <2>3. \A t \in 1 .. C.tokens :
            OutputRight(t) <=> Present(OutputFile(t - 1)) /\ t \notin LoadedPayload.wrong
      BY <2>2 DEF OutputRight
    <2> QED BY <2>1, <2>3
  <1>5. CASE Conclude("error")
    BY <1>5, FailureSettled
  <1>6. CASE Conclude(IF right /\ SecretFiles = {} THEN "passed" ELSE "failed")
    <2>1. CASE right /\ SecretFiles = {}
      <3>1. Conclude("passed")
        BY <1>6, <2>1
      <3> QED BY <1>2, <1>4, <2>1, <3>1, ConcludeSettled
    <2>2. CASE ~(right /\ SecretFiles = {})
      <3>1. Conclude("failed")
        BY <1>6, <2>2
      <3> QED BY <1>2, <1>4, <2>2, <3>1, ConcludeSettled
    <2> QED BY <2>1, <2>2
  <1> QED BY <1>5, <1>6 DEF Decrypt

LEMMA CrashSettled ==
  ASSUME Settled, Inv, Crash
  PROVE  Settled'
  <1>1. Vanish("idle") /\ pc # "done" /\ verdict' = verdict /\ pc' = "idle"
        /\ UNCHANGED invocation /\ proc \in Range(Phases)
    BY DEF Crash, Vanish
  <1>2. Separated(C)
    BY <1>1 DEF Settled, ProcInv
  <1>3. OutputInv'
    <2>1. CASE UNCHANGED disk
      BY <1>1, <2>1, OutputsKept DEF Settled
    <2>2. CASE disk' = Replaced(AtWork[1], FALSE, NoCt)
      BY <1>1, <2>2, OtherFile DEF Settled
    <2> QED BY <2>1, <2>2 DEF Crash
  <1>4. VerdictInv'
    BY <1>1 DEF Settled, VerdictInv, VerdictExact
  <1> QED BY <1>1, <1>2, <1>3, <1>4, VanishSettled

LEMMA MisplaceSettled ==
  ASSUME Settled, Misplace
  PROVE  Settled'
  <1>1. /\ pc # "done" /\ disk' = Replaced(MisplacedSecret, TRUE, NoCt)
        /\ UNCHANGED <<invocation, pc, circuit, verdict, proc, cursor>>
    BY DEF Misplace, Written
  <1>2. OutputInv'
    <2>1. MisplacedSecret[2] # "output"
      BY DEF MisplacedSecret
    <2> QED BY <1>1, <2>1, OtherFile DEF Settled
  <1>3. C' = C /\ InitFiles' = InitFiles
    BY <1>1, SettledConstants
  <1>4. ProcInv'
    BY <1>1, <1>3 DEF Settled, ProcInv
  <1> QED BY <1>1, <1>2, <1>4, HandoffSettled

LEMMA UnchangedSettled ==
  ASSUME Settled, UNCHANGED vars
  PROVE  Settled'
  <1>1. /\ UNCHANGED <<invocation, pc, token, outs, decrypted, verdict, proc, cursor, disk>>
    BY DEF vars, circuit, process
  <1>2. C' = C /\ InitFiles' = InitFiles
    BY <1>1, SettledConstants
  <1>3. ProcInv'
    BY <1>1, <1>2 DEF Settled, ProcInv
  <1>4. TokenInv'
    BY <1>1, <1>2 DEF Settled, TokenInv, Running, Finished
  <1>5. OutputInv'
    BY <1>1, OutputsKept DEF Settled
  <1>6. VerdictInv'
    BY <1>1, VerdictKept DEF Settled
  <1> QED BY <1>3, <1>4, <1>5, <1>6 DEF Settled

LEMMA InitSettled == Init => Settled
  <1> SUFFICES ASSUME Init PROVE Settled
    OBVIOUS
  <1>1. /\ pc \in {"idle", "start"} /\ token = 0 /\ outs = <<>> /\ decrypted = <<>>
        /\ verdict = "none" /\ cursor = 0 /\ disk = <<>>
        /\ IF Separated(C) THEN pc = "idle" /\ proc = "none" ELSE pc = "start" /\ proc = "inline"
    BY DEF Init
  <1>2. ProcInv
    BY <1>1 DEF ProcInv, Phases, Range
  <1>3. TokenInv
    BY <1>1 DEF TokenInv, IsSequence, Running, Finished
  <1>4. OutputInv
    BY <1>1 DEF OutputInv, Present
  <1>5. VerdictInv
    BY <1>1 DEF VerdictInv, VerdictExact
  <1> QED BY <1>2, <1>3, <1>4, <1>5 DEF Settled

LEMMA NextSettled ==
  ASSUME Settled, Inv, OutputsExported, [Next]_vars
  PROVE  Settled'
  <1>1. CASE Reject \/ MissingInput \/ EmptyProduct \/ EncodingFails
    <2>1. Conclude("rejected") \/ Conclude("error")
      BY <1>1, Zenon DEF Reject, MissingInput, EmptyProduct, EncodingFails
    <2> QED BY <2>1, FailureSettled
  <1>2. CASE InlineStart \/ ServerStart
    BY <1>2, StartsSettled
  <1>3. CASE Prepare
    BY <1>3, PrepareSettled
  <1>4. CASE WriteInit
    <2>1. Ready
      BY <1>4, ReadyWhenRunning DEF Inv, WriteInit
    <2> QED BY <1>4, <2>1, WriteInitSettled
  <1>5. CASE Publish
    BY <1>5, PublishSettled
  <1>6. CASE WriteOutput
    <2>1. Ready
      BY <1>6, ReadyWhenRunning DEF Inv, WriteOutput
    <2> QED BY <1>6, <2>1, WriteOutputSettled
  <1>7. CASE Decrypt
    BY <1>7, DecryptSettled
  <1>8. CASE \E i \in DOMAIN Phases : Launch(i)
    BY <1>8, LaunchSettled
  <1>9. CASE Evaluate /\ UNCHANGED process
    BY <1>9, EvaluateSettled
  <1>10. CASE Crash
    BY <1>10, CrashSettled
  <1>11. CASE Misplace
    BY <1>11, MisplaceSettled
  <1>12. CASE Done \/ UNCHANGED vars
    BY <1>12, UnchangedSettled DEF Done
  <1> QED BY <1>1, <1>2, <1>3, <1>4, <1>5, <1>6, <1>7, <1>8, <1>9, <1>10, <1>11, <1>12
         DEF Next, Progress

(* A run whose evaluation is right passes exactly when the expected outputs   *)
(* are the recurrence's: inline always, over a handoff when every output     *)
(* file was written whole and no secret key lies on the server's side,       *)
(* whatever process died where and was launched again.  That the evaluation   *)
(* is right, OutputsExported, is TLC's to check (evaluate, write_outputs,     *)
(* client_decrypt).                                                         *)
THEOREM VerdictHolds == Spec /\ []OutputsExported => []VerdictExact
  <1>1. Settled => VerdictExact
    BY DEF Settled, VerdictInv
  <1>2. Settled /\ Inv /\ OutputsExported /\ [Next]_vars => Settled'
    BY NextSettled
  <1> QED BY <1>1, <1>2, InitSettled, InvHolds, PTL DEF Spec
=============================================================================
