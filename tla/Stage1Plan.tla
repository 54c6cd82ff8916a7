------------------------------ MODULE Stage1Plan ------------------------------
(***************************************************************************)
(* The slot layout of the Stage 1 Mamba-2 decoder and what follows from    *)
(* it before a ciphertext exists: replicated matrix products, the packing  *)
(* of the recurrent state, the rotations the circuit needs, how often it   *)
(* uses them, and the keys generated for them.                             *)
(*                                                                         *)
(* D is the record of a layer's dimensions, S a replicated shape, G the    *)
(* packing.  Invalid arguments throw in the code; configurations that do   *)
(* are not instantiated (ValidGeometry).                                   *)
(***************************************************************************)
EXTENDS SlotVectors, SequencesExt

CONSTANT BabyStep                \* kBabyStepIn and kBabyStepOut, 64 in the code

ASSUME BabyAssumption == BabyStep \in Nat /\ BabyStep > 1

(* The members of S in the strict total order Before. *)
Sorted(S, Before(_, _)) ==
  <<>> \o [i \in 1 .. Cardinality(S) |->
    CHOOSE x \in S : Cardinality({y \in S : Before(y, x)}) = i - 1]

PowerOfTwo(n) == n > 0 /\ Pow2[Log2(n)] = n

----------------------------------------------------------------------------
(* Signed-digit rotations (rotation_steps.hpp) *)

(* Signed powers of two of the non-adjacent form, in ascending magnitude. *)
NafFrom[rest \in Int, power \in Nat] ==
  IF rest = 0 THEN <<>>
  ELSE LET digit == IF rest % 2 = 0 THEN 0 ELSE 2 - (rest % 4)
       IN  (IF digit = 0 THEN <<>> ELSE <<digit * power>>)
             \o NafFrom[(rest - digit) \div 2, 2 * power]

NafSteps(value) == NafFrom[value, 1]

CanonicalRotation(offset, slots) ==
  LET k == offset % slots IN IF k > slots \div 2 THEN k - slots ELSE k

SumSeq(s) ==
  LET sum[i \in 0 .. Len(s)] == IF i = 0 THEN 0 ELSE sum[i - 1] + s[i]
  IN  sum[Len(s)]

(* verify_naf: the guard the decoder runs over its own index set. *)
NafVerified(indices) ==
  \A index \in indices :
    LET steps == NafSteps(index) IN
    /\ \A i \in DOMAIN steps :
         PowerOfTwo(IF steps[i] < 0 THEN -steps[i] ELSE steps[i])
    /\ SumSeq(steps) = index

----------------------------------------------------------------------------
(* Replicated products *)

(* The sum of `count` consecutive cyclic shifts: which offsets are rotated  *)
(* and whether the partial sum or the original input is.                   *)
LogSchedule[count \in Nat, bit \in Nat, filled \in Nat] ==
  IF bit = 0 THEN <<>>
  ELSE <<[offset |-> filled, accumulated |-> TRUE]>> \o
       (IF (count \div bit) % 2 = 1
        THEN <<[offset |-> 2 * filled, accumulated |-> FALSE]>>
               \o LogSchedule[count, bit \div 2, 2 * filled + 1]
        ELSE LogSchedule[count, bit \div 2, 2 * filled])

HighBit(count) == CHOOSE b \in {Pow2[k] : k \in 0 .. 30} : b <= count /\ count < 2 * b

RotationSumSchedule(count, logarithmic) ==
  IF logarithmic THEN LogSchedule[count, HighBit(count) \div 2, 1]
  ELSE [i \in 1 .. (count - 1) |-> [offset |-> i, accumulated |-> FALSE]]

DirectShape == [replicas |-> 1, window |-> 0, reps |-> 0, per_replica |-> 0,
                baby |-> 1, guard |-> 0, logarithmic |-> FALSE]

ShapeOf(replicas, window, n, guard) ==
  [DirectShape EXCEPT !.replicas = replicas, !.window = window,
                      !.reps = window \div n, !.guard = guard,
                      !.per_replica = Ceil(n, replicas)]

(* m outputs, n inputs; force 0 means automatic. *)
ResolveReplicatedShape(m, n, batch, force) ==
  LET window   == n * Ceil(m + n, n)
      fitting  == Min2(n, batch \div window)
      replicas == IF force > 0 THEN Min2(fitting, force) ELSE fitting
  IN  IF replicas <= 1 THEN DirectShape ELSE ShapeOf(replicas, window, n, 0)

ResolveInterleavedShape(m, n, batch, force) ==
  LET room == (batch \div n) - 1
      most == Min2(n, IF force > 0 THEN Min2(room, force) ELSE room)
      Window(r) == n * Ceil(m + r - 1, n)
      fits == {r \in 2 .. most : (r + 1) * Window(r) <= batch}
  IN  IF fits = {} THEN ResolveReplicatedShape(m, n, batch, force)
      ELSE LET r == CHOOSE x \in fits : \A y \in fits : y <= x
           IN  ShapeOf(r, Window(r), n, 1)

(* One plaintext for the k-th diagonal of every replica: replica j holds    *)
(* diagonal d = j + k*replicas from slot j*(window+1) on.                   *)
ReplicatedMask(w, m, n, k, S, batch) ==
  Slots(batch, LAMBDA slot :
    LET hits == {j \in 0 .. (S.replicas - 1) :
                   /\ slot - j * (S.window + 1) \in 0 .. (m - 1)
                   /\ j + k * S.replicas < n}
    IN  IF hits = {} THEN 0
        ELSE LET j == CHOOSE x \in hits : TRUE
                 i == slot - j * (S.window + 1)
             IN  w[i + 1][((i + j + k * S.replicas) % n) + 1])

ReplicatedPreMask(w, m, n, k, S, batch) ==
  LET mask  == ReplicatedMask(w, m, n, k, S, batch)
      giant == (k \div S.baby) * S.baby * S.replicas
  IN  IF S.baby <= 1 THEN mask ELSE RotatePlaintextMask(mask, giant)

FoldSchedule(S) ==
  RotationSumSchedule(S.replicas, S.logarithmic \/ PowerOfTwo(S.replicas))

Offsets(schedule, stride) ==
  {schedule[i].offset * stride : i \in DOMAIN schedule}

(* The rotations of one replicated product, by what they are for; each is    *)
(* made once.                                                              *)
ReplicatedRotations(n, S) ==
  <<Offsets(RotationSumSchedule(S.reps, S.logarithmic), -n),
    Offsets(RotationSumSchedule(S.replicas + S.guard, S.logarithmic), -S.window),
    IF S.baby > 1 THEN {b * S.replicas : b \in 1 .. (S.baby - 1)}
    ELSE {k * S.replicas : k \in 1 .. (S.per_replica - 1)},
    IF S.baby > 1
    THEN {g * S.baby * S.replicas : g \in 1 .. (Ceil(S.per_replica, S.baby) - 1)}
    ELSE {},
    Offsets(FoldSchedule(S), S.window + 1)>>

----------------------------------------------------------------------------
(* Rectangular baby-step giant-step products, without replication *)

SlotBsgsGiants(m, n) ==          \* ascending, zero included
  Sorted({o - (o % BabyStep) : o \in (1 - m) .. (n - 1)}, LAMBDA x, y : x < y)

SlotBsgsRotations(m, n) == <<1 .. (BabyStep - 1), Range(SlotBsgsGiants(m, n)) \ {0}>>

(* A product's shape, as main resolves it from --bsgs-replicas (-1 for "1", *)
(* 0 for "auto"), and its true baby steps.                                  *)
ISqrt(n) == CHOOSE r \in 0 .. n : r * r <= n /\ (r + 1) * (r + 1) > n

ProjectionShape(c, m, n) ==
  LET shape == IF c.replicas < 0 THEN DirectShape
               ELSE IF c.interleaved
                    THEN ResolveInterleavedShape(m, n, c.batch, c.replicas)
                    ELSE ResolveReplicatedShape(m, n, c.batch, c.replicas)
      baby  == IF c.true_bsgs /\ shape.replicas > 1
               THEN Max2(1, ISqrt(shape.per_replica)) ELSE 1
  IN  [shape EXCEPT !.logarithmic = c.logarithmic, !.baby = baby]

----------------------------------------------------------------------------
(* Packing of the state: slot n*group_block + h*head_dim + p *)

ValidGeometry(D, c) ==
  /\ \A x \in {D.state_size, D.head_dim, c.batch, c.streams} : PowerOfTwo(x)
  /\ c.batch % (D.head_dim * D.state_size) = 0
  /\ LET heads == c.batch \div (D.head_dim * D.state_size) IN
       /\ D.num_heads % heads = 0
       /\ PowerOfTwo(heads * D.head_dim)
  /\ c.streams > 1 => c.batch \div c.streams >= D.proj_dim

DerivePacking(D, c) ==
  LET heads == c.batch \div (D.head_dim * D.state_size) IN
  [batch |-> c.batch, group_heads |-> heads,
   group_count |-> D.num_heads \div heads,
   block |-> heads * D.head_dim,
   xbc0 |-> D.d_inner, dt0 |-> D.d_inner + D.conv_dim,
   b_base |-> D.d_inner, c_base |-> D.d_inner + D.state_size,
   stride |-> c.batch \div c.streams,
   rep_in |-> ProjectionShape(c, D.proj_dim, D.d_model),
   rep_out |-> ProjectionShape(c, D.d_model, D.d_inner)]

----------------------------------------------------------------------------
(* Rotations the circuit needs, and their number per token *)

Needed(rotations) == UNION {rotations[i] : i \in DOMAIN rotations}

Powers(count, stride) == {stride * Pow2[k] : k \in 0 .. (Log2(count) - 1)}
Multiples(count, stride) == {stride * k : k \in 1 .. (count - 1)}

ProductRotations(S, m, n) ==
  IF S.replicas > 1 THEN ReplicatedRotations(n, S) ELSE SlotBsgsRotations(m, n)

(* The heads of one group even when all heads are placed at once. *)
PlacedHeadsOfGroup(D, G, c) == G.group_heads

PlacedHeads(D, G, c) == IF c.shared THEN D.num_heads ELSE G.group_heads

(* B and C: bases of the legacy selection, moved back one stride per head. *)
BlockBabies(G) ==
  {base - (G.block - 1) * b :
     base \in {G.b_base, G.c_base}, b \in 0 .. (G.group_heads - 1)}

RequiredRotations(D, G, c) ==
  (Needed(ProductRotations(G.rep_in, D.proj_dim, D.d_model))
    \cup Needed(ProductRotations(G.rep_out, D.d_model, D.d_inner))
    \cup Powers(G.batch, 1)
    \cup Powers(G.block, -1)
    \cup Powers(D.state_size, -G.block)
    \cup {G.xbc0}
    \cup Multiples(G.group_count, G.block)
    \cup Powers(D.state_size, G.block)
    \cup Multiples(G.group_count, -G.block)
    \cup (IF c.rep_blocks
          THEN {G.b_base, G.c_base} \cup Powers(D.state_size, 1 - G.block)
          ELSE BlockBabies(G) \cup
               Multiples(D.state_size \div G.group_heads,
                         -G.group_heads * (G.block - 1)))
    \cup (IF c.shared THEN {G.dt0}
          ELSE {G.dt0 + G.group_heads * g : g \in 0 .. (G.group_count - 1)})
    \cup Multiples(PlacedHeads(D, G, c), 1 - D.head_dim)) \ {0}

(* The families of rotation_frequencies: every index of `indices`, `count`  *)
(* times per token and layer.  The legacy B and C babies are one family per *)
(* base: an index both bases need is counted twice.                         *)
Family(indices, count) == [indices |-> indices, count |-> count]

ProductFamilies(rotations) ==
  [i \in DOMAIN rotations |-> Family(rotations[i], 1)]

RotationFamilies(D, G, c) ==
  LET s == c.streams
      g == G.group_count
      each == IF c.shared THEN 1 ELSE g
      bits == IF s = 1 THEN G.batch ELSE G.stride
      Babies(base) == {base - (G.block - 1) * b : b \in 0 .. (G.group_heads - 1)}
  IN  ProductFamilies(ProductRotations(G.rep_in, D.proj_dim, D.d_model))
      \o ProductFamilies(ProductRotations(G.rep_out, D.d_model, D.d_inner))
      \o <<Family(Powers(bits, 1), 2),
           Family(IF s > 1 THEN Powers(bits, -1) ELSE {}, 2),
           Family(Powers(G.block, -1), 2 * s),
           Family(Powers(D.head_dim, -1), 2 * each * s),
           Family(Powers(D.state_size, -G.block), 3 * g * s),
           Family({G.xbc0}, 1),
           Family(Multiples(g, G.block), IF c.shared THEN 3 * s ELSE s),
           Family(Multiples(g, -G.block), s),
           Family(Powers(D.state_size, G.block), g * s)>>
      \o (IF c.rep_blocks
          THEN <<Family({G.b_base}, s), Family({G.c_base}, s),
                 Family(Powers(D.state_size, 1 - G.block), 2 * s)>>
          ELSE <<Family(Babies(G.b_base), s), Family(Babies(G.c_base), s),
                 Family(Multiples(D.state_size \div G.group_heads,
                                  -G.group_heads * (G.block - 1)), 2 * s)>>)
      \o <<Family(IF c.shared THEN {G.dt0}
                  ELSE {G.dt0 + G.group_heads * i : i \in 0 .. (g - 1)}, 2 * s),
           Family(Multiples(PlacedHeads(D, G, c), 1 - D.head_dim), 2 * each * s)>>

FrequencyOf(families, index) ==
  SumSeq([i \in DOMAIN families |->
            IF index \in families[i].indices THEN families[i].count ELSE 0])

(* Per token and layer, over the required set (a missing family counts 0). *)
RotationFrequencies(D, G, c) ==
  LET families == RotationFamilies(D, G, c) IN
  [index \in RequiredRotations(D, G, c) |-> FrequencyOf(families, index)]

(* The start-up guard against drift: every counted index is required. *)
FrequenciesAreRequired(D, G, c) ==
  LET families == RotationFamilies(D, G, c) IN
  \A i \in DOMAIN families :
    families[i].indices \ {0} \subseteq RequiredRotations(D, G, c)

----------------------------------------------------------------------------
(* Rotation keys.  `affordable` abstracts the byte budget: the number of    *)
(* keys that fit rotation_key_gib.                                          *)

(* The magnitudes alone, without the signs. *)
BaseKeysUnsigned(indices) ==
  LET Abs(x) == IF x < 0 THEN -x ELSE x
  IN  UNION {Range(NafSteps(Abs(i))) : i \in indices}

BaseKeys(indices) == UNION {Range(NafSteps(i)) : i \in indices}

Savings(freq, index) == freq[index] * (Len(NafSteps(index)) - 1)

HotterThan(freq, i, j) ==
  LET Abs(x) == IF x < 0 THEN -x ELSE x IN
  \/ Savings(freq, i) > Savings(freq, j)
  \/ Savings(freq, i) = Savings(freq, j) /\ Abs(i) < Abs(j)

(* Of two candidates equal in both orders either may come first; negative   *)
(* indices come first in the map the code sorts.                            *)
BalancedKeys(freq, base, affordable) ==
  LET candidates == {i \in DOMAIN freq \ base : Savings(freq, i) > 0}
      ordered == Sorted(candidates, LAMBDA i, j :
                   HotterThan(freq, i, j) \/ (~HotterThan(freq, j, i) /\ i < j))
      taken == Min2(Len(ordered), Max2(0, affordable - Cardinality(base)))
  IN  base \cup {ordered[i] : i \in 1 .. taken}

RotationKeys(c, freq) ==
  LET base == BaseKeys(DOMAIN freq) IN
  CASE c.keys = "full" -> DOMAIN freq
    [] c.keys = "compact" -> base
    [] c.keys = "balanced" -> BalancedKeys(freq, base, c.affordable)
=============================================================================
