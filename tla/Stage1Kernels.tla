---------------------------- MODULE Stage1Kernels ----------------------------
(***************************************************************************)
(* The kernels of the Stage 1 decoder over ciphertexts: arithmetic, masks   *)
(* through the plaintext cache, rotations, Chebyshev evaluation, matrix     *)
(* products, the placements of the recurrent block, and the bootstrap      *)
(* policy.  The operators read the invocation (run, host, cached, threads).      *)
(***************************************************************************)
EXTENDS Stage1Circuit

Made(v, lvl, log) == [v |-> v, lvl |-> lvl, log |-> log]
Ct(v, lvl) == Made(v, lvl, {})
Fresh(ct) == Ct(ct.v, ct.lvl)
Encrypted(v) == Ct(v, 0)
OnesCt == Encrypted(Constant(G.batch, 1))

AddCt(x, y) == Made(VAdd(x.v, y.v), Max2(x.lvl, y.lvl), x.log \cup y.log)
MulCt(x, y) == Made(VMul(x.v, y.v), 1 + Max2(x.lvl, y.lvl), x.log \cup y.log)
Square(x) == Made(VMul(x.v, x.v), x.lvl + 1, x.log)
ScaleCt(x, k) == Made(VScale(x.v, k), x.lvl + 1, x.log)
AddScalar(x, k) == Made(VAdd(x.v, Constant(Len(x.v), k)), x.lvl, x.log)

(* The sum of ciphertexts, each with its index; Term(i) over a set of them. *)
SlotSum(cts) == FoldSet(LAMBDA c, v : VAdd(c[2].v, v), Constant(G.batch, 0), cts)
SumCts(cts) ==
  Made(SlotSum(cts), SetMax({c[2].lvl : c \in cts}), UNION {c[2].log : c \in cts})
SumOver(S, Term(_)) == SumCts({<<i, Term(i)>> : i \in S})

----------------------------------------------------------------------------
(* cached_plain: a hit needs an encoding no deeper than its consumption; a  *)
(* miss encodes at level 0, or at the consumption level when so asked.     *)

(* A hit whatever the level of the encoding. *)
HitAtAnyLevel(key, consumed) == cached /\ key \in DOMAIN PlainCache

Hit(key, consumed) ==
  /\ cached /\ key \in DOMAIN PlainCache
  /\ PlainCache[key].level <= consumed

MissLevel(consumed) == IF C.miss_level THEN consumed ELSE 0

CachedPlain(key, values, consumed) ==
  IF Hit(key, consumed)
  THEN [values |-> PlainCache[key].value, level |-> PlainCache[key].level]
  ELSE [values |-> values, level |-> MissLevel(consumed)]

PlainUse(key, plain, ct) == <<"pt", key, plain.level, ct.lvl>>

MulPlain(ct, key, plain) ==
  Made(VMul(ct.v, plain.values), 1 + Max2(ct.lvl, plain.level),
       ct.log \cup {PlainUse(key, plain, ct)})

MulMask(ct, key, mask) == MulPlain(ct, key, CachedPlain(key, mask, ct.lvl))

AddConstVector(ct, key, values) ==
  LET plain == CachedPlain(key, values, ct.lvl)
  IN  Made(VAdd(ct.v, plain.values), Max2(ct.lvl, plain.level),
           ct.log \cup {PlainUse(key, plain, ct)})

----------------------------------------------------------------------------
(* Rotations *)

(* What rotations by these amounts log: one by 0 is none.                   *)
Turns(amounts) == {<<"rot", k>> : k \in amounts \ {0}}

Rotate(ct, amount) == Made(Rot(ct.v, amount), ct.lvl, ct.log \cup Turns({amount}))

(* A ladder of rotate-and-add: by stride, 2 * stride, 4 * stride and so on. *)
DoubledSlots(slots, stride, steps) ==
  FoldRange(LAMBDA v, k : VAdd(v, Rot(v, stride * Pow2[k])), slots, 0, steps - 1)
Doubled(ct, stride, steps) ==
  Made(DoubledSlots(ct.v, stride, steps), ct.lvl,
       ct.log \cup Turns({stride * Pow2[k] : k \in 0 .. (steps - 1)}))

DoublingFill(ct, stride, steps) == Doubled(ct, -stride, steps)

FullBatchSum(ct) == Doubled(ct, 1, Log2(G.batch))

NormVarianceSum(ct) ==
  IF C.streams = 1 THEN FullBatchSum(ct)
  ELSE DoublingFill(MulMask(Doubled(ct, 1, Log2(G.stride)), <<"streambase">>,
                            StreamBaseMask(G)),
                    1, Log2(G.stride))

(* By the signed powers of two of the amount's bits. *)
Bits(n) == {bit \in 0 .. (Log2(n + 1) - 1) : Bit(n, bit) = 1}
TurnedByBits(slots, sign, magnitude) ==
  FoldRange(LAMBDA v, bit : IF Bit(magnitude, bit) = 1 THEN Rot(v, sign * Pow2[bit]) ELSE v,
            slots, 0, Log2(magnitude + 1) - 1)
RotateComposite(ct, amount) ==
  LET sign == IF amount < 0 THEN -1 ELSE 1
      magnitude == sign * amount
  IN  Made(TurnedByBits(ct.v, sign, magnitude), ct.lvl,
           ct.log \cup Turns({sign * Pow2[bit] : bit \in Bits(magnitude)}))

----------------------------------------------------------------------------
(* eval_chebyshev on ciphertexts: sums, products and scalings, so that what  *)
(* computed the result is what computed the argument.                      *)

ChebT(u, n) ==
  LET t[i \in 1 .. n] ==
        IF i = 1 THEN u
        ELSE IF i % 2 = 0
        THEN LET squared == Square(t[i \div 2])
             IN  AddCt(AddCt(squared, squared), ScaleCt(OnesCt, -1))
        ELSE LET product == MulCt(t[(i + 1) \div 2], t[i \div 2])
             IN  AddCt(AddCt(product, product), ScaleCt(u, -1))
  IN  t[n]

ChebRec(u, c, m) ==
  LET value[p \in Seq(Int)] ==
        LET k == GiantStep(m, Degree(p))
            terms == {i \in 1 .. Degree(p) : p[i + 1] # 0}
        IN  IF Degree(p) >= m
            THEN AddCt(value[Low(p, k)], MulCt(ChebT(u, k), value[High(p, k)]))
            ELSE IF terms = {} THEN ScaleCt(OnesCt, p[1])
            ELSE AddScalar(SumOver(terms, LAMBDA i : ScaleCt(ChebT(u, i), p[i + 1])), p[1])
  IN  value[c]

EvalChebyshev(u, c) ==
  LET y == IF Len(c) <= 1 THEN ScaleCt(OnesCt, IF c = <<>> THEN 0 ELSE c[1])
           ELSE ChebRec(u, c, IF C.coefficient_aware THEN PlanBabySize(c)
                              ELSE ChebBabySize(Degree(c)))
  IN  Made(y.v, y.lvl, u.log)

----------------------------------------------------------------------------
(* Matrix products *)

(* The baby rotations are made before a diagonal is looked at: the keys of   *)
(* those that meet only zeros are used too.                                *)
WithBabies(ct, amounts) == Made(ct.v, ct.lvl, ct.log \cup Turns(amounts))

(* Without replicas: `plains` gives the plaintext of a table position, or    *)
(* no values for a diagonal of zeros, which is skipped.                    *)
SlotBsgs(ct, plains, name, k, m, n) ==
  LET giants == SlotBsgsGiants(m, n)
      Position(gi, b) == (gi - 1) * BabyStep + b
      Used(gi) == {b \in 0 .. (BabyStep - 1) : plains[Position(gi, b) + 1].values # <<>>}
      Term(gi, b) == MulPlain(Rotate(ct, b), <<name, k, Position(gi, b)>>,
                              plains[Position(gi, b) + 1])
      Giant(gi) == Rotate(SumOver(Used(gi), LAMBDA b : Term(gi, b)), giants[gi])
      groups == {gi \in DOMAIN giants : Used(gi) # {}}
  IN  WithBabies(SumOver(groups, Giant), 1 .. (BabyStep - 1))

(* The serial path.  The table of a diagonal is used at whatever level it   *)
(* was encoded: unlike CachedPlain it asks no level.                       *)
InTable(name, k, position) == cached /\ <<name, k, position>> \in DOMAIN PlainCache

(* A mask of zeros has no plaintext. *)
EncodedMask(mask) == IF IsZero(mask) THEN <<>> ELSE mask

SerialPlain(w, name, k, m, n, position) ==
  IF InTable(name, k, position)
  THEN [values |-> PlainCache[<<name, k, position>>].value,
        level |-> PlainCache[<<name, k, position>>].level]
  ELSE LET mask == DiagonalAt(G, w, m, n, position)
       IN  [values |-> EncodedMask(mask), level |-> 0]

ScheduledSum(slots, sched, stride) ==
  LET Turned(v, i) == Rot(IF sched[i].accumulated THEN v ELSE slots,
                          sched[i].offset * stride)
  IN  FoldRange(LAMBDA v, i : VAdd(v, Turned(v, i)), slots, 1, Len(sched))
RotationSum(ct, count, stride, logarithmic) ==
  LET sched == RotationSumSchedule(count, logarithmic)
  IN  Made(ScheduledSum(ct.v, sched, stride), ct.lvl,
           ct.log \cup Turns(Offsets(sched, stride)))

(* The fused transform needs its own keys and skips no diagonal.  A         *)
(* diagonal of zeros is otherwise dropped when it is built, not on a hit.   *)
FusedAllowed(S, giants, name) ==
  /\ C.fused = "all" \/ (C.fused = "out-proj" /\ name = "out")
  /\ {b * S.replicas : b \in 1 .. (S.baby - 1)} \subseteq Keys
  /\ giants > 1 => S.baby * S.replicas \in Keys

(* The input repeated to fill every window. *)
Replicated(ct, n, S) ==
  RotationSum(RotationSum(ct, S.reps, -n, S.logarithmic),
              S.replicas + S.guard, -S.window, S.logarithmic)

Fused(S, name) == S.baby > 1 /\ FusedAllowed(S, Ceil(S.per_replica, S.baby), name)

(* The diagonals that meet an input of this level. *)
ReplicatedTerms(consumed, w, name, layer, m, n, S) ==
  {k \in 0 .. (S.per_replica - 1) :
     \/ Fused(S, name) \/ Hit(<<name, layer, k>>, consumed)
     \/ ~IsZero(ReplicatedPreMask(w, m, n, k, S, G.batch))}

ReplicatedBsgs(ct, w, name, layer, m, n, S) ==
  LET filled == Replicated(ct, n, S)
      giants == Ceil(S.per_replica, S.baby)
      fused == Fused(S, name)
      Key(k) == <<name, layer, k>>
      Mask(k) == ReplicatedPreMask(w, m, n, k, S, G.batch)
      used == ReplicatedTerms(filled.lvl, w, name, layer, m, n, S)
      Term(k) == MulPlain(Rotate(filled, (IF S.baby > 1 THEN k % S.baby ELSE k) * S.replicas),
                          Key(k), CachedPlain(Key(k), Mask(k), filled.lvl))
      InGiant(g) == {k \in used : k \div S.baby = g}
      Giant(g) ==
        LET sum == SumOver(InGiant(g), Term)
            by == g * S.baby * S.replicas
        IN  IF ~fused THEN Rotate(sum, by)
            ELSE Made(Rot(sum.v, by), sum.lvl,
                      sum.log \cup Turns(IF g = 0 THEN {} ELSE {S.baby * S.replicas}))
      groups == {g \in 0 .. (giants - 1) : InGiant(g) # {}}
      product == IF S.baby <= 1 THEN SumOver(used, Term) ELSE SumOver(groups, Giant)
      babies == {b * S.replicas : b \in 1 .. (S.baby - 1)}
  IN  RotationSum(WithBabies(product, babies), S.replicas, S.window + 1,
                  S.logarithmic \/ PowerOfTwo(S.replicas))

(* With --projection-late-level and drop alignment the input of a product   *)
(* is dropped to the level at which the inverse will meet the result.       *)
LateLevelInput(input, inverse, linear_levels) ==
  LET target == inverse.lvl - linear_levels
  IN  IF C.late_level /\ target > input.lvl THEN Made(input.v, target, input.log) ELSE input

----------------------------------------------------------------------------
(* Placements of the recurrent block *)

PlaceStateBlocks(conv, base) ==
  LET stride == G.block - 1
      Term(a, b) == MulMask(Rotate(conv, base - stride * b),
                      <<"unit", G.group_heads * a + G.block * b>>,
                      UnitMask(G, G.group_heads * a + G.block * b))
      Inner(a) == SumOver(0 .. (G.group_heads - 1), LAMBDA b : Term(a, b))
      Placed(a) == Rotate(Inner(a), -G.group_heads * stride * a)
      giants == 0 .. ((Dims.state_size \div G.group_heads) - 1)
  IN  DoublingFill(SumOver(giants, Placed), 1, Log2(G.block))

PlaceStateBlocksReplicated(source, base) ==
  LET copies == DoublingFill(Rotate(source, base), G.block - 1, Log2(Dims.state_size))
  IN  DoublingFill(MulMask(copies, <<"state_seed">>, StateSeedMask(G)), 1, Log2(G.block))

BcExpand(conv, base) ==
  IF C.rep_blocks
  THEN PlaceStateBlocksReplicated(
         MulMask(conv, <<"bc_source">>, BlockMask(G, G.b_base, 2 * Dims.state_size)), base)
  ELSE PlaceStateBlocks(conv, base)

(* Heads of a mask set to zero are left out of the placement. *)
PlacedHeadsSum(shifted, heads) ==
  SumOver(heads, LAMBDA h :
    Rotate(MulMask(shifted, <<"unit", h>>, UnitMask(G, h)), -(Dims.head_dim - 1) * h))

PlaceHeads(source, group, kept) ==
  LET local == {h \in 0 .. (G.group_heads - 1) : G.group_heads * group + h \in kept}
      placed == PlacedHeadsSum(Rotate(source, G.dt0 + G.group_heads * group), local)
  IN  DoublingFill(DoublingFill(placed, 1, Log2(Dims.head_dim)), G.block, Log2(Dims.state_size))

PlaceAllHeads(source, kept) ==
  DoublingFill(PlacedHeadsSum(Rotate(source, G.dt0), kept), 1, Log2(Dims.head_dim))

ExtractSharedHeadGroup(expanded, group) ==
  DoublingFill(Rotate(MulMask(expanded, <<"head_group", group>>,
                              BlockMask(G, G.block * group, G.block)),
                      G.block * group),
               G.block, Log2(Dims.state_size))

ExpandX(conv, group, k) ==
  LET mask == IF C.normalized THEN NormalizedUpdateMask(Layer(k), G, C, group)
              ELSE BlockMask(G, G.block * group, G.block)
      key == IF C.normalized THEN <<"state_x", k, group>> ELSE <<"xblock", group>>
  IN  DoublingFill(Rotate(MulMask(conv, key, mask), G.block * group),
                   G.block, Log2(Dims.state_size))

ReadoutGroup(state, c_expanded, group, k) ==
  LET sum == Doubled(MulCt(state, c_expanded), G.block, Log2(Dims.state_size))
      mask == IF C.normalized THEN NormalizedReadoutMask(Layer(k), G, C, group)
              ELSE BlockMask(G, 0, G.block)
      key == IF C.normalized THEN <<"state_readout", k, group>> ELSE <<"group">>
  IN  Rotate(MulMask(sum, key, mask), -G.block * group)
=============================================================================
