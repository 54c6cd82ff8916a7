---------------------------- MODULE Stage1Refresh ----------------------------
(***************************************************************************)
(* When a ciphertext is bootstrapped, with which bound, and the iterations  *)
(* that refresh their own iterates: Newton, the scheduled normalization and *)
(* the joint gates.                                                         *)
(*                                                                         *)
(* A checkpoint is [kind, layer, slot]: the code's name without its prefix, *)
(* the layer it is in (0 outside a layer) and its trailing index.  `act` is *)
(* the layer whose calibrated bounds are active.                           *)
(***************************************************************************)
EXTENDS Stage1Kernels

KMinBootstrapGain == 8

Point(kind, layer) == [kind |-> kind, layer |-> layer, slot |-> 0]
PointAt(kind, layer, slot) == [kind |-> kind, layer |-> layer, slot |-> slot]

IsCarried(what) == what.kind \in {"state", "state_post", "fifo"}
IsState(what) == what.kind \in {"state", "state_post"}
NormPoint(what) == what.kind \in {"scheduled_norm", "final_norm_scheduled"}

(* checkpoint_bound: the fallbacks, in half units. *)
CheckpointBound(kind) ==
  CASE kind \in {"final_norm_scaled", "final_norm_scheduled", "gated_poly_input",
                 "gated_variance", "decay", "decay_sq"} -> 2
    [] kind \in {"residual", "output"} -> 16
    [] kind = "conv_silu" -> 19
    [] kind \in {"fifo", "proj"} -> 12
    [] kind = "dt" -> 1
    [] kind \in {"gated_newton", "rms_newton", "final_newton"} -> 8
    [] OTHER -> 48

(* The deeper scheduled norms move refreshes onto transient branches, which *)
(* then take the two-bootstrap form.                                       *)
ShouldUseMetaBts(act, carried, normalized_state, kind, scheduled) ==
  \/ scheduled /\ ~carried
  \/ /\ C.meta_bts
     /\ normalized_state => C.normalized_meta
     /\ \/ carried \/ kind = "gated_poly_input"
        \/ kind = "residual" /\ act \in C.meta_residual

UsesMeta(what, act) ==
  ShouldUseMetaBts(act, IsCarried(what), IsState(what) /\ C.normalized, what.kind,
    \/ act # 0 /\ (Scheduled(Layer(act).rms) \/ Scheduled(Layer(act).gated))
    \/ NormPoint(what))

Headroom(what) ==
  IF IsCarried(what) THEN C.carried_headroom
  ELSE IF what.kind = "residual" THEN C.residual_headroom
  ELSE C.auto_headroom

(* Without the reserve the next segment is allowed for. *)
BootstrapNeededLate(ct, requirement, what, act) ==
  /\ C.depth - ct.lvl < requirement
  /\ ct.lvl >= KAssumedBootstrapOutputLevel + KMinBootstrapGain

BootstrapNeeded(ct, requirement, what, act) ==
  /\ C.depth - ct.lvl < requirement + (IF UsesMeta(what, act) THEN 1 ELSE 0) + Headroom(what)
  /\ ct.lvl >= KAssumedBootstrapOutputLevel + KMinBootstrapGain

(* bootstrap_bound_for: the calibrated bound of the active layer, the group *)
(* of a state ciphertext being its index modulo the number of groups.      *)
BootstrapBound(what, act) ==
  LET plan == Plan(act)
      Calibrated(name, default) ==
        IF name \in DOMAIN plan.points THEN plan.points[name] ELSE default
      base == CheckpointBound(what.kind)
      transient ==
        CASE what.kind = "y_scaled" -> 2
          [] what.kind \in {"y", "y_out"} -> Calibrated("y", base)
          [] OTHER -> Calibrated(what.kind, base)
      measured ==
        IF what.kind = "fifo" THEN plan.fifo_bound
        ELSE IF plan.group_bounds # <<>>
        THEN plan.group_bounds[(what.slot % Len(plan.group_bounds)) + 1]
        ELSE plan.state_bound
  IN  IF ~IsCarried(what) THEN transient * C.norm_margin
      ELSE (IF measured > 0 THEN measured ELSE base) * C.state_margin

(* The input is divided by the bound; the two-bootstrap form also amplifies *)
(* and refreshes the residual of the first, two levels deeper.             *)
BootEvent(what, bound, lvl, meta, paired) ==
  <<"boot", [what |-> what, bound |-> bound, deepest |-> lvl + (IF meta THEN 2 ELSE 1),
             meta |-> meta, paired |-> paired]>>

Refreshed(ct, what, act, public_bound) ==
  LET meta == UsesMeta(what, act)
      bound == IF public_bound > 0 THEN public_bound ELSE BootstrapBound(what, act)
  IN  Made(VScale(VScale(ct.v, Div(1, Unit(bound))), Unit(bound)),
           KAssumedBootstrapOutputLevel + (IF meta THEN 2 ELSE 1),
           ct.log \cup {BootEvent(what, bound, ct.lvl, meta, FALSE)})

MaybeBootstrap(ct, requirement, what, act) ==
  IF BootstrapNeeded(ct, requirement, what, act) THEN Refreshed(ct, what, act, 0) ELSE ct

(* Two states in one bootstrap, as real and imaginary part.                 *)
Pairable(x, y, requirement, a, b, act) ==
  /\ C.complex_pairing
  /\ BootstrapNeeded(x, requirement, a, act) /\ BootstrapNeeded(y, requirement, b, act)
  /\ ~UsesMeta(a, act) /\ ~UsesMeta(b, act)
  /\ IsCarried(a) /\ IsCarried(b)

(* The parts exchanged. *)
PartsExchanged(re, im) == <<VAdd(im, im), VAdd(re, re)>>

(* The conjugate sum, and the conjugate difference over i. *)
Parts(re, im) == <<VAdd(re, re), VAdd(im, im)>>

MaybeBootstrapPair(x, y, requirement, a, b, act) ==
  IF ~Pairable(x, y, requirement, a, b, act)
  THEN <<MaybeBootstrap(x, requirement, a, act), MaybeBootstrap(y, requirement, b, act)>>
  ELSE LET re == VScale(x.v, Div(1, Unit(BootstrapBound(a, act))))
           im == VScale(y.v, Div(1, Unit(BootstrapBound(b, act))))
           parts == Parts(re, im)
           log == x.log \cup y.log
                    \cup {BootEvent(a, BootstrapBound(a, act), x.lvl, FALSE, TRUE),
                          BootEvent(b, BootstrapBound(b, act), y.lvl, FALSE, TRUE)}
           Out(v, bound) == Made(VScale(v, Half * Unit(bound)),
                                 KAssumedBootstrapOutputLevel + 1, log)
       IN  <<Out(parts[1], BootstrapBound(a, act)), Out(parts[2], BootstrapBound(b, act))>>

----------------------------------------------------------------------------
(* Inverse square roots *)

(* y <- 1.5 y + (-0.5 v y) y^2 *)
NewtonRefine(y, v_neg_half, iterations, what, act) ==
  FoldRange(LAMBDA acc, i :
      LET r == MaybeBootstrap(acc, 2, what, act)
      IN  AddCt(ScaleCt(r, 3 * Half), MulCt(MulCt(v_neg_half, r), Square(r))),
    y, 1, iterations)

(* A checkpoint keeps room for the next cubic update and the product behind *)
(* it, and is bounded by the recipe: every stage's 1.1 times                *)
(* normalization_inverse_bound is the one recipe.bound here.                *)
InverseCheckpoint(y, recipe, what, act) ==
  IF BootstrapNeeded(y, 5, what, act) THEN Refreshed(y, what, act, recipe.bound) ELSE y

(* The scaled Goldschmidt iteration.  Every stage recomputes v y^2 from the *)
(* variance itself, which no checkpoint touches, and ends on a Newton step. *)
ScheduledInverse(v, recipe, what, act) ==
  LET n == Len(recipe.stages)
      seed == recipe.stages[1]
      u == ScaleCt(ScaleCt(v, recipe.seed), recipe.seed)
      first == ScaleCt(AddScalar(ScaleCt(u, -seed.b), seed.a), recipe.seed)
      Coefficients(i) == IF i = n THEN [a |-> 3 * Half, b |-> Half]
                         ELSE recipe.stages[i + 1]
  IN  FoldRange(LAMBDA acc, i :
          LET y == InverseCheckpoint(acc, recipe, what, act)
              k == Coefficients(i)
          IN  AddCt(ScaleCt(y, k.a), MulCt(MulCt(ScaleCt(v, -k.b), y), Square(y))),
        first, 1, n)

----------------------------------------------------------------------------
(* Joint gates: polynomials with one coefficient per head and degree *)

JointMask(row) ==
  IF C.joint_periodic THEN JointPeriodicSlots(G, C, row)
  ELSE JointCoefficientSlots(G, row)

(* Periodic coefficients may only meet values that vanish off the head      *)
(* lanes, so that one is then the encrypted mask of those lanes.           *)
JointOnes ==
  IF C.joint_periodic THEN Encrypted(JointCoefficientSlots(G, Constant(Dims.num_heads, 1))) ELSE OnesCt

JointScalarAdd(ct, k) ==
  IF C.joint_periodic THEN AddCt(ct, ScaleCt(JointOnes, k)) ELSE AddScalar(ct, k)

CoefficientProduct(ct, row) == MulMask(ct, <<"joint_streaming">>, JointMask(row))

JointT(u, n) ==
  LET t[i \in 1 .. n] ==
        IF i = 1 THEN u
        ELSE LET product == MulCt(t[(i + 1) \div 2], t[i \div 2])
                 doubled == AddCt(product, product)
             IN  IF i % 2 = 0 THEN JointScalarAdd(doubled, -1)
                 ELSE Made(VAdd(doubled.v, VScale(u.v, -1)), doubled.lvl, doubled.log)
  IN  t[n]

RowSum(x, y, k) == <<>> \o [h \in DOMAIN x |-> R(x[h] + k * y[h])]
JointHigh(c, k) ==
  <<c[k + 1]>> \o [j \in 1 .. (Degree(c) - k) |-> RowSum(c[k + 1 + j], c[k + 1 + j], 1)]
JointLow(c, k) ==
  <<>> \o [i \in 1 .. k |->
    IF 2 * k - (i - 1) \in (k + 1) .. Degree(c)
    THEN RowSum(c[i], c[2 * k - (i - 1) + 1], -1) ELSE c[i]]

JointRec(u, c, m) ==
  LET value[p \in Seq(Seq(Int))] ==
        LET k == GiantStep(m, Degree(p))
            terms == {0} \cup {i \in 1 .. Degree(p) : ~IsZero(p[i + 1])}
            Term(i) == CoefficientProduct(IF i = 0 THEN JointOnes ELSE JointT(u, i), p[i + 1])
        IN  IF Degree(p) >= m
            THEN AddCt(value[JointLow(p, k)], MulCt(JointT(u, k), value[JointHigh(p, k)]))
            ELSE SumOver(terms, Term)
  IN  value[c]

(* Coefficients meet the powers below the baby step, each at its level; one  *)
(* of zeros, which is skipped, counts as a use too.                        *)
JointUses(u, powers) ==
  LET key == <<"joint_streaming">>
      Use(ct) == PlainUse(key, CachedPlain(key, <<>>, ct.lvl), ct)
  IN  {Use(JointOnes)} \cup {Use(JointT(u, i)) : i \in powers}

(* Beside what computed its argument, a joint polynomial uses plaintexts.   *)
JointRoot(u, joint, c) ==
  LET degree == Max2(Len(joint.p), Len(joint.q)) - 1
      baby == ChebBabySize(degree)
      y == JointRec(u, c, baby)
  IN  Made(y.v, y.lvl, u.log \cup JointUses(u, 1 .. Min2(degree, baby - 1)))
=============================================================================
