----------------------------- MODULE Stage1Depth -----------------------------
(***************************************************************************)
(* Chebyshev polynomials of the Stage 1 decoder: the Clenshaw reference,    *)
(* the Paterson-Stockmeyer recursion that is evaluated on ciphertexts, the *)
(* levels it consumes, and the level requirements of a layer's refresh     *)
(* points.  Coefficients are residues; the drop floor 1e-12 is zero.       *)
(***************************************************************************)
EXTENDS Stage1Plan

KAssumedBootstrapOutputLevel == 18

KScheduledNormInputRequirement == 18
KJointWriteTailRequirement == 6

Degree(c) == Len(c) - 1

ClenshawHost(c, t) ==
  LET b[i \in 1 .. (Len(c) + 2)] ==
        IF i > Len(c) THEN 0
        ELSE R((IF i = 1 THEN t ELSE 2 * t) * b[i + 1] - b[i + 2] + c[i])
  IN  b[1]

ChebBabySize(degree) == Pow2[(Max2(1, Log2(degree + 1)) + 1) \div 2]

----------------------------------------------------------------------------
(* The recursion: p = low + T_k * high with the giant step k the largest    *)
(* m*2^j for which the quotient has degree below 2k.                        *)
GiantStep(m, n) ==
  LET step[k \in Nat] == IF 2 * k - 1 < n THEN step[2 * k] ELSE k
  IN  step[m]

High(c, k) ==
  <<c[k + 1]>> \o [j \in 1 .. (Degree(c) - k) |-> R(2 * c[k + 1 + j])]

Low(c, k) ==
  <<>> \o [i \in 1 .. k |->
    IF 2 * k - (i - 1) \in (k + 1) .. Degree(c)
    THEN R(c[i] - c[2 * k - (i - 1) + 1]) ELSE c[i]]

Cheb(n, u) ==                    \* T_n(u)
  LET t[i \in 0 .. n] == IF i = 0 THEN 1 ELSE IF i = 1 THEN R(u)
                         ELSE R(2 * u * t[i - 1] - t[i - 2])
  IN  t[n]

PSHost(c, u, m) ==
  LET value[p \in Seq(Int)] ==
        LET k == GiantStep(m, Degree(p)) IN
        IF Degree(p) < m THEN SumTo(Len(p), LAMBDA i : p[i + 1] * Cheb(i, u))
        ELSE R(value[Low(p, k)] + Cheb(k, u) * value[High(p, k)])
  IN  value[c]

(* The start-up check of a polynomial, on every sample of the domain. *)
PSVerified(c) ==
  \A u \in 0 .. (P - 1) : PSHost(c, u, ChebBabySize(Degree(c))) = ClenshawHost(c, u)

----------------------------------------------------------------------------
(* Levels and work of the recursion *)

(* The level of T_i above that of u. *)
BasisLevel[i \in Nat] ==
  IF i <= 1 THEN 0 ELSE 1 + Max2(BasisLevel[(i + 1) \div 2], BasisLevel[i \div 2])

(* The T_j, j > 1, that T_i is built from. *)
BasisNeeds[i \in Nat] ==
  IF i <= 1 THEN {}
  ELSE {i} \cup BasisNeeds[(i + 1) \div 2] \cup BasisNeeds[i \div 2]

DegreeDepth[n \in Nat, m \in Nat] ==
  LET k == GiantStep(m, n) IN
  IF n = 0 THEN 0
  ELSE IF n < m THEN 1 + BasisLevel[n]
  ELSE Max2(DegreeDepth[k - 1, m], 1 + Max2(BasisLevel[k], DegreeDepth[n - k, m]))

ChebPSDepth(degree) == DegreeDepth[degree, ChebBabySize(degree)]

SetMax(S) == CHOOSE x \in S : \A y \in S : y <= x

PSWork[c \in Seq(Int), m \in Nat] ==
  LET k == GiantStep(m, Degree(c))
      terms == {i \in 1 .. Degree(c) : c[i + 1] # 0}
      right == PSWork[High(c, k), m]
      left  == PSWork[Low(c, k), m]
  IN  IF Degree(c) < m
      THEN [basis |-> UNION {BasisNeeds[i] : i \in terms}, giants |-> 0,
            scalars |-> Max2(1, Cardinality(terms)),
            depth |-> SetMax({1} \cup {1 + BasisLevel[i] : i \in terms})]
      ELSE [basis |-> BasisNeeds[k] \cup left.basis \cup right.basis,
            giants |-> 1 + left.giants + right.giants,
            scalars |-> left.scalars + right.scalars,
            depth |-> Max2(left.depth, 1 + Max2(BasisLevel[k], right.depth))]

ChebPSCost(c, m) ==
  IF Len(c) = 1 THEN [baby |-> m, depth |-> 1, products |-> 0, scalars |-> 1]
  ELSE LET w == PSWork[c, m] IN
       [baby |-> m, depth |-> w.depth,
        products |-> Cardinality(w.basis) + w.giants,
        scalars |-> 1 + w.scalars + Cardinality({i \in w.basis : i % 2 = 0})]

(* The coefficient-aware baby size: fewest ciphertext products, then scalar *)
(* ones, among those no deeper and no more scalar work than the baseline.   *)
Cheaper(x, y) ==
  x.products < y.products \/ (x.products = y.products /\ x.scalars < y.scalars)

Improving(plans, baseline) ==
  {p \in plans : /\ p.depth <= baseline.depth /\ p.scalars <= baseline.scalars
                 /\ Cheaper(p, baseline)}

Cheapest(plans) ==
  CHOOSE p \in plans : \A q \in plans :
    Cheaper(p, q) \/ (~Cheaper(q, p) /\ p.baby <= q.baby)

BestBaby(plans, base) ==
  LET better == Improving(plans, CHOOSE p \in plans : p.baby = base)
  IN  IF better = {} THEN base ELSE Cheapest(better).baby

PlanBabySize(c) ==
  LET base == ChebBabySize(Degree(c)) IN
  BestBaby({ChebPSCost(c, m) :
              m \in {base} \cup {x \in {Pow2[j] : j \in 0 .. Log2(Len(c))} : x <= Len(c)}},
           base)

----------------------------------------------------------------------------
(* Level requirements of a layer whose polynomials are L (Stage1Payload),   *)
(* under configuration c, in levels from a refresh point to the next.      *)

NormExtra(c) == IF c.streams > 1 THEN 1 ELSE 0
SharedExtra(c) == IF c.shared THEN 1 ELSE 0
Scheduled(norm) == norm.kind = "scheduled"
DepthOf(poly) == ChebPSDepth(Degree(poly.c))

DtDepth(L) ==
  IF L.joint.on
  THEN 1 + ChebPSDepth(Max2(Len(L.joint.p), Len(L.joint.q)) - 1)
  ELSE DepthOf(L.dt)

RootCost(L) == IF L.joint.on THEN 2 ELSE 1

(* Levels of the block normalization's inverse above its input. *)
BlockInverse(L, c) ==
  IF Scheduled(L.rms) THEN 6 + NormExtra(c) + 2 * Len(L.rms.stages)
  ELSE 2 + NormExtra(c) + DepthOf(L.rms) + 2 * L.rms.iterations

Requirements(L, c) ==
  [residual |-> IF Scheduled(L.rms) THEN KScheduledNormInputRequirement + NormExtra(c)
                ELSE Max2(BlockInverse(L, c), 1) + 2,
   proj |-> 1 + Max2(DepthOf(L.conv),
                     Max2(DepthOf(L.gate) + 2, DtDepth(L) + RootCost(L))),
   fifo |-> 2 + DepthOf(L.conv),
   conv |-> IF c.rep_blocks THEN 7 ELSE 6,
   dt |-> IF L.joint.on THEN KJointWriteTailRequirement + SharedExtra(c)
          ELSE 2 + DepthOf(L.exp) + L.exp.squarings,
   decay |-> 3,
   state_pre |-> 5 + SharedExtra(c),
   state_tail |-> 4,
   y |-> (IF Scheduled(L.gated) THEN KScheduledNormInputRequirement ELSE 4)
         + NormExtra(c),
   out |-> 2]
=============================================================================
