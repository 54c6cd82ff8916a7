----------------------------- MODULE SlotVectors -----------------------------
(***************************************************************************)
(* Slot vectors of the Stage 1 decoder.  A slot holds a residue modulo a   *)
(* prime instead of a double: addition, products, scaling by a public      *)
(* constant and its inverse are then exact, so that a slot which receives  *)
(* the wrong value, is folded twice or is left dirty differs from the      *)
(* scalar model.  Approximation error is not part of this model.           *)
(* Slot s of the program is element s + 1 of the sequence.                 *)
(***************************************************************************)
EXTENDS Integers, Sequences, FiniteSets

CONSTANT P                       \* the prime modulus of slot values

ASSUME PAssumption ==
  P \in Nat /\ P > 2 /\ \A d \in 2 .. (P - 1) : P % d # 0

----------------------------------------------------------------------------
(* Residues *)

R(x) == x % P

Inverses == <<>> \o [x \in 1 .. (P - 1) |->
                       CHOOSE y \in 1 .. (P - 1) : (x * y) % P = 1]

Div(x, y) == R(R(x) * Inverses[R(y)])

Half == Div(1, 2)

Power(x, n) ==
  LET power[i \in 0 .. n] == IF i = 0 THEN 1 ELSE R(x * power[i - 1])
  IN  power[n]

(* The square root the code takes of a width; the instances use squares. *)
Sqrt(n) == CHOOSE r \in 0 .. n : r * r = n

----------------------------------------------------------------------------
(* Vectors.  The concatenation with <<>> makes TLC build the sequence. *)

Slots(n, Value(_)) == <<>> \o [i \in 1 .. n |-> Value(i - 1)]

At(v, slot) == v[slot + 1]

Constant(n, x) == <<>> \o [i \in 1 .. n |-> R(x)]

VAdd(u, v) == <<>> \o [i \in DOMAIN u |-> (u[i] + v[i]) % P]

VMul(u, v) == <<>> \o [i \in DOMAIN u |-> (u[i] * v[i]) % P]

VScale(u, c) == LET k == R(c) IN <<>> \o [i \in DOMAIN u |-> (u[i] * k) % P]

(* Cyclic rotation to the left by k slots: EvalRotate of index k. *)
Rot(v, k) ==
  LET m == k % Len(v) IN
  IF m = 0 THEN v ELSE SubSeq(v, m + 1, Len(v)) \o SubSeq(v, 1, m)

(* rotate_plaintext_mask moves coefficients to the right. *)
RotatePlaintextMask(mask, offset) == Rot(mask, -offset)

IsZero(v) == \A i \in DOMAIN v : v[i] = 0

SumTo(n, Term(_)) ==
  LET sum[i \in 0 .. n] == IF i = 0 THEN 0 ELSE R(sum[i - 1] + Term(i - 1))
  IN  sum[n]

(* Left fold of Op over the integers a .. b. *)
FoldRange(Op(_, _), acc, a, b) ==
  LET fold[i \in (a - 1) .. b] == IF i < a THEN acc ELSE Op(fold[i - 1], i)
  IN  fold[b]

Pow2[k \in Nat] == IF k = 0 THEN 1 ELSE 2 * Pow2[k - 1]

(* int_log2 and ceil_log2 *)
Log2(n) == CHOOSE k \in 0 .. n : n <= Pow2[k] /\ \A j \in 0 .. (k - 1) : Pow2[j] < n

Min2(a, b) == IF a <= b THEN a ELSE b
Max2(a, b) == IF a >= b THEN a ELSE b
Ceil(a, b) == (a + b - 1) \div b
Bit(n, k) == (n \div Pow2[k]) % 2
=============================================================================
