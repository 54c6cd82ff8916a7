--------------------------- MODULE Mamba2Reference ---------------------------
(***************************************************************************)
(* What a Stage 1 run promises: the recurrence of the Python reference      *)
(* (fhemamba/reference.py) under the exported polynomials, one channel at a *)
(* time.  Nothing here is packed, rotated, scaled or refreshed.  The heads  *)
(* of a layer may be advanced in any grouping.                              *)
(***************************************************************************)
EXTENDS Stage1Payload

VARIABLES
  run,      \* the name of the invocation
  token,    \* tokens finished
  lay,      \* the layer at work, 0 between tokens, one past the last before the head
  hid,      \* the residual vector
  win,      \* layer -> the last conv_kernel xBC projections
  st,       \* layer -> head -> channel -> state coordinate
  pend,     \* heads of this layer not advanced yet
  entered,  \* this layer's projection was pushed into its window
  outs,     \* one output vector per token
  ids       \* ids the client selected

vars == <<run, token, lay, hid, win, st, pend, entered, outs, ids>>

Opt == Configs[run]
Load == Payloads[Opt.payload]
L == Layers(Opt)[lay]

----------------------------------------------------------------------------
(* The substituted nonlinearities *)

PolyAt(poly, x) == ClenshawHost(poly.c, R(poly.a * x + poly.b))

Newton(x, guess, iterations) ==
  FoldRange(LAMBDA y, i : R(y * R(3 * Half - Half * R(x * R(y * y)))), guess, 1, iterations)

(* The coupled iteration on u = v * y^2, and one Newton step from v. *)
ScheduledInvSqrt(recipe, v) ==
  LET n == Len(recipe.stages)
      Step(pair, i) ==
        LET factor == R(recipe.stages[i].a - recipe.stages[i].b * pair.u)
        IN  [y |-> R(pair.y * factor), u |-> R(pair.u * R(factor * factor))]
      last == FoldRange(Step, [y |-> R(recipe.seed), u |-> R(v * R(recipe.seed * recipe.seed))],
                        1, n)
  IN  Newton(v, last.y, 1)

InvSqrt(spec, v) ==
  CASE spec.kind = "scheduled" -> ScheduledInvSqrt(spec, v)
    [] spec.kind = "const-newton" -> Newton(v, R(spec.guess), spec.iterations)
    [] spec.kind = "poly-newton" ->
         Newton(v, R(spec.damping * PolyAt(spec, v)), spec.iterations)
    [] spec.kind = "sq-poly-newton" ->
         Newton(v, R(spec.damping * Power(PolyAt(spec, v), 2)), spec.iterations)

RmsInverse(x, eps, spec) ==
  InvSqrt(spec, R(Div(SumTo(Len(x), LAMBDA i : x[i + 1] * x[i + 1]), Len(x)) + eps))

(* Rows of a matrix on x * inverse * weight. *)
Normed(x, inverse, w) == <<>> \o [i \in DOMAIN x |-> R(R(x[i] * inverse) * w[i])]
Dot(u, v) == SumTo(Len(u), LAMBDA i : u[i + 1] * v[i + 1])

(* Time step and decay of head h from its projection. *)
Gates(h, raw) ==
  LET z == R(raw + L.dt_bias[h + 1])
      Root(rows) == ClenshawHost(<<>> \o [d \in DOMAIN rows |-> rows[d][h + 1]],
                                 R(L.joint.a[h + 1] * z + L.joint.b[h + 1]))
      dissipation == Power(Root(L.joint.p), 2)
      dt == Power(PolyAt(L.dt, z), 2)
      exponent == Div(L.a_neg[h + 1] * dt, Pow2[L.exp.squarings])
  IN  IF L.joint.on
      THEN [dt |-> R(dissipation * Power(Root(L.joint.q), 2)), decay |-> R(1 - dissipation)]
      ELSE [dt |-> dt,
            decay |-> HeadMask(L, h) * Power(PolyAt(L.exp, exponent), Pow2[L.exp.squarings])]

----------------------------------------------------------------------------
(* One layer *)

Projected ==
  LET x == Normed(hid, RmsInverse(hid, L.eps_block, L.rms), L.block_norm_w)
  IN  <<>> \o [o \in 1 .. Dims.proj_dim |-> Dot(L.in_w[o], x)]

XBC(proj) == SubSeq(proj, Dims.d_inner + 1, Dims.d_inner + Dims.conv_dim)

(* Causal convolution over the window, zeros before its first entry. *)
Convolved ==
  <<>> \o [ch \in 1 .. Dims.conv_dim |->
    PolyAt(L.conv, R(L.conv_b[ch] + SumTo(Len(win[lay]), LAMBDA i :
      L.conv_w[ch][Dims.conv_kernel - Len(win[lay]) + i + 1] * win[lay][i + 1][ch])))]

Channel(h, p) == h * Dims.head_dim + p + 1

NextState(h, conv, proj) ==
  LET gates == Gates(h, proj[Dims.d_inner + Dims.conv_dim + h + 1])
  IN  [p \in 0 .. (Dims.head_dim - 1) |-> [n \in 0 .. (Dims.state_size - 1) |->
        R(gates.decay * st[lay][h][p][n]
          + R(gates.dt * conv[Channel(h, p)]) * conv[Dims.d_inner + n + 1])]]

MixerOutput ==
  LET conv == Convolved
      proj == Projected
      y == <<>> \o [c \in 1 .. Dims.d_inner |->
        LET h == (c - 1) \div Dims.head_dim
            read == SumTo(Dims.state_size, LAMBDA n :
                      st[lay][h][(c - 1) % Dims.head_dim][n]
                        * conv[Dims.d_inner + Dims.state_size + n + 1])
        IN  R(R(read + L.d_skip[h + 1] * conv[c]) * PolyAt(L.gate, proj[c]))]
      x == Normed(y, RmsInverse(y, L.eps_gated, L.gated), L.gated_norm_w)
  IN  <<>> \o [o \in 1 .. Dims.d_model |-> R(hid[o] + Dot(L.out_w[o], x))]

----------------------------------------------------------------------------
(* Head and client *)

FinalSpec == IF Load.final_norm.kind = "scheduled" THEN Load.final_norm
             ELSE Layers(Opt)[Len(Layers(Opt))].rms

Final == IF FullChain(Opt, Layers(Opt), Load)
         THEN Normed(hid, RmsInverse(hid, Load.final_eps, FinalSpec), Load.final_w)
         ELSE hid

(* The first id of the largest logit. *)
Logit(p, id, hidden) ==
  LET head == IF p.lm_head = <<>> THEN p.embedding ELSE p.lm_head
  IN  R((IF p.lm_bias = <<>> THEN 0 ELSE p.lm_bias[id + 1]) + Dot(head[id + 1], hidden))

Argmax(p, hidden) ==
  CHOOSE id \in 0 .. (p.vocab - 1) : \A other \in 0 .. (p.vocab - 1) :
    \/ Logit(p, id, hidden) > Logit(p, other, hidden)
    \/ Logit(p, id, hidden) = Logit(p, other, hidden) /\ id <= other

ClientSelects == Opt.loop /\ token + 1 >= Load.prompt

Embedding ==
  IF Opt.loop /\ token >= Load.prompt THEN Load.embedding[ids[Len(ids)] + 1]
  ELSE Load.inputs[token + 1]

----------------------------------------------------------------------------

ZeroState ==
  [h \in Heads |-> [p \in 0 .. (Dims.head_dim - 1) |->
    [n \in 0 .. (Dims.state_size - 1) |-> 0]]]
ZeroHidden == Constant(Dims.d_model, 0)

Fresh0 ==
  /\ token' = 0 /\ lay' = 0 /\ pend' = {} /\ entered' = FALSE
  /\ hid' = ZeroHidden
  /\ win' = [k \in DOMAIN Layers(Opt) |-> <<>>]
  /\ st' = [k \in DOMAIN Layers(Opt) |-> ZeroState]
  /\ outs' = <<>> /\ ids' = <<>>

Init ==
  /\ run \in DOMAIN Configs
  /\ token = 0 /\ lay = 0 /\ pend = {} /\ entered = FALSE
  /\ hid = ZeroHidden
  /\ win = [k \in DOMAIN Layers(Opt) |-> <<>>]
  /\ st = [k \in DOMAIN Layers(Opt) |-> ZeroState]
  /\ outs = <<>> /\ ids = <<>>

Embed ==
  /\ lay = 0 /\ token < Opt.tokens
  /\ hid' = Embedding
  /\ lay' = 1
  /\ UNCHANGED <<run, token, win, st, pend, entered, outs, ids>>

Enter ==
  /\ lay \in DOMAIN win /\ ~entered
  /\ LET pushed == Append(win[lay], XBC(Projected))
     IN  win' = [win EXCEPT ![lay] =
                   IF Len(pushed) > Dims.conv_kernel THEN Tail(pushed) ELSE pushed]
  /\ entered' = TRUE
  /\ pend' = Heads
  /\ UNCHANGED <<run, token, lay, hid, st, outs, ids>>

Advance(H) ==
  /\ lay \in DOMAIN win /\ entered
  /\ H # {} /\ H \subseteq pend
  /\ pend' = pend \ H
  /\ LET conv == Convolved
         proj == Projected
     IN  st' = [st EXCEPT ![lay] =
                  [h \in Heads |-> IF h \in H THEN NextState(h, conv, proj) ELSE @[h]]]
  /\ UNCHANGED <<run, token, lay, hid, win, entered, outs, ids>>

Leave ==
  /\ lay \in DOMAIN win /\ entered /\ pend = {}
  /\ hid' = MixerOutput
  /\ lay' = lay + 1
  /\ entered' = FALSE
  /\ UNCHANGED <<run, token, win, st, pend, outs, ids>>

Finish ==
  /\ lay = Len(win) + 1
  /\ outs' = Append(outs, Final)
  /\ ids' = IF ClientSelects THEN Append(ids, Argmax(Load, Final)) ELSE ids
  /\ token' = token + 1
  /\ lay' = 0
  /\ hid' = ZeroHidden
  /\ UNCHANGED <<run, win, st, pend, entered>>

(* A process that dies takes everything with it. *)
Restart == Fresh0 /\ UNCHANGED run

Next ==
  \/ Embed \/ Enter \/ Leave \/ Finish
  \/ \E H \in SUBSET pend : Advance(H)
  \/ Restart

Spec == Init /\ [][Next]_vars
=============================================================================
