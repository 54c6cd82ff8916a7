----------------------------- MODULE Stage1Layer -----------------------------
(***************************************************************************)
(* run_layer of the Stage 1 decoder: one layer of one token on ciphertexts, *)
(* one action per phase (the names time_phase gives them).  The circuit is  *)
(* single-threaded; the state ciphertexts and the convolution window stay   *)
(* encrypted from token to token.                                           *)
(***************************************************************************)
EXTENDS Stage1Refresh

VARIABLES
  pc,        \* the phase to run next
  token,     \* tokens finished
  layer,     \* the layer at work, from 1; 0 between tokens
  stream,    \* the stream of the recurrence, from 0
  group,     \* the first group of the next batch
  active,    \* the layer whose calibrated bounds are active (active_*)
  reg,       \* ciphertexts live in this layer
  fifo,      \* layer -> conv_fifo
  state,     \* layer -> slot -> state ciphertext, slots from 1
  has_state, \* layers whose has_state is set
  outs,      \* token_outputs: ciphertexts, or NoCt once the client consumed it
  decrypted, \* autoregressive_decrypted_outputs, <<>> where there is none
  ids,       \* autoregressive_selected_ids
  events,    \* what the last phase logged
  rots,      \* rotations of the layer so far
  ahead,     \* look-ahead encoding of a product
  verdict    \* "none", "passed", "failed", "rejected" or "error"

circuit == <<token, layer, stream, group, active, reg, fifo, state, has_state,
             outs, decrypted, ids, events, rots, ahead>>

NoCt == Ct(<<>>, 0)
NoRegisters ==
  [hidden |-> NoCt, inv |-> NoCt, linear |-> NoCt, proj |-> NoCt, conv |-> NoCt,
   gate |-> NoCt, dt |-> NoCt, decay |-> NoCt, b |-> NoCt, c |-> NoCt,
   conv_s |-> NoCt, dt_s |-> NoCt, decay_s |-> NoCt,
   dt_heads |-> NoCt, decay_heads |-> NoCt, y_stream |-> NoCt, y |-> NoCt]
NoAhead == [name |-> "", next |-> 0, ready |-> <<>>, pending |-> <<>>,
            results |-> <<>>, job |-> <<>>, used |-> <<>>]

Req == Plan(layer).req
Slotted == G.group_count * C.streams      \* state ciphertexts of a layer
HeadsOf(g) == (g * G.group_heads) .. ((g + 1) * G.group_heads - 1)
Kept == {h \in Heads : HeadMask(Layer(layer), h) # 0}

Rotations(log) == {e[2] : e \in {x \in log : x[1] = "rot"}}

(* The phase's log, and the rotations added to those of the layer. *)
Logged(log) == events' = log /\ rots' = rots \cup Rotations(log)

AllFresh(cts) == <<>> \o [i \in DOMAIN cts |-> Fresh(cts[i])]
Logs(cts) == UNION {cts[i].log : i \in DOMAIN cts}

Set(field, ct) == reg' = [reg EXCEPT ![field] = Fresh(ct)]
Compute(field, ct) == Set(field, ct) /\ Logged(ct.log)
Enter(ct) == Set("hidden", ct) /\ events' = ct.log /\ rots' = {}

----------------------------------------------------------------------------
(* One layer, up to the recurrence *)

(* The bounds of the layer that ran before stay active. *)
ResidualUnderStale ==
  /\ pc = "residual"
  /\ active' = IF active = 0 THEN layer ELSE active
  /\ Enter(MaybeBootstrap(reg.hidden, Req.residual, Point("residual", layer), active'))
  /\ pc' = "block_norm"
  /\ UNCHANGED <<token, layer, stream, group, fifo, state, has_state, outs, decrypted,
                 ids, ahead, verdict>>

Residual ==
  /\ pc = "residual"
  /\ active' = layer
  /\ Enter(MaybeBootstrap(reg.hidden, Req.residual, Point("residual", layer), layer))
  /\ pc' = "block_norm"
  /\ UNCHANGED <<token, layer, stream, group, fifo, state, has_state, outs, decrypted,
                 ids, ahead, verdict>>

(* 1/sqrt of the mean square for a schedule, else of the sum of squares with *)
(* the width folded into the constants.                                    *)
BlockInverseCt ==
  LET l == Layer(layer)
      plan == Plan(layer)
      variance == NormVarianceSum(Square(reg.hidden))
      sum == AddScalar(variance, Dims.d_model * l.eps_block)
      u == AddScalar(ScaleCt(sum, plan.a_rms_v), l.rms.b)
  IN  IF Scheduled(l.rms)
      THEN ScheduledInverse(AddScalar(ScaleCt(variance, Div(1, Dims.d_model)), l.eps_block),
                            l.rms, Point("scheduled_norm", layer), active)
      ELSE NewtonRefine(EvalChebyshev(u, plan.rms_coeffs), ScaleCt(sum, -Half),
                        l.rms.iterations, Point("rms_newton", layer), active)

BlockNorm ==
  /\ pc = "block_norm"
  /\ Compute("inv", BlockInverseCt)
  /\ pc' = "in_proj"
  /\ UNCHANGED <<token, layer, stream, group, active, fifo, state, has_state, outs,
                 decrypted, ids, ahead, verdict>>

(* A product that encodes its own diagonals in worker threads. *)
LooksAhead(S) == threads > 1 /\ S.replicas <= 1
InputOf(name) ==
  IF name = "in" THEN LateLevelInput(reg.hidden, reg.inv, 1)
  ELSE LateLevelInput(reg.y, reg.inv, IF G.rep_out.replicas > 1 THEN 2 ELSE 1)

Outputs(name) == IF name = "in" THEN Dims.proj_dim ELSE Dims.d_model
Inputs(name) == IF name = "in" THEN Dims.d_model ELSE Dims.d_inner
Weights(name) == IF name = "in" THEN Plan(layer).in_w ELSE Plan(layer).out_w
DiagonalOf(name, position) ==
  DiagonalAt(G, Weights(name), Outputs(name), Inputs(name), position)

(* What the serial loop multiplies by at a position, and in order. *)
SerialAt(name, position) ==
  SerialPlain(Weights(name), name, layer, Outputs(name), Inputs(name), position)
Serial(name) ==
  <<>> \o [p \in 1 .. Positions(Outputs(name), Inputs(name)) |-> SerialAt(name, p - 1)]

LegacyProduct(name) ==
  SlotBsgs(InputOf(name), IF ahead.name = name THEN ahead.used ELSE Serial(name),
           name, layer, Outputs(name), Inputs(name))

InProjection ==
  IF G.rep_in.replicas > 1
  THEN ReplicatedBsgs(InputOf("in"), Weights("in"), "in", layer, Dims.proj_dim, Dims.d_model, G.rep_in)
  ELSE LegacyProduct("in")

(* Ready to multiply: the plaintexts were encoded ahead, or are on demand. *)
EncodedFor(name, S) ==
  LooksAhead(S) => ahead.name = name /\ ahead.next = Positions(Outputs(name), Inputs(name))

(* A product none of whose diagonals is multiplied throws. *)
NoTerms(name, S) ==
  IF S.replicas > 1
  THEN ReplicatedTerms(InputOf(name).lvl, Weights(name), name, layer, Outputs(name),
                       Inputs(name), S) = {}
  ELSE \A p \in 1 .. Positions(Outputs(name), Inputs(name)) :
         (IF ahead.name = name THEN ahead.used[p] ELSE SerialAt(name, p - 1)).values = <<>>

InProj ==
  /\ pc = "in_proj"
  /\ EncodedFor("in", G.rep_in) /\ ~NoTerms("in", G.rep_in)
  /\ Compute("proj", MaybeBootstrap(MulCt(InProjection, reg.inv), Req.proj,
                                    Point("proj", layer), active))
  /\ ahead' = NoAhead
  /\ pc' = "conv"
  /\ UNCHANGED <<token, layer, stream, group, active, fifo, state, has_state, outs,
                 decrypted, ids, verdict>>

(* The window shares proj's handle: a refresh of its newest entry divides    *)
(* that handle by the bound in place.                                      *)
Window ==
  LET pushed == Append(fifo[layer], reg.proj)
  IN  IF Len(pushed) > Dims.conv_kernel THEN Tail(pushed) ELSE pushed

ConvPacked(window) ==
  LET plan == Plan(layer)
      Term(i) == LET tap == Dims.conv_kernel - Len(window) + i - 1
                 IN  MulMask(window[i], <<"tap", layer, tap>>, plan.taps[tap + 1])
      u == AddConstVector(SumOver(DOMAIN window, Term), <<"conv_const", layer>>, plan.conv_const)
  IN  Rotate(EvalChebyshev(u, Layer(layer).conv.c), G.xbc0)

RefreshedWindow(window) ==
  <<>> \o [i \in DOMAIN window |->
    MaybeBootstrap(window[i], Req.fifo, PointAt("fifo", layer, i - 1), active)]

ConvOf(window) ==
  MaybeBootstrap(ConvPacked(AllFresh(window)), Req.conv, Point("conv_silu", layer), active)

(* What is left of proj when the newest entry, at point `last`, is refreshed. *)
AfterRefresh(proj, newest, last) ==
  IF BootstrapNeeded(newest, Req.fifo, last, active)
  THEN ScaleCt(proj, Div(1, Unit(BootstrapBound(last, active)))) ELSE proj

Convolve(window, fresh, conv) ==
  /\ fifo' = [fifo EXCEPT ![layer] = AllFresh(fresh)]
  /\ reg' = [reg EXCEPT !.conv = Fresh(conv),
       !.proj = AfterRefresh(@, window[Len(window)], PointAt("fifo", layer, Len(window) - 1))]
  /\ Logged(conv.log \cup Logs(fresh))

ConvFifo ==
  /\ pc = "conv"
  /\ LET fresh == RefreshedWindow(Window) IN Convolve(Window, fresh, ConvOf(fresh))
  /\ pc' = "gate"
  /\ UNCHANGED <<token, layer, stream, group, active, state, has_state, outs, decrypted,
                 ids, ahead, verdict>>

Gate ==
  /\ pc = "gate"
  /\ LET u == AddScalar(MulMask(reg.proj, <<"gate_mask", layer>>, Plan(layer).gate_mask),
                        Layer(layer).gate.b)
     IN  Compute("gate", EvalChebyshev(u, Plan(layer).gate_coeffs))
  /\ pc' = "dt"
  /\ UNCHANGED <<token, layer, stream, group, active, fifo, state, has_state, outs,
                 decrypted, ids, ahead, verdict>>

(* The affine input of the time step, for either kind of gate. *)
DtInput ==
  LET plan == Plan(layer)
      biased == IF Layer(layer).joint.on
                THEN AddConstVector(reg.proj, <<"joint_dt_bias", layer>>, plan.joint_dt_bias)
                ELSE reg.proj
  IN  AddConstVector(MulMask(biased, <<"dt_mask", layer>>, plan.dt_mask),
                     <<"dt_const", layer>>, plan.dt_const)

(* Joint gates share their dissipation p^2; the decay is 1 - p^2. *)
Dissipation == Square(JointRoot(DtInput, Layer(layer).joint, Layer(layer).joint.p))
StepOf(dissipation) ==
  LET joint == Layer(layer).joint IN
  MaybeBootstrap(IF joint.on
                 THEN MulCt(dissipation, Square(JointRoot(DtInput, joint, joint.q)))
                 ELSE Square(EvalChebyshev(DtInput, Layer(layer).dt.c)),
                 Req.dt, Point("dt", layer), active)

Discretize(dissipation, dt) ==
  /\ reg' = [reg EXCEPT !.dt = Fresh(dt),
       !.decay = IF Layer(layer).joint.on /\ layer \in has_state
                 THEN Fresh(AddScalar(ScaleCt(dissipation, -1), 1)) ELSE NoCt]
  /\ Logged(dt.log)

TimeStep ==
  /\ pc = "dt"
  /\ LET dissipation == Dissipation IN Discretize(dissipation, StepOf(dissipation))
  /\ pc' = "decay"
  /\ UNCHANGED <<token, layer, stream, group, active, fifo, state, has_state, outs,
                 decrypted, ids, ahead, verdict>>

(* exp by repeated squaring, each squaring behind a checkpoint. *)
DecayPoly ==
  LET plan == Plan(layer)
      u == AddScalar(MulMask(reg.dt, <<"a_vec", layer>>, plan.a_vec), Layer(layer).exp.b)
  IN  FoldRange(LAMBDA x, i :
        Square(MaybeBootstrap(x, plan.exp_squarings - i + Req.decay,
                              Point("decay_sq", layer), active)),
        EvalChebyshev(u, Layer(layer).exp.c), 0, plan.exp_squarings - 1)

Decay ==
  /\ pc = "decay"
  /\ IF layer \in has_state
     THEN Compute("decay",
            MaybeBootstrap(IF Layer(layer).joint.on THEN reg.decay ELSE DecayPoly,
                           Req.decay, Point("decay", layer), active))
     ELSE events' = {} /\ UNCHANGED <<reg, rots>>
  /\ stream' = 0
  /\ pc' = "expand"
  /\ UNCHANGED <<token, layer, group, active, fifo, state, has_state, outs, decrypted,
                 ids, ahead, verdict>>

----------------------------------------------------------------------------
(* The recurrence of one stream, its slots shifted to the first stride *)

Expand ==
  /\ pc = "expand"
  /\ LET Shifted(ct) == IF stream = 0 THEN ct ELSE RotateComposite(ct, stream * G.stride)
         conv == Shifted(reg.conv)
         dt == Shifted(reg.dt)
         decay == IF layer \in has_state THEN Shifted(reg.decay) ELSE NoCt
         b == BcExpand(conv, G.b_base)
         c == BcExpand(conv, G.c_base)
         dt_heads == IF C.shared THEN PlaceAllHeads(dt, Heads) ELSE NoCt
         decay_heads == IF C.shared /\ layer \in has_state /\ Kept # {}
                        THEN PlaceAllHeads(decay, Kept) ELSE NoCt
     IN  /\ reg' = [reg EXCEPT !.conv_s = Fresh(conv), !.dt_s = Fresh(dt),
              !.decay_s = Fresh(decay), !.b = Fresh(b), !.c = Fresh(c),
              !.dt_heads = Fresh(dt_heads), !.decay_heads = Fresh(decay_heads),
              !.y_stream = NoCt]
         /\ Logged(UNION {ct.log : ct \in {conv, dt, decay, b, c, dt_heads, decay_heads}})
  /\ group' = 0
  /\ pc' = "scan"
  /\ UNCHANGED <<token, layer, stream, active, fifo, state, has_state, outs, decrypted,
                 ids, ahead, verdict>>

StateSlot(g) == stream * G.group_count + g        \* from 0
StatePoint(kind, g) == PointAt(kind, layer, StateSlot(g))

(* A state without an active head forgets: its decay is not even placed. *)
UpdatedState(g, previous) ==
  LET x == ExpandX(reg.conv_s, g, layer)
      dt == IF C.shared THEN ExtractSharedHeadGroup(reg.dt_heads, g)
            ELSE PlaceHeads(reg.dt_s, g, Heads)
      decay == IF C.shared THEN ExtractSharedHeadGroup(reg.decay_heads, g)
               ELSE PlaceHeads(reg.decay_s, g, Kept)
      update == MulCt(MulCt(x, dt), reg.b)
  IN  IF layer \in has_state /\ Kept \cap HeadsOf(g) # {}
      THEN AddCt(MulCt(decay, previous), update)
      ELSE update

(* One or two states of consecutive groups share a refresh. *)
RefreshBatch(batch, cts, requirement, kind) ==
  IF Len(batch) = 2
  THEN MaybeBootstrapPair(cts[1], cts[2], requirement, StatePoint(kind, batch[1]),
                          StatePoint(kind, batch[2]), active)
  ELSE <<MaybeBootstrap(cts[1], requirement, StatePoint(kind, batch[1]), active)>>

PostRequirement ==
  IF /\ layer \in has_state
     /\ \/ C.post
        \/ layer \in C.post_layers
        \/ C.interval > 0 /\ token % Max2(1, C.interval) = 0
  THEN C.depth ELSE Req.state_tail

GroupBatch ==
  [i \in 1 .. Min2(IF C.complex_pairing THEN 2 ELSE 1, G.group_count - group)
     |-> group + i - 1]

Entering(batch) ==
  LET stored == [i \in DOMAIN batch |-> state[layer][StateSlot(batch[i]) + 1]]
  IN  IF layer \in has_state THEN RefreshBatch(batch, stored, Req.state_pre, "state")
      ELSE stored

Leaving(batch, entering) ==
  RefreshBatch(batch,
    <<>> \o [i \in DOMAIN batch |-> UpdatedState(batch[i], entering[i])],
    PostRequirement, "state_post")

Readout(batch, leaving) ==
  SumOver(DOMAIN batch, LAMBDA i : ReadoutGroup(Fresh(leaving[i]), reg.c, batch[i], layer))

AdvanceStates(batch, entering, leaving, y) ==
  /\ state' = [state EXCEPT ![layer] = [slot \in DOMAIN @ |->
       LET i == slot - StateSlot(group)
       IN  IF i \in DOMAIN batch THEN Fresh(leaving[i]) ELSE @[slot]]]
  /\ Set("y_stream", y)
  /\ Logged(Logs(entering) \cup Logs(leaving) \cup y.log)
  /\ group' = group + Len(batch)

Scan ==
  /\ pc = "scan" /\ group < G.group_count
  /\ LET batch == GroupBatch
         entering == Entering(batch)
         leaving == Leaving(batch, entering)
         readout == Readout(batch, leaving)
     IN  AdvanceStates(batch, entering, leaving,
           IF group = 0 THEN readout ELSE AddCt(reg.y_stream, readout))
  /\ UNCHANGED <<pc, token, layer, stream, active, fifo, has_state, outs, decrypted, ids,
                 ahead, verdict>>

EndStream ==
  /\ pc = "scan" /\ group = G.group_count
  /\ LET back == IF stream = 0 THEN reg.y_stream
                 ELSE RotateComposite(reg.y_stream, -(stream * G.stride))
     IN  Compute("y", IF stream = 0 THEN back ELSE AddCt(reg.y, back))
  /\ IF stream + 1 < C.streams
     THEN stream' = stream + 1 /\ pc' = "expand" /\ UNCHANGED has_state
     ELSE stream' = 0 /\ pc' = "skip_gate" /\ has_state' = has_state \cup {layer}
  /\ UNCHANGED <<token, layer, group, active, fifo, state, outs, decrypted, ids, ahead,
                 verdict>>

----------------------------------------------------------------------------
(* From the readout to the residual *)

SkipGate ==
  /\ pc = "skip_gate"
  /\ LET skip == MulMask(reg.conv, <<"d_vec", layer>>, Plan(layer).d_vec)
         gated == MulCt(AddCt(reg.y, skip), reg.gate)
         kind == IF MeanGated(Layer(layer)) THEN "y_scaled" ELSE "y"
     IN  Compute("y", MaybeBootstrap(gated, Req.y, Point(kind, layer), active))
  /\ pc' = "gated_norm"
  /\ UNCHANGED <<token, layer, stream, group, active, fifo, state, has_state, outs,
                 decrypted, ids, ahead, verdict>>

KNewtonSegmentEstimate == 14

(* y is stored divided by y_scale unless the guess is a constant. *)
GatedScheduled(l, variance, scale) ==
  ScheduledInverse(
    AddScalar(ScaleCt(variance, Div(scale * scale, Dims.d_inner)), l.eps_gated),
    l.gated, Point("scheduled_norm", layer), active)

GatedPolynomial(l, plan, sum, scale) ==
  LET u == MaybeBootstrap(
             AddScalar(ScaleCt(sum, plan.a_gated_v * R(scale * scale)), l.gated.b),
             ChebPSDepth(Degree(l.gated.c)) + 1 + 2 * l.gated.iterations,
             Point("gated_poly_input", layer), active)
      guess == ScaleCt(Square(EvalChebyshev(u, l.gated.c)), l.gated.damping)
      mean_neg_half == ScaleCt(AddScalar(u, -l.gated.b),
                               -Div(Half, plan.a_gated_v * Dims.d_inner))
  IN  NewtonRefine(guess, mean_neg_half, l.gated.iterations,
                   Point("gated_newton", layer), active)

(* From z0 = 1 the first iteration is affine in the scaled variance. *)
GatedConstantGuess(l, plan, sum) ==
  LET c0 == plan.gated_guess_v
      u_neg_half == MaybeBootstrap(ScaleCt(sum, -Half * R(c0 * c0)), KNewtonSegmentEstimate,
                                   Point("gated_variance", layer), active)
  IN  ScaleCt(NewtonRefine(AddScalar(u_neg_half, 3 * Half), u_neg_half,
                           l.gated.iterations - 1, Point("gated_newton", layer), active),
              c0)

GatedInverseCt ==
  LET l == Layer(layer)
      plan == Plan(layer)
      scale == IF MeanGated(l) THEN plan.y_scale ELSE 1
      variance == NormVarianceSum(Square(reg.y))
      sum == AddScalar(variance, Div(Dims.d_inner * l.eps_gated, scale * scale))
  IN  IF Scheduled(l.gated) THEN GatedScheduled(l, variance, scale)
      ELSE IF l.gated.c # <<>> THEN GatedPolynomial(l, plan, sum, scale)
      ELSE GatedConstantGuess(l, plan, sum)

Normalize(inv, y) ==
  /\ reg' = [reg EXCEPT !.inv = Fresh(inv), !.y = Fresh(y)]
  /\ Logged(inv.log \cup y.log)

GatedNorm ==
  /\ pc = "gated_norm"
  /\ Normalize(GatedInverseCt,
               MaybeBootstrap(reg.y, Req.out, Point("y_out", layer), active))
  /\ pc' = "out_proj"
  /\ UNCHANGED <<token, layer, stream, group, active, fifo, state, has_state, outs,
                 decrypted, ids, ahead, verdict>>

(* A replicated product leaves partial sums past d_model, masked away. *)
OutProjection ==
  IF G.rep_out.replicas > 1
  THEN MulMask(ReplicatedBsgs(InputOf("out"), Weights("out"), "out", layer, Dims.d_model,
                              Dims.d_inner, G.rep_out),
               <<"out_clean">>, BlockMask(G, 0, Dims.d_model))
  ELSE LegacyProduct("out")

Leave(hidden) ==
  reg' = [NoRegisters EXCEPT !.hidden = Fresh(hidden)] /\ Logged(hidden.log)

OutProj ==
  /\ pc = "out_proj"
  /\ EncodedFor("out", G.rep_out) /\ ~NoTerms("out", G.rep_out)
  /\ Leave(AddCt(MulCt(OutProjection, reg.inv), reg.hidden))
  /\ ahead' = NoAhead
  /\ IF layer < Len(Layered)
     THEN layer' = layer + 1 /\ pc' = "residual"
     ELSE UNCHANGED layer /\ pc' = "final"
  /\ UNCHANGED <<token, stream, group, active, fifo, state, has_state, outs, decrypted,
                 ids, verdict>>

LayerStep ==
  \/ Residual \/ BlockNorm \/ InProj \/ ConvFifo \/ Gate \/ TimeStep \/ Decay
  \/ Expand \/ Scan \/ EndStream \/ SkipGate \/ GatedNorm \/ OutProj
=============================================================================
