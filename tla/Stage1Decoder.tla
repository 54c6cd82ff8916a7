---------------------------- MODULE Stage1Decoder ----------------------------
(***************************************************************************)
(* The token loop of the Stage 1 decoder around run_layer: start-up, the    *)
(* client's part of an autoregressive loop, look-ahead encoding of the      *)
(* plaintexts of a product in worker threads, the final norm and the        *)
(* comparison with the exported reference.  The process that evaluates is   *)
(* the only one, or the server of a handoff (Stage1Handoff), which reads    *)
(* its inputs from `disk`.                                                  *)
(***************************************************************************)
EXTENDS Stage1Layer

CONSTANT EncodePerThread         \* kEncodeBatchPerThread, 8 in the code

ASSUME EncodePerThreadAssumption == EncodePerThread \in Nat \ {0}

VARIABLE disk                    \* file -> [whole, ct], the handoff directory

InputFile(t) == <<"exchange", "input", t>>
OutputFile(t) == <<"exchange", "output", t>>
Present(file) == file \in DOMAIN disk /\ disk[file].whole

(* Layers without a state yet; the ciphertexts of a layer exist from Start. *)
NoStates == [k \in DOMAIN Layered |-> <<>>]

----------------------------------------------------------------------------
(* Start-up, once the options, the payload and the layout are accepted *)

(* One encoder that differs from the caller's, or throws, sends the run     *)
(* back to one thread.                                                     *)
SelfTested == {C.encode_threads, 1}

(* The probe of plaintext reuse multiplies by an entry of level 0; one that *)
(* misses its value drops the cache, one that throws leaves it in use.      *)
ReuseChecked ==
  {TRUE} \cup {FALSE : key \in {e \in DOMAIN PlainCache : PlainCache[e].level = 0}}

Start ==
  /\ cached' \in ReuseChecked
  /\ threads' \in SelfTested
  /\ state' = [k \in DOMAIN Layered |-> <<>> \o [i \in 1 .. Slotted |-> NoCt]]
  /\ pc' = "reencrypt"
  /\ UNCHANGED <<token, layer, stream, group, active, reg, fifo, has_state, outs,
                 decrypted, ids, events, rots, ahead, verdict>>

----------------------------------------------------------------------------
(* Between tokens *)

(* --debug-client-reencrypt-before-token: decrypt and encrypt again. *)
Reencrypt ==
  /\ pc = "reencrypt"
  /\ IF token \in C.reencrypt
     THEN /\ state' = [k \in DOMAIN state |->
               IF k \in has_state
               THEN <<>> \o [i \in DOMAIN state[k] |-> Encrypted(state[k][i].v)]
               ELSE state[k]]
          /\ fifo' = [k \in DOMAIN fifo |->
               IF k \in has_state
               THEN <<>> \o [i \in DOMAIN fifo[k] |-> Encrypted(fifo[k][i].v)]
               ELSE fifo[k]]
     ELSE UNCHANGED <<state, fifo>>
  /\ pc' = "refresh"
  /\ UNCHANGED <<token, layer, stream, group, active, reg, has_state, outs, decrypted,
                 ids, events, rots, ahead, verdict>>

(* --bootstrap-before-token: every carried ciphertext of a layer under that  *)
(* layer's bounds, the states in pairs when pairing is on.                 *)
RefreshedStates(k) ==
  LET cts == state[k]
      At0(i) == PointAt("state", k, i)
      Pair(i) == MaybeBootstrapPair(cts[i + 1], cts[i + 2], C.depth,
                                    At0(i), At0(i + 1), k)
  IN  <<>> \o [n \in DOMAIN cts |->
        LET i == n - 1 IN
        IF ~C.complex_pairing \/ (i % 2 = 0 /\ n = Len(cts))
        THEN MaybeBootstrap(cts[n], C.depth, At0(i), k)
        ELSE IF i % 2 = 0 THEN Pair(i)[1] ELSE Pair(i - 1)[2]]

RefreshedFifo(k, requirement) ==
  <<>> \o [i \in DOMAIN fifo[k] |->
    MaybeBootstrap(fifo[k][i], requirement, PointAt("fifo", k, i - 1), k)]

ScheduledRefresh ==
  /\ pc = "refresh"
  /\ IF token \in C.refresh
     THEN LET states == [k \in has_state |-> RefreshedStates(k)]
              fifos == [k \in has_state |-> RefreshedFifo(k, C.depth)]
          IN  /\ state' = [k \in DOMAIN state |->
                   IF k \in has_state THEN AllFresh(states[k]) ELSE state[k]]
              /\ fifo' = [k \in DOMAIN fifo |->
                   IF k \in has_state THEN AllFresh(fifos[k]) ELSE fifo[k]]
              /\ active' = IF has_state = {} THEN active ELSE SetMax(has_state)
              /\ events' = UNION {Logs(states[k]) \cup Logs(fifos[k]) : k \in has_state}
     ELSE events' = {} /\ UNCHANGED <<state, fifo, active>>
  /\ pc' = "encrypt_input"
  /\ UNCHANGED <<token, layer, stream, group, reg, has_state, outs, decrypted, ids,
                 rots, ahead, verdict>>

(* The token's embedding at the base of every stream. *)
InputSlots(vector) ==
  Slots(G.batch, LAMBDA s :
    IF s % G.stride < Dims.d_model THEN vector[(s % G.stride) + 1] ELSE 0)

InputVector ==
  IF C.loop /\ token >= LoadedPayload.prompt
  THEN LoadedPayload.embedding[ids[Len(ids)] + 1]
  ELSE LoadedPayload.inputs[token + 1]

EnterLayers(hidden) ==
  /\ pc = "encrypt_input"
  /\ reg' = [NoRegisters EXCEPT !.hidden = hidden]
  /\ layer' = 1
  /\ pc' = "residual"
  /\ UNCHANGED <<token, stream, group, active, fifo, state, has_state, outs, decrypted,
                 ids, events, rots, ahead, verdict>>

EncryptInput == ~Separated(C) /\ EnterLayers(Encrypted(InputSlots(InputVector)))


(* The server's input is a file of the handoff.                            *)
LoadInput ==
  /\ Separated(C) /\ Present(InputFile(token))
  /\ EnterLayers(disk[InputFile(token)].ct)

----------------------------------------------------------------------------
(* Look-ahead encoding: where the serial loop of a product would build a    *)
(* plaintext that is neither in the table nor ready, the next ones are      *)
(* built by `threads` workers with strided jobs, which are joined before    *)
(* the loop goes on.                                                       *)

Products == {"in", "out"}
PhaseOf(name) == IF name = "in" THEN "in_proj" ELSE "out_proj"
ShapeOfProduct(name) == IF name = "in" THEN G.rep_in ELSE G.rep_out
EndOf(name) == Positions(Outputs(name), Inputs(name))
Available(name, position) ==
  InTable(name, layer, position) \/ position \in DOMAIN ahead.ready

BeginEncode(name) ==
  /\ pc = PhaseOf(name)
  /\ LooksAhead(ShapeOfProduct(name))
  /\ ahead.name # name
  /\ ahead' = [NoAhead EXCEPT !.name = name]
  /\ UNCHANGED <<pc, token, layer, stream, group, active, reg, fifo, state, has_state,
                 outs, decrypted, ids, events, rots, verdict>>

(* The plaintext of a position: a table entry at its level, else the        *)
(* encoded mask (none for a mask of zeros), which is then forgotten.        *)
Taken(name, position) ==
  IF InTable(name, layer, position)
  THEN LET entry == PlainCache[<<name, layer, position>>]
       IN  [values |-> entry.value, level |-> entry.level]
  ELSE [values |-> ahead.ready[position], level |-> 0]

Take ==
  /\ ahead.name \in Products /\ ahead.pending = <<>>
  /\ ahead.next < EndOf(ahead.name) /\ Available(ahead.name, ahead.next)
  /\ LET name == ahead.name
         end == CHOOSE p \in (ahead.next + 1) .. EndOf(name) :
                  /\ \A q \in ahead.next .. (p - 1) : Available(name, q)
                  /\ p < EndOf(name) => ~Available(name, p)
     IN  ahead' = [ahead EXCEPT
           !.next = end,
           !.ready = [p \in DOMAIN @ \ (ahead.next .. (end - 1)) |-> @[p]],
           !.used = @ \o [i \in 1 .. (end - ahead.next) |->
                            Taken(name, ahead.next + i - 1)]]
  /\ UNCHANGED <<pc, token, layer, stream, group, active, reg, fifo, state, has_state,
                 outs, decrypted, ids, events, rots, verdict>>

(* A job of a worker: its position in `pending`. *)
Workers == Min2(threads, Len(ahead.pending))

Prefetch ==
  /\ ahead.name \in Products /\ ahead.pending = <<>>
  /\ ahead.next < EndOf(ahead.name) /\ ~Available(ahead.name, ahead.next)
  /\ LET name == ahead.name
         missing == Sorted({p \in ahead.next .. (EndOf(name) - 1) : ~Available(name, p)},
                           LAMBDA x, y : x < y)
         pending == SubSeq(missing, 1, Min2(Len(missing), threads * EncodePerThread))
     IN  ahead' = [ahead EXCEPT !.pending = pending,
                     !.results = <<>> \o [i \in DOMAIN pending |-> <<>>],
                     !.job = <<>> \o [w \in 1 .. Min2(threads, Len(pending)) |-> w]]
  /\ UNCHANGED <<pc, token, layer, stream, group, active, reg, fifo, state, has_state,
                 outs, decrypted, ids, events, rots, verdict>>

(* The result stored at the worker's position, not at its job's. *)
EncodeJobAtWorker(w) ==
  /\ w \in DOMAIN ahead.job /\ ahead.job[w] \in DOMAIN ahead.pending
  /\ LET mask == DiagonalOf(ahead.name, ahead.pending[ahead.job[w]])
     IN  ahead' = [ahead EXCEPT
           !.results[w] = EncodedMask(mask), !.job[w] = @ + Workers]
  /\ UNCHANGED <<pc, token, layer, stream, group, active, reg, fifo, state, has_state,
                 outs, decrypted, ids, events, rots, verdict>>

EncodeJob(w) ==
  /\ w \in DOMAIN ahead.job /\ ahead.job[w] \in DOMAIN ahead.pending
  /\ LET mask == DiagonalOf(ahead.name, ahead.pending[ahead.job[w]])
     IN  ahead' = [ahead EXCEPT
           !.results[ahead.job[w]] = EncodedMask(mask),
           !.job[w] = @ + Workers]
  /\ UNCHANGED <<pc, token, layer, stream, group, active, reg, fifo, state, has_state,
                 outs, decrypted, ids, events, rots, verdict>>

Join ==
  /\ ahead.pending # <<>>
  /\ \A w \in DOMAIN ahead.job : ahead.job[w] \notin DOMAIN ahead.pending
  /\ LET Result(p) ==
           ahead.results[CHOOSE i \in DOMAIN ahead.pending : ahead.pending[i] = p]
     IN  ahead' = [ahead EXCEPT
           !.ready = [p \in DOMAIN @ \cup Range(ahead.pending) |->
                        IF p \in Range(ahead.pending) THEN Result(p) ELSE @[p]],
           !.pending = <<>>, !.results = <<>>, !.job = <<>>]
  /\ UNCHANGED <<pc, token, layer, stream, group, active, reg, fifo, state, has_state,
                 outs, decrypted, ids, events, rots, verdict>>

Encode ==
  \/ \E name \in Products : BeginEncode(name)
  \/ Take \/ Prefetch \/ Join
  \/ \E w \in DOMAIN ahead.job : EncodeJob(w)

----------------------------------------------------------------------------
(* The head of a token *)

(* The residual is kept divided by the calibrated scale of its last layer.  *)
FinalOutput(f) ==
  LET scheduled == Scheduled(f.rms)
      scaled == MaybeBootstrap(ScaleCt(reg.hidden, Div(1, f.scale)),
                  IF LoadedPayload.final_norm.kind = "scheduled"
                  THEN KScheduledNormInputRequirement ELSE 12,
                  Point(IF scheduled THEN "final_norm_scheduled" ELSE "final_norm_scaled", 0),
                  active)
      Weighted(ct) == MulMask(ct, <<"final_w">>, FinalVector(LoadedPayload, C, G))
      variance == NormVarianceSum(Square(scaled))
      mean == AddScalar(ScaleCt(variance, Div(f.scale * f.scale, Dims.d_model)),
                        LoadedPayload.final_eps)
      sum == AddScalar(variance, Div(Dims.d_model * LoadedPayload.final_eps,
                                     f.scale * f.scale))
      guess == EvalChebyshev(AddScalar(ScaleCt(sum, f.a_v), f.rms.b), f.coeffs)
  IN  IF scheduled
      THEN MulCt(Weighted(scaled),
                 ScheduledInverse(mean, f.rms, Point("scheduled_norm", 0), active))
      ELSE Weighted(MulCt(scaled,
             NewtonRefine(guess, ScaleCt(sum, -Half), f.rms.iterations,
                          Point("final_newton", 0), active)))

KDecryptHeadroom == 12

Output ==
  IF WholeChain THEN FinalOutput(FinalNorm(LoadedPayload, C))
  ELSE MaybeBootstrap(reg.hidden, Max2(0, KDecryptHeadroom - C.auto_headroom),
                      Point("output", 0), active)

Decrypted(ct) == SubSeq(ct.v, 1, Dims.d_model)

ClientLogit(hidden, id) ==
  LET head == IF LoadedPayload.lm_head = <<>> THEN LoadedPayload.embedding
              ELSE LoadedPayload.lm_head
  IN  R((IF LoadedPayload.lm_bias = <<>> THEN 0 ELSE LoadedPayload.lm_bias[id + 1])
        + SumTo(Dims.d_model, LAMBDA i : head[id + 1][i + 1] * hidden[i + 1]))

(* Only a larger logit replaces the one selected so far. *)
SelectedId(hidden) ==
  FoldRange(LAMBDA best, id :
      IF ClientLogit(hidden, id) > ClientLogit(hidden, best) THEN id ELSE best,
    0, 1, LoadedPayload.vocab - 1)

ClientConsumes == C.loop /\ token >= LoadedPayload.prompt - 1

(* What the client has decrypted is not kept as a ciphertext. *)
Deliver(output, hidden) ==
  /\ IF ClientConsumes
     THEN /\ decrypted' = Append(decrypted, hidden)
          /\ ids' = Append(ids, SelectedId(hidden))
          /\ outs' = Append(outs, NoCt)
     ELSE /\ decrypted' = Append(decrypted, <<>>)
          /\ outs' = Append(outs, Fresh(output))
          /\ UNCHANGED ids
  /\ events' = output.log

Finalize ==
  /\ pc = "final"
  /\ LET output == Output IN Deliver(output, Decrypted(output))
  /\ reg' = NoRegisters
  /\ layer' = 0
  /\ token' = token + 1
  /\ pc' = IF token + 1 < C.tokens THEN "reencrypt"
           ELSE IF Separated(C) THEN "publish" ELSE "compare"
  /\ UNCHANGED <<stream, group, active, fifo, state, has_state, rots, ahead, verdict>>

(* The exported output of the head, or of the last layer loaded. *)
Reference == IF WholeChain THEN LoadedPayload.expected ELSE Layered[Len(Layered)].output

(* All but the last coordinate. *)
TokenRightButLast(t) ==
  LET n == Dims.d_model - 1 IN
  IF decrypted[t] # <<>> THEN SubSeq(decrypted[t], 1, n) = SubSeq(Reference[t], 1, n)
  ELSE \A s \in 0 .. (C.streams - 1) :
         SubSeq(outs[t].v, s * G.stride + 1, s * G.stride + n) = SubSeq(Reference[t], 1, n)

(* Every stream of every token against the one reference. *)
TokenRight(t) ==
  IF decrypted[t] # <<>> THEN decrypted[t] = Reference[t]
  ELSE \A s \in 0 .. (C.streams - 1) :
         SubSeq(outs[t].v, s * G.stride + 1, s * G.stride + Dims.d_model)
           = Reference[t]

IdsRight ==
  C.loop => ids = SubSeq(LoadedPayload.expected_ids, 1,
                         Max2(0, C.tokens - LoadedPayload.prompt + 1))

Compare ==
  /\ pc = "compare"
  /\ verdict' = IF IdsRight /\ \A t \in 1 .. C.tokens : TokenRight(t)
                THEN "passed" ELSE "failed"
  /\ pc' = "done"
  /\ UNCHANGED circuit

(* One step of an evaluating process past its start. *)
Evaluate ==
  \/ /\ Reencrypt \/ ScheduledRefresh \/ EncryptInput \/ LoadInput
        \/ LayerStep \/ Encode \/ Finalize \/ Compare
     /\ UNCHANGED <<invocation, cached, threads>>
=============================================================================
