---------------------------- MODULE Stage1Circuit ----------------------------
(***************************************************************************)
(* The ciphertext operations of the Stage 1 decoder.  A ciphertext is       *)
(* [v, lvl, log]: its slots, its level, and the set of what computed it:    *)
(* <<"rot", k>> for a rotation, <<"pt", key, encoded, consumed>> for a      *)
(* plaintext product or addition with the two levels, and <<"boot", ...>>  *)
(* for a bootstrap.  Level alignment (unity products, drops, or native) is  *)
(* the maximum of two levels: that it also raises an aliased handle is left *)
(* out.  Every product rescales, one level.                                *)
(***************************************************************************)
EXTENDS Stage1Payload

VARIABLES
  run,      \* the name of the invocation
  host,     \* what the program holds from start-up on and only reads (Host)
  cached,   \* the plaintext cache is in use (the reuse check kept it)
  threads   \* effective_encode_threads

invocation == <<run, host>>

C == host.options
LoadedPayload == host.payload
Layered == host.layers
G == host.packing
Layer(k) == Layered[k]
Plan(k) == host.plans[k]
Keys == host.keys
PlainCache == host.cache
WholeChain == FullChain(C, Layered, LoadedPayload)

----------------------------------------------------------------------------
(* Masks that belong to no layer *)

UnitMask(g, slot) == Slots(g.batch, LAMBDA s : IF s = slot THEN 1 ELSE 0)
BlockMask(g, start, length) ==
  Slots(g.batch, LAMBDA s : IF s - start \in 0 .. (length - 1) THEN 1 ELSE 0)
StateSeedMask(g) ==
  Slots(g.batch, LAMBDA s :
    IF s % g.block = 0 /\ s < g.block * Dims.state_size THEN 1 ELSE 0)
StreamBaseMask(g) == Slots(g.batch, LAMBDA s : IF s % g.stride = 0 THEN 1 ELSE 0)

(* A diagonal of the product without replicas, tiled over the streams. *)
SlotBsgsPreMask(g, w, m, n, giant, offset) ==
  Slots(g.batch, LAMBDA s :
    LET o == ((s % g.stride) - giant) % g.stride
    IN  IF o < m /\ o + offset \in 0 .. (n - 1) THEN w[o + 1][o + offset + 1] ELSE 0)

(* The table position (giant-major) of a product and its diagonal. *)
Positions(m, n) == Len(SlotBsgsGiants(m, n)) * BabyStep
DiagonalAt(g, w, m, n, position) ==
  LET giant == SlotBsgsGiants(m, n)[(position \div BabyStep) + 1]
  IN  SlotBsgsPreMask(g, w, m, n, giant, giant + (position % BabyStep))

----------------------------------------------------------------------------
(* The plaintext cache: registrations in order, uses per token, the level   *)
(* each is encoded at, and a greedy choice under the budget.  A plaintext   *)
(* costs one unit per limb that its level leaves.                          *)

PlainBytes(c, level) == c.depth + 1 - level

Entry(key, uses, level, value) ==
  [key |-> key, uses |-> uses, level |-> level, value |-> value]

SharedEntries(g, c, layers) ==
  LET E(key, uses, value) == Entry(key, uses, c.pt_level, value)
      Each(n, Of(_)) == <<>> \o [i \in 1 .. n |-> Of(i - 1)]
      placed == IF c.shared THEN Dims.num_heads ELSE g.group_heads
  IN
  (IF c.rep_blocks
   THEN <<E(<<"bc_source">>, c.streams * layers,
            BlockMask(g, g.b_base, 2 * Dims.state_size)),
          E(<<"state_seed">>, 2 * c.streams * layers, StateSeedMask(g))>>
   ELSE Each(Dims.state_size, LAMBDA i :
          LET slot == g.group_heads * (i \div g.group_heads)
                        + g.block * (i % g.group_heads)
          IN  E(<<"unit", slot>>, 2 * layers, UnitMask(g, slot))))
  \o Each(placed, LAMBDA h : E(<<"unit", h>>,
       (IF c.shared THEN 2 ELSE 2 * g.group_count) * layers, UnitMask(g, h)))
  \o (IF c.shared THEN Each(g.group_count, LAMBDA i :
        E(<<"head_group", i>>, 2 * layers, BlockMask(g, g.block * i, g.block)))
      ELSE <<>>)
  \o (IF c.normalized THEN <<>>
      ELSE Each(g.group_count, LAMBDA i :
             E(<<"xblock", i>>, layers, BlockMask(g, g.block * i, g.block)))
           \o <<E(<<"group">>, g.group_count * layers, BlockMask(g, 0, g.block))>>)

(* The entries of layer k, each used once per token. *)
NormalizedEntries(g, c, L, k) ==
  FlattenSeq(<<>> \o [i \in 1 .. g.group_count |->
    <<Entry(<<"state_x", k, i - 1>>, 1, c.pt_weight_level,
            NormalizedUpdateMask(L, g, c, i - 1)),
      Entry(<<"state_readout", k, i - 1>>, 1, c.pt_weight_level,
            NormalizedReadoutMask(L, g, c, i - 1))>>])

VectorEntries(c, L, plan, k) ==
  LET E(key, value) == Entry(key, 1, c.pt_level, value) IN
  <<>> \o [t \in DOMAIN plan.taps |-> E(<<"tap", k, t - 1>>, plan.taps[t])]
  \o <<E(<<"conv_const", k>>, plan.conv_const), E(<<"gate_mask", k>>, plan.gate_mask),
       E(<<"dt_mask", k>>, plan.dt_mask), E(<<"dt_const", k>>, plan.dt_const)>>
  \o (IF L.joint.on THEN <<E(<<"joint_dt_bias", k>>, plan.joint_dt_bias)>> ELSE <<>>)
  \o <<E(<<"a_vec", k>>, plan.a_vec), E(<<"d_vec", k>>, plan.d_vec)>>

(* Only the first layer's input product starts from a fresh ciphertext. *)
ReplicatedEntries(g, c, plan, k) ==
  LET Masks(name, w, m, n, S, level) ==
        IF S.replicas <= 1 THEN <<>>
        ELSE <<>> \o [i \in 1 .. S.per_replica |->
               Entry(<<name, k, i - 1>>, 1, level,
                     ReplicatedPreMask(w, m, n, i - 1, S, g.batch))]
  IN  Masks("in", plan.in_w, Dims.proj_dim, Dims.d_model, g.rep_in,
            IF k = 1 THEN c.pt_level ELSE c.pt_weight_level)
      \o Masks("out", plan.out_w, Dims.d_model, Dims.d_inner,
               g.rep_out, c.pt_weight_level)

DiagonalEntries(g, c, plan, k) ==
  LET Diagonals(name, w, m, n, S) ==
        IF S.replicas > 1 \/ c.pt_cache # "full" THEN <<>>
        ELSE SelectSeq(<<>> \o [i \in 1 .. Positions(m, n) |->
               Entry(<<name, k, i - 1>>, 1, c.pt_level, DiagonalAt(g, w, m, n, i - 1))],
               LAMBDA e : ~IsZero(e.value))
  IN  Diagonals("in", plan.in_w, Dims.proj_dim, Dims.d_model, g.rep_in)
      \o Diagonals("out", plan.out_w, Dims.d_model, Dims.d_inner,
                   g.rep_out)

FinalVector(p, c, g) ==
  LET w == FinalNorm(p, c).w
  IN  Slots(g.batch, LAMBDA s : IF s < Dims.d_model THEN w[s + 1] ELSE 0)

(* The order decides between entries of equal use. *)
Registrations(c, p, layers, g, plans) ==
  LET All(Of(_)) == FlattenSeq(<<>> \o [k \in DOMAIN layers |-> Of(k)])
  IN  IF c.pt_cache = "off" THEN <<>>
      ELSE SharedEntries(g, c, Len(layers))
           \o (IF c.normalized
               THEN All(LAMBDA k : NormalizedEntries(g, c, layers[k], k)) ELSE <<>>)
           \o (IF c.streams > 1
               THEN <<Entry(<<"streambase">>, 2 * Len(layers), c.pt_level,
                            StreamBaseMask(g))>> ELSE <<>>)
           \o (IF FullChain(c, layers, p)
               THEN <<Entry(<<"final_w">>, 1, c.pt_level,
                            FinalVector(p, c, g))>> ELSE <<>>)
           \o All(LAMBDA k : VectorEntries(c, layers[k], plans[k], k))
           \o All(LAMBDA k : ReplicatedEntries(g, c, plans[k], k))
           \o (IF g.rep_out.replicas > 1
               THEN <<Entry(<<"out_clean">>, Len(layers), c.pt_level,
                            BlockMask(g, 0, Dims.d_model))>> ELSE <<>>)
           \o All(LAMBDA k : DiagonalEntries(g, c, plans[k], k))

(* One entry per key, in order of first registration: uses add up and the   *)
(* lowest level wins.                                                      *)
Merged(entries) ==
  LET First(i) == \A j \in 1 .. (i - 1) : entries[j].key # entries[i].key
      Same(i) == SelectSeq(entries, LAMBDA e : e.key = entries[i].key)
      heads == SelectSeq(<<>> \o [i \in DOMAIN entries |-> i], First)
  IN  <<>> \o [n \in DOMAIN heads |->
        LET same == Same(heads[n]) IN
        [entries[heads[n]] EXCEPT
           !.uses = SumSeq([i \in DOMAIN same |-> same[i].uses]),
           !.level = CHOOSE l \in {same[i].level : i \in DOMAIN same} :
                       \A i \in DOMAIN same : l <= same[i].level]]

(* In this order an entry that does not fit is passed over.  (The two halves *)
(* one after the other; with the budget spent nothing fits any more.)      *)
Greedy(c, order) ==
  LET Takings == [bytes : Nat, chosen : SUBSET Range(order)]
      greedy[taken \in Takings, a \in Nat, b \in Nat] ==
        IF a > b THEN taken
        ELSE IF a = b
        THEN LET bytes == taken.bytes + PlainBytes(c, order[a].level)
             IN  IF bytes > c.pt_budget THEN taken
                 ELSE [bytes |-> bytes, chosen |-> taken.chosen \cup {order[a]}]
        ELSE LET half == greedy[taken, a, (a + b) \div 2]
             IN  IF half.bytes = c.pt_budget THEN half
                 ELSE greedy[half, 1 + (a + b) \div 2, b]
  IN  greedy[[bytes |-> 0, chosen |-> {}], 1, Len(order)].chosen

(* Most used first, in order of registration among equals. *)
Selected(c, entries) ==
  LET numbered == <<>> \o [i \in DOMAIN entries |-> <<entries[i].uses, i>>]
      ranks == SortSeq(numbered, LAMBDA x, y : x[1] > y[1] \/ (x[1] = y[1] /\ x[2] < y[2]))
      order == <<>> \o [i \in DOMAIN ranks |-> entries[ranks[i][2]]]
  IN  Greedy(c, order)

PlainCacheOf(c, registrations) ==
  LET chosen == Selected(c, Merged(registrations))
  IN  [key \in {e.key : e \in chosen} |-> CHOOSE e \in chosen : e.key = key]

----------------------------------------------------------------------------
(* What main derives before the first ciphertext.  Every process of a run   *)
(* derives the same; a refused one derives nothing.                        *)

Host(r) ==
  LET c == Configs[r]
      p == Payloads[c.payload]
      layers == Layers(c)
      g == DerivePacking(Dims, c)
      plans == <<>> \o [k \in DOMAIN layers |-> LayerPlan(layers[k], g, c)]
      loaded == [accepted |-> FALSE, options |-> c, payload |-> p, layers |-> layers,
                 packing |-> <<>>, plans |-> <<>>, keys |-> {}, cache |-> <<>>]
  IN  IF ~Accepted(c) THEN loaded
      ELSE [loaded EXCEPT !.accepted = TRUE, !.packing = g, !.plans = plans,
              !.keys = RotationKeys(c, RotationFrequencies(Dims, g, c)),
              !.cache = PlainCacheOf(c, Registrations(c, p, layers, g, plans))]
=============================================================================
