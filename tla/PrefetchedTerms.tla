--------------------------- MODULE PrefetchedTerms ---------------------------
(***************************************************************************)
(* The terms of a linear map (linear() of packed_fideslib.cpp): the weights   *)
(* of each term are prepared ahead by a BoundedPrefetch of one worker and     *)
(* two slots, popped in order, and become plaintexts by way of the mask       *)
(* cache.  Weights the cache would not admit are encoded by the worker,       *)
(* masks by the consumer on a miss.  Only the consumer touches the cache.     *)
(***************************************************************************)
EXTENDS SequentialPrefetch, MaskCache

CONSTANTS
  BabyStep,             \* how many rotations of the input, hence of levels, there are
  Inputs                \* what a linear map may be asked: [masks, levels, method],
                        \* method "off", "scan" or "indexed" (--indexed-mask-cache)

ASSUME CacheCapacityAssumption == CacheCapacity \in Nat

VARIABLES
  masks, levels, method, \* the inputs of the map
  cache,                \* plaintext_cache
  terms                 \* the plaintexts multiplied so far

termVars == <<masks, levels, method, cache, terms>>

(* PreparedOperand: what the worker leaves for term k. *)
Prepared(k) ==
  [mask |-> masks[k], level |-> levels[k % BabyStep],
   encoded |-> method = "off" \/ Fingerprint["scan"][masks[k]] = Dense]

Thrown == <<"thrown">>

(* plain_prepared(babies[j], prefetch->pop()).  A level that changed throws. *)
UseItem ==
  LET item == Prepared(Head(queue))
      level == levels[Len(out) % BabyStep]
      got == IF item.level # level THEN [cache |-> cache, plaintext |-> Thrown]
             ELSE IF method = "off" THEN [cache |-> cache, plaintext |-> <<item.mask, item.level>>]
             ELSE Get(cache, method, item.mask, level)
  IN  /\ terms' = Append(terms, got.plaintext)
      /\ cache' = got.cache

TermsInit == /\ Init
             /\ \E input \in Inputs :
                  masks = input.masks /\ levels = input.levels /\ method = input.method
             /\ cache = EmptyCache
             /\ terms = <<>>

TermsNext == /\ Next
             /\ IF out' = out THEN UNCHANGED <<cache, terms>> ELSE UseItem
             /\ UNCHANGED <<masks, levels, method>>

TermsSpec == TermsInit /\ [][TermsNext]_<<vars, termVars>> /\ Fairness

-----------------------------------------------------------------------------
(* Properties *)

(* Every term is multiplied by its own weights encoded at its own level,     *)
(* whatever was prepared ahead, cached, evicted or hashed alike.             *)
TermsRight ==
  /\ Len(terms) = Len(out)
  /\ \A k \in DOMAIN terms : terms[k] = <<masks[k - 1], levels[(k - 1) % BabyStep]>>

(* The terms whose request the cache admits, what they asked for, and when a  *)
(* plaintext was last asked for.                                           *)
Admits(mask) == CacheCapacity # 0 /\ Fingerprint[method][mask] # Dense
AdmittedAt == {k \in DOMAIN terms : Admits(terms[k][1])}
Asked == {terms[k] : k \in AdmittedAt}
LastRequest(r) == Max({k \in DOMAIN terms : terms[k] = r})
Newest(r, s) == LastRequest(r) > LastRequest(s)

(* With or without the index, with or without look-ahead, the cache is the    *)
(* list of the latest distinct requests, newest first, and the counters say   *)
(* what a run without look-ahead would say.                                 *)
CacheIsLatest ==
  method # "off" =>
    LET held == [k \in DOMAIN cache.entries |-> cache.entries[k].plaintext]
        size == Len(cache.entries)
    IN  /\ size = IF Cardinality(Asked) < CacheCapacity THEN Cardinality(Asked)
                  ELSE CacheCapacity
        /\ Range(held) \subseteq Asked
        /\ \A k, l \in DOMAIN held : k < l => Newest(held[k], held[l])
        /\ \A r \in Asked \ Range(held), s \in Range(held) : Newest(s, r)
        /\ cache.evictions = cache.misses - size
        /\ cache.hits + cache.misses = Cardinality(AdmittedAt)
        /\ cache.bypasses = Len(terms) - Cardinality(AdmittedAt)

(* The index has exactly one iterator per entry, under the entry's key: none *)
(* dangles after an eviction, none is lost to a colliding key.              *)
IndexExact ==
  cache.index = IF method = "indexed"
                THEN {<<KeyOf(e), e.id>> : e \in Range(cache.entries)} ELSE {}
=============================================================================
