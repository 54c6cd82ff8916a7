------------------------------ MODULE MaskCache ------------------------------
(***************************************************************************)
(* MaskPlaintextCache (plaintext_cache.hpp): a list of encoded masks, most   *)
(* recently used first, searched by a scan or by a hash index of iterators.  *)
(* A cache is [entries, index, hits, misses, bypasses, evictions].  An entry *)
(* has the number of the miss that made it as its id, which stands for the   *)
(* list iterator the index keeps; a plaintext is the <<mask, level>> it       *)
(* encodes.                                                                *)
(***************************************************************************)
EXTENDS Integers, Sequences, FiniteSets, SequencesExt

CONSTANTS
  CacheCapacity,
  Fingerprint,          \* [scan, indexed |-> mask -> hash or Dense]
  IndexKey              \* <<hash, level>> -> bucket

Dense == 0              \* no fingerprint: the mask is not admitted
EmptyCache == [entries |-> <<>>, index |-> {},
               hits |-> 0, misses |-> 0, bypasses |-> 0, evictions |-> 0]

KeyOf(entry) == IndexKey[<<entry.hash, entry.level>>]

\* Wrong on purpose: trusts the hash and compares no coefficients.
MatchesByHash(entry, request) == entry.hash = request.hash /\ entry.level = request.level
Matches(entry, request) == /\ entry.hash = request.hash
                           /\ entry.level = request.level
                           /\ entry.mask = request.mask

(* Where a request is found: the scan looks everywhere, the index only in    *)
(* the bucket of the request.                                              *)
Found(cache, method, request) ==
  {k \in DOMAIN cache.entries :
     /\ Matches(cache.entries[k], request)
     /\ method = "indexed" => <<KeyOf(request), cache.entries[k].id>> \in cache.index}

\* Wrong on purpose: a hit leaves the entry where it was.
KeepPlace(entries, k) == entries
Promote(entries, k) == <<entries[k]>> \o RemoveAt(entries, k)

\* Wrong on purpose: the evicted entry stays in the index.
Forget(index, old) == index
Unindex(index, old) == index \ {<<KeyOf(old), old.id>>}

Hit(cache, k) ==
  [cache |-> [cache EXCEPT !.hits = @ + 1, !.entries = Promote(@, k)],
   plaintext |-> cache.entries[k].plaintext]

Miss(cache, method, request) ==
  LET full == Len(cache.entries) = CacheCapacity
      entry == [id |-> cache.misses + 1, hash |-> request.hash, level |-> request.level,
                mask |-> request.mask, plaintext |-> <<request.mask, request.level>>]
      kept == IF full THEN Front(cache.entries) ELSE cache.entries
      left == IF full THEN Unindex(cache.index, Last(cache.entries)) ELSE cache.index
  IN  [cache |-> [cache EXCEPT
         !.misses = @ + 1,
         !.evictions = IF full THEN @ + 1 ELSE @,
         !.entries = <<entry>> \o kept,
         !.index = IF method = "indexed" THEN left \cup {<<KeyOf(entry), entry.id>>} ELSE {}],
       plaintext |-> entry.plaintext]

(* get(values, level, encode): the cache and the plaintext it returns. *)
Get(cache, method, mask, level) ==
  LET request == [hash |-> Fingerprint[method][mask], level |-> level, mask |-> mask]
      found == Found(cache, method, request)
  IN  IF CacheCapacity = 0 \/ request.hash = Dense
      THEN [cache |-> [cache EXCEPT !.bypasses = @ + 1], plaintext |-> <<mask, level>>]
      ELSE IF found # {} THEN Hit(cache, CHOOSE k \in found : TRUE)
      ELSE Miss(cache, method, request)
=============================================================================
