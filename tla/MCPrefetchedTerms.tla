-------------------------- MODULE MCPrefetchedTerms --------------------------
(***************************************************************************)
(* Four terms of two rotations.  Masks 1 and 2 have one fingerprint, 3 has   *)
(* another, 4 is dense; mask 1 at level 2 and mask 3 at level 1 share a       *)
(* bucket of the index.                                                    *)
(***************************************************************************)
EXTENDS PrefetchedTerms

\* Masks 1 and 2 are interchangeable, so 1 comes first; one dense term.
MCMasks == {f \in [Indices -> 1 .. 4] :
              /\ \A k \in Indices : f[k] = 2 => \E l \in 0 .. k : f[l] = 1
              /\ Cardinality({k \in Indices : f[k] = 4}) < 2}
OneLevel == [j \in 0 .. 1 |-> 1]
TwoLevels == [j \in 0 .. 1 |-> j + 1]
MCInputs ==
  [masks : MCMasks, levels : {OneLevel}, method : {"scan", "indexed"}]
    \cup [masks : MCMasks, levels : {TwoLevels}, method : {"indexed"}]
    \cup [masks : {[k \in Indices |-> 1]}, levels : {TwoLevels}, method : {"off"}]
MCFingerprint == [m \in {"scan", "indexed"} |-> <<1, 1, 2, Dense>>]
MCIndexKey == [hl \in (1 .. 2) \X (1 .. 2) |-> hl[1] + hl[2]]
=============================================================================
