----------------------------- MODULE MCCampaign -----------------------------
(***************************************************************************)
(* A ladder like dgx_spark_replication_ab.json: the second experiment waits  *)
(* for the first and the third for the second, under the conditions of this  *)
(* manifest and of dgx_leveldrop_confirm.json.  The first measures two layer *)
(* counts.                                                                  *)
(***************************************************************************)
EXTENDS Campaign, TLC

MCLayersOf == <<2, 1, 1>>
MCGates == <<[source |-> 0, passed |-> FALSE, decrypts |-> FALSE],
             [source |-> 1, passed |-> TRUE, decrypts |-> TRUE],
             [source |-> 2, passed |-> FALSE, decrypts |-> TRUE]>>

CONSTANTS full, named, bare   \* a profile and two settings

MCSync == (named :> full) @@ (bare :> Unset)
MCPlans == {<<named, named, named>>, <<named, bare, named>>}

(* Two settings that differ in nothing an artifact repeats. *)
SameSync == [s \in Settings |-> full]
EverySetting == {[e \in Experiments |-> s] : s \in Settings}

Interchangeable == Permutations(Sources) \cup Permutations(Binaries)
=============================================================================
