--------------------------- MODULE MCPackedSources ---------------------------
(***************************************************************************)
(* The programs of MCPackedSchedule.  Where node 1 is an output, sources 0   *)
(* and 2 are equal but for the padding and 1 differs from them by a negative *)
(* zero; elsewhere node 0 is the input and the others repeat with period 2.  *)
(***************************************************************************)
EXTENDS PackedSources, MCPackedSchedule

MCSourceData(p) ==
  {[i \in Nodes(p) |->
      IF 1 \in p.outputs
      THEN CASE i = 0 -> <<"one">>
             [] i = 1 -> <<"one", "negzero">>
             [] OTHER -> <<"one", "zero">>
      ELSE IF i = 0 THEN Input
      ELSE IF i % 2 = 1 THEN <<>> ELSE <<"zero", "one">>]}
=============================================================================
