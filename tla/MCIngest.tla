------------------------------ MODULE MCIngest ------------------------------
(* Ingest for TLC: two spellings of one entity, one entity that the shared *)
(* schema has, and a spelling of it that the scan cannot read.             *)
EXTENDS Ingest, TLC

CONSTANTS a1, a2, x1, x2

MCKey == (a1 :> "a") @@ (a2 :> "a") @@ (x1 :> "x") @@ (x2 :> "x")

MCBatches == {<<a1>>, <<a2, a2>>, <<x1>>, <<x2>>}
=============================================================================
