------------------------------ MODULE MCIngest ------------------------------
(* Ingest for TLC.                                                         *)
EXTENDS Ingest, TLC

Symmetry == Permutations(Webhooks) \cup Permutations(Workers)

=============================================================================
