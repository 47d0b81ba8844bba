------------------------------ MODULE MCVerify ------------------------------
(* Verify for TLC.                                                         *)
EXTENDS Verify

=============================================================================
