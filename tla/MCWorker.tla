------------------------------ MODULE MCWorker ------------------------------
(* Instances of Worker for TLC.                                            *)
EXTENDS Worker, TLC

CONSTANTS k1, w1, w2, work

MCKindOf == k1 :> work
MCHandles == [w \in Workers |-> {work}]

=============================================================================
