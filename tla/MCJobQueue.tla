----------------------------- MODULE MCJobQueue -----------------------------
(* JobQueue for TLC.                                                        *)
EXTENDS JobQueue, TLC

CONSTANTS w1, work

MCKindOf == [k \in Keys |-> work]
MCHandles == w1 :> {work}

\* Jobs of the same kind are interchangeable.
Symmetry == Permutations(Keys)

=============================================================================
