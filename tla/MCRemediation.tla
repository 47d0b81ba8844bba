--------------------------- MODULE MCRemediation ---------------------------
(* Instances of Remediation for TLC.                                       *)
EXTENDS Remediation, TLC

CONSTANTS alice, bob

\* The two people are interchangeable.
Symmetry == Permutations(People)

=============================================================================
