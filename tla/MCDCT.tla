------------------------------- MODULE MCDCT -------------------------------
(* Two callers beside the poller, and one or two routes.                   *)
EXTENDS DCT

CONSTANTS poller, g1, g2, r12, r13

Symmetry == Permutations({g1, g2}) \cup Permutations({r12, r13})
=============================================================================
