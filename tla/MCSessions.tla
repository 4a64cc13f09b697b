----------------------------- MODULE MCSessions -----------------------------
(* Two clients; a second of two or three milliseconds.                     *)
EXTENDS Sessions, TLC

CONSTANTS a, b

ClientSymmetry == Permutations({a, b})
=============================================================================
