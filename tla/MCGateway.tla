----------------------------- MODULE MCGateway -----------------------------
(* A coil with its two values.                                             *)
EXTENDS Gateway
=============================================================================
