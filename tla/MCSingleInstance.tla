-------------------------- MODULE MCSingleInstance --------------------------
(* Instances of SingleInstance for TLC.                                       *)
EXTENDS SingleInstance

CONSTANTS a, b, c, k1, k2
=============================================================================
