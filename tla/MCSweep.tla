------------------------------ MODULE MCSweep -------------------------------
(* Three configurations, one of them listed twice. *)
EXTENDS Sweep

CONSTANTS p, q
MCConfigs == <<p, q, p>>
=============================================================================
