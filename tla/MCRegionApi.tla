---------------------------- MODULE MCRegionApi ----------------------------
(* Small instances of RegionApi for TLC. *)
EXTENDS RegionApi

CONSTANTS t1, t2, t3   \* threads
=============================================================================
