---------------------------- MODULE MCLapiClient ----------------------------
(* Two callers of LapiClient for TLC: with liveness there is no symmetry.  *)
EXTENDS LapiClient
=============================================================================
