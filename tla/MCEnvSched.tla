----------------------------- MODULE MCEnvSched -----------------------------
(* EnvSched for TLC: the configurations give small values to its constants. *)
EXTENDS EnvSched
=============================================================================
