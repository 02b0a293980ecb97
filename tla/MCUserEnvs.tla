------------------------------ MODULE MCUserEnvs ------------------------------
(* UserEnvs on a small instance. *)
EXTENDS UserEnvs
=============================================================================
