--------------------------- MODULE MCSidecarCalls ---------------------------
(* SidecarCalls on a small instance. *)
EXTENDS SidecarCalls
=============================================================================
