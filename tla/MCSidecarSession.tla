-------------------------- MODULE MCSidecarSession --------------------------
(* SidecarSession on a small instance. *)
EXTENDS SidecarSession
=============================================================================
