------------------------ MODULE MCSidecarSupervisor ------------------------
(* SidecarSupervisor, and a request made beside it, on a small instance. *)
EXTENDS SidecarCaller
=============================================================================
