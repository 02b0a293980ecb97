---------------------------- MODULE MCAgentConsent -----------------------------
(* AgentConsent with a chat's call beside a sidecar's job, and one thing that *)
(* goes wrong: a reload, a lock, a read that fails, a caller that goes.       *)
EXTENDS AgentConsent
================================================================================
