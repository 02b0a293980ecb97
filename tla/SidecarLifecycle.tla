--------------------------- MODULE SidecarLifecycle ---------------------------
(***************************************************************************)
(* What a surface may rely on when it shows a sidecar's status: the states *)
(* of SidecarStatus, what leads from one to another, and how often a       *)
(* sidecar that fails is tried again (supervisor.rs, SidecarStatus).       *)
(***************************************************************************)
EXTENDS Naturals

CONSTANT Backoff   \* restarts the policy allows in a row

VARIABLES status, failures

Init == status = "Starting" /\ failures = 0

Up == status = "Starting" /\ status' = "Running" /\ UNCHANGED failures

\* One failure too many disables; only a sidecar that ran forgets the others.
Fail ==
    /\ status \in {"Starting", "Running"}
    /\ failures' \in {failures + 1} \cup (IF status = "Running" THEN {1} ELSE {})
    /\ status' = IF failures' <= Backoff THEN "Restarting" ELSE "Disabled"

Refuse ==
    /\ status \in {"Starting", "Running"}
    /\ status' = "Refused"
    /\ UNCHANGED failures

\* A retry by itself happens only within the backoff.
Retry ==
    /\ status = "Restarting"
    /\ failures \in 1..Backoff
    /\ status' = "Starting"
    /\ failures' \in {0, failures}

Stop ==
    /\ \/ status = "Running" /\ status' = "Stopping"
       \/ status \in {"Stopping", "Restarting", "Disabled", "Refused"} /\ status' = "Stopped"
    /\ UNCHANGED failures

Restart ==
    /\ status \in {"Stopping", "Stopped", "Disabled", "Refused"}
    /\ status' = "Starting"
    /\ failures' = 0

Next == Up \/ Fail \/ Refuse \/ Retry \/ Stop \/ Restart

Spec == Init /\ [][Next]_<<status, failures>>
===============================================================================
