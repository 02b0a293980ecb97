-------------------------------- MODULE MCHost --------------------------------
(* The two things the host keeps for a caller that may be gone, on small    *)
(* instances: the scan Jobs of one app, two calls of it; and one forward,   *)
(* since forwards share nothing, with one page of its user.  They share no  *)
(* state, so each is explored while the other has not begun.                *)
EXTENDS ScanJobs, ForwardRows

CONSTANTS f1, p1

Forwards == {f1}
OnePage == {p1}

MCInit == ScansInit /\ Init

MCNext ==
    \/ ScansNext /\ Init /\ UNCHANGED vars
    \/ Next /\ ScansInit /\ UNCHANGED scanVars

MCSpec == MCInit /\ [][MCNext]_<<scanVars, vars>> /\ ScansFairness /\ Fairness
===============================================================================
