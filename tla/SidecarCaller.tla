----------------------------- MODULE SidecarCaller -----------------------------
(***************************************************************************)
(* A request to a sidecar, made beside the supervisor: the published       *)
(* session is cloned, asked whether it has ended, and given the request,   *)
(* each under a lock of its own; the supervisor may end that session,      *)
(* launch another or be told to stop in between (supervisor.rs,            *)
(* Supervisor::running and ::request; connection.rs, Connection::call).    *)
(***************************************************************************)
EXTENDS SidecarSupervisor

VARIABLES
    asking, \* where the caller is: see Place
    cloned  \* the session it has; 0 for none

callerVars == <<asking, cloned>>

Place == {"idle", "cloned", "looked", "waiting", "refused"}

CallerInit == Init /\ asking = "idle" /\ cloned = 0

\* Shared.connection, under its lock.
Clone ==
    /\ owner = "held"
    /\ asking = "idle"
    /\ cloned' = connection
    /\ asking' = IF connection = 0 THEN "refused" ELSE "cloned"
    /\ UNCHANGED vars

\* is_ended, under the session's.
Look ==
    /\ asking = "cloned"
    /\ asking' = IF cloned \in over THEN "refused" ELSE "looked"
    /\ UNCHANGED <<vars, cloned>>

\* Under the session's lock again: the request enters the table of a session
\* that has not ended.  A deviation trusts what the caller saw.
EntersUnchecked == TRUE
Enters == cloned \notin over

\* The request is made, or is refused as ended.
Begin ==
    /\ asking = "looked"
    /\ IF Enters THEN asking' = "waiting" /\ UNCHANGED cloned
                 ELSE asking' = "idle" /\ cloned' = 0
    /\ UNCHANGED vars

\* What the end of the session sends to whoever waits in it.
Told ==
    /\ asking = "waiting"
    /\ cloned \in over
    /\ asking' = "idle" /\ cloned' = 0
    /\ UNCHANGED vars

\* No permit is free, or the name is reserved; the sidecar answers, the request
\* times out, or its caller drops it.
Return ==
    /\ asking \in {"looked", "waiting"}
    /\ asking' = "idle" /\ cloned' = 0
    /\ UNCHANGED vars

\* RequestError::Unavailable, worded from the status there is by now.
Unavailable ==
    /\ asking = "refused"
    /\ asking' = "idle" /\ cloned' = 0
    /\ UNCHANGED vars

\* A request borrows the supervisor, so a drop waits for it.
CallerNext ==
    \/ Next /\ (owner' # owner => asking = "idle") /\ UNCHANGED callerVars
    \/ Clone \/ Look \/ Begin \/ Told \/ Return \/ Unavailable

CallerSpec == CallerInit /\ [][CallerNext]_<<vars, callerVars>>

\* The end of a session reaches its waiters; an answer, a timeout or the caller
\* owe nothing.
FairCallerSpec == CallerSpec /\ Fairness /\ WF_<<vars, callerVars>>(Told)

-------------------------------------------------------------------------------
\* The run of the latest session is on: its handshake is over, and neither
\* its end nor a stop's has come.
RunIsOn == loc \in {"connected", "running", "reaping", "left", "stopping"}

\* Whatever the supervisor did since the session was cloned, a request is begun
\* only in the latest session and while its run is on: never in one that a
\* restart or a crash has replaced, nor once a stop() has seen its process out,
\* where nobody would answer it (supervisor.rs:290-305, connection.rs:277-285).
NeverStale ==
    [][asking = "looked" /\ asking' = "waiting" =>
          cloned = session /\ RunIsOn]_<<vars, callerVars>>

\* A request whose sidecar's process has gone is told so, by the end of its run:
\* it is not left to its own timeout ("every request still waiting gets `why`",
\* connection.rs:600).
GoneIsTold == asking = "waiting" /\ cloned \notin live ~> asking # "waiting"
================================================================================
