--------------------------- MODULE SidecarSupervisor ---------------------------
(***************************************************************************)
(* Keeping one sidecar running: launch, handshake, crash and backoff,      *)
(* Stop and Restart from the host, and the supervisor's own end            *)
(* (crates/plugin-host/src/sidecar/supervisor.rs).                         *)
(*                                                                         *)
(* One task, `supervise`, owns the process; its steps are the stretches    *)
(* between two awaits, or between two writes other threads can see.  Each  *)
(* launch has a session, numbered from 1; SidecarSession and SidecarCalls  *)
(* say what its `end` does.                                                *)
(***************************************************************************)
EXTENDS Naturals, Sequences, FiniteSets

CONSTANTS
    Stopper,      \* callers of Supervisor::stop
    Backoff,      \* policy.backoff.len()
    MaxRestarts,  \* bound of the model: calls of Supervisor::restart
    MaxSessions   \* bound of the model: processes that come up

ASSUME SupervisorAssumption ==
    /\ Backoff \in Nat
    /\ MaxRestarts \in Nat
    /\ MaxSessions \in Nat

VARIABLES
    loc,        \* where the supervise task is
    status,     \* Shared.status
    failures,   \* unexpected exits since the sequence last started over
    controls,   \* the control channel: "restart", or the stop() that waits
    session,    \* Shared.session, the latest; 0 before the first
    connection, \* Shared.connection: a session, or 0
    over,       \* sessions that have been ended
    live,       \* sessions whose process has not exited
    killed,     \* sessions whose process has been killed
    reader,     \* the latest session's reader: its end not yet seen, or seen
    verdict,    \* how `start` or `run` is about to return
    because,    \* stopped_because is set
    refused,    \* starting it again would not help
    handling,   \* the control `stop` is being run for
    waiting,    \* stop() calls not yet told
    restarts,   \* restart() calls made
    owner       \* the Supervisor value: "held", being dropped, "dropped"

procVars == <<session, over, live, killed, reader>>
runVars == <<verdict, because, refused, handling>>
callVars == <<waiting, restarts, owner>>
vars == <<loc, status, failures, controls, connection, procVars, runVars, callVars>>

Session == 1..MaxSessions
Restart == "restart"
Location == {"starting", "handshake", "failing", "up", "connected", "running",
             "reaping", "stopping", "left", "down", "waiting", "backoff", "gone"}
Status == {"Starting", "Running", "Restarting", "Disabled", "Refused",
           "Stopping", "Stopped"}

TypeOK ==
    /\ loc \in Location
    /\ status \in Status
    /\ failures \in 0..(Backoff + 1)
    /\ controls \in Seq(Stopper \cup {Restart})
    /\ session \in 0..MaxSessions
    /\ connection \in 0..MaxSessions
    /\ over \subseteq Session /\ live \subseteq Session /\ killed \subseteq Session
    /\ reader \in {"reading", "violated", "eof", "seen"}
    /\ verdict \in {"none", "failed", "refused"}
    /\ because \in BOOLEAN /\ refused \in BOOLEAN
    /\ handling \in Stopper \cup {Restart, "none"}
    /\ waiting \subseteq Stopper
    /\ restarts \in 0..MaxRestarts
    /\ owner \in {"held", "dropping", "dropped"}

Init ==
    /\ loc = "starting"
    /\ status = "Starting"
    /\ failures = 0
    /\ controls = <<>>
    /\ session = 0
    /\ connection = 0
    /\ over = {} /\ live = {} /\ killed = {}
    /\ reader = "seen"
    /\ verdict = "none"
    /\ because = FALSE /\ refused = FALSE
    /\ handling = "none"
    /\ waiting = {}
    /\ restarts = 0
    /\ owner = "held"

-------------------------------------------------------------------------------
(* What one round of `supervise` ends in.                                  *)

\* The top of the loop.
Again == loc' = "starting" /\ status' = "Starting"

\* Started::Refused and Ended::Refused: nothing retries.
Refuse == loc' = "waiting" /\ status' = "Refused" /\ UNCHANGED failures

\* A failure counts toward the backoff; one more than it allows disables.  A
\* run that lasted backoff_reset_after starts the count over.  The deviation
\* allows one restart more.
MayRetryOnceMore(n) == n <= Backoff + 1
MayRetry(n) == n <= Backoff
Fail(reset) ==
    LET n == IF reset THEN 1 ELSE failures + 1
    IN  /\ failures' = n
        /\ IF MayRetry(n) THEN loc' = "backoff" /\ status' = "Restarting"
                          ELSE loc' = "waiting" /\ status' = "Disabled"

\* A deviation: the caller of stop() is told nothing.
StoppedSilently(c) ==
    /\ loc' = "waiting"
    /\ status' = "Stopped"
    /\ UNCHANGED waiting

\* Stopped: the state, then the caller of stop() is told.
Stopped(c) ==
    /\ loc' = "waiting"
    /\ status' = "Stopped"
    /\ waiting' = waiting \ {c}

-------------------------------------------------------------------------------
(* start: launch, then initialize and activate.                            *)

\* No sandbox, a bad data directory, or a launcher that cannot: refused.
RefuseStart ==
    /\ loc = "starting"
    /\ Refuse
    /\ UNCHANGED <<controls, connection, procVars, runVars, callVars>>

LaunchFails ==
    /\ loc = "starting"
    /\ Fail(FALSE)
    /\ UNCHANGED <<controls, connection, procVars, runVars, callVars>>

\* The process is up; its session is published and its reader spawned.
Launch ==
    /\ loc = "starting"
    /\ session + 1 \in Session
    /\ session' = session + 1
    /\ live' = live \cup {session + 1}
    /\ reader' = "reading"
    /\ loc' = "handshake"
    /\ UNCHANGED <<status, failures, controls, connection, over, killed, runVars,
                   callVars>>

\* The biased select: an exit is seen before a violation, that before an answer.
Exited == session \notin live
ReaderEnded == reader \in {"violated", "eof"}

HandshakeExit ==
    /\ loc = "handshake"
    /\ Exited
    /\ over' = over \cup {session}
    /\ Fail(FALSE)
    /\ UNCHANGED <<controls, connection, session, live, killed, reader, runVars,
                   callVars>>

\* The session ends and the process is killed; its exit is still to come.
GiveUp(v) ==
    /\ over' = over \cup {session}
    /\ killed' = killed \cup {session}
    /\ verdict' = v
    /\ loc' = "failing"

HandshakeReader ==
    /\ loc = "handshake"
    /\ ~Exited
    /\ ReaderEnded
    /\ reader' = "seen"
    /\ IF reader = "violated"
       THEN GiveUp("failed")
       ELSE UNCHANGED <<loc, over, killed, verdict>>
    /\ UNCHANGED <<status, failures, controls, connection, session, live, because,
                   refused, handling, callVars>>

\* No common API version, an error, a deadline, or the session ended under it.
HandshakeFails ==
    /\ loc = "handshake"
    /\ ~Exited /\ ~ReaderEnded
    /\ \E v \in {"failed", "refused"} : GiveUp(v)
    /\ UNCHANGED <<status, failures, controls, connection, session, live, reader,
                   because, refused, handling, callVars>>

\* `process.exit().await` of a killed process; a deviation that does not wait.
GoneUnawaited == TRUE
Gone == Exited

Failing ==
    /\ loc = "failing"
    /\ Gone
    /\ verdict' = "none"
    /\ IF verdict = "refused" THEN Refuse ELSE Fail(FALSE)
    /\ UNCHANGED <<controls, connection, procVars, because, refused, handling,
                   callVars>>

HandshakeOk ==
    /\ loc = "handshake"
    /\ ~Exited /\ ~ReaderEnded
    /\ loc' = "up"
    /\ UNCHANGED <<status, failures, controls, connection, procVars, runVars,
                   callVars>>

-------------------------------------------------------------------------------
(* Publishing the session, then the status.                                *)

Connect ==
    /\ loc = "up"
    /\ connection' = session
    /\ loc' = "connected"
    /\ UNCHANGED <<status, failures, controls, procVars, runVars, callVars>>

Announce ==
    /\ loc = "connected"
    /\ status' = "Running"
    /\ loc' = "running"
    /\ because' = FALSE /\ refused' = FALSE
    /\ UNCHANGED <<failures, controls, connection, procVars, verdict, handling,
                   callVars>>

-------------------------------------------------------------------------------
(* run: the biased select over exit, reader, controls and checks.          *)

\* The host stops the process: its session ends, its exit says the rest.
StopBecause(refusing) ==
    /\ over' = over \cup {session}
    /\ killed' = killed \cup {session}
    /\ because' = TRUE
    /\ refused' = refusing

RunExit ==
    /\ loc = "running"
    /\ Exited
    /\ verdict' = IF refused THEN "refused" ELSE "failed"
    /\ loc' = "left"
    /\ UNCHANGED <<status, failures, controls, connection, procVars, because,
                   refused, handling, callVars>>

\* A violation stops it; a closed stdout gives it a moment to exit.
RunReader ==
    /\ loc = "running"
    /\ ~Exited
    /\ ReaderEnded
    /\ reader' = "seen"
    /\ \/ /\ because
          /\ UNCHANGED <<loc, over, killed, because, refused>>
       \/ /\ ~because /\ reader = "violated"
          /\ StopBecause(FALSE)
          /\ UNCHANGED loc
       \/ /\ ~because /\ reader = "eof"
          /\ loc' = "reaping"
          /\ UNCHANGED <<over, killed, because, refused>>
    /\ UNCHANGED <<status, failures, controls, connection, session, live, verdict,
                   handling, callVars>>

Reap ==
    /\ loc = "reaping"
    /\ \/ /\ Exited
          /\ verdict' = "failed"
          /\ loc' = "left"
          /\ UNCHANGED <<over, killed, because, refused>>
       \/ /\ ~Exited
          /\ StopBecause(FALSE)
          /\ loc' = "running"
          /\ UNCHANGED verdict
    /\ UNCHANGED <<status, failures, controls, connection, session, live, reader,
                   handling, callVars>>

\* Stop or Restart: a graceful stop begins.
RunControl ==
    /\ loc = "running"
    /\ ~Exited /\ ~ReaderEnded
    /\ controls # <<>>
    /\ handling' = Head(controls)
    /\ controls' = Tail(controls)
    /\ status' = "Stopping"
    /\ loc' = "stopping"
    /\ UNCHANGED <<failures, connection, procVars, verdict, because, refused, callVars>>

\* A failed health check, or a data directory over its limit, which a restart
\* would not help.
RunCheck ==
    /\ loc = "running"
    /\ ~Exited /\ ~ReaderEnded
    /\ controls = <<>>
    /\ ~because
    /\ \E refusing \in BOOLEAN : StopBecause(refusing)
    /\ UNCHANGED <<loc, status, failures, controls, connection, session, live,
                   reader, verdict, handling, callVars>>

\* The end of `run`: callers lose the session, then it is ended.  A deviation
\* leaves those who wait in it to their timeouts.
LeaveOpen ==
    /\ loc = "left"
    /\ connection' = 0
    /\ loc' = "down"
    /\ UNCHANGED <<status, failures, controls, session, over, live, killed, reader,
                   runVars, callVars>>
Leave ==
    /\ loc = "left"
    /\ connection' = 0
    /\ over' = over \cup {session}
    /\ loc' = "down"
    /\ UNCHANGED <<status, failures, controls, session, live, killed, reader,
                   runVars, callVars>>

Down ==
    /\ loc = "down"
    /\ verdict' = "none"
    /\ IF verdict = "refused" THEN Refuse ELSE \E reset \in BOOLEAN : Fail(reset)
    /\ UNCHANGED <<controls, connection, procVars, because, refused, handling,
                   callVars>>

-------------------------------------------------------------------------------
(* stop, wait_for_restart and the backoff.                                 *)

\* No new requests, after the status says why.
Withdraw ==
    /\ loc = "stopping"
    /\ connection # 0
    /\ connection' = 0
    /\ UNCHANGED <<loc, status, failures, controls, procVars, runVars, callVars>>

\* The grace period is over.
StopPatience ==
    /\ loc = "stopping"
    /\ connection = 0
    /\ ~Exited
    /\ session \notin killed
    /\ killed' = killed \cup {session}
    /\ UNCHANGED <<loc, status, failures, controls, connection, session, over,
                   live, reader, runVars, callVars>>

StopDone ==
    /\ loc = "stopping"
    /\ connection = 0
    /\ Gone
    /\ over' = over \cup {session}
    /\ handling' = "none"
    /\ IF handling = Restart
       THEN Again /\ failures' = 0 /\ UNCHANGED waiting
       ELSE Stopped(handling) /\ UNCHANGED failures
    /\ UNCHANGED <<controls, connection, session, live, killed, reader, verdict,
                   because, refused, restarts, owner>>

\* What leaves a state nothing leaves on its own; a deviation: any control.
WakesAny(c) == TRUE
Wakes(c) == c = Restart

\* A stop that finds it stopped already is told so at once.
WaitControl ==
    /\ loc \in {"waiting", "backoff"}
    /\ controls # <<>>
    /\ controls' = Tail(controls)
    /\ IF Wakes(Head(controls))
       THEN Again /\ failures' = 0 /\ UNCHANGED waiting
       ELSE Stopped(Head(controls)) /\ UNCHANGED failures
    /\ UNCHANGED <<connection, procVars, runVars, restarts, owner>>

\* The delays are positive, so a control that is there when the wait begins is
\* taken first; one that comes with the end of the delay may as well come after.
BackoffSleep ==
    /\ loc = "backoff"
    /\ controls = <<>>
    /\ Again
    /\ UNCHANGED <<failures, controls, connection, procVars, runVars, callVars>>

-------------------------------------------------------------------------------
(* The process, the callers, and Supervisor's Drop.                        *)

Exit(s) ==
    /\ s \in live
    /\ live' = live \ {s}
    /\ UNCHANGED <<loc, status, failures, controls, connection, session, over,
                   killed, reader, runVars, callVars>>

ReaderEnds ==
    /\ reader = "reading"
    /\ reader' \in {"violated", "eof"}
    /\ UNCHANGED <<loc, status, failures, controls, connection, session, over,
                   live, killed, runVars, callVars>>

CallRestart ==
    /\ owner = "held"
    /\ restarts < MaxRestarts
    /\ restarts' = restarts + 1
    /\ controls' = Append(controls, Restart)
    /\ UNCHANGED <<loc, status, failures, connection, procVars, runVars, waiting,
                   owner>>

\* Each caller stops once at a time.
CallStop(c) ==
    /\ owner = "held"
    /\ c \notin waiting
    /\ waiting' = waiting \cup {c}
    /\ controls' = Append(controls, c)
    /\ UNCHANGED <<loc, status, failures, connection, procVars, runVars, restarts,
                   owner>>

\* Drop, which no borrowed stop() outlives: it ends the latest session ...
DropSession ==
    /\ owner = "held"
    /\ waiting = {}
    /\ owner' = "dropping"
    /\ over' = over \cup ({session} \ {0})
    /\ UNCHANGED <<loc, status, failures, controls, connection, session, live,
                   killed, reader, runVars, waiting, restarts>>

\* ... then aborts the task, at its next await; the process handle goes with it.
Abort ==
    /\ owner = "dropping"
    /\ owner' = "dropped"
    /\ loc' = "gone"
    /\ killed' = killed \cup live
    /\ UNCHANGED <<status, failures, controls, connection, session, over, live,
                   reader, runVars, waiting, restarts>>

-------------------------------------------------------------------------------
Supervise ==
    \/ RefuseStart \/ LaunchFails \/ Launch
    \/ HandshakeExit \/ HandshakeReader \/ HandshakeFails \/ HandshakeOk \/ Failing
    \/ Connect \/ Announce
    \/ RunExit \/ RunReader \/ Reap \/ RunControl \/ Leave \/ Down
    \/ Withdraw \/ StopPatience \/ StopDone \/ WaitControl \/ BackoffSleep

Next ==
    \/ Supervise
    \/ RunCheck
    \/ \E s \in Session : Exit(s)
    \/ ReaderEnds
    \/ CallRestart
    \/ \E c \in Stopper : CallStop(c)
    \/ DropSession
    \/ Abort

Spec == Init /\ [][Next]_vars

\* The runtime polls the task, its timers fire, and a killed process exits.
\* Nothing is assumed of a process that was not killed, or of its checks.
Fairness ==
    /\ WF_vars(Supervise)
    /\ \A s \in Session : WF_vars(s \in killed /\ Exit(s))

FairSpec == Spec /\ Fairness

-------------------------------------------------------------------------------
(* What makes the supervisor correct.                                      *)

\* A process is launched only when the one before it is gone: a kill is always
\* followed by the wait for the exit.
OneProcess == Cardinality(live) <= 1

\* No session is left behind: whenever the task is between two runs every
\* session so far has ended, so nobody waits on a process that is gone.
SessionsOver ==
    /\ \A s \in Session : s < session => s \in over
    /\ loc \in {"starting", "waiting", "backoff"} /\ session > 0 => session \in over

\* Of what the supervisor runs there is one at a time.
OneAtATime == TypeOK /\ OneProcess /\ SessionsOver

\* Disabled, Refused and Stopped are left only for a restart someone asked for.
NoSelfStart ==
    [][status' = "Starting" /\ status \in {"Disabled", "Refused", "Stopped"} =>
          controls # <<>> /\ Head(controls) = Restart]_vars

\* stop() "returns once it has ended": its process is gone and its session over.
StopMeansEnded ==
    [][waiting' # waiting /\ waiting' \subseteq waiting =>
          live = {} /\ session \in over' \cup {0}]_vars

\* A stop holds: the sidecar is down when it returns, and stays down.
StopsHonoured == NoSelfStart /\ StopMeansEnded

\* Every stop() returns, even one made while the sidecar keeps crashing, hangs
\* in its handshake, or ignores its shutdown.
StopReturns == \A c \in Stopper : c \in waiting ~> c \notin waiting

\* What SidecarStatus promises of its states, whatever happens underneath.
Lifecycle == INSTANCE SidecarLifecycle WITH
    Backoff <- Backoff, status <- status, failures <- failures
ImplementsLifecycle == Lifecycle!Spec
================================================================================
