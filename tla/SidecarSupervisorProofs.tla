------------------------ MODULE SidecarSupervisorProofs ------------------------
(***************************************************************************)
(* One process at a time, no session left behind, stops that hold, and a   *)
(* status that keeps what SidecarLifecycle promises: for any callers, any  *)
(* backoff and any number of restarts and crashes.  All of it follows from *)
(* where the supervise task is.                                            *)
(***************************************************************************)
EXTENDS SidecarCaller, FiniteSetTheorems, SequenceTheorems, TLAPS

\* Between two runs, and once a run has seen the exit, no process lives.
Resting == {"starting", "waiting", "backoff"}
Launched == {"handshake", "failing", "up", "connected", "running", "reaping",
             "stopping", "left", "down"}

\* A process belongs to the latest session, which ends before the next starts.
OneRun ==
    /\ loc \in Launched => session \in Session
    /\ live \subseteq {session}
    /\ loc \in Resting \cup {"left", "down"} => live = {}
    /\ SessionsOver
    /\ loc \in {"failing", "down"} => session \in over

\* The published session is the latest, and only while its run may be asked.
Published ==
    /\ connection \in {0, session}
    /\ connection # 0 => loc \in {"connected", "running", "reaping", "left", "stopping", "gone"}
    /\ loc = "gone" => owner = "dropped"

\* The status says where the task is; its failures never pass the backoff
\* while it goes on.
StatusIs ==
    /\ loc \in {"starting", "handshake", "failing", "up", "connected"} =>
          status = "Starting"
    /\ loc \in {"running", "reaping", "left", "down"} => status = "Running"
    /\ loc = "stopping" => status = "Stopping"
    /\ loc = "backoff" => status = "Restarting" /\ failures \in 1..Backoff
    /\ loc = "waiting" => status \in {"Disabled", "Refused", "Stopped"}
    /\ loc \notin {"waiting", "gone"} => failures <= Backoff

Inv == TypeOK /\ OneRun /\ Published /\ StatusIs

LEMMA InitInv == Init => Inv
<1> SUFFICES ASSUME Init PROVE Inv
  OBVIOUS
<1>1. controls \in Seq(Stopper \cup {Restart})
  BY DEF Init
<1>2. TypeOK
  <2>1. 0 \in 0..(Backoff + 1) /\ 0 \in 0..MaxSessions /\ 0 \in 0..MaxRestarts
    BY SupervisorAssumption
  <2> QED  BY <1>1, <2>1 DEF Init, TypeOK, Location, Status
<1>3. OneRun
  BY SupervisorAssumption DEF Init, OneRun, Resting, Launched, SessionsOver, Session
<1>4. Published
  BY DEF Init, Published
<1>5. StatusIs
  BY SupervisorAssumption DEF Init, StatusIs
<1> QED  BY <1>2, <1>3, <1>4, <1>5 DEF Inv

-------------------------------------------------------------------------------
(* Types.                                                                  *)

\* The channel of controls stays one, as its head is taken and its tail added to.
LEMMA ControlsType ==
    ASSUME TypeOK,
           \/ controls' = controls
           \/ controls # <<>> /\ controls' = Tail(controls)
           \/ \E c \in Stopper \cup {Restart} : controls' = Append(controls, c)
    PROVE  controls' \in Seq(Stopper \cup {Restart})
<1>1. controls \in Seq(Stopper \cup {Restart})
  BY DEF TypeOK
<1>2. CASE controls' = controls
  BY <1>1, <1>2
<1>3. CASE controls # <<>> /\ controls' = Tail(controls)
  BY <1>1, <1>3, HeadTailProperties
<1>4. CASE \E c \in Stopper \cup {Restart} : controls' = Append(controls, c)
  BY <1>1, <1>4, AppendProperties
<1> QED  BY <1>2, <1>3, <1>4

LEMMA HeadType ==
    ASSUME TypeOK, controls # <<>> PROVE Head(controls) \in Stopper \cup {Restart}
<1>1. controls \in Seq(Stopper \cup {Restart})
  BY DEF TypeOK
<1> QED  BY <1>1, HeadTailProperties

LEMMA FailType ==
    ASSUME TypeOK, failures <= Backoff, NEW reset \in BOOLEAN, Fail(reset)
    PROVE  /\ failures' \in 1..(Backoff + 1)
           /\ failures' = failures + 1 \/ (reset /\ failures' = 1)
           /\ \/ failures' <= Backoff /\ loc' = "backoff" /\ status' = "Restarting"
              \/ failures' > Backoff /\ loc' = "waiting" /\ status' = "Disabled"
BY SupervisorAssumption DEF Fail, MayRetry, TypeOK

\* What a step may do to the channel.
LEMMA ControlsStep ==
    ASSUME TypeOK, [Next]_vars
    PROVE  controls' \in Seq(Stopper \cup {Restart})
<1>1. \/ controls' = controls
      \/ controls # <<>> /\ controls' = Tail(controls)
      \/ \E c \in Stopper \cup {Restart} : controls' = Append(controls, c)
  BY DEF Next, Supervise, RefuseStart, LaunchFails, Launch, HandshakeExit, HandshakeReader,
     HandshakeFails, HandshakeOk, Failing, Connect, Announce, RunExit, RunReader, Reap,
     RunControl, Leave, Down, Withdraw, StopPatience, StopDone, WaitControl, BackoffSleep,
     RunCheck, Exit, ReaderEnds, CallRestart, CallStop, DropSession, Abort, vars
<1> QED  BY <1>1, ControlsType

LEMMA TypeStep == Inv /\ [Next]_vars => TypeOK'
<1> SUFFICES ASSUME Inv, [Next]_vars PROVE TypeOK'
  OBVIOUS
<1>0. controls' \in Seq(Stopper \cup {Restart})
  BY ControlsStep DEF Inv
<1> DEFINE T == /\ loc \in Location /\ status \in Status
                /\ failures \in 0..(Backoff + 1)
                /\ session \in 0..MaxSessions /\ connection \in 0..MaxSessions
                /\ over \subseteq Session /\ live \subseteq Session /\ killed \subseteq Session
                /\ reader \in {"reading", "violated", "eof", "seen"}
                /\ verdict \in {"none", "failed", "refused"}
                /\ because \in BOOLEAN /\ refused \in BOOLEAN
                /\ handling \in Stopper \cup {Restart, "none"}
                /\ waiting \subseteq Stopper
                /\ restarts \in 0..MaxRestarts
                /\ owner \in {"held", "dropping", "dropped"}
<1>a. T
  BY DEF Inv, TypeOK
<1>b. T' => TypeOK'
  BY <1>0 DEF TypeOK
<1>c. loc \in Launched => session \in Session
  BY DEF Inv, OneRun
<1>d. loc \notin {"waiting", "gone"} => failures <= Backoff
  BY DEF Inv, StatusIs
<1> SUFFICES T'
  BY <1>b
<1>e. \A reset \in BOOLEAN : failures <= Backoff /\ Fail(reset) =>
         loc' \in Location /\ status' \in Status /\ failures' \in 0..(Backoff + 1)
  BY FailType, SupervisorAssumption DEF Inv, Location, Status
<1> USE <1>a, <1>c, <1>d, SupervisorAssumption
    DEF Location, Status, Session, Launched, procVars, runVars, callVars, Again, Refuse, Stopped
<1>1. CASE RefuseStart       BY <1>1 DEF RefuseStart
<1>2. CASE LaunchFails       BY <1>2, <1>e DEF LaunchFails
<1>3. CASE Launch            BY <1>3 DEF Launch
<1>4. CASE HandshakeExit     BY <1>4, <1>e DEF HandshakeExit
<1>5. CASE HandshakeReader   BY <1>5 DEF HandshakeReader, GiveUp
<1>6. CASE HandshakeFails    BY <1>6 DEF HandshakeFails, GiveUp
<1>7. CASE HandshakeOk       BY <1>7 DEF HandshakeOk
<1>8. CASE Failing           BY <1>8, <1>e DEF Failing
<1>9. CASE Connect           BY <1>9 DEF Connect
<1>10. CASE Announce         BY <1>10 DEF Announce
<1>11. CASE RunExit          BY <1>11 DEF RunExit
<1>12. CASE RunReader        BY <1>12 DEF RunReader, StopBecause
<1>13. CASE Reap
  <2>1. CASE Exited   BY <1>13, <2>1 DEF Reap
  <2>2. CASE ~Exited  BY <1>13, <2>2 DEF Reap, StopBecause
  <2> QED  BY <2>1, <2>2
<1>14. CASE RunControl       BY <1>14, HeadType DEF RunControl, Inv
<1>15. CASE Leave            BY <1>15 DEF Leave
<1>16. CASE Down             BY <1>16, <1>e DEF Down
<1>17. CASE Withdraw         BY <1>17 DEF Withdraw
<1>18. CASE StopPatience     BY <1>18 DEF StopPatience
<1>19. CASE StopDone         BY <1>19 DEF StopDone
<1>20. CASE WaitControl      BY <1>20 DEF WaitControl
<1>21. CASE BackoffSleep     BY <1>21 DEF BackoffSleep
<1>22. CASE RunCheck         BY <1>22 DEF RunCheck, StopBecause
<1>23. ASSUME NEW s \in Session, Exit(s) PROVE T'
  BY <1>23 DEF Exit
<1>24. CASE ReaderEnds       BY <1>24 DEF ReaderEnds
<1>25. CASE CallRestart      BY <1>25 DEF CallRestart
<1>26. ASSUME NEW c \in Stopper, CallStop(c) PROVE T'
  BY <1>26 DEF CallStop
<1>27. CASE DropSession      BY <1>27 DEF DropSession
<1>28. CASE Abort            BY <1>28 DEF Abort
<1>29. CASE UNCHANGED vars   BY <1>29 DEF vars
<1> QED
  BY <1>1, <1>2, <1>3, <1>4, <1>5, <1>6, <1>7, <1>8, <1>9, <1>10, <1>11, <1>12, <1>13, <1>14,
     <1>15, <1>16, <1>17, <1>18, <1>19, <1>20, <1>21, <1>22, <1>23, <1>24, <1>25, <1>26, <1>27,
     <1>28, <1>29
  DEF Next, Supervise

-------------------------------------------------------------------------------
(* Where the task is.                                                      *)

\* What one round ends in: the task rests, with the status that says so.
LEMMA FailIs ==
    ASSUME Inv, loc \notin {"waiting", "gone"}, NEW reset \in BOOLEAN, Fail(reset)
    PROVE  /\ loc' \in {"backoff", "waiting"}
           /\ loc' = "backoff" => status' = "Restarting" /\ failures' \in 1..Backoff
           /\ loc' = "waiting" => status' = "Disabled"
BY FailType DEF Inv, StatusIs

LEMMA OneRunStep == Inv /\ [Next]_vars => OneRun'
<1> SUFFICES ASSUME Inv, [Next]_vars PROVE OneRun'
  OBVIOUS
<1>f. \A reset \in BOOLEAN : loc \notin {"waiting", "gone"} /\ Fail(reset) =>
         loc' \in {"backoff", "waiting"}
  BY FailIs
<1>a. OneRun /\ session \in 0..MaxSessions /\ loc \in Location /\ live \subseteq Session
  BY DEF Inv, TypeOK
<1> USE <1>a, SupervisorAssumption
    DEF OneRun, SessionsOver, Session, Launched, Resting, Location, Exited, Gone,
        procVars, runVars, callVars, Again, Refuse, Stopped
<1>1. CASE RefuseStart       BY <1>1 DEF RefuseStart
<1>2. CASE LaunchFails       BY <1>2, <1>f DEF LaunchFails
<1>3. CASE Launch            BY <1>3 DEF Launch
<1>4. CASE HandshakeExit     BY <1>4, <1>f DEF HandshakeExit
<1>5. CASE HandshakeReader   BY <1>5 DEF HandshakeReader, GiveUp
<1>6. CASE HandshakeFails    BY <1>6 DEF HandshakeFails, GiveUp
<1>7. CASE HandshakeOk       BY <1>7 DEF HandshakeOk
<1>8. CASE Failing           BY <1>8, <1>f DEF Failing
<1>9. CASE Connect           BY <1>9 DEF Connect
<1>10. CASE Announce         BY <1>10 DEF Announce
<1>11. CASE RunExit          BY <1>11 DEF RunExit
<1>12. CASE RunReader        BY <1>12 DEF RunReader, StopBecause
<1>13. CASE Reap             BY <1>13 DEF Reap, StopBecause
<1>14. CASE RunControl       BY <1>14 DEF RunControl
<1>15. CASE Leave            BY <1>15 DEF Leave
<1>16. CASE Down             BY <1>16, <1>f DEF Down
<1>17. CASE Withdraw         BY <1>17 DEF Withdraw
<1>18. CASE StopPatience     BY <1>18 DEF StopPatience
<1>19. CASE StopDone         BY <1>19 DEF StopDone
<1>20. CASE WaitControl      BY <1>20 DEF WaitControl
<1>21. CASE BackoffSleep     BY <1>21 DEF BackoffSleep
<1>22. CASE RunCheck         BY <1>22 DEF RunCheck, StopBecause
<1>23. ASSUME NEW s \in Session, Exit(s) PROVE OneRun'
  BY <1>23 DEF Exit
<1>24. CASE ReaderEnds       BY <1>24 DEF ReaderEnds
<1>25. CASE CallRestart      BY <1>25 DEF CallRestart
<1>26. ASSUME NEW c \in Stopper, CallStop(c) PROVE OneRun'
  BY <1>26 DEF CallStop
<1>27. CASE DropSession      BY <1>27 DEF DropSession
<1>28. CASE Abort            BY <1>28 DEF Abort
<1>29. CASE UNCHANGED vars   BY <1>29 DEF vars
<1> QED
  BY <1>1, <1>2, <1>3, <1>4, <1>5, <1>6, <1>7, <1>8, <1>9, <1>10, <1>11, <1>12, <1>13, <1>14,
     <1>15, <1>16, <1>17, <1>18, <1>19, <1>20, <1>21, <1>22, <1>23, <1>24, <1>25, <1>26, <1>27,
     <1>28, <1>29
  DEF Next, Supervise

LEMMA PublishedStep == Inv /\ [Next]_vars => Published'
<1> SUFFICES ASSUME Inv, [Next]_vars PROVE Published'
  OBVIOUS
<1>f. \A reset \in BOOLEAN : loc \notin {"waiting", "gone"} /\ Fail(reset) =>
         loc' \in {"backoff", "waiting"}
  BY FailIs
<1>a. Published /\ loc \in Location /\ owner \in {"held", "dropping", "dropped"}
  BY DEF Inv, TypeOK
<1> USE <1>a DEF Published, Location, procVars, runVars, callVars, Again, Refuse, Stopped
<1>1. CASE RefuseStart       BY <1>1 DEF RefuseStart
<1>2. CASE LaunchFails       BY <1>2, <1>f DEF LaunchFails
<1>3. CASE Launch            BY <1>3 DEF Launch
<1>4. CASE HandshakeExit     BY <1>4, <1>f DEF HandshakeExit
<1>5. CASE HandshakeReader   BY <1>5 DEF HandshakeReader, GiveUp
<1>6. CASE HandshakeFails    BY <1>6 DEF HandshakeFails, GiveUp
<1>7. CASE HandshakeOk       BY <1>7 DEF HandshakeOk
<1>8. CASE Failing           BY <1>8, <1>f DEF Failing
<1>9. CASE Connect           BY <1>9 DEF Connect
<1>10. CASE Announce         BY <1>10 DEF Announce
<1>11. CASE RunExit          BY <1>11 DEF RunExit
<1>12. CASE RunReader        BY <1>12 DEF RunReader, StopBecause
<1>13. CASE Reap             BY <1>13 DEF Reap, StopBecause
<1>14. CASE RunControl       BY <1>14 DEF RunControl
<1>15. CASE Leave            BY <1>15 DEF Leave
<1>16. CASE Down             BY <1>16, <1>f DEF Down
<1>17. CASE Withdraw         BY <1>17 DEF Withdraw
<1>18. CASE StopPatience     BY <1>18 DEF StopPatience
<1>19. CASE StopDone         BY <1>19 DEF StopDone
<1>20. CASE WaitControl      BY <1>20 DEF WaitControl
<1>21. CASE BackoffSleep     BY <1>21 DEF BackoffSleep
<1>22. CASE RunCheck         BY <1>22 DEF RunCheck, StopBecause
<1>23. ASSUME NEW s \in Session, Exit(s) PROVE Published'
  BY <1>23 DEF Exit
<1>24. CASE ReaderEnds       BY <1>24 DEF ReaderEnds
<1>25. CASE CallRestart      BY <1>25 DEF CallRestart
<1>26. ASSUME NEW c \in Stopper, CallStop(c) PROVE Published'
  BY <1>26 DEF CallStop
<1>27. CASE DropSession      BY <1>27 DEF DropSession
<1>28. CASE Abort            BY <1>28 DEF Abort
<1>29. CASE UNCHANGED vars   BY <1>29 DEF vars
<1> QED
  BY <1>1, <1>2, <1>3, <1>4, <1>5, <1>6, <1>7, <1>8, <1>9, <1>10, <1>11, <1>12, <1>13, <1>14,
     <1>15, <1>16, <1>17, <1>18, <1>19, <1>20, <1>21, <1>22, <1>23, <1>24, <1>25, <1>26, <1>27,
     <1>28, <1>29
  DEF Next, Supervise

-------------------------------------------------------------------------------
(* The status, and the steps of SidecarLifecycle.                          *)

\* One step says both: where the task is then, its status is, and what its
\* status did is a step of the lifecycle, or nothing to it.
StatusMoves == StatusIs' /\ [Lifecycle!Next]_<<status, failures>>

LEMMA StatusStep == Inv /\ [Next]_vars => StatusMoves
<1> SUFFICES ASSUME Inv, [Next]_vars PROVE StatusMoves
  OBVIOUS
<1>a. StatusIs /\ loc \in Location /\ failures \in 0..(Backoff + 1)
  BY DEF Inv, TypeOK
<1>l. Lifecycle!Next <=> \/ Lifecycle!Up \/ Lifecycle!Fail \/ Lifecycle!Refuse
                         \/ Lifecycle!Retry \/ Lifecycle!Stop \/ Lifecycle!Restart
  BY DEF Lifecycle!Next
\* A step that moves the task between places of one status.
<1>s. ASSUME UNCHANGED <<status, failures>>, StatusIs' PROVE StatusMoves
  BY <1>s DEF StatusMoves
\* A step that ends a round badly.
<1>f. ASSUME NEW reset \in BOOLEAN, Fail(reset), status \in {"Starting", "Running"},
             loc \notin {"waiting", "gone", "backoff"}, reset => status = "Running"
      PROVE  StatusMoves
  <2>1. /\ failures' \in 1..(Backoff + 1)
        /\ failures' = failures + 1 \/ (reset /\ failures' = 1)
        /\ \/ failures' <= Backoff /\ loc' = "backoff" /\ status' = "Restarting"
           \/ failures' > Backoff /\ loc' = "waiting" /\ status' = "Disabled"
    BY <1>a, <1>f, FailType DEF Inv, StatusIs
  <2>2. Lifecycle!Fail
    BY <1>a, <1>f, <2>1, SupervisorAssumption DEF Lifecycle!Fail
  <2>3. StatusIs'
    BY <1>a, <2>1, SupervisorAssumption DEF StatusIs
  <2> QED  BY <1>l, <2>2, <2>3 DEF StatusMoves
<1>r. ASSUME Refuse, status \in {"Starting", "Running"} PROVE StatusMoves
  <2>1. Lifecycle!Refuse
    BY <1>r DEF Refuse, Lifecycle!Refuse
  <2>2. StatusIs'
    BY <1>r DEF Refuse, StatusIs
  <2> QED  BY <1>l, <2>1, <2>2 DEF StatusMoves
\* The other steps of the lifecycle.
<1>n. ASSUME \/ Lifecycle!Up \/ Lifecycle!Stop \/ Lifecycle!Restart \/ Lifecycle!Retry,
             StatusIs'
      PROVE  StatusMoves
  BY <1>l, <1>n DEF StatusMoves
<1> USE <1>a, SupervisorAssumption DEF StatusIs, Location, procVars, runVars, callVars
<1>1. CASE RefuseStart       BY <1>1, <1>r DEF RefuseStart
<1>2. CASE LaunchFails       BY <1>2, <1>f DEF LaunchFails
<1>3. CASE Launch            BY <1>3, <1>s DEF Launch
<1>4. CASE HandshakeExit     BY <1>4, <1>f DEF HandshakeExit
<1>5. CASE HandshakeReader   BY <1>5, <1>s DEF HandshakeReader, GiveUp
<1>6. CASE HandshakeFails    BY <1>6, <1>s DEF HandshakeFails, GiveUp
<1>7. CASE HandshakeOk       BY <1>7, <1>s DEF HandshakeOk
<1>8. CASE Failing           BY <1>8, <1>f, <1>r DEF Failing
<1>9. CASE Connect           BY <1>9, <1>s DEF Connect
<1>10. CASE Announce
  <2>1. Lifecycle!Up
    BY <1>10 DEF Announce, Lifecycle!Up
  <2> QED  BY <1>10, <1>n, <2>1 DEF Announce
<1>11. CASE RunExit          BY <1>11, <1>s DEF RunExit
<1>12. CASE RunReader        BY <1>12, <1>s DEF RunReader, StopBecause
<1>13. CASE Reap             BY <1>13, <1>s DEF Reap, StopBecause
<1>14. CASE RunControl
  <2>1. Lifecycle!Stop
    BY <1>14 DEF RunControl, Lifecycle!Stop
  <2> QED  BY <1>14, <1>n, <2>1 DEF RunControl
<1>15. CASE Leave            BY <1>15, <1>s DEF Leave
<1>16. CASE Down
  <2>1. CASE Refuse  BY <1>16, <1>r, <2>1 DEF Down
  <2>2. CASE \E reset \in BOOLEAN : Fail(reset)
    BY <1>16, <1>f, <2>2 DEF Down
  <2> QED  BY <1>16, <2>1, <2>2 DEF Down
<1>17. CASE Withdraw         BY <1>17, <1>s DEF Withdraw
<1>18. CASE StopPatience     BY <1>18, <1>s DEF StopPatience
<1>19. CASE StopDone
  <2>1. CASE handling = Restart
    <3>1. Lifecycle!Restart /\ loc' = "starting" /\ failures' = 0 /\ status' = "Starting"
      BY <1>19, <2>1 DEF StopDone, Again, Lifecycle!Restart
    <3> QED  BY <1>n, <3>1
  <2>2. CASE handling # Restart
    <3>1. Lifecycle!Stop /\ loc' = "waiting" /\ status' = "Stopped"
      BY <1>19, <2>2 DEF StopDone, Stopped, Lifecycle!Stop
    <3> QED  BY <1>n, <3>1
  <2> QED  BY <2>1, <2>2
<1>20. CASE WaitControl
  <2>1. CASE Wakes(Head(controls))
    <3>1. loc' = "starting" /\ failures' = 0 /\ status' = "Starting"
      BY <1>20, <2>1 DEF WaitControl, Again
    <3>2. Lifecycle!Restart \/ Lifecycle!Retry
      BY <1>20, <3>1 DEF WaitControl, Lifecycle!Restart, Lifecycle!Retry
    <3> QED  BY <1>n, <3>1, <3>2
  <2>2. CASE ~Wakes(Head(controls))
    <3>1. loc' = "waiting" /\ failures' = failures /\ status' = "Stopped"
      BY <1>20, <2>2 DEF WaitControl, Stopped
    <3>2. Lifecycle!Stop \/ status = "Stopped"
      BY <1>20, <3>1 DEF WaitControl, Lifecycle!Stop
    <3> QED  BY <1>n, <1>s, <3>1, <3>2
  <2> QED  BY <2>1, <2>2
<1>21. CASE BackoffSleep
  <2>1. Lifecycle!Retry
    BY <1>21 DEF BackoffSleep, Again, Lifecycle!Retry
  <2> QED  BY <1>21, <1>n, <2>1 DEF BackoffSleep, Again
<1>22. CASE RunCheck         BY <1>22, <1>s DEF RunCheck, StopBecause
<1>23. ASSUME NEW s \in Session, Exit(s) PROVE StatusMoves
  BY <1>23, <1>s DEF Exit
<1>24. CASE ReaderEnds       BY <1>24, <1>s DEF ReaderEnds
<1>25. CASE CallRestart      BY <1>25, <1>s DEF CallRestart
<1>26. ASSUME NEW c \in Stopper, CallStop(c) PROVE StatusMoves
  BY <1>26, <1>s DEF CallStop
<1>27. CASE DropSession      BY <1>27, <1>s DEF DropSession
<1>28. CASE Abort            BY <1>28, <1>s DEF Abort
<1>29. CASE UNCHANGED vars   BY <1>29, <1>s DEF vars
<1> QED
  BY <1>1, <1>2, <1>3, <1>4, <1>5, <1>6, <1>7, <1>8, <1>9, <1>10, <1>11, <1>12, <1>13, <1>14,
     <1>15, <1>16, <1>17, <1>18, <1>19, <1>20, <1>21, <1>22, <1>23, <1>24, <1>25, <1>26, <1>27,
     <1>28, <1>29
  DEF Next, Supervise

-------------------------------------------------------------------------------
(* What follows.                                                           *)

LEMMA InvStep == Inv /\ [Next]_vars => Inv'
BY TypeStep, OneRunStep, PublishedStep, StatusStep DEF Inv, StatusMoves

LEMMA Invariance == Spec => []Inv
BY InitInv, InvStep, PTL DEF Spec

\* A process is launched only when the one before it is gone, and no session is
\* left open by a run that is over: however the handshake, the run, a stop and
\* the process's own exit interleave (supervise, start, run, stop).
THEOREM OneRunAtATime == Spec => []OneAtATime
<1>1. Inv => OneAtATime
  <2> SUFFICES ASSUME Inv PROVE OneAtATime
    OBVIOUS
  <2>1. TypeOK /\ SessionsOver
    BY DEF Inv, OneRun
  <2>2. Cardinality(live) <= 1
    <3>1. live = {} \/ live = {session}
      BY DEF Inv, OneRun
    <3>2. Cardinality({}) = 0 /\ Cardinality({session}) = 1
      BY FS_EmptySet, FS_Singleton
    <3> QED  BY <3>1, <3>2
  <2> QED  BY <2>1, <2>2 DEF OneAtATime, OneProcess
<1> QED  BY <1>1, Invariance, PTL

\* Disabled, Refused and Stopped are left only for a restart that was asked for,
\* and stop() returns when its process is gone and its session over.
THEOREM StopsHold == Spec => StopsHonoured
<1>1. Inv /\ [Next]_vars =>
         [status' = "Starting" /\ status \in {"Disabled", "Refused", "Stopped"} =>
            controls # <<>> /\ Head(controls) = Restart]_vars
  <2> SUFFICES ASSUME Inv, Next, status' = "Starting",
                      status \in {"Disabled", "Refused", "Stopped"}
               PROVE  controls # <<>> /\ Head(controls) = Restart
    OBVIOUS
  <2>1. WaitControl
    BY DEF Inv, TypeOK, StatusIs, Location, Next, Supervise, RefuseStart, LaunchFails, Launch,
       HandshakeExit, HandshakeReader, HandshakeFails, HandshakeOk, Failing, Connect, Announce,
       RunExit, RunReader, Reap, RunControl, Leave, Down, Withdraw, StopPatience, StopDone,
       BackoffSleep, RunCheck, Exit, ReaderEnds, CallRestart, CallStop, DropSession, Abort
  <2> QED  BY <2>1 DEF WaitControl, Wakes, Stopped
<1>2. Inv /\ [Next]_vars =>
         [waiting' # waiting /\ waiting' \subseteq waiting =>
            live = {} /\ session \in over' \cup {0}]_vars
  <2> SUFFICES ASSUME Inv, Next, waiting' # waiting, waiting' \subseteq waiting
               PROVE  live = {} /\ session \in over' \cup {0}
    OBVIOUS
  <2>1. \/ StopDone \/ WaitControl
    BY DEF Next, Supervise, RefuseStart, LaunchFails, Launch,
       HandshakeExit, HandshakeReader, HandshakeFails, HandshakeOk, Failing, Connect, Announce,
       RunExit, RunReader, Reap, RunControl, Leave, Down, Withdraw, StopPatience,
       BackoffSleep, RunCheck, Exit, ReaderEnds, CallRestart, CallStop, DropSession, Abort,
       callVars
  <2>2. CASE StopDone
    BY <2>2 DEF StopDone, Gone, Exited, Inv, OneRun
  <2>3. CASE WaitControl
    BY <2>3 DEF WaitControl, procVars, Inv, TypeOK, OneRun, SessionsOver, Resting
  <2> QED  BY <2>1, <2>2, <2>3
<1> QED
  BY <1>1, <1>2, Invariance, PTL DEF Spec, StopsHonoured, NoSelfStart, StopMeansEnded

\* Whatever happens underneath, the status a surface shows moves as
\* SidecarStatus promises, and a sidecar that fails is tried again no more often
\* than the backoff allows.
THEOREM KeepsLifecycle == Spec => ImplementsLifecycle
<1>1. Init => Lifecycle!Init
  BY DEF Init, Lifecycle!Init
<1>2. Inv /\ [Next]_vars => [Lifecycle!Next]_<<status, failures>>
  BY StatusStep DEF StatusMoves
<1> QED
  BY <1>1, <1>2, Invariance, PTL DEF Spec, ImplementsLifecycle, Lifecycle!Spec

-------------------------------------------------------------------------------
(* A request beside the supervisor.                                        *)

\* The supervisor runs as it does alone.
LEMMA CallerRuns == CallerSpec => Spec
<1>1. CallerInit => Init
  BY DEF CallerInit
<1>2. [CallerNext]_<<vars, callerVars>> => [Next]_vars
  BY DEF CallerNext, Clone, Look, Begin, Told, Return, Unavailable, callerVars
<1> QED  BY <1>1, <1>2, PTL DEF CallerSpec, Spec

\* An ended session stays ended, and a run that is on is left only by ending its
\* session, or by the supervisor's own end.
LEMMA RunEnds ==
    Inv /\ Next => /\ over \subseteq over'
                   /\ RunIsOn => \/ session' = session /\ (RunIsOn' \/ session \in over')
                                 \/ owner' # owner
<1> SUFFICES ASSUME Inv, Next
             PROVE  /\ over \subseteq over'
                    /\ RunIsOn => \/ session' = session /\ (RunIsOn' \/ session \in over')
                                  \/ owner' # owner
  OBVIOUS
<1>1. over \subseteq over'
  BY DEF Next, Supervise, RefuseStart, LaunchFails, Launch, HandshakeExit, HandshakeReader,
     HandshakeFails, HandshakeOk, Failing, Connect, Announce, RunExit, RunReader, Reap,
     RunControl, Leave, Down, Withdraw, StopPatience, StopDone, WaitControl, BackoffSleep,
     RunCheck, Exit, ReaderEnds, CallRestart, CallStop, DropSession, Abort, procVars,
     GiveUp, StopBecause
<1>2. ASSUME RunIsOn
      PROVE  \/ session' = session /\ (RunIsOn' \/ session \in over')
             \/ owner' # owner
  BY <1>2 DEF RunIsOn, Next, Supervise, RefuseStart, LaunchFails, Launch, HandshakeExit,
     HandshakeReader, HandshakeFails, HandshakeOk, Failing, Connect, Announce, RunExit,
     RunReader, Reap, RunControl, Leave, Down, Withdraw, StopPatience, StopDone, WaitControl,
     BackoffSleep, RunCheck, Exit, ReaderEnds, CallRestart, CallStop, DropSession, Abort,
     procVars, runVars, callVars, StopBecause
<1> QED  BY <1>1, <1>2

\* What a caller holds is the latest session with its run on, or one that has
\* ended since it was cloned.
HasIt == asking \in {"cloned", "looked", "waiting"}
Held ==
    /\ asking # "idle" => owner = "held"
    /\ HasIt => cloned \in over \/ (cloned = session /\ RunIsOn)

LEMMA HeldStep == Inv /\ Held /\ [CallerNext]_<<vars, callerVars>> => Held'
<1> SUFFICES ASSUME Inv, Held, [CallerNext]_<<vars, callerVars>> PROVE Held'
  OBVIOUS
<1>1. ASSUME Next, owner' # owner => asking = "idle", UNCHANGED callerVars PROVE Held'
  BY <1>1, RunEnds DEF Held, HasIt, callerVars
<1>2. CASE Clone
  <2>1. connection # 0 => connection = session /\ RunIsOn
    BY <1>2 DEF Clone, Inv, Published, RunIsOn
  <2>2. UNCHANGED <<over, session, loc, owner>>
    BY <1>2 DEF Clone, vars, procVars, callVars
  <2> QED  BY <1>2, <2>1, <2>2 DEF Clone, Held, HasIt, RunIsOn
<1>3. ASSUME UNCHANGED vars, UNCHANGED cloned, HasIt' => HasIt,
             asking' # "idle" => asking # "idle"
      PROVE  Held'
  BY <1>3 DEF Held, HasIt, RunIsOn, vars, procVars, callVars
<1>4. CASE Look         BY <1>4, <1>3 DEF Look, HasIt
<1>5. CASE asking' = "idle"
  BY <1>5 DEF Held, HasIt
<1>6. CASE Begin        BY <1>6, <1>3, <1>5 DEF Begin, HasIt
<1>7. CASE Told         BY <1>7, <1>5 DEF Told
<1>8. CASE Return       BY <1>8, <1>5 DEF Return
<1>9. CASE Unavailable  BY <1>9, <1>5 DEF Unavailable
<1>10. CASE UNCHANGED <<vars, callerVars>>
  BY <1>10, <1>3 DEF callerVars, HasIt
<1> QED
  BY <1>1, <1>2, <1>4, <1>6, <1>7, <1>8, <1>9, <1>10 DEF CallerNext

\* A request that has been given a published session, and looked at it, is begun
\* only if that session is still the latest and its run is on: between the clone
\* of the session, the look at its end and the begin, the sidecar may crash, be
\* restarted or be stopped (Supervisor::running and ::request, Connection::call).
THEOREM RequestsReachTheLatest == CallerSpec => NeverStale
<1>1. CallerInit => Held
  BY DEF CallerInit, Held, HasIt
<1>2. Inv /\ Held /\ [CallerNext]_<<vars, callerVars>> =>
         [asking = "looked" /\ asking' = "waiting" =>
            cloned = session /\ RunIsOn]_<<vars, callerVars>>
  <2> SUFFICES ASSUME Held, CallerNext, asking = "looked", asking' = "waiting"
               PROVE  cloned = session /\ RunIsOn
    OBVIOUS
  <2>1. Begin
    BY DEF CallerNext, Clone, Look, Told, Return, Unavailable, callerVars
  <2> QED  BY <2>1 DEF Begin, Enters, Held, HasIt
<1> QED  BY <1>1, <1>2, HeldStep, CallerRuns, Invariance, PTL DEF CallerSpec, NeverStale
===============================================================================
