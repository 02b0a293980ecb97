---------------------------- MODULE HostProofs -----------------------------
(***************************************************************************)
(* What the host keeps for a caller that may be gone: the Job of a scan,   *)
(* whose call may be dropped and whose cleanup may be given up, and a      *)
(* port-forward, whose page may be reloaded.  The two parts share no       *)
(* state; their names differ so that one module can extend both            *)
(* specifications.                                                         *)
(***************************************************************************)
EXTENDS ScanJobs, ForwardRows, SequenceTheorems, TLAPS

-----------------------------------------------------------------------------
(* Scan Jobs.  The invariant says of each run where its guard is: with the *)
(* task that creates the Job, in the channel, with the caller, or with the *)
(* cleanup.                                                                *)

\* Where a run's guard can be, and what it then knows.
GuardIs(r) ==
    /\ call[r] = "idle" => maker[r] = "none" /\ cleaner[r] = "none" /\ known[r] = "nothing"
    /\ call[r] = "preparing" => maker[r] = "none" /\ cleaner[r] = "none"
                                /\ known[r] = "nothing"
    /\ call[r] = "waiting" => maker[r] \in {"creating", "sent", "failed"}
    /\ call[r] \in Working => maker[r] = "over" /\ cleaner[r] = "none" /\ known[r] = "owned"
    /\ maker[r] = "none" => cleaner[r] \in {"none", "killed"}
    /\ maker[r] = "creating" =>
           call[r] \in {"waiting", "over"} /\ cleaner[r] = "none" /\ known[r] = "pending"
    /\ maker[r] = "sent" => call[r] = "waiting" /\ cleaner[r] = "none" /\ known[r] = "owned"
    /\ maker[r] = "failed" => call[r] \in {"waiting", "over"}
    /\ cleaner[r] \in Cleaning => known[r] # "nothing"

\* What a run has made: no Job before it is asked for, a file once it is
\* collected, a result once everything is over.
MadeIs(r) ==
    /\ call[r] \in {"idle", "preparing"} => job[r] = "none"
    /\ maker[r] \in {"none", "creating", "sent", "failed"} => file[r] = "none"
    /\ file[r] # "none" /\ call[r] \in Working => call[r] \in {"delete", "confirm"}
    /\ call[r] \in {"delete", "confirm"} => file[r] = "written"
    /\ result[r] = "result" => call[r] = "over" /\ maker[r] = "over" /\ ~Kept(r)

\* A Job that is there has a keeper who knows of it, or one that gave up or died.
JobKept(r) ==
    Present(r) \/ job[r] = "asked" =>
        \/ Kept(r) /\ known[r] # "nothing"
        \/ cleaner[r] \in {"gaveUp", "killed"}

\* A result is of a Job that is gone; a file without a keeper is that of a result,
\* or srelens died over it.
ResultStands(r) ==
    /\ result[r] = "result" => job[r] = "gone" /\ file[r] = "written"
    /\ file[r] = "written" /\ ~Kept(r) => result[r] = "result" \/ cleaner[r] = "killed"

RunInv(r) == GuardIs(r) /\ MadeIs(r) /\ JobKept(r) /\ ResultStands(r)
ScansInv == ScansTypeOK /\ OneScan /\ \A r \in Run : RunInv(r)

\* A step of one run.
StepOf(r) == Take(r) \/ Caller(r) \/ Abandon(r) \/ Maker(r) \/ Cleaner(r)
ClusterOf(r) == Commit(r) \/ End(r) \/ Expire(r) \/ Remove(r) \/ Disappear(r)

LEMMA ScansInitInv == ScansInit => ScansInv
<1> SUFFICES ASSUME ScansInit PROVE ScansInv
  OBVIOUS
<1>1. ScansTypeOK
  BY DEF ScansInit, ScansTypeOK
<1>2. \A r \in Run : ~Kept(r) /\ RunInv(r)
  BY DEF ScansInit, RunInv, GuardIs, MadeIs, JobKept, ResultStands, Kept, Present, Working, Cleaning
<1>3. OneScan
  BY <1>2 DEF ScansInit, OneScan
<1> QED  BY <1>1, <1>2, <1>3 DEF ScansInv

LEMMA TypeStep == ASSUME ScansInv, NEW r \in Run, StepOf(r) PROVE ScansTypeOK'
<1> USE DEF ScansInv, ScansTypeOK, Goes, Cleans, DropGuard, PerhapsDeleting, Leave, Working, Cleaning
<1>0. ASSUME NEW how \in {"over", "gaveUp"}, Leave(r, how)
      PROVE  /\ file' \in [Run -> {"none", "written", "stuck"}]
             /\ cleaner' \in [Run -> {"none", "over", "gaveUp", "killed"} \cup Cleaning]
  <2>1. PICK left \in {"none", "stuck"} :
           file' = [file EXCEPT ![r] = IF @ = "none" THEN @ ELSE left]
    BY <1>0 DEF Leave
  <2>2. file' \in [Run -> {"none", "written", "stuck"}]
    BY <2>1 DEF ScansInv, ScansTypeOK
  <2>3. cleaner' \in [Run -> {"none", "over", "gaveUp", "killed"} \cup Cleaning]
    BY <1>0 DEF Leave, ScansInv, ScansTypeOK
  <2> QED  BY <2>2, <2>3
<1>1. CASE Take(r)         BY <1>1 DEF Take
<1>2. CASE Prepare(r)      BY <1>2 DEF Prepare
<1>3. CASE Unprepared(r)   BY <1>3 DEF Unprepared
<1>4. CASE Created(r)      BY <1>4 DEF Created
<1>5. CASE Refused(r)      BY <1>5 DEF Refused
<1>6. CASE CreateFails(r)  BY <1>6 DEF CreateFails
<1>7. CASE Receive(r)      BY <1>7 DEF Receive
<1>8. CASE SetUp(r)        BY <1>8 DEF SetUp
<1>9. CASE Watch(r)        BY <1>9 DEF Watch
<1>10. CASE Collect(r)     BY <1>10 DEF Collect
<1>11. CASE Delete(r)      BY <1>11 DEF Delete
<1>12. CASE Confirm(r)     BY <1>12 DEF Confirm
<1>13. CASE Fail(r)        BY <1>13 DEF Fail
<1>14. CASE Abandon(r)     BY <1>14 DEF Abandon
<1>15. CASE Recover(r)     BY <1>15 DEF Recover
<1>16. CASE CleanDelete(r) BY <1>16 DEF CleanDelete
<1>17. CASE CleanConfirm(r) BY <1>17, <1>0 DEF CleanConfirm
<1>18. CASE GiveUpCleanup(r) BY <1>18, <1>0 DEF GiveUpCleanup
<1> QED
  BY <1>1, <1>2, <1>3, <1>4, <1>5, <1>6, <1>7, <1>8, <1>9, <1>10, <1>11, <1>12, <1>13,
     <1>14, <1>15, <1>16, <1>17, <1>18 DEF StepOf, Caller, Maker, Cleaner

\* It leaves the other runs alone.
LEMMA OthersStay ==
    ASSUME ScansInv, NEW r \in Run, StepOf(r), NEW s \in Run, s # r
    PROVE  /\ call'[s] = call[s] /\ maker'[s] = maker[s] /\ known'[s] = known[s]
           /\ cleaner'[s] = cleaner[s] /\ job'[s] = job[s] /\ file'[s] = file[s]
           /\ result'[s] = result[s]
BY DEF ScansInv, ScansTypeOK, Goes, Cleans, DropGuard, PerhapsDeleting, Leave, StepOf, Caller, Maker,
       Cleaner, Take, Prepare, Unprepared, Created, Refused, CreateFails, Receive, SetUp,
       Watch, Collect, Delete, Confirm, Fail, Abandon, Recover, CleanDelete, CleanConfirm,
       GiveUpCleanup

\* Its own facts, and what becomes of the slot: taken while it was free, kept,
\* or given back with the guard.
LEMMA OwnStep ==
    ASSUME ScansInv, NEW r \in Run, StepOf(r)
    PROVE  /\ RunInv(r)'
           /\ \/ Kept(r)' /\ ~slot /\ slot'
              \/ (Kept(r)' <=> Kept(r)) /\ slot' = slot
              \/ Kept(r) /\ ~Kept(r)' /\ ~slot'
<1> USE DEF ScansInv, ScansTypeOK, RunInv, GuardIs, MadeIs, JobKept, ResultStands, Kept, Present, Goes,
        Cleans, DropGuard, PerhapsDeleting, Leave, Working, Cleaning
<1>1. CASE Take(r)         BY <1>1 DEF Take
<1>2. CASE Prepare(r)      BY <1>2 DEF Prepare
<1>3. CASE Unprepared(r)   BY <1>3 DEF Unprepared
<1>4. CASE Created(r)      BY <1>4 DEF Created
<1>5. CASE Refused(r)      BY <1>5 DEF Refused
<1>6. CASE CreateFails(r)  BY <1>6 DEF CreateFails
<1>7. CASE Receive(r)      BY <1>7 DEF Receive
<1>8. CASE SetUp(r)        BY <1>8 DEF SetUp
<1>9. CASE Watch(r)        BY <1>9 DEF Watch
<1>10. CASE Collect(r)     BY <1>10 DEF Collect
<1>11. CASE Delete(r)      BY <1>11 DEF Delete
<1>12. CASE Confirm(r)     BY <1>12 DEF Confirm
<1>13. CASE Fail(r)        BY <1>13 DEF Fail
<1>14. CASE Abandon(r)     BY <1>14 DEF Abandon
<1>15. CASE Recover(r)     BY <1>15 DEF Recover
<1>16. CASE CleanDelete(r) BY <1>16 DEF CleanDelete
<1>17. CASE CleanConfirm(r) BY <1>17 DEF CleanConfirm
<1>18. CASE GiveUpCleanup(r) BY <1>18 DEF GiveUpCleanup
<1> QED
  BY <1>1, <1>2, <1>3, <1>4, <1>5, <1>6, <1>7, <1>8, <1>9, <1>10, <1>11, <1>12, <1>13,
     <1>14, <1>15, <1>16, <1>17, <1>18 DEF StepOf, Caller, Maker, Cleaner

LEMMA RunStep == ASSUME ScansInv, NEW r \in Run, StepOf(r) PROVE ScansInv'
<1>1. ASSUME NEW s \in Run, s # r PROVE RunInv(s)' /\ (Kept(s)' <=> Kept(s))
  <2>1. RunInv(s)
    BY DEF ScansInv
  <2>2. /\ call'[s] = call[s] /\ maker'[s] = maker[s] /\ known'[s] = known[s]
        /\ cleaner'[s] = cleaner[s] /\ job'[s] = job[s] /\ file'[s] = file[s]
        /\ result'[s] = result[s]
    BY <1>1, OthersStay
  <2> QED
    BY <2>1, <2>2 DEF RunInv, GuardIs, MadeIs, JobKept, ResultStands, Kept, Present
<1>2. OneScan'
  <2>1. slot <=> \E q \in Run : Kept(q)
    BY DEF ScansInv, OneScan
  <2>2. \A p, q \in Run : Kept(p) /\ Kept(q) => p = q
    BY DEF ScansInv, OneScan
  <2>3. slot \in BOOLEAN /\ slot' \in BOOLEAN
    BY TypeStep DEF ScansInv, ScansTypeOK
  <2> HIDE DEF ScansInv
  <2>4. slot' <=> \E q \in Run : Kept(q)'
    BY <1>1, <2>1, <2>2, <2>3, OwnStep
  <2>5. \A p, q \in Run : Kept(p)' /\ Kept(q)' => p = q
    BY <1>1, <2>1, <2>2, <2>3, OwnStep
  <2> QED  BY <2>4, <2>5 DEF OneScan
<1> QED  BY <1>1, <1>2, TypeStep, OwnStep DEF ScansInv

\* The cluster changes a Job; nobody's guard moves.
LEMMA ClusterStep == ASSUME ScansInv, NEW r \in Run, ClusterOf(r) PROVE ScansInv'
<1>1. UNCHANGED <<local, file, result>>
  BY DEF ClusterOf, Commit, End, Expire, Remove, Disappear, Becomes
<1>2. /\ job' \in [Run -> {"none", "asked", "refused", "running", "ended", "deleting", "gone"}]
      /\ \A s \in Run : \/ job'[s] = job[s]
                        \/ job[s] = "asked" /\ job'[s] = "running"
                        \/ Present(s) /\ job'[s] \in {"ended", "gone"}
  BY DEF ClusterOf, Commit, End, Expire, Remove, Disappear, Becomes, ScansInv, ScansTypeOK, Present
<1>3. ScansTypeOK'
  BY <1>1, <1>2 DEF ScansInv, ScansTypeOK, local
<1>4. \A s \in Run : Kept(s)' <=> Kept(s)
  BY <1>1 DEF Kept, local
<1>5. OneScan'
  BY <1>1, <1>4 DEF ScansInv, OneScan, local
<1>6. ASSUME NEW s \in Run PROVE RunInv(s)'
  BY <1>1, <1>2, <1>4 DEF ScansInv, RunInv, GuardIs, MadeIs, JobKept, ResultStands, Present, local
<1> QED  BY <1>3, <1>5, <1>6 DEF ScansInv

\* srelens dies: whoever had the guard is killed with it.
LEMMA CrashStep == ScansInv /\ Crash => ScansInv'
<1> SUFFICES ASSUME ScansInv, Crash PROVE ScansInv'
  OBVIOUS
<1>1. ScansTypeOK'
  BY DEF ScansInv, ScansTypeOK, Crash, Cleaning, Working
<1>2. \A s \in Run : ~Kept(s)'
  BY DEF ScansInv, ScansTypeOK, Crash, Kept, Cleaning, Working
<1>3. OneScan'
  BY <1>2 DEF Crash, OneScan
<1>4. ASSUME NEW s \in Run PROVE RunInv(s)'
  BY <1>2 DEF Crash, ScansInv, ScansTypeOK, RunInv, GuardIs, MadeIs, JobKept, ResultStands, Kept,
              Present, Cleaning, Working
<1> QED  BY <1>1, <1>3, <1>4 DEF ScansInv

LEMMA Invariance == ScansSpec => []ScansInv
<1>1. ScansInv /\ UNCHANGED scanVars => ScansInv'
  BY DEF ScansInv, scanVars, local, ScansTypeOK, OneScan, RunInv, GuardIs, MadeIs, JobKept, ResultStands,
         Kept, Present
<1>2. ScansInv /\ [ScansNext]_scanVars => ScansInv'
  BY <1>1, RunStep, ClusterStep, CrashStep DEF ScansNext, StepOf, ClusterOf
<1> QED  BY <1>2, ScansInitInv, PTL DEF ScansSpec

\* A Job that is there, or may yet be, has one keeper who knows of it, and an
\* app one scan, whatever is lost, late or dropped (jobs.rs, Cleanup).
THEOREM JobsAreKept == ScansSpec => []OneKeeper
<1>1. ScansInv => OneKeeper
  BY DEF ScansInv, OneKeeper, RunInv, JobKept, JobIsKept
<1> QED  BY <1>1, Invariance, PTL

\* A result is that of a Job that is gone, and has its file; no other run leaves
\* one, unless srelens died over it or the disk kept it (jobs.rs, run_job).
THEOREM ResultsHold == ScansSpec => []ResultsStand
<1>1. ScansInv => ResultsStand
  BY DEF ScansInv, RunInv, ResultStands, ResultsStand
<1> QED  BY <1>1, Invariance, PTL

-----------------------------------------------------------------------------
(* Forward rows.  The invariant says what a page knows of a forward once   *)
(* the host has it, and where each forward is, or is about to be, shown.   *)

\* What the host holds it has put in the map, and an event that says a forward
\* is over goes out once that is recorded.
HostIs(i) ==
    /\ i \in held => start[i] = "listed"
    /\ task[i] \in {"recorded", "done"} => ended[i]

\* What a page knows, it knows of a forward that was put in the map.
PageIs(p, i) ==
    /\ snapshot[p][i] \in {"live", "ended"} => start[i] = "listed"
    /\ snapshot[p][i] = "ended" => ended[i]
    /\ rows[p][i] # <<>> => start[i] = "listed"
    /\ stops[p][i] # "no" => start[i] = "listed"
    /\ stops[p][i] = "done" \/ i \in dropped[p] => i \notin held /\ start[i] = "listed"

\* A page that was told of an end has the row, dead, and listens no more, or its
\* start's answer has added another.
ToldIs(p, i) ==
    /\ i \in watching[p] => rows[p][i] # <<>>
    /\ i \in told[p] =>
         /\ ended[i]
         /\ Len(rows[p][i]) > 1 \/ (rows[p][i] = <<"failed">> /\ i \notin watching[p])

\* An event on its way that says a forward is over is true.
WireIs(p) ==
    \A k \in DOMAIN wire[p] : wire[p][k][2] = "closed" => ended[wire[p][k][1]]

\* Where a forward is, or is about to be, shown.
ShownIs(i) ==
    i \in held \ orphans =>
        \/ by[i] # NoPage
        \/ \E p \in Page :
              rows[p][i] # <<>> \/ WillList(p, i) \/ (p \in blind /\ listing[p] = "no")

Inv ==
    /\ TypeOK
    /\ \A i \in Forward : HostIs(i) /\ ShownIs(i)
    /\ \A p \in Page : WireIs(p)
    /\ \A p \in Page, i \in Forward : PageIs(p, i) /\ ToldIs(p, i)

LEMMA InvShown == Inv => EndIsFinal /\ HeldIsShown
<1> SUFFICES ASSUME Inv PROVE EndIsFinal /\ HeldIsShown
  OBVIOUS
<1>1. HeldIsShown
  BY DEF Inv, TypeOK, HostTypeOK, ShownIs, HeldIsShown
<1>2. ASSUME NEW p \in Page, NEW i \in told[p]
      PROVE  /\ rows[p][i] \in {<<>>, <<"failed">>} \/ DoubledByStart(p, i)
             /\ Entry(i) # "live"
  BY DEF Inv, TypeOK, ToldIs, DoubledByStart, Entry
<1> QED  BY <1>1, <1>2 DEF EndIsFinal, Inv

\* One cell of what the pages keep of the forwards.
LEMMA Cell ==
    ASSUME NEW S, NEW f \in [Page -> [Forward -> S]], NEW p \in Page, NEW i \in Forward,
           NEW s \in S, NEW g, g = [f EXCEPT ![p][i] = s]
    PROVE  /\ g \in [Page -> [Forward -> S]]
           /\ g[p][i] = s
           /\ \A q \in Page, j \in Forward : q # p \/ j # i => g[q][j] = f[q][j]
OBVIOUS

\* A row's statuses, all of them set.
LEMMA AllSet ==
    ASSUME NEW s \in Seq(Status), NEW e \in Status
    PROVE  /\ [k \in DOMAIN s |-> e] \in Seq(Status)
           /\ Len([k \in DOMAIN s |-> e]) = Len(s)
           /\ s # <<>> => [k \in DOMAIN s |-> e] # <<>>
           /\ s = <<>> => [k \in DOMAIN s |-> e] = <<>>
           /\ Len(s) <= 1 /\ s # <<>> => [k \in DOMAIN s |-> e] = <<e>>
OBVIOUS

LEMMA OneMore ==
    ASSUME NEW s \in Seq(Status), NEW e \in Status
    PROVE  /\ Append(s, e) \in Seq(Status) /\ Append(s, e) # <<>>
           /\ s # <<>> => Len(Append(s, e)) > 1
<1>1. Append(s, e) \in Seq(Status) /\ Append(s, e) # <<>> /\ Len(Append(s, e)) = Len(s) + 1
  BY AppendProperties
<1>2. s # <<>> => Len(s) > 0
  BY EmptySeq, LenProperties
<1>3. Len(s) \in Nat
  BY LenProperties
<1> QED  BY <1>1, <1>2, <1>3

\* A page that shows a forward, or will, and still does.
LEMMA StillShown ==
    ASSUME Inv, NEW i \in Forward, i \in held' \ orphans' => i \in held \ orphans,
           by[i] # NoPage => by'[i] # NoPage \/ \E p \in Page : rows'[p][i] # <<>> \/ WillList(p, i)',
           \A p \in Page : rows[p][i] # <<>> \/ WillList(p, i) \/ (p \in blind /\ listing[p] = "no")
              => rows'[p][i] # <<>> \/ WillList(p, i)' \/ (p \in blind' /\ listing'[p] = "no")
    PROVE  ShownIs(i)'
<1>1. ShownIs(i)
  BY DEF Inv
<1> QED  BY <1>1 DEF ShownIs

LEMMA InitInv == Init => Inv
<1> SUFFICES ASSUME Init PROVE Inv
  OBVIOUS
<1>1. HostTypeOK
  BY AttemptsAssumption DEF Init, HostInit, HostTypeOK
<1>2. TypeOK
  BY <1>1, PagesAssumption DEF Init, TypeOK, NoRows, NoEntries, NoStops
<1>3. \A i \in Forward : HostIs(i) /\ ShownIs(i)
  BY DEF Init, HostInit, HostIs, ShownIs
<1>4. \A p \in Page : WireIs(p)
  BY DEF Init, WireIs
<1>5. \A p \in Page, i \in Forward : PageIs(p, i) /\ ToldIs(p, i)
  BY DEF Init, PageIs, ToldIs, NoRows, NoEntries, NoStops
<1> QED  BY <1>2, <1>3, <1>4, <1>5 DEF Inv

\* What an event adds to the wires: a forward that is over, its end recorded.
LEMMA EmitIs ==
    ASSUME TypeOK, NEW i \in Forward, NEW e \in Event, Emit(i, e),
           \A p \in Page : WireIs(p), \A j \in Forward : ended[j] => ended'[j],
           e = "closed" => ended'[i]
    PROVE  /\ wire' \in [Page -> Seq(Forward \X Event)]
           /\ listening' \in [Page -> SUBSET Forward]
           /\ \A p \in Page : WireIs(p)'
<1>1. wire' \in [Page -> Seq(Forward \X Event)]
  BY DEF Emit, TypeOK
<1>2. listening' \in [Page -> SUBSET Forward]
  BY DEF Emit, TypeOK
<1>3. ASSUME NEW p \in Page PROVE WireIs(p)'
  <2>1. WireIs(p) /\ wire[p] \in Seq(Forward \X Event)
    BY DEF TypeOK
  <2>2. \A k \in DOMAIN wire[p] : wire[p][k][1] \in Forward
    BY <2>1
  <2>3. wire'[p] \in {Append(wire[p], <<i, e>>), <<>>, wire[p]}
    BY DEF Emit
  <2>4. CASE wire'[p] = Append(wire[p], <<i, e>>)
    <3>1. ASSUME NEW k \in DOMAIN wire'[p], wire'[p][k][2] = "closed"
          PROVE  ended'[wire'[p][k][1]]
      <4>1. CASE k \in DOMAIN wire[p]
        <5>1. wire'[p][k] = wire[p][k]
          BY <2>1, <2>4, <4>1
        <5> QED  BY <2>1, <2>2, <3>1, <4>1, <5>1 DEF WireIs
      <4>2. CASE k \notin DOMAIN wire[p]
        <5>1. wire'[p][k] = <<i, e>>
          BY <2>1, <2>4, <3>1, <4>2
        <5> QED  BY <3>1, <5>1
      <4> QED  BY <4>1, <4>2
    <3> QED  BY <3>1 DEF WireIs
  <2>5. CASE wire'[p] = <<>>
    BY <2>5 DEF WireIs
  <2>6. CASE wire'[p] = wire[p]
    BY <2>1, <2>2, <2>6 DEF WireIs
  <2> QED  BY <2>3, <2>4, <2>5, <2>6
<1> QED  BY <1>1, <1>2, <1>3

\* A step of the host leaves what is known true.
LEMMA HostStep ==
    ASSUME Inv, HostTypeOK', \A i \in Forward : HostIs(i)', \A p \in Page : WireIs(p)',
           wire' \in [Page -> Seq(Forward \X Event)],
           listening' \in [Page -> SUBSET Forward],
           orphans' \subseteq Forward, orphans \subseteq orphans',
           \A i \in Forward : /\ ended[i] => ended'[i]
                              /\ start[i] = "listed" => start'[i] = "listed" /\ (i \in held' => i \in held)
                              /\ i \in held' \ orphans' => i \in held \/ by[i] # NoPage,
           UNCHANGED <<by, store, asks, blind, reloads>>
    PROVE  Inv'
<1>1. TypeOK'
  BY DEF Inv, TypeOK, store, asks
<1>2. \A i \in Forward : ShownIs(i)'
  BY DEF Inv, ShownIs, WillList, Listed, store, asks
<1>3. ASSUME NEW p \in Page, NEW i \in Forward PROVE PageIs(p, i)' /\ ToldIs(p, i)'
  BY DEF Inv, PageIs, ToldIs, store, asks
<1> QED  BY <1>1, <1>2, <1>3 DEF Inv
LEMMA FailuresType ==
    ASSUME TypeOK, NEW i \in Forward
    PROVE  Failures(i) \in 0..MAX_ATTEMPTS /\ Lost(i) \in {"never", "now", "past"}
BY AttemptsAssumption DEF TypeOK, HostTypeOK, Failures, Lost

\* The task of a forward, without what it sends.
LEMMA TaskHost ==
    ASSUME Inv, NEW i \in Forward,
           \/ Establish(i) \/ Retry(i) \/ GiveUp(i) \/ Close(i) \/ Finish(i) \/ Again(i)
           \/ Record(i) \/ Elapse(i)
    PROVE  /\ HostTypeOK' /\ UNCHANGED <<start, held>>
           /\ \A j \in Forward : HostIs(j)' /\ (ended[j] => ended'[j])
<1> USE FailuresType DEF Inv, HostTypeOK, TypeOK, HostIs
<1>1. CASE Establish(i) \/ Finish(i) \/ Again(i) \/ Close(i)
  <2>1. UNCHANGED <<start, failures, lost, ended, held>>
        /\ \E to \in {"serving", "over", "attempt", "done"} :
              /\ task' = [task EXCEPT ![i] = to]
              /\ to = "done" => task[i] = "recorded"
    BY <1>1 DEF Establish, Finish, Again, Close, Turns
  <2> QED  BY <2>1
<1>2. CASE Retry(i) \/ GiveUp(i)
  <2>1. /\ UNCHANGED <<start, ended, held>>
        /\ failures' = [failures EXCEPT ![i] = Failures(i)]
        /\ lost' = [lost EXCEPT ![i] = Lost(i)]
        /\ \E to \in {"waiting", "over"} : task' = [task EXCEPT ![i] = to]
    BY <1>2 DEF Retry, GiveUp, Fails
  <2> QED  BY <2>1
<1>3. CASE Record(i)
  BY <1>3 DEF Record, Turns
<1>4. CASE Elapse(i)
  BY <1>4 DEF Elapse
<1> QED  BY <1>1, <1>2, <1>3, <1>4

LEMMA TaskStep == ASSUME Inv, NEW i \in Forward, Task(i) PROVE Inv'
<1>1. /\ HostTypeOK' /\ UNCHANGED <<start, held>>
      /\ \A j \in Forward : HostIs(j)' /\ (ended[j] => ended'[j])
  BY TaskHost DEF Task
<1>2. UNCHANGED <<by, store, asks, orphans, blind, reloads>>
  BY DEF Task
<1>3. /\ wire' \in [Page -> Seq(Forward \X Event)]
      /\ listening' \in [Page -> SUBSET Forward]
      /\ \A p \in Page : WireIs(p)'
  <2>1. TypeOK /\ (\A p \in Page : WireIs(p)) /\ HostIs(i)
    BY DEF Inv
  <2>2. CASE UNCHANGED socket
    <3>1. \A p \in Page : WireIs(p)'
      <4> SUFFICES ASSUME NEW p \in Page, NEW k \in DOMAIN wire[p], wire[p][k][2] = "closed"
                   PROVE  ended'[wire[p][k][1]]
        BY <2>2 DEF WireIs, socket
      <4>1. wire[p][k][1] \in Forward
        BY <2>1 DEF TypeOK
      <4> QED  BY <1>1, <2>1, <4>1 DEF WireIs
    <3> QED  BY <2>1, <2>2, <3>1 DEF TypeOK, socket
  <2>3. ASSUME NEW e \in Event, Emit(i, e), e = "closed" => ended'[i] PROVE <1>3!:
    BY <1>1, <2>1, <2>3, EmitIs
  <2>4. Close(i) => ended'[i]
    BY <1>1, <2>1 DEF Close, Turns, HostIs
  <2> QED  BY <2>2, <2>3, <2>4 DEF Task, Event, Status
<1> QED  BY <1>1, <1>2, <1>3, HostStep DEF Inv, TypeOK

LEMMA WindowStep == ASSUME Inv, NEW i \in Forward, Window(i) PROVE Inv'
<1>1. /\ HostTypeOK' /\ UNCHANGED <<start, held>>
      /\ \A j \in Forward : HostIs(j)' /\ (ended[j] => ended'[j])
  BY TaskHost DEF Window
<1>2. UNCHANGED <<ended, by, store, socket, asks, orphans, blind, reloads>>
  BY DEF Window, Elapse
<1>3. \A p \in Page : WireIs(p)'
  BY <1>2 DEF Inv, WireIs, socket
<1> QED  BY <1>1, <1>2, <1>3, HostStep DEF Inv, TypeOK, socket

LEMMA StartStep == ASSUME Inv, NEW i \in Forward, Start(i) PROVE Inv'
<1>1. UNCHANGED <<ended, by, store, socket, asks, blind, reloads>>
  BY DEF Start, Spawn, Insert
<1>2. HostTypeOK' /\ \A j \in Forward : HostIs(j)'
  <2>1. CASE Spawn(i)
    <3>1. /\ UNCHANGED <<failures, lost, ended, held>> /\ start[i] = "asked"
          /\ \E to \in {"spawned", "failed"} : start' = [start EXCEPT ![i] = to]
          /\ UNCHANGED task \/ task' = [task EXCEPT ![i] = "attempt"]
      BY <2>1 DEF Spawn, Starts, Turns
    <3>2. HostTypeOK'
      BY <3>1 DEF Inv, TypeOK, HostTypeOK
    <3>3. ASSUME NEW j \in Forward PROVE HostIs(j)'
      <4>1. HostIs(j) /\ HostTypeOK
        BY DEF Inv, TypeOK
      <4> QED  BY <3>1, <4>1 DEF HostIs, HostTypeOK
    <3> QED  BY <3>2, <3>3
  <2>2. CASE Insert(i)
    BY <2>2 DEF Inv, TypeOK, HostTypeOK, HostIs, Insert, Starts
  <2> QED  BY <2>1, <2>2 DEF Start
<1>3. orphans' \subseteq Forward /\ orphans \subseteq orphans'
  BY DEF Start, Inv, TypeOK
<1>4. ASSUME NEW j \in Forward
      PROVE  /\ start[j] = "listed" => start'[j] = "listed" /\ (j \in held' => j \in held)
             /\ j \in held' \ orphans' => j \in held \/ by[j] # NoPage
  BY DEF Start, Spawn, Insert, Starts, Inv, TypeOK, HostTypeOK
<1>5. \A p \in Page : WireIs(p)'
  BY <1>1 DEF Inv, WireIs, socket
<1> QED  BY <1>1, <1>2, <1>3, <1>4, <1>5, HostStep DEF Inv, TypeOK, socket

LEMMA AskStartStep == ASSUME Inv, NEW p \in Page, NEW i \in Forward, AskStart(p, i) PROVE Inv'
<1>1. /\ UNCHANGED <<task, failures, lost, ended, held, store, socket, asks, orphans,
                     blind, reloads>>
      /\ start[i] = "no" /\ start' = [start EXCEPT ![i] = "asked"]
      /\ by' = [by EXCEPT ![i] = p]
  BY DEF AskStart, Starts
<1>2. TypeOK'
  BY <1>1 DEF Inv, TypeOK, HostTypeOK, store, socket, asks
<1>3. \A q \in Page : WireIs(q)'
  BY <1>1 DEF Inv, WireIs, socket
<1>4. ASSUME NEW j \in Forward PROVE HostIs(j)' /\ ShownIs(j)'
  <2>1. start'[j] = start[j] \/ (start[j] = "no" /\ start'[j] = "asked")
    BY <1>1 DEF Inv, TypeOK, HostTypeOK
  <2>2. HostIs(j)'
    BY <1>1, <2>1 DEF Inv, HostIs
  <2>3. by'[j] = by[j] \/ by'[j] # NoPage
    BY <1>1, PagesAssumption DEF Inv, TypeOK
  <2>4. ShownIs(j)'
    BY <1>1, <2>3 DEF Inv, ShownIs, WillList, Listed, store, asks
  <2> QED  BY <2>2, <2>4
<1>5. ASSUME NEW q \in Page, NEW j \in Forward PROVE PageIs(q, j)' /\ ToldIs(q, j)'
  <2>1. start'[j] = start[j] \/ (start[j] = "no" /\ start'[j] = "asked")
    BY <1>1 DEF Inv, TypeOK, HostTypeOK
  <2> QED  BY <1>1, <2>1 DEF Inv, PageIs, ToldIs, store, asks
<1> QED  BY <1>2, <1>3, <1>4, <1>5 DEF Inv

LEMMA StartedStep == ASSUME Inv, NEW p \in Page, NEW i \in Forward, Started(p, i) PROVE Inv'
<1>1. /\ UNCHANGED <<host, dropped, told, socket, asks, orphans, blind, reloads>>
      /\ by' = [by EXCEPT ![i] = NoPage] /\ start[i] \in {"listed", "failed"}
  BY DEF Started
<1>2. TypeOK /\ HostIs(i)
  BY DEF Inv
<1>3. CASE start[i] = "failed"
  <2>1. UNCHANGED <<rows, watching>> /\ i \notin held
    BY <1>2, <1>3 DEF Started, HostIs
  <2>2. TypeOK'
    BY <1>1, <1>2, <2>1 DEF TypeOK, HostTypeOK, host, socket, asks
  <2>3. \A q \in Page : WireIs(q)'
    BY <1>1 DEF Inv, WireIs, socket, host
  <2>4. ASSUME NEW j \in Forward PROVE HostIs(j)' /\ ShownIs(j)'
    BY <1>1, <1>2, <2>1 DEF Inv, HostIs, ShownIs, WillList, Listed, TypeOK, host, asks
  <2>5. ASSUME NEW q \in Page, NEW j \in Forward PROVE PageIs(q, j)' /\ ToldIs(q, j)'
    BY <1>1, <2>1 DEF Inv, PageIs, ToldIs, host, asks
  <2> QED  BY <2>2, <2>3, <2>4, <2>5 DEF Inv
<1>4. CASE start[i] = "listed"
  <2>1. /\ rows' = [rows EXCEPT ![p][i] = Append(rows[p][i], "active")]
        /\ watching' = [watching EXCEPT ![p] = watching[p] \cup {i}]
    BY <1>4 DEF Started
  <2>2. rows[p][i] \in Seq(Status) /\ Append(rows[p][i], "active") \in Seq(Status)
    BY <1>2, OneMore DEF TypeOK, Status
  <2>3. /\ rows' \in [Page -> [Forward -> Seq(Status)]]
        /\ rows'[p][i] = Append(rows[p][i], "active")
        /\ \A q \in Page, j \in Forward : q # p \/ j # i => rows'[q][j] = rows[q][j]
    BY <1>2, <2>1, <2>2, Cell DEF TypeOK
  <2>4. rows'[p][i] # <<>> /\ (rows[p][i] # <<>> => Len(rows'[p][i]) > 1)
    BY <2>2, <2>3, OneMore DEF Status
  <2>5. TypeOK'
    BY <1>1, <1>2, <2>1, <2>3 DEF TypeOK, HostTypeOK, host, socket, asks
  <2>6. \A q \in Page : WireIs(q)'
    BY <1>1 DEF Inv, WireIs, socket, host
  <2>7. ASSUME NEW j \in Forward PROVE HostIs(j)' /\ ShownIs(j)'
    <3>1. HostIs(j)'
      BY <1>1 DEF Inv, HostIs, host
    <3>2. CASE j = i
      <4>1. /\ \E q \in Page : rows'[q][j] # <<>>
            /\ \A q \in Page : rows[q][j] # <<>> => rows'[q][j] # <<>>
            /\ \A q \in Page : WillList(q, j)' <=> WillList(q, j)
            /\ UNCHANGED <<held, orphans, blind, listing>>
        BY <1>1, <2>3, <2>4, <3>2 DEF WillList, Listed, asks, host
      <4> QED  BY <3>1, <4>1, StillShown
    <3>3. CASE j # i
      <4>1. by'[j] = by[j] /\ \A q \in Page : rows'[q][j] = rows[q][j]
        BY <1>1, <1>2, <2>3, <3>3 DEF TypeOK
      <4>2. \A q \in Page : WillList(q, j)' <=> WillList(q, j)
        BY <1>1 DEF WillList, Listed, asks
      <4>3. UNCHANGED <<held, orphans, blind, listing>>
        BY <1>1 DEF host, asks
      <4> QED  BY <3>1, <4>1, <4>2, <4>3, StillShown
    <3> QED  BY <3>1, <3>2, <3>3
  <2>8. ASSUME NEW q \in Page, NEW j \in Forward PROVE PageIs(q, j)' /\ ToldIs(q, j)'
    <3>1. PageIs(q, j) /\ ToldIs(q, j)
      BY DEF Inv
    <3>2. CASE q = p /\ j = i
      <4>1. PageIs(q, j)'
        BY <1>1, <1>4, <3>1, <3>2 DEF PageIs, host, asks
      <4>2. i \in told[p] => rows[p][i] # <<>>
        BY <3>1, <3>2 DEF ToldIs
      <4>3. ToldIs(q, j)'
        BY <1>1, <2>4, <3>1, <3>2, <4>2 DEF ToldIs, host
      <4> QED  BY <4>1, <4>3
    <3>3. CASE q # p \/ j # i
      <4>1. rows'[q][j] = rows[q][j] /\ (j \in watching'[q] <=> j \in watching[q])
        BY <1>2, <2>1, <2>3, <3>3 DEF TypeOK
      <4> QED  BY <1>1, <3>1, <4>1 DEF PageIs, ToldIs, host, asks
    <3> QED  BY <3>2, <3>3
  <2> QED  BY <2>5, <2>6, <2>7, <2>8 DEF Inv
<1> QED  BY <1>1, <1>3, <1>4

LEMMA AskStopStep == ASSUME Inv, NEW p \in Page, NEW i \in Forward, AskStop(p, i) PROVE Inv'
<1>1. /\ UNCHANGED <<host, by, store, socket, listing, snapshot, orphans, blind, reloads>>
      /\ rows[p][i] # <<>> /\ stops[p][i] = "no"
      /\ stops' = [stops EXCEPT ![p][i] = "asked"]
  BY DEF AskStop
<1>2. /\ stops' \in [Page -> [Forward -> {"no", "asked", "done"}]]
      /\ stops'[p][i] = "asked"
      /\ \A q \in Page, j \in Forward : q # p \/ j # i => stops'[q][j] = stops[q][j]
  BY <1>1, Cell DEF Inv, TypeOK
<1>3. TypeOK'
  BY <1>1, <1>2 DEF Inv, TypeOK, HostTypeOK, host, store, socket
<1>4. \A q \in Page : WireIs(q)'
  BY <1>1 DEF Inv, WireIs, socket, host
<1>5. ASSUME NEW j \in Forward PROVE HostIs(j)' /\ ShownIs(j)'
  BY <1>1 DEF Inv, HostIs, ShownIs, WillList, Listed, host, store
<1>6. ASSUME NEW q \in Page, NEW j \in Forward PROVE PageIs(q, j)' /\ ToldIs(q, j)'
  <2>1. stops'[q][j] = stops[q][j]
        \/ (start[j] = "listed" /\ stops[q][j] = "no" /\ stops'[q][j] = "asked")
    BY <1>1, <1>2 DEF Inv, PageIs
  <2> QED  BY <1>1, <2>1 DEF Inv, PageIs, ToldIs, host, store
<1> QED  BY <1>3, <1>4, <1>5, <1>6 DEF Inv

LEMMA DoStopStep == ASSUME Inv, NEW p \in Page, NEW i \in Forward, DoStop(p, i) PROVE Inv'
<1>1. /\ UNCHANGED <<start, failures, lost, ended, by, store, socket, listing, snapshot,
                     orphans, blind, reloads>>
      /\ stops[p][i] = "asked" /\ stops' = [stops EXCEPT ![p][i] = "done"]
      /\ held' = held \ {i}
      /\ task' = task \/ task' = [task EXCEPT ![i] = "aborted"]
  BY DEF DoStop, Stop
<1>2. /\ stops' \in [Page -> [Forward -> {"no", "asked", "done"}]]
      /\ stops'[p][i] = "done"
      /\ \A q \in Page, j \in Forward : q # p \/ j # i => stops'[q][j] = stops[q][j]
  BY <1>1, Cell DEF Inv, TypeOK
<1>3. TypeOK'
  BY <1>1, <1>2 DEF Inv, TypeOK, HostTypeOK, store, socket
<1>4. \A q \in Page : WireIs(q)'
  BY <1>1 DEF Inv, WireIs, socket
<1>5. ASSUME NEW j \in Forward PROVE HostIs(j)' /\ ShownIs(j)'
  <2>1. task'[j] \in {task[j], "aborted"}
    BY <1>1 DEF Inv, TypeOK, HostTypeOK
  <2> QED  BY <1>1, <2>1 DEF Inv, HostIs, ShownIs, WillList, Listed, store
<1>6. ASSUME NEW q \in Page, NEW j \in Forward PROVE PageIs(q, j)' /\ ToldIs(q, j)'
  <2>1. stops'[q][j] = stops[q][j]
        \/ (j = i /\ stops[q][j] = "asked" /\ stops'[q][j] = "done")
    BY <1>1, <1>2
  <2> QED  BY <1>1, <2>1 DEF Inv, PageIs, ToldIs, store
<1> QED  BY <1>3, <1>4, <1>5, <1>6 DEF Inv

LEMMA StoppedStep == ASSUME Inv, NEW p \in Page, NEW i \in Forward, Stopped(p, i) PROVE Inv'
<1>1. /\ UNCHANGED <<host, by, wire, listing, snapshot, orphans, blind, reloads>>
      /\ stops[p][i] = "done" /\ stops' = [stops EXCEPT ![p][i] = "no"]
      /\ rows' = [rows EXCEPT ![p][i] = <<>>]
      /\ watching' = [watching EXCEPT ![p] = watching[p] \ {i}]
      /\ listening' = [listening EXCEPT ![p] = listening[p] \ {i}]
      /\ dropped' = [dropped EXCEPT ![p] = dropped[p] \cup {i}]
      /\ told' = [told EXCEPT ![p] = told[p] \ {i}]
  BY DEF Stopped
<1>2. TypeOK /\ i \notin held /\ start[i] = "listed"
  BY <1>1 DEF Inv, PageIs
<1>3. /\ stops' \in [Page -> [Forward -> {"no", "asked", "done"}]]
      /\ stops'[p][i] = "no"
      /\ \A q \in Page, j \in Forward : q # p \/ j # i => stops'[q][j] = stops[q][j]
  BY <1>1, <1>2, Cell DEF TypeOK
<1>4. /\ rows' \in [Page -> [Forward -> Seq(Status)]]
      /\ rows'[p][i] = <<>>
      /\ \A q \in Page, j \in Forward : q # p \/ j # i => rows'[q][j] = rows[q][j]
  <2>1. <<>> \in Seq(Status)
    BY EmptySeq
  <2> QED  BY <1>1, <1>2, <2>1, Cell DEF TypeOK
<1>5. TypeOK'
  BY <1>1, <1>2, <1>3, <1>4 DEF TypeOK, HostTypeOK, host
<1>6. \A q \in Page : WireIs(q)'
  BY <1>1 DEF Inv, WireIs, host
<1>7. ASSUME NEW q \in Page, NEW j \in Forward, q # p \/ j # i
      PROVE  /\ rows'[q][j] = rows[q][j] /\ stops'[q][j] = stops[q][j]
             /\ j \in watching'[q] <=> j \in watching[q]
             /\ j \in dropped'[q] <=> j \in dropped[q]
             /\ j \in told'[q] <=> j \in told[q]
  BY <1>1, <1>2, <1>3, <1>4, <1>7 DEF TypeOK
<1>8. ASSUME NEW j \in Forward PROVE HostIs(j)' /\ ShownIs(j)'
  <2>1. HostIs(j)'
    BY <1>1 DEF Inv, HostIs, host
  <2>2. CASE j = i
    BY <1>1, <1>2, <2>1, <2>2 DEF ShownIs, host
  <2>3. CASE j # i
    <3>1. \A q \in Page : rows'[q][j] = rows[q][j] /\ (WillList(q, j)' <=> WillList(q, j))
      BY <1>1, <1>7, <2>3 DEF WillList, Listed
    <3> QED  BY <1>1, <2>1, <3>1, StillShown DEF host
  <2> QED  BY <2>2, <2>3
<1>9. ASSUME NEW q \in Page, NEW j \in Forward PROVE PageIs(q, j)' /\ ToldIs(q, j)'
  <2>1. PageIs(q, j) /\ ToldIs(q, j)
    BY DEF Inv
  <2>2. CASE q = p /\ j = i
    <3>1. i \notin watching'[p] /\ i \notin told'[p]
      BY <1>1, <1>2 DEF TypeOK
    <3> QED  BY <1>1, <1>2, <1>3, <1>4, <2>1, <2>2, <3>1 DEF PageIs, ToldIs, host
  <2>3. CASE q # p \/ j # i
    BY <1>1, <1>7, <2>1, <2>3 DEF PageIs, ToldIs, host
  <2> QED  BY <2>2, <2>3
<1> QED  BY <1>5, <1>6, <1>8, <1>9 DEF Inv

LEMMA ListenStep ==
    ASSUME Inv, NEW p \in Page,
           Outage(p) \/ \E i \in Forward : Listen(p, i)
    PROVE  Inv'
<1>1. UNCHANGED <<host, by, store, asks, orphans, blind, reloads>>
  BY DEF Outage, Listen
<1>2. /\ wire' \in [Page -> Seq(Forward \X Event)]
      /\ listening' \in [Page -> SUBSET Forward]
      /\ \A q \in Page : wire'[q] = wire[q] \/ wire'[q] = <<>>
  <2>1. <<>> \in Seq(Forward \X Event)
    BY EmptySeq
  <2>2. CASE Outage(p)
    BY <2>1, <2>2 DEF Outage, Inv, TypeOK
  <2>3. ASSUME NEW i \in Forward, Listen(p, i) PROVE <1>2!:
    <3>1. wire' = wire /\ listening' = [listening EXCEPT ![p] = listening[p] \cup {i}]
      BY <2>3 DEF Listen
    <3> QED  BY <3>1 DEF Inv, TypeOK
  <2> QED  BY <2>2, <2>3
<1>3. TypeOK'
  BY <1>1, <1>2 DEF Inv, TypeOK, HostTypeOK, host, store, asks
<1>4. ASSUME NEW q \in Page PROVE WireIs(q)'
  BY <1>1, <1>2 DEF Inv, WireIs, host
<1>5. ASSUME NEW j \in Forward PROVE HostIs(j)' /\ ShownIs(j)'
  BY <1>1 DEF Inv, HostIs, ShownIs, WillList, Listed, host, store, asks
<1>6. ASSUME NEW q \in Page, NEW j \in Forward PROVE PageIs(q, j)' /\ ToldIs(q, j)'
  BY <1>1 DEF Inv, PageIs, ToldIs, host, store, asks
<1> QED  BY <1>3, <1>4, <1>5, <1>6 DEF Inv

LEMMA AskListingStep == ASSUME Inv, NEW p \in Page, AskListing(p) PROVE Inv'
<1>1. /\ UNCHANGED <<host, by, store, socket, snapshot, stops, orphans, blind, reloads>>
      /\ listing[p] = "no" /\ listing' = [listing EXCEPT ![p] = "asked"]
  BY DEF AskListing
<1>2. TypeOK'
  BY <1>1 DEF Inv, TypeOK, HostTypeOK, host, store, socket
<1>3. \A q \in Page : WireIs(q)'
  BY <1>1 DEF Inv, WireIs, host, socket
<1>4. ASSUME NEW j \in Forward PROVE HostIs(j)' /\ ShownIs(j)'
  <2>1. HostIs(j)'
    BY <1>1 DEF Inv, HostIs, host
  <2>2. ASSUME NEW q \in Page
        PROVE  IF q = p THEN WillList(q, j)'
               ELSE (WillList(q, j) => WillList(q, j)') /\ listing'[q] = listing[q]
    BY <1>1 DEF Inv, TypeOK, WillList, Listed, store
  <2> QED  BY <1>1, <2>1, <2>2, StillShown DEF host, store
<1>5. ASSUME NEW q \in Page, NEW j \in Forward PROVE PageIs(q, j)' /\ ToldIs(q, j)'
  BY <1>1 DEF Inv, PageIs, ToldIs, host, store
<1> QED  BY <1>2, <1>3, <1>4, <1>5 DEF Inv

LEMMA TakeListingStep == ASSUME Inv, NEW p \in Page, TakeListing(p) PROVE Inv'
<1>1. /\ UNCHANGED <<host, by, store, socket, stops, orphans, blind, reloads>>
      /\ listing[p] = "asked" /\ listing' = [listing EXCEPT ![p] = "taken"]
      /\ snapshot' = [snapshot EXCEPT ![p] = [i \in Forward |-> Entry(i)]]
  BY DEF TakeListing
<1>2. TypeOK'
  <2>1. \A i \in Forward : Entry(i) \in {"ended", "live", "stopped", "absent"}
    BY DEF Entry
  <2> QED  BY <1>1, <2>1 DEF Inv, TypeOK, HostTypeOK, host, store, socket
<1>3. \A q \in Page : WireIs(q)'
  BY <1>1 DEF Inv, WireIs, host, socket
<1>4. /\ \A i \in Forward : snapshot'[p][i] = Entry(i)
      /\ \A q \in Page : q # p => snapshot'[q] = snapshot[q] /\ listing'[q] = listing[q]
      /\ listing'[p] = "taken"
  BY <1>1 DEF Inv, TypeOK
<1>5. ASSUME NEW j \in Forward PROVE HostIs(j)' /\ ShownIs(j)'
  <2>1. HostIs(j)' /\ (j \in held => \A q \in Page : j \notin dropped[q])
    BY <1>1 DEF Inv, HostIs, PageIs, host
  <2>2. j \in held => WillList(p, j)'
    BY <1>1, <1>4, <2>1 DEF WillList, Listed, Entry, store
  <2> QED  BY <1>1, <2>1, <2>2 DEF ShownIs, host
<1>6. ASSUME NEW q \in Page, NEW j \in Forward PROVE PageIs(q, j)' /\ ToldIs(q, j)'
  <2>1. snapshot'[q][j] = snapshot[q][j] \/ snapshot'[q][j] = Entry(j)
    BY <1>4
  <2>2. HostIs(j) /\ PageIs(q, j) /\ ToldIs(q, j)
    BY DEF Inv
  <2> QED  BY <1>1, <2>1, <2>2 DEF HostIs, PageIs, ToldIs, Entry, host, store
<1> QED  BY <1>2, <1>3, <1>5, <1>6 DEF Inv

LEMMA ListingFailsStep == ASSUME Inv, NEW p \in Page, ListingFails(p) PROVE Inv'
<1>1. /\ UNCHANGED <<host, by, store, socket, stops, orphans, reloads>>
      /\ listing' = [listing EXCEPT ![p] = "no"] /\ blind' = blind \cup {p}
      /\ snapshot' = [snapshot EXCEPT ![p] = NoEntries]
  BY DEF ListingFails
<1>2. TypeOK'
  BY <1>1 DEF Inv, TypeOK, HostTypeOK, NoEntries, host, store, socket
<1>3. \A q \in Page : WireIs(q)'
  BY <1>1 DEF Inv, WireIs, host, socket
<1>4. /\ \A i \in Forward : snapshot'[p][i] = "absent"
      /\ \A q \in Page : q # p => snapshot'[q] = snapshot[q] /\ listing'[q] = listing[q]
      /\ listing'[p] = "no"
  BY <1>1 DEF Inv, TypeOK, NoEntries
<1>5. ASSUME NEW j \in Forward PROVE HostIs(j)' /\ ShownIs(j)'
  <2>1. HostIs(j)'
    BY <1>1 DEF Inv, HostIs, host
  <2> QED  BY <1>1, <1>4, <2>1 DEF ShownIs
<1>6. ASSUME NEW q \in Page, NEW j \in Forward PROVE PageIs(q, j)' /\ ToldIs(q, j)'
  <2>1. snapshot'[q][j] = snapshot[q][j] \/ snapshot'[q][j] = "absent"
    BY <1>4
  <2> QED  BY <1>1, <2>1 DEF Inv, PageIs, ToldIs, host, store
<1> QED  BY <1>2, <1>3, <1>5, <1>6 DEF Inv

\* What a listing makes of a page's rows for one forward.
Applied(p, i) ==
    /\ rows'[p][i] \in Seq(Status)
    /\ i \notin Listed(p) => rows'[p][i] = rows[p][i]
    /\ i \in Listed(p) \/ rows[p][i] # <<>> => rows'[p][i] # <<>>
    /\ i \in ListedDead(p) => rows'[p][i] = <<"failed">> \/ Len(rows'[p][i]) > 1
    /\ rows[p][i] = <<"failed">> => rows'[p][i] = <<"failed">>
    /\ Len(rows[p][i]) > 1 => Len(rows'[p][i]) > 1

LEMMA ListingApplied ==
    ASSUME Inv, NEW p \in Page, NEW i \in Forward, ApplyListing(p)
    PROVE  Applied(p, i)
<1> DEFINE s == rows[p][i]
<1>1. s \in Seq(Status) /\ rows \in [Page -> [Forward -> Seq(Status)]]
  BY DEF Inv, TypeOK
<1>2. rows'[p][i] = IF i \notin Listed(p) THEN s
                    ELSE IF s = <<>> THEN <<AsListed(p, i)>>
                    ELSE IF i \in ListedDead(p) THEN Dead(s) ELSE s
  BY <1>1 DEF ApplyListing
<1> HIDE DEF s
<1>3. /\ Dead(s) \in Seq(Status) /\ Len(Dead(s)) = Len(s)
      /\ s # <<>> => Dead(s) # <<>>
      /\ Len(s) <= 1 /\ s # <<>> => Dead(s) = <<"failed">>
  BY <1>1, AllSet DEF Dead, Status
<1>4. /\ <<AsListed(p, i)>> \in Seq(Status) /\ <<AsListed(p, i)>> # <<>>
      /\ i \in ListedDead(p) => <<AsListed(p, i)>> = <<"failed">>
  BY DEF AsListed, Status
<1>5. Len(s) \in Nat /\ Len(<<>>) = 0 /\ Len(<<"failed">>) = 1 /\ <<"failed">> # <<>>
  BY <1>1, LenProperties
<1>6. i \in ListedDead(p) => i \in Listed(p)
  BY DEF ListedDead
<1>7. rows[p][i] = s
  BY DEF s
<1>8. CASE i \notin Listed(p)
  BY <1>1, <1>2, <1>6, <1>7, <1>8 DEF Applied
<1>9. CASE i \in Listed(p) /\ s = <<>>
  BY <1>2, <1>4, <1>5, <1>7, <1>9 DEF Applied
<1>10. CASE i \in ListedDead(p) /\ s # <<>>
  BY <1>2, <1>3, <1>5, <1>6, <1>7, <1>10 DEF Applied
<1>11. CASE i \in Listed(p) \ ListedDead(p) /\ s # <<>>
  BY <1>1, <1>2, <1>7, <1>11 DEF Applied
<1> QED  BY <1>8, <1>9, <1>10, <1>11

LEMMA ApplyListingStep == ASSUME Inv, NEW p \in Page, ApplyListing(p) PROVE Inv'
<1>1. /\ UNCHANGED <<host, by, dropped, wire, stops, orphans, reloads>>
      /\ listing[p] = "taken" /\ listing' = [listing EXCEPT ![p] = "no"]
      /\ snapshot' = [snapshot EXCEPT ![p] = NoEntries]
      /\ watching' = [watching EXCEPT ![p] =
             (watching[p] \ ListedDead(p))
             \cup {i \in Listed(p) \ ListedDead(p) : rows[p][i] = <<>>}]
      /\ listening' = [listening EXCEPT ![p] = listening[p] \ ListedDead(p)]
      /\ told' = [told EXCEPT ![p] = told[p] \cup ListedDead(p)]
      /\ blind' = blind \ {p}
  BY DEF ApplyListing
<1>2. TypeOK /\ ListedDead(p) \subseteq Listed(p) /\ Listed(p) \subseteq Forward
  BY DEF Inv, Listed, ListedDead
<1>3. /\ \A i \in Forward : Applied(p, i)
      /\ \A q \in Page : q # p => rows'[q] = rows[q]
      /\ rows' \in [Page -> [Forward -> Seq(Status)]]
  <2>1. \A i \in Forward : Applied(p, i)
    BY ListingApplied
  <2>2. \E f : rows' = [rows EXCEPT ![p] = [i \in Forward |-> f[i]]]
    <3> DEFINE f == [i \in Forward |-> IF i \notin Listed(p) THEN rows[p][i]
                        ELSE IF rows[p][i] = <<>> THEN <<AsListed(p, i)>>
                        ELSE IF i \in ListedDead(p) THEN Dead(rows[p][i]) ELSE rows[p][i]]
    <3>1. rows' = [rows EXCEPT ![p] = [i \in Forward |-> f[i]]]
      BY DEF ApplyListing
    <3> HIDE DEF f
    <3> QED  BY <3>1
  <2>3. PICK f : rows' = [rows EXCEPT ![p] = [i \in Forward |-> f[i]]]
    BY <2>2
  <2>4. \A i \in Forward : rows'[p][i] = f[i]
    BY <1>2, <2>3 DEF TypeOK
  <2> QED  BY <1>2, <2>1, <2>3, <2>4 DEF Applied, TypeOK
<1>4. /\ \A q \in Page : q # p => /\ snapshot'[q] = snapshot[q] /\ listing'[q] = listing[q]
                                  /\ watching'[q] = watching[q] /\ told'[q] = told[q]
      /\ \A i \in Forward : snapshot'[p][i] = "absent"
      /\ watching'[p] = (watching[p] \ ListedDead(p))
                        \cup {i \in Listed(p) \ ListedDead(p) : rows[p][i] = <<>>}
      /\ told'[p] = told[p] \cup ListedDead(p)
  BY <1>1, <1>2 DEF TypeOK, NoEntries
<1>5. TypeOK'
  <2>1. snapshot' \in [Page -> [Forward -> {"ended", "live", "stopped", "absent"}]]
    BY <1>1, <1>2 DEF TypeOK, NoEntries
  <2>2. /\ watching' \in [Page -> SUBSET Forward] /\ told' \in [Page -> SUBSET Forward]
        /\ listening' \in [Page -> SUBSET Forward]
        /\ listing' \in [Page -> {"no", "asked", "taken"}] /\ blind' \subseteq Page
    BY <1>1, <1>2 DEF TypeOK
  <2> QED  BY <1>1, <1>2, <1>3, <2>1, <2>2 DEF TypeOK, HostTypeOK, host
<1>6. \A q \in Page : WireIs(q)'
  BY <1>1 DEF Inv, WireIs, host
<1>7. ASSUME NEW j \in Forward PROVE HostIs(j)' /\ ShownIs(j)'
  <2>1. HostIs(j)'
    BY <1>1 DEF Inv, HostIs, host
  <2>2. WillList(p, j) \/ rows[p][j] # <<>> => rows'[p][j] # <<>>
    BY <1>1, <1>3 DEF WillList, Applied
  <2>3. ASSUME NEW q \in Page, q # p
        PROVE  rows'[q][j] = rows[q][j] /\ (WillList(q, j)' <=> WillList(q, j))
    BY <1>1, <1>3, <1>4, <2>3 DEF WillList, Listed
  <2> QED  BY <1>1, <1>4, <2>1, <2>2, <2>3, StillShown DEF host
<1>8. ASSUME NEW q \in Page, NEW j \in Forward PROVE PageIs(q, j)' /\ ToldIs(q, j)'
  <2>1. PageIs(q, j) /\ ToldIs(q, j)
    BY DEF Inv
  <2>2. CASE q # p
    BY <1>1, <1>3, <1>4, <2>1, <2>2 DEF PageIs, ToldIs, host
  <2>3. CASE q = p
    <3>1. Applied(p, j)
      BY <1>3
    <3>2. j \in Listed(p) => start[j] = "listed" /\ (j \in ListedDead(p) => ended[j])
      BY <2>1, <2>3 DEF PageIs, Listed, ListedDead
    <3>3. PageIs(p, j)'
      BY <1>1, <1>4, <2>1, <2>3, <3>1, <3>2 DEF PageIs, Applied, host
    <3>4. j \in watching'[p] => rows'[p][j] # <<>>
      BY <1>4, <2>1, <2>3, <3>1 DEF ToldIs, Applied
    <3>5. ASSUME j \in told'[p]
          PROVE  /\ ended'[j]
                 /\ Len(rows'[p][j]) > 1
                    \/ (rows'[p][j] = <<"failed">> /\ j \notin watching'[p])
      <4>1. CASE j \in ListedDead(p)
        BY <1>1, <1>2, <1>4, <3>1, <3>2, <4>1 DEF Applied, host
      <4>2. CASE j \in told[p] /\ j \notin ListedDead(p)
        <5>1. <<"failed">> # <<>>
          OBVIOUS
        <5> QED  BY <1>1, <1>4, <2>1, <2>3, <3>1, <4>2, <5>1 DEF ToldIs, Applied, host
      <4> QED  BY <1>4, <3>5, <4>1, <4>2
    <3> QED  BY <2>3, <3>3, <3>4, <3>5 DEF ToldIs
  <2> QED  BY <2>2, <2>3
<1> QED  BY <1>5, <1>6, <1>7, <1>8 DEF Inv

LEMMA DeliverStep == ASSUME Inv, NEW p \in Page, Deliver(p) PROVE Inv'
<1> DEFINE i == Head(wire[p])[1]  e == Head(wire[p])[2]  s == rows[p][i]
           over == e = "closed" /\ i \in watching[p]
           r == IF i \notin watching[p] THEN s
                ELSE IF over THEN Dead(s) ELSE [k \in DOMAIN s |-> e]
<1>1. TypeOK /\ wire[p] \in Seq(Forward \X Event) /\ wire[p] # <<>>
  BY DEF Inv, TypeOK, Deliver
<1>2. /\ i \in Forward /\ e \in Event
      /\ Tail(wire[p]) \in Seq(Forward \X Event)
      /\ \A k \in DOMAIN Tail(wire[p]) :
            k + 1 \in DOMAIN wire[p] /\ Tail(wire[p])[k] = wire[p][k + 1]
      /\ 1 \in DOMAIN wire[p] /\ Head(wire[p]) = wire[p][1]
  BY <1>1
<1>3. e = "closed" => ended[i]
  BY <1>2 DEF Inv, WireIs
<1>4. s \in Seq(Status)
  BY <1>1, <1>2 DEF TypeOK
<1>5. /\ UNCHANGED <<host, by, dropped, asks, orphans, blind, reloads>>
      /\ wire' = [wire EXCEPT ![p] = Tail(wire[p])]
      /\ rows' = [rows EXCEPT ![p][i] = r]
      /\ watching' = [watching EXCEPT ![p] = IF over THEN watching[p] \ {i} ELSE watching[p]]
      /\ listening' = [listening EXCEPT ![p] = IF over THEN listening[p] \ {i} ELSE listening[p]]
      /\ told' = [told EXCEPT ![p] = IF over THEN told[p] \cup {i} ELSE told[p]]
  BY DEF Deliver
<1>6. /\ r \in Seq(Status) /\ Len(r) = Len(s) /\ (s # <<>> <=> r # <<>>)
      /\ i \notin watching[p] => r = s
      /\ over /\ s # <<>> => r = <<"failed">> \/ Len(r) > 1
  <2>1. CASE i \notin watching[p]
    BY <1>4, <2>1
  <2>2. CASE over
    <3>1. r = [k \in DOMAIN s |-> "failed"] /\ Len(s) \in Nat
      BY <1>4, <2>2, LenProperties DEF Dead
    <3> HIDE DEF r, s
    <3>2. "failed" \in Status
      BY DEF Status
    <3>3. /\ r \in Seq(Status) /\ Len(r) = Len(s) /\ (s # <<>> <=> r # <<>>)
          /\ Len(s) <= 1 /\ s # <<>> => r = <<"failed">>
      BY <1>4, <3>1, <3>2, AllSet
    <3>4. i \in watching[p]
      BY <2>2
    <3> HIDE DEF i, e, over
    <3> QED  BY <3>1, <3>3, <3>4
  <2>3. CASE i \in watching[p] /\ e # "closed"
    <3>1. r = [k \in DOMAIN s |-> e] /\ e \in Status
      BY <1>2, <2>3 DEF Event
    <3>2. ~over /\ i \in watching[p]
      BY <2>3
    <3> HIDE DEF r, s, over
    <3> QED  BY <1>4, <3>1, <3>2, AllSet
  <2> QED  BY <2>1, <2>2, <2>3
<1>12. rows[p][i] = s /\ (over => e = "closed" /\ i \in watching[p])
  OBVIOUS
<1> HIDE DEF r, s, over
<1>7. /\ rows' \in [Page -> [Forward -> Seq(Status)]]
      /\ rows'[p][i] = r
      /\ \A q \in Page, j \in Forward : q # p \/ j # i => rows'[q][j] = rows[q][j]
  BY <1>1, <1>2, <1>5, <1>6, Cell DEF TypeOK
<1> HIDE DEF i, e
<1>8. TypeOK'
  BY <1>1, <1>2, <1>5, <1>7 DEF TypeOK, HostTypeOK, host, asks
<1>9. ASSUME NEW q \in Page PROVE WireIs(q)'
  <2>1. WireIs(q)
    BY DEF Inv
  <2>2. CASE q # p
    BY <1>1, <1>5, <2>1, <2>2 DEF WireIs, TypeOK, host
  <2>3. CASE q = p
    <3>1. wire'[p] = Tail(wire[p]) /\ ended' = ended
      BY <1>1, <1>5 DEF TypeOK, host
    <3> QED  BY <1>2, <2>1, <2>3, <3>1 DEF WireIs
  <2> QED  BY <2>2, <2>3
<1>10. ASSUME NEW j \in Forward PROVE HostIs(j)' /\ ShownIs(j)'
  <2>1. HostIs(j)'
    BY <1>5 DEF Inv, HostIs, host
  <2>2. ASSUME NEW q \in Page
        PROVE  /\ rows[q][j] # <<>> => rows'[q][j] # <<>>
               /\ WillList(q, j)' <=> WillList(q, j)
    BY <1>2, <1>5, <1>6, <1>7, <1>12 DEF WillList, Listed, asks
  <2> QED  BY <1>5, <2>1, <2>2, StillShown DEF host, asks
<1>11. ASSUME NEW q \in Page, NEW j \in Forward PROVE PageIs(q, j)' /\ ToldIs(q, j)'
  <2>1. PageIs(q, j) /\ ToldIs(q, j)
    BY DEF Inv
  <2>2. CASE q = p /\ j = i
    <3>1. /\ j \in watching'[p] <=> j \in watching[p] /\ ~over
          /\ j \in told'[p] <=> j \in told[p] \/ over
      BY <1>1, <1>2, <1>5, <2>2 DEF TypeOK
    <3>2. PageIs(q, j)'
      BY <1>5, <1>6, <1>7, <1>12, <2>1, <2>2 DEF PageIs, host, asks
    <3>3. ToldIs(q, j)'
      BY <1>3, <1>5, <1>6, <1>7, <1>12, <2>1, <2>2, <3>1 DEF ToldIs, host
    <3> QED  BY <3>2, <3>3
  <2>3. CASE q # p \/ j # i
    <3>1. /\ rows'[q][j] = rows[q][j]
          /\ j \in watching'[q] <=> j \in watching[q]
          /\ j \in told'[q] <=> j \in told[q]
      BY <1>1, <1>5, <1>7, <2>3 DEF TypeOK
    <3> QED  BY <1>5, <2>1, <3>1 DEF PageIs, ToldIs, host, asks
  <2> QED  BY <2>2, <2>3
<1> QED  BY <1>8, <1>9, <1>10, <1>11 DEF Inv

LEMMA ReloadStep == ASSUME Inv, NEW p \in Page, Reload(p) PROVE Inv'
<1>1. /\ UNCHANGED <<host, orphans, blind>>
      /\ reloads < MaxReloads /\ reloads' = reloads + 1
      /\ rows' = [rows EXCEPT ![p] = NoRows]
      /\ watching' = [watching EXCEPT ![p] = {}] /\ dropped' = [dropped EXCEPT ![p] = {}]
      /\ listening' = [listening EXCEPT ![p] = {}] /\ wire' = [wire EXCEPT ![p] = <<>>]
      /\ told' = [told EXCEPT ![p] = {}]
      /\ stops' = [stops EXCEPT ![p] = NoStops]
      /\ listing' = [listing EXCEPT ![p] = "asked"]
      /\ snapshot' = [snapshot EXCEPT ![p] = NoEntries]
      /\ by' = [i \in Forward |-> IF by[i] = p THEN NoPage ELSE by[i]]
  BY DEF Reload
<1>2. TypeOK
  BY DEF Inv
<1>3. /\ \A q \in Page : q # p =>
            /\ rows'[q] = rows[q] /\ watching'[q] = watching[q] /\ dropped'[q] = dropped[q]
            /\ wire'[q] = wire[q] /\ told'[q] = told[q] /\ stops'[q] = stops[q]
            /\ listing'[q] = listing[q] /\ snapshot'[q] = snapshot[q]
      /\ \A i \in Forward : rows'[p][i] = <<>> /\ stops'[p][i] = "no" /\ snapshot'[p][i] = "absent"
      /\ watching'[p] = {} /\ dropped'[p] = {} /\ told'[p] = {} /\ wire'[p] = <<>>
      /\ listing'[p] = "asked"
  BY <1>1, <1>2 DEF TypeOK, NoRows, NoStops, NoEntries
<1>4. TypeOK'
  <2>1. <<>> \in Seq(Status) /\ <<>> \in Seq(Forward \X Event)
    BY EmptySeq
  <2>2. rows' \in [Page -> [Forward -> Seq(Status)]] /\ wire' \in [Page -> Seq(Forward \X Event)]
    BY <1>1, <1>2, <2>1 DEF TypeOK, NoRows
  <2>3. /\ stops' \in [Page -> [Forward -> {"no", "asked", "done"}]]
        /\ snapshot' \in [Page -> [Forward -> {"ended", "live", "stopped", "absent"}]]
    BY <1>1, <1>2 DEF TypeOK, NoStops, NoEntries
  <2>4. reloads' \in 0..MaxReloads /\ by' \in [Forward -> Page \cup {NoPage}]
    BY <1>1, <1>2, PagesAssumption DEF TypeOK
  <2>5. /\ watching' \in [Page -> SUBSET Forward] /\ dropped' \in [Page -> SUBSET Forward]
        /\ told' \in [Page -> SUBSET Forward] /\ listening' \in [Page -> SUBSET Forward]
        /\ listing' \in [Page -> {"no", "asked", "taken"}]
    BY <1>1, <1>2 DEF TypeOK
  <2> QED  BY <1>1, <1>2, <2>2, <2>3, <2>4, <2>5 DEF TypeOK, HostTypeOK, host
<1>5. ASSUME NEW q \in Page PROVE WireIs(q)'
  BY <1>1, <1>3 DEF Inv, WireIs, host
<1>6. ASSUME NEW j \in Forward PROVE HostIs(j)' /\ ShownIs(j)'
  <2>1. HostIs(j)'
    BY <1>1 DEF Inv, HostIs, host
  <2>2. WillList(p, j)'
    BY <1>3 DEF WillList
  <2> QED  BY <2>1, <2>2 DEF ShownIs
<1>7. ASSUME NEW q \in Page, NEW j \in Forward PROVE PageIs(q, j)' /\ ToldIs(q, j)'
  <2>1. PageIs(q, j) /\ ToldIs(q, j)
    BY DEF Inv
  <2>2. CASE q = p
    BY <1>3, <2>2 DEF PageIs, ToldIs
  <2>3. CASE q # p
    BY <1>1, <1>3, <2>1, <2>3 DEF PageIs, ToldIs, host
  <2> QED  BY <2>2, <2>3
<1> QED  BY <1>4, <1>5, <1>6, <1>7 DEF Inv

LEMMA StepInv == Inv /\ [Next]_vars => Inv'
<1> SUFFICES ASSUME Inv, [Next]_vars PROVE Inv'
  OBVIOUS
<1>1. CASE UNCHANGED vars
  <2>1. TypeOK'
    BY <1>1 DEF Inv, TypeOK, HostTypeOK, vars, host, store, socket, asks
  <2>2. \A i \in Forward : HostIs(i)' /\ ShownIs(i)'
    BY <1>1 DEF Inv, HostIs, ShownIs, WillList, Listed, vars, host, store, asks
  <2>3. \A p \in Page : WireIs(p)'
    BY <1>1 DEF Inv, WireIs, vars, host, socket
  <2>4. \A p \in Page, i \in Forward : PageIs(p, i)' /\ ToldIs(p, i)'
    BY <1>1 DEF Inv, PageIs, ToldIs, vars, host, store, asks
  <2> QED  BY <2>1, <2>2, <2>3, <2>4 DEF Inv
<1>2. ASSUME NEW i \in Forward, Task(i) \/ Window(i) \/ Start(i) PROVE Inv'
  BY <1>2, TaskStep, WindowStep, StartStep
<1>3. ASSUME NEW p \in Page, \/ AskListing(p) \/ TakeListing(p) \/ ListingFails(p)
                             \/ ApplyListing(p) \/ Outage(p) \/ Deliver(p) \/ Reload(p)
      PROVE  Inv'
  BY <1>3, AskListingStep, TakeListingStep, ListingFailsStep, ApplyListingStep, ListenStep,
     DeliverStep, ReloadStep
<1>4. ASSUME NEW p \in Page, NEW i \in Forward,
             \/ AskStart(p, i) \/ Started(p, i) \/ Listen(p, i)
             \/ AskStop(p, i) \/ DoStop(p, i) \/ Stopped(p, i)
      PROVE  Inv'
  BY <1>4, AskStartStep, StartedStep, ListenStep, AskStopStep, DoStopStep, StoppedStep
<1> QED  BY <1>1, <1>2, <1>3, <1>4 DEF Next

LEMMA RowsInvariance == Spec => []Inv
BY InitInv, StepInv, PTL DEF Spec

\* A row that was shown to have ended stays so, for every number of pages and
\* forwards, unless its start's answer came later and added another; and no
\* listing calls the forward live from then on (forward.ts endForward,
\* watchForward; forward.rs entry).
THEOREM EndsAreFinal == Spec => []EndIsFinal
BY RowsInvariance, InvShown, PTL

\* What the host holds a page shows, or is about to, however starts, stops,
\* listings and reloads cross, unless the page that started it was gone when it
\* was put in the map, or a listing failed (forward.rs list, forward.ts
\* rehydrateForwards).
THEOREM HeldAreShown == Spec => []HeldIsShown
BY RowsInvariance, InvShown, PTL
=============================================================================
