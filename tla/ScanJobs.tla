-------------------------------- MODULE ScanJobs --------------------------------
(***************************************************************************)
(* The scan Jobs of one app (crates/registry/src/extensions/jobs.rs): a    *)
(* Job is created by a task of its own, watched and collected by the call  *)
(* that asked for it, and deleted by whoever has its Cleanup guard last.   *)
(* Replies may be lost, requests may take effect late, any call may be     *)
(* dropped at an await, and srelens may die; the cluster's own deadline    *)
(* and TTL are what is left then.                                          *)
(*                                                                         *)
(* Apps share nothing here, so one stands for all.  A run's name is its    *)
(* own, so a Job is told by its run.                                       *)
(***************************************************************************)
EXTENDS Naturals

CONSTANT Run \* calls of extensions.runJob for the app

VARIABLES
    slot,    \* the app is in the set of active scans
    call,    \* where each run's caller is
    maker,   \* where the task that creates its Job is
    known,   \* what its Cleanup guard has: pending, owned or nothing
    cleaner, \* where the task that its guard's drop started is
    job,     \* the Job in the cluster
    file,    \* the result file: none, written, or one that was not removed
    result   \* what the caller was answered

local == <<slot, call, maker, known, cleaner>>
scanVars == <<local, job, file, result>>

\* Where the caller has the guard.
Working == {"setup", "watch", "collect", "delete", "confirm"}
Cleaning == {"recover", "delete", "confirm"}

ScansTypeOK ==
    /\ slot \in BOOLEAN
    /\ call \in [Run -> {"idle", "preparing", "waiting", "over"} \cup Working]
    /\ maker \in [Run -> {"none", "creating", "sent", "failed", "over"}]
    /\ known \in [Run -> {"nothing", "pending", "owned"}]
    /\ cleaner \in [Run -> {"none", "over", "gaveUp", "killed"} \cup Cleaning]
    /\ job \in [Run -> {"none", "asked", "refused", "running", "ended", "deleting", "gone"}]
    /\ file \in [Run -> {"none", "written", "stuck"}]
    /\ result \in [Run -> {"none", "error", "result"}]

ScansInit ==
    /\ slot = FALSE
    /\ call = [r \in Run |-> "idle"]
    /\ maker = [r \in Run |-> "none"]
    /\ known = [r \in Run |-> "nothing"]
    /\ cleaner = [r \in Run |-> "none"]
    /\ job = [r \in Run |-> "none"]
    /\ file = [r \in Run |-> "none"]
    /\ result = [r \in Run |-> "none"]

\* The Job is in the cluster.
Present(r) == job[r] \in {"running", "ended", "deleting"}

Goes(r, from, to) == call[r] = from /\ call' = [call EXCEPT ![r] = to]

\* The guard is dropped: what it has is cleaned up by a task, which keeps the
\* app's slot; with nothing to clean the slot is free.
DropGuard(r) ==
    IF known'[r] = "nothing" THEN slot' = FALSE /\ UNCHANGED cleaner
    ELSE /\ cleaner' = [cleaner EXCEPT ![r] = IF known'[r] = "owned" THEN "delete"
                                              ELSE "recover"]
         /\ UNCHANGED slot

-------------------------------------------------------------------------------
(* The creation.                                                           *)

\* Active::take: one scan of the app at a time.
Take(r) ==
    /\ ~slot
    /\ slot' = TRUE
    /\ Goes(r, "idle", "preparing")
    /\ UNCHANGED <<maker, known, cleaner, job, file, result>>

\* The storage has room and the cluster a client: the Job is asked for.
Prepare(r) ==
    /\ Goes(r, "preparing", "waiting")
    /\ maker' = [maker EXCEPT ![r] = "creating"]
    /\ known' = [known EXCEPT ![r] = "pending"]
    /\ job' = [job EXCEPT ![r] = "asked"]
    /\ UNCHANGED <<slot, cleaner, file, result>>

\* A dropped or refused call has no Job yet.
Unprepared(r) ==
    /\ Goes(r, "preparing", "over")
    /\ slot' = FALSE
    /\ result' = [result EXCEPT ![r] = "error"]
    /\ UNCHANGED <<maker, known, cleaner, job, file>>

\* The reply has the Job's name and UID.  If the caller is gone, what could not
\* be sent is dropped.
Created(r) ==
    /\ maker[r] = "creating"
    /\ job[r] \notin {"asked", "refused"}
    /\ known' = [known EXCEPT ![r] = "owned"]
    /\ IF call[r] = "waiting"
       THEN maker' = [maker EXCEPT ![r] = "sent"] /\ UNCHANGED <<slot, cleaner>>
       ELSE maker' = [maker EXCEPT ![r] = "over"] /\ DropGuard(r)
    /\ UNCHANGED <<call, job, file, result>>

\* 400, 401, 403, 404, 422: no Job was created.
Refused(r) ==
    /\ maker[r] = "creating"
    /\ job[r] = "asked"
    /\ job' = [job EXCEPT ![r] = "refused"]
    /\ known' = [known EXCEPT ![r] = "nothing"]
    /\ maker' = [maker EXCEPT ![r] = "failed"]
    /\ DropGuard(r)
    /\ UNCHANGED <<call, file, result>>

\* No reply in thirty seconds, another error, or a reply that says too little:
\* the Job may have been created, or may yet be.  A deviation takes every error
\* for a refusal.
CreateFailsForgetting(r) ==
    /\ maker[r] = "creating"
    /\ maker' = [maker EXCEPT ![r] = "failed"]
    /\ known' = [known EXCEPT ![r] = "nothing"]
    /\ DropGuard(r)
    /\ UNCHANGED <<call, job, file, result>>
CreateFails(r) ==
    /\ maker[r] = "creating"
    /\ maker' = [maker EXCEPT ![r] = "failed"]
    /\ UNCHANGED known
    /\ DropGuard(r)
    /\ UNCHANGED <<call, job, file, result>>

\* The caller takes what the task sent: the guard, or an error.
Receive(r) ==
    /\ \/ maker[r] = "sent" /\ Goes(r, "waiting", "setup") /\ UNCHANGED result
       \/ maker[r] = "failed" /\ Goes(r, "waiting", "over")
          /\ result' = [result EXCEPT ![r] = "error"]
    /\ maker' = [maker EXCEPT ![r] = "over"]
    /\ UNCHANGED <<slot, known, cleaner, job, file>>

-------------------------------------------------------------------------------
(* The caller, with the guard.                                             *)

\* The Job's reader account, its role and the mark that lets it start.
SetUp(r) ==
    /\ Goes(r, "setup", "watch")
    /\ UNCHANGED <<slot, maker, known, cleaner, job, file, result>>

\* Its one worker has ended, well or not.
Watch(r) ==
    /\ job[r] = "ended"
    /\ Goes(r, "watch", "collect")
    /\ UNCHANGED <<slot, maker, known, cleaner, job, file, result>>

\* The worker's log is written to a file of the app's.
Collect(r) ==
    /\ job[r] = "ended"
    /\ Goes(r, "collect", "delete")
    /\ file' = [file EXCEPT ![r] = "written"]
    /\ UNCHANGED <<slot, maker, known, cleaner, job, result>>

\* The API server takes the deletion of this UID; the Job may be gone by then.
Delete(r) ==
    /\ Goes(r, "delete", "confirm")
    /\ job' = [job EXCEPT ![r] = IF Present(r) THEN "deleting" ELSE @]
    /\ UNCHANGED <<slot, maker, known, cleaner, file, result>>

\* Only a Job that is gone makes a result; the guard has nothing left.
Confirm(r) ==
    /\ job[r] = "gone"
    /\ Goes(r, "confirm", "over")
    /\ known' = [known EXCEPT ![r] = "nothing"]
    /\ result' = [result EXCEPT ![r] = "result"]
    /\ DropGuard(r)
    /\ UNCHANGED <<maker, job, file>>

\* A request may have been taken though its reply was lost.
PerhapsDeleting(r, asked) ==
    \/ UNCHANGED job
    \/ asked /\ Present(r) /\ job' = [job EXCEPT ![r] = "deleting"]

\* An error of the API, of the file or of the worker, the twenty minutes' end,
\* or the caller is dropped.
Fail(r) ==
    /\ call[r] \in Working
    /\ call' = [call EXCEPT ![r] = "over"]
    /\ result' = [result EXCEPT ![r] = "error"]
    /\ PerhapsDeleting(r, call[r] = "delete")
    /\ UNCHANGED <<maker, known, file>>
    /\ DropGuard(r)

\* The caller is dropped before it has the guard: the creation goes on without
\* it, or the guard is dropped in the channel.
Abandon(r) ==
    /\ Goes(r, "waiting", "over")
    /\ result' = [result EXCEPT ![r] = "error"]
    /\ UNCHANGED <<known, job, file>>
    /\ IF maker[r] = "sent"
       THEN maker' = [maker EXCEPT ![r] = "over"] /\ DropGuard(r)
       ELSE UNCHANGED <<maker, slot, cleaner>>

-------------------------------------------------------------------------------
(* The cleanup.                                                            *)

Cleans(r, from, to) == cleaner[r] = from /\ cleaner' = [cleaner EXCEPT ![r] = to]

\* Its own run by name, however long the Job took to appear.
Recover(r) ==
    /\ Present(r)
    /\ Cleans(r, "recover", "delete")
    /\ known' = [known EXCEPT ![r] = "owned"]
    /\ UNCHANGED <<slot, call, maker, job, file, result>>

CleanDelete(r) ==
    /\ Cleans(r, "delete", "confirm")
    /\ job' = [job EXCEPT ![r] = IF Present(r) THEN "deleting" ELSE @]
    /\ UNCHANGED <<slot, call, maker, known, file, result>>

\* However it went, the file is to go, whether or not the disk lets it, and the
\* slot is free.  A deviation leaves the file.
LeaveFile(r, how) ==
    /\ cleaner' = [cleaner EXCEPT ![r] = how]
    /\ known' = [known EXCEPT ![r] = "nothing"]
    /\ slot' = FALSE
    /\ UNCHANGED <<call, maker, file, result>>
Leave(r, how) ==
    /\ cleaner' = [cleaner EXCEPT ![r] = how]
    /\ known' = [known EXCEPT ![r] = "nothing"]
    /\ \E left \in {"none", "stuck"} :
          file' = [file EXCEPT ![r] = IF @ = "none" THEN @ ELSE left]
    /\ slot' = FALSE
    /\ UNCHANGED <<call, maker, result>>

CleanConfirm(r) ==
    /\ cleaner[r] = "confirm"
    /\ job[r] = "gone"
    /\ Leave(r, "over")
    /\ UNCHANGED job

\* Thirty seconds without a Job of that name, or without its end; an error of
\* the API.  A deviation looks for it as long as it takes.
GiveUpNever(r) ==
    /\ cleaner[r] \in {"delete", "confirm"}
    /\ PerhapsDeleting(r, cleaner[r] = "delete")
    /\ Leave(r, "gaveUp")
GiveUpCleanup(r) ==
    /\ cleaner[r] \in Cleaning
    /\ PerhapsDeleting(r, cleaner[r] = "delete")
    /\ Leave(r, "gaveUp")

-------------------------------------------------------------------------------
(* The cluster, and the process.                                           *)

Becomes(r, from, to) ==
    /\ job[r] \in from
    /\ job' = [job EXCEPT ![r] = to]
    /\ UNCHANGED <<local, file, result>>

\* The request takes effect, perhaps after its sender gave it up.
Commit(r) == Becomes(r, {"asked"}, "running")
\* activeDeadlineSeconds, if not before.
End(r) == Becomes(r, {"running"}, "ended")
\* ttlSecondsAfterFinished.
Expire(r) == Becomes(r, {"ended"}, "gone")
Remove(r) == Becomes(r, {"running", "ended"}, "gone") \* by somebody else
Disappear(r) == Becomes(r, {"deleting"}, "gone")

\* Somebody holds the run's guard, or its slot on the way to one.
Kept(r) ==
    \/ call[r] \in {"preparing"} \cup Working
    \/ maker[r] \in {"creating", "sent"}
    \/ cleaner[r] \in Cleaning

\* srelens dies in the middle of a scan, and is started again.
Crash ==
    /\ slot
    /\ slot' = FALSE
    /\ cleaner' = [r \in Run |-> IF Kept(r) THEN "killed" ELSE cleaner[r]]
    /\ call' = [r \in Run |-> IF call[r] = "idle" THEN "idle" ELSE "over"]
    /\ maker' = [r \in Run |-> IF maker[r] = "none" THEN "none" ELSE "over"]
    /\ known' = [r \in Run |-> "nothing"]
    /\ UNCHANGED <<job, file, result>>

-------------------------------------------------------------------------------
Maker(r) == Created(r) \/ Refused(r) \/ CreateFails(r)
Caller(r) ==
    \/ Prepare(r) \/ Unprepared(r) \/ Receive(r) \/ SetUp(r) \/ Watch(r) \/ Collect(r)
    \/ Delete(r) \/ Confirm(r) \/ Fail(r)
Cleaner(r) == Recover(r) \/ CleanDelete(r) \/ CleanConfirm(r) \/ GiveUpCleanup(r)

ScansNext ==
    \/ \E r \in Run : Take(r) \/ Caller(r) \/ Abandon(r) \/ Maker(r) \/ Cleaner(r)
    \/ \E r \in Run : Commit(r) \/ End(r) \/ Expire(r) \/ Remove(r) \/ Disappear(r)
    \/ Crash

\* Every await has a timeout of its own; the cluster ends a Job at its deadline,
\* removes one that has ended after its TTL and finishes a deletion.
ClusterOwes(r) == End(r) \/ Expire(r) \/ Disappear(r)
ScansFairness ==
    \A r \in Run :
        /\ WF_scanVars(Caller(r)) /\ WF_scanVars(Maker(r)) /\ WF_scanVars(Cleaner(r))
        /\ WF_scanVars(ClusterOwes(r))

ScansSpec == ScansInit /\ [][ScansNext]_scanVars /\ ScansFairness

-------------------------------------------------------------------------------
\* "A failed create reply is not evidence that Kubernetes did not commit the
\* Job" (jobs.rs:327), "creation must outlive a dropped caller" (:397): a Job
\* that is there, or may yet be, has somebody who knows to delete it, unless the
\* cleanup gave up, which it says, or srelens died.
JobIsKept ==
    \A r \in Run : Present(r) \/ job[r] = "asked" =>
        \/ Kept(r) /\ known[r] # "nothing"
        \/ cleaner[r] \in {"gaveUp", "killed"}

\* "One scan per app may run through cleanup" (sidecar-protocol.md:622): the slot
\* is taken while anybody has a guard, and nobody else has one.
OneScan ==
    /\ slot <=> \E r \in Run : Kept(r)
    /\ \A r, s \in Run : Kept(r) /\ Kept(s) => r = s

OneKeeper == ScansTypeOK /\ JobIsKept /\ OneScan

\* A result is given for a Job that is gone, with its file; a run that failed or
\* was dropped leaves no file behind, unless srelens died over it or the disk did
\* not let go of it (stuck: the error of jobs.rs:380 is dropped).
ResultsStand ==
    \A r \in Run :
        /\ result[r] = "result" => job[r] = "gone" /\ file[r] = "written"
        /\ file[r] = "written" /\ ~Kept(r) => result[r] = "result" \/ cleaner[r] = "killed"

\* The app may scan again at last, and no Job stays for ever, whoever died or
\* gave up ("its deadline and TTL remain in place", jobs.rs:366).
ScansEnd ==
    /\ slot ~> ~slot
    /\ \A r \in Run : Present(r) ~> ~Present(r)
================================================================================
