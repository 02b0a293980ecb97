-------------------------------- MODULE UserEnvs --------------------------------
(***************************************************************************)
(* One user's environment on the web server: built on demand from the      *)
(* kubeconfigs in the database, its decrypted files on disk, dropped when  *)
(* a kubeconfig changes, on logout and when idle or disconnected           *)
(* (crates/server/src/users.rs, its callers in api_kubeconfigs.rs and      *)
(* auth/routes.rs).                                                        *)
(*                                                                         *)
(* Users share nothing here, so one stands for all.  An environment is the *)
(* version of the kubeconfigs it was built from.  A step is what happens   *)
(* between two awaits, or under one lock.                                  *)
(***************************************************************************)
EXTENDS Naturals

CONSTANTS
    Request,     \* tasks calling env_for
    Writer,      \* tasks that change a kubeconfig
    Leaver,      \* tasks that log the user out
    Dropper,     \* teardowns and sweeps about to drop the environment
    MaxVersions  \* bound of the model: versions of the kubeconfigs

Free == "free"   \* a lock nobody holds

ASSUME EnvsAssumption == MaxVersions \in Nat \ {0} /\ Free \notin Request

VARIABLES
    stored,   \* the kubeconfigs in the database
    signedIn, \* the user has a session that is valid
    cached,   \* UserEnvs.map: the user's environment, or Absent
    dir,      \* the user's runtime directory
    lock,     \* the user's build lock: a request, or Free
    req,      \* where each env_for is, and the kubeconfigs it listed
    job,      \* where each task is, and the kubeconfigs it wrote
    floor     \* the latest change whose handler has returned

envsVars == <<stored, signedIn, cached, dir, lock, req, job, floor>>

Absent == 0
Task == Writer \cup Leaver \cup Dropper
Version == 1..MaxVersions

\* Where a request has the build lock.
Building == {"check", "list", "prepare", "write", "insert"}

EnvsTypeOK ==
    /\ stored \in Version
    /\ signedIn \in BOOLEAN
    /\ cached \in Version \cup {Absent}
    /\ dir \in {"none", "empty", "files"}
    /\ lock \in Request \cup {Free}
    /\ \A r \in Request : req[r].at \in Building <=> lock = r
    /\ req \in [Request -> [at : {"idle", "lookup", "lock"} \cup Building,
                            version : Version \cup {Absent}]]
    /\ job \in [Task -> [at : {"idle", "drop", "wipe", "revoke"},
                          version : Version \cup {Absent}]]
    /\ floor \in Version

Idle == [at |-> "idle", version |-> Absent]

EnvsInit ==
    /\ stored = 1
    /\ signedIn = TRUE
    /\ cached = Absent
    /\ dir = "none"          \* wipe_runtime, when the server started
    /\ lock = Free
    /\ req = [r \in Request |-> Idle]
    /\ job = [t \in Task |-> Idle]
    /\ floor = 1

-------------------------------------------------------------------------------
(* env_for.                                                                *)

At(r, place) == req[r].at = place
Goto(r, place) == req' = [req EXCEPT ![r].at = place]

\* The session is validated once, before the handler runs.
Authorised(r) ==
    /\ At(r, "idle")
    /\ signedIn
    /\ Goto(r, "lookup")
    /\ UNCHANGED <<stored, signedIn, cached, dir, lock, job, floor>>

Lookup(r) ==
    /\ At(r, "lookup")
    /\ Goto(r, IF cached # Absent THEN "idle" ELSE "lock")
    /\ UNCHANGED <<stored, signedIn, cached, dir, lock, job, floor>>

Lock(r) ==
    /\ At(r, "lock")
    /\ lock = Free
    /\ lock' = r
    /\ Goto(r, "check")
    /\ UNCHANGED <<stored, signedIn, cached, dir, job, floor>>

\* env_for returns: its guard of the build lock goes.  A deviation keeps it.
ReturnHolding(r) ==
    /\ req' = [req EXCEPT ![r] = Idle]
    /\ UNCHANGED lock
Return(r) ==
    /\ req' = [req EXCEPT ![r] = Idle]
    /\ lock' = IF lock = r THEN Free ELSE lock

\* Another builder may have finished; a deviation does not look again.
BuiltUnchecked == FALSE
Built == cached # Absent

Check(r) ==
    /\ At(r, "check")
    /\ IF Built THEN Return(r) ELSE Goto(r, "list") /\ UNCHANGED lock
    /\ UNCHANGED <<stored, signedIn, cached, dir, job, floor>>

List(r) ==
    /\ At(r, "list")
    /\ req' = [req EXCEPT ![r] = [at |-> "prepare", version |-> stored]]
    /\ UNCHANGED <<stored, signedIn, cached, dir, lock, job, floor>>

\* What is left of an earlier environment goes, and the directory is made.
Prepare(r) ==
    /\ At(r, "prepare")
    /\ dir' = "empty"
    /\ Goto(r, "write")
    /\ UNCHANGED <<stored, signedIn, cached, lock, job, floor>>

\* A file per kubeconfig that was listed, with the content it has by now.
Write(r) ==
    /\ At(r, "write")
    /\ dir # "none"
    /\ dir' = "files"
    /\ \E v \in {req[r].version, stored} :
          req' = [req EXCEPT ![r] = [at |-> "insert", version |-> v]]
    /\ UNCHANGED <<stored, signedIn, cached, lock, job, floor>>

InsertEnv(r) ==
    /\ At(r, "insert")
    /\ cached' = req[r].version
    /\ Return(r)
    /\ UNCHANGED <<stored, signedIn, dir, job, floor>>

\* The directory is not there.
WriteFails(r) ==
    /\ At(r, "write")
    /\ dir = "none"
    /\ Return(r)
    /\ UNCHANGED <<stored, signedIn, cached, dir, job, floor>>

\* An error of the database, a kubeconfig deleted since it was listed, perhaps
\* after others were written; or the request's client is gone and its future is
\* dropped at an await.
GiveUp(r) ==
    /\ req[r].at \in {"lock", "list", "prepare", "write", "insert"}
    /\ Return(r)
    /\ UNCHANGED <<stored, signedIn, cached, dir, job, floor>>

-------------------------------------------------------------------------------
(* invalidate, and what calls it.                                          *)

\* The change is stored, then the environment dropped.
Put(t) ==
    /\ t \in Writer
    /\ job[t].at = "idle"
    /\ signedIn
    /\ stored + 1 \in Version
    /\ stored' = stored + 1
    /\ job' = [job EXCEPT ![t] = [at |-> "drop", version |-> stored + 1]]
    /\ UNCHANGED <<signedIn, cached, dir, lock, req, floor>>

Logout(t) ==
    /\ t \in Leaver
    /\ job[t].at = "idle"
    /\ signedIn
    /\ job' = [job EXCEPT ![t].at = "drop"]
    /\ UNCHANGED <<stored, signedIn, cached, dir, lock, req, floor>>

\* A sweep or a teardown that has found the environment idle or left.
Retire(t) ==
    /\ t \in Dropper
    /\ job[t].at = "idle"
    /\ cached # Absent
    /\ job' = [job EXCEPT ![t].at = "drop"]
    /\ UNCHANGED <<stored, signedIn, cached, dir, lock, req, floor>>

DropEnv(t) ==
    /\ job[t].at = "drop"
    /\ cached' = Absent
    /\ job' = [job EXCEPT ![t].at = "wipe"]
    /\ UNCHANGED <<stored, signedIn, dir, lock, req, floor>>

\* remove_dir_all, under no lock; a writer and a sweep are done with it.
Wipe(t) ==
    /\ job[t].at = "wipe"
    /\ dir' = "none"
    /\ job' = [job EXCEPT ![t] = IF t \in Leaver THEN [@ EXCEPT !.at = "revoke"] ELSE Idle]
    /\ floor' = IF job[t].version > floor THEN job[t].version ELSE floor
    /\ UNCHANGED <<stored, signedIn, cached, lock, req>>

Revoke(t) ==
    /\ job[t].at = "revoke"
    /\ signedIn' = FALSE
    /\ job' = [job EXCEPT ![t] = Idle]
    /\ UNCHANGED <<stored, cached, dir, lock, req, floor>>

Login ==
    /\ ~signedIn
    /\ signedIn' = TRUE
    /\ UNCHANGED <<stored, cached, dir, lock, req, job, floor>>

-------------------------------------------------------------------------------
EnvFor(r) ==
    \/ Lookup(r) \/ Lock(r) \/ Check(r) \/ List(r) \/ Prepare(r) \/ Write(r)
    \/ InsertEnv(r) \/ WriteFails(r)

Invalidate(t) == DropEnv(t) \/ Wipe(t) \/ Revoke(t)

EnvsNext ==
    \/ \E r \in Request : Authorised(r) \/ EnvFor(r) \/ GiveUp(r)
    \/ \E t \in Task : Put(t) \/ Logout(t) \/ Retire(t) \/ Invalidate(t)
    \/ Login

EnvsSpec == EnvsInit /\ [][EnvsNext]_envsVars

\* The runtime polls every request, and tokio's mutex is fair: it goes to the
\* waiters in turn.
EnvsFairness ==
    /\ \A r \in Request : WF_envsVars(EnvFor(r)) /\ SF_envsVars(Lock(r))
    /\ \A t \in Task : WF_envsVars(Invalidate(t))

FairEnvsSpec == EnvsSpec /\ EnvsFairness

-------------------------------------------------------------------------------
\* A build goes on only while nothing is cached: the inductive invariant, with
\* EnvsTypeOK, of InUseIsKept.
BuildsWhenAbsent ==
    \A r \in Request : req[r].at \in Building \ {"check"} => cached = Absent

\* An environment is never replaced while it is cached: nobody is left with
\* streams of an environment that is not the user's.
NeverReplaced ==
    [][\A r \in Request : At(r, "insert") /\ cached' = req[r].version /\ req'[r] = Idle
          => cached = Absent]_envsVars

\* "The loser's remove_dir_all could delete the winner's just-materialized
\* files" (users.rs:193-197): only an invalidation takes the files of a cached
\* environment away.
OnlyInvalidateRemoves ==
    [][cached # Absent /\ dir = "files" /\ dir' # "files" =>
          \E t \in Task : job[t].at = "wipe" /\ job'[t] # job[t]]_envsVars

\* However many build at once, none disturbs the environment that is in use.
InUseIsKept == NeverReplaced /\ OnlyInvalidateRemoves

\* A request is answered, however many others build, fail and go away.
EnvForReturns == \A r \in Request : At(r, "lookup") ~> At(r, "idle")

\* Once a kubeconfig's change has been answered, no environment without it is used.
NoStaleEnv == cached # Absent => cached >= floor
================================================================================
