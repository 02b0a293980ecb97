----------------------------- MODULE PortForwards -----------------------------
(***************************************************************************)
(* The host's port-forwards (crates/streams/src/forward.rs): the map of    *)
(* ForwardManager, and the task of each forward, which serves its target,  *)
(* reconnects to it and gives up.                                          *)
(*                                                                         *)
(* What a step sends on the forward's channels is named by the module that *)
(* composes it with the pages that listen (ForwardRows).                   *)
(***************************************************************************)
EXTENDS Naturals, FiniteSets

CONSTANTS
    Forward,      \* the ids
    MAX_ATTEMPTS  \* failures in a row before a forward gives up

ASSUME AttemptsAssumption == MAX_ATTEMPTS \in Nat \ {0}

VARIABLES
    start,    \* how far ForwardManager::start is with each
    task,     \* its task
    failures, \* consecutive_failures, counted up to MAX_ATTEMPTS
    lost,     \* whether a session that reached the target ended, and how long ago
    ended,    \* Forward.ended is set
    held      \* the manager's map

host == <<start, task, failures, lost, ended, held>>

HostTypeOK ==
    /\ start \in [Forward -> {"no", "asked", "spawned", "listed", "failed"}]
    /\ task \in [Forward -> {"none", "attempt", "serving", "waiting", "over",
                             "recorded", "done", "aborted"}]
    /\ failures \in [Forward -> 0..MAX_ATTEMPTS]
    /\ lost \in [Forward -> {"never", "now", "past"}]
    /\ ended \in [Forward -> BOOLEAN]
    /\ held \subseteq Forward

HostInit ==
    /\ start = [i \in Forward |-> "no"]
    /\ task = [i \in Forward |-> "none"]
    /\ failures = [i \in Forward |-> 0]
    /\ lost = [i \in Forward |-> "never"]
    /\ ended = [i \in Forward |-> FALSE]
    /\ held = {}

Starts(i, from, to) == start[i] = from /\ start' = [start EXCEPT ![i] = to]
Turns(i, from, to) == task[i] = from /\ task' = [task EXCEPT ![i] = to]

-------------------------------------------------------------------------------
\* The port is bound and the task spawned, or it cannot be bound.
Spawn(i) ==
    /\ \/ Starts(i, "asked", "spawned") /\ Turns(i, "none", "attempt")
       \/ Starts(i, "asked", "failed") /\ UNCHANGED task
    /\ UNCHANGED <<failures, lost, ended, held>>

\* The forward is put in the map, where its task may be over already.
Insert(i) ==
    /\ Starts(i, "spawned", "listed")
    /\ held' = held \cup {i}
    /\ UNCHANGED <<task, failures, lost, ended>>

\* stop: what has no await left runs on.
Stop(i) ==
    /\ held' = held \ {i}
    /\ task' = IF i \in held /\ task[i] \in {"attempt", "serving", "waiting"}
               THEN [task EXCEPT ![i] = "aborted"] ELSE task
    /\ UNCHANGED <<start, failures, lost, ended>>

-------------------------------------------------------------------------------
(* reconnect_loop.                                                         *)

\* serve_once found the target ready.
Establish(i) ==
    /\ Turns(i, "attempt", "serving")
    /\ UNCHANGED <<start, failures, lost, ended, held>>

\* next_reconnect_state, over an attempt that reached its target or did not.
Failures(i) ==
    IF task[i] = "serving" THEN 1
    ELSE IF failures[i] < MAX_ATTEMPTS THEN failures[i] + 1 ELSE MAX_ATTEMPTS

\* A deviation counts the window from every failure after the first session.
LostAgain(i) == IF task[i] = "serving" \/ lost[i] # "never" THEN "now" ELSE "never"

\* lost_at: only a session that reached its target moves it.
Lost(i) == IF task[i] = "serving" THEN "now" ELSE lost[i]

GivesUp(i) == Failures(i) >= MAX_ATTEMPTS /\ Lost(i) # "now"

Fails(i, to) ==
    /\ task[i] \in {"attempt", "serving"}
    /\ task' = [task EXCEPT ![i] = to]
    /\ failures' = [failures EXCEPT ![i] = Failures(i)]
    /\ lost' = [lost EXCEPT ![i] = Lost(i)]
    /\ UNCHANGED <<start, ended, held>>

Retry(i) == ~GivesUp(i) /\ Fails(i, "waiting")
GiveUp(i) == GivesUp(i) /\ Fails(i, "over")

\* serve_once ended without an error.
Finish(i) ==
    /\ Turns(i, "serving", "over")
    /\ UNCHANGED <<start, failures, lost, ended, held>>

\* The backoff is over.
Again(i) ==
    /\ Turns(i, "waiting", "attempt")
    /\ UNCHANGED <<start, failures, lost, ended, held>>

\* The recovery window is.
Elapse(i) ==
    /\ lost[i] = "now" /\ task[i] \in {"attempt", "waiting"}
    /\ lost' = [lost EXCEPT ![i] = "past"]
    /\ UNCHANGED <<start, task, failures, ended, held>>

\* The end is recorded before the event goes out.
Record(i) ==
    /\ Turns(i, "over", "recorded")
    /\ ended' = [ended EXCEPT ![i] = TRUE]
    /\ UNCHANGED <<start, failures, lost, held>>

\* A deviation sends the event before the end is recorded.
CloseEarly(i) ==
    /\ task[i] = "over"
    /\ UNCHANGED host

Close(i) ==
    /\ Turns(i, "recorded", "done")
    /\ UNCHANGED <<start, failures, lost, ended, held>>

\* Forward::entry, as list reports it; it does not tell a forward it does not
\* have yet from one that was stopped.
Entry(i) ==
    IF i \in held THEN IF ended[i] THEN "ended" ELSE "live"
    ELSE IF start[i] = "listed" THEN "stopped" ELSE "absent"
===============================================================================
