----------------------------- MODULE Confirmations -----------------------------
(***************************************************************************)
(* Gated calls in the host: an app's sidecar makes them through the broker *)
(* (plugin-host/src/sidecar/broker.rs), a chat's agent over MCP            *)
(* (mcp/src/stdio.rs), and both wait for a person in PromptUser::ask       *)
(* (desktop mcp_confirm.rs), whose map of waiting requests is Pending.     *)
(*                                                                         *)
(* What a step tells the window is named by the module that composes it    *)
(* with the window (AgentConsent).                                         *)
(***************************************************************************)
EXTENDS Naturals, FiniteSets

CONSTANTS
    Call,   \* the requests' ids
    Chat,   \* those a chat's agent makes
    Job     \* those to run a job; the others are a sidecar's writes

ASSUME CallerAssumption == Chat \subseteq Call /\ Job \subseteq Call \ Chat

VARIABLES
    at,      \* how far each is
    answer,  \* what was sent down its channel
    verdict, \* what it is leaving ask with
    pending, \* Pending's map
    records  \* its audit records

host == <<at, answer, verdict, pending, records>>

Word == {"yes", "no"}

HostTypeOK ==
    /\ at \in [Call -> {"idle", "asking", "waiting", "elapsed", "closing",
                        "allowed", "running", "over"}]
    /\ answer \in [Call -> Word \cup {"none"}]
    /\ verdict \in [Call -> {"none", "approved", "denied", "unshown", "timeout", "dropped"}]
    /\ pending \subseteq Call
    /\ records \in [Call -> 0..1]

HostInit ==
    /\ at = [c \in Call |-> "idle"]
    /\ answer = [c \in Call |-> "none"]
    /\ verdict = [c \in Call |-> "none"]
    /\ pending = {}
    /\ records = [c \in Call |-> 0]

Moves(c, from, to) == at[c] = from /\ at' = [at EXCEPT ![c] = to]

\* The receiving end of a request's channel is there.
Listening(c) == at[c] \in {"asking", "waiting", "elapsed"}

-------------------------------------------------------------------------------
(* ask.                                                                    *)

\* The request is in the map before the window hears of it.
Ask(c) ==
    /\ Moves(c, "idle", "asking")
    /\ pending' = pending \cup {c}
    /\ UNCHANGED <<answer, verdict, records>>

\* The event is emitted; or there is no window to emit it to.
Show(c) == Moves(c, "asking", "waiting") /\ UNCHANGED <<answer, verdict, pending, records>>

\* Every way out drops ResolveOnDrop: the map forgets the request, and then
\* the window is told.
Decides(c, from, decision) ==
    /\ Moves(c, from, "closing")
    /\ verdict' = [verdict EXCEPT ![c] = decision]
    /\ pending' = pending \ {c}
    /\ UNCHANGED <<answer, records>>

Unshown(c) == Decides(c, "asking", "unshown")

Receive(c) ==
    /\ answer[c] # "none"
    /\ Decides(c, "waiting", IF answer[c] = "yes" THEN "approved" ELSE "denied")

\* The minute is over: the channel was polled, and is dropped a moment later.
Elapse(c) ==
    /\ answer[c] = "none"
    /\ Moves(c, "waiting", "elapsed")
    /\ UNCHANGED <<answer, verdict, pending, records>>

TimeOut(c) == Decides(c, "elapsed", "timeout")

\* The caller goes on with the verdict: a refusal is recorded; a sidecar's call
\* runs, a write on a task of its own; an agent's is looked at once more.
Announce(c) ==
    /\ Moves(c, "closing", IF verdict[c] # "approved" THEN "over"
                           ELSE IF c \in Chat THEN "allowed" ELSE "running")
    /\ records' = [records EXCEPT ![c] = IF verdict[c] \in {"approved", "dropped"} THEN @ ELSE 1]
    /\ verdict' = [verdict EXCEPT ![c] = "none"]
    /\ UNCHANGED <<answer, pending>>

-------------------------------------------------------------------------------
(* Answers.                                                                *)

\* resolve, deny_chat and deny_all: an entry is answered as it is taken out.
Take(calls, said) ==
    /\ pending' = pending \ calls
    /\ answer' = [c \in Call |-> IF c \in calls \cap pending /\ Listening(c) THEN said
                                 ELSE answer[c]]
    /\ UNCHANGED <<at, verdict, records>>

\* The server is switched off; a chat's turn is stopped.
DenyAll == pending # {} /\ Take(pending, "no")
DenyChat(c) == c \in Chat /\ c \in pending /\ Take({c}, "no")

-------------------------------------------------------------------------------
(* What comes of an approval.                                              *)

Run(c) == Moves(c, "allowed", "running") /\ UNCHANGED <<answer, verdict, pending, records>>

Ends(c, from, recorded) ==
    /\ Moves(c, from, "over")
    /\ records' = [records EXCEPT ![c] = @ + recorded]
    /\ UNCHANGED <<answer, verdict, pending>>

\* The assistant was switched off while the prompt was open.
Refuse(c) == Ends(c, "allowed", 1)

\* invoke_audited: run, then recorded.
Finish(c) == Ends(c, "running", 1)

\* A deviation spares the record of a job that was cancelled.
AbandonJob(c) ==
    \/ Decides(c, "waiting", "dropped")
    \/ Ends(c, "allowed", 0)
    \/ c \in Job \cup Chat /\ Ends(c, "running", 0)

\* The caller's future is dropped at an await: its sidecar cancelled the call
\* or is gone, its turn was stopped, its connection closed.
Abandon(c) ==
    \/ Decides(c, "waiting", "dropped")
    \/ Ends(c, "allowed", 0)
    \/ c \in Job /\ Ends(c, "running", 1)
    \/ c \in Chat /\ Ends(c, "running", 0)
================================================================================
