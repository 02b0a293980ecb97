----------------------------- MODULE SidecarCalls -----------------------------
(***************************************************************************)
(* The sidecar's own calls to the host, in one session: admission by the   *)
(* reader, a worker per call, cancellation, the bounded answer queue, and  *)
(* the end of the session (Connection::answer_call, handle and end in      *)
(* crates/plugin-host/src/sidecar/connection.rs).                          *)
(*                                                                         *)
(* The sidecar reuses ids and cancels as it likes, and may never read its  *)
(* stdin.  An answer names the call it answers by its id and by how many   *)
(* calls with that id came before it.                                      *)
(***************************************************************************)
EXTENDS Naturals, Sequences, FiniteSets

CONSTANTS
    CallId,        \* ids a sidecar gives its calls
    NoId,          \* no line is being handled yet
    MaxCallbacks,  \* Limits::max_concurrent_requests, the `callbacks` semaphore
    AnswerBuffer,  \* ANSWER_BUFFER
    MaxCalls       \* bound of the model: calls with one id in one session

ASSUME CallsAssumption ==
    /\ NoId \notin CallId
    /\ MaxCallbacks \in Nat \ {0}
    /\ AnswerBuffer \in Nat \ {0}
    /\ MaxCalls \in Nat

VARIABLES
    at,        \* where the reader is: between two lines, or inside `answer_call`
    current,   \* the id of the line the reader is handling
    calls,     \* State.calls: "none", "armed" = Some(cancel), "taken" = None
    signal,    \* ids whose worker was sent its cancellation
    worker,    \* the worker of each id's call in flight
    callbacks, \* ids that hold a permit of the `callbacks` semaphore
    ended,     \* State.ended
    toCancel,  \* cancellations `end` took and has still to send
    log,       \* every answer queued, in the order it was
    written,   \* how many of them the writer took out of the queue
    made,      \* calls the reader took so far, by id
    accepted   \* calls whose cancellation was taken, by the reader or `end`

readerVars == <<at, current>>
workVars == <<calls, signal, worker, callbacks>>
vars == <<readerVars, workVars, ended, toCancel, log, written, made, accepted>>

Call == CallId \X Nat
Verdict == {"refused", "busy", "outcome", "cancelled"}

TypeOK ==
    /\ at \in {"reading", "checked", "placed", "permitted", "signalling", "violated"}
    /\ current \in CallId \cup {NoId}
    /\ at \in {"checked", "placed", "permitted", "signalling"} => current \in CallId
    /\ calls \in [CallId -> {"none", "armed", "taken"}]
    /\ signal \subseteq CallId
    /\ worker \in [CallId -> {"none", "working", "outcome", "cancelled",
                              "released outcome", "released cancelled"}]
    /\ callbacks \subseteq CallId
    /\ ended \in BOOLEAN
    /\ toCancel \subseteq CallId
    /\ log \in Seq([call : Call, verdict : Verdict])
    /\ written \in 0..Len(log)
    /\ made \in [CallId -> Nat]
    /\ accepted \subseteq Call

Init ==
    /\ at = "reading"
    /\ current = NoId
    /\ calls = [i \in CallId |-> "none"]
    /\ signal = {}
    /\ worker = [i \in CallId |-> "none"]
    /\ callbacks = {}
    /\ ended = FALSE
    /\ toCancel = {}
    /\ log = <<>>
    /\ written = 0
    /\ made = [i \in CallId |-> 0]
    /\ accepted = {}

InFlight == {i \in CallId : calls[i] # "none"}
Working == {i \in CallId : worker[i] # "none"}
The(i) == <<i, made[i]>>

\* place.send: the answer goes into the place kept for it.
Queue(i, verdict) == log' = Append(log, [call |-> The(i), verdict |-> verdict])

\* Places of the answer queue in use: queued answers, workers, the reader's own.
Reserved == Cardinality(Working) + (IF at \in {"placed", "permitted"} THEN 1 ELSE 0)
Queued == Len(log) - written

-------------------------------------------------------------------------------
(* The reader: answer_call, one step for each lock, place or permit taken. *)

\* The duplicate check, under the lock; a deviation that leaves it out.
KnownNever(i) == FALSE
Known(i) == calls[i] # "none"

ReadCall(i) ==
    /\ at = "reading"
    /\ made[i] < MaxCalls
    /\ current' = i
    /\ IF Known(i)
       THEN at' = "violated" /\ UNCHANGED made
       ELSE at' = "checked" /\ made' = [made EXCEPT ![i] = @ + 1]
    /\ UNCHANGED <<workVars, ended, toCancel, log, written, accepted>>

\* A place that try_reserve_owned may take; the deviation counts only the answers
\* already queued.
PlaceFreeNow == Queued < AnswerBuffer
PlaceFree == Queued + Reserved < AnswerBuffer

\* A sidecar that does not read its answers breaks the protocol, and so does one
\* whose writer has stopped: its stdin is broken, so the channel is closed.  A
\* callback of an API version it did not negotiate is answered at once.
Reserve ==
    /\ at = "checked"
    /\ \/ /\ at' = "violated"
          /\ UNCHANGED log
       \/ /\ PlaceFree
          /\ at' = "reading"
          /\ Queue(current, "refused")
       \/ /\ PlaceFree
          /\ at' = "placed"
          /\ UNCHANGED log
    /\ UNCHANGED <<current, workVars, ended, toCancel, written, made, accepted>>

TakePermit ==
    /\ at = "placed"
    /\ IF Cardinality(callbacks) < MaxCallbacks
       THEN /\ at' = "permitted"
            /\ callbacks' = callbacks \cup {current}
            /\ UNCHANGED log
       ELSE /\ at' = "reading"
            /\ Queue(current, "busy")
            /\ UNCHANGED callbacks
    /\ UNCHANGED <<current, calls, signal, worker, ended, toCancel, written,
                   made, accepted>>

\* `state.ended` under the lock that inserts; a deviation that does not look.
AdmittingAlways == TRUE
Admitting == ~ended

\* The call enters the table and its worker starts, or, the session over, its
\* place and permit are dropped.
Insert ==
    /\ at = "permitted"
    /\ at' = "reading"
    /\ IF Admitting
       THEN /\ calls' = [calls EXCEPT ![current] = "armed"]
            /\ worker' = [worker EXCEPT ![current] = "working"]
            /\ signal' = signal \ {current}
            /\ UNCHANGED callbacks
       ELSE /\ callbacks' = callbacks \ {current}
            /\ UNCHANGED <<calls, worker, signal>>
    /\ UNCHANGED <<current, ended, toCancel, log, written, made, accepted>>

\* $/cancel: the sender is taken under the lock.  One for a call that is not
\* there, or is cancelled already, is ignored.
ReadCancel(i) ==
    /\ at = "reading"
    /\ calls[i] = "armed"
    /\ calls' = [calls EXCEPT ![i] = "taken"]
    /\ accepted' = accepted \cup {The(i)}
    /\ at' = "signalling"
    /\ current' = i
    /\ UNCHANGED <<signal, worker, callbacks, ended, toCancel, log, written, made>>

\* The worker is told after the lock is released; one that has settled by then
\* no longer listens.
Signal ==
    /\ at = "signalling"
    /\ at' = "reading"
    /\ signal' = IF worker[current] # "none" THEN signal \cup {current} ELSE signal
    /\ UNCHANGED <<current, calls, worker, callbacks, ended, toCancel, log,
                   written, made, accepted>>

-------------------------------------------------------------------------------
(* A worker: the biased select, the permit, the answer.                    *)

\* A cancellation that has arrived wins; otherwise the broker may answer.
Choose(i) ==
    /\ worker[i] = "working"
    /\ worker' = [worker EXCEPT ![i] = IF i \in signal THEN "cancelled" ELSE "outcome"]
    /\ UNCHANGED <<readerVars, calls, signal, callbacks, ended, toCancel, log,
                   written, made, accepted>>

\* A deviation: the permit goes after the answer, with the rest of the task.
ReleaseLast(i) ==
    /\ \/ /\ worker[i] \in {"outcome", "cancelled"}
          /\ worker' = [worker EXCEPT ![i] =
                           IF @ = "outcome" THEN "released outcome" ELSE "released cancelled"]
          /\ UNCHANGED callbacks
       \/ /\ worker[i] = "none" /\ at # "permitted"
          /\ callbacks' = callbacks \ {i}
          /\ UNCHANGED worker
    /\ UNCHANGED <<readerVars, calls, signal, ended, toCancel, log, written,
                   made, accepted>>

\* The permit is free before the answer can be seen.
Release(i) ==
    /\ worker[i] \in {"outcome", "cancelled"}
    /\ worker' = [worker EXCEPT ![i] =
                     IF @ = "outcome" THEN "released outcome" ELSE "released cancelled"]
    /\ callbacks' = callbacks \ {i}
    /\ UNCHANGED <<readerVars, calls, signal, ended, toCancel, log, written,
                   made, accepted>>

\* What the worker answers: a cancellation taken before now is the answer, even
\* when the broker's was chosen.  The deviation keeps its choice.
AnswerChosen(i) == IF worker[i] = "released outcome" THEN "outcome" ELSE "cancelled"
AnswerOf(i) ==
    IF calls[i] = "taken" \/ worker[i] = "released cancelled"
    THEN "cancelled" ELSE "outcome"

\* Under the lock: the entry goes and the answer is queued.
Settle(i) ==
    /\ worker[i] \in {"released outcome", "released cancelled"}
    /\ Queue(i, AnswerOf(i))
    /\ calls' = [calls EXCEPT ![i] = "none"]
    /\ worker' = [worker EXCEPT ![i] = "none"]
    /\ signal' = signal \ {i}
    /\ UNCHANGED <<readerVars, callbacks, ended, toCancel, written, made, accepted>>

-------------------------------------------------------------------------------
(* The end of the session, and the writer.                                 *)

\* Every sender is taken and every entry left.
End ==
    /\ ended' = TRUE
    /\ LET armed == {i \in CallId : calls[i] = "armed"}
       IN  /\ calls' = [i \in CallId |-> IF i \in armed THEN "taken" ELSE calls[i]]
           /\ toCancel' = toCancel \cup armed
           /\ accepted' = accepted \cup {The(i) : i \in armed}
    /\ UNCHANGED <<readerVars, signal, worker, callbacks, log, written, made>>

EndSignal(i) ==
    /\ i \in toCancel
    /\ toCancel' = toCancel \ {i}
    /\ signal' = IF worker[i] # "none" THEN signal \cup {i} ELSE signal
    /\ UNCHANGED <<readerVars, calls, worker, callbacks, ended, log, written,
                   made, accepted>>

\* `write` waits for an answer.
Waiting == Queued > 0

\* The writer takes an answer once the sidecar reads its stdin.
Write ==
    /\ Waiting
    /\ written' = written + 1
    /\ UNCHANGED <<readerVars, workVars, ended, toCancel, log, made, accepted>>

Reader == Reserve \/ TakePermit \/ Insert \/ Signal
Sidecar == \E i \in CallId : ReadCall(i) \/ ReadCancel(i)
Worker(i) == Choose(i) \/ Release(i) \/ Settle(i)

Next ==
    \/ Reader
    \/ Sidecar
    \/ \E i \in CallId : Worker(i) \/ EndSignal(i)
    \/ End
    \/ Write

Spec == Init /\ [][Next]_vars

\* A worker runs on once it has its answer or its cancellation; the broker (a
\* person asked for consent) and the sidecar may take forever.
CancelledWorks(i) == (i \in signal /\ Choose(i)) \/ Release(i) \/ Settle(i)

Fairness ==
    /\ WF_vars(Reader)
    /\ \A i \in CallId : WF_vars(CancelledWorks(i)) /\ WF_vars(EndSignal(i))

FairSpec == Spec /\ Fairness

-------------------------------------------------------------------------------
(* What makes the answers correct.                                         *)

\* ANSWER_BUFFER bounds all the answers waiting, being worked out or queued, so
\* a sidecar that does not read cannot grow the host's memory.
AnswersBounded == TypeOK /\ Queued + Reserved <= AnswerBuffer

\* Calls that reuse an id are answered in the order they were made, each at
\* most once: the sidecar can tell whose answer it reads.
AnswersInTurn ==
    \A a, b \in 1..Len(log) :
        a < b /\ log[a].call[1] = log[b].call[1] => log[a].call[2] < log[b].call[2]

\* A worker and its table entry come and go together, so no cancellation is
\* accepted for a call that has been answered and no permit is lost.
WorkersOwned ==
    /\ InFlight = Working
    /\ \A i \in callbacks :
          \/ worker[i] \in {"working", "outcome", "cancelled"}
          \/ at = "permitted" /\ current = i

\* A call whose cancellation was accepted is answered as cancelled, whichever
\* of the broker and the cancellation its worker saw first; no other is.
CancelledIsAnswered ==
    /\ WorkersOwned
    /\ \A k \in 1..Len(log) :
        (log[k].call \in accepted) <=> (log[k].verdict = "cancelled")

\* A call is refused as busy only while as many others are unanswered: a
\* sidecar that waits for an answer before it calls again is never refused, so
\* the permit goes before the answer (connection.rs:580, :594).
BusyIsTrue ==
    [][\A i \in CallId : at = "placed" /\ at' = "reading" =>
          Cardinality(InFlight) >= MaxCallbacks]_vars

\* Each call in flight when the session ends is answered, whatever the broker
\* does: dropped, with no permit and no place kept.
EndedDrains == \A i \in CallId : ended /\ calls[i] # "none" ~> calls[i] = "none"
===============================================================================
