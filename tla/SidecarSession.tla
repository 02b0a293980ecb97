---------------------------- MODULE SidecarSession ----------------------------
(***************************************************************************)
(* The host's half of one sidecar's JSON-RPC session: numbering requests,  *)
(* matching answers to them, the streams the host opened, the limits on    *)
(* both, and the end of the session                                        *)
(* (crates/plugin-host/src/sidecar/connection.rs).                         *)
(*                                                                         *)
(* A task is a future that runs Connection::request, open_stream, or the   *)
(* supervisor's own `call`.  Its steps are the stretches between two       *)
(* operations on shared state: the mutex, a semaphore, a channel.  The     *)
(* sidecar is unconstrained: it may write any answer or frame at any time. *)
(***************************************************************************)
EXTENDS Naturals, Sequences, FiniteSets

CONSTANTS
    Task,          \* futures that use the connection
    MaxRequests,   \* Limits::max_concurrent_requests
    MaxStreams,    \* Limits::max_streams
    StreamBuffer,  \* STREAM_BUFFER, the places of a stream's channel
    MaxId,         \* bound of the model: requests numbered in one session
    MaxStreamId    \* bound of the model: streams numbered in one session

ASSUME SessionAssumption ==
    /\ MaxRequests \in Nat \ {0}
    /\ MaxStreams \in Nat \ {0}
    /\ StreamBuffer \in Nat \ {0}
    /\ MaxId \in Nat
    /\ MaxStreamId \in Nat

Id == 1..MaxId
StreamId == 1..MaxStreamId

VARIABLES
    pc,          \* where each task is
    kind,        \* what it runs: an app request, open_stream, a lifecycle call
    id,          \* the request id it was given, 0 before that
    sid,         \* the stream id it was given, 0 before that
    result,      \* what its `call` returned
    permits,     \* tasks that hold a permit of the `requests` semaphore
    slots,       \* tasks that hold a permit of `streams` outside `open`
    nextId,      \* State.next_id
    pending,     \* State.pending: ids with a waiter
    answer,      \* the oneshot channel of each request
    nextStream,  \* State.next_stream
    open,        \* State.open: each entry holds its stream's permit
    events,      \* each stream's channel
    receivers,   \* streams whose receiving half is alive
    heard,       \* streams whose terminal event has been read
    ended,       \* State.ended
    taken,       \* waiters `end` took from `pending` and has still to answer
    takenOpen,   \* streams `end` took from `open` and has still to fail
    overrun,     \* streams stopped by `deliver` whose stream/cancel is unsent
    reader,      \* the task that reads the sidecar's stdout
    sent         \* lines sent to the sidecar

taskVars == <<pc, kind, id, sid, result>>
tableVars == <<nextId, pending, nextStream, open>>
endVars == <<ended, taken, takenOpen>>
streamVars == <<events, receivers, heard>>
vars == <<taskVars, permits, slots, tableVars, answer, streamVars, endVars,
          overrun, reader, sent>>

Kind == {"request", "stream", "lifecycle"}
Location == {"idle", "slotted", "permitted", "opened", "registered", "waiting",
             "dropping", "cancelling", "returning", "closing",
             "streamCancelling", "reading"}
Outcome == {"none", "ok", "failed", "ended", "timedOut", "abandoned"}
Event == {"data", "closed", "failed"}
Terminal == {"closed", "failed"}
Line == {"request", "cancel"} \X Id \cup {"streamCancel"} \X StreamId

\* One type invariant for the whole session.
TypeOK ==
    /\ pc \in [Task -> Location]
    /\ kind \in [Task -> Kind]
    /\ id \in [Task -> Id \cup {0}]
    /\ sid \in [Task -> StreamId \cup {0}]
    /\ result \in [Task -> Outcome]
    /\ permits \subseteq Task
    /\ slots \subseteq Task
    /\ nextId \in 1..(MaxId + 1)
    /\ pending \subseteq Id
    /\ answer \in [Id -> {"none", "ok", "failed", "ended"}]
    /\ nextStream \in 1..(MaxStreamId + 1)
    /\ open \subseteq StreamId
    /\ events \in [StreamId -> Seq(Event)]
    /\ receivers \subseteq StreamId
    /\ heard \subseteq StreamId
    /\ ended \in BOOLEAN
    /\ taken \subseteq Id
    /\ takenOpen \subseteq StreamId
    /\ overrun \subseteq StreamId
    /\ reader \in {"reading", "violated", "eof"}
    /\ sent \subseteq Line

\* Ids and stream ids count from 1; `..State::default()` alone would give 0.
FirstId == 1

Init ==
    /\ pc = [t \in Task |-> "idle"]
    /\ kind = [t \in Task |-> "request"]
    /\ id = [t \in Task |-> 0]
    /\ sid = [t \in Task |-> 0]
    /\ result = [t \in Task |-> "none"]
    /\ permits = {}
    /\ slots = {}
    /\ nextId = FirstId
    /\ pending = {}
    /\ answer = [i \in Id |-> "none"]
    /\ nextStream = FirstId
    /\ open = {}
    /\ events = [s \in StreamId |-> <<>>]
    /\ receivers = {}
    /\ heard = {}
    /\ ended = FALSE
    /\ taken = {}
    /\ takenOpen = {}
    /\ overrun = {}
    /\ reader = "reading"
    /\ sent = {}

Goto(t, from, to) == pc[t] = from /\ pc' = [pc EXCEPT ![t] = to]

\* A task's locals go with it: the next future in its place starts afresh.
Reset(t) ==
    /\ id' = [id EXCEPT ![t] = 0]
    /\ sid' = [sid EXCEPT ![t] = 0]
    /\ result' = [result EXCEPT ![t] = "none"]
    /\ UNCHANGED kind

-------------------------------------------------------------------------------
(* Admission: the limits, and the tables under the lock.                   *)

\* `state.ended` read under the lock that admits; the deviation admits always.
AdmittingAlways == TRUE
Admitting == ~ended

\* The bounds of the model: a call starts only while an id is left for it.
Unnumbered == {t \in Task : pc[t] \in {"slotted", "permitted", "opened"}}
Budget == nextId + Cardinality(Unnumbered) \in Id
StreamBudget == nextStream + Cardinality(Unnumbered) \in StreamId

SlotFreeByTable == Cardinality(open) < MaxStreams

PermitFree == Cardinality(permits) < MaxRequests
SlotFree == Cardinality(slots) + Cardinality(open) < MaxStreams

\* `request`: refused with Busy when no permit is left.
StartRequest(t) ==
    /\ Goto(t, "idle", "permitted")
    /\ Budget
    /\ PermitFree
    /\ kind' = [kind EXCEPT ![t] = "request"]
    /\ permits' = permits \cup {t}
    /\ UNCHANGED <<id, sid, result, slots, tableVars, answer, streamVars, endVars,
                   overrun, reader, sent>>

\* `call` by the supervisor: initialize, health, shutdown; no permit.
StartLifecycle(t) ==
    /\ Goto(t, "idle", "permitted")
    /\ Budget
    /\ kind' = [kind EXCEPT ![t] = "lifecycle"]
    /\ UNCHANGED <<id, sid, result, permits, slots, tableVars, answer, streamVars,
                   endVars, overrun, reader, sent>>

\* `open_stream`: refused with TooManyStreams when no slot is left.
StartStream(t) ==
    /\ Goto(t, "idle", "slotted")
    /\ Budget /\ StreamBudget
    /\ SlotFree
    /\ kind' = [kind EXCEPT ![t] = "stream"]
    /\ slots' = slots \cup {t}
    /\ UNCHANGED <<id, sid, result, permits, tableVars, answer, streamVars,
                   endVars, overrun, reader, sent>>

\* The stream's own request permit; Busy gives the slot back.
StreamPermit(t) ==
    /\ \/ /\ PermitFree
          /\ Goto(t, "slotted", "permitted")
          /\ permits' = permits \cup {t}
          /\ UNCHANGED slots
       \/ /\ ~PermitFree
          /\ Goto(t, "slotted", "idle")
          /\ slots' = slots \ {t}
          /\ UNCHANGED permits
    /\ UNCHANGED <<kind, id, sid, result, tableVars, answer, streamVars, endVars,
                   overrun, reader, sent>>

\* `open_stream` under the lock: the entry takes the slot over.
OpenEntry(t) ==
    /\ kind[t] = "stream"
    /\ \/ /\ ~Admitting
          /\ Goto(t, "permitted", "idle")
          /\ permits' = permits \ {t}
          /\ UNCHANGED <<sid, open, receivers, nextStream>>
       \/ /\ Admitting
          /\ nextStream \in StreamId
          /\ Goto(t, "permitted", "opened")
          /\ sid' = [sid EXCEPT ![t] = nextStream]
          /\ open' = open \cup {nextStream}
          /\ receivers' = receivers \cup {nextStream}
          /\ nextStream' = nextStream + 1
          /\ UNCHANGED permits
    /\ slots' = slots \ {t}
    /\ UNCHANGED <<kind, id, result, nextId, pending, answer, events, heard,
                   endVars,
                   overrun, reader, sent>>

\* `call` under the lock: nothing is admitted once the session ended.
Register(t) ==
    /\ IF kind[t] = "stream" THEN pc[t] = "opened" ELSE pc[t] = "permitted"
    /\ \/ /\ ~Admitting
          /\ pc' = [pc EXCEPT ![t] = "returning"]
          /\ result' = [result EXCEPT ![t] = "ended"]
          /\ UNCHANGED <<id, nextId, pending>>
       \/ /\ Admitting
          /\ nextId \in Id
          /\ pc' = [pc EXCEPT ![t] = "registered"]
          /\ id' = [id EXCEPT ![t] = nextId]
          /\ pending' = pending \cup {nextId}
          /\ nextId' = nextId + 1
          /\ UNCHANGED result
    /\ UNCHANGED <<kind, sid, permits, slots, nextStream, open, answer, streamVars,
                   endVars, overrun, reader, sent>>

SendRequest(t) ==
    /\ Goto(t, "registered", "waiting")
    /\ sent' = sent \cup {<<"request", id[t]>>}
    /\ UNCHANGED <<kind, id, sid, result, permits, slots, tableVars, answer,
                   streamVars, endVars, overrun, reader>>

-------------------------------------------------------------------------------
(* A task waiting for its answer.                                          *)

\* The oneshot is polled before the timer, so an answer there wins.
Wake(t) ==
    /\ Goto(t, "waiting", "dropping")
    /\ answer[id[t]] # "none"
    /\ result' = [result EXCEPT ![t] = answer[id[t]]]
    /\ UNCHANGED <<kind, id, sid, permits, slots, tableVars, answer, streamVars,
                   endVars, overrun, reader, sent>>

TimeOut(t) ==
    /\ Goto(t, "waiting", "dropping")
    /\ answer[id[t]] = "none"
    /\ result' = [result EXCEPT ![t] = "timedOut"]
    /\ UNCHANGED <<kind, id, sid, permits, slots, tableVars, answer, streamVars,
                   endVars, overrun, reader, sent>>

\* The caller drops the future, at the only place where it may be suspended.
Abandon(t) ==
    /\ Goto(t, "waiting", "dropping")
    /\ result' = [result EXCEPT ![t] = "abandoned"]
    /\ UNCHANGED <<kind, id, sid, permits, slots, tableVars, answer, streamVars,
                   endVars, overrun, reader, sent>>

\* Whether the guard found its own entry.  Two deviations: not looking, and
\* looking once it has been removed.
StillPendingUnchecked(t) == ~ended
StillPendingTooLate(t) == id[t] \in pending \ {id[t]} /\ ~ended
StillPending(t) == id[t] \in pending /\ ~ended

\* PendingGuard::drop: leave the table, then cancel outside the lock.
DropPending(t) ==
    /\ Goto(t, "dropping", IF StillPending(t) THEN "cancelling" ELSE "returning")
    /\ pending' = pending \ {id[t]}
    /\ UNCHANGED <<kind, id, sid, result, permits, slots, nextId, nextStream,
                   open, answer, streamVars, endVars, overrun, reader, sent>>

SendCancel(t) ==
    /\ Goto(t, "cancelling", "returning")
    /\ sent' = sent \cup {<<"cancel", id[t]>>}
    /\ UNCHANGED <<kind, id, sid, result, permits, slots, tableVars, answer,
                   streamVars, endVars, overrun, reader>>

\* `request`, and the supervisor's `call`: the permit goes with the future.
Return(t) ==
    /\ kind[t] # "stream"
    /\ Goto(t, "returning", "idle")
    /\ Reset(t)
    /\ permits' = permits \ {t}
    /\ UNCHANGED <<slots, tableVars, answer, streamVars, endVars, overrun, reader,
                   sent>>

\* open_stream after its `call`: accepted, refused, or neither.
ReturnStream(t) ==
    /\ kind[t] = "stream"
    /\ \/ /\ result[t] = "ok"
          /\ Goto(t, "returning", "reading")
          /\ permits' = permits \ {t}
          /\ UNCHANGED open
       \/ /\ result[t] = "failed"
          /\ Goto(t, "returning", "closing")
          /\ open' = open \ {sid[t]}
          /\ UNCHANGED permits
       \/ /\ result[t] \notin {"ok", "failed"}
          /\ Goto(t, "returning", "closing")
          /\ UNCHANGED <<open, permits>>
    /\ UNCHANGED <<kind, id, sid, result, slots, nextId, pending, nextStream,
                   answer, streamVars, endVars, overrun, reader, sent>>

-------------------------------------------------------------------------------
(* The reader of an open stream, and the stream's guard.                   *)

NextEvent(t) ==
    /\ pc[t] = "reading"
    /\ events[sid[t]] # <<>>
    /\ events' = [events EXCEPT ![sid[t]] = Tail(@)]
    /\ heard' = IF Head(events[sid[t]]) \in Terminal THEN heard \cup {sid[t]}
                                                     ELSE heard
    /\ UNCHANGED <<taskVars, receivers, permits, slots, tableVars, answer, endVars,
                   overrun, reader, sent>>

\* SidecarStream's fields drop in order: the receiver, then the guard.
DropStream(t) ==
    /\ Goto(t, "reading", "closing")
    /\ receivers' = receivers \ {sid[t]}
    /\ events' = [events EXCEPT ![sid[t]] = <<>>]
    /\ UNCHANGED <<kind, id, sid, result, permits, slots, tableVars, answer,
                   heard, endVars, overrun, reader, sent>>

\* Whether the guard found the stream's entry.
StillOpen(t) == sid[t] \in open /\ ~ended

\* StreamGuard::drop; the locals of open_stream, its permit too, go after it.
CloseStream(t) ==
    /\ pc[t] = "closing"
    /\ open' = open \ {sid[t]}
    /\ receivers' = receivers \ {sid[t]}
    /\ events' = [events EXCEPT ![sid[t]] = <<>>]
    /\ IF StillOpen(t)
       THEN /\ Goto(t, "closing", "streamCancelling")
            /\ UNCHANGED <<id, sid, result, permits>>
       ELSE /\ Goto(t, "closing", "idle")
            /\ Reset(t)
            /\ permits' = permits \ {t}
    /\ UNCHANGED <<kind, slots, nextId, pending, nextStream, answer, heard,
                   endVars, overrun, reader, sent>>

SendStreamCancel(t) ==
    /\ Goto(t, "streamCancelling", "idle")
    /\ sent' = sent \cup {<<"streamCancel", sid[t]>>}
    /\ Reset(t)
    /\ permits' = permits \ {t}
    /\ UNCHANGED <<slots, tableVars, answer, streamVars, endVars, overrun, reader>>

-------------------------------------------------------------------------------
(* The reader task: `read` and `handle`, one line of stdout at a time.     *)
(* It stops at the first violation of the protocol.                        *)

CanRead == reader = "reading" /\ overrun = {}

NeverSent(i) == i >= nextId

\* An answer: the waiter's, one that crossed a cancellation, or a violation.
Response(i) ==
    /\ CanRead
    /\ \/ /\ i \in pending
          /\ pending' = pending \ {i}
          /\ \E o \in {"ok", "failed"} : answer' = [answer EXCEPT ![i] = o]
          /\ UNCHANGED reader
       \/ /\ i \notin pending
          /\ NeverSent(i)
          /\ reader' = "violated"
          /\ UNCHANGED <<pending, answer>>
    /\ UNCHANGED <<taskVars, permits, slots, nextId, nextStream, open, streamVars,
                   endVars, overrun, sent>>

\* `stream_of`: a frame for a stream the host never opened is a violation.
UnknownStream(s) ==
    /\ CanRead
    /\ s >= nextStream
    /\ reader' = "violated"
    /\ UNCHANGED <<taskVars, permits, slots, tableVars, answer, streamVars,
                   endVars, overrun, sent>>

\* tokio's Sender::capacity: the places of the channel that are free.
Capacity(s) == StreamBuffer - Len(events[s])

\* tokio's try_send: lost when the channel is full or its receiver is gone.
Offer(s, e) == IF s \in receivers /\ Capacity(s) > 0
               THEN Append(events[s], e)
               ELSE events[s]

\* Room for data; the deviation fills the last place.
RoomToTheLast(s) == Capacity(s) > 0
Room(s) == Capacity(s) > 1

\* `deliver`: the last place is kept for the terminal event.
Deliver(s) ==
    /\ CanRead
    /\ s \in open
    /\ \/ /\ Room(s)
          /\ events' = [events EXCEPT ![s] = Offer(s, "data")]
          /\ UNCHANGED <<open, overrun>>
       \/ /\ ~Room(s)
          /\ events' = [events EXCEPT ![s] = Offer(s, "failed")]
          /\ open' = open \ {s}
          /\ overrun' = overrun \cup {s}
    /\ UNCHANGED <<taskVars, receivers, heard, permits, slots, nextId, pending, nextStream,
                   answer, endVars, reader, sent>>

\* The tail of `deliver`, outside the lock.
CancelOverrun(s) ==
    /\ s \in overrun
    /\ overrun' = overrun \ {s}
    /\ sent' = sent \cup {<<"streamCancel", s>>}
    /\ UNCHANGED <<taskVars, permits, slots, tableVars, answer, streamVars,
                   endVars, reader>>

\* `finish`: the sidecar closed the stream or reported its failure.
Finish(s) ==
    /\ CanRead
    /\ s \in open
    /\ \E e \in Terminal : events' = [events EXCEPT ![s] = Offer(s, e)]
    /\ open' = open \ {s}
    /\ UNCHANGED <<taskVars, receivers, heard, permits, slots, nextId, pending, nextStream,
                   answer, endVars, overrun, reader, sent>>

Eof ==
    /\ CanRead
    /\ reader' = "eof"
    /\ UNCHANGED <<taskVars, permits, slots, tableVars, answer, streamVars,
                   endVars, overrun, sent>>

-------------------------------------------------------------------------------
(* The end of the session, called by the supervisor or by its Drop.        *)

End ==
    /\ ended' = TRUE
    /\ taken' = taken \cup pending
    /\ takenOpen' = takenOpen \cup open
    /\ pending' = {}
    /\ open' = {}
    /\ UNCHANGED <<taskVars, permits, slots, nextId, nextStream, answer,
                   streamVars, overrun, reader, sent>>

\* Outside the lock `end` answers the waiters, then fails the streams.
EndAnswer(i) ==
    /\ i \in taken
    /\ taken' = taken \ {i}
    /\ answer' = [answer EXCEPT ![i] = "ended"]
    /\ UNCHANGED <<taskVars, permits, slots, tableVars, streamVars, ended,
                   takenOpen, overrun, reader, sent>>

EndStream(s) ==
    /\ taken = {}
    /\ s \in takenOpen
    /\ takenOpen' = takenOpen \ {s}
    /\ events' = [events EXCEPT ![s] = Offer(s, "failed")]
    /\ UNCHANGED <<taskVars, receivers, heard, permits, slots, tableVars, answer, ended, taken,
                   overrun, reader, sent>>

-------------------------------------------------------------------------------
TaskStep(t) ==
    \/ StreamPermit(t) \/ OpenEntry(t) \/ Register(t) \/ SendRequest(t)
    \/ Wake(t) \/ DropPending(t) \/ SendCancel(t)
    \/ Return(t) \/ ReturnStream(t) \/ CloseStream(t) \/ SendStreamCancel(t)

Caller(t) ==
    \/ StartRequest(t) \/ StartLifecycle(t) \/ StartStream(t)
    \/ TimeOut(t) \/ Abandon(t) \/ NextEvent(t) \/ DropStream(t)

Sidecar ==
    \/ \E i \in Id : Response(i)
    \/ \E s \in StreamId : UnknownStream(s) \/ Deliver(s) \/ Finish(s)
    \/ Eof

Ending ==
    \/ \E i \in Id : EndAnswer(i)
    \/ \E s \in StreamId : EndStream(s)

Next ==
    \/ \E t \in Task : TaskStep(t) \/ Caller(t)
    \/ Sidecar
    \/ \E s \in StreamId : CancelOverrun(s)
    \/ End
    \/ Ending

Spec == Init /\ [][Next]_vars

\* The runtime polls every ready task, and `end` runs to its end without an
\* await.  Nothing is assumed of the sidecar and its reader, callers or timers.
Fairness ==
    /\ \A t \in Task : WF_vars(TaskStep(t))
    /\ WF_vars(Ending)

FairSpec == Spec /\ Fairness

-------------------------------------------------------------------------------
(* The inductive invariant of the requests.                                *)

\* A task's locals are set where its code uses them.
Placed ==
    \A t \in Task :
        /\ pc[t] \in {"registered", "waiting", "dropping", "cancelling"} =>
              id[t] \in Id
        /\ pc[t] \in {"slotted", "opened", "reading", "closing",
                      "streamCancelling"} => kind[t] = "stream"
        /\ kind[t] = "stream" /\ pc[t] \notin {"idle", "slotted", "permitted"} =>
              sid[t] \in StreamId

\* An id is given out once, and until it is answered it is in one table.
Numbered ==
    /\ \A t \in Task : id[t] < nextId
    /\ \A t, u \in Task : id[t] = id[u] /\ id[t] # 0 => t = u
    /\ pending \cap taken = {}
    /\ \A i \in pending \cup taken : i < nextId
    /\ \A i \in Id : i >= nextId => answer[i] = "none" /\ <<"cancel", i>> \notin sent

\* Only one of an answer, the guard and `end` takes an id out of `pending`.
OneOutcome ==
    /\ \A i \in pending \cup taken :
          answer[i] = "none" /\ <<"cancel", i>> \notin sent
    /\ \A t \in Task : pc[t] = "cancelling" => id[t] \notin pending \cup taken

-------------------------------------------------------------------------------
(* What makes the session correct.                                         *)

\* Every entry of the two tables has a task that will take it out, so a caller
\* that goes away leaves neither a waiter nor a stream that holds a slot.
EntriesOwned ==
    /\ \A i \in pending : \E t \in Task :
          id[t] = i /\ pc[t] \in {"registered", "waiting", "dropping"}
    /\ \A s \in open : \E t \in Task :
          sid[t] = s /\ pc[t] \notin {"idle", "slotted", "permitted",
                                      "streamCancelling"}

\* However a request or an open_stream ends (answered, refused, timed out,
\* abandoned, at the end of the session), nothing it held outlives it: no permit,
\* no slot, no entry of the two tables, nor anything of another type.
NoLeak ==
    /\ TypeOK
    /\ \A t \in permits : pc[t] \notin {"idle", "slotted", "reading"}
    /\ \A t \in slots : pc[t] \in {"slotted", "permitted"}
    /\ Cardinality(slots) + Cardinality(open) <= MaxStreams
    /\ EntriesOwned

\* Once `end` has taken the tables nothing is admitted to them again, so no
\* waiter can be added that nobody will answer.
EndedAdmitsNothing == ended => pending = {} /\ open = {}

\* A request is answered or cancelled, never both: a cancel line is written
\* (or about to be) only for a request no answer was accepted for.
AnsweredOrCancelled ==
    /\ \A i \in Id : <<"cancel", i>> \in sent => answer[i] = "none"
    /\ \A t \in Task : pc[t] = "cancelling" =>
          answer[id[t]] = "none" /\ <<"cancel", id[t]>> \notin sent

\* What can have become of a request.
Accounted(i) ==
    \/ i \in pending \cup taken
    \/ answer[i] # "none"
    \/ <<"cancel", i>> \in sent
    \/ \E t \in Task : pc[t] = "cancelling" /\ id[t] = i

\* A request the sidecar may be working on is never just forgotten: it leaves
\* `pending` answered, or taken by `end`, or with a cancel line on its way.
GivenUpIsCancelled == \A i \in Id : i < nextId => Accounted(i)

\* A stream is cancelled at most once: `deliver`, the stream's guard and `end`
\* race for the entry, and only the one that removed it writes the line.
OneStreamCancel ==
    /\ \A s \in overrun :
          /\ <<"streamCancel", s>> \notin sent
          /\ \A t \in Task : pc[t] = "streamCancelling" => sid[t] # s
    /\ \A t \in Task : pc[t] = "streamCancelling" =>
          <<"streamCancel", sid[t]>> \notin sent

\* Nothing follows the terminal event, in the channel or after it was read.
TerminalLast ==
    \A s \in receivers :
        /\ \A k \in 1..Len(events[s]) :
              events[s][k] \in Terminal => k = Len(events[s]) /\ s \notin open
        /\ s \in heard => events[s] = <<>> /\ s \notin open

\* StreamEvent: exactly one of Closed and Failed comes last.  `deliver` keeps a
\* place for it, so the reader of a stream that is over has been, or will be,
\* told how it ended: never a stream that merely stops.
ReaderTold ==
    /\ TerminalLast
    /\ \A t \in Task :
          pc[t] = "reading" /\ sid[t] \notin open \cup takenOpen =>
              \/ sid[t] \in heard
              \/ /\ events[sid[t]] # <<>>
                 /\ events[sid[t]][Len(events[sid[t]])] \in Terminal

\* A stream is over once, and its reader knows.
StreamsEndOnce == OneStreamCancel /\ ReaderTold

\* `end` answers every waiter by itself, with no help of any timeout: one that
\* waits in a session that is over, however it came to, is woken.
EndWakesWaiters == \A t \in Task : ended /\ pc[t] = "waiting" ~> pc[t] # "waiting"
===============================================================================
