------------------------- MODULE SidecarSessionProofs -------------------------
(***************************************************************************)
(* Proofs about SidecarSession, for every set of tasks, every limit and    *)
(* every bound on ids.                                                     *)
(***************************************************************************)
EXTENDS SidecarSession, FiniteSetTheorems, SequenceTheorems, TLAPS

\* The inductive invariant of the request table.
Requests == Numbered /\ EndedAdmitsNothing /\ OneOutcome /\ AnsweredOrCancelled

\* Offering an event to a stream's channel keeps it a sequence of events.
LEMMA OfferType ==
    ASSUME TypeOK, NEW s \in StreamId, NEW e \in Event
    PROVE  Offer(s, e) \in Seq(Event)
BY DEF Offer, TypeOK

\* The ids a task may be given.
LEMMA IdType ==
    /\ 0 \notin Id /\ 0 \notin StreamId
    /\ Id \subseteq Nat /\ StreamId \subseteq Nat
    /\ \A i \in Id : i + 1 \in 1..(MaxId + 1)
    /\ \A s \in StreamId : s + 1 \in 1..(MaxStreamId + 1)
    /\ 1 \in 1..(MaxId + 1) /\ 1 \in 1..(MaxStreamId + 1)
BY SessionAssumption DEF Id, StreamId

\* Every step of a task preserves the type invariant.
LEMMA TaskStepType ==
    ASSUME TypeOK, Placed, NEW t \in Task, TaskStep(t)
    PROVE  TypeOK' /\ Placed'
<1> USE IdType DEF TypeOK, Placed, Location, Kind, Outcome, Goto, Reset,
        taskVars, tableVars, streamVars, endVars
<1>1. CASE StreamPermit(t)
  BY <1>1 DEF StreamPermit
<1>2. CASE OpenEntry(t)
  <2>1. CASE ~Admitting
    <3>1. TypeOK'  BY <1>2, <2>1 DEF OpenEntry
    <3>2. Placed'  BY <1>2, <2>1 DEF OpenEntry
    <3> QED  BY <3>1, <3>2
  <2>2. CASE Admitting
    <3>1. nextStream \in StreamId /\ nextStream + 1 \in 1..(MaxStreamId + 1)
      BY <1>2, <2>2 DEF OpenEntry
    <3>2. /\ nextStream' = nextStream + 1
          /\ open' = open \cup {nextStream}
          /\ receivers' = receivers \cup {nextStream}
          /\ sid' = [sid EXCEPT ![t] = nextStream]
          /\ pc' = [pc EXCEPT ![t] = "opened"]
      BY <1>2, <2>2 DEF OpenEntry
    <3>3. nextStream' \in 1..(MaxStreamId + 1) /\ open' \subseteq StreamId
          /\ receivers' \subseteq StreamId
          /\ sid' \in [Task -> StreamId \cup {0}] /\ pc' \in [Task -> Location]
      BY <3>1, <3>2
    <3>4. TypeOK'
      BY <1>2, <2>2, <3>3 DEF OpenEntry
    <3>5. Placed'
      BY <1>2, <2>2, <3>1 DEF OpenEntry
    <3> QED  BY <3>4, <3>5
  <2> QED  BY <2>1, <2>2
<1>3. CASE Register(t)
  <2>1. CASE ~Admitting
    <3>1. pc' = [pc EXCEPT ![t] = "returning"] /\ result' = [result EXCEPT ![t] = "ended"]
      BY <1>3, <2>1 DEF Register
    <3>2. kind[t] = "stream" => sid[t] \in StreamId
      BY <1>3 DEF Register
    <3>3. TypeOK'
      BY <1>3, <2>1, <3>1 DEF Register
    <3>4. Placed'
      BY <1>3, <2>1, <3>1, <3>2 DEF Register
    <3> QED  BY <3>3, <3>4
  <2>2. CASE Admitting
    <3>1. nextId \in Id /\ nextId + 1 \in 1..(MaxId + 1)
      BY <1>3, <2>2 DEF Register
    <3>2. /\ nextId' = nextId + 1
          /\ pending' = pending \cup {nextId}
          /\ id' = [id EXCEPT ![t] = nextId]
          /\ pc' = [pc EXCEPT ![t] = "registered"]
      BY <1>3, <2>2 DEF Register
    <3>3. nextId' \in 1..(MaxId + 1) /\ pending' \subseteq Id
          /\ id' \in [Task -> Id \cup {0}] /\ pc' \in [Task -> Location]
      BY <3>1, <3>2
    <3>4. TypeOK'
      BY <1>3, <2>2, <3>3 DEF Register
    <3>5. Placed'
      BY <1>3, <2>2, <3>1 DEF Register
    <3> QED  BY <3>4, <3>5
  <2> QED  BY <2>1, <2>2
<1>4. CASE SendRequest(t)
  <2>1. sent' \subseteq Line
    BY <1>4 DEF SendRequest, Line
  <2>2. TypeOK'
    BY <1>4, <2>1 DEF SendRequest
  <2>3. Placed'
    BY <1>4 DEF SendRequest
  <2> QED  BY <2>2, <2>3
<1>5. CASE Wake(t)
  BY <1>5 DEF Wake
<1>6. CASE DropPending(t)
  BY <1>6 DEF DropPending
<1>7. CASE SendCancel(t)
  <2>1. sent' \subseteq Line
    BY <1>7 DEF SendCancel, Line
  <2>2. TypeOK'
    BY <1>7, <2>1 DEF SendCancel
  <2>3. Placed'
    BY <1>7 DEF SendCancel
  <2> QED  BY <2>2, <2>3
<1>8. CASE Return(t)
  <2>1. TypeOK'  BY <1>8 DEF Return
  <2>2. Placed'  BY <1>8 DEF Return
  <2> QED  BY <2>1, <2>2
<1>9. CASE ReturnStream(t)
  <2>1. TypeOK'  BY <1>9 DEF ReturnStream
  <2>2. Placed'  BY <1>9 DEF ReturnStream
  <2> QED  BY <2>1, <2>2
<1>10. CASE CloseStream(t)
  <2>0. <<>> \in Seq(Event)  OBVIOUS
  <2>1. events' \in [StreamId -> Seq(Event)] /\ open' \subseteq StreamId
        /\ receivers' \subseteq StreamId
    BY <1>10, <2>0 DEF CloseStream
  <2>2. CASE StillOpen(t)
    <3>1. TypeOK'  BY <1>10, <2>1, <2>2 DEF CloseStream
    <3>2. Placed'  BY <1>10, <2>1, <2>2 DEF CloseStream
    <3> QED  BY <3>1, <3>2
  <2>3. CASE ~StillOpen(t)
    <3>1. TypeOK'  BY <1>10, <2>1, <2>3 DEF CloseStream
    <3>2. Placed'  BY <1>10, <2>1, <2>3 DEF CloseStream
    <3> QED  BY <3>1, <3>2
  <2> QED  BY <2>2, <2>3
<1>11. CASE SendStreamCancel(t)
  <2>1. sid[t] \in StreamId /\ sent' \subseteq Line
    BY <1>11 DEF SendStreamCancel, Line
  <2>2. TypeOK'
    BY <1>11, <2>1 DEF SendStreamCancel
  <2>3. Placed'
    BY <1>11 DEF SendStreamCancel
  <2> QED  BY <2>2, <2>3
<1> QED
  BY <1>1, <1>2, <1>3, <1>4, <1>5, <1>6, <1>7, <1>8, <1>9, <1>10, <1>11
     DEF TaskStep

\* What callers, the sidecar and the supervisor do preserves it too.
LEMMA OtherStepType ==
    ASSUME TypeOK, Placed,
           \/ \E t \in Task : Caller(t)
           \/ Sidecar \/ End \/ Ending
           \/ \E s \in StreamId : CancelOverrun(s)
    PROVE  TypeOK' /\ Placed'
<1> USE IdType DEF TypeOK, Placed, Location, Kind, Outcome, Goto,
        taskVars, tableVars, streamVars, endVars
<1>1. ASSUME NEW t \in Task, Caller(t)
      PROVE  TypeOK' /\ Placed'
  <2>1. CASE StartRequest(t)    BY <2>1 DEF StartRequest
  <2>2. CASE StartLifecycle(t)  BY <2>2 DEF StartLifecycle
  <2>3. CASE StartStream(t)     BY <2>3 DEF StartStream
  <2>4. CASE TimeOut(t)         BY <2>4 DEF TimeOut
  <2>5. CASE Abandon(t)         BY <2>5 DEF Abandon
  <2>6. CASE NextEvent(t)
    <3>0. sid[t] \in StreamId /\ events[sid[t]] # <<>>
      BY <2>6 DEF NextEvent
    <3>1. Tail(events[sid[t]]) \in Seq(Event)
      <4>1. events[sid[t]] \in Seq(Event)  BY <3>0
      <4> HIDE DEF TypeOK, Placed
      <4> QED  BY <3>0, <4>1
    <3>2. events' \in [StreamId -> Seq(Event)] /\ heard' \subseteq StreamId
      BY <2>6, <3>0, <3>1 DEF NextEvent
    <3>3. UNCHANGED <<pc, kind, id, sid>>
      BY <2>6 DEF NextEvent
    <3>4. TypeOK'  BY <2>6, <3>2 DEF NextEvent
    <3>5. Placed'  BY <3>3
    <3> QED  BY <3>4, <3>5
  <2>7. CASE DropStream(t)
    <3>1. <<>> \in Seq(Event)  OBVIOUS
    <3> QED  BY <2>7, <3>1 DEF DropStream
  <2> QED  BY <1>1, <2>1, <2>2, <2>3, <2>4, <2>5, <2>6, <2>7 DEF Caller
<1>2. CASE Sidecar
  <2>1. ASSUME NEW i \in Id, Response(i)
        PROVE  TypeOK' /\ Placed'
    <3>1. CASE i \in pending
      <4>1. PICK o \in {"ok", "failed"} : answer' = [answer EXCEPT ![i] = o]
        BY <2>1, <3>1 DEF Response
      <4> QED  BY <2>1, <3>1, <4>1 DEF Response
    <3>2. CASE i \notin pending
      BY <2>1, <3>2 DEF Response
    <3> QED  BY <3>1, <3>2
  <2>2. ASSUME NEW s \in StreamId, UnknownStream(s)
        PROVE  TypeOK' /\ Placed'
    BY <2>2 DEF UnknownStream
  <2>3. ASSUME NEW s \in StreamId, Deliver(s)
        PROVE  TypeOK' /\ Placed'
    <3>1. Offer(s, "data") \in Seq(Event) /\ Offer(s, "failed") \in Seq(Event)
      BY OfferType DEF Event
    <3>2. events' \in [StreamId -> Seq(Event)]
      <4>1. \/ events' = [events EXCEPT ![s] = Offer(s, "data")]
            \/ events' = [events EXCEPT ![s] = Offer(s, "failed")]
        BY <2>3 DEF Deliver
      <4> QED  BY <3>1, <4>1
    <3>3. open' \subseteq StreamId /\ overrun' \subseteq StreamId
      BY <2>3 DEF Deliver
    <3> QED  BY <2>3, <3>2, <3>3 DEF Deliver
  <2>4. ASSUME NEW s \in StreamId, Finish(s)
        PROVE  TypeOK' /\ Placed'
    <3>1. \A e \in Terminal : Offer(s, e) \in Seq(Event)
      BY OfferType DEF Event, Terminal
    <3>2. events' \in [StreamId -> Seq(Event)] /\ open' \subseteq StreamId
      BY <2>4, <3>1 DEF Finish
    <3>3. UNCHANGED <<pc, kind, id, sid>>
      BY <2>4 DEF Finish
    <3>4. TypeOK'  BY <2>4, <3>2 DEF Finish
    <3>5. Placed'  BY <3>3
    <3> QED  BY <3>4, <3>5
  <2>5. CASE Eof  BY <2>5 DEF Eof
  <2> QED  BY <1>2, <2>1, <2>2, <2>3, <2>4, <2>5 DEF Sidecar
<1>3. CASE End  BY <1>3 DEF End
<1>4. CASE Ending
  <2>1. ASSUME NEW i \in Id, EndAnswer(i)
        PROVE  TypeOK' /\ Placed'
    BY <2>1 DEF EndAnswer
  <2>2. ASSUME NEW s \in StreamId, EndStream(s)
        PROVE  TypeOK' /\ Placed'
    <3>1. Offer(s, "failed") \in Seq(Event)  BY OfferType DEF Event
    <3> QED  BY <2>2, <3>1 DEF EndStream
  <2> QED  BY <1>4, <2>1, <2>2 DEF Ending
<1>5. ASSUME NEW s \in StreamId, CancelOverrun(s)
      PROVE  TypeOK' /\ Placed'
  <2>1. sent' \subseteq Line
    BY <1>5 DEF CancelOverrun, Line
  <2>2. TypeOK'  BY <1>5, <2>1 DEF CancelOverrun
  <2>3. Placed'  BY <1>5 DEF CancelOverrun
  <2> QED  BY <2>2, <2>3
<1> QED  BY <1>1, <1>2, <1>3, <1>4, <1>5

\* The session keeps its types: what every other proof here starts from.
THEOREM TypeCorrect == Spec => [](TypeOK /\ Placed)
<1>1. Init => TypeOK /\ Placed
  <2>1. <<>> \in Seq(Event)  OBVIOUS
  <2> SUFFICES ASSUME Init PROVE TypeOK /\ Placed
    OBVIOUS
  <2>2. /\ pc \in [Task -> Location]
        /\ kind \in [Task -> Kind]
        /\ id \in [Task -> Id \cup {0}]
        /\ sid \in [Task -> StreamId \cup {0}]
        /\ result \in [Task -> Outcome]
    BY DEF Init, Location, Kind, Outcome
  <2>3. /\ answer \in [Id -> {"none", "ok", "failed", "ended"}]
        /\ events \in [StreamId -> Seq(Event)]
    BY <2>1 DEF Init
  <2>4. nextId \in 1..(MaxId + 1) /\ nextStream \in 1..(MaxStreamId + 1)
    BY IdType DEF Init, FirstId
  <2>5. TypeOK
    BY <2>2, <2>3, <2>4 DEF Init, TypeOK
  <2>6. Placed
    BY DEF Init, Placed
  <2> QED  BY <2>5, <2>6
<1>2. TypeOK /\ Placed /\ [Next]_vars => TypeOK' /\ Placed'
  <2> SUFFICES ASSUME TypeOK, Placed, [Next]_vars
               PROVE  TypeOK' /\ Placed'
    OBVIOUS
  <2>1. CASE Next
    BY <2>1, TaskStepType, OtherStepType DEF Next
  <2>2. CASE UNCHANGED vars
    BY <2>2 DEF vars, taskVars, tableVars, streamVars, endVars, TypeOK, Placed
  <2> QED  BY <2>1, <2>2
<1> QED  BY <1>1, <1>2, PTL DEF Spec

-------------------------------------------------------------------------------
(* The request table.  Most steps leave it alone.                          *)

\* What a step that does not touch the request table may still do: clear a
\* task's locals, move tasks that are not cancelling, close streams, and write
\* other lines.
Quiet ==
    /\ UNCHANGED <<nextId, pending, answer, taken, ended>>
    /\ \A t \in Task : id'[t] = id[t] \/ id'[t] = 0
    /\ \A t \in Task : pc'[t] = "cancelling" <=> pc[t] = "cancelling"
    /\ \A t \in Task : pc[t] = "cancelling" => id'[t] = id[t]
    /\ \A i \in Id : <<"cancel", i>> \in sent' <=> <<"cancel", i>> \in sent
    /\ ended => open' \subseteq open

\* Such a step preserves the invariant of the request table.
LEMMA QuietStep ==
    ASSUME TypeOK, Placed, TypeOK', Requests, Quiet
    PROVE  Requests'
<1>1. nextId \in Nat /\ nextId > 0
  BY IdType DEF TypeOK
<1>2. Numbered'
  <2>1. \A t \in Task : id'[t] < nextId'
    BY <1>1 DEF Requests, Numbered, Quiet
  <2>2. \A t, u \in Task : id'[t] = id'[u] /\ id'[t] # 0 => t = u
    BY DEF Requests, Numbered, Quiet
  <2>3. pending' \cap taken' = {} /\ \A i \in pending' \cup taken' : i < nextId'
    BY DEF Requests, Numbered, Quiet
  <2>4. \A i \in Id : i >= nextId' =>
           answer'[i] = "none" /\ <<"cancel", i>> \notin sent'
    BY DEF Requests, Numbered, Quiet
  <2> QED  BY <2>1, <2>2, <2>3, <2>4 DEF Numbered
<1>3. EndedAdmitsNothing'
  BY DEF Requests, EndedAdmitsNothing, Quiet
<1>4. OneOutcome'
  BY DEF Requests, OneOutcome, Quiet, TypeOK
<1>5. AnsweredOrCancelled'
  BY DEF Requests, AnsweredOrCancelled, Quiet, TypeOK, Placed
<1> QED  BY <1>2, <1>3, <1>4, <1>5 DEF Requests

\* The steps of a task that leave the request table alone.
LEMMA QuietTaskSteps ==
    ASSUME TypeOK, Placed, NEW t \in Task,
           \/ StreamPermit(t) \/ OpenEntry(t) \/ SendRequest(t) \/ Wake(t)
           \/ Return(t) \/ ReturnStream(t) \/ CloseStream(t)
           \/ SendStreamCancel(t) \/ Caller(t)
    PROVE  Quiet
<1> USE DEF TypeOK, Quiet, Goto, Reset, taskVars, tableVars, streamVars, endVars
<1>1. CASE StreamPermit(t)      BY <1>1 DEF StreamPermit
<1>2. CASE OpenEntry(t)         BY <1>2 DEF OpenEntry, Admitting
<1>3. CASE SendRequest(t)       BY <1>3 DEF SendRequest
<1>4. CASE Wake(t)              BY <1>4 DEF Wake
<1>5. CASE Return(t)            BY <1>5 DEF Return
<1>6. CASE ReturnStream(t)      BY <1>6 DEF ReturnStream
<1>7. CASE CloseStream(t)       BY <1>7 DEF CloseStream
<1>8. CASE SendStreamCancel(t)  BY <1>8 DEF SendStreamCancel
<1>9. CASE Caller(t)
  <2>1. CASE StartRequest(t)    BY <2>1 DEF StartRequest
  <2>2. CASE StartLifecycle(t)  BY <2>2 DEF StartLifecycle
  <2>3. CASE StartStream(t)     BY <2>3 DEF StartStream
  <2>4. CASE TimeOut(t)         BY <2>4 DEF TimeOut
  <2>5. CASE Abandon(t)         BY <2>5 DEF Abandon
  <2>6. CASE NextEvent(t)       BY <2>6 DEF NextEvent
  <2>7. CASE DropStream(t)      BY <2>7 DEF DropStream
  <2> QED  BY <1>9, <2>1, <2>2, <2>3, <2>4, <2>5, <2>6, <2>7 DEF Caller
<1> QED  BY <1>1, <1>2, <1>3, <1>4, <1>5, <1>6, <1>7, <1>8, <1>9

\* So do the frames of streams and the failing of streams at the end.
LEMMA QuietStreamSteps ==
    ASSUME TypeOK, NEW s \in StreamId,
           \/ UnknownStream(s) \/ Deliver(s) \/ Finish(s) \/ Eof
           \/ CancelOverrun(s) \/ EndStream(s)
    PROVE  Quiet
<1> USE DEF TypeOK, Quiet, taskVars, tableVars, streamVars, endVars
<1>1. CASE UnknownStream(s)  BY <1>1 DEF UnknownStream
<1>2. CASE Deliver(s)        BY <1>2 DEF Deliver
<1>3. CASE Finish(s)         BY <1>3 DEF Finish
<1>4. CASE Eof               BY <1>4 DEF Eof
<1>5. CASE CancelOverrun(s)  BY <1>5 DEF CancelOverrun
<1>6. CASE EndStream(s)      BY <1>6 DEF EndStream
<1> QED  BY <1>1, <1>2, <1>3, <1>4, <1>5, <1>6

\* `call` numbers a request that no table, answer or cancellation knows yet.
LEMMA RegisterStep ==
    ASSUME TypeOK, Placed, TypeOK', Requests, NEW t \in Task, Register(t)
    PROVE  Requests'
<1> USE DEF TypeOK, Requests, Numbered, EndedAdmitsNothing, OneOutcome,
        AnsweredOrCancelled
<1>1. CASE ~Admitting
  <2>1. Quiet
    BY <1>1 DEF Register, Quiet, endVars
  <2> QED  BY <2>1, QuietStep
<1>2. CASE Admitting
  <2>1. /\ ~ended /\ nextId \in Id /\ nextId \in Nat
        /\ nextId' = nextId + 1
        /\ pending' = pending \cup {nextId}
        /\ id' = [id EXCEPT ![t] = nextId]
        /\ pc' = [pc EXCEPT ![t] = "registered"]
        /\ UNCHANGED <<answer, taken, ended, sent, open>>
    BY <1>2, IdType DEF Register, Admitting, endVars
  <2>2. Numbered'
    <3>0. \A u \in Task : id[u] \in Nat /\ id[u] < nextId
      <4>1. \A u \in Task : id[u] \in Id \cup {0}  OBVIOUS
      <4>2. \A u \in Task : id[u] < nextId  OBVIOUS
      <4>3. \A i \in Id \cup {0} : i \in Nat  BY DEF Id
      <4> QED  BY <4>1, <4>2, <4>3, Zenon
    <3>1. \A u \in Task : id'[u] < nextId'
      <4> HIDE DEF Requests, Numbered, OneOutcome, AnsweredOrCancelled
      <4> QED  BY <2>1, <3>0
    <3>2. \A u, v \in Task : id'[u] = id'[v] /\ id'[u] # 0 => u = v
      BY <2>1, IdType
    <3>3. pending' \cap taken' = {} /\ \A i \in pending' \cup taken' : i < nextId'
      BY <2>1, IdType
    <3>4. \A i \in Id : i >= nextId' =>
             answer'[i] = "none" /\ <<"cancel", i>> \notin sent'
      BY <2>1, IdType
    <3> QED  BY <3>1, <3>2, <3>3, <3>4
  <2>3. EndedAdmitsNothing'  BY <2>1
  <2>4. OneOutcome'
    <3>1. \A i \in pending' \cup taken' :
             answer'[i] = "none" /\ <<"cancel", i>> \notin sent'
      <4>1. answer[nextId] = "none" /\ <<"cancel", nextId>> \notin sent
        BY <2>1
      <4> QED  BY <2>1, <4>1
    <3>2. \A u \in Task : pc'[u] = "cancelling" => id'[u] \notin pending' \cup taken'
      BY <2>1, IdType DEF Placed
    <3> QED  BY <3>1, <3>2
  <2>5. AnsweredOrCancelled'  BY <2>1
  <2> QED  BY <2>2, <2>3, <2>4, <2>5
<1> QED  BY <1>1, <1>2

\* The guard's decision and its cancel line.
LEMMA GuardStep ==
    ASSUME TypeOK, Placed, TypeOK', Requests, NEW t \in Task,
           DropPending(t) \/ SendCancel(t)
    PROVE  Requests'
<1> USE DEF TypeOK, Requests, Numbered, EndedAdmitsNothing, OneOutcome,
        AnsweredOrCancelled, Goto
<1>1. CASE DropPending(t)
  <2>1. /\ pc' = [pc EXCEPT ![t] = IF StillPending(t) THEN "cancelling" ELSE "returning"]
        /\ pc[t] = "dropping" /\ id[t] \in Id
        /\ pending' = pending \ {id[t]}
        /\ UNCHANGED <<id, nextId, answer, taken, ended, sent, open>>
    BY <1>1 DEF DropPending, endVars, Placed
  <2>2. Numbered'            BY <2>1
  <2>3. EndedAdmitsNothing'  BY <2>1
  <2>4. OneOutcome'          BY <2>1 DEF StillPending
  <2>5. AnsweredOrCancelled' BY <2>1 DEF StillPending
  <2> QED  BY <2>2, <2>3, <2>4, <2>5
<1>2. CASE SendCancel(t)
  <2>1. /\ pc[t] = "cancelling" /\ id[t] \in Id
        /\ pc' = [pc EXCEPT ![t] = "returning"]
        /\ sent' = sent \cup {<<"cancel", id[t]>>}
        /\ UNCHANGED <<id, nextId, pending, answer, taken, ended, open>>
    BY <1>2 DEF SendCancel, tableVars, endVars, Placed
  <2>2. Numbered'            BY <2>1, IdType
  <2>3. EndedAdmitsNothing'  BY <2>1
  <2>4. OneOutcome'          BY <2>1
  <2>5. AnsweredOrCancelled'
    <3>1. \A u \in Task : pc'[u] = "cancelling" =>
             /\ pc[u] = "cancelling" /\ u # t
             /\ id[u] # id[t]
      BY <2>1, IdType DEF Placed
    <3> QED  BY <2>1, <3>1
  <2> QED  BY <2>2, <2>3, <2>4, <2>5
<1> QED  BY <1>1, <1>2

\* An accepted answer, and the end of the session.
LEMMA AnswerStep ==
    ASSUME TypeOK, Requests, TypeOK', NEW i \in Id, Response(i) \/ EndAnswer(i)
    PROVE  Requests'
<1> USE DEF TypeOK, Requests, Numbered, EndedAdmitsNothing, OneOutcome,
        AnsweredOrCancelled
<1>1. CASE Response(i)
  <2>1. UNCHANGED <<pc, id, nextId, taken, ended, open, sent>>
    BY <1>1 DEF Response, taskVars, endVars
  <2>2. CASE i \in pending
    <3>1. PICK o \in {"ok", "failed"} : answer' = [answer EXCEPT ![i] = o]
      BY <1>1, <2>2 DEF Response
    <3>2. pending' = pending \ {i}
      BY <1>1, <2>2 DEF Response
    <3>3. Numbered'            BY <2>1, <2>2, <3>1, <3>2, IdType
    <3>4. EndedAdmitsNothing'  BY <2>1, <3>2
    <3>5. OneOutcome'          BY <2>1, <2>2, <3>1, <3>2
    <3>6. AnsweredOrCancelled' BY <2>1, <2>2, <3>1, <3>2
    <3> QED  BY <3>3, <3>4, <3>5, <3>6
  <2>3. CASE i \notin pending
    BY <1>1, <2>1, <2>3 DEF Response
  <2> QED  BY <2>2, <2>3
<1>2. CASE EndAnswer(i)
  <2>1. /\ i \in taken /\ taken' = taken \ {i}
        /\ answer' = [answer EXCEPT ![i] = "ended"]
        /\ UNCHANGED <<pc, id, nextId, pending, ended, open, sent>>
    BY <1>2 DEF EndAnswer, taskVars, tableVars
  <2>2. Numbered'            BY <2>1, IdType
  <2>3. EndedAdmitsNothing'  BY <2>1
  <2>4. OneOutcome'          BY <2>1
  <2>5. AnsweredOrCancelled' BY <2>1
  <2> QED  BY <2>2, <2>3, <2>4, <2>5
<1> QED  BY <1>1, <1>2

\* `end` moves every waiter to its own list and closes both tables.
LEMMA EndStep ==
    ASSUME TypeOK, Requests, End
    PROVE  Requests'
<1>1. /\ ended' = TRUE /\ pending' = {} /\ open' = {}
      /\ taken' = taken \cup pending
      /\ UNCHANGED <<pc, id, nextId, answer, sent>>
  BY DEF End, taskVars
<1> QED
  BY <1>1 DEF Requests, Numbered, EndedAdmitsNothing, OneOutcome,
              AnsweredOrCancelled

\* The invariant of the request table holds throughout.
LEMMA RequestsInvariant == Spec => []Requests
<1>1. Init => Requests
  BY IdType DEF Init, FirstId, Requests, Numbered, EndedAdmitsNothing,
     OneOutcome, AnsweredOrCancelled
<1>2. TypeOK /\ Placed /\ TypeOK' /\ Requests /\ [Next]_vars => Requests'
  <2> SUFFICES ASSUME TypeOK, Placed, TypeOK', Requests, [Next]_vars
               PROVE  Requests'
    OBVIOUS
  <2>1. ASSUME NEW t \in Task, TaskStep(t) \/ Caller(t)
        PROVE  Requests'
    BY <2>1, QuietTaskSteps, QuietStep, RegisterStep, GuardStep DEF TaskStep
  <2>2. CASE Sidecar
    <3>1. CASE Eof
      BY <3>1 DEF Eof, Requests, Numbered, EndedAdmitsNothing, OneOutcome,
         AnsweredOrCancelled, taskVars, tableVars, endVars
    <3> QED
      BY <2>2, <3>1, QuietStreamSteps, QuietStep, AnswerStep DEF Sidecar
  <2>3. ASSUME NEW s \in StreamId, CancelOverrun(s)
        PROVE  Requests'
    BY <2>3, QuietStreamSteps, QuietStep
  <2>4. CASE Ending
    BY <2>4, QuietStreamSteps, QuietStep, AnswerStep DEF Ending
  <2>5. CASE UNCHANGED vars
    BY <2>5 DEF vars, taskVars, tableVars, endVars, Requests, Numbered,
       EndedAdmitsNothing, OneOutcome, AnsweredOrCancelled
  <2> QED  BY <2>1, <2>2, <2>3, <2>4, <2>5, EndStep DEF Next
<1> QED  BY <1>1, <1>2, TypeCorrect, PTL DEF Spec

\* A request is answered or cancelled, never both, and nothing is admitted to
\* a session that ended: however callers, the sidecar and `end` interleave.
THEOREM RequestsCorrect == Spec => [](EndedAdmitsNothing /\ AnsweredOrCancelled)
<1>1. Requests => EndedAdmitsNothing /\ AnsweredOrCancelled
  BY DEF Requests
<1> QED  BY <1>1, RequestsInvariant, PTL

-------------------------------------------------------------------------------
(* No request is just forgotten.                                           *)

\* A step that leaves the request table alone.
LEMMA QuietForgetsNothing ==
    ASSUME Quiet, NEW i \in Id, Accounted(i)
    PROVE  Accounted(i)'
<1>1. CASE i \in pending \cup taken \/ answer[i] # "none" \/ <<"cancel", i>> \in sent
  BY <1>1 DEF Quiet, Accounted
<1>2. CASE \E t \in Task : pc[t] = "cancelling" /\ id[t] = i
  <2>1. PICK t \in Task : pc[t] = "cancelling" /\ id[t] = i
    BY <1>2
  <2>2. pc'[t] = "cancelling" /\ id'[t] = i
    BY <2>1 DEF Quiet
  <2> QED  BY <2>2 DEF Accounted
<1> QED  BY <1>1, <1>2 DEF Accounted

\* The guard that takes an entry out of the table is then cancelling, and the
\* cancel line replaces that guard.
LEMMA GuardForgetsNothing ==
    ASSUME TypeOK, Requests, NEW t \in Task, DropPending(t) \/ SendCancel(t),
           NEW i \in Id, Accounted(i)
    PROVE  Accounted(i)'
<1>1. CASE DropPending(t)
  <2>1. /\ pc' = [pc EXCEPT ![t] = IF StillPending(t) THEN "cancelling" ELSE "returning"]
        /\ pc[t] = "dropping"
        /\ pending' = pending \ {id[t]}
        /\ UNCHANGED <<id, answer, taken, sent>>
    BY <1>1 DEF DropPending, Goto, endVars
  <2>2. \A u \in Task : pc[u] = "cancelling" => pc'[u] = "cancelling"
    BY <2>1 DEF TypeOK
  <2>3. id[t] \in pending => pc'[t] = "cancelling"
    BY <2>1 DEF StillPending, TypeOK, Requests, EndedAdmitsNothing
  <2> QED  BY <2>1, <2>2, <2>3 DEF Accounted
<1>2. CASE SendCancel(t)
  <2>1. /\ sent' = sent \cup {<<"cancel", id[t]>>}
        /\ UNCHANGED <<id, pending, answer, taken>>
        /\ \A u \in Task \ {t} : pc'[u] = pc[u]
    BY <1>2 DEF SendCancel, Goto, tableVars, endVars, TypeOK
  <2> QED  BY <2>1 DEF Accounted
<1> QED  BY <1>1, <1>2

\* `call` adds a request, which is then pending, and forgets none.
LEMMA RegisterForgetsNothing ==
    ASSUME TypeOK, GivenUpIsCancelled, NEW t \in Task, Register(t)
    PROVE  GivenUpIsCancelled'
<1>1. CASE ~Admitting
  <2>1. Quiet  BY <1>1 DEF Register, Quiet, endVars, TypeOK
  <2> QED  BY <2>1, QuietForgetsNothing DEF Quiet, GivenUpIsCancelled
<1>2. CASE Admitting
  <2>1. /\ nextId \in Id /\ nextId' = nextId + 1
        /\ pending' = pending \cup {nextId}
        /\ UNCHANGED <<answer, taken, sent>>
    BY <1>2 DEF Register, endVars
  <2>2. \A u \in Task : pc[u] = "cancelling" =>
           pc'[u] = "cancelling" /\ id'[u] = id[u]
    BY <1>2 DEF Register, TypeOK
  <2>3. \A i \in Id : Accounted(i) => Accounted(i)'
    BY <2>1, <2>2 DEF Accounted
  <2>4. \A i \in Id : i < nextId' => i < nextId \/ i = nextId
    BY <2>1, IdType
  <2>5. \A i \in Id : i = nextId => Accounted(i)'
    BY <2>1 DEF Accounted
  <2> QED  BY <2>3, <2>4, <2>5 DEF GivenUpIsCancelled
<1> QED  BY <1>1, <1>2

\* An answer takes the entry's place.
LEMMA AnswerForgetsNothing ==
    ASSUME TypeOK, NEW j \in Id, Response(j) \/ EndAnswer(j),
           NEW i \in Id, Accounted(i)
    PROVE  Accounted(i)'
<1>1. CASE Response(j)
  <2>1. UNCHANGED <<pc, id, taken, sent>>
    BY <1>1 DEF Response, taskVars, endVars
  <2>2. CASE UNCHANGED <<pending, answer>>
    BY <2>1, <2>2 DEF Accounted
  <2>3. CASE j \in pending
    <3>1. PICK o \in {"ok", "failed"} : answer' = [answer EXCEPT ![j] = o]
      BY <1>1, <2>3 DEF Response
    <3>2. pending' = pending \ {j}
      BY <1>1, <2>3 DEF Response
    <3> QED  BY <2>1, <3>1, <3>2 DEF Accounted, TypeOK
  <2> QED  BY <1>1, <2>2, <2>3 DEF Response
<1>2. CASE EndAnswer(j)
  <2>1. /\ taken' = taken \ {j} /\ answer' = [answer EXCEPT ![j] = "ended"]
        /\ UNCHANGED <<pc, id, pending, sent>>
    BY <1>2 DEF EndAnswer, taskVars, tableVars
  <2> QED  BY <2>1 DEF Accounted, TypeOK
<1> QED  BY <1>1, <1>2

\* Whatever becomes of its caller, a request the sidecar was given leaves the
\* table answered, taken by the end of the session, or cancelled.
THEOREM NothingForgotten == Spec => []GivenUpIsCancelled
<1>1. Init => GivenUpIsCancelled
  BY IdType DEF Init, FirstId, GivenUpIsCancelled
<1>2. TypeOK /\ Placed /\ Requests /\ GivenUpIsCancelled /\ [Next]_vars
      => GivenUpIsCancelled'
  <2> SUFFICES ASSUME TypeOK, Placed, Requests, GivenUpIsCancelled, [Next]_vars
               PROVE  GivenUpIsCancelled'
    OBVIOUS
  <2>1. CASE Quiet
    BY <2>1, QuietForgetsNothing DEF Quiet, GivenUpIsCancelled
  <2>2. ASSUME NEW t \in Task, DropPending(t) \/ SendCancel(t)
        PROVE  GivenUpIsCancelled'
    <3>1. nextId' = nextId
      BY <2>2 DEF DropPending, SendCancel, tableVars
    <3> QED  BY <2>2, <3>1, GuardForgetsNothing DEF GivenUpIsCancelled
  <2>3. ASSUME NEW t \in Task, TaskStep(t) \/ Caller(t)
        PROVE  GivenUpIsCancelled'
    BY <2>1, <2>2, <2>3, QuietTaskSteps, RegisterForgetsNothing DEF TaskStep
  <2>4. ASSUME NEW j \in Id, Response(j) \/ EndAnswer(j)
        PROVE  GivenUpIsCancelled'
    <3>1. nextId' = nextId
      BY <2>4 DEF Response, EndAnswer, tableVars
    <3> QED  BY <2>4, <3>1, AnswerForgetsNothing DEF GivenUpIsCancelled
  <2>5. CASE End
    BY <2>5 DEF End, taskVars, GivenUpIsCancelled, Accounted
  <2>6. CASE Eof \/ UNCHANGED vars
    BY <2>6 DEF Eof, vars, taskVars, tableVars, endVars, GivenUpIsCancelled,
       Accounted
  <2>7. CASE Sidecar \/ Ending \/ \E s \in StreamId : CancelOverrun(s)
    BY <2>1, <2>4, <2>6, <2>7, QuietStreamSteps DEF Sidecar, Ending
  <2> QED  BY <2>3, <2>5, <2>6, <2>7 DEF Next
<1> QED  BY <1>1, <1>2, TypeCorrect, RequestsInvariant, PTL DEF Spec

-------------------------------------------------------------------------------
(* The streams: who holds a slot, who owns an entry, and how each ends.    *)

\* A slot is its task's until the table has the stream, and the table's then.
Slotted ==
    /\ \A t \in Task :
          t \in slots <=> kind[t] = "stream" /\ pc[t] \in {"slotted", "permitted"}
    /\ \A t \in permits : pc[t] \notin {"idle", "slotted", "reading"}
    /\ IsFiniteSet(slots)
    /\ Cardinality(slots) + Cardinality(open) <= MaxStreams

\* A stream's number is one task's, and newer than any the session has seen.
StreamNumbered ==
    /\ \A t, u \in Task : sid[t] = sid[u] /\ sid[t] # 0 => t = u
    /\ \A t \in Task : sid[t] < nextStream
    /\ \A t \in Task : sid[t] # 0 =>
          kind[t] = "stream" /\ pc[t] \notin {"idle", "slotted", "permitted"}
    /\ \A s \in open \cup takenOpen \cup overrun \cup receivers \cup heard : s < nextStream
    /\ \A s \in StreamId : s >= nextStream => <<"streamCancel", s>> \notin sent

\* An open stream has not been cancelled, nor is about to be.
CancelledOnce ==
    /\ OneStreamCancel
    /\ \A s \in open : <<"streamCancel", s>> \notin sent /\ s \notin overrun
    /\ \A t \in Task : pc[t] = "streamCancelling" => sid[t] \notin open

\* Streams nobody has failed, closed or stopped yet.
Unended == open \cup takenOpen

\* Where a task still holds the receiving half.
Listening == {"opened", "registered", "waiting", "dropping", "cancelling",
              "returning", "reading"}

Terminated(s) == events[s] # <<>> /\ events[s][Len(events[s])] \in Terminal

\* The last place of a channel is free until its stream ends, and then holds how.
ChannelOK(s) ==
    /\ s \notin receivers => events[s] = <<>>
    /\ s \in Unended => s \notin heard /\ Len(events[s]) < StreamBuffer
    /\ \A k \in 1..Len(events[s]) :
          events[s][k] \in Terminal => k = Len(events[s]) /\ s \notin Unended
    /\ s \in heard => events[s] = <<>>

\* Whoever listens to a stream has its receiving half, and knows how it ended.
Told(t) ==
    kind[t] = "stream" /\ pc[t] \in Listening =>
        /\ sid[t] \in receivers
        /\ sid[t] \notin Unended => sid[t] \in heard \/ Terminated(sid[t])

Channels ==
    /\ open \cap takenOpen = {}
    /\ \A s \in StreamId : ChannelOK(s)
    /\ \A t \in Task : Told(t)

Streams == Slotted /\ StreamNumbered /\ EntriesOwned /\ CancelledOnce /\ Channels

\* The table of streams is finite.
LEMMA OpenFinite ==
    ASSUME NEW S \in SUBSET StreamId
    PROVE  IsFiniteSet(S) /\ Cardinality(S) \in Nat
<1>1. IsFiniteSet(StreamId)
  BY SessionAssumption, FS_Interval DEF StreamId
<1> QED  BY <1>1, FS_Subset, FS_CardinalityType

\* What a task may do to the slots: take one that is free, give its own back,
\* or hand it over to the table.
LEMMA SlottedStep ==
    ASSUME TypeOK, Placed, TypeOK', Slotted, StreamNumbered, [Next]_vars
    PROVE  Slotted'
<1> DEFINE n == Cardinality(slots)
           m == Cardinality(open)
           Tasks == /\ \A t \in Task : t \in slots <=>
                           kind[t] = "stream" /\ pc[t] \in {"slotted", "permitted"}
                    /\ \A t \in permits : pc[t] \notin {"idle", "slotted", "reading"}
<1>0. /\ Tasks /\ IsFiniteSet(slots) /\ n \in Nat /\ n + m <= MaxStreams
      /\ IsFiniteSet(open) /\ m \in Nat /\ MaxStreams \in Nat
      /\ IsFiniteSet(open') /\ m' \in Nat
  BY OpenFinite, FS_CardinalityType, SessionAssumption DEF TypeOK, Slotted
<1>1. Tasks'
  <2> USE <1>0 DEF TypeOK, Placed, Location, Kind, Goto, Reset, taskVars, tableVars, streamVars,
          endVars
  <2>1. ASSUME NEW t \in Task, TaskStep(t)
        PROVE  Tasks'
    <3>1. CASE StreamPermit(t)
      <4>1. CASE PermitFree
        <5>1. /\ pc[t] = "slotted" /\ pc' = [pc EXCEPT ![t] = "permitted"]
              /\ permits' = permits \cup {t} /\ UNCHANGED <<kind, slots>>
          BY <3>1, <4>1 DEF StreamPermit
        <5> QED  BY <5>1
      <4>2. CASE ~PermitFree
        <5>1. /\ pc[t] = "slotted" /\ pc' = [pc EXCEPT ![t] = "idle"]
              /\ slots' = slots \ {t} /\ UNCHANGED <<kind, permits>>
          BY <3>1, <4>2 DEF StreamPermit
        <5> QED  BY <5>1
      <4> QED  BY <4>1, <4>2
    <3>2. CASE OpenEntry(t)     BY <3>2 DEF OpenEntry
    <3>3. CASE Register(t)      BY <3>3 DEF Register
    <3>4. CASE SendRequest(t)   BY <3>4 DEF SendRequest
    <3>5. CASE Wake(t)          BY <3>5 DEF Wake
    <3>6. CASE DropPending(t)   BY <3>6 DEF DropPending
    <3>7. CASE SendCancel(t)    BY <3>7 DEF SendCancel
    <3>8. CASE Return(t)        BY <3>8 DEF Return
    <3>9. CASE ReturnStream(t)
      <4>1. /\ pc[t] = "returning"
            /\ pc' = [pc EXCEPT ![t] = IF result[t] = "ok" THEN "reading" ELSE "closing"]
            /\ permits' = IF result[t] = "ok" THEN permits \ {t} ELSE permits
            /\ UNCHANGED <<kind, slots>>
        BY <3>9 DEF ReturnStream
      <4> QED  BY <4>1
    <3>10. CASE CloseStream(t)  BY <3>10 DEF CloseStream
    <3>11. CASE SendStreamCancel(t)  BY <3>11 DEF SendStreamCancel
    <3> QED
      BY <2>1, <3>1, <3>2, <3>3, <3>4, <3>5, <3>6, <3>7, <3>8, <3>9, <3>10, <3>11
      DEF TaskStep
  <2>2. ASSUME NEW t \in Task, Caller(t)
        PROVE  Tasks'
    <3>1. CASE StartRequest(t)    BY <3>1 DEF StartRequest
    <3>2. CASE StartLifecycle(t)
      <4>1. /\ pc[t] = "idle" /\ pc' = [pc EXCEPT ![t] = "permitted"]
            /\ kind' = [kind EXCEPT ![t] = "lifecycle"]
            /\ UNCHANGED <<slots, permits>>
        BY <3>2 DEF StartLifecycle
      <4>2. \A u \in Task : u \in slots' <=>
               kind'[u] = "stream" /\ pc'[u] \in {"slotted", "permitted"}
        BY <4>1
      <4>3. \A u \in permits' : pc'[u] \notin {"idle", "slotted", "reading"}
        BY <4>1
      <4> QED  BY <4>2, <4>3
    <3>3. CASE StartStream(t)     BY <3>3 DEF StartStream
    <3>4. CASE TimeOut(t)         BY <3>4 DEF TimeOut
    <3>5. CASE Abandon(t)         BY <3>5 DEF Abandon
    <3>6. CASE NextEvent(t)       BY <3>6 DEF NextEvent
    <3>7. CASE DropStream(t)      BY <3>7 DEF DropStream
    <3> QED  BY <2>2, <3>1, <3>2, <3>3, <3>4, <3>5, <3>6, <3>7 DEF Caller
  <2>3. CASE UNCHANGED <<pc, kind, slots, permits>>
    BY <2>3
  <2>4. CASE \/ Sidecar \/ End \/ Ending \/ UNCHANGED vars
             \/ \E s \in StreamId : CancelOverrun(s)
    BY <2>3, <2>4 DEF Sidecar, Response, UnknownStream, Deliver, Finish, Eof, CancelOverrun,
       End, Ending, EndAnswer, EndStream, vars
  <2> QED  BY <2>1, <2>2, <2>4 DEF Next
<1>2. IsFiniteSet(slots') /\ n' + m' <= MaxStreams
  <2>1. ASSUME slots' = slots, open' \subseteq open
        PROVE  IsFiniteSet(slots') /\ n' + m' <= MaxStreams
    <3>1. m' <= m
      BY <1>0, <2>1, FS_Subset
    <3> QED  BY <1>0, <2>1, <3>1
  <2>2. ASSUME NEW t \in Task, slots' = slots \ {t}, open' = open
        PROVE  IsFiniteSet(slots') /\ n' + m' <= MaxStreams
    <3>1. IsFiniteSet(slots') /\ (n' = n \/ n' = n - 1)
      BY <1>0, <2>2, FS_RemoveElement
    <3> QED  BY <1>0, <2>2, <3>1
  <2>3. ASSUME NEW t \in Task, StartStream(t)
        PROVE  IsFiniteSet(slots') /\ n' + m' <= MaxStreams
    <3>1. slots' = slots \cup {t} /\ open' = open /\ n + m < MaxStreams
      BY <2>3 DEF StartStream, SlotFree, tableVars
    <3>2. IsFiniteSet(slots') /\ (n' = n \/ n' = n + 1)
      BY <1>0, <3>1, FS_AddElement
    <3> QED  BY <1>0, <3>1, <3>2
  <2>4. ASSUME NEW t \in Task, OpenEntry(t)
        PROVE  IsFiniteSet(slots') /\ n' + m' <= MaxStreams
    <3>1. t \in slots /\ slots' = slots \ {t}
      BY <1>0, <2>4 DEF OpenEntry, Goto
    <3>2. IsFiniteSet(slots') /\ n' = n - 1
      BY <1>0, <3>1, FS_RemoveElement
    <3>3. open' = open \/ open' = open \cup {nextStream}
      BY <2>4 DEF OpenEntry
    <3>4. m' <= m + 1
      BY <1>0, <3>3, FS_AddElement
    <3> QED  BY <1>0, <3>2, <3>4
  <2>5. ASSUME NEW t \in Task, StreamPermit(t)
        PROVE  IsFiniteSet(slots') /\ n' + m' <= MaxStreams
    <3>1. (slots' = slots \/ slots' = slots \ {t}) /\ open' = open
      BY <2>5 DEF StreamPermit, tableVars
    <3> QED  BY <2>1, <2>2, <3>1
  <2>6. ASSUME NEW t \in Task, TaskStep(t) \/ Caller(t),
               ~StartStream(t), ~OpenEntry(t), ~StreamPermit(t)
        PROVE  slots' = slots /\ open' \subseteq open
    BY <2>6 DEF TaskStep, Caller, Register, SendRequest, Wake, DropPending, SendCancel, Return,
       ReturnStream, CloseStream, SendStreamCancel, StartRequest, StartLifecycle, TimeOut,
       Abandon, NextEvent, DropStream, tableVars
  <2>7. ASSUME \/ Sidecar \/ End \/ Ending \/ UNCHANGED vars
               \/ \E s \in StreamId : CancelOverrun(s)
        PROVE  slots' = slots /\ open' \subseteq open
    BY <2>7 DEF Sidecar, Response, UnknownStream, Deliver, Finish, Eof, CancelOverrun,
       End, Ending, EndAnswer, EndStream, vars, tableVars
  <2> QED  BY <2>1, <2>3, <2>4, <2>5, <2>6, <2>7 DEF Next
<1> QED  BY <1>1, <1>2 DEF Slotted

\* The steps that may clear a task's number or open a stream.
LEMMA StreamNumberedStep ==
    ASSUME TypeOK, Placed, TypeOK', Slotted, StreamNumbered, [Next]_vars
    PROVE  StreamNumbered'
<1> DEFINE Own == /\ \A t, u \in Task : sid[t] = sid[u] /\ sid[t] # 0 => t = u
                  /\ \A t \in Task : sid[t] < nextStream
                  /\ \A t \in Task : sid[t] # 0 =>
                        kind[t] = "stream" /\ pc[t] \notin {"idle", "slotted", "permitted"}
           Known == open \cup takenOpen \cup overrun \cup receivers \cup heard
<1>0. /\ nextStream \in Nat /\ nextStream > 0 /\ \A t \in Task : sid[t] \in Nat
      /\ Known \subseteq StreamId /\ \A s \in Known : s < nextStream
  <2>1. nextStream \in Nat /\ nextStream > 0
    BY SessionAssumption DEF TypeOK
  <2>2. \A t \in Task : sid[t] \in Nat
    <3>1. \A t \in Task : sid[t] \in StreamId \cup {0}
      BY DEF TypeOK
    <3>2. \A s \in StreamId \cup {0} : s \in Nat
      BY IdType
    <3> QED  BY <3>1, <3>2, Zenon
  <2>3. Known \subseteq StreamId /\ \A s \in Known : s < nextStream
    BY DEF TypeOK, StreamNumbered
  <2> QED  BY <2>1, <2>2, <2>3
<1>1. ASSUME NEW t \in Task, OpenEntry(t), Admitting
      PROVE  StreamNumbered'
  <2>1. /\ nextStream \in StreamId /\ nextStream' = nextStream + 1
        /\ sid' = [sid EXCEPT ![t] = nextStream]
        /\ pc' = [pc EXCEPT ![t] = "opened"]
        /\ Known' = Known \cup {nextStream}
        /\ sent' = sent /\ kind' = kind /\ kind[t] = "stream"
    BY <1>1 DEF OpenEntry, Goto, endVars
  <2>2. Own'
    BY <1>0, <2>1 DEF StreamNumbered, TypeOK
  <2>3. \A s \in Known' : s < nextStream'
    <3>1. ASSUME NEW s \in Known' PROVE s < nextStream'
      <4>1. s \in StreamId /\ (s < nextStream \/ s = nextStream)
        BY <1>0, <2>1
      <4>2. s \in Nat
        BY <4>1, IdType
      <4> QED  BY <1>0, <2>1, <4>1, <4>2
    <3> QED  BY <3>1
  <2>4. \A s \in StreamId : s >= nextStream' => <<"streamCancel", s>> \notin sent'
    BY <1>0, <2>1, IdType DEF StreamNumbered
  <2> QED  BY <2>2, <2>3, <2>4 DEF StreamNumbered
<1>2. ASSUME nextStream' = nextStream, \A t \in Task : sid'[t] \in {sid[t], 0},
             \A t \in Task : pc'[t] \in {"idle", "slotted", "permitted"} =>
                pc[t] \in {"idle", "slotted", "permitted"} \/ sid'[t] = 0,
             \A t \in Task : kind'[t] = kind[t] \/ pc[t] = "idle",
             Known' \subseteq Known \cup {s \in StreamId : s < nextStream},
             \A s \in StreamId : s >= nextStream /\ <<"streamCancel", s>> \in sent' =>
                <<"streamCancel", s>> \in sent
      PROVE  StreamNumbered'
  <2>1. Own'
    BY <1>0, <1>2 DEF StreamNumbered
  <2>2. \A s \in Known' : s < nextStream'
    BY <1>0, <1>2
  <2>3. \A s \in StreamId : s >= nextStream' => <<"streamCancel", s>> \notin sent'
    BY <1>2 DEF StreamNumbered
  <2> QED  BY <2>1, <2>2, <2>3 DEF StreamNumbered
<1>3. ASSUME NEW t \in Task, TaskStep(t) \/ Caller(t), ~(OpenEntry(t) /\ Admitting)
      PROVE  StreamNumbered'
  <2> USE DEF TypeOK, Placed, Goto, Reset, taskVars, tableVars, streamVars, endVars
  <2>1. nextStream' = nextStream /\ \A u \in Task : sid'[u] \in {sid[u], 0}
    BY <1>3 DEF TaskStep, Caller, StreamPermit, OpenEntry, Register, SendRequest, Wake,
       DropPending, SendCancel, Return, ReturnStream, CloseStream, SendStreamCancel,
       StartRequest, StartLifecycle, StartStream, TimeOut, Abandon, NextEvent, DropStream
  <2>2. \A u \in Task : pc'[u] \in {"idle", "slotted", "permitted"} =>
           pc[u] \in {"idle", "slotted", "permitted"} \/ sid'[u] = 0
    BY <1>3 DEF TaskStep, Caller, StreamPermit, OpenEntry, Register, SendRequest, Wake,
       DropPending, SendCancel, Return, ReturnStream, CloseStream, SendStreamCancel,
       StartRequest, StartLifecycle, StartStream, TimeOut, Abandon, NextEvent, DropStream
  <2>5. \A u \in Task : kind'[u] = kind[u] \/ pc[u] = "idle"
    BY <1>3 DEF TaskStep, Caller, StreamPermit, OpenEntry, Register, SendRequest, Wake,
       DropPending, SendCancel, Return, ReturnStream, CloseStream, SendStreamCancel,
       StartRequest, StartLifecycle, StartStream, TimeOut, Abandon, NextEvent, DropStream
  <2>3. Known' \subseteq Known \cup {s \in StreamId : s < nextStream}
    <3>1. open' \subseteq open /\ takenOpen' = takenOpen /\ overrun' = overrun
          /\ receivers' \subseteq receivers
      BY <1>3 DEF TaskStep, Caller, StreamPermit, OpenEntry, Register, SendRequest, Wake,
         DropPending, SendCancel, Return, ReturnStream, CloseStream, SendStreamCancel,
         StartRequest, StartLifecycle, StartStream, TimeOut, Abandon, NextEvent, DropStream
    <3>2. heard' \subseteq heard \cup {s \in StreamId : s < nextStream}
      <4>1. heard' = heard \/ NextEvent(t)
        BY <1>3 DEF TaskStep, Caller, StreamPermit, OpenEntry, Register, SendRequest, Wake,
           DropPending, SendCancel, Return, ReturnStream, CloseStream, SendStreamCancel,
           StartRequest, StartLifecycle, StartStream, TimeOut, Abandon, DropStream
      <4>2. CASE NextEvent(t)
        <5>1. sid[t] \in StreamId /\ sid[t] < nextStream /\ heard' \subseteq heard \cup {sid[t]}
          BY <4>2 DEF NextEvent, StreamNumbered
        <5> QED  BY <5>1
      <4> QED  BY <4>1, <4>2
    <3> QED  BY <3>1, <3>2
  <2>4. \A s \in StreamId : s >= nextStream /\ <<"streamCancel", s>> \in sent' =>
           <<"streamCancel", s>> \in sent
    <3>1. \/ sent' = sent \/ sent' = sent \cup {<<"request", id[t]>>}
          \/ sent' = sent \cup {<<"cancel", id[t]>>}
          \/ sent' = sent \cup {<<"streamCancel", sid[t]>>}
      BY <1>3 DEF TaskStep, Caller, StreamPermit, OpenEntry, Register, SendRequest, Wake,
         DropPending, SendCancel, Return, ReturnStream, CloseStream, SendStreamCancel,
         StartRequest, StartLifecycle, StartStream, TimeOut, Abandon, NextEvent, DropStream
    <3>2. \A s \in StreamId : s >= nextStream => s # sid[t]
      BY <1>0, IdType DEF StreamNumbered
    <3> QED  BY <3>1, <3>2
  <2> QED  BY <1>2, <2>1, <2>2, <2>3, <2>4, <2>5
<1>4. ASSUME \/ Sidecar \/ End \/ Ending \/ UNCHANGED vars
             \/ \E s \in StreamId : CancelOverrun(s)
      PROVE  StreamNumbered'
  <2> USE DEF taskVars, tableVars, streamVars, endVars
  <2>1. UNCHANGED <<pc, kind, sid, nextStream>> /\ Known' \subseteq Known
    BY <1>4 DEF Sidecar, Response, UnknownStream, Deliver, Finish, Eof, CancelOverrun,
       End, Ending, EndAnswer, EndStream, vars
  <2>2. \A s \in StreamId : s >= nextStream /\ <<"streamCancel", s>> \in sent' =>
           <<"streamCancel", s>> \in sent
    <3>1. sent' = sent \/ \E s \in overrun : sent' = sent \cup {<<"streamCancel", s>>}
      BY <1>4 DEF Sidecar, Response, UnknownStream, Deliver, Finish, Eof, CancelOverrun,
         End, Ending, EndAnswer, EndStream, vars
    <3>2. \A s \in StreamId : s >= nextStream => s \notin overrun
      BY <1>0, IdType
    <3> QED  BY <3>1, <3>2
  <2> QED  BY <1>2, <2>1, <2>2
<1> QED  BY <1>1, <1>3, <1>4 DEF Next

\* An entry of either table keeps its task until that task takes it out.
LEMMA OwnedStep ==
    ASSUME TypeOK, Placed, StreamNumbered, EntriesOwned, [Next]_vars
    PROVE  EntriesOwned'
<1> DEFINE Waiting == {"registered", "waiting", "dropping"}
           Apart == {"idle", "slotted", "permitted", "streamCancelling"}
           Requested == \A i \in pending : \E t \in Task : id[t] = i /\ pc[t] \in Waiting
           Opened == \A s \in open : \E t \in Task : sid[t] = s /\ pc[t] \notin Apart
<1>0. Requested /\ Opened
  BY DEF EntriesOwned
<1>1. ASSUME pending' \subseteq pending,
             \A u \in Task : pc[u] \in Waiting => pc'[u] \in Waiting /\ id'[u] = id[u]
      PROVE  Requested'
  BY <1>0, <1>1
<1>2. ASSUME open' \subseteq open,
             \A u \in Task : pc[u] \notin Apart /\ sid[u] # 0 =>
                pc'[u] \notin Apart /\ sid'[u] = sid[u]
      PROVE  Opened'
  <2>1. \A s \in open : s # 0
    BY IdType DEF TypeOK
  <2>2. ASSUME NEW s \in open'
        PROVE  \E t \in Task : sid'[t] = s /\ pc'[t] \notin Apart
    <3>1. s \in open /\ s # 0
      BY <1>2, <2>1
    <3>2. PICK t \in Task : sid[t] = s /\ pc[t] \notin Apart
      BY <1>0, <3>1
    <3>3. sid'[t] = s /\ pc'[t] \notin Apart
      BY <1>2, <3>1, <3>2
    <3> QED  BY <3>3
  <2> QED  BY <2>2
<1>3. ASSUME NEW t \in Task, TaskStep(t) \/ Caller(t)
      PROVE  Requested' /\ Opened'
  <2> USE DEF TypeOK, Placed, Goto, Reset, taskVars, tableVars, streamVars, endVars
  <2>1. CASE Register(t)
    <3>1. CASE Admitting
      <4>1. /\ pc[t] \in {"permitted", "opened"} /\ pc' = [pc EXCEPT ![t] = "registered"]
            /\ id' = [id EXCEPT ![t] = nextId] /\ pending' = pending \cup {nextId}
            /\ UNCHANGED <<sid, open>>
        BY <2>1, <3>1 DEF Register, Admitting
      <4>2. Requested'
        BY <1>0, <4>1
      <4>3. Opened'
        BY <1>2, <4>1
      <4> QED  BY <4>2, <4>3
    <3>2. CASE ~Admitting
      <4>1. /\ pc[t] \in {"permitted", "opened"} /\ pc' = [pc EXCEPT ![t] = "returning"]
            /\ UNCHANGED <<id, pending, sid, open>>
        BY <2>1, <3>2 DEF Register, Admitting
      <4> QED  BY <1>1, <1>2, <4>1
    <3> QED  BY <3>1, <3>2
  <2>2. CASE DropPending(t)
    <3>1. /\ pc[t] = "dropping" /\ pc'[t] \in {"cancelling", "returning"}
          /\ \A u \in Task \ {t} : pc'[u] = pc[u]
          /\ pending' = pending \ {id[t]} /\ UNCHANGED <<id, sid, open>>
      BY <2>2 DEF DropPending
    <3>2. Requested'
      BY <1>0, <3>1
    <3>3. Opened'
      BY <1>2, <3>1
    <3> QED  BY <3>2, <3>3
  <2>3. CASE OpenEntry(t)
    <3>1. CASE Admitting
      <4>1. /\ pc[t] = "permitted" /\ pc' = [pc EXCEPT ![t] = "opened"]
            /\ sid' = [sid EXCEPT ![t] = nextStream] /\ open' = open \cup {nextStream}
            /\ UNCHANGED <<id, pending>>
        BY <2>3, <3>1 DEF OpenEntry
      <4>2. Requested'
        BY <1>1, <4>1
      <4>3. Opened'
        BY <1>0, <4>1
      <4> QED  BY <4>2, <4>3
    <3>2. CASE ~Admitting
      <4>1. /\ pc[t] = "permitted" /\ pc' = [pc EXCEPT ![t] = "idle"]
            /\ UNCHANGED <<id, pending, sid, open>>
        BY <2>3, <3>2 DEF OpenEntry
      <4> QED  BY <1>1, <1>2, <4>1
    <3> QED  BY <3>1, <3>2
  <2>4. CASE CloseStream(t)
    <3>1. /\ pc[t] = "closing" /\ pc'[t] \in {"streamCancelling", "idle"}
          /\ \A u \in Task \ {t} : pc'[u] = pc[u] /\ id'[u] = id[u] /\ sid'[u] = sid[u]
          /\ open' = open \ {sid[t]} /\ pending' = pending
      BY <2>4 DEF CloseStream
    <3>2. Requested'
      BY <1>1, <3>1
    <3>3. Opened'
      BY <1>0, <3>1
    <3> QED  BY <3>2, <3>3
  <2>5. CASE Return(t) \/ SendStreamCancel(t)
    <3>1. /\ pc[t] \in {"returning", "streamCancelling"} /\ pc' = [pc EXCEPT ![t] = "idle"]
          /\ pc[t] = "returning" => kind[t] # "stream"
          /\ \A u \in Task \ {t} : id'[u] = id[u] /\ sid'[u] = sid[u]
          /\ open' = open /\ pending' = pending
      BY <2>5 DEF Return, SendStreamCancel
    <3>2. pc[t] = "returning" => sid[t] = 0
      BY <3>1 DEF StreamNumbered
    <3>3. Requested'
      BY <1>1, <3>1
    <3>4. Opened'
      BY <1>2, <3>1, <3>2
    <3> QED  BY <3>3, <3>4
  <2>6. CASE \/ StreamPermit(t) \/ SendRequest(t) \/ Wake(t) \/ SendCancel(t)
             \/ ReturnStream(t) \/ Caller(t)
    <3>1. /\ pending' = pending /\ open' \subseteq open
          /\ \A u \in Task : id'[u] = id[u] /\ sid'[u] = sid[u]
      BY <2>6 DEF StreamPermit, SendRequest, Wake, SendCancel, ReturnStream, Caller,
         StartRequest, StartLifecycle, StartStream, TimeOut, Abandon, NextEvent, DropStream
    <3>2. \A u \in Task : pc[u] \in Waiting => pc'[u] \in Waiting
      BY <2>6 DEF StreamPermit, SendRequest, Wake, SendCancel, ReturnStream, Caller,
         StartRequest, StartLifecycle, StartStream, TimeOut, Abandon, NextEvent, DropStream
    <3>3. \A u \in Task : pc[u] \notin Apart => pc'[u] \notin Apart
      BY <2>6 DEF StreamPermit, SendRequest, Wake, SendCancel, ReturnStream, Caller,
         StartRequest, StartLifecycle, StartStream, TimeOut, Abandon, NextEvent, DropStream
    <3> QED  BY <1>1, <1>2, <3>1, <3>2, <3>3
  <2> QED  BY <1>3, <2>1, <2>2, <2>3, <2>4, <2>5, <2>6 DEF TaskStep
<1>4. ASSUME \/ Sidecar \/ End \/ Ending \/ UNCHANGED vars
             \/ \E s \in StreamId : CancelOverrun(s)
      PROVE  Requested' /\ Opened'
  <2>1. UNCHANGED <<pc, id, sid>> /\ pending' \subseteq pending /\ open' \subseteq open
    BY <1>4 DEF Sidecar, Response, UnknownStream, Deliver, Finish, Eof, CancelOverrun,
       End, Ending, EndAnswer, EndStream, vars, taskVars, tableVars
  <2> QED  BY <1>1, <1>2, <2>1
<1>5. Requested' /\ Opened'
  BY <1>3, <1>4 DEF Next
<1> QED  BY <1>5 DEF EntriesOwned

\* Only whoever takes an entry out of `open` goes on to cancel its stream.
LEMMA CancelledOnceStep ==
    ASSUME TypeOK, Placed, StreamNumbered, CancelledOnce, [Next]_vars
    PROVE  CancelledOnce'
<1> USE DEF TypeOK, CancelledOnce, OneStreamCancel
<1> DEFINE Cancelling(t) == pc[t] = "streamCancelling"
           Sent(s) == <<"streamCancel", s>> \in sent
<1>1. ASSUME open' \subseteq open, overrun' = overrun,
             \A s \in StreamId : Sent(s)' => Sent(s),
             \A u \in Task : Cancelling(u)' => Cancelling(u) /\ sid'[u] = sid[u]
      PROVE  CancelledOnce'
  <2>1. \A u \in Task : Cancelling(u)' => sid'[u] \in StreamId
    BY <1>1 DEF Placed
  <2> QED  BY <1>1, <2>1
<1>2. ASSUME NEW t \in Task, TaskStep(t) \/ Caller(t)
      PROVE  CancelledOnce'
  <2> USE DEF Goto, Reset, taskVars, tableVars, streamVars, endVars
  <2>1. CASE OpenEntry(t) /\ Admitting
    <3>1. /\ pc' = [pc EXCEPT ![t] = "opened"] /\ nextStream \in StreamId
          /\ sid' = [sid EXCEPT ![t] = nextStream] /\ open' = open \cup {nextStream}
          /\ UNCHANGED <<sent, overrun>>
      BY <2>1 DEF OpenEntry
    <3>2. /\ ~Sent(nextStream) /\ nextStream \notin overrun
          /\ \A u \in Task : sid[u] # nextStream
      BY <3>1, IdType DEF StreamNumbered
    <3> QED  BY <3>1, <3>2
  <2>2. CASE CloseStream(t) /\ StillOpen(t)
    <3>1. /\ pc' = [pc EXCEPT ![t] = "streamCancelling"] /\ sid[t] \in open
          /\ open' = open \ {sid[t]} /\ UNCHANGED <<sid, sent, overrun>>
      BY <2>2 DEF CloseStream, StillOpen
    <3>2. \A u \in Task : sid[u] = sid[t] => u = t
      BY <3>1, IdType DEF StreamNumbered
    <3> QED  BY <3>1, <3>2
  <2>3. CASE SendStreamCancel(t)
    <3>1. /\ Cancelling(t) /\ pc' = [pc EXCEPT ![t] = "idle"]
          /\ sid' = [sid EXCEPT ![t] = 0]
          /\ sent' = sent \cup {<<"streamCancel", sid[t]>>}
          /\ UNCHANGED <<open, overrun>>
      BY <2>3 DEF SendStreamCancel
    <3>2. sid[t] \in StreamId /\ \A u \in Task : sid[u] = sid[t] => u = t
      BY <3>1, IdType DEF StreamNumbered, Placed
    <3>3. \A s \in StreamId : Sent(s)' => Sent(s) \/ s = sid[t]
      BY <3>1
    <3>4. \A u \in Task : Cancelling(u)' => Cancelling(u) /\ u # t /\ sid'[u] = sid[u]
      BY <3>1
    <3>5. \A u \in Task : Cancelling(u) => sid[u] \in StreamId
      BY DEF Placed
    <3> QED  BY <3>1, <3>2, <3>3, <3>4, <3>5
  <2>4. CASE ~(OpenEntry(t) /\ Admitting) /\ ~(CloseStream(t) /\ StillOpen(t))
             /\ ~SendStreamCancel(t)
    <3>1. open' \subseteq open /\ overrun' = overrun
      BY <1>2, <2>4 DEF TaskStep, Caller, StreamPermit, OpenEntry, Register, SendRequest, Wake,
         DropPending, SendCancel, Return, ReturnStream, CloseStream,
         StartRequest, StartLifecycle, StartStream, TimeOut, Abandon, NextEvent, DropStream
    <3>2. \A s \in StreamId : Sent(s)' => Sent(s)
      BY <1>2, <2>4 DEF TaskStep, Caller, StreamPermit, OpenEntry, Register, SendRequest, Wake,
         DropPending, SendCancel, Return, ReturnStream, CloseStream,
         StartRequest, StartLifecycle, StartStream, TimeOut, Abandon, NextEvent, DropStream
    <3>3. \A u \in Task : Cancelling(u)' => Cancelling(u) /\ sid'[u] = sid[u]
      BY <1>2, <2>4 DEF TaskStep, Caller, StreamPermit, OpenEntry, Register, SendRequest, Wake,
         DropPending, SendCancel, Return, ReturnStream, CloseStream,
         StartRequest, StartLifecycle, StartStream, TimeOut, Abandon, NextEvent, DropStream
    <3> QED  BY <1>1, <3>1, <3>2, <3>3
  <2> QED  BY <2>1, <2>2, <2>3, <2>4
<1>3. ASSUME NEW s \in StreamId, Deliver(s)
      PROVE  CancelledOnce'
  <2>1. /\ UNCHANGED <<pc, sid, sent>> /\ s \in open
        /\ \/ UNCHANGED <<open, overrun>>
           \/ open' = open \ {s} /\ overrun' = overrun \cup {s}
    BY <1>3 DEF Deliver, taskVars
  <2> QED  BY <2>1
<1>4. ASSUME NEW s \in StreamId, CancelOverrun(s)
      PROVE  CancelledOnce'
  <2>1. /\ UNCHANGED <<pc, sid, open>> /\ s \in overrun
        /\ overrun' = overrun \ {s} /\ sent' = sent \cup {<<"streamCancel", s>>}
    BY <1>4 DEF CancelOverrun, taskVars, tableVars
  <2> QED  BY <2>1
<1>5. CASE \/ Sidecar /\ ~(\E s \in StreamId : Deliver(s))
           \/ End \/ Ending \/ UNCHANGED vars
  <2>1. UNCHANGED <<pc, sid, sent, overrun>> /\ open' \subseteq open
    BY <1>5 DEF Sidecar, Response, UnknownStream, Finish, Eof,
       End, Ending, EndAnswer, EndStream, vars, taskVars, tableVars
  <2> QED  BY <1>1, <2>1
<1> QED  BY <1>2, <1>3, <1>4, <1>5 DEF Next

\* The last place takes the terminal event.
LEMMA OfferTerminal ==
    ASSUME TypeOK, NEW s \in StreamId, ChannelOK(s), s \in Unended, s \in receivers,
           NEW e \in Terminal
    PROVE  LET q == Offer(s, e)
           IN  /\ q # <<>> /\ q[Len(q)] \in Terminal
               /\ \A k \in 1..Len(q) : q[k] \in Terminal => k = Len(q)
<1> DEFINE q == Offer(s, e)
<1>1. /\ events[s] \in Seq(Event) /\ e \in Event /\ StreamBuffer \in Nat
      /\ Len(events[s]) \in Nat /\ Len(events[s]) < StreamBuffer
      /\ \A k \in 1..Len(events[s]) : events[s][k] \notin Terminal
  BY SessionAssumption, LenProperties DEF TypeOK, ChannelOK, Terminal, Event
<1>2. q = Append(events[s], e)
  BY <1>1 DEF Offer, Capacity
<1>3. /\ q \in Seq(Event) /\ Len(q) = Len(events[s]) + 1 /\ q[Len(events[s]) + 1] = e
      /\ \A k \in 1..Len(events[s]) : q[k] = events[s][k]
  BY <1>1, <1>2, AppendProperties
<1>4. q # <<>>
  BY <1>1, <1>3, EmptySeq
<1>5. \A k \in 1..Len(q) : q[k] \in Terminal => k = Len(q)
  <2>1. \A k \in 1..Len(q) : k \in 1..Len(events[s]) \/ k = Len(q)
    BY <1>1, <1>3
  <2> QED  BY <1>1, <1>3, <2>1
<1>6. q[Len(q)] \in Terminal
  BY <1>3
<1> QED  BY <1>4, <1>5, <1>6

\* Data leaves the last place free.
LEMMA OfferData ==
    ASSUME TypeOK, NEW s \in StreamId, ChannelOK(s), s \in Unended, Room(s)
    PROVE  LET q == Offer(s, "data")
           IN  /\ s \notin receivers => q = <<>>
               /\ Len(q) < StreamBuffer
               /\ \A k \in 1..Len(q) : q[k] \notin Terminal
<1> DEFINE q == Offer(s, "data")
<1>1. /\ events[s] \in Seq(Event) /\ "data" \in Event /\ StreamBuffer \in Nat
      /\ Len(events[s]) \in Nat /\ Len(events[s]) < StreamBuffer
      /\ \A k \in 1..Len(events[s]) : events[s][k] \notin Terminal
  BY SessionAssumption, LenProperties DEF TypeOK, ChannelOK, Terminal, Event
<1>2. CASE s \notin receivers
  BY <1>1, <1>2 DEF Offer, ChannelOK
<1>3. CASE s \in receivers
  <2>1. q = Append(events[s], "data") /\ Len(events[s]) + 1 < StreamBuffer
    BY <1>1, <1>3 DEF Offer, Room, Capacity
  <2>2. /\ q \in Seq(Event) /\ Len(q) = Len(events[s]) + 1
        /\ q[Len(events[s]) + 1] = "data"
        /\ \A k \in 1..Len(events[s]) : q[k] = events[s][k]
    BY <1>1, <2>1, AppendProperties
  <2>3. \A k \in 1..Len(q) : k \in 1..Len(events[s]) \/ k = Len(events[s]) + 1
    BY <1>1, <2>2
  <2>4. "data" \notin Terminal
    BY DEF Terminal
  <2> QED  BY <1>1, <1>3, <2>1, <2>2, <2>3, <2>4
<1> QED  BY <1>2, <1>3

\* A read takes the event at the head; the terminal one was the last.
LEMMA TakeEvent ==
    ASSUME TypeOK, NEW s \in StreamId, ChannelOK(s), events[s] # <<>>
    PROVE  LET q == Tail(events[s])
           IN  /\ Head(events[s]) \in Terminal => q = <<>> /\ s \notin Unended
               /\ Len(q) \in Nat /\ Len(q) < Len(events[s])
               /\ \A k \in 1..Len(q) :
                     q[k] \in Terminal => k = Len(q) /\ s \notin Unended
               /\ Terminated(s) /\ Head(events[s]) \notin Terminal =>
                     q # <<>> /\ q[Len(q)] \in Terminal
<1> DEFINE q == Tail(events[s])
<1>1. events[s] \in Seq(Event) /\ Len(events[s]) \in Nat \ {0}
  BY EmptySeq DEF TypeOK
<1>2. /\ q \in Seq(Event) /\ Len(q) = Len(events[s]) - 1
      /\ \A k \in 1..Len(q) : q[k] = events[s][k + 1]
  BY <1>1, HeadTailProperties
<1>3. Head(events[s]) = events[s][1] /\ Len(q) \in Nat
  BY <1>1, <1>2
<1>a. \A r \in Seq(Event) : Len(r) \in Nat /\ (Len(r) = 0 <=> r = <<>>)
  BY EmptySeq, LenProperties
<1>b. /\ 1 \in 1..Len(events[s])
      /\ Len(events[s]) \in Nat \ {0} /\ Len(q) = Len(events[s]) - 1
  BY <1>1, <1>2
<1> DEFINE h == Head(events[s])
<1> HIDE DEF q, h
<1>4. ASSUME h \in Terminal
      PROVE  q = <<>> /\ s \notin Unended
  <2>1. Len(events[s]) = 1 /\ s \notin Unended
    BY <1>b, <1>3, <1>4 DEF ChannelOK, h
  <2>2. Len(q) = 0
    BY <1>2, <2>1
  <2> QED  BY <1>a, <1>2, <2>1, <2>2
<1>5. ASSUME NEW k \in 1..Len(q), q[k] \in Terminal
      PROVE  k = Len(q) /\ s \notin Unended
  <2>1. k + 1 \in 1..Len(events[s]) /\ events[s][k + 1] \in Terminal
    BY <1>1, <1>2, <1>3, <1>5
  <2> QED  BY <1>1, <1>2, <2>1 DEF ChannelOK
<1>6. ASSUME Terminated(s), h \notin Terminal
      PROVE  q # <<>> /\ q[Len(q)] \in Terminal
  <2>1. Len(events[s]) # 1
    BY <1>3, <1>6 DEF Terminated, h
  <2>2. Len(q) \in 1..Len(q) /\ Len(q) + 1 = Len(events[s])
    <3>1. \A n \in Nat \ {0} : n # 1 => n - 1 \in 1..(n - 1) /\ n - 1 + 1 = n
      OBVIOUS
    <3> QED  BY <1>b, <2>1, <3>1
  <2>3. q[Len(q)] \in Terminal
    BY <1>2, <1>6, <2>2 DEF Terminated
  <2>4. q # <<>>
    BY <1>a, <1>2, <2>2
  <2> QED  BY <2>3, <2>4
<1>7. Len(q) \in Nat /\ Len(q) < Len(events[s])
  BY <1>1, <1>2, <1>3
<1> QED  BY <1>4, <1>5, <1>6, <1>7 DEF q, h

\* A step that leaves a channel alone keeps it, whatever becomes of its entry.
LEMMA ChannelKept ==
    ASSUME NEW s \in StreamId, ChannelOK(s), events'[s] = events[s],
           s \in receivers' <=> s \in receivers, s \in heard' <=> s \in heard,
           s \in Unended' => s \in Unended
    PROVE  ChannelOK(s)' /\ (Terminated(s)' <=> Terminated(s))
BY DEF ChannelOK, Terminated

\* A stream that ends tells its task so.
LEMMA EndedChannel ==
    ASSUME TypeOK, NEW s \in StreamId, ChannelOK(s), s \in Unended, s \notin Unended',
           NEW e \in Terminal, events'[s] = Offer(s, e),
           s \in receivers' <=> s \in receivers, s \in heard' <=> s \in heard
    PROVE  ChannelOK(s)' /\ (s \in receivers => Terminated(s)')
<1>1. CASE s \in receivers
  <2>1. /\ events'[s] # <<>> /\ events'[s][Len(events'[s])] \in Terminal
        /\ \A k \in 1..Len(events'[s]) : events'[s][k] \in Terminal => k = Len(events'[s])
    BY <1>1, OfferTerminal
  <2>2. s \notin heard'
    BY DEF ChannelOK
  <2> QED  BY <1>1, <2>1, <2>2 DEF ChannelOK, Terminated
<1>2. CASE s \notin receivers
  <2>1. events'[s] = <<>>
    BY <1>2 DEF Offer, ChannelOK
  <2> QED  BY <1>2, <2>1 DEF ChannelOK
<1> QED  BY <1>1, <1>2

\* Every channel keeps a place for the end of its stream, and its listener learns it.
LEMMA ChannelsStep ==
    ASSUME TypeOK, Placed, Slotted, StreamNumbered, Channels, [Next]_vars
    PROVE  Channels'
<1>1. /\ open \cap takenOpen = {}
      /\ \A s \in StreamId : ChannelOK(s)
      /\ \A t \in Task : Told(t)
  BY DEF Channels
<1>2. ASSUME NEW t \in Task, kind[t] = "stream", pc[t] \in Listening
      PROVE  sid[t] \in StreamId
  BY <1>2 DEF Placed, Listening
\* Channels untouched, no stream over: only where the tasks are may change.
<1>3. ASSUME UNCHANGED <<events, receivers, heard, takenOpen, open>>,
             \A u \in Task : kind'[u] = "stream" /\ pc'[u] \in Listening =>
                kind[u] = "stream" /\ pc[u] \in Listening /\ sid'[u] = sid[u]
      PROVE  Channels'
  <2>1. Unended' = Unended
    BY <1>3 DEF Unended
  <2>2. \A s \in StreamId : ChannelOK(s)'
    BY <1>1, <1>3, <2>1 DEF ChannelOK
  <2>3. \A u \in Task : Told(u)'
    BY <1>1, <1>2, <1>3, <2>1 DEF Told, Terminated
  <2> QED  BY <1>1, <1>3, <2>2, <2>3 DEF Channels
\* One stream comes to its end; the tasks do not move.
<1>4. ASSUME NEW s \in StreamId, s \in Unended, Unended' = Unended \ {s},
             open' \cap takenOpen' = {},
             NEW e \in Terminal, events' = [events EXCEPT ![s] = Offer(s, e)],
             UNCHANGED <<pc, kind, sid, receivers, heard>>
      PROVE  Channels'
  <2>1. ChannelOK(s)' /\ (s \in receivers => Terminated(s)')
    <3>1. events'[s] = Offer(s, e)
      BY <1>4 DEF TypeOK
    <3> QED  BY <1>1, <1>4, <3>1, EndedChannel
  <2>2. \A r \in StreamId \ {s} : ChannelOK(r)' /\ (Terminated(r)' <=> Terminated(r))
    <3>1. \A r \in StreamId \ {s} : events'[r] = events[r]
      BY <1>4 DEF TypeOK
    <3> QED  BY <1>1, <1>4, <3>1, ChannelKept
  <2>3. \A u \in Task : Told(u)'
    BY <1>1, <1>2, <1>4, <2>1, <2>2 DEF Told
  <2> QED  BY <1>4, <2>1, <2>2, <2>3 DEF Channels
<1>5. ASSUME NEW t \in Task, TaskStep(t) \/ Caller(t)
      PROVE  Channels'
  <2> USE DEF Goto, Reset, taskVars, tableVars, streamVars, endVars
  <2>1. CASE OpenEntry(t) /\ Admitting
    <3>0. PICK s \in StreamId : s = nextStream
      BY <2>1 DEF OpenEntry
    <3>1. /\ pc' = [pc EXCEPT ![t] = "opened"]
          /\ sid' = [sid EXCEPT ![t] = s] /\ open' = open \cup {s}
          /\ receivers' = receivers \cup {s}
          /\ UNCHANGED <<kind, events, heard, takenOpen>>
      BY <2>1, <3>0 DEF OpenEntry
    <3>2. /\ s \notin Unended /\ s \notin receivers /\ s \notin heard
          /\ \A u \in Task : sid[u] # s
      BY <3>0, IdType DEF StreamNumbered, Unended
    <3>3. events[s] = <<>> /\ Len(events[s]) = 0
      BY <1>1, <3>1, <3>2 DEF ChannelOK
    <3>4. Unended' = Unended \cup {s}
      BY <3>1 DEF Unended
    <3>5. ChannelOK(s)'
      BY <3>1, <3>2, <3>3, <3>4, SessionAssumption DEF ChannelOK
    <3>6. \A r \in StreamId \ {s} : ChannelOK(r)' /\ (Terminated(r)' <=> Terminated(r))
      BY <1>1, <3>1, <3>4, ChannelKept
    <3>7. \A u \in Task : Told(u)'
      <4>1. Told(t)'
        BY <3>1, <3>4 DEF Told, TypeOK
      <4>2. ASSUME NEW u \in Task \ {t} PROVE Told(u)'
        BY <1>1, <1>2, <3>1, <3>2, <3>4, <3>6 DEF Told, TypeOK
      <4> QED  BY <4>1, <4>2
    <3>8. open' \cap takenOpen' = {}
      BY <1>1, <3>1, <3>2 DEF Unended
    <3> QED  BY <3>5, <3>6, <3>7, <3>8 DEF Channels
  <2>2. CASE NextEvent(t)
    <3>0. PICK s \in StreamId : s = sid[t]
      BY <2>2, <1>2 DEF NextEvent, Placed, Listening
    <3> DEFINE q == Tail(events[s])
    <3>1. /\ events[s] # <<>> /\ pc[t] = "reading"
          /\ events' = [events EXCEPT ![s] = q]
          /\ heard' = IF Head(events[s]) \in Terminal THEN heard \cup {s} ELSE heard
          /\ UNCHANGED <<pc, kind, sid, receivers, takenOpen, open>>
      BY <2>2, <3>0 DEF NextEvent, Placed
    <3>2. Unended' = Unended
      BY <3>1 DEF Unended
    <3>3. /\ Head(events[s]) \in Terminal => q = <<>> /\ s \notin Unended
          /\ Len(q) \in Nat /\ Len(q) < Len(events[s])
          /\ \A k \in 1..Len(q) : q[k] \in Terminal => k = Len(q) /\ s \notin Unended
          /\ Terminated(s) /\ Head(events[s]) \notin Terminal =>
                q # <<>> /\ q[Len(q)] \in Terminal
      BY <1>1, <3>1, TakeEvent
    <3>4. events'[s] = q /\ \A r \in StreamId \ {s} : events'[r] = events[r]
      BY <3>1 DEF TypeOK
    <3>5. ChannelOK(s)'
      <4>1. s \in receivers /\ s \notin heard
        BY <1>1, <3>1 DEF ChannelOK
      <4>2. s \in Unended => Len(q) < StreamBuffer
        <5>1. Len(events[s]) \in Nat /\ StreamBuffer \in Nat
          BY <3>1, SessionAssumption, LenProperties DEF TypeOK
        <5>2. s \in Unended => Len(events[s]) < StreamBuffer
          BY <1>1, <3>1 DEF ChannelOK
        <5> HIDE DEF q
        <5> QED  BY <3>3, <5>1, <5>2
      <4> HIDE DEF q
      <4> QED  BY <3>1, <3>2, <3>3, <3>4, <4>1, <4>2 DEF ChannelOK
    <3>6. \A r \in StreamId \ {s} : ChannelOK(r)' /\ (Terminated(r)' <=> Terminated(r))
      BY <1>1, <3>1, <3>2, <3>4, ChannelKept
    <3>7. s \in heard' \/ (Terminated(s) => Terminated(s)')
      BY <3>1, <3>3, <3>4 DEF Terminated
    <3>8. \A u \in Task : Told(u)'
      BY <1>1, <1>2, <3>1, <3>2, <3>6, <3>7 DEF Told
    <3> QED  BY <1>1, <3>1, <3>5, <3>6, <3>8 DEF Channels
  <2>3. CASE DropStream(t) \/ CloseStream(t)
    <3>0. PICK s \in StreamId : s = sid[t]
      BY <2>3 DEF DropStream, CloseStream, Placed
    <3>1. /\ pc'[t] \notin Listening
          /\ events' = [events EXCEPT ![s] = <<>>] /\ receivers' = receivers \ {s}
          /\ open' \subseteq open
          /\ \A r \in StreamId \ {s} : r \in open' <=> r \in open
          /\ \A u \in Task \ {t} : pc'[u] = pc[u] /\ sid'[u] = sid[u]
          /\ UNCHANGED <<kind, heard, takenOpen>>
      BY <2>3, <3>0 DEF DropStream, CloseStream, Placed, TypeOK, Listening
    <3>2. ChannelOK(s)'
      <4>1. events'[s] = <<>> /\ Len(events'[s]) = 0
        BY <3>1 DEF TypeOK
      <4>2. s \in Unended' => s \notin heard'
        BY <1>1, <3>1 DEF ChannelOK, Unended
      <4> QED  BY <4>1, <4>2, SessionAssumption DEF ChannelOK
    <3>3. \A r \in StreamId \ {s} : ChannelOK(r)' /\ (Terminated(r)' <=> Terminated(r))
      <4>1. \A r \in StreamId \ {s} : r \in Unended' <=> r \in Unended
        BY <3>1 DEF Unended
      <4>2. \A r \in StreamId \ {s} : events'[r] = events[r]
        BY <3>1 DEF TypeOK
      <4> QED  BY <1>1, <3>1, <4>1, <4>2, ChannelKept
    <3>4. ASSUME NEW u \in Task \ {t}, kind'[u] = "stream", pc'[u] \in Listening
          PROVE  Told(u)'
      <4>1. sid[u] \in StreamId \ {s}
        BY <1>2, <3>0, <3>1, <3>4, IdType DEF StreamNumbered
      <4>2. sid[u] \in Unended' <=> sid[u] \in Unended
        BY <3>1, <4>1 DEF Unended
      <4> QED  BY <1>1, <3>1, <3>3, <3>4, <4>1, <4>2 DEF Told
    <3>5. \A u \in Task : Told(u)'
      BY <3>1, <3>4 DEF Told
    <3> QED  BY <1>1, <3>1, <3>2, <3>3, <3>5 DEF Channels
  <2>4. CASE ReturnStream(t) /\ result[t] = "failed"
    <3>0. PICK s \in StreamId : s = sid[t]
      BY <2>4 DEF ReturnStream, Placed
    <3>1. /\ pc' = [pc EXCEPT ![t] = "closing"] /\ open' = open \ {s}
          /\ UNCHANGED <<kind, sid, events, receivers, heard, takenOpen>>
      BY <2>4, <3>0 DEF ReturnStream, Placed
    <3>2. \A r \in StreamId : ChannelOK(r)' /\ (Terminated(r)' <=> Terminated(r))
      BY <1>1, <3>1, ChannelKept DEF Unended
    <3>3. ASSUME NEW u \in Task, kind'[u] = "stream", pc'[u] \in Listening
          PROVE  Told(u)'
      <4>1. u # t /\ pc[u] \in Listening /\ kind[u] = "stream"
        BY <3>1, <3>3 DEF TypeOK, Listening
      <4>2. sid[u] \in StreamId \ {s}
        BY <1>2, <3>0, <4>1, IdType DEF StreamNumbered
      <4>3. sid[u] \in Unended' <=> sid[u] \in Unended
        BY <3>1, <4>2 DEF Unended
      <4> QED  BY <1>1, <3>1, <3>2, <4>1, <4>2, <4>3 DEF Told
    <3>4. \A u \in Task : Told(u)'
      BY <3>3 DEF Told
    <3> QED  BY <1>1, <3>1, <3>2, <3>4 DEF Channels
  <2>5. CASE /\ ~(OpenEntry(t) /\ Admitting) /\ ~NextEvent(t) /\ ~DropStream(t)
             /\ ~CloseStream(t) /\ ~(ReturnStream(t) /\ result[t] = "failed")
    <3>1. UNCHANGED <<events, receivers, heard, takenOpen, open>>
      BY <1>5, <2>5 DEF TaskStep, Caller, StreamPermit, OpenEntry, Register, SendRequest, Wake,
         DropPending, SendCancel, Return, ReturnStream, SendStreamCancel,
         StartRequest, StartLifecycle, StartStream, TimeOut, Abandon
    <3>2. \A u \in Task : kind'[u] = "stream" /\ pc'[u] \in Listening =>
             kind[u] = "stream" /\ pc[u] \in Listening /\ sid'[u] = sid[u]
      BY <1>5, <2>5 DEF TaskStep, Caller, StreamPermit, OpenEntry, Register, SendRequest, Wake,
         DropPending, SendCancel, Return, ReturnStream, SendStreamCancel, Listening, TypeOK,
         StartRequest, StartLifecycle, StartStream, TimeOut, Abandon
    <3> QED  BY <1>3, <3>1, <3>2
  <2> QED  BY <2>1, <2>2, <2>3, <2>4, <2>5
<1>6. ASSUME NEW s \in StreamId, Deliver(s)
      PROVE  Channels'
  <2>1. UNCHANGED <<pc, kind, sid, receivers, heard, takenOpen>> /\ s \in open
    BY <1>6 DEF Deliver, taskVars, endVars
  <2>2. CASE Room(s)
    <3>1. events' = [events EXCEPT ![s] = Offer(s, "data")] /\ open' = open
      BY <1>6, <2>2 DEF Deliver
    <3>2. s \in Unended /\ Unended' = Unended
      BY <2>1, <3>1 DEF Unended
    <3>3. /\ s \notin receivers => events'[s] = <<>>
          /\ Len(events'[s]) < StreamBuffer
          /\ \A k \in 1..Len(events'[s]) : events'[s][k] \notin Terminal
      BY <1>1, <2>2, <3>1, <3>2, OfferData DEF TypeOK
    <3>4. ChannelOK(s)'
      BY <1>1, <2>1, <3>2, <3>3 DEF ChannelOK
    <3>5. \A r \in StreamId \ {s} : ChannelOK(r)' /\ (Terminated(r)' <=> Terminated(r))
      <4>1. \A r \in StreamId \ {s} : events'[r] = events[r]
        BY <3>1 DEF TypeOK
      <4> QED  BY <1>1, <2>1, <3>2, <4>1, ChannelKept
    <3>6. \A u \in Task : Told(u)'
      BY <1>1, <1>2, <2>1, <3>2, <3>5 DEF Told
    <3> QED  BY <1>1, <2>1, <3>1, <3>4, <3>5, <3>6 DEF Channels
  <2>3. CASE ~Room(s)
    <3>1. events' = [events EXCEPT ![s] = Offer(s, "failed")] /\ open' = open \ {s}
      BY <1>6, <2>3 DEF Deliver
    <3>2. s \in Unended /\ Unended' = Unended \ {s} /\ open' \cap takenOpen' = {}
      BY <1>1, <2>1, <3>1 DEF Unended
    <3>3. "failed" \in Terminal
      BY DEF Terminal
    <3> QED  BY <1>4, <2>1, <3>1, <3>2, <3>3
  <2> QED  BY <2>2, <2>3
<1>7. ASSUME NEW s \in StreamId, Finish(s)
      PROVE  Channels'
  <2>1. PICK e \in Terminal : events' = [events EXCEPT ![s] = Offer(s, e)]
    BY <1>7 DEF Finish
  <2>2. /\ UNCHANGED <<pc, kind, sid, receivers, heard, takenOpen>> /\ s \in open
        /\ open' = open \ {s}
    BY <1>7 DEF Finish, taskVars, endVars
  <2>3. s \in Unended /\ Unended' = Unended \ {s} /\ open' \cap takenOpen' = {}
    BY <1>1, <2>2 DEF Unended
  <2> QED  BY <1>4, <2>1, <2>2, <2>3
<1>8. ASSUME NEW s \in StreamId, EndStream(s)
      PROVE  Channels'
  <2>1. /\ UNCHANGED <<pc, kind, sid, receivers, heard, open>> /\ s \in takenOpen
        /\ takenOpen' = takenOpen \ {s}
        /\ events' = [events EXCEPT ![s] = Offer(s, "failed")]
    BY <1>8 DEF EndStream, taskVars, tableVars
  <2>2. s \in Unended /\ Unended' = Unended \ {s} /\ open' \cap takenOpen' = {}
    BY <1>1, <2>1 DEF Unended
  <2>3. "failed" \in Terminal
    BY DEF Terminal
  <2> QED  BY <1>4, <2>1, <2>2, <2>3
<1>9. CASE End
  <2>1. /\ UNCHANGED <<pc, kind, sid, events, receivers, heard>>
        /\ takenOpen' = takenOpen \cup open /\ open' = {}
    BY <1>9 DEF End, taskVars, streamVars
  <2>2. Unended' = Unended
    BY <2>1 DEF Unended
  <2>3. \A s \in StreamId : ChannelOK(s)'
    BY <1>1, <2>1, <2>2 DEF ChannelOK
  <2>4. \A u \in Task : Told(u)'
    BY <1>1, <2>1, <2>2 DEF Told, Terminated
  <2> QED  BY <2>1, <2>3, <2>4 DEF Channels
<1>10. CASE \/ \E i \in Id : Response(i) \/ EndAnswer(i)
            \/ \E s \in StreamId : UnknownStream(s) \/ CancelOverrun(s)
            \/ Eof \/ UNCHANGED vars
  <2>1. UNCHANGED <<pc, kind, sid, events, receivers, heard, takenOpen, open>>
    BY <1>10 DEF Response, EndAnswer, UnknownStream, CancelOverrun, Eof, vars, taskVars,
       tableVars, streamVars, endVars
  <2> QED  BY <1>3, <2>1
<1> QED
  BY <1>5, <1>6, <1>7, <1>8, <1>9, <1>10 DEF Next, Sidecar, Ending

\* The streams of a session, throughout.
LEMMA StreamsInvariant == Spec => []Streams
<1>1. ASSUME Init PROVE Streams
  <2>1. Slotted
    <3>1. slots = {} /\ open = {} /\ \A t \in Task : pc[t] = "idle"
      BY <1>1 DEF Init
    <3> QED  BY <1>1, <3>1, FS_EmptySet, SessionAssumption DEF Init, Slotted
  <2>2. StreamNumbered
    BY <1>1, IdType DEF Init, StreamNumbered, FirstId
  <2>3. EntriesOwned /\ CancelledOnce
    BY <1>1 DEF Init, EntriesOwned, CancelledOnce, OneStreamCancel
  <2>4. Channels
    BY <1>1 DEF Init, Channels, ChannelOK, Told, Unended, Listening
  <2> QED  BY <2>1, <2>2, <2>3, <2>4 DEF Streams
<1>2. TypeOK /\ Placed /\ TypeOK' /\ Streams /\ [Next]_vars => Streams'
  BY SlottedStep, StreamNumberedStep, OwnedStep, CancelledOnceStep, ChannelsStep DEF Streams
<1>3. Init => Streams
  BY <1>1
<1> QED  BY <1>2, <1>3, TypeCorrect, PTL DEF Spec

\* request, open_stream and their guards: answered, refused, abandoned or at the
\* end of the session, a call leaves no permit, no slot and no entry behind, for
\* any tasks and any limits.
THEOREM NothingLeaks == Spec => []NoLeak
<1>1. TypeOK /\ Placed /\ Streams => NoLeak
  BY DEF TypeOK, Streams, Slotted, NoLeak
<1> QED  BY <1>1, TypeCorrect, StreamsInvariant, PTL

\* deliver, finish, StreamGuard and end: a stream is cancelled at most once, and
\* whoever reads it is told, last and once, how it ended.
THEOREM StreamsEnd == Spec => []StreamsEndOnce
<1>1. ASSUME TypeOK, Placed, Streams PROVE StreamsEndOnce
  <2>1. OneStreamCancel
    BY <1>1 DEF Streams, CancelledOnce
  <2>2. TerminalLast
    BY <1>1 DEF Streams, Channels, ChannelOK, TerminalLast, Unended, TypeOK
  <2>3. ASSUME NEW t \in Task, pc[t] = "reading", sid[t] \notin open \cup takenOpen
        PROVE  sid[t] \in heard \/ Terminated(sid[t])
    BY <1>1, <2>3 DEF Streams, Channels, Told, Listening, Placed, Unended
  <2> QED  BY <2>1, <2>2, <2>3 DEF StreamsEndOnce, ReaderTold, Terminated
<1>2. TypeOK /\ Placed /\ Streams => StreamsEndOnce
  BY <1>1
<1> QED  BY <1>2, TypeCorrect, StreamsInvariant, PTL
===============================================================================
