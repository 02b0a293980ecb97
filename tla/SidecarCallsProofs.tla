--------------------------- MODULE SidecarCallsProofs --------------------------
(***************************************************************************)
(* A sidecar's calls are answered within the bound, in turn, and truly     *)
(* when they were cancelled.  A call is owned by the reader until it has a *)
(* worker, and by its worker until it is answered; an id's calls are       *)
(* numbered, and only the last can still be without an answer.             *)
(***************************************************************************)
EXTENDS SidecarCalls, FiniteSetTheorems, SequenceTheorems, TLAPS

Handling == at \in {"checked", "placed", "permitted"}

\* The reader, the table and the workers agree on who has a call.
Owned ==
    /\ \A i \in CallId : calls[i] = "none" <=> worker[i] = "none"
    /\ \A i \in callbacks :
          \/ worker[i] \in {"working", "outcome", "cancelled"}
          \/ at = "permitted" /\ current = i
    /\ Handling => calls[current] = "none"
    /\ at = "signalling" => calls[current] # "armed"
    /\ \A i \in signal : calls[i] = "taken"
    /\ \A i \in CallId :
          worker[i] \in {"cancelled", "released cancelled"} => calls[i] = "taken"
    /\ \A i \in toCancel : calls[i] # "armed"
    /\ toCancel # {} => ended
    /\ ended => \A i \in CallId : calls[i] # "armed"

\* An id's last call may still be without an answer.
Unanswered(i) == calls[i] # "none" \/ (Handling /\ current = i)

\* The answers and the cancellations so far are of calls that were made; a call
\* without an answer is not among them, and is cancelled if its entry says so.
History ==
    /\ \A k \in 1..Len(log) : log[k].call[2] <= made[log[k].call[1]]
    /\ \A c \in accepted : c[2] <= made[c[1]]
    /\ \A i \in CallId : Unanswered(i) =>
          /\ \A k \in 1..Len(log) : log[k].call # The(i)
          /\ The(i) \in accepted <=> calls[i] = "taken"
    /\ \A k \in 1..Len(log) :
          (log[k].call \in accepted) <=> (log[k].verdict = "cancelled")
    /\ AnswersInTurn

Bounded == IsFiniteSet(Working) /\ Queued + Reserved <= AnswerBuffer

Inv == TypeOK /\ Owned /\ History /\ Bounded

Answer == [call : Call, verdict : Verdict]

LEMMA InitInv == Init => Inv
<1> SUFFICES ASSUME Init PROVE Inv
  OBVIOUS
<1>1. TypeOK
  <2>1. log \in Seq(Answer) /\ Len(log) = 0
    BY DEF Init
  <2>2. log \in Seq([call : Call, verdict : Verdict]) /\ written \in 0..Len(log)
    BY <2>1 DEF Answer, Init
  <2> QED  BY <2>2 DEF Init, TypeOK
<1>2. Owned
  BY DEF Init, Owned, Handling
<1>3. History
  BY DEF Init, History, Unanswered, Handling, AnswersInTurn
<1>4. Bounded
  <2>1. Working = {}
    BY DEF Init, Working
  <2> QED
    BY <2>1, FS_EmptySet, CallsAssumption DEF Init, Bounded, Queued, Reserved
<1> QED  BY <1>1, <1>2, <1>3, <1>4 DEF Inv

-------------------------------------------------------------------------------
(* Types and owners.                                                       *)

LEMMA QueueType ==
    ASSUME TypeOK, NEW i \in CallId, NEW v \in Verdict, Queue(i, v)
    PROVE  /\ log' \in Seq(Answer)
           /\ Len(log) \in Nat /\ Len(log') = Len(log) + 1
           /\ written \in 0..Len(log')
           /\ \A k \in 1..Len(log) : log'[k] = log[k]
           /\ log'[Len(log) + 1].call = The(i) /\ log'[Len(log) + 1].verdict = v
<1> DEFINE e == [call |-> The(i), verdict |-> v]
<1>1. The(i) \in Call
  BY DEF TypeOK, The, Call
<1>2. e \in Answer /\ e.call = The(i) /\ e.verdict = v
  BY <1>1 DEF Answer
<1>3. log \in Seq(Answer) /\ log' = Append(log, e) /\ written \in 0..Len(log)
  BY DEF TypeOK, Answer, Queue
<1>4. Len(log) \in Nat
  BY <1>3, LenProperties
<1> HIDE DEF e
<1>5. /\ log' \in Seq(Answer) /\ Len(log') = Len(log) + 1
      /\ \A k \in 1..Len(log) : log'[k] = log[k]
      /\ log'[Len(log) + 1] = e
  BY <1>2, <1>3, AppendProperties
<1>6. written \in 0..Len(log')
  BY <1>3, <1>4, <1>5
<1> QED  BY <1>2, <1>4, <1>5, <1>6

\* Every answer so far is one to a call.
LEMMA AnswerAt ==
    ASSUME TypeOK, NEW k \in 1..Len(log)
    PROVE  log[k].call \in Call /\ log[k].call[1] \in CallId /\ log[k].call[2] \in Nat
<1>1. log \in Seq(Answer)
  BY DEF TypeOK, Answer
<1>2. log[k] \in Answer
  BY <1>1, ElementOfSeq
<1>3. log[k].call \in Call
  BY <1>2 DEF Answer
<1> QED  BY <1>3 DEF Call

LEMMA AnswerType == ASSUME NEW i PROVE AnswerOf(i) \in Verdict
BY DEF AnswerOf, Verdict

\* What a step leaves alone keeps its type; the log keeps it through an answer.
LEMMA TypeStep == TypeOK /\ [Next]_vars => TypeOK'
<1> SUFFICES ASSUME TypeOK, [Next]_vars PROVE TypeOK'
  OBVIOUS
<1>1. log \in Seq(Answer) /\ written \in 0..Len(log) /\ Len(log) \in Nat
  BY LenProperties DEF TypeOK, Answer
<1> DEFINE LogOK == log \in Seq(Answer) /\ written \in 0..Len(log)
           RestOK == /\ at \in {"reading", "checked", "placed", "permitted",
                                 "signalling", "violated"}
                     /\ current \in CallId \cup {NoId}
                     /\ at \in {"checked", "placed", "permitted", "signalling"} =>
                            current \in CallId
                     /\ calls \in [CallId -> {"none", "armed", "taken"}]
                     /\ signal \subseteq CallId
                     /\ worker \in [CallId -> {"none", "working", "outcome", "cancelled",
                                               "released outcome", "released cancelled"}]
                     /\ callbacks \subseteq CallId
                     /\ ended \in BOOLEAN
                     /\ toCancel \subseteq CallId
                     /\ made \in [CallId -> Nat]
                     /\ accepted \subseteq Call
<1>2. TypeOK <=> LogOK /\ RestOK
  BY DEF TypeOK, Answer
<1>3. TypeOK' <=> LogOK' /\ RestOK'
  BY DEF TypeOK, Answer
<1>4. \/ UNCHANGED <<log, written>>
      \/ \E i \in CallId, v \in Verdict : Queue(i, v) /\ UNCHANGED written
      \/ Write
  <2>1. CASE Reserve
    BY <2>1 DEF Reserve, TypeOK, Verdict
  <2>2. CASE TakePermit
    BY <2>2 DEF TakePermit, TypeOK, Verdict
  <2>3. ASSUME NEW i \in CallId, Settle(i)
        PROVE  \E j \in CallId, v \in Verdict : Queue(j, v) /\ UNCHANGED written
    BY <2>3, AnswerType DEF Settle
  <2> QED
    BY <2>1, <2>2, <2>3 DEF Next, Reader, Sidecar, Worker, Insert, Signal, ReadCall, ReadCancel,
       Choose, Release, EndSignal, End, vars
<1>5. LogOK'
  <2>1. CASE UNCHANGED <<log, written>>
    BY <1>1, <2>1
  <2>2. CASE \E i \in CallId, v \in Verdict : Queue(i, v) /\ UNCHANGED written
    BY <2>2, QueueType
  <2>3. CASE Write
    BY <1>1, <2>3 DEF Write, Waiting, Queued
  <2> QED  BY <1>4, <2>1, <2>2, <2>3
<1>6. RestOK'
  <2> USE <1>2 DEF readerVars, workVars
  <2>1. CASE Reserve      BY <2>1 DEF Reserve
  <2>2. CASE TakePermit   BY <2>2 DEF TakePermit
  <2>3. CASE Insert       BY <2>3 DEF Insert
  <2>4. CASE Signal       BY <2>4 DEF Signal
  <2>5. ASSUME NEW i \in CallId, ReadCall(i) PROVE RestOK'
    <3>1. made' = made \/ made' = [made EXCEPT ![i] = made[i] + 1]
      BY <2>5 DEF ReadCall
    <3>2. made \in [CallId -> Nat]
      OBVIOUS
    <3>3. made[i] + 1 \in Nat
      BY ONLY <3>2, i \in CallId
    <3>4. made' \in [CallId -> Nat]
      BY <3>1, <3>2, <3>3
    <3> QED  BY <2>5, <3>4 DEF ReadCall
  <2>6. ASSUME NEW i \in CallId, ReadCancel(i) PROVE RestOK'
    <3>1. The(i) \in Call
      BY DEF The, Call
    <3> QED  BY <2>6, <3>1 DEF ReadCancel
  <2>7. ASSUME NEW i \in CallId, Choose(i) PROVE RestOK'
    BY <2>7 DEF Choose
  <2>8. ASSUME NEW i \in CallId, Release(i) PROVE RestOK'
    BY <2>8 DEF Release
  <2>9. ASSUME NEW i \in CallId, Settle(i) PROVE RestOK'
    BY <2>9 DEF Settle
  <2>10. ASSUME NEW i \in CallId, EndSignal(i) PROVE RestOK'
    BY <2>10 DEF EndSignal
  <2>11. CASE End
    <3>1. \A i \in CallId : The(i) \in Call
      BY DEF The, Call
    <3> QED  BY <2>11, <3>1 DEF End
  <2>12. CASE Write            BY <2>12 DEF Write
  <2>13. CASE UNCHANGED vars  BY <2>13 DEF vars
  <2> QED
    BY <2>1, <2>2, <2>3, <2>4, <2>5, <2>6, <2>7, <2>8, <2>9, <2>10, <2>11, <2>12, <2>13
    DEF Next, Reader, Sidecar, Worker
<1> QED  BY <1>3, <1>5, <1>6

LEMMA OwnedStep == TypeOK /\ Owned /\ [Next]_vars => Owned'
<1> SUFFICES ASSUME TypeOK, Owned, [Next]_vars PROVE Owned'
  OBVIOUS
<1> USE DEF TypeOK, Owned, Handling, readerVars, workVars
<1>1. CASE Reserve     BY <1>1 DEF Reserve
<1>2. CASE TakePermit  BY <1>2 DEF TakePermit
<1>3. CASE Insert
  <2>1. CASE ended   BY <1>3, <2>1 DEF Insert, Admitting
  <2>2. CASE ~ended
    <3>1. /\ calls' = [calls EXCEPT ![current] = "armed"]
          /\ worker' = [worker EXCEPT ![current] = "working"]
          /\ signal' = signal \ {current}
          /\ at = "permitted" /\ at' = "reading" /\ current \in CallId
          /\ UNCHANGED <<current, ended, toCancel, callbacks>>
      BY <1>3, <2>2 DEF Insert, Admitting
    <3>2. toCancel = {}
      BY <2>2
    <3>3. \A i \in CallId : i # current => calls'[i] = calls[i] /\ worker'[i] = worker[i]
      BY <3>1
    <3>4. calls'[current] = "armed" /\ worker'[current] = "working"
      BY <3>1
    <3>5. ASSUME NEW i \in CallId PROVE calls'[i] = "none" <=> worker'[i] = "none"
      <4>1. calls[i] = "none" <=> worker[i] = "none"
        OBVIOUS
      <4>2. CASE i = current
        BY <3>4, <4>2
      <4>3. CASE i # current
        BY <3>3, <4>1, <4>3
      <4> QED  BY <4>2, <4>3
    <3>6. \A i \in callbacks' : worker'[i] \in {"working", "outcome", "cancelled"}
      BY <3>1, <3>3, <3>4
    <3>7. \A i \in signal' : calls'[i] = "taken"
      BY <3>1, <3>3
    <3>8. \A i \in CallId :
            worker'[i] \in {"cancelled", "released cancelled"} => calls'[i] = "taken"
      BY <3>3, <3>4
    <3> QED  BY <2>2, <3>1, <3>2, <3>5, <3>6, <3>7, <3>8
  <2> QED  BY <2>1, <2>2
<1>4. CASE Signal      BY <1>4 DEF Signal
<1>5. ASSUME NEW i \in CallId, ReadCall(i) PROVE Owned'
  BY <1>5 DEF ReadCall, Known
<1>6. ASSUME NEW i \in CallId, ReadCancel(i) PROVE Owned'
  BY <1>6 DEF ReadCancel
<1>7. ASSUME NEW i \in CallId, Choose(i) PROVE Owned'
  BY <1>7 DEF Choose
<1>8. ASSUME NEW i \in CallId, Release(i) PROVE Owned'
  BY <1>8 DEF Release
<1>9. ASSUME NEW i \in CallId, Settle(i) PROVE Owned'
  BY <1>9 DEF Settle
<1>10. ASSUME NEW i \in CallId, EndSignal(i) PROVE Owned'
  BY <1>10 DEF EndSignal
<1>11. CASE End  BY <1>11 DEF End
<1>12. CASE Write  BY <1>12 DEF Write
<1>13. CASE UNCHANGED vars  BY <1>13 DEF vars
<1> QED
  BY <1>1, <1>2, <1>3, <1>4, <1>5, <1>6, <1>7, <1>8, <1>9, <1>10, <1>11, <1>12, <1>13
  DEF Next, Reader, Sidecar, Worker

-------------------------------------------------------------------------------
(* What has been answered.                                                 *)

\* A call that had no answer gets one, which says whether it was cancelled.
LEMMA Answered ==
    ASSUME Inv, Owned', NEW i \in CallId, NEW v \in Verdict, Queue(i, v), Unanswered(i),
           v = "cancelled" <=> The(i) \in accepted,
           UNCHANGED <<made, accepted>>, ~Unanswered(i)',
           \A j \in CallId \ {i} : Unanswered(j)' => Unanswered(j) /\ calls'[j] = calls[j]
    PROVE  History'
<1> USE DEF Inv, History
<1>1. /\ Len(log) \in Nat /\ Len(log') = Len(log) + 1
      /\ \A k \in 1..Len(log) : log'[k] = log[k]
      /\ log'[Len(log) + 1].call = The(i) /\ log'[Len(log) + 1].verdict = v
  BY QueueType
<1>2. The(i)[1] = i /\ The(i)[2] = made[i] /\ made[i] \in Nat
  BY DEF The, TypeOK
<1>3. \A j \in CallId : The(j)' = The(j)
  BY DEF The
<1>4. \A k \in 1..Len(log') : log'[k].call[2] <= made'[log'[k].call[1]]
  BY <1>1, <1>2
<1>5. ASSUME NEW j \in CallId, Unanswered(j)'
      PROVE  /\ \A k \in 1..Len(log') : log'[k].call # The(j)'
             /\ The(j)' \in accepted' <=> calls'[j] = "taken"
  <2>1. j # i /\ Unanswered(j) /\ calls'[j] = calls[j]
    BY <1>5
  <2>2. The(j) # The(i)
    BY <2>1 DEF The
  <2> QED  BY <1>1, <1>3, <2>1, <2>2
<1>6. \A k \in 1..Len(log') :
         (log'[k].call \in accepted') <=> (log'[k].verdict = "cancelled")
  BY <1>1
<1>7. AnswersInTurn'
  <2> SUFFICES ASSUME NEW a \in 1..Len(log'), NEW b \in 1..Len(log'), a < b,
                      log'[a].call[1] = log'[b].call[1]
               PROVE  log'[a].call[2] < log'[b].call[2]
    BY DEF AnswersInTurn
  <2>1. CASE b \in 1..Len(log)
    BY <1>1, <2>1 DEF AnswersInTurn
  <2>2. CASE b = Len(log) + 1
    <3>1. a \in 1..Len(log) /\ log'[a] = log[a]
      BY <1>1, <2>2
    <3>2. log[a].call \in Call /\ log[a].call # The(i) /\ log[a].call[1] = i
      <4>1. TypeOK /\ Unanswered(i)
        OBVIOUS
      <4> QED  BY <1>1, <1>2, <2>2, <3>1, <4>1, AnswerAt
    <3>3. log[a].call[2] # made[i] /\ log[a].call[2] <= made[i] /\ log[a].call[2] \in Nat
      BY <1>2, <3>1, <3>2 DEF Call, The
    <3> QED  BY <1>1, <1>2, <2>2, <3>1, <3>3
  <2> QED  BY <1>1, <2>1, <2>2
<1> QED  BY <1>4, <1>5, <1>6, <1>7

LEMMA HistoryStep == Inv /\ Owned' /\ [Next]_vars => History'
<1> SUFFICES ASSUME Inv, Owned', [Next]_vars PROVE History'
  OBVIOUS
<1> USE DEF Inv, History
<1>1. ASSUME NEW i \in CallId, NEW v \in {"refused", "busy"}, Queue(i, v), i = current,
             Handling, ~Handling', UNCHANGED <<current, calls, made, accepted>>
      PROVE  History'
  <2>1. Unanswered(i) /\ calls[i] = "none" /\ v \in Verdict
    BY <1>1 DEF Unanswered, Owned, Verdict
  <2>2. \A j \in CallId \ {i} : Unanswered(j)' => Unanswered(j) /\ calls'[j] = calls[j]
    BY <1>1 DEF Unanswered
  <2>3. ~Unanswered(i)'
    BY <1>1, <2>1 DEF Unanswered
  <2>4. The(i) \notin accepted
    BY <2>1
  <2> QED  BY <1>1, <2>1, <2>2, <2>3, <2>4, Answered
\* Steps that answer nothing, make and cancel no call.
<1>2. ASSUME UNCHANGED <<log, made, accepted>>,
             \A i \in CallId : Unanswered(i)' =>
                 Unanswered(i) /\ (calls'[i] = "taken" <=> calls[i] = "taken")
      PROVE  History'
  <2>1. \A i : The(i)' = The(i)
    BY <1>2 DEF The
  <2> QED  BY <1>2, <2>1 DEF AnswersInTurn
<1>3. CASE Reserve
  <2>1. current \in CallId /\ Handling
    BY <1>3 DEF Reserve, TypeOK, Handling
  <2>2. CASE Queue(current, "refused") /\ at' = "reading"
    BY <1>1, <1>3, <2>1, <2>2 DEF Reserve, Handling, workVars
  <2>3. CASE log' = log
    BY <1>2, <1>3, <2>1, <2>3 DEF Reserve, Handling, workVars, Unanswered
  <2> QED  BY <1>3, <2>2, <2>3 DEF Reserve
<1>4. CASE TakePermit
  <2>1. current \in CallId /\ Handling
    BY <1>4 DEF TakePermit, TypeOK, Handling
  <2>2. CASE Queue(current, "busy") /\ at' = "reading"
    BY <1>1, <1>4, <2>1, <2>2 DEF TakePermit, Handling
  <2>3. CASE log' = log
    BY <1>2, <1>4, <2>1, <2>3 DEF TakePermit, Handling, Unanswered
  <2> QED  BY <1>4, <2>2, <2>3 DEF TakePermit
<1>5. CASE Insert
  <2>1. current \in CallId /\ Handling /\ ~Handling' /\ current' = current
        /\ UNCHANGED <<log, made, accepted>>
        /\ (calls' = calls \/ calls' = [calls EXCEPT ![current] = "armed"])
    BY <1>5 DEF Insert, TypeOK, Handling
  <2>2. calls[current] = "none"
    BY <2>1 DEF Owned
  <2> QED  BY <1>2, <2>1, <2>2 DEF Unanswered, TypeOK
<1>6. CASE Signal
  BY <1>2, <1>6 DEF Signal, Unanswered, Handling
<1>7. ASSUME NEW i \in CallId, ReadCall(i) PROVE History'
  <2>1. CASE made' = made /\ at' = "violated"
    BY <1>2, <1>7, <2>1 DEF ReadCall, Unanswered, Handling, workVars
  <2>2. CASE calls[i] = "none" /\ made' = [made EXCEPT ![i] = @ + 1]
    <3>1. UNCHANGED <<log, calls, accepted>> /\ current' = i /\ at = "reading"
      BY <1>7 DEF ReadCall, workVars
    <3>2. \A j \in CallId : made[j] \in Nat /\ made'[j] = IF j = i THEN made[i] + 1 ELSE made[j]
      BY <2>2 DEF TypeOK
    <3>3. /\ \A k \in 1..Len(log) : log[k].call \in Call
          /\ accepted \subseteq Call
      BY AnswerAt DEF TypeOK
    <3>4. \A c \in Call : /\ c[1] \in CallId /\ c[2] \in Nat
                          /\ c[2] <= made[c[1]] => c[2] <= made'[c[1]] /\ c # The(i)'
      BY <3>2 DEF Call, The
    <3>5. \A j \in CallId : j # i => The(j)' = The(j)
      BY <3>2 DEF The
    <3>6. \A j \in CallId : j # i /\ Unanswered(j)' => Unanswered(j)
      BY <3>1 DEF Unanswered
    <3>7. \A k \in 1..Len(log') : log'[k].call[2] <= made'[log'[k].call[1]]
                                 /\ log'[k].call # The(i)'
      BY <3>1, <3>3, <3>4
    <3>8. \A c \in accepted' : c[2] <= made'[c[1]] /\ c # The(i)'
      BY <3>1, <3>3, <3>4
    <3>9. AnswersInTurn'
      BY <3>1 DEF AnswersInTurn
    <3> QED  BY <2>2, <3>1, <3>5, <3>6, <3>7, <3>8, <3>9
  <2> QED  BY <1>7, <2>1, <2>2 DEF ReadCall, Known
\* Cancellations are of calls without an answer.
<1>8. ASSUME NEW S, S \subseteq CallId, \A i \in S : calls[i] = "armed" /\ calls'[i] = "taken",
             \A i \in CallId \ S : calls'[i] = calls[i],
             accepted' = accepted \cup {The(i) : i \in S},
             UNCHANGED <<log, made>>, \A i \in CallId : Unanswered(i)' => Unanswered(i)
      PROVE  History'
  <2>1. \A i, j \in CallId : The(i)' = The(i) /\ (The(i) = The(j) => i = j)
                             /\ The(i)[1] = i /\ The(i)[2] = made[i] /\ made[i] \in Nat
    BY <1>8 DEF The, TypeOK
  <2>2. \A c \in accepted' : c[2] <= made'[c[1]]
    BY <1>8, <2>1
  <2>3. \A i \in S : Unanswered(i)
    BY <1>8 DEF Unanswered
  <2>4. \A k \in 1..Len(log) : log[k].call \in accepted' <=> log[k].call \in accepted
    BY <1>8, <2>3
  <2>5. ASSUME NEW i \in CallId, Unanswered(i)'
        PROVE  The(i) \in accepted' <=> calls'[i] = "taken"
    BY <1>8, <2>1, <2>5
  <2>6. AnswersInTurn'
    BY <1>8 DEF AnswersInTurn
  <2> QED  BY <1>8, <2>1, <2>2, <2>4, <2>5, <2>6
<1>9. ASSUME NEW i \in CallId, ReadCancel(i) PROVE History'
  <2>1. \A j \in CallId : Unanswered(j)' => Unanswered(j)
    BY <1>9 DEF ReadCancel, Unanswered, Handling, TypeOK
  <2>2. accepted' = accepted \cup {The(j) : j \in {i}}
    BY <1>9 DEF ReadCancel
  <2>3. /\ \A j \in {i} : calls[j] = "armed" /\ calls'[j] = "taken"
        /\ \A j \in CallId \ {i} : calls'[j] = calls[j]
    BY <1>9 DEF ReadCancel, TypeOK
  <2>4. UNCHANGED <<log, made>>
    BY <1>9 DEF ReadCancel
  <2> QED  BY <1>8, <2>1, <2>2, <2>3, <2>4
<1>10. ASSUME NEW i \in CallId, Choose(i) PROVE History'
  BY <1>2, <1>10 DEF Choose, Unanswered, Handling, readerVars
<1>11. ASSUME NEW i \in CallId, Release(i) PROVE History'
  BY <1>2, <1>11 DEF Release, Unanswered, Handling, readerVars
<1>12. ASSUME NEW i \in CallId, Settle(i) PROVE History'
  <2>1. Unanswered(i) /\ calls[i] # "none" /\ ~(Handling /\ current = i)
    BY <1>12 DEF Settle, Unanswered, Owned
  <2>2. AnswerOf(i) = "cancelled" <=> calls[i] = "taken"
    BY <1>12 DEF AnswerOf, Owned
  <2>3. ~Unanswered(i)'
    BY <1>12, <2>1 DEF Settle, Unanswered, Handling, readerVars, TypeOK
  <2>4. \A j \in CallId \ {i} : Unanswered(j)' => Unanswered(j) /\ calls'[j] = calls[j]
    BY <1>12 DEF Settle, Unanswered, Handling, readerVars, TypeOK
  <2>5. Queue(i, AnswerOf(i)) /\ AnswerOf(i) \in Verdict /\ UNCHANGED <<made, accepted>>
    BY <1>12, AnswerType DEF Settle
  <2> QED  BY <2>1, <2>2, <2>3, <2>4, <2>5, Answered
<1>13. ASSUME NEW i \in CallId, EndSignal(i) PROVE History'
  BY <1>2, <1>13 DEF EndSignal, Unanswered, Handling, readerVars
<1>14. CASE End
  <2> DEFINE S == {i \in CallId : calls[i] = "armed"}
  <2>1. \A i \in CallId : calls'[i] = IF i \in S THEN "taken" ELSE calls[i]
    BY <1>14 DEF End
  <2>2. \A i \in CallId : Unanswered(i)' => Unanswered(i)
    BY <1>14, <2>1 DEF End, Unanswered, Handling, readerVars
  <2>3. accepted' = accepted \cup {The(i) : i \in S} /\ UNCHANGED <<log, made>>
    BY <1>14 DEF End
  <2> QED  BY <1>8, <2>1, <2>2, <2>3
<1>15. CASE Write
  BY <1>2, <1>15 DEF Write, Unanswered, Handling, readerVars, workVars
<1>16. CASE UNCHANGED vars
  BY <1>2, <1>16 DEF vars, Unanswered, Handling, readerVars, workVars
<1> QED
  BY <1>3, <1>4, <1>5, <1>6, <1>7, <1>9, <1>10, <1>11, <1>12, <1>13, <1>14, <1>15, <1>16
  DEF Next, Reader, Sidecar, Worker

-------------------------------------------------------------------------------
(* The answer queue.                                                       *)

\* A worker keeps the place its answer will take.
LEMMA BoundedStep == Inv /\ TypeOK' /\ [Next]_vars => Bounded'
<1> SUFFICES ASSUME Inv, TypeOK', [Next]_vars PROVE Bounded'
  OBVIOUS
<1> DEFINE n == Cardinality(Working)
           p == IF at \in {"placed", "permitted"} THEN 1 ELSE 0
<1>1. /\ IsFiniteSet(Working) /\ n \in Nat
      /\ Len(log) \in Nat /\ Len(log)' \in Nat
      /\ written \in 0..Len(log) /\ written' \in 0..Len(log)'
      /\ AnswerBuffer \in Nat
      /\ (Len(log) - written) + (n + p) <= AnswerBuffer
  <2>1. log \in Seq(Answer) /\ log' \in Seq(Answer)
    BY DEF Inv, TypeOK, Answer
  <2>2. Len(log) \in Nat /\ Len(log)' \in Nat
    BY <2>1, LenProperties
  <2> QED
    BY <2>2, FS_CardinalityType, CallsAssumption DEF Inv, TypeOK, Bounded, Queued, Reserved
<1>2. ASSUME IsFiniteSet(Working'), (Len(log)' - written') + (n' + p') <= AnswerBuffer
      PROVE  Bounded'
  BY <1>2 DEF Bounded, Queued, Reserved
<1>3. ASSUME NEW i \in CallId, NEW v \in Verdict, Queue(i, v)
      PROVE  Len(log)' = Len(log) + 1
  BY <1>3, QueueType DEF Inv
<1>4. ASSUME {i \in CallId : worker'[i] # "none"} = Working PROVE Working' = Working
  BY <1>4 DEF Working
\* Steps that queue no answer, take no place and leave every worker where it is.
<1>5. ASSUME UNCHANGED log, written' = written, p' <= p, Working' = Working, p' \in {0, 1}
      PROVE  Bounded'
  BY <1>1, <1>2, <1>5
<1>6. CASE Reserve
  <2>1. Working' = Working /\ UNCHANGED written /\ p = 0 /\ current \in CallId
    BY <1>6 DEF Reserve, workVars, Working, Inv, TypeOK
  <2>2. CASE UNCHANGED log /\ at' = "violated"
    BY <1>5, <2>1, <2>2
  <2>3. CASE PlaceFree /\ at' = "reading" /\ Queue(current, "refused")
    <3>1. Len(log)' = Len(log) + 1
      BY <1>3, <2>1, <2>3 DEF Verdict
    <3>2. (Len(log) - written) + (n + p) < AnswerBuffer
      BY <2>3 DEF PlaceFree, Queued, Reserved
    <3>3. p' = 0
      BY <2>3
    <3> QED  BY <1>1, <1>2, <2>1, <3>1, <3>2, <3>3
  <2>4. CASE PlaceFree /\ at' = "placed" /\ UNCHANGED log
    <3>2. (Len(log) - written) + (n + p) < AnswerBuffer
      BY <2>4 DEF PlaceFree, Queued, Reserved
    <3>3. p' = 1
      BY <2>4
    <3> QED  BY <1>1, <1>2, <2>1, <2>4, <3>2, <3>3
  <2> QED  BY <1>6, <2>2, <2>3, <2>4 DEF Reserve
<1>7. CASE TakePermit
  <2>1. Working' = Working /\ UNCHANGED written /\ p = 1 /\ current \in CallId
    BY <1>7 DEF TakePermit, Working, Inv, TypeOK
  <2>2. CASE at' = "permitted" /\ UNCHANGED log
    BY <1>5, <2>1, <2>2
  <2>3. CASE at' = "reading" /\ Queue(current, "busy")
    <3>1. Len(log)' = Len(log) + 1 /\ p' = 0
      BY <1>3, <2>1, <2>3 DEF Verdict
    <3> QED  BY <1>1, <1>2, <2>1, <3>1
  <2> QED  BY <1>7, <2>2, <2>3 DEF TakePermit
<1>8. CASE Insert
  <2>1. p = 1 /\ p' = 0 /\ UNCHANGED <<log, written>> /\ current \in CallId
    BY <1>8 DEF Insert, Inv, TypeOK
  <2>2. CASE Admitting
    <3>1. worker' = [worker EXCEPT ![current] = "working"]
          /\ worker \in [CallId -> {"none", "working", "outcome", "cancelled",
                                    "released outcome", "released cancelled"}]
          /\ worker[current] = "none"
      BY <1>8, <2>1, <2>2 DEF Insert, Inv, TypeOK, Owned, Handling
    <3>2. Working' = Working \cup {current} /\ current \notin Working
      BY <2>1, <3>1 DEF Working
    <3>3. IsFiniteSet(Working') /\ n' = n + 1
      BY <1>1, <3>2, FS_AddElement
    <3> QED  BY <1>1, <1>2, <2>1, <3>3
  <2>3. CASE ~Admitting
    <3>1. Working' = Working
      BY <1>8, <2>3 DEF Insert, Working
    <3> QED  BY <1>5, <2>1, <3>1
  <2> QED  BY <2>2, <2>3
<1>9. CASE Signal
  <2>1. Working' = Working /\ p' = 0 /\ p \in {0, 1} /\ UNCHANGED <<log, written>>
    BY <1>9 DEF Signal, Working
  <2> QED  BY <1>5, <2>1
<1>10. ASSUME NEW i \in CallId, ReadCall(i) \/ ReadCancel(i) PROVE Bounded'
  <2>1. Working' = Working /\ p' = 0 /\ p = 0 /\ UNCHANGED <<log, written>>
    BY <1>10 DEF ReadCall, ReadCancel, Working, workVars
  <2> QED  BY <1>5, <2>1
<1>11. ASSUME NEW i \in CallId, Choose(i) \/ Release(i) PROVE Bounded'
  <2>1. UNCHANGED <<at, log, written>>
    BY <1>11 DEF Choose, Release, readerVars
  <2>2. p' = p /\ p \in {0, 1}
    BY <2>1
  <2>3. /\ worker \in [CallId -> {"none", "working", "outcome", "cancelled",
                                  "released outcome", "released cancelled"}]
        /\ worker[i] # "none" /\ worker'[i] # "none"
        /\ \A j \in CallId \ {i} : worker'[j] = worker[j]
    BY <1>11 DEF Choose, Release, Inv, TypeOK
  <2>4. Working' = Working
    BY <2>3 DEF Working
  <2> QED  BY <1>5, <2>1, <2>2, <2>4
<1>12. ASSUME NEW i \in CallId, Settle(i) PROVE Bounded'
  <2>1. UNCHANGED <<at, written>> /\ Queue(i, AnswerOf(i))
    BY <1>12 DEF Settle, readerVars
  <2>2. Len(log)' = Len(log) + 1
    BY <1>3, <2>1, AnswerType
  <2>3. /\ worker \in [CallId -> {"none", "working", "outcome", "cancelled",
                                  "released outcome", "released cancelled"}]
        /\ worker[i] # "none" /\ worker' = [worker EXCEPT ![i] = "none"]
    BY <1>12 DEF Settle, Inv, TypeOK
  <2>4. Working' = Working \ {i} /\ i \in Working
    BY <2>3 DEF Working
  <2>5. IsFiniteSet(Working') /\ n' = n - 1
    BY <1>1, <2>4, FS_RemoveElement
  <2>6. p' = p /\ p \in {0, 1}
    BY <2>1
  <2> QED  BY <1>1, <1>2, <2>1, <2>2, <2>5, <2>6
<1>13. ASSUME NEW i \in CallId, EndSignal(i) PROVE Bounded'
  <2>1. Working' = Working /\ UNCHANGED <<at, log, written>>
    BY <1>13 DEF EndSignal, Working, readerVars
  <2> QED  BY <1>5, <2>1
<1>14. CASE End
  <2>1. Working' = Working /\ UNCHANGED <<at, log, written>>
    BY <1>14 DEF End, Working, readerVars
  <2> QED  BY <1>5, <2>1
<1>15. CASE Write
  <2>1. Working' = Working /\ UNCHANGED <<at, log>> /\ written' = written + 1
    BY <1>15 DEF Write, Working, readerVars, workVars
  <2>2. p' = p /\ p \in {0, 1}
    BY <2>1
  <2> QED  BY <1>1, <1>2, <2>1, <2>2
<1>16. CASE UNCHANGED vars
  <2>1. Working' = Working /\ UNCHANGED <<at, log, written>>
    BY <1>16 DEF vars, Working, readerVars, workVars
  <2> QED  BY <1>5, <2>1
<1> QED
  BY <1>6, <1>7, <1>8, <1>9, <1>10, <1>11, <1>12, <1>13, <1>14, <1>15, <1>16
  DEF Next, Reader, Sidecar, Worker

-------------------------------------------------------------------------------
(* The invariant, and what follows from it.                                *)

LEMMA Invariance == Spec => []Inv
<1>1. Inv /\ [Next]_vars => Inv'
  <2> SUFFICES ASSUME Inv, [Next]_vars PROVE Inv'
    OBVIOUS
  <2>1. TypeOK'   BY TypeStep DEF Inv
  <2>2. Owned'    BY OwnedStep DEF Inv
  <2>3. History'  BY <2>2, HistoryStep
  <2>4. Bounded'  BY <2>1, BoundedStep
  <2> QED  BY <2>1, <2>2, <2>3, <2>4 DEF Inv
<1> QED  BY InitInv, <1>1, PTL DEF Spec

\* answer_call and Settle's task: an id may be reused while its earlier call is
\* worked on elsewhere, yet the answers leave in the order of the calls, at most
\* one to a call.
THEOREM AnswersComeInTurn == Spec => []AnswersInTurn
<1>1. Inv => AnswersInTurn
  BY DEF Inv, History
<1> QED  BY <1>1, Invariance, PTL

\* answer_call, handle and end: an answer says "cancelled" exactly when its call's
\* cancellation was taken (and a worker and its entry come and go together).
THEOREM CancelledAreAnswered == Spec => []CancelledIsAnswered
<1>1. ASSUME Inv PROVE CancelledIsAnswered
  <2>1. WorkersOwned
    BY <1>1 DEF Inv, Owned, WorkersOwned, InFlight, Working
  <2> QED  BY <1>1, <2>1 DEF Inv, History, CancelledIsAnswered
<1>2. Inv => CancelledIsAnswered
  BY <1>1
<1> QED  BY <1>2, Invariance, PTL

\* answer_call takes a place for every answer before it does anything else, so
\* ANSWER_BUFFER bounds what a sidecar that does not read can make the host keep.
THEOREM AnswersAreBounded == Spec => []AnswersBounded
<1>1. Inv => AnswersBounded
  BY DEF Inv, Bounded, AnswersBounded
<1> QED  BY <1>1, Invariance, PTL

\* answer_call: whoever is refused as busy has all its permits with calls that
\* are not answered, none with one whose answer the sidecar may have read.
THEOREM BusyWhenBusy == Spec => BusyIsTrue
<1>1. ASSUME Inv, [Next]_vars, NEW i \in CallId, at = "placed", at' = "reading"
      PROVE  Cardinality(InFlight) >= MaxCallbacks
  <2>1. TakePermit
    BY <1>1 DEF Next, Reader, Sidecar, Worker, Reserve, Insert, Signal, ReadCall, ReadCancel,
       Choose, Release, Settle, EndSignal, End, Write, readerVars, vars
  <2>2. ~(Cardinality(callbacks) < MaxCallbacks)
    BY <1>1, <2>1 DEF TakePermit
  <2>3. callbacks \subseteq Working /\ InFlight = Working /\ IsFiniteSet(Working)
    BY <1>1 DEF Inv, TypeOK, Owned, Bounded, Working, InFlight
  <2>4. /\ Cardinality(callbacks) <= Cardinality(InFlight)
        /\ Cardinality(callbacks) \in Nat /\ Cardinality(InFlight) \in Nat
    BY <2>3, FS_Subset, FS_CardinalityType
  <2> QED  BY <2>2, <2>4, CallsAssumption
<1>2. Inv /\ [Next]_vars =>
         [\A i \in CallId : at = "placed" /\ at' = "reading" =>
             Cardinality(InFlight) >= MaxCallbacks]_vars
  BY <1>1
<1> QED  BY <1>2, Invariance, PTL DEF Spec, BusyIsTrue
===============================================================================
