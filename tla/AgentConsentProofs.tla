-------------------------- MODULE AgentConsentProofs ---------------------------
(***************************************************************************)
(* Only a yes runs a gated call: an answer is taken once, by whoever finds *)
(* the request waiting, and what becomes of the call is what it says.  And *)
(* a request that may still be answered is before the person, or on its    *)
(* way there, until it is settled.                                         *)
(***************************************************************************)
EXTENDS AgentConsent, SequenceTheorems, FiniteSetTheorems, WellFoundedInduction, TLAPS

\* A request in the map waits and has no answer; a verdict is what a request
\* leaves with, and agrees with its answer; what has not ended has no record.
HostInv ==
    /\ HostTypeOK
    /\ \A c \in pending : Listening(c) /\ answer[c] = "none"
    /\ \A c \in Call :
          /\ verdict[c] # "none" <=> at[c] = "closing"
          /\ verdict[c] = "denied" => answer[c] = "no"
          /\ at[c] \in {"allowed", "running"} \/ verdict[c] = "approved" => answer[c] = "yes"
          /\ at[c] = "idle" => answer[c] = "none"
          /\ at[c] # "over" => records[c] = 0

\* What one call's caller does, and what is done to any of them from outside.
CallStep(c) ==
    \/ Ask(c) \/ Show(c) \/ Unshown(c) \/ Receive(c) \/ Elapse(c) \/ TimeOut(c)
    \/ Announce(c) \/ Run(c) \/ Refuse(c) \/ Finish(c) \/ Abandon(c)

TakeStep == \E calls \in SUBSET Call, said \in Word : Take(calls, said)

LEMMA CallStepInv == ASSUME HostInv, NEW c \in Call, CallStep(c) PROVE HostInv'
<1> USE DEF HostInv, HostTypeOK, Listening, Moves, Decides, Ends, Word
<1>1. CASE Ask(c)      BY <1>1 DEF Ask
<1>2. CASE Show(c)     BY <1>2 DEF Show
<1>3. CASE Unshown(c)  BY <1>3 DEF Unshown
<1>4. CASE Receive(c)  BY <1>4 DEF Receive
<1>5. CASE Elapse(c)   BY <1>5 DEF Elapse
<1>6. CASE TimeOut(c)  BY <1>6 DEF TimeOut
<1>7. CASE Announce(c)
  <2>1. CASE verdict[c] # "approved"
    <3>1. at' = [at EXCEPT ![c] = "over"]
      BY <1>7, <2>1 DEF Announce
    <3> QED  BY <1>7, <2>1, <3>1 DEF Announce
  <2>2. CASE verdict[c] = "approved"
    <3>1. \E next \in {"allowed", "running"} : at' = [at EXCEPT ![c] = next]
      BY <1>7, <2>2 DEF Announce
    <3>2. records' = records
      BY <1>7, <2>2 DEF Announce
    <3> QED  BY <1>7, <2>2, <3>1, <3>2 DEF Announce
  <2> QED  BY <2>1, <2>2
<1>8. CASE Run(c)      BY <1>8 DEF Run
<1>9. CASE Refuse(c)   BY <1>9 DEF Refuse
<1>10. CASE Finish(c)  BY <1>10 DEF Finish
<1>11. CASE Abandon(c) BY <1>11 DEF Abandon
<1> QED
  BY <1>1, <1>2, <1>3, <1>4, <1>5, <1>6, <1>7, <1>8, <1>9, <1>10, <1>11 DEF CallStep

LEMMA TakeStepInv == ASSUME HostInv, TakeStep PROVE HostInv'
BY DEF TakeStep, Take, HostInv, HostTypeOK, Listening, Word

-------------------------------------------------------------------------------
(* What a step of the host is to ConsentGate.                              *)

\* A step of one call leaves the fate of the others; so the fates are those
\* there were, but for its own.
LEMMA OtherFates ==
    ASSUME NEW c \in Call, HostTypeOK,
           \A d \in Call \ {c} : at'[d] = at[d] /\ verdict'[d] = verdict[d]
    PROVE  [d \in Call |-> Fate(d)]' = [[d \in Call |-> Fate(d)] EXCEPT ![c] = Fate(c)']
<1>1. \A d \in Call \ {c} : Fate(d)' = Fate(d)
  BY DEF Fate, Over
<1> QED  BY <1>1

\* The fate of a call follows where it is and what it left ask with.
LEMMA FateIs ==
    ASSUME HostInv, NEW c \in Call
    PROVE  /\ at[c] = "idle" => Fate(c) = "new"
           /\ Listening(c) => Fate(c) = "asked"
           /\ at[c] = "closing" =>
                 Fate(c) = IF verdict[c] = "approved" THEN "allowed" ELSE "asked"
           /\ at[c] \in {"allowed", "running", "over"} => Fate(c) = at[c]
BY DEF HostInv, HostTypeOK, Fate, Over, Listening

\* Each step of a call is one of the gate, or nothing to it.
LEMMA CallStepGate ==
    ASSUME HostInv, NEW c \in Call, CallStep(c)
    PROVE  [Gate!Next]_(Gate!vars)
<1> DEFINE fates == [d \in Call |-> Fate(d)]
<1>1. HostInv'
  BY CallStepInv
<1>2. \A d \in Call \ {c} : at'[d] = at[d] /\ verdict'[d] = verdict[d]
  BY DEF HostInv, HostTypeOK, CallStep, Ask, Show, Unshown, Receive, Elapse, TimeOut,
         Announce, Run, Refuse, Finish, Abandon, Moves, Decides, Ends
<1>3. fates' = [fates EXCEPT ![c] = Fate(c)']
  BY <1>2, OtherFates DEF HostInv
<1>4. fates[c] = Fate(c)
  OBVIOUS
<1>5. /\ at'[c] = "closing" =>
            Fate(c)' = IF verdict'[c] = "approved" THEN "allowed" ELSE "asked"
      /\ at'[c] \in {"asking", "waiting", "elapsed"} => Fate(c)' = "asked"
      /\ at'[c] \in {"allowed", "running", "over"} => Fate(c)' = at'[c]
  BY <1>1, FateIs DEF HostInv, HostTypeOK, Fate, Over
<1> HIDE DEF fates
<1>6. ASSUME Fate(c)' = Fate(c), UNCHANGED <<answer, records>>
      PROVE  UNCHANGED Gate!vars
  <2>1. fates' = fates
    BY <1>3, <1>4, <1>6 DEF fates
  <2> QED  BY <2>1, <1>6 DEF Gate!vars, fates
<1>7. ASSUME NEW from, NEW to, Fate(c) \in from, Fate(c)' = to
      PROVE  Gate!Moves(c, from, to)
  BY <1>3, <1>4, <1>7 DEF Gate!Moves, fates
<1> USE FateIs DEF HostInv, HostTypeOK, Listening, Moves, Decides, Ends
<1>8. CASE Ask(c)
  <2>1. Gate!Moves(c, {"new"}, "asked")
    BY <1>5, <1>7, <1>8 DEF Ask
  <2> QED  BY <2>1, <1>8 DEF Ask, Gate!Ask, Gate!Next
<1>9. CASE Show(c) \/ Unshown(c) \/ Elapse(c) \/ TimeOut(c)
  <2>1. Fate(c)' = Fate(c) /\ UNCHANGED <<answer, records>>
    BY <1>5, <1>9 DEF Show, Unshown, Elapse, TimeOut
  <2> QED  BY <2>1, <1>6
<1>10. CASE Receive(c)
  <2>1. CASE answer[c] = "yes"
    <3>1. Gate!Moves(c, {"asked"}, "allowed")
      BY <1>5, <1>7, <1>10, <2>1 DEF Receive
    <3> QED  BY <3>1, <1>10, <2>1 DEF Receive, Gate!Allow, Gate!Settle, Gate!Next
  <2>2. CASE answer[c] # "yes"
    <3>1. Fate(c)' = Fate(c) /\ UNCHANGED <<answer, records>>
      BY <1>5, <1>10, <2>2 DEF Receive
    <3> QED  BY <3>1, <1>6
  <2> QED  BY <2>1, <2>2
<1>11. CASE Announce(c)
  <2>1. CASE verdict[c] = "approved" /\ c \in Chat
    <3>1. Fate(c)' = Fate(c) /\ UNCHANGED <<answer, records>>
      BY <1>5, <1>11, <2>1 DEF Announce
    <3> QED  BY <3>1, <1>6
  <2>2. CASE verdict[c] = "approved" /\ c \notin Chat
    <3>1. Gate!Moves(c, {"allowed"}, "running") /\ UNCHANGED <<answer, records>>
      BY <1>5, <1>7, <1>11, <2>2 DEF Announce
    <3> QED  BY <3>1 DEF Gate!Run, Gate!Settle, Gate!Next
  <2>3. CASE verdict[c] = "dropped"
    <3>1. Gate!Moves(c, {"asked", "allowed"}, "over") /\ UNCHANGED <<answer, records>>
      BY <1>5, <1>7, <1>11, <2>3 DEF Announce
    <3> QED  BY <3>1 DEF Gate!Withdraw, Gate!Settle, Gate!Next
  <2>4. CASE verdict[c] \notin {"approved", "dropped"}
    <3>1. Gate!Moves(c, {"asked", "allowed"}, "over")
      BY <1>5, <1>7, <1>11, <2>4 DEF Announce
    <3>2. records[c] = 0 /\ records' = [records EXCEPT ![c] = 1] /\ UNCHANGED answer
      BY <1>11, <2>4 DEF Announce
    <3> QED  BY <3>1, <3>2 DEF Gate!Refuse, Gate!Recorded, Gate!Settle, Gate!Next
  <2> QED  BY <2>1, <2>2, <2>3, <2>4
<1>12. CASE Run(c)
  <2>1. Gate!Moves(c, {"allowed"}, "running") /\ UNCHANGED <<answer, records>>
    BY <1>5, <1>7, <1>12 DEF Run
  <2> QED  BY <2>1 DEF Gate!Run, Gate!Settle, Gate!Next
<1>13. CASE Refuse(c)
  <2>1. Gate!Moves(c, {"asked", "allowed"}, "over")
    BY <1>5, <1>7, <1>13 DEF Refuse
  <2>2. at[c] = "allowed" /\ records' = [records EXCEPT ![c] = records[c] + 1] /\ UNCHANGED answer
    BY <1>13 DEF Refuse
  <2>3. records[c] = 0 /\ records[c] + 1 = 1
    BY <2>2
  <2> QED  BY <2>1, <2>2, <2>3 DEF Gate!Refuse, Gate!Recorded, Gate!Settle, Gate!Next
<1>14. CASE Ends(c, "running", 1)
  <2>1. Gate!Moves(c, {"running"}, "over")
    BY <1>5, <1>7, <1>14
  <2>2. at[c] = "running" /\ records' = [records EXCEPT ![c] = records[c] + 1] /\ UNCHANGED answer
    BY <1>14
  <2>3. records[c] = 0 /\ records[c] + 1 = 1
    BY <2>2
  <2> QED  BY <2>1, <2>2, <2>3 DEF Gate!Finish, Gate!Recorded, Gate!Settle, Gate!Next
<1>15. CASE Abandon(c) /\ ~Ends(c, "running", 1)
  <2>1. CASE Decides(c, "waiting", "dropped")
    <3>1. Fate(c)' = Fate(c) /\ UNCHANGED <<answer, records>>
      BY <1>5, <2>1
    <3> QED  BY <3>1, <1>6
  <2>2. CASE Ends(c, "allowed", 0)
    <3>1. Gate!Moves(c, {"asked", "allowed"}, "over") /\ UNCHANGED <<answer, records>>
      BY <1>5, <1>7, <2>2
    <3> QED  BY <3>1 DEF Gate!Withdraw, Gate!Settle, Gate!Next
  <2>3. CASE c \in Chat /\ Ends(c, "running", 0)
    <3>1. Gate!Moves(c, {"running"}, "over") /\ UNCHANGED <<answer, records>>
      BY <1>5, <1>7, <2>3
    <3> QED  BY <3>1, <2>3 DEF Gate!Lose, Gate!Settle, Gate!Next
  <2> QED  BY <1>15, <2>1, <2>2, <2>3 DEF Abandon
<1> QED
  BY <1>8, <1>9, <1>10, <1>11, <1>12, <1>13, <1>14, <1>15 DEF CallStep, Finish

\* An answer that is taken is one the gate hears; one that finds nothing is none.
LEMMA TakeStepGate == ASSUME HostInv, TakeStep PROVE [Gate!Next]_(Gate!vars)
<1>1. PICK calls \in SUBSET Call, said \in Word : Take(calls, said)
  BY DEF TakeStep
<1> DEFINE taken == calls \cap pending
<1>2. \A c \in taken : Fate(c) = "asked" /\ answer[c] = "none"
  BY FateIs DEF HostInv, HostTypeOK
<1>3. answer' = [c \in Call |-> IF c \in taken THEN said ELSE answer[c]]
  BY <1>1 DEF Take, HostInv
<1>4. [c \in Call |-> Fate(c)]' = [c \in Call |-> Fate(c)] /\ records' = records
  BY <1>1 DEF Take, Fate, Over
<1>5. taken \in SUBSET Call /\ said \in {"yes", "no"}
  BY DEF Word, HostInv, HostTypeOK
<1>6. Gate!Speak(taken, said)
  BY <1>2, <1>3, <1>4, <1>5 DEF Gate!Speak
<1> QED  BY <1>5, <1>6 DEF Gate!Next

-------------------------------------------------------------------------------
(* The host beside the window.                                             *)

\* Each step of the two is one of a call, an answer, or none of the host's.
LEMMA HostSteps ==
    ASSUME HostInv, Next
    PROVE  (\E c \in Call : CallStep(c)) \/ TakeStep \/ UNCHANGED host
<1>1. ASSUME NEW c \in Call, Caller(c)
      PROVE  CallStep(c)
  BY <1>1 DEF Caller, CallStep
<1>2. ASSUME NEW c \in Call, Outside(c)
      PROVE  CallStep(c) \/ TakeStep
  <2>1. CASE Abandon(c)
    BY <2>1 DEF CallStep
  <2>2. CASE DenyChat(c)
    BY <2>2 DEF DenyChat, TakeStep, Word
  <2>3. CASE DenyAll
    BY <2>3 DEF DenyAll, TakeStep, Word, HostInv, HostTypeOK
  <2> QED  BY <1>2, <2>1, <2>2, <2>3 DEF Outside
<1>3. ASSUME NEW c \in Call, NEW said \in Word, Respond(c, said)
      PROVE  TakeStep
  BY <1>3 DEF Respond, TakeStep
<1> QED
  BY <1>1, <1>2, <1>3
  DEF Next, HearResolutions, HearRequests, Snapshot, Replay, Hear, Press, Answered,
      Cover, RefuseAll, Reload

LEMMA HostInvInit == Init => HostInv /\ Gate!Init
<1> SUFFICES ASSUME Init PROVE HostInv /\ Gate!Init
  OBVIOUS
<1>1. HostInv
  BY DEF Init, HostInit, HostInv, HostTypeOK, Listening, Word
<1>2. \A c \in Call : Fate(c) = "new"
  BY <1>1, FateIs DEF Init, HostInit
<1>3. [c \in Call |-> Fate(c)] = [c \in Call |-> "new"]
  BY <1>2
<1> QED  BY <1>1, <1>3 DEF Gate!Init, Init, HostInit

LEMMA HostInvNext == HostInv /\ [Next]_vars => HostInv' /\ [Gate!Next]_(Gate!vars)
<1> SUFFICES ASSUME HostInv, [Next]_vars PROVE HostInv' /\ [Gate!Next]_(Gate!vars)
  OBVIOUS
<1>1. CASE \E c \in Call : CallStep(c)
  BY <1>1, CallStepInv, CallStepGate
<1>2. CASE TakeStep
  BY <1>2, TakeStepInv, TakeStepGate
<1>3. CASE UNCHANGED host
  <2>1. HostInv'
    BY <1>3 DEF host, HostInv, HostTypeOK, Listening
  <2>2. \A c \in Call : Fate(c)' = Fate(c)
    BY <1>3 DEF host, Fate, Over
  <2>3. [c \in Call |-> Fate(c)]' = [c \in Call |-> Fate(c)]
    BY <2>2
  <2> QED  BY <1>3, <2>1, <2>3 DEF host, Gate!vars
<1> QED  BY <1>1, <1>2, <1>3, HostSteps DEF vars

\* Whatever the window, the callers and the person do, a gated call goes the way
\* ConsentGate promises: asked first, run only after a yes, recorded once, and
\* taken down unrecorded only where the gate allows it (broker.rs serve,
\* stdio.rs tools/call, mcp_confirm.rs ask).  The gate's safety: that a call is
\* settled at last is the runs'.
THEOREM GateSafe == Spec => Gate!Init /\ [][Gate!Next]_(Gate!vars)
<1>1. Spec => []HostInv
  BY HostInvInit, HostInvNext, PTL DEF Spec
<1> QED  BY <1>1, HostInvInit, HostInvNext, PTL DEF Spec

-------------------------------------------------------------------------------
(* What the person was told.                                               *)

ToldInv == \A c \in Call, said \in Word : busy = <<c, said, "landed">> => answer[c] = said

\* An answer, once given, stays.
LEMMA AnswersStay ==
    ASSUME HostInv, [Next]_vars
    PROVE  \A c \in Call : answer[c] # "none" => answer'[c] = answer[c]
<1>1. CASE \E c \in Call : CallStep(c)
  BY <1>1
  DEF CallStep, Ask, Show, Unshown, Receive, Elapse, TimeOut, Announce, Run, Refuse,
      Finish, Abandon, Moves, Decides, Ends
<1>2. CASE TakeStep
  BY <1>2 DEF TakeStep, Take, HostInv
<1> QED  BY <1>1, <1>2, HostSteps DEF vars, host

LEMMA ToldInvNext == HostInv /\ ToldInv /\ [Next]_vars => ToldInv'
<1> SUFFICES ASSUME HostInv, ToldInv, [Next]_vars,
                    NEW c \in Call, NEW said \in Word, busy' = <<c, said, "landed">>
             PROVE  answer'[c] = said
  BY DEF ToldInv
<1>1. CASE busy = <<c, said, "landed">>
  BY <1>1, AnswersStay DEF ToldInv, Word
<1>2. CASE busy # <<c, said, "landed">>
  <2>1. PICK d \in Call, spoken \in Word : Respond(d, spoken)
    <3> USE <1>2 DEF NoAnswer
    <3>1. ~(\E d \in Call : Caller(d) \/ Outside(d))
      BY DEF Caller, Outside, voice
    <3>2. ~(HearResolutions \/ HearRequests \/ Snapshot \/ Replay \/ Hear)
      BY DEF HearResolutions, HearRequests, Snapshot, Replay, Hear, voice
    <3>3. ~(\E word \in Word : Press(word))
      BY DEF Press
    <3>4. ~(Answered \/ Cover \/ RefuseAll \/ Reload)
      BY DEF Answered, Cover, RefuseAll, Reload, voice
    <3>5. Next
      BY DEF vars, voice
    <3> QED  BY <3>1, <3>2, <3>3, <3>4, <3>5 DEF Next
  <2>2. busy = <<d, spoken, "sent">> /\ d \in pending /\ Listening(d) /\ d = c /\ spoken = said
    BY <1>2, <2>1 DEF Respond
  <2> QED  BY <2>1, <2>2 DEF Respond, Take
<1> QED  BY <1>1, <1>2

\* The answer the person was told has landed is the answer the call was given,
\* and what runs was allowed: no later answer, refusal from outside, reload or
\* second prompt changes it (mcp_confirm.rs resolve, AgentConsent.tsx:488-492).
THEOREM AnswersHold == Spec => []AnswerStands
<1>1. Init => HostInv /\ ToldInv
  BY HostInvInit DEF Init, ToldInv, NoAnswer
<1>2. HostInv /\ ToldInv => AnswerStands
  BY DEF HostInv, ToldInv, AnswerStands
<1> QED  BY <1>1, <1>2, HostInvNext, ToldInvNext, PTL DEF Spec

-------------------------------------------------------------------------------
(* Sequences as the queue and the wire use them.                           *)

\* The naturals have no endless descent, and so every set of them a least one.
LEMMA LessIsWellFounded ==
    \E R : IsWellFoundedOn(R, Nat) /\ \A x, y \in Nat : x < y => <<x, y>> \in R
<1>1. \A x, y \in Nat : x < y => <<x, y>> \in OpToRel(<, Nat)
  BY DEF OpToRel
<1> QED  BY <1>1, NatLessThanWellFounded

LEMMA LeastNat ==
    ASSUME NEW T, T \subseteq Nat, T # {}
    PROVE  \E x \in T : \A y \in T : x <= y
<1>1. PICK R : IsWellFoundedOn(R, Nat) /\ \A x, y \in Nat : x < y => <<x, y>> \in R
  BY LessIsWellFounded
<1>2. IsWellFoundedOn(R, Nat)
  BY <1>1
<1>3. \A x, y \in Nat : x < y => <<x, y>> \in R
  BY <1>1
<1>4. \E x \in T : \A y \in T : ~(<<y, x>> \in R)
  BY <1>2, WFMin
<1>5. PICK x \in T : \A y \in T : ~(<<y, x>> \in R)
  BY <1>4
<1>6. \A y \in T : ~(y < x)
  BY <1>3, <1>5
<1> QED  BY <1>6

\* Induction up to a bound, on the set of the numbers it holds for.
LEMMA Induction ==
    ASSUME NEW N \in Nat, NEW S, 0 \in S, \A n \in 0..N : n \in S /\ n < N => n + 1 \in S
    PROVE  0..N \subseteq S
<1> DEFINE T == (0..N) \ S
<1>1. SUFFICES ASSUME T # {} PROVE FALSE
  OBVIOUS
<1>2. PICK x \in T : \A y \in T : x <= y
  <2>1. T \subseteq Nat
    OBVIOUS
  <2> HIDE DEF T
  <2> QED BY <1>1, <2>1, LeastNat
<1>3. x # 0 /\ x - 1 \in 0..N /\ x - 1 \in S
  BY <1>2
<1> QED  BY <1>2, <1>3

LEMMA AppendIs ==
    ASSUME NEW S, NEW s \in Seq(S), NEW e \in S
    PROVE  Append(s, e) \in Seq(S) /\ ToSet(Append(s, e)) = ToSet(s) \cup {e}
<1> DEFINE t == Append(s, e)
<1>1. /\ t \in Seq(S) /\ Len(t) = Len(s) + 1 /\ Len(s) \in Nat
      /\ \A i \in 1..Len(s) : t[i] = s[i]
      /\ t[Len(s) + 1] = e
  BY AppendProperties, LenProperties
<1> HIDE DEF t
<1>2. DOMAIN t = 1..(Len(s) + 1) /\ DOMAIN s = 1..Len(s)
  BY <1>1, LenProperties
<1>3. {t[i] : i \in 1..(Len(s) + 1)} = {s[i] : i \in 1..Len(s)} \cup {e}
  <2>1. \A i \in 1..(Len(s) + 1) : i \in 1..Len(s) \/ i = Len(s) + 1
    BY <1>1
  <2>2. \A i \in 1..Len(s) : i \in 1..(Len(s) + 1)
    BY <1>1
  <2>3. Len(s) + 1 \in 1..(Len(s) + 1)
    BY <1>1
  <2> QED  BY <1>1, <2>1, <2>2, <2>3
<1>4. ToSet(t) = ToSet(s) \cup {e}
  BY <1>2, <1>3 DEF ToSet
<1> QED  BY <1>1, <1>4 DEF t

\* Without c a queue has every other call it had.
LEMMA WithoutIs ==
    ASSUME NEW S, NEW q \in Seq(S), NEW c
    PROVE  /\ Without(q, c) \in Seq(S)
           /\ ToSet(Without(q, c)) = ToSet(q) \ {c}
<1> DEFINE N == Len(q)
           Step(k, n) == IF n = 0 THEN <<>>
                         ELSE IF q[n] = c THEN k[n - 1] ELSE Append(k[n - 1], q[n])
           kept == CHOOSE k : k = [n \in 0..N |-> Step(k, n)]
<1>1. N \in Nat /\ DOMAIN q = 1..N
  BY LenProperties
<1>2. \E k : k = [n \in 0..N |-> Step(k, n)]
  <2> DEFINE P == {m \in 0..N : \E k : k = [n \in 0..m |-> Step(k, n)]}
  <2>1. 0 \in P
    <3>1. [n \in 0..0 |-> <<>>] = [n \in 0..0 |-> Step([i \in 0..0 |-> <<>>], n)]
      BY <1>1
    <3> HIDE DEF Step
    <3> QED  BY <1>1, <3>1
  <2>2. ASSUME NEW m \in 0..N, m \in P, m < N PROVE m + 1 \in P
    <3>1. PICK k : k = [n \in 0..m |-> Step(k, n)]
      BY <2>2
    <3> DEFINE l == [n \in 0..(m + 1) |-> IF n <= m THEN k[n] ELSE Step(k, n)]
    <3>2. \A n \in 0..(m + 1) : Step(l, n) = Step(k, n)
      BY <1>1, <2>2
    <3>3. \A n \in 0..m : k[n] = Step(k, n)
      BY <3>1
    <3> HIDE DEF Step
    <3>4. l = [n \in 0..(m + 1) |-> Step(l, n)]
      BY <1>1, <2>2, <3>2, <3>3
    <3> HIDE DEF l
    <3> QED  BY <1>1, <2>2, <3>4
  <2> HIDE DEF P
  <2>3. 0..N \subseteq P
    BY <1>1, <2>1, <2>2, Induction
  <2>4. N \in P
    BY <1>1, <2>3
  <2> QED  BY <2>4 DEF P
<1>3. kept = [n \in 0..N |-> Step(kept, n)]
  <2> HIDE DEF Step
  <2> QED  BY <1>2
<1>4. Without(q, c) = kept[N]
  BY DEF Without
<1> HIDE DEF kept
<1>5. /\ kept[0] = <<>>
      /\ \A n \in 0..N :
            n < N => kept[n + 1] = IF q[n + 1] = c THEN kept[n] ELSE Append(kept[n], q[n + 1])
  <2>1. \A n \in 0..N : kept[n] = Step(kept, n)
    <3> HIDE DEF kept, Step
    <3> QED  BY <1>3
  <2> HIDE DEF kept
  <2> QED  BY <1>1, <2>1
<1> DEFINE Elems(n) == {q[i] : i \in 1..n} \ {c}
           Q == {n \in 0..N : kept[n] \in Seq(S) /\ ToSet(kept[n]) = Elems(n)}
<1> HIDE DEF N
<1>6. 0 \in Q
  <2>1. kept[0] \in Seq(S) /\ ToSet(kept[0]) = {}
    BY <1>5 DEF ToSet
  <2>2. Elems(0) = {}
    OBVIOUS
  <2>3. 0 \in 0..N
    BY <1>1
  <2>4. ToSet(kept[0]) = Elems(0)
    BY <2>1, <2>2
  <2> HIDE DEF Elems
  <2> QED  BY <2>1, <2>3, <2>4
<1>7. ASSUME NEW n \in 0..N, n \in Q, n < N PROVE n + 1 \in Q
  <2>1. q[n + 1] \in S /\ n + 1 \in 0..N
    BY <1>1, <1>7
  <2>2. Elems(n + 1) = (Elems(n) \cup {q[n + 1]}) \ {c}
    BY <1>7
  <2>3. CASE q[n + 1] = c
    <3>1. kept[n + 1] = kept[n] /\ Elems(n + 1) = Elems(n)
      BY <1>5, <1>7, <2>2, <2>3
    <3> QED  BY <1>7, <2>1, <3>1
  <2>4. CASE q[n + 1] # c
    <3>1. kept[n + 1] = Append(kept[n], q[n + 1]) /\ kept[n] \in Seq(S)
      BY <1>5, <1>7, <2>4
    <3>2. kept[n + 1] \in Seq(S) /\ ToSet(kept[n + 1]) = ToSet(kept[n]) \cup {q[n + 1]}
      BY <2>1, <3>1, AppendIs
    <3>3. ToSet(kept[n]) = Elems(n)
      BY <1>7
    <3> HIDE DEF Elems
    <3> QED  BY <2>1, <2>2, <2>4, <3>2, <3>3 DEF Elems
  <2> QED  BY <2>3, <2>4
<1> HIDE DEF Q
<1>8. N \in Q
  BY <1>1, <1>6, <1>7, Induction
<1>9. Elems(N) = ToSet(q) \ {c}
  BY <1>1 DEF ToSet
<1> QED  BY <1>4, <1>8, <1>9 DEF Q

LEMMA ConcatIs ==
    ASSUME NEW S, NEW s \in Seq(S), NEW t \in Seq(S)
    PROVE  s \o t \in Seq(S) /\ ToSet(s \o t) = ToSet(s) \cup ToSet(t)
<1>1. /\ s \o t \in Seq(S) /\ Len(s \o t) = Len(s) + Len(t) /\ Len(s) \in Nat /\ Len(t) \in Nat
      /\ \A i \in 1..Len(s) + Len(t) : (s \o t)[i] = IF i <= Len(s) THEN s[i] ELSE t[i - Len(s)]
  BY ConcatProperties, LenProperties
<1>2. ASSUME NEW x \in ToSet(s \o t) PROVE x \in ToSet(s) \cup ToSet(t)
  BY <1>1, LenProperties DEF ToSet
<1>3. ASSUME NEW x \in ToSet(s) PROVE x \in ToSet(s \o t)
  BY <1>1, LenProperties DEF ToSet
<1>4. ASSUME NEW x \in ToSet(t) PROVE x \in ToSet(s \o t)
  <2>1. PICK i \in 1..Len(t) : x = t[i]
    BY LenProperties DEF ToSet
  <2>2. i + Len(s) \in 1..Len(s \o t) /\ (s \o t)[i + Len(s)] = x
    BY <1>1, <2>1
  <2> QED  BY <1>1, <2>2, LenProperties DEF ToSet
<1> QED  BY <1>1, <1>2, <1>3, <1>4

LEMMA TailIs ==
    ASSUME NEW S, NEW s \in Seq(S), s # <<>>
    PROVE  /\ Head(s) \in S /\ Tail(s) \in Seq(S)
           /\ ToSet(s) = ToSet(Tail(s)) \cup {Head(s)}
<1>1. /\ Head(s) \in S /\ Tail(s) \in Seq(S) /\ Head(s) = s[1]
      /\ Len(s) \in Nat /\ Len(s) > 0 /\ Len(Tail(s)) = Len(s) - 1
      /\ \A i \in 1..(Len(s) - 1) : Tail(s)[i] = s[i + 1]
      /\ DOMAIN s = 1..Len(s) /\ DOMAIN Tail(s) = 1..(Len(s) - 1)
  BY HeadTailProperties, LenProperties, EmptySeq
<1>2. ASSUME NEW i \in 1..Len(s), i # 1 PROVE s[i] \in ToSet(Tail(s))
  <2>1. i - 1 \in 1..(Len(s) - 1) /\ Tail(s)[i - 1] = s[i]
    BY <1>1, <1>2
  <2> QED  BY <1>1, <2>1 DEF ToSet
<1>3. ASSUME NEW i \in 1..(Len(s) - 1) PROVE Tail(s)[i] \in ToSet(s)
  BY <1>1 DEF ToSet
<1>4. s[1] \in ToSet(s)
  BY <1>1 DEF ToSet
<1> QED  BY <1>1, <1>2, <1>3, <1>4 DEF ToSet

LEMMA EmptyIs == \A S : <<>> \in Seq(S) /\ ToSet(<<>>) = {}
BY DEF ToSet

\* The orders the requests of a snapshot may be merged in have them all.
LEMMA OrderIs ==
    ASSUME NEW S, IsFiniteSet(S), NEW s \in SetToSeqs(S)
    PROVE  s \in Seq(S) /\ ToSet(s) = S
<1> DEFINE n == Cardinality(S)
<1>1. n \in Nat /\ s \in [1..n -> S] /\ \A i, j \in 1..n : i # j => s[i] # s[j]
  BY FS_CardinalityType DEF SetToSeqs
<1>2. s \in Injection(1..n, S)
  BY <1>1 DEF Injection, IsInjective
<1>3. Cardinality(1..n) = n
  BY <1>1, FS_Interval
<1>4. s \in Surjection(1..n, S)
  BY <1>2, <1>3, FS_Injection
<1>5. s \in Seq(S)
  BY <1>1
<1> QED  BY <1>1, <1>4, <1>5 DEF Surjection, ToSet

-------------------------------------------------------------------------------
(* The window beside the host.                                             *)

Asked(c) == at[c] = "waiting" /\ answer[c] = "none"
OnWire(what, c) == <<what, c>> \in ToSet(wire)

\* A request is on the wire before what takes it down.
InOrder(w) ==
    \A c \in Call : \A j, k \in DOMAIN w :
        w[j] = <<"resolved", c>> /\ w[k] = <<"request", c>> => k < j

\* What is known of a call: who waits is in the map, and what was heard or is on
\* its way has happened.
KnownIs(c) ==
    /\ Listening(c) /\ answer[c] = "none" => c \in pending
    /\ c \in settled => Over(c)
    /\ OnWire("resolved", c) => Over(c)
    /\ OnWire("request", c) => at[c] \notin {"idle", "asking"}

\* A request that waits is on the queue or on its way there, or being answered.
SeenIs(c) ==
    Asked(c) =>
        \/ c \in ToSet(queue) \/ OnWire("request", c)
        \/ fetch \in {"no", "asked", "failed"}
        \/ fetch = "replied" /\ c \in snapshot \ settled
        \/ \E said \in Word : <<c, said>> \in posts

\* A prompt for a call that is over has the event that ends it behind it.
DeadIs(c) ==
    Over(c) =>
        /\ c \in ToSet(queue) \/ OnWire("request", c) => OnWire("resolved", c)
        /\ fetch = "replied" /\ c \in snapshot \ settled => OnWire("resolved", c)

\* The read of what waits is asked for once both listeners have landed; before
\* that nothing is on the queue, nor a request on the wire.
ListenIs ==
    /\ hearing \in {{}, {"resolved"}, {"request", "resolved"}}
    /\ "request" \notin hearing =>
          /\ fetch = "no" /\ queue = <<>>
          /\ \A c \in Call : ~OnWire("request", c)
    /\ hearing = {} => wire = <<>>
    /\ "request" \in hearing => fetch # "no"
    /\ fetch # "replied" => snapshot = {}
    /\ IsFiniteSet(pending) /\ IsFiniteSet(snapshot)

\* The host, the window, and what is between them.
PromptInv ==
    /\ HostInv /\ ToldInv /\ TypeOK
    /\ ListenIs /\ InOrder(wire)
    /\ \A c \in Call : KnownIs(c) /\ SeenIs(c) /\ DeadIs(c)

LEMMA PromptInvMatch == PromptInv => PromptsMatch
BY DEF PromptInv, PromptsMatch, AskedIsSeen, NoDeadPrompt, SeenIs, DeadIs, Asked, OnWire

LEMMA PromptInvInit == Init => PromptInv
<1> SUFFICES ASSUME Init PROVE PromptInv
  OBVIOUS
<1>1. HostInv /\ ToldInv
  BY HostInvInit DEF Init, ToldInv, NoAnswer
<1>2. TypeOK
  <2>1. queue \in Seq(Call) /\ wire \in Seq({"request", "resolved"} \X Call)
    BY EmptySeq DEF Init
  <2>2. upsets \in 0..MaxUpsets
    BY UpsetAssumption DEF Init
  <2> QED  BY <1>1, <2>1, <2>2 DEF Init, TypeOK, HostInv
<1>3. ToSet(wire) = {} /\ ToSet(queue) = {}
  BY EmptyIs DEF Init
<1>4. ListenIs /\ InOrder(wire)
  BY <1>3, FS_EmptySet DEF Init, HostInit, ListenIs, InOrder, OnWire
<1>5. ASSUME NEW c \in Call PROVE KnownIs(c) /\ SeenIs(c) /\ DeadIs(c)
  BY <1>3 DEF Init, HostInit, KnownIs, SeenIs, DeadIs, Asked, OnWire, Over, Listening
<1> QED  BY <1>1, <1>2, <1>4, <1>5 DEF PromptInv

\* A step of the host: it leaves the queue and what was read alone, and whatever
\* it says on the wire it says in order.
LEMMA HostStepPrompt ==
    ASSUME PromptInv, HostInv', ToldInv', TypeOK',
           UNCHANGED <<hearing, fetch, snapshot, settled, queue>>,
           IsFiniteSet(pending'),
           hearing = {} => wire' = <<>>,
           "request" \notin hearing => \A c \in Call : ~OnWire("request", c)',
           InOrder(wire'),
           ASSUME NEW c \in Call
           PROVE  /\ KnownIs(c)'
                  /\ OnWire("request", c) => OnWire("request", c)'
                  /\ OnWire("resolved", c) => OnWire("resolved", c)'
                  /\ OnWire("request", c)' /\ Over(c)' => OnWire("request", c)
                  /\ Over(c)' /\ ~Over(c) /\ hearing # {} => OnWire("resolved", c)'
                  /\ Asked(c)' => \/ Asked(c)
                                  \/ "request" \notin hearing \/ OnWire("request", c)'
                  /\ Asked(c)' => \A said \in Word :
                        <<c, said>> \in posts => <<c, said>> \in posts'
    PROVE  PromptInv'
<1>1. ListenIs'
  BY DEF PromptInv, ListenIs
<1>2. ASSUME NEW c \in Call PROVE SeenIs(c)'
  BY DEF PromptInv, SeenIs, ListenIs
<1>3. ASSUME NEW c \in Call PROVE DeadIs(c)'
  <2>1. CASE hearing = {}
    <3>1. ToSet(queue) = {} /\ fetch = "no" /\ ~OnWire("request", c)'
      BY <2>1, EmptyIs DEF PromptInv, ListenIs
    <3> QED  BY <3>1 DEF DeadIs
  <2>2. CASE hearing # {}
    BY <2>2 DEF PromptInv, DeadIs
  <2> QED  BY <2>1, <2>2
<1> QED  BY <1>1, <1>2, <1>3 DEF PromptInv

\* The wire stays in order when an event goes onto it: no request after its end.
LEMMA AppendInOrder ==
    ASSUME NEW w \in Seq({"request", "resolved"} \X Call), InOrder(w),
           NEW what \in {"request", "resolved"}, NEW c \in Call,
           what = "request" => <<"resolved", c>> \notin ToSet(w)
    PROVE  InOrder(Append(w, <<what, c>>))
<1> DEFINE e == <<what, c>>  v == Append(w, e)
<1>1. /\ Len(v) = Len(w) + 1 /\ DOMAIN v = 1..(Len(w) + 1) /\ DOMAIN w = 1..Len(w)
      /\ Len(w) \in Nat /\ v[Len(w) + 1] = e /\ \A i \in 1..Len(w) : v[i] = w[i]
  BY AppendProperties, LenProperties
<1>2. SUFFICES ASSUME NEW d \in Call, NEW j \in DOMAIN v, NEW k \in DOMAIN v,
                      v[j] = <<"resolved", d>>, v[k] = <<"request", d>>
               PROVE  k < j
  BY DEF InOrder
<1> HIDE DEF v
<1>3. CASE j \in DOMAIN w /\ k \in DOMAIN w
  BY <1>1, <1>2, <1>3 DEF InOrder
<1>4. CASE j = Len(w) + 1
  <2>1. k # j
    BY <1>2
  <2> QED  BY <1>1, <1>2, <1>4, <2>1
<1>5. CASE j \in DOMAIN w /\ k = Len(w) + 1
  <2>1. what = "request" /\ c = d
    BY <1>1, <1>2, <1>5
  <2>2. w[j] = <<"resolved", c>>
    BY <1>1, <1>2, <1>5, <2>1
  <2>3. <<"resolved", c>> \in ToSet(w)
    BY <1>5, <2>2 DEF ToSet
  <2> QED  BY <2>1, <2>3
<1> QED  BY <1>1, <1>3, <1>4, <1>5

\* The wire stays in order when an event is heard, and no request follows its end.
LEMMA TailInOrder ==
    ASSUME NEW w \in Seq({"request", "resolved"} \X Call), w # <<>>, InOrder(w)
    PROVE  /\ InOrder(Tail(w))
           /\ \A c \in Call : Head(w) = <<"resolved", c>> => <<"request", c>> \notin ToSet(Tail(w))
<1>1. /\ Head(w) = w[1] /\ Len(w) \in Nat /\ Len(w) > 0
      /\ \A i \in 1..(Len(w) - 1) : Tail(w)[i] = w[i + 1]
      /\ DOMAIN w = 1..Len(w) /\ DOMAIN Tail(w) = 1..(Len(w) - 1)
  BY HeadTailProperties, LenProperties, EmptySeq
<1>2. ASSUME NEW c \in Call, NEW j \in DOMAIN Tail(w), NEW k \in DOMAIN Tail(w),
             Tail(w)[j] = <<"resolved", c>>, Tail(w)[k] = <<"request", c>>
      PROVE  k < j
  <2>1. j + 1 \in DOMAIN w /\ k + 1 \in DOMAIN w
    BY <1>1
  <2>2. w[j + 1] = <<"resolved", c>> /\ w[k + 1] = <<"request", c>>
    BY <1>1, <1>2
  <2>3. k + 1 < j + 1
    BY <2>1, <2>2 DEF InOrder
  <2> QED  BY <1>1, <2>3
<1>3. ASSUME NEW c \in Call, Head(w) = <<"resolved", c>>, <<"request", c>> \in ToSet(Tail(w))
      PROVE  FALSE
  <2>1. PICK k \in DOMAIN Tail(w) : Tail(w)[k] = <<"request", c>>
    BY <1>3 DEF ToSet
  <2>2. k + 1 \in DOMAIN w /\ w[k + 1] = <<"request", c>> /\ 1 \in DOMAIN w
    BY <1>1, <2>1
  <2>3. k + 1 < 1
    BY <1>1, <1>3, <2>2 DEF InOrder
  <2> QED  BY <1>1, <2>3
<1> QED  BY <1>2, <1>3 DEF InOrder

\* What a step of one call is to what the window knows of it.
CallMoves(c) ==
    /\ \A d \in Call \ {c} : at'[d] = at[d] /\ answer'[d] = answer[d]
    /\ answer' = answer
    /\ \/ pending' = pending \/ pending' = pending \ {c}
       \/ pending' = pending \cup {c} /\ at[c] = "idle"
    /\ Listening(c)' => (Listening(c) /\ pending' = pending) \/ c \in pending'
    /\ at'[c] # "idle"

LEMMA CallStepMoves == ASSUME HostInv, NEW c \in Call, CallStep(c) PROVE CallMoves(c)
BY DEF CallMoves, CallStep, Ask, Show, Unshown, Receive, Elapse, TimeOut, Announce, Run,
       Refuse, Finish, Abandon, Moves, Decides, Ends, Listening, HostInv, HostTypeOK

\* A step of a call, and what it says on the wire: at most one event, of its
\* own.
LEMMA CallStepPrompt ==
    ASSUME PromptInv, HostInv', ToldInv', TypeOK', NEW c \in Call, CallMoves(c),
           UNCHANGED <<replay, queue, posts>>,
           \/ /\ UNCHANGED wire
              /\ Over(c)' <=> Over(c)
              /\ Asked(c)' => Asked(c)
              /\ at'[c] \in {"idle", "asking"} => at[c] \in {"idle", "asking"}
           \/ /\ Emit("request", c) /\ at[c] = "asking" /\ at'[c] = "waiting"
           \/ /\ Emit("resolved", c) /\ Over(c)'
    PROVE  PromptInv'
<1>1. /\ wire \in Seq({"request", "resolved"} \X Call) /\ InOrder(wire) /\ ListenIs
  BY DEF PromptInv, TypeOK, HostTypeOK
<1>2. IsFiniteSet(pending')
  <2>1. IsFiniteSet(pending)
    BY DEF PromptInv, ListenIs
  <2>2. IsFiniteSet(pending \ {c}) /\ IsFiniteSet(pending \cup {c})
    BY <2>1, FS_AddElement, FS_RemoveElement
  <2> QED  BY <2>1, <2>2 DEF CallMoves
<1>3. ASSUME NEW d \in Call, d # c
      PROVE  /\ Over(d)' <=> Over(d)
             /\ Asked(d)' <=> Asked(d)
             /\ Listening(d)' <=> Listening(d)
             /\ d \in pending => d \in pending'
  BY <1>3 DEF CallMoves, Over, Asked, Listening
<1>4. Listening(c)' /\ answer'[c] = "none" => c \in pending'
  BY DEF CallMoves, PromptInv, KnownIs
<1>5. ASSUME NEW d \in Call PROVE KnownIs(d)
  BY DEF PromptInv
<1>6. ASSUME NEW d \in Call
      PROVE  /\ Listening(d)' /\ answer'[d] = "none" => d \in pending'
             /\ Over(d) => Over(d)'
             /\ Asked(d)' => \A said \in Word : <<d, said>> \in posts => <<d, said>> \in posts'
             /\ d \in settled' => Over(d)'
  <2>1. Over(c) => Over(c)'
    BY DEF Over
  <2> QED  BY <1>3, <1>4, <1>5, <2>1 DEF KnownIs, CallMoves, replay
<1>7. CASE UNCHANGED wire /\ (Over(c)' <=> Over(c)) /\ (Asked(c)' => Asked(c))
           /\ (at'[c] \in {"idle", "asking"} => at[c] \in {"idle", "asking"})
  <2>1. ASSUME NEW d \in Call
        PROVE  /\ \A what \in {"request", "resolved"} : OnWire(what, d)' <=> OnWire(what, d)
               /\ Over(d)' <=> Over(d)
               /\ Asked(d)' => Asked(d)
               /\ at'[d] \in {"idle", "asking"} => at[d] \in {"idle", "asking"}
    BY <1>3, <1>7 DEF OnWire, CallMoves
  <2>2. ASSUME NEW d \in Call PROVE KnownIs(d)'
    BY <1>5, <1>6, <2>1 DEF KnownIs
  <2> QED  BY <1>1, <1>2, <1>6, <1>7, <2>1, <2>2, HostStepPrompt DEF ListenIs, replay
<1>8. ASSUME NEW what \in {"request", "resolved"}, Emit(what, c),
             what = "request" => ~Over(c)
      PROVE  /\ InOrder(wire')
             /\ hearing = {} => wire' = <<>>
             /\ what \in hearing => OnWire(what, c)'
             /\ \A d \in Call : \A about \in {"request", "resolved"} :
                   /\ OnWire(about, d) => OnWire(about, d)'
                   /\ OnWire(about, d)' =>
                         OnWire(about, d) \/ (about = what /\ d = c /\ what \in hearing)
  <2>1. CASE what \in hearing
    <3>1. <<what, c>> \in {"request", "resolved"} \X Call
      OBVIOUS
    <3>2. wire' = Append(wire, <<what, c>>)
      BY <1>8, <2>1 DEF Emit
    <3>3. ToSet(wire') = ToSet(wire) \cup {<<what, c>>}
      BY <1>1, <3>1, <3>2, AppendIs
    <3>4. what = "request" => <<"resolved", c>> \notin ToSet(wire)
      BY <1>5, <1>8 DEF KnownIs, OnWire
    <3>5. InOrder(wire')
      BY <1>1, <3>2, <3>4, AppendInOrder
    <3>6. hearing # {}
      BY <2>1
    <3> QED  BY <2>1, <3>3, <3>5, <3>6 DEF OnWire
  <2>2. CASE what \notin hearing
    <3>1. wire' = wire
      BY <1>8, <2>2 DEF Emit
    <3> QED  BY <1>1, <2>2, <3>1 DEF OnWire, ListenIs
  <2> QED  BY <2>1, <2>2
<1>9. CASE Emit("request", c) /\ at[c] = "asking" /\ at'[c] = "waiting"
  <2>1. ~Over(c) /\ ~Over(c)'
    BY <1>9 DEF Over
  <2>2. /\ InOrder(wire')
        /\ hearing = {} => wire' = <<>>
        /\ "request" \in hearing => OnWire("request", c)'
        /\ \A d \in Call : \A about \in {"request", "resolved"} :
              /\ OnWire(about, d) => OnWire(about, d)'
              /\ OnWire(about, d)' =>
                    OnWire(about, d) \/ (about = "request" /\ d = c /\ "request" \in hearing)
    BY <1>8, <1>9, <2>1
  <2>3. ASSUME NEW d \in Call PROVE KnownIs(d)'
    <3>1. at'[d] = at[d] \/ d = c
      BY DEF CallMoves
    <3> QED  BY <1>5, <1>6, <1>9, <2>1, <2>2, <3>1 DEF KnownIs
  <2>4. ASSUME NEW d \in Call
        PROVE  /\ OnWire("request", d)' /\ Over(d)' => OnWire("request", d)
               /\ Over(d)' /\ ~Over(d) /\ hearing # {} => OnWire("resolved", d)'
               /\ Asked(d)' => Asked(d) \/ "request" \notin hearing \/ OnWire("request", d)'
    BY <1>3, <2>1, <2>2
  <2> QED  BY <1>1, <1>2, <1>6, <2>2, <2>3, <2>4, HostStepPrompt DEF ListenIs, replay
<1>10. CASE Emit("resolved", c) /\ Over(c)'
  <2>1. at'[c] \notin {"idle", "asking"} /\ ~Asked(c)'
    BY <1>10 DEF Over, Asked
  <2>2. /\ InOrder(wire')
        /\ hearing = {} => wire' = <<>>
        /\ "resolved" \in hearing => OnWire("resolved", c)'
        /\ \A d \in Call : \A about \in {"request", "resolved"} :
              /\ OnWire(about, d) => OnWire(about, d)'
              /\ OnWire(about, d)' =>
                    OnWire(about, d) \/ (about = "resolved" /\ d = c /\ "resolved" \in hearing)
    BY <1>8, <1>10
  <2>3. ASSUME NEW d \in Call PROVE KnownIs(d)'
    <3>1. at'[d] = at[d] \/ d = c
      BY DEF CallMoves
    <3> QED  BY <1>5, <1>6, <1>10, <2>1, <2>2, <3>1 DEF KnownIs
  <2>4. hearing # {} => "resolved" \in hearing
    BY <1>1 DEF ListenIs
  <2>5. ASSUME NEW d \in Call
        PROVE  /\ OnWire("request", d)' /\ Over(d)' => OnWire("request", d)
               /\ Over(d)' /\ ~Over(d) /\ hearing # {} => OnWire("resolved", d)'
               /\ Asked(d)' => Asked(d) \/ "request" \notin hearing \/ OnWire("request", d)'
    BY <1>3, <2>1, <2>2, <2>4
  <2> QED  BY <1>1, <1>2, <1>6, <2>2, <2>3, <2>5, HostStepPrompt DEF ListenIs, replay
<1> QED  BY <1>7, <1>9, <1>10 DEF Emit

\* A step of a call tells the window what it must hear of it.
LEMMA CallerPrompt ==
    ASSUME PromptInv, HostInv', ToldInv', NEW c \in Call, Caller(c)
    PROVE  PromptInv'
<1>1. CallMoves(c) /\ UNCHANGED <<replay, queue, posts, busy, covered, upsets>>
  BY CallStepMoves DEF Caller, CallStep, PromptInv, voice, bounds
<1>2. TypeOK'
  <2>1. wire' \in Seq({"request", "resolved"} \X Call)
    <3>1. wire \in Seq({"request", "resolved"} \X Call)
      BY DEF PromptInv, TypeOK
    <3>2. ASSUME NEW what \in {"request", "resolved"}, Emit(what, c)
          PROVE  wire' \in Seq({"request", "resolved"} \X Call)
      BY <3>1, <3>2, AppendIs DEF Emit
    <3> QED  BY <3>1, <3>2 DEF Caller
  <2> QED  BY <1>1, <2>1 DEF PromptInv, TypeOK, HostInv, replay
<1>3. HostInv /\ at \in [Call -> {"idle", "asking", "waiting", "elapsed", "closing",
                                  "allowed", "running", "over"}]
  BY DEF PromptInv, HostInv, HostTypeOK
<1>4. CASE Show(c) /\ Emit("request", c)
  <2>1. at[c] = "asking" /\ at'[c] = "waiting"
    BY <1>3, <1>4 DEF Show, Moves
  <2> QED  BY <1>1, <1>2, <1>4, <2>1, CallStepPrompt
<1>5. CASE Announce(c) /\ Emit("resolved", c)
  <2>1. Over(c)'
    BY <1>3, <1>5 DEF Announce, Moves, Over
  <2> QED  BY <1>1, <1>2, <1>5, <2>1, CallStepPrompt
<1>6. CASE UNCHANGED wire /\ ~Show(c) /\ ~Announce(c)
  <2>1. /\ Over(c)' <=> Over(c)
        /\ Asked(c)' => Asked(c)
        /\ at'[c] \in {"idle", "asking"} => at[c] \in {"idle", "asking"}
    BY <1>3, <1>6 DEF Caller, Ask, Unshown, Receive, Elapse, TimeOut, Run, Refuse, Finish,
                      Moves, Decides, Ends, Over, Asked
  <2> QED  BY <1>1, <1>2, <1>6, <2>1, CallStepPrompt
<1> QED  BY <1>4, <1>5, <1>6 DEF Caller, Emit, Show, Announce, Ask, Unshown, Receive, Elapse,
     TimeOut, Run, Refuse, Finish, Moves, Decides, Ends

\* An answer that is taken answers who is in the map, and nobody else waited.
LEMMA TakePrompt ==
    ASSUME PromptInv, HostInv', ToldInv', TypeOK', NEW calls \in SUBSET Call,
           NEW said \in Word, Take(calls, said), UNCHANGED <<replay, wire, queue>>,
           \A c \in Call \ calls : \A word \in Word :
               <<c, word>> \in posts => <<c, word>> \in posts'
    PROVE  PromptInv'
<1>1. at' = at /\ pending' = pending \ calls
  BY DEF Take
<1>2. ListenIs /\ InOrder(wire) /\ answer \in [Call -> Word \cup {"none"}]
  BY DEF PromptInv, TypeOK, HostTypeOK
<1>3. IsFiniteSet(pending')
  BY <1>1, <1>2, FS_Subset DEF ListenIs
<1>4. ASSUME NEW c \in Call, Listening(c), answer'[c] = "none"
      PROVE  answer[c] = "none" /\ c \in pending /\ c \notin calls
  <2>1. answer'[c] = IF c \in calls \cap pending /\ Listening(c) THEN said ELSE answer[c]
    BY DEF Take
  <2>2. said # "none"
    BY DEF Word
  <2>3. answer[c] = "none" /\ ~(c \in calls \cap pending)
    BY <1>4, <2>1, <2>2
  <2>4. KnownIs(c)
    BY DEF PromptInv
  <2> QED  BY <1>4, <2>3, <2>4 DEF KnownIs
<1>5. ASSUME NEW c \in Call
      PROVE  /\ KnownIs(c)'
             /\ OnWire("request", c)' <=> OnWire("request", c)
             /\ OnWire("resolved", c)' <=> OnWire("resolved", c)
             /\ Over(c)' <=> Over(c)
             /\ Asked(c)' => Asked(c) /\ c \notin calls
  <2>1. KnownIs(c)
    BY DEF PromptInv
  <2>2. Asked(c)' => Asked(c) /\ c \notin calls
    BY <1>1, <1>4 DEF Asked, Listening
  <2>3. KnownIs(c)'
    BY <1>1, <1>4, <2>1 DEF KnownIs, Listening, OnWire, Over, replay
  <2> QED  BY <1>1, <2>2, <2>3 DEF OnWire, Over
<1> QED  BY <1>2, <1>3, <1>5, HostStepPrompt DEF ListenIs, replay

\* So does what is done to calls from outside.
LEMMA OutsidePrompt ==
    ASSUME PromptInv, HostInv', ToldInv', NEW c \in Call, Outside(c)
    PROVE  PromptInv'
<1>1. UNCHANGED <<replay, wire, queue, posts, busy, covered>> /\ upsets' \in 0..MaxUpsets
  BY UpsetAssumption DEF Outside, Upset, voice, PromptInv, TypeOK
<1>2. TypeOK'
  BY <1>1 DEF PromptInv, TypeOK, HostInv, replay
<1>3. CASE Abandon(c)
  <2>1. CallMoves(c)
    BY <1>3, CallStepMoves DEF CallStep, PromptInv
  <2>2. /\ Over(c)' <=> Over(c)
        /\ Asked(c)' => Asked(c)
        /\ at'[c] \in {"idle", "asking"} => at[c] \in {"idle", "asking"}
    BY <1>3 DEF Abandon, Decides, Ends, Moves, Over, Asked, PromptInv, HostInv, HostTypeOK
  <2> QED  BY <1>1, <1>2, <2>1, <2>2, CallStepPrompt
<1>4. CASE DenyChat(c) \/ DenyAll
  <2>1. \E calls \in SUBSET Call, said \in Word : Take(calls, said)
    BY <1>4 DEF DenyChat, DenyAll, Word, PromptInv, HostInv, HostTypeOK
  <2> QED  BY <1>1, <1>2, <2>1, TakePrompt
<1> QED  BY <1>3, <1>4 DEF Outside

\* An answer that reaches the host.
LEMMA RespondPrompt ==
    ASSUME PromptInv, HostInv', ToldInv', NEW c \in Call, NEW said \in Word, Respond(c, said)
    PROVE  PromptInv'
<1>1. /\ UNCHANGED <<replay, wire, queue, bounds>> /\ posts' = posts \ {<<c, said>>}
      /\ Take({c}, said)
      /\ busy' = busy \/ \E how \in {"landed", "failed"} : busy' = <<c, said, how>>
  BY DEF Respond
<1>2. busy' \in {NoAnswer} \cup (Call \X Word \X {"sent", "landed", "failed"})
  BY <1>1 DEF PromptInv, TypeOK
<1>3. TypeOK'
  BY <1>1, <1>2 DEF PromptInv, TypeOK, HostInv, replay, bounds
<1> QED  BY <1>1, <1>3, TakePrompt

-------------------------------------------------------------------------------
(* The window's own steps: the host stands still.                          *)

\* What a call is to the host stays.
LEMMA Still ==
    ASSUME UNCHANGED host
    PROVE  /\ \A c \in Call : /\ Over(c)' <=> Over(c)
                              /\ Asked(c)' <=> Asked(c)
                              /\ Listening(c)' <=> Listening(c)
           /\ HostTypeOK => HostTypeOK'
BY DEF host, Over, Asked, Listening, HostTypeOK

\* The window's listeners land, and what is waiting is read.
LEMMA EffectPrompt ==
    ASSUME PromptInv, HostInv', ToldInv', HearResolutions \/ HearRequests \/ Snapshot
    PROVE  PromptInv'
<1>1. UNCHANGED <<host, settled, wire, queue, voice, covered>>
  BY DEF HearResolutions, HearRequests, Snapshot, bounds
<1>2. ListenIs /\ InOrder(wire) /\ TypeOK
  BY DEF PromptInv
<1>3. ASSUME NEW c \in Call
      PROVE  /\ KnownIs(c)' /\ KnownIs(c) /\ SeenIs(c) /\ DeadIs(c)
             /\ OnWire("request", c)' <=> OnWire("request", c)
             /\ OnWire("resolved", c)' <=> OnWire("resolved", c)
  BY <1>1, Still DEF PromptInv, KnownIs, OnWire, host
<1>4. CASE HearResolutions
  <2>1. TypeOK'
    BY <1>1, <1>2, <1>4, Still DEF HearResolutions, TypeOK, voice, bounds
  <2>2. ListenIs'
    BY <1>1, <1>2, <1>3, <1>4 DEF HearResolutions, ListenIs, host
  <2>3. ASSUME NEW c \in Call PROVE SeenIs(c)' /\ DeadIs(c)'
    BY <1>1, <1>3, <1>4, Still DEF HearResolutions, SeenIs, DeadIs, voice
  <2> QED  BY <1>1, <1>2, <1>3, <2>1, <2>2, <2>3 DEF PromptInv
<1>5. CASE HearRequests
  <2>1. TypeOK'
    BY <1>1, <1>2, <1>5, Still DEF HearRequests, TypeOK, voice, bounds
  <2>2. ListenIs'
    BY <1>1, <1>2, <1>3, <1>5 DEF HearRequests, ListenIs, host
  <2>3. ASSUME NEW c \in Call PROVE SeenIs(c)' /\ DeadIs(c)'
    BY <1>1, <1>3, <1>5, Still DEF HearRequests, SeenIs, DeadIs, voice
  <2> QED  BY <1>1, <1>2, <1>3, <2>1, <2>2, <2>3 DEF PromptInv
<1>6. CASE Snapshot
  <2>1. /\ fetch = "asked" /\ UNCHANGED hearing
        /\ \/ fetch' = "replied" /\ snapshot' = pending
           \/ fetch' = "failed" /\ snapshot' = snapshot
        /\ upsets' \in 0..MaxUpsets
    BY <1>2, <1>6, UpsetAssumption DEF Snapshot, Upset, TypeOK
  <2>2. TypeOK'
    BY <1>1, <1>2, <2>1, Still DEF TypeOK, HostTypeOK, voice
  <2>3. ListenIs'
    BY <1>1, <1>2, <1>3, <2>1 DEF ListenIs, host
  <2>4. ASSUME NEW c \in Call PROVE SeenIs(c)' /\ DeadIs(c)'
    <3>1. Over(c) => c \notin pending
      BY DEF PromptInv, HostInv, Over, Listening
    <3>2. Asked(c) => c \in pending /\ c \notin settled
      BY <1>3 DEF KnownIs, Asked, Listening, Over
    <3> QED  BY <1>1, <1>2, <1>3, <2>1, <3>1, <3>2, Still DEF SeenIs, DeadIs, ListenIs, voice
  <2> QED  BY <1>1, <1>2, <1>3, <2>2, <2>3, <2>4 DEF PromptInv
<1> QED  BY <1>4, <1>5, <1>6


\* What the read found joins the queue, but for what has been heard to be over.
LEMMA ReplayPrompt ==
    ASSUME PromptInv, HostInv', ToldInv', Replay
    PROVE  PromptInv'
<1>1. /\ UNCHANGED <<host, hearing, wire, voice, bounds>>
      /\ fetch = "replied" /\ fetch' = "applied" /\ snapshot' = {} /\ settled' = {}
  BY DEF Replay
<1>2. ListenIs /\ InOrder(wire) /\ TypeOK
  BY DEF PromptInv
<1>3. PICK fresh \in SetToSeqs(snapshot \ (settled \cup ToSet(queue))) : queue' = queue \o fresh
  BY DEF Replay
<1>4. /\ queue' \in Seq(Call)
      /\ ToSet(queue') = ToSet(queue) \cup (snapshot \ settled)
  <2> DEFINE new == snapshot \ (settled \cup ToSet(queue))
  <2>1. IsFiniteSet(new) /\ new \subseteq Call
    BY <1>2, FS_Subset DEF ListenIs, TypeOK
  <2>2. fresh \in Seq(new) /\ ToSet(fresh) = new
    <3> HIDE DEF new
    <3> QED  BY <1>3, <2>1, OrderIs DEF new
  <2>3. fresh \in Seq(Call) /\ queue \in Seq(Call)
    BY <1>2, <2>1, <2>2, SeqMonotonic DEF TypeOK
  <2>4. queue \o fresh \in Seq(Call) /\ ToSet(queue \o fresh) = ToSet(queue) \cup ToSet(fresh)
    BY <2>3, ConcatIs
  <2> QED  BY <1>3, <2>2, <2>4
<1>5. ASSUME NEW c \in Call
      PROVE  /\ KnownIs(c)' /\ SeenIs(c) /\ DeadIs(c)
             /\ OnWire("request", c)' <=> OnWire("request", c)
             /\ OnWire("resolved", c)' <=> OnWire("resolved", c)
  BY <1>1, Still DEF PromptInv, KnownIs, OnWire, host
<1>6. TypeOK'
  BY <1>1, <1>2, <1>4, Still DEF TypeOK, voice, bounds
<1>7. "request" \in hearing
  BY <1>1, <1>2 DEF ListenIs
<1>8. ListenIs'
  BY <1>1, <1>2, <1>7, FS_EmptySet DEF ListenIs, host
<1>9. ASSUME NEW c \in Call PROVE SeenIs(c)' /\ DeadIs(c)'
  BY <1>1, <1>4, <1>5, Still DEF SeenIs, DeadIs, voice
<1> QED  BY <1>1, <1>2, <1>5, <1>6, <1>8, <1>9 DEF PromptInv

\* An event that arrives puts its request at the end of the queue, or takes it
\* down; once that is heard, none of its own is left on the wire.
LEMMA HearPrompt ==
    ASSUME PromptInv, HostInv', ToldInv', Hear
    PROVE  PromptInv'
<1>1. /\ UNCHANGED <<host, hearing, fetch, snapshot, voice, bounds>>
      /\ wire # <<>> /\ wire' = Tail(wire)
  BY DEF Hear
<1>2. /\ ListenIs /\ InOrder(wire) /\ TypeOK
      /\ wire \in Seq({"request", "resolved"} \X Call) /\ queue \in Seq(Call)
  BY DEF PromptInv, TypeOK
<1>3. /\ Head(wire) \in {"request", "resolved"} \X Call
      /\ wire' \in Seq({"request", "resolved"} \X Call)
      /\ ToSet(wire) = ToSet(wire') \cup {Head(wire)}
      /\ InOrder(wire')
      /\ \A c \in Call : Head(wire) = <<"resolved", c>> => <<"request", c>> \notin ToSet(wire')
  <2>1. /\ Head(wire) \in {"request", "resolved"} \X Call
        /\ Tail(wire) \in Seq({"request", "resolved"} \X Call)
        /\ ToSet(wire) = ToSet(Tail(wire)) \cup {Head(wire)}
    BY <1>1, <1>2, TailIs
  <2>2. /\ InOrder(Tail(wire))
        /\ \A c \in Call : Head(wire) = <<"resolved", c>> => <<"request", c>> \notin ToSet(Tail(wire))
    BY <1>1, <1>2, TailInOrder
  <2> QED  BY <1>1, <2>1, <2>2
<1>4. PICK what \in {"request", "resolved"}, d \in Call : Head(wire) = <<what, d>>
  BY <1>3
<1>5. Head(wire)[1] = what /\ Head(wire)[2] = d
  BY <1>4
<1>6. /\ OnWire(what, d)
      /\ \A c \in Call : \A about \in {"request", "resolved"} :
            /\ OnWire(about, c)' => OnWire(about, c)
            /\ OnWire(about, c) => OnWire(about, c)' \/ (about = what /\ c = d)
  BY <1>3, <1>4 DEF OnWire
<1>7. ASSUME NEW c \in Call PROVE KnownIs(c) /\ SeenIs(c) /\ DeadIs(c)
  BY DEF PromptInv
<1>8. wire' \in Seq({"request", "resolved"} \X Call) /\ InOrder(wire')
  BY <1>3
<1>9. CASE what = "request"
  <2>1. queue' = Append(queue, d) /\ settled' = settled
    BY <1>5, <1>9 DEF Hear
  <2>2. queue' \in Seq(Call) /\ ToSet(queue') = ToSet(queue) \cup {d}
    BY <1>2, <2>1, AppendIs
  <2>3. TypeOK'
    BY <1>1, <1>2, <1>8, <2>1, <2>2, Still DEF TypeOK, voice, bounds
  <2>4. "request" \in hearing
    BY <1>2, <1>6, <1>9 DEF ListenIs
  <2>5. ListenIs'
    BY <1>1, <1>2, <2>4 DEF ListenIs, host
  <2>6. ASSUME NEW c \in Call PROVE KnownIs(c)'
    BY <1>1, <1>6, <1>7, <2>1, Still DEF KnownIs, host
  <2>7. ASSUME NEW c \in Call PROVE SeenIs(c)'
    BY <1>1, <1>6, <1>7, <2>1, <2>2, Still DEF SeenIs, voice
  <2>8. ASSUME NEW c \in Call PROVE DeadIs(c)'
    <3>1. OnWire("resolved", c)' <=> OnWire("resolved", c)
      BY <1>6, <1>9
    <3> QED  BY <1>1, <1>6, <1>7, <1>9, <2>1, <2>2, <3>1, Still DEF DeadIs
  <2> QED  BY <1>8, <2>3, <2>5, <2>6, <2>7, <2>8 DEF PromptInv
<1>10. CASE what = "resolved"
  <2>1. /\ queue' = Without(queue, d)
        /\ settled' = IF fetch = "applied" THEN settled ELSE settled \cup {d}
    BY <1>5, <1>10 DEF Hear
  <2>2. queue' \in Seq(Call) /\ ToSet(queue') = ToSet(queue) \ {d}
    BY <1>2, <2>1, WithoutIs
  <2>3. Over(d) /\ ~Asked(d) /\ ~OnWire("request", d)'
    BY <1>3, <1>4, <1>6, <1>7, <1>10 DEF KnownIs, Over, Asked, OnWire
  <2>4. settled' \subseteq Call
    BY <1>2, <2>1 DEF TypeOK
  <2>5. TypeOK'
    BY <1>1, <1>2, <1>8, <2>2, <2>4, Still DEF TypeOK, voice, bounds
  <2>6. ListenIs'
    <3>1. "request" \notin hearing => queue' = <<>>
      <4>1. ASSUME "request" \notin hearing PROVE queue' = <<>>
        <5>1. ToSet(queue') = {}
          BY <1>2, <2>2, <4>1, EmptyIs DEF ListenIs
        <5> QED  BY <2>2, <5>1, LenProperties, EmptySeq DEF ToSet
      <4> QED  BY <4>1
    <3>2. hearing # {}
      BY <1>1, <1>2 DEF ListenIs
    <3> QED  BY <1>1, <1>2, <1>6, <3>1, <3>2 DEF ListenIs, host
  <2>7. ASSUME NEW c \in Call PROVE KnownIs(c)'
    BY <1>1, <1>6, <1>7, <2>1, <2>3, Still DEF KnownIs, host
  <2>8. ASSUME NEW c \in Call PROVE SeenIs(c)'
    <3>1. OnWire("request", c) => OnWire("request", c)'
      BY <1>6, <1>10
    <3> QED  BY <1>1, <1>7, <2>1, <2>2, <2>3, <3>1, Still DEF SeenIs, voice
  <2>9. ASSUME NEW c \in Call PROVE DeadIs(c)'
    <3>1. CASE c = d
      BY <1>1, <2>1, <2>2, <2>3, <3>1 DEF DeadIs
    <3>2. CASE c # d
      BY <1>1, <1>6, <1>7, <2>1, <2>2, <3>2, Still DEF DeadIs
    <3> QED  BY <3>1, <3>2
  <2> QED  BY <1>8, <2>5, <2>6, <2>7, <2>8, <2>9 DEF PromptInv
<1> QED  BY <1>9, <1>10

\* The person presses, and the answer is on its way.
LEMMA PressPrompt ==
    ASSUME PromptInv, HostInv', ToldInv', NEW said \in Word, Press(said)
    PROVE  PromptInv'
<1>1. /\ UNCHANGED <<host, replay, wire, queue, bounds>> /\ queue # <<>>
      /\ busy' = <<Head(queue), said, "sent">>
      /\ posts' = posts \cup {<<Head(queue), said>>}
  BY DEF Press
<1>2. ListenIs /\ InOrder(wire) /\ TypeOK
  BY DEF PromptInv
<1>3. Head(queue) \in Call
  BY <1>1, <1>2, TailIs DEF TypeOK
<1>4. TypeOK'
  BY <1>1, <1>2, <1>3, Still DEF TypeOK, replay, bounds
<1>5. ASSUME NEW c \in Call
      PROVE  KnownIs(c) /\ SeenIs(c) /\ DeadIs(c) /\ (c \in pending' <=> c \in pending)
  BY <1>1 DEF PromptInv, host
<1>6. ASSUME NEW c \in Call PROVE KnownIs(c)' /\ SeenIs(c)' /\ DeadIs(c)'
  BY <1>1, <1>5, Still DEF KnownIs, SeenIs, DeadIs, OnWire, replay, host
<1>7. ListenIs'
  BY <1>1, <1>2 DEF ListenIs, OnWire, replay, host
<1> QED  BY <1>1, <1>2, <1>4, <1>6, <1>7 DEF PromptInv

\* A queue that loses the requests of some calls, which nobody asks any more or
\* which have an answer on its way.
LEMMA LosePrompt ==
    ASSUME PromptInv, HostInv', ToldInv', TypeOK',
           UNCHANGED <<host, replay, wire>>, posts \subseteq posts',
           NEW gone \in SUBSET Call, ToSet(queue') = ToSet(queue) \ gone,
           \A c \in gone : Asked(c) => \E said \in Word : <<c, said>> \in posts'
    PROVE  PromptInv'
<1>1. ListenIs /\ InOrder(wire)
  BY DEF PromptInv
<1>2. ASSUME NEW c \in Call
      PROVE  /\ KnownIs(c)' /\ KnownIs(c) /\ SeenIs(c) /\ DeadIs(c)
             /\ OnWire("request", c)' <=> OnWire("request", c)
             /\ OnWire("resolved", c)' <=> OnWire("resolved", c)
  BY Still DEF PromptInv, KnownIs, OnWire, replay, host
<1>3. "request" \notin hearing => queue' = <<>>
  <2>1. ASSUME "request" \notin hearing PROVE queue' = <<>>
    <3>1. ToSet(queue') = {}
      BY <1>1, <2>1, EmptyIs DEF ListenIs
    <3>2. queue' \in Seq(Call)
      BY DEF TypeOK
    <3> QED  BY <3>1, <3>2, LenProperties, EmptySeq DEF ToSet
  <2> QED  BY <2>1
<1>4. ListenIs'
  BY <1>1, <1>2, <1>3 DEF ListenIs, replay, host
<1>5. ASSUME NEW c \in Call PROVE SeenIs(c)'
  <2>1. CASE c \in gone
    BY <2>1, Still DEF SeenIs
  <2>2. CASE c \notin gone
    BY <1>2, <2>2, Still DEF SeenIs, replay
  <2> QED  BY <2>1, <2>2
<1>6. ASSUME NEW c \in Call PROVE DeadIs(c)'
  BY <1>2, Still DEF DeadIs, replay
<1> QED  BY <1>1, <1>2, <1>4, <1>5, <1>6 DEF PromptInv

\* Only an answer that landed takes its question away, and whoever was answered
\* is asked no more.
LEMMA AnsweredPrompt ==
    ASSUME PromptInv, HostInv', ToldInv', Answered
    PROVE  PromptInv'
<1>1. /\ UNCHANGED <<host, replay, wire, posts, bounds>> /\ busy' = NoAnswer
      /\ \/ queue' = queue
         \/ busy[3] = "landed" /\ queue' = Without(queue, busy[1])
  BY DEF Answered
<1>2. TypeOK /\ busy \in Call \X Word \X {"sent", "landed", "failed"}
  BY DEF PromptInv, TypeOK, Answered
<1>3. CASE queue' = queue
  <2>1. TypeOK'
    BY <1>1, <1>2, <1>3, Still DEF TypeOK, replay, bounds
  <2>2. {} \in SUBSET Call /\ ToSet(queue') = ToSet(queue) \ {}
    BY <1>3
  <2>3. UNCHANGED <<host, replay, wire, posts>> /\ posts \subseteq posts'
    BY <1>1
  <2>4. \A c \in {} : Asked(c) => \E said \in Word : <<c, said>> \in posts'
    OBVIOUS
  <2> QED  BY <2>1, <2>2, <2>3, <2>4, LosePrompt
<1>4. CASE busy[3] = "landed" /\ queue' = Without(queue, busy[1])
  <2>1. queue' \in Seq(Call) /\ ToSet(queue') = ToSet(queue) \ {busy[1]}
    BY <1>2, <1>4, WithoutIs DEF TypeOK
  <2>2. TypeOK'
    BY <1>1, <1>2, <2>1, Still DEF TypeOK, replay, bounds
  <2>3. PICK c \in Call, said \in Word : busy = <<c, said, "landed">>
    BY <1>2, <1>4
  <2>4. answer[c] = said /\ busy[1] = c
    BY <2>3 DEF PromptInv, ToldInv
  <2>5. ~Asked(busy[1])
    BY <2>4 DEF Asked, Word
  <2>6. {busy[1]} \in SUBSET Call
    BY <1>2
  <2>7. UNCHANGED <<host, replay, wire, posts>> /\ posts \subseteq posts'
    BY <1>1
  <2>8. \A d \in {busy[1]} : Asked(d) => \E word \in Word : <<d, word>> \in posts'
    BY <2>5
  <2> QED  BY <2>1, <2>2, <2>6, <2>7, <2>8, LosePrompt
<1> QED  BY <1>1, <1>3, <1>4

\* A window that is covered refuses what it would have asked.
LEMMA RefuseAllPrompt ==
    ASSUME PromptInv, HostInv', ToldInv', RefuseAll
    PROVE  PromptInv'
<1>1. /\ UNCHANGED <<host, replay, wire, busy, bounds>> /\ queue' = <<>>
      /\ posts' = posts \cup {<<c, "no">> : c \in ToSet(queue)}
  BY DEF RefuseAll
<1>2. TypeOK
  BY DEF PromptInv
<1>3. ToSet(queue) \subseteq Call
  BY <1>2, ElementOfSeq, LenProperties DEF TypeOK, ToSet
<1>4. queue' \in Seq(Call) /\ ToSet(queue') = ToSet(queue) \ ToSet(queue)
  BY <1>1, EmptyIs
<1>5. posts' \subseteq Call \X Word
  BY <1>1, <1>2, <1>3 DEF TypeOK, Word
<1>6. TypeOK'
  BY <1>1, <1>2, <1>4, <1>5, Still DEF TypeOK, replay, bounds
<1>7. ToSet(queue) \in SUBSET Call /\ posts \subseteq posts'
  BY <1>1, <1>3
<1>8. \A c \in ToSet(queue) : \E said \in Word : <<c, said>> \in posts'
  BY <1>1 DEF Word
<1> QED  BY <1>1, <1>4, <1>6, <1>7, <1>8, LosePrompt

\* A window that is read anew knows nothing, and has yet to ask what waits.
LEMMA ReloadPrompt ==
    ASSUME PromptInv, HostInv', ToldInv', Reload
    PROVE  PromptInv'
<1>1. /\ UNCHANGED <<host, posts, covered>>
      /\ hearing' = {} /\ fetch' = "no" /\ snapshot' = {} /\ settled' = {}
      /\ wire' = <<>> /\ queue' = <<>> /\ busy' = NoAnswer
  BY DEF Reload
<1>2. ListenIs /\ TypeOK /\ upsets' \in 0..MaxUpsets
  BY UpsetAssumption DEF PromptInv, Reload, Upset, TypeOK
<1>3. ToSet(queue') = {} /\ ToSet(wire') = {}
  BY <1>1, EmptyIs
<1>4. queue' \in Seq(Call) /\ wire' \in Seq({"request", "resolved"} \X Call)
  BY <1>1, EmptyIs
<1>5. TypeOK'
  BY <1>1, <1>2, <1>4, Still DEF TypeOK
<1>6. ListenIs' /\ InOrder(wire')
  BY <1>1, <1>2, <1>3, FS_EmptySet DEF ListenIs, InOrder, OnWire, host
<1>7. ASSUME NEW c \in Call PROVE KnownIs(c)' /\ SeenIs(c)' /\ DeadIs(c)'
  <2>1. KnownIs(c)
    BY DEF PromptInv
  <2> QED  BY <1>1, <1>3, <2>1, Still DEF KnownIs, SeenIs, DeadIs, OnWire, host
<1> QED  BY <1>5, <1>6, <1>7 DEF PromptInv

\* A lock over the window, and a step of neither, change nothing of it.
LEMMA IdlePrompt ==
    ASSUME PromptInv, HostInv', ToldInv', UNCHANGED <<host, replay, wire, queue, posts>>, TypeOK'
    PROVE  PromptInv'
<1>1. {} \in SUBSET Call /\ ToSet(queue') = ToSet(queue) \ {}
  OBVIOUS
<1>2. \A c \in {} : Asked(c) => \E said \in Word : <<c, said>> \in posts'
  OBVIOUS
<1> QED  BY <1>1, <1>2, LosePrompt

LEMMA PromptInvNext == PromptInv /\ [Next]_vars => PromptInv'
<1> SUFFICES ASSUME PromptInv, [Next]_vars PROVE PromptInv'
  OBVIOUS
<1>1. HostInv' /\ ToldInv'
  BY HostInvNext, ToldInvNext DEF PromptInv
<1>2. CASE \E c \in Call : Caller(c) \/ Outside(c)
  BY <1>1, <1>2, CallerPrompt, OutsidePrompt
<1>3. CASE \E c \in Call, said \in Word : Respond(c, said)
  BY <1>1, <1>3, RespondPrompt
<1>4. CASE HearResolutions \/ HearRequests \/ Snapshot
  BY <1>1, <1>4, EffectPrompt
<1>5. CASE Replay
  BY <1>1, <1>5, ReplayPrompt
<1>6. CASE Hear
  BY <1>1, <1>6, HearPrompt
<1>7. CASE \E said \in Word : Press(said)
  BY <1>1, <1>7, PressPrompt
<1>8. CASE Answered
  BY <1>1, <1>8, AnsweredPrompt
<1>9. CASE Cover
  <2>1. UNCHANGED <<host, replay, wire, queue, voice>>
        /\ covered' \in BOOLEAN /\ upsets' \in 0..MaxUpsets
    BY <1>9, UpsetAssumption DEF Cover, Upset, PromptInv, TypeOK
  <2>2. TypeOK'
    BY <2>1, Still DEF PromptInv, TypeOK, replay, voice
  <2> QED  BY <1>1, <2>1, <2>2, IdlePrompt DEF voice
<1>10. CASE RefuseAll
  BY <1>1, <1>10, RefuseAllPrompt
<1>11. CASE Reload
  BY <1>1, <1>11, ReloadPrompt
<1>12. CASE UNCHANGED vars
  <2>1. TypeOK'
    BY <1>12, Still DEF PromptInv, TypeOK, vars, replay, voice, bounds
  <2> QED  BY <1>1, <1>12, <2>1, IdlePrompt DEF vars, voice
<1> QED
  BY <1>2, <1>3, <1>4, <1>5, <1>6, <1>7, <1>8, <1>9, <1>10, <1>11, <1>12 DEF Next

\* Whatever the order in which the listeners land, the read of what waits
\* returns, the events arrive, answers fail, minutes end and the window is
\* locked or reloaded: a request that may still be answered is on the queue or on
\* its way there, and one that is settled is asked no longer than it takes to
\* hear of it (AgentConsent.tsx:149-188, mcp_confirm.rs ask).
THEOREM PromptsAreMatched == Spec => []PromptsMatch
<1> QED  BY PromptInvInit, PromptInvNext, PromptInvMatch, PTL DEF Spec
================================================================================
