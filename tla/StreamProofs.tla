----------------------------- MODULE StreamProofs -----------------------------
(***************************************************************************)
(* What the streams promise their readers. Of an app's streams, for any    *)
(* streams, windows, polls and limit: each channel implements StreamFrames,*)
(* no stream outlives its window's page, and none that follows the         *)
(* inventory is left behind by it but a late open. Of a log that is        *)
(* followed, for any lines, limits and readers: the spool's segments join, *)
(* what a page or an export reads of them is whole, and the frames are     *)
(* sent in order. The two parts share no state; their names differ so that *)
(* one module can extend both specifications.                              *)
(***************************************************************************)
EXTENDS AppStreams, LogTail, SequenceTheorems, FiniteSetTheorems, WellFoundedInduction, TLAPS

-------------------------------------------------------------------------------
(* An app's streams.                                                       *)

\* A stream is listed once, and not again once an ending has taken it; nothing
\* is asked of a source before its task is spawned.
Placed(s) ==
    /\ source[s] # "none" <=> at[s] \in {"spawned", "open"}
    /\ s \in listed => at[s] \in {"listed", "spawned", "open"}
    /\ finish[s] # "no" \/ ended[s] =>
          s \notin listed /\ at[s] \in {"listed", "spawned", "open"}
    /\ s \in aborted => s \notin listed /\ at[s] \in {"spawned", "open"}

\* The open frame is sent when the task is spawned, unless the stream has ended.
Framed(s) == ~ended[s] => (sent[s] = <<>> <=> at[s] \notin {"spawned", "open"})

\* An announcement is over before the next write.
Announcing == written = (IF announce = "no" THEN heard ELSE heard + 1)

\* A source that follows and has asked since the last write is permitted.
Asked(s) ==
    /\ s \notin Poll
    /\ at[s] \in {"checked", "subscribed", "listed", "spawned", "open"} /\ source[s] # "gone"
Checked(s) ==
    Asked(s) => held[s].checked <= written /\ (held[s].checked = written => Permits(s))

InWindow(s) == s \in listed => SameWindow(s) \/ "window" \in due[s]

Inv ==
    /\ TypeOK /\ Announcing
    /\ \A s \in Stream : Placed(s) /\ Framed(s) /\ Checked(s) /\ InWindow(s)

Own(s) == Placed(s) /\ Framed(s) /\ Checked(s) /\ InWindow(s)

-------------------------------------------------------------------------------
(* A step of one stream, and the rest.                                     *)

StreamStep(s) ==
    \/ Moves(s) \/ Ask(s) \/ Authorize(s) \/ Cancel(s)
    \/ AskAgain(s) \/ Recheck(s) \/ Data(s) \/ Return(s)

Same(q) ==
    /\ at'[q] = at[q] /\ held'[q] = held[q] /\ finish'[q] = finish[q]
    /\ ended'[q] = ended[q] /\ sent'[q] = sent[q] /\ source'[q] = source[q]
    /\ q \in listed' <=> q \in listed
    /\ q \in aborted' <=> q \in aborted
    /\ due'[q] = due[q]

\* A step of one stream leaves the others, and what they share, alone.
LEMMA Apart ==
    ASSUME TypeOK, NEW s \in Stream, StreamStep(s)
    PROVE  /\ UNCHANGED <<inventory, epoch, alive>>
           /\ \A q \in Stream \ {s} : Same(q)
<1> USE DEF TypeOK, Same, Goes, Turns, Lose, Over, Take, Abort, Emit, inventory, ending
<1>1. ASSUME Ask(s) \/ Authorize(s) \/ Subscribe(s) \/ Insert(s)
      PROVE  UNCHANGED <<inventory, epoch, alive>> /\ \A q \in Stream \ {s} : Same(q)
  BY <1>1 DEF Ask, Authorize, Subscribe, Insert
<1>2. ASSUME Introduce(s) \/ Record(s) \/ Cancel(s) \/ EndChosen(s) \/ Finish(s) \/ Stop(s)
      PROVE  UNCHANGED <<inventory, epoch, alive>> /\ \A q \in Stream \ {s} : Same(q)
  BY <1>2 DEF Introduce, Record, Cancel, EndChosen, Finish, Stop
<1>3. ASSUME AskAgain(s) \/ Recheck(s) \/ Data(s) \/ Return(s)
      PROVE  UNCHANGED <<inventory, epoch, alive>> /\ \A q \in Stream \ {s} : Same(q)
  BY <1>3 DEF AskAgain, Recheck, Data, Return
<1> QED  BY <1>1, <1>2, <1>3 DEF StreamStep, Moves

\* What happens beside a stream leaves it as it was.
LEMMA Undisturbed ==
    ASSUME NEW q \in Stream, Own(q), Same(q), UNCHANGED <<inventory, epoch>>
    PROVE  Own(q)'
BY DEF Own, Placed, Framed, Checked, Asked, Permits, InWindow, SameWindow, Epoch, Same, inventory


\* What a stream holds stays of its type.
LEMMA HeldType ==
    ASSUME TypeOK, NEW s \in Stream
    PROVE  /\ \A n \in Nat : /\ [held EXCEPT ![s].checked = n] \in [Stream -> Held]
                             /\ [held EXCEPT ![s].seen = n] \in [Stream -> Held]
           /\ \A n, m \in Nat :
                 [held EXCEPT ![s].revision = n, ![s].epoch = m] \in [Stream -> Held]
           /\ [held EXCEPT ![s] = Nothing] \in [Stream -> Held]
<1>1. held \in [Stream -> Held] /\ held[s] \in Held /\ Nothing \in Held
  BY DEF TypeOK, Nothing, Held
<1>2. ASSUME NEW n \in Nat, NEW m \in Nat
      PROVE  /\ [held[s] EXCEPT !.checked = n] \in Held
             /\ [held[s] EXCEPT !.seen = n] \in Held
             /\ [held[s] EXCEPT !.revision = n, !.epoch = m] \in Held
  BY <1>1 DEF Held
<1> HIDE DEF Held
<1> QED  BY <1>1, <1>2

LEMMA StreamType ==
    ASSUME TypeOK, Announcing, NEW s \in Stream, StreamStep(s)
    PROVE  TypeOK'
<1> USE DEF Goes, Turns, Lose, Over, Take, Abort, Emit, inventory, ending
<1>0. /\ written \in Nat /\ heard \in Nat /\ app.revision \in Nat /\ Epoch(s) \in Nat
  BY StreamsAssumption DEF TypeOK, Epoch
<1>1. held' \in [Stream -> Held]
  <2>0. /\ held \in [Stream -> Held]
        /\ [held EXCEPT ![s].revision = app.revision, ![s].epoch = Epoch(s)] \in [Stream -> Held]
        /\ [held EXCEPT ![s].checked = written] \in [Stream -> Held]
        /\ [held EXCEPT ![s].seen = heard] \in [Stream -> Held]
        /\ [held EXCEPT ![s] = Nothing] \in [Stream -> Held]
    BY <1>0, HeldType DEF TypeOK
  <2> HIDE DEF Held
  <2>1. Ask(s) \/ Authorize(s) \/ Subscribe(s) \/ Insert(s) => held' \in [Stream -> Held]
    BY <2>0 DEF Ask, Authorize, Subscribe, Insert
  <2>2. Introduce(s) \/ Record(s) \/ Cancel(s) \/ EndChosen(s) \/ Finish(s) => held' = held
    BY DEF Introduce, Record, Cancel, EndChosen, Finish
  <2>3. Stop(s) \/ AskAgain(s) \/ Recheck(s) \/ Data(s) \/ Return(s) => held' \in [Stream -> Held]
    BY <2>0 DEF Stop, AskAgain, Recheck, Data, Return
  <2> QED  BY <2>0, <2>1, <2>2, <2>3 DEF StreamStep, Moves
<1>2. \A frame \in {"open", "data", "close", "error"} :
         [sent EXCEPT ![s] = Append(@, frame)]
            \in [Stream -> Seq({"open", "data", "close", "error"})]
  BY DEF TypeOK
<1> DEFINE Rest == /\ app' \in [on : BOOLEAN, revision : Nat] /\ written' \in 0..MaxWrites
                   /\ heard' \in 0..written' /\ announce' \in {"no", "choose", "end"}
                   /\ epoch' \in [Window -> Nat] /\ alive' \in BOOLEAN
                   /\ at' \in [Stream -> {"idle", "asked", "checked", "subscribed", "listed",
                                         "spawned", "open", "refused"}]
                   /\ listed' \subseteq Stream /\ handle' \subseteq Stream
                   /\ due' \in [Stream -> SUBSET {"app", "window"}]
                   /\ finish' \in [Stream -> {"no", "close", "error", "drop"}]
                   /\ ended' \in [Stream -> BOOLEAN]
                   /\ sent' \in [Stream -> Seq({"open", "data", "close", "error"})]
                   /\ source' \in [Stream -> {"none", "wait", "check", "read", "gone"}]
                   /\ aborted' \subseteq Stream
<1>3. Ask(s) \/ Authorize(s) \/ Subscribe(s) \/ Insert(s) => Rest
  BY DEF TypeOK, Ask, Authorize, Subscribe, Insert
<1>4. Record(s) => Rest
  BY DEF TypeOK, Record
<1>5. Cancel(s) => Rest
  BY DEF TypeOK, Cancel
<1>6. Introduce(s) => Rest
  BY <1>2 DEF TypeOK, Introduce
<1>7. EndChosen(s) => Rest
  BY DEF TypeOK, EndChosen
<1>8. Finish(s) => Rest
  BY DEF TypeOK, Finish
<1>9. Stop(s) \/ AskAgain(s) => Rest
  BY DEF TypeOK, Stop, AskAgain
<1>10. Recheck(s) => Rest
  BY DEF TypeOK, Recheck
<1>11. Return(s) => Rest
  BY DEF TypeOK, Return
<1>12. Data(s) => Rest
  <2>1. Data(s) => /\ sent' = sent \/ sent' = [sent EXCEPT ![s] = Append(@, "data")]
                   /\ \E to \in {"wait", "gone"} : source' = [source EXCEPT ![s] = to]
                   /\ listed' \subseteq listed /\ aborted' \subseteq aborted
                   /\ finish' = finish \/ finish' = [finish EXCEPT ![s] = "error"]
                   /\ UNCHANGED <<inventory, epoch, at, handle, due, ended, alive>>
    BY DEF Data
  <2> QED  BY <1>2, <2>1 DEF TypeOK
<1> QED
  BY <1>1, <1>3, <1>4, <1>6, <1>7, <1>8, <1>9, <1>10, <1>11, <1>12, <1>5 DEF TypeOK, StreamStep, Moves

\* A stream's own step keeps what holds of it.
LEMMA Keeps ==
    ASSUME TypeOK, TypeOK', Announcing, NEW s \in Stream, StreamStep(s), Own(s)
    PROVE  Own(s)'
<1> USE DEF Goes, Turns, Lose, Over, Take, Abort, Emit, inventory, ending
<1>1. UNCHANGED <<inventory, epoch>> /\ written \in Nat
  BY Apart DEF TypeOK
<1>2. Placed(s)'
  <2>1. Ask(s) \/ Authorize(s) \/ Subscribe(s) \/ Insert(s) => Placed(s)'
    BY DEF Own, Placed, TypeOK, Ask, Authorize, Subscribe, Insert
  <2>2. Introduce(s) \/ Record(s) => Placed(s)'
    BY DEF Own, Placed, TypeOK, Introduce, Record
  <2>3. Cancel(s) \/ EndChosen(s) => Placed(s)'
    BY DEF Own, Placed, TypeOK, Cancel, EndChosen
  <2>4. Finish(s) => Placed(s)'
    <3>1. Finish(s) =>
             /\ UNCHANGED <<listed, at, source>> /\ finish'[s] = "no" /\ finish[s] # "no"
             /\ s \in aborted' => s \in aborted \/ source[s] \in {"wait", "check", "read"}
      BY DEF Finish, TypeOK
    <3> QED  BY <3>1 DEF Own, Placed
  <2>5. AskAgain(s) \/ Recheck(s) => Placed(s)'
    BY DEF Own, Placed, TypeOK, AskAgain, Recheck
  <2>6. Data(s) => Placed(s)'
    BY DEF Own, Placed, TypeOK, Data
  <2>7. Return(s) \/ Stop(s) => Placed(s)'
    BY DEF Own, Placed, TypeOK, Return, Stop
  <2> QED  BY <2>1, <2>2, <2>3, <2>5, <2>6, <2>7, <2>4 DEF StreamStep, Moves
<1>3. Framed(s)'
  <2>1. Ask(s) \/ Authorize(s) \/ Subscribe(s) \/ Insert(s) => Framed(s)'
    BY DEF Own, Placed, Framed, TypeOK, Ask, Authorize, Subscribe, Insert
  <2>2. Introduce(s) \/ Record(s) => Framed(s)'
    BY DEF Own, Placed, Framed, TypeOK, Introduce, Record
  <2>3. Cancel(s) \/ EndChosen(s) \/ Finish(s) => Framed(s)'
    BY DEF Own, Placed, Framed, TypeOK, Cancel, EndChosen, Finish
  <2>4. AskAgain(s) \/ Recheck(s) \/ Return(s) \/ Stop(s) => Framed(s)'
    BY DEF Own, Placed, Framed, TypeOK, AskAgain, Recheck, Return, Stop
  <2>5. Data(s) => Framed(s)'
    BY DEF Own, Placed, Framed, TypeOK, Data
  <2> QED  BY <2>1, <2>2, <2>3, <2>4, <2>5 DEF StreamStep, Moves
<1>4. Checked(s)'
  <2> USE DEF Own, Placed, Checked, Asked, Permits, TypeOK, Held
  <2>1. Ask(s) => Checked(s)'
    BY <1>1 DEF Ask
  <2>2. Subscribe(s) => Checked(s)'
    <3>1. held[s] \in Held /\ \A n : [held[s] EXCEPT !.seen = n].checked = held[s].checked
                           /\ [held[s] EXCEPT !.seen = n].revision = held[s].revision
      OBVIOUS
    <3>2. Subscribe(s) => /\ held'[s].checked = held[s].checked
                          /\ held'[s].revision = held[s].revision
      BY <3>1 DEF Subscribe
    <3>3. Subscribe(s) => at[s] = "checked" /\ source' = source
      BY DEF Subscribe
    <3> QED  BY <1>1, <3>2, <3>3
  <2>3. Insert(s) => Checked(s)'
    <3>1. Insert(s) => \/ /\ at[s] = "subscribed" /\ UNCHANGED <<held, source>>
                       \/ at'[s] = "refused"
      BY DEF Insert
    <3> QED  BY <1>1, <3>1
  <2>4. Authorize(s) => Checked(s)'
    BY <1>1 DEF Authorize
  <2>5. Introduce(s) \/ Record(s) \/ Cancel(s) \/ EndChosen(s) \/ Finish(s) => Checked(s)'
    BY <1>1 DEF Introduce, Record, Cancel, EndChosen, Finish
  <2>6. AskAgain(s) => Checked(s)'
    <3>1. held[s] \in Held /\ \A n : [held[s] EXCEPT !.seen = n].checked = held[s].checked
                           /\ [held[s] EXCEPT !.seen = n].revision = held[s].revision
      OBVIOUS
    <3>2. AskAgain(s) => /\ held'[s].checked = held[s].checked
                         /\ held'[s].revision = held[s].revision
      BY <3>1 DEF AskAgain
    <3>3. AskAgain(s) => at' = at /\ source[s] = "wait"
      BY DEF AskAgain
    <3> QED  BY <1>1, <3>2, <3>3
  <2>7. Recheck(s) => Checked(s)'
    BY <1>1 DEF Recheck
  <2>8. Data(s) \/ Return(s) \/ Stop(s) => Checked(s)'
    BY <1>1 DEF Data, Return, Stop
  <2> QED  BY <2>1, <2>4, <2>5, <2>6, <2>7, <2>8, <2>2, <2>3
       DEF StreamStep, Moves
<1>5. InWindow(s)'
  <2> USE DEF Own, Placed, InWindow, SameWindow, Epoch, TypeOK, Held
  <2>1. Ask(s) \/ Authorize(s) \/ Subscribe(s) \/ Insert(s) => InWindow(s)'
    BY <1>1 DEF Ask, Authorize, Subscribe, Insert
  <2>2. Introduce(s) \/ Record(s) \/ Cancel(s) \/ EndChosen(s) \/ Finish(s) => InWindow(s)'
    BY <1>1 DEF Introduce, Record, Cancel, EndChosen, Finish
  \* A source that is over lets go of what it held, and is not listed.
  <2>3. AskAgain(s) \/ Recheck(s) \/ Data(s) \/ Return(s) \/ Stop(s) =>
           /\ due' = due /\ listed' \subseteq listed
           /\ s \notin listed' \/ held'[s].epoch = held[s].epoch
    <3>1. AskAgain(s) => held'[s].epoch = held[s].epoch /\ due' = due /\ listed' = listed
      BY DEF AskAgain
    <3>2. Recheck(s) => /\ due' = due /\ listed' \subseteq listed
                        /\ s \notin listed' \/ held'[s].epoch = held[s].epoch
      BY DEF Recheck
    <3>3. Data(s) => /\ due' = due /\ listed' \subseteq listed
                     /\ s \notin listed' \/ held'[s].epoch = held[s].epoch
      BY DEF Data
    <3>4. Return(s) => due' = due /\ listed' \subseteq listed /\ s \notin listed'
      <4>1. \A how : Take(s, how) => listed' \subseteq listed /\ s \notin listed'
        OBVIOUS
      <4> QED  BY <4>1 DEF Return
    <3>5. Stop(s) => due' = due /\ listed' = listed /\ s \notin listed'
      BY DEF Stop
    <3> QED  BY <3>1, <3>2, <3>3, <3>4, <3>5
  <2>4. AskAgain(s) \/ Recheck(s) \/ Data(s) \/ Return(s) \/ Stop(s) => InWindow(s)'
    BY <1>1, <2>3
  <2> QED  BY <2>1, <2>2, <2>4 DEF StreamStep, Moves
<1> QED  BY <1>2, <1>3, <1>4, <1>5 DEF Own

-------------------------------------------------------------------------------
(* The invariant.                                                          *)

LEMMA InitInv == Init => Inv
<1> SUFFICES ASSUME Init PROVE Inv
  OBVIOUS
<1>1. TypeOK
  BY StreamsAssumption DEF Init, TypeOK, Nothing, Held
<1> QED
  BY <1>1 DEF Init, Inv, Announcing, Placed, Framed, Checked, Asked, InWindow

LEMMA InvStep == Inv /\ [Next]_vars => Inv'
<1> SUFFICES ASSUME Inv, [Next]_vars PROVE Inv'
  OBVIOUS
<1>0. TypeOK /\ Announcing /\ \A q \in Stream : Own(q)
  BY DEF Inv, Own
<1>1. ASSUME NEW s \in Stream, StreamStep(s) PROVE Inv'
  <2>1. TypeOK' /\ Announcing'
    BY <1>0, <1>1, StreamType, Apart DEF Announcing, inventory
  <2>2. ASSUME NEW q \in Stream PROVE Own(q)'
    BY <1>0, <1>1, <2>1, Apart, Undisturbed, Keeps
  <2> QED  BY <2>1, <2>2 DEF Inv, Own
<1>2. CASE Write
  <2>1. TypeOK' /\ Announcing'
    <3>1. app' \in [on : BOOLEAN, revision : Nat]
      <4>1. app \in [on : BOOLEAN, revision : Nat]
        BY <1>0 DEF TypeOK
      <4>2. /\ [app EXCEPT !.on = ~@] \in [on : BOOLEAN, revision : Nat]
            /\ [app EXCEPT !.revision = @ + 1] \in [on : BOOLEAN, revision : Nat]
        <5>1. (~app.on) \in BOOLEAN
          OBVIOUS
        <5>2. app.revision + 1 \in Nat
          BY <4>1
        <5>3. \A b \in BOOLEAN : [app EXCEPT !.on = b] \in [on : BOOLEAN, revision : Nat]
          BY <4>1
        <5>4. [app EXCEPT !.on = ~@] = [app EXCEPT !.on = ~app.on]
          BY <4>1
        <5>5. [app EXCEPT !.on = ~@] \in [on : BOOLEAN, revision : Nat]
          BY <5>1, <5>3, <5>4
        <5> QED  BY <4>1, <5>2, <5>5
      <4>3. app' \in {app, [app EXCEPT !.on = ~@], [app EXCEPT !.revision = @ + 1]}
        BY <1>2 DEF Write
      <4> QED  BY <4>1, <4>2, <4>3
    <3>2. /\ written' \in 0..MaxWrites /\ heard' \in 0..written' /\ announce' = "choose"
          /\ written' = heard' + 1
      BY <1>0, <1>2, StreamsAssumption DEF Write, TypeOK, Announcing
    <3> QED  BY <1>0, <1>2, <3>1, <3>2 DEF Write, TypeOK, Announcing, ending
  <2>2. ASSUME NEW q \in Stream PROVE Own(q)'
    <3>1. written \in Nat /\ written' = written + 1 /\ held[q].checked \in Nat
      BY <1>0, <1>2 DEF Write, TypeOK, Held
    <3>2. Own(q)
      BY <1>0
    <3> QED
      BY <1>2, <3>1, <3>2 DEF Write, Own, Placed, Framed, Checked, Asked, InWindow, SameWindow,
         Epoch, ending
  <2> QED  BY <2>1, <2>2 DEF Inv, Own
<1>3. CASE Choose
  <2>1. TypeOK' /\ Announcing'
    BY <1>0, <1>3 DEF Choose, TypeOK, Announcing, ending
  <2>2. ASSUME NEW q \in Stream PROVE Own(q)'
    BY <1>0, <1>3 DEF Choose, Own, Placed, Framed, Checked, Asked, Permits, InWindow, SameWindow,
       Epoch, ending
  <2> QED  BY <2>1, <2>2 DEF Inv, Own
<1>4. CASE Announced
  <2>1. TypeOK' /\ Announcing'
    BY <1>0, <1>4 DEF Announced, TypeOK, Announcing, ending
  <2>2. ASSUME NEW q \in Stream PROVE Own(q)'
    BY <1>0, <1>4 DEF Announced, Own, Placed, Framed, Checked, Asked, Permits, InWindow,
       SameWindow, Epoch, ending
  <2> QED  BY <2>1, <2>2 DEF Inv, Own
<1>5. CASE Drop
  <2>1. TypeOK' /\ Announcing'
    BY <1>0, <1>5 DEF Drop, TypeOK, Announcing, inventory
  <2>2. ASSUME NEW q \in Stream PROVE Own(q)'
    BY <1>0, <1>5 DEF Drop, TypeOK, Own, Placed, Framed, Checked, Asked, Permits, InWindow,
       SameWindow, Epoch, inventory
  <2> QED  BY <2>1, <2>2 DEF Inv, Own
<1>6. ASSUME NEW w \in Window, EndWindow(w) PROVE Inv'
  <2>1. TypeOK' /\ Announcing'
    BY <1>0, <1>6 DEF EndWindow, TypeOK, Announcing, inventory, ending
  <2>2. ASSUME NEW q \in Stream PROVE Own(q)'
    <3>1. Placed(q)' /\ Framed(q)' /\ Checked(q)'
      BY <1>0, <1>6 DEF EndWindow, Own, Placed, Framed, Checked, Asked, Permits, inventory, ending
    <3>2. InWindow(q)'
      BY <1>0, <1>6 DEF EndWindow, TypeOK, Own, InWindow, SameWindow, Epoch, ending
    <3> QED  BY <3>1, <3>2 DEF Own
  <2> QED  BY <2>1, <2>2 DEF Inv, Own
<1>7. CASE UNCHANGED vars
  BY <1>7 DEF vars, inventory, ending, Inv, TypeOK, Announcing, Placed, Framed, Checked, Asked,
     Permits, InWindow, SameWindow, Epoch
<1> QED
  BY <1>1, <1>2, <1>3, <1>4, <1>5, <1>6, <1>7 DEF Next, StreamStep

LEMMA Invariance == Spec => []Inv
BY InitInv, InvStep, PTL DEF Spec

\* A stream that is listed belongs to the page its window shows, or the ending
\* that came with the page's going is on its way to it.
THEOREM StreamsGoWithTheirWindow == Spec => []WindowsOwnTheirStreams
<1>1. Inv => WindowsOwnTheirStreams
  BY DEF Inv, TypeOK, InWindow, WindowsOwnTheirStreams
<1> QED  BY <1>1, Invariance, PTL

\* A source that follows the inventory and is not permitted any more is about to
\* hear so, unless its open asked before a write it then did not hear of.
THEOREM LeftBehindOnlyLate == Spec => []StaleOnlyByLateOpen
<1>1. Inv => StaleOnlyByLateOpen
  <2> SUFFICES ASSUME Inv, NEW s \in Stream, Following(s), ~Permits(s), announce = "no",
                      held[s].seen = heard
               PROVE  LateOpen(s)
    BY DEF StaleOnlyByLateOpen
  <2>1. Asked(s)
    BY DEF Inv, Placed, Following, Asked
  <2>2. held[s].checked <= written /\ held[s].checked # written
    BY <2>1 DEF Inv, Checked
  <2>3. written = heard /\ written \in Nat /\ held[s].checked \in Nat
    BY DEF Inv, Announcing, TypeOK, Held
  <2> QED  BY <2>2, <2>3 DEF LateOpen
<1> QED  BY <1>1, Invariance, PTL

\* Each stream's channel implements the stream contract: one open frame, data, one
\* terminal frame and nothing more, whoever ends the stream and whenever.
THEOREM ChannelsKeepTheContract == Spec => FramesContract
<1>1. Init => \A s \in Stream : Channel(s)!Init
  BY DEF Init, Channel!Init
<1>2. Inv /\ [Next]_vars =>
         [\A s \in Stream :
             [Channel(s)!Next \/ EndedUnopened(s)]_<<sent[s], ended[s]>>]_<<sent, ended>>
  <2>1. UNCHANGED vars => UNCHANGED <<sent, ended>>
    BY DEF vars
  <2> SUFFICES ASSUME Inv, Next, NEW s \in Stream
               PROVE  [Channel(s)!Next \/ EndedUnopened(s)]_<<sent[s], ended[s]>>
    BY <2>1
  <2>0. TypeOK /\ Own(s)
    BY DEF Inv, Own
  <2>2. CASE StreamStep(s)
    <3>1. CASE Introduce(s)
      <4>1. at[s] = "listed" /\ ended' = ended
            /\ sent'[s] = (IF ended[s] THEN sent[s] ELSE Append(sent[s], "open"))
        BY <2>0, <3>1 DEF Introduce, Goes, Emit, TypeOK
      <4>2. ~ended[s] => sent[s] = <<>> /\ Append(sent[s], "open") = <<"open">>
        <5>1. ~ended[s] => sent[s] = <<>>
          BY <2>0, <4>1 DEF Own, Framed
        <5>2. Append(<<>>, "open") = <<"open">>
          OBVIOUS
        <5> QED  BY <5>1, <5>2
      <4>3. ended[s] \in BOOLEAN
        BY <2>0 DEF TypeOK
      <4> QED  BY <4>1, <4>2, <4>3 DEF Channel!Next, Channel!Open
    <3>2. CASE Finish(s)
      <4>1. /\ finish[s] \in {"close", "error", "drop"}
            /\ ended[s] \in BOOLEAN /\ ended'[s] = TRUE
            /\ sent'[s] = (IF ended[s] \/ finish[s] = "drop" THEN sent[s]
                          ELSE Append(sent[s], finish[s]))
        BY <2>0, <3>2 DEF Finish, TypeOK
      <4>2. at[s] \in {"listed", "spawned", "open"}
        BY <2>0, <4>1 DEF Own, Placed
      <4>3. CASE ended[s] \/ finish[s] = "drop"
        BY <4>1, <4>3 DEF Channel!Next, Channel!Abandon
      <4>4. CASE ~ended[s] /\ finish[s] # "drop" /\ sent[s] # <<>>
        BY <4>1, <4>4 DEF Channel!Next, Channel!Terminate, Channel!Terminal
      <4>5. CASE ~ended[s] /\ finish[s] # "drop" /\ sent[s] = <<>>
        <5>1. at[s] = "listed"
          BY <2>0, <4>2, <4>5 DEF Own, Framed
        <5>2. sent'[s] = <<finish[s]>> /\ finish[s] \in {"close", "error"}
          BY <4>1, <4>5
        <5> QED  BY <4>1, <4>5, <5>1, <5>2 DEF EndedUnopened
      <4> QED  BY <4>3, <4>4, <4>5
    <3>3. CASE Data(s)
      BY <2>0, <3>3 DEF Data, Own, Placed, Framed, TypeOK, Channel!Next, Channel!Data
    <3>4. ASSUME ~Introduce(s), ~Finish(s), ~Data(s) PROVE UNCHANGED <<sent, ended>>
      BY <2>2, <3>4 DEF StreamStep, Moves, Subscribe, Insert, Record, EndChosen, Stop, Ask,
         Authorize, Cancel, AskAgain, Recheck, Return
    <3> QED  BY <3>1, <3>2, <3>3, <3>4
  <2>3. ASSUME NEW q \in Stream \ {s}, StreamStep(q) PROVE UNCHANGED <<sent[s], ended[s]>>
    BY <2>0, <2>3, Apart DEF Same
  <2>4. ASSUME Write \/ Choose \/ Announced \/ Drop \/ \E w \in Window : EndWindow(w)
        PROVE  UNCHANGED <<sent, ended>>
    BY <2>4 DEF Write, Choose, Announced, Drop, EndWindow
  <2> QED  BY <2>2, <2>3, <2>4 DEF Next, StreamStep
<1> QED  BY <1>1, <1>2, Invariance, PTL DEF Spec, FramesContract

-------------------------------------------------------------------------------
(* Of the naturals, and of sequences of lines.                             *)

\* Every set of naturals has a least one: what induction needs.
LEMMA LessIsWellFounded ==
    \E R : IsWellFoundedOn(R, Nat) /\ \A x, y \in Nat : x < y => <<x, y>> \in R
<1>1. \A x, y \in Nat : x < y => <<x, y>> \in OpToRel(<, Nat)
  BY DEF OpToRel
<1> QED  BY <1>1, NatLessThanWellFounded

LEMMA LeastNat ==
    ASSUME NEW T, T \subseteq Nat, T # {}
    PROVE  \E x \in T : \A y \in T : x <= y
<1>1. PICK R : IsWellFoundedOn(R, Nat) /\ \A x, y \in Nat : x < y => <<x, y>> \in R
  BY LessIsWellFounded
<1>2. IsWellFoundedOn(R, Nat)
  BY <1>1
<1>3. \A x, y \in Nat : x < y => <<x, y>> \in R
  BY <1>1
<1>4. \E x \in T : \A y \in T : ~(<<y, x>> \in R)
  BY <1>2, WFMin
<1>5. PICK x \in T : \A y \in T : ~(<<y, x>> \in R)
  BY <1>4
<1>6. \A y \in T : ~(y < x)
  BY <1>3, <1>5
<1> QED  BY <1>6

\* Induction up to a bound, on the set of the numbers it holds for.
LEMMA Induction ==
    ASSUME NEW N \in Nat, NEW S, 0 \in S, \A n \in 0..N : n \in S /\ n < N => n + 1 \in S
    PROVE  0..N \subseteq S
<1> DEFINE T == (0..N) \ S
<1>1. SUFFICES ASSUME T # {} PROVE FALSE
  OBVIOUS
<1>2. PICK x \in T : \A y \in T : x <= y
  <2>1. T \subseteq Nat
    OBVIOUS
  <2> HIDE DEF T
  <2> QED BY <1>1, <2>1, LeastNat
<1>3. x # 0 /\ x - 1 \in 0..N /\ x - 1 \in S
  BY <1>2
<1> QED  BY <1>2, <1>3

LEMMA SeqIs ==
    ASSUME NEW S, NEW s \in Seq(S)
    PROVE  Len(s) \in Nat /\ DOMAIN s = 1..Len(s) /\ \A i \in 1..Len(s) : s[i] \in S
BY LenProperties, ElementOfSeq

LEMMA ConcatIs ==
    ASSUME NEW S, NEW s \in Seq(S), NEW t \in Seq(S)
    PROVE  /\ s \o t \in Seq(S) /\ Len(s \o t) = Len(s) + Len(t)
           /\ \A i \in 1..Len(s) : (s \o t)[i] = s[i]
           /\ \A i \in 1..Len(t) : (s \o t)[Len(s) + i] = t[i]
BY ConcatProperties, SeqIs

\* Element i of a part that starts at m is element m + i - 1.
LEMMA SubSeqIs ==
    ASSUME NEW S, NEW s \in Seq(S), NEW m \in Nat \ {0}, NEW n \in Nat, n <= Len(s), m <= n + 1
    PROVE  /\ SubSeq(s, m, n) \in Seq(S) /\ Len(SubSeq(s, m, n)) = n + 1 - m
           /\ \A i \in 1..(n + 1 - m) : SubSeq(s, m, n)[i] = s[m + i - 1]
<1>1. \A i \in m..n : s[i] \in S
  BY SeqIs
<1>2. /\ SubSeq(s, m, n) \in Seq(S)
      /\ Len(SubSeq(s, m, n)) = IF m <= n THEN n - m + 1 ELSE 0
      /\ \A i \in 1..(n - m + 1) : SubSeq(s, m, n)[i] = s[m + i - 1]
  <2>1. m \in Int /\ n \in Int
    OBVIOUS
  <2> QED  BY <1>1, <2>1, SubSeqProperties
<1> QED  BY <1>2

\* What is summed has sizes.
Sized(S) == \A e \in S : e.size \in Nat

\* The sums of the first n sizes of s.
Sums(s, w) ==
    /\ w \in [0..Len(s) -> Nat] /\ w[0] = 0
    /\ \A n \in 0..Len(s) : n < Len(s) => w[n + 1] = w[n] + s[n + 1].size

\* The weight of s is the last of the sums of its sizes.
LEMMA WeightIs ==
    ASSUME NEW S, Sized(S), NEW s \in Seq(S)
    PROVE  \E w : Sums(s, w) /\ Weight(s) = w[Len(s)]
<1> DEFINE N == Len(s)
           Step(k, n) == IF n = 0 THEN 0 ELSE k[n - 1] + s[n].size
           upto == CHOOSE k : k = [n \in 0..N |-> Step(k, n)]
<1>1. N \in Nat /\ \A i \in 1..N : s[i].size \in Nat
  BY SeqIs DEF Sized
<1>2. \E k : k = [n \in 0..N |-> Step(k, n)]
  <2> DEFINE P == {m \in 0..N : \E k : k = [n \in 0..m |-> Step(k, n)]}
  <2>1. 0 \in P
    <3>1. [n \in 0..0 |-> 0] = [n \in 0..0 |-> Step([i \in 0..0 |-> 0], n)]
      BY <1>1
    <3> HIDE DEF Step
    <3> QED  BY <1>1, <3>1
  <2>2. ASSUME NEW m \in 0..N, m \in P, m < N PROVE m + 1 \in P
    <3>1. PICK k : k = [n \in 0..m |-> Step(k, n)]
      BY <2>2
    <3> DEFINE l == [n \in 0..(m + 1) |-> IF n <= m THEN k[n] ELSE Step(k, n)]
    <3>2. \A n \in 0..(m + 1) : Step(l, n) = Step(k, n)
      BY <1>1, <2>2
    <3>3. \A n \in 0..m : k[n] = Step(k, n)
      BY <3>1
    <3> HIDE DEF Step
    <3>4. \A n \in 0..(m + 1) : l[n] = Step(l, n)
      <4>1. \A n \in 0..(m + 1) : l[n] = Step(k, n)
        BY <3>3
      <4> QED  BY <3>2, <4>1
    <3>5. l = [n \in 0..(m + 1) |-> l[n]]
      OBVIOUS
    <3> HIDE DEF l
    <3>6. l = [n \in 0..(m + 1) |-> Step(l, n)]
      BY <3>4, <3>5
    <3> QED  BY <1>1, <2>2, <3>6
  <2> HIDE DEF P
  <2>3. 0..N \subseteq P
    BY <1>1, <2>1, <2>2, Induction
  <2>4. N \in P
    BY <1>1, <2>3
  <2> QED  BY <2>4 DEF P
<1>3. upto = [n \in 0..N |-> Step(upto, n)]
  <2> HIDE DEF Step
  <2> QED  BY <1>2
<1>4. Weight(s) = upto[N]
  BY DEF Weight
<1> HIDE DEF upto
<1>5. /\ upto[0] = 0
      /\ \A n \in 0..N : n < N => upto[n + 1] = upto[n] + s[n + 1].size
  <2>1. \A n \in 0..N : upto[n] = Step(upto, n)
    <3> HIDE DEF Step
    <3> QED  BY <1>3
  <2> QED  BY <1>1, <2>1
<1> HIDE DEF N
<1>6. \A n \in 0..N : upto[n] \in Nat
  <2> DEFINE Q == {n \in 0..N : upto[n] \in Nat}
  <2>1. 0 \in Q
    BY <1>1, <1>5
  <2>2. ASSUME NEW n \in 0..N, n \in Q, n < N PROVE n + 1 \in Q
    <3>1. n + 1 \in 1..N
      BY <1>1, <2>2
    <3> QED  BY <1>1, <1>5, <2>2, <3>1
  <2> HIDE DEF Q
  <2>3. 0..N \subseteq Q
    BY <1>1, <2>1, <2>2, Induction
  <2> QED  BY <2>3 DEF Q
<1>7. upto \in [0..N -> Nat]
  <2>1. DOMAIN upto = 0..N /\ upto = [n \in 0..N |-> upto[n]]
    <3> HIDE DEF Step
    <3> QED  BY <1>3
  <2> QED  BY <1>6, <2>1
<1> QED  BY <1>4, <1>5, <1>7 DEF Sums, N

\* The weight of two sequences in one is the sum of their weights.
LEMMA WeightConcat ==
    ASSUME NEW S, Sized(S), NEW s \in Seq(S), NEW t \in Seq(S)
    PROVE  /\ Weight(s) \in Nat /\ Weight(t) \in Nat
           /\ Weight(s \o t) = Weight(s) + Weight(t)
<1>1. PICK u : Sums(s, u) /\ Weight(s) = u[Len(s)]
  BY WeightIs
<1>2. PICK v : Sums(t, v) /\ Weight(t) = v[Len(t)]
  BY WeightIs
<1>3. PICK w : Sums(s \o t, w) /\ Weight(s \o t) = w[Len(s \o t)]
  BY WeightIs, ConcatIs
<1>4. /\ Len(s) \in Nat /\ Len(t) \in Nat /\ Len(s \o t) = Len(s) + Len(t)
      /\ \A i \in 1..Len(s) : (s \o t)[i] = s[i]
      /\ \A i \in 1..Len(t) : (s \o t)[Len(s) + i] = t[i]
  BY SeqIs, ConcatIs
<1> DEFINE P == {n \in 0..Len(s) : w[n] = u[n]}
           Q == {n \in 0..Len(t) : w[Len(s) + n] = u[Len(s)] + v[n]}
<1>5. 0 \in P
  BY <1>1, <1>3, <1>4 DEF Sums
<1>6. ASSUME NEW n \in 0..Len(s), n \in P, n < Len(s) PROVE n + 1 \in P
  <2>1. n \in 0..Len(s \o t) /\ n < Len(s \o t) /\ n + 1 \in 1..Len(s)
    BY <1>4, <1>6
  <2>2. w[n + 1] = w[n] + (s \o t)[n + 1].size /\ u[n + 1] = u[n] + s[n + 1].size
    BY <1>1, <1>3, <1>6, <2>1 DEF Sums
  <2> QED  BY <1>4, <1>6, <2>1, <2>2
<1>7. 0..Len(s) \subseteq P
  <2> HIDE DEF P
  <2> QED  BY <1>4, <1>5, <1>6, Induction
<1>8. u[Len(s)] \in Nat /\ v[0] = 0 /\ \A n \in 0..Len(t) : v[n] \in Nat
  <2>1. u \in [0..Len(s) -> Nat] /\ v \in [0..Len(t) -> Nat] /\ v[0] = 0
    BY <1>1, <1>2 DEF Sums
  <2>2. Len(s) \in 0..Len(s)
    BY <1>4
  <2> QED  BY <2>1, <2>2
<1>9. 0 \in Q
  <2>1. w[Len(s)] = u[Len(s)]
    BY <1>4, <1>7
  <2> QED  BY <1>4, <1>8, <2>1
<1>10. ASSUME NEW n \in 0..Len(t), n \in Q, n < Len(t) PROVE n + 1 \in Q
  <2>1. /\ Len(s) + n \in 0..Len(s \o t) /\ Len(s) + n < Len(s \o t) /\ n + 1 \in 1..Len(t)
        /\ (Len(s) + n) + 1 = Len(s) + (n + 1)
    BY <1>4, <1>10
  <2>2. /\ w[(Len(s) + n) + 1] = w[Len(s) + n] + (s \o t)[(Len(s) + n) + 1].size
        /\ v[n + 1] = v[n] + t[n + 1].size
    BY <1>2, <1>3, <1>10, <2>1 DEF Sums
  <2>3. (s \o t)[Len(s) + (n + 1)] = t[n + 1]
    BY <1>4, <2>1
  <2>4. t[n + 1].size \in Nat
    BY <2>1, SeqIs DEF Sized
  <2>5. w[Len(s) + (n + 1)] = (u[Len(s)] + v[n]) + t[n + 1].size
    BY <1>10, <2>1, <2>2, <2>3
  <2> QED  BY <1>8, <1>10, <2>1, <2>2, <2>4, <2>5
<1>11. 0..Len(t) \subseteq Q
  <2> HIDE DEF Q
  <2> QED  BY <1>4, <1>9, <1>10, Induction
<1> QED  BY <1>1, <1>2, <1>3, <1>4, <1>8, <1>11

LEMMA WeightOne ==
    ASSUME NEW S, Sized(S), NEW e \in S
    PROVE  Weight(<<e>>) = e.size /\ Weight(<<>>) = 0
<1>1. <<e>> \in Seq(S) /\ <<>> \in Seq(S) /\ Len(<<e>>) = 1 /\ Len(<<>>) = 0 /\ <<e>>[1] = e
  OBVIOUS
<1>2. PICK w : Sums(<<e>>, w) /\ Weight(<<e>>) = w[1]
  BY <1>1, WeightIs
<1>3. PICK v : Sums(<<>>, v) /\ Weight(<<>>) = v[0]
  BY <1>1, WeightIs
<1>4. w[0] = 0 /\ w[0 + 1] = w[0] + <<e>>[0 + 1].size
  <2>1. 0 \in 0..Len(<<e>>) /\ 0 < Len(<<e>>)
    BY <1>1
  <2> QED  BY <1>2, <2>1 DEF Sums
<1>5. e.size \in Nat
  BY DEF Sized
<1>6. v[0] = 0
  BY <1>3 DEF Sums
<1> QED  BY <1>1, <1>2, <1>3, <1>4, <1>5, <1>6

\* A loop that drops the oldest leaves the end of what there was, and what it
\* dropped last would not have fitted.
LEMMA NewestIs ==
    ASSUME NEW S, Sized(S), NEW s \in Seq(S), s # <<>>, NEW cap \in Nat
    PROVE  \E k \in 1..Len(s) :
             /\ Newest(s, cap) = SubSeq(s, k, Len(s))
             /\ k > 1 => Weight(SubSeq(s, k, Len(s))) + s[k - 1].size > cap
<1> DEFINE keeps == {i \in 1..Len(s) : i = Len(s) \/ Weight(SubSeq(s, i, Len(s))) <= cap}
<1>1. Len(s) \in Nat /\ Len(s) > 0 /\ \A i \in 1..Len(s) : s[i] \in S
  BY SeqIs, EmptySeq
<1>2. keeps \subseteq Nat /\ Len(s) \in keeps
  BY <1>1
<1>3. Newest(s, cap) = SubSeq(s, Min(keeps), Len(s))
  BY DEF Newest
<1>4. Min(keeps) \in keeps /\ \A i \in keeps : Min(keeps) <= i
  <2> HIDE DEF keeps
  <2>1. \E x \in keeps : \A y \in keeps : x <= y
    BY <1>2, LeastNat
  <2> QED  BY <2>1 DEF Min
<1>5. PICK k \in 1..Len(s) : k = Min(keeps)
  BY <1>4
<1>6. ASSUME k > 1
      PROVE  Weight(SubSeq(s, k, Len(s))) + s[k - 1].size > cap
  <2>1. k - 1 \in 1..Len(s) /\ k - 1 \notin keeps
    <3>1. ~(k <= k - 1)
      BY <1>1
    <3> HIDE DEF keeps
    <3> QED  BY <1>1, <1>4, <1>5, <1>6, <3>1
  <2>2. ~(Weight(SubSeq(s, k - 1, Len(s))) <= cap)
    BY <2>1
  <2> HIDE DEF keeps
  <2>3. SubSeq(s, k - 1, Len(s)) = <<s[k - 1]>> \o SubSeq(s, k, Len(s))
    <3>1. Len(s) \in (k - 1)..Len(s) /\ (k - 1) + 1 = k
      BY <1>1, <2>1
    <3> QED  BY <2>1, <3>1, SubSeqRecursiveFirst
  <2>4. s[k - 1] \in S /\ <<s[k - 1]>> \in Seq(S)
    BY <1>1, <2>1
  <2>5. SubSeq(s, k, Len(s)) \in Seq(S)
    BY <1>1, SubSeqIs
  <2>6. /\ Weight(<<s[k - 1]>>) = s[k - 1].size /\ s[k - 1].size \in Nat
        /\ Weight(SubSeq(s, k, Len(s))) \in Nat
        /\ Weight(SubSeq(s, k - 1, Len(s))) = Weight(<<s[k - 1]>>) + Weight(SubSeq(s, k, Len(s)))
    <3>1. Weight(<<s[k - 1]>>) = s[k - 1].size /\ s[k - 1].size \in Nat
      BY <2>4, WeightOne DEF Sized
    <3>2. Weight(<<s[k - 1]>> \o SubSeq(s, k, Len(s)))
             = Weight(<<s[k - 1]>>) + Weight(SubSeq(s, k, Len(s)))
      BY <2>4, <2>5, WeightConcat
    <3>3. Weight(SubSeq(s, k, Len(s))) \in Nat
      BY <2>5, WeightConcat
    <3> QED  BY <2>3, <3>1, <3>2, <3>3
  <2> QED  BY <2>2, <2>6
<1> HIDE DEF keeps
<1> QED  BY <1>3, <1>5, <1>6

LEMMA AppendIs ==
    ASSUME NEW S, NEW s \in Seq(S), NEW e \in S
    PROVE  /\ Append(s, e) \in Seq(S) /\ Len(Append(s, e)) = Len(s) + 1
           /\ \A i \in 1..Len(s) : Append(s, e)[i] = s[i]
           /\ Append(s, e)[Len(s) + 1] = e
BY AppendProperties

LEMMA TailIs ==
    ASSUME NEW S, NEW s \in Seq(S), s # <<>>
    PROVE  /\ Head(s) = s[1] /\ Head(s) \in S /\ Tail(s) \in Seq(S)
           /\ Len(Tail(s)) = Len(s) - 1 /\ Len(s) > 0
           /\ Tail(s) = SubSeq(s, 2, Len(s))
BY HeadTailProperties, TailIsSubSeq, EmptySeq

LEMMA NoneIs == ASSUME NEW S, NEW s \in Seq(S) PROVE s = <<>> <=> Len(s) = 0
BY EmptySeq, SeqEqual

\* A finite set of sizes has a largest.
LEMMA MaxIs ==
    ASSUME NEW S, IsFiniteSet(S), S \subseteq Nat, NEW e \in S
    PROVE  Max(S) \in S /\ e <= Max(S)
<1>0. PICK n \in Nat : ExistsSurjection(1..n, S)
  BY FS_NatSurjection
<1>1. PICK f \in [1..n -> S] : \A x \in S : \E i \in 1..n : f[i] = x
  BY <1>0 DEF ExistsSurjection, Surjection
<1> DEFINE B == {m \in 0..n : \E b \in Nat : \A i \in 1..m : f[i] <= b}
<1>2. 0 \in B
  OBVIOUS
<1>3. ASSUME NEW m \in 0..n, m \in B, m < n PROVE m + 1 \in B
  <2>1. PICK b \in Nat : \A i \in 1..m : f[i] <= b
    BY <1>3
  <2>2. f[m + 1] \in Nat
    <3>1. m + 1 \in 1..n
      BY <1>3
    <3> QED  BY <3>1
  <2>3. PICK c \in Nat : b <= c /\ f[m + 1] <= c
    BY <2>2
  <2>4. ASSUME NEW i \in 1..(m + 1) PROVE f[i] <= c
    <3>1. i \in 1..n /\ f[i] \in Nat
      <4>1. i \in 1..n
        BY <1>3
      <4> QED  BY <4>1
    <3>2. i \in 1..m \/ i = m + 1
      BY <1>3
    <3> QED  BY <2>1, <2>3, <3>1, <3>2
  <2> QED  BY <1>3, <2>4
<1>4. \E b \in Nat : \A x \in S : x <= b
  <2>1. n \in B
    <3> HIDE DEF B
    <3>1. 0..n \subseteq B
      BY <1>2, <1>3, Induction
    <3> QED  BY <3>1
  <2> QED  BY <1>1, <2>1
<1>5. PICK b \in {m \in Nat : \A x \in S : x <= m} :
         \A c \in {m \in Nat : \A x \in S : x <= m} : b <= c
  BY <1>4, LeastNat
<1>6. b \in S
  <2>1. CASE b = 0
    BY <1>5, <2>1
  <2>2. CASE b # 0 /\ b \notin S
    <3>1. b - 1 \in Nat /\ \A x \in S : x <= b - 1
      BY <1>5, <2>2
    <3> QED  BY <1>5, <3>1
  <2> QED  BY <2>1, <2>2
<1> QED  BY <1>5, <1>6 DEF Max

LEMMA MinIs ==
    ASSUME NEW a \in Int, NEW b \in Int
    PROVE  Min({a, b}) = (IF a <= b THEN a ELSE b) /\ Max({a, b}) = IF a <= b THEN b ELSE a
BY DEF Min, Max

-------------------------------------------------------------------------------
(* Lines and segments in their order.                                      *)

\* Lines numbered from n, and others from where those end, are numbered from n.
LEMMA NumberedJoin ==
    ASSUME NEW S, NEW s \in Seq(S), NEW t \in Seq(S), NEW n \in Int,
           Numbered(s, n), Numbered(t, n + Len(s))
    PROVE  Numbered(s \o t, n)
<1>1. /\ Len(s) \in Nat /\ Len(t) \in Nat /\ Len(s \o t) = Len(s) + Len(t)
      /\ \A i \in 1..Len(s) : (s \o t)[i] = s[i]
      /\ \A i \in 1..Len(t) : (s \o t)[Len(s) + i] = t[i]
  BY ConcatIs, SeqIs
<1>2. SUFFICES ASSUME NEW i \in 1..(Len(s) + Len(t)) PROVE (s \o t)[i].id = n + i - 1
  BY <1>1 DEF Numbered
<1>3. CASE i <= Len(s)
  BY <1>1, <1>3 DEF Numbered
<1>4. CASE i > Len(s)
  <2>1. i - Len(s) \in 1..Len(t) /\ Len(s) + (i - Len(s)) = i
    BY <1>1, <1>4
  <2>2. t[i - Len(s)].id = n + Len(s) + (i - Len(s)) - 1
    BY <2>1 DEF Numbered
  <2> QED  BY <1>1, <2>1, <2>2
<1> QED  BY <1>1, <1>3, <1>4

LEMMA NumberedAppend ==
    ASSUME NEW S, NEW s \in Seq(S), NEW e \in S, NEW n \in Int, Numbered(s, n), e.id = n + Len(s)
    PROVE  Numbered(Append(s, e), n)
<1>1. /\ Len(s) \in Nat /\ Len(Append(s, e)) = Len(s) + 1
      /\ \A i \in 1..Len(s) : Append(s, e)[i] = s[i]
      /\ Append(s, e)[Len(s) + 1] = e
  BY AppendIs, SeqIs
<1>2. SUFFICES ASSUME NEW i \in 1..(Len(s) + 1) PROVE Append(s, e)[i].id = n + i - 1
  BY <1>1 DEF Numbered
<1>3. CASE i = Len(s) + 1
  BY <1>1, <1>3
<1>4. CASE i \in 1..Len(s)
  BY <1>1, <1>4 DEF Numbered
<1> QED  BY <1>1, <1>3, <1>4

\* A part of numbered lines is numbered, from its first.
LEMMA NumberedSub ==
    ASSUME NEW S, NEW s \in Seq(S), NEW n \in Int, Numbered(s, n),
           NEW j \in Nat \ {0}, NEW k \in Nat, k <= Len(s), j <= k + 1
    PROVE  Numbered(SubSeq(s, j, k), n + j - 1)
<1>1. /\ Len(s) \in Nat /\ Len(SubSeq(s, j, k)) = k + 1 - j
      /\ \A i \in 1..(k + 1 - j) : SubSeq(s, j, k)[i] = s[j + i - 1]
  BY SubSeqIs, SeqIs
<1>2. SUFFICES ASSUME NEW i \in 1..(k + 1 - j) PROVE SubSeq(s, j, k)[i].id = n + j - 1 + i - 1
  BY <1>1 DEF Numbered
<1>3. j + i - 1 \in 1..Len(s)
  BY <1>1
<1>4. s[j + i - 1].id = n + (j + i - 1) - 1
  BY <1>3 DEF Numbered
<1> QED  BY <1>1, <1>4

Segment == [first : Nat \ {0}, size : Nat, lines : Nat \ {0}]

\* Segments that follow one another, up to line n.
Joined(s, n) ==
    /\ \A i \in 1..Len(s) : End(s[i]) = IF i = Len(s) THEN n ELSE s[i + 1].first
    /\ \A i, j \in 1..Len(s) : i < j => End(s[i]) <= s[j].first

\* Segments that follow one another differ in their first lines, in order.
LEMMA JoinedIs ==
    ASSUME NEW s \in Seq(Segment), NEW n \in Nat, Joined(s, n)
    PROVE  /\ \A i \in 1..Len(s) : s[i].first < End(s[i]) /\ End(s[i]) <= n /\ s[i].first \in Nat
           /\ \A i, j \in 1..Len(s) : s[i].first = s[j].first => i = j
           /\ \A i, j \in 1..Len(s) : i <= j => s[i].first <= s[j].first
<1>1. Len(s) \in Nat /\ \A i \in 1..Len(s) : s[i] \in Segment
  BY SeqIs
<1>2. \A i \in 1..Len(s) : /\ s[i].first \in Nat /\ s[i].first < End(s[i]) /\ End(s[i]) \in Nat
  BY <1>1 DEF Segment, End
<1>3. ASSUME NEW i \in 1..Len(s) PROVE End(s[i]) <= n
  <2>1. Len(s) \in 1..Len(s) /\ End(s[Len(s)]) = n
    BY <1>1 DEF Joined
  <2>2. CASE i < Len(s)
    <3>1. End(s[i]) <= s[Len(s)].first /\ s[Len(s)].first < n
      BY <1>2, <2>1, <2>2 DEF Joined
    <3> QED  BY <1>2, <2>1, <3>1
  <2> QED  BY <1>1, <1>2, <2>1, <2>2
<1>4. ASSUME NEW i \in 1..Len(s), NEW j \in 1..Len(s), i < j
      PROVE  s[i].first < s[j].first
  <2>1. End(s[i]) <= s[j].first
    BY <1>4 DEF Joined
  <2> QED  BY <1>2, <2>1
<1> QED  BY <1>1, <1>2, <1>3, <1>4

\* The last of segments that follow one another do so too.
LEMMA JoinedSub ==
    ASSUME NEW s \in Seq(Segment), NEW n \in Nat, Joined(s, n), NEW k \in 1..Len(s)
    PROVE  /\ SubSeq(s, k, Len(s)) \in Seq(Segment) /\ Joined(SubSeq(s, k, Len(s)), n)
           /\ Len(SubSeq(s, k, Len(s))) = Len(s) + 1 - k
           /\ \A i \in 1..(Len(s) + 1 - k) : SubSeq(s, k, Len(s))[i] = s[k + i - 1]
<1> DEFINE t == SubSeq(s, k, Len(s))
<1>1. /\ Len(s) \in Nat /\ t \in Seq(Segment) /\ Len(t) = Len(s) + 1 - k
      /\ \A i \in 1..(Len(s) + 1 - k) : t[i] = s[k + i - 1]
  BY SubSeqIs, SeqIs
<1> HIDE DEF t
<1>2. ASSUME NEW i \in 1..Len(t) PROVE End(t[i]) = IF i = Len(t) THEN n ELSE t[i + 1].first
  <2>1. k + i - 1 \in 1..Len(s) /\ (i = Len(t) <=> k + i - 1 = Len(s))
    BY <1>1
  <2>2. End(s[k + i - 1]) = IF k + i - 1 = Len(s) THEN n ELSE s[(k + i - 1) + 1].first
    BY <2>1 DEF Joined
  <2>3. t[i] = s[k + i - 1] /\ (i # Len(t) => t[i + 1] = s[(k + i - 1) + 1])
    <3>1. ASSUME i # Len(t) PROVE t[i + 1] = s[(k + i - 1) + 1]
      <4>1. i \in Nat /\ k \in Nat /\ Len(t) \in Nat
        BY <1>1
      <4>2. i + 1 \in 1..Len(t)
        BY <3>1, <4>1
      <4>3. t[i + 1] = s[k + (i + 1) - 1]
        BY <1>1, <4>2
      <4>4. k + (i + 1) - 1 = (k + i - 1) + 1
        BY <4>1
      <4> QED  BY <4>3, <4>4
    <3> QED  BY <1>1, <3>1
  <2> QED  BY <2>1, <2>2, <2>3
<1>3. ASSUME NEW i \in 1..Len(t), NEW j \in 1..Len(t), i < j PROVE End(t[i]) <= t[j].first
  <2>1. k + i - 1 \in 1..Len(s) /\ k + j - 1 \in 1..Len(s) /\ k + i - 1 < k + j - 1
    BY <1>1, <1>3
  <2>2. End(s[k + i - 1]) <= s[k + j - 1].first
    BY <2>1 DEF Joined
  <2> QED  BY <1>1, <2>2
<1>4. Joined(t, n)
  BY <1>2, <1>3 DEF Joined
<1> QED  BY <1>1, <1>4 DEF t

\* A segment more, which takes up where the last left off.
LEMMA JoinedAppend ==
    ASSUME NEW s \in Seq(Segment), NEW n \in Nat, Joined(s, n), NEW e \in Segment, e.first = n
    PROVE  Joined(Append(s, e), End(e))
<1> DEFINE t == Append(s, e)
<1>1. /\ Len(s) \in Nat /\ t \in Seq(Segment) /\ Len(t) = Len(s) + 1
      /\ \A i \in 1..Len(s) : t[i] = s[i] /\ End(s[i]) <= n
      /\ t[Len(s) + 1] = e
  BY AppendIs, SeqIs, JoinedIs
<1> HIDE DEF t
<1>2. ASSUME NEW i \in 1..Len(t) PROVE End(t[i]) = IF i = Len(t) THEN End(e) ELSE t[i + 1].first
  <2>1. CASE i = Len(s) + 1
    BY <1>1, <2>1
  <2>2. CASE i = Len(s) /\ i # 0
    BY <1>1, <2>2 DEF Joined
  <2>3. CASE i < Len(s)
    <3>1. i + 1 \in 1..Len(s) /\ End(s[i]) = s[i + 1].first
      BY <1>1, <2>3 DEF Joined
    <3> QED  BY <1>1, <2>3, <3>1
  <2> QED  BY <1>1, <2>1, <2>2, <2>3
<1>3. ASSUME NEW i \in 1..Len(t), NEW j \in 1..Len(t), i < j PROVE End(t[i]) <= t[j].first
  <2>1. i \in 1..Len(s) /\ t[i] = s[i] /\ End(s[i]) <= n
    BY <1>1, <1>3
  <2>2. CASE j = Len(s) + 1
    BY <1>1, <2>1, <2>2
  <2>3. CASE j \in 1..Len(s)
    <3>1. End(s[i]) <= s[j].first
      BY <1>3, <2>1, <2>3 DEF Joined
    <3> QED  BY <1>1, <2>1, <2>3, <3>1
  <2> QED  BY <1>1, <2>2, <2>3
<1> QED  BY <1>2, <1>3 DEF Joined, t

\* The last segment replaced by one that goes on from where it began.
LEMMA JoinedReplace ==
    ASSUME NEW s \in Seq(Segment), NEW n \in Nat, Joined(s, n), s # <<>>,
           NEW e \in Segment, e.first = Last(s).first
    PROVE  /\ Append(Front(s), e) \in Seq(Segment) /\ Joined(Append(Front(s), e), End(e))
           /\ Len(Append(Front(s), e)) = Len(s)
           /\ \A i \in 1..(Len(s) - 1) : Append(Front(s), e)[i] = s[i]
           /\ Append(Front(s), e)[Len(s)] = e
<1>1. Len(s) \in Nat /\ Len(s) > 0
  BY SeqIs, EmptySeq
<1>2. /\ Front(s) \in Seq(Segment) /\ Len(Front(s)) = Len(s) - 1
      /\ \A i \in 1..(Len(s) - 1) : Front(s)[i] = s[i]
  <2>1. PICK m \in Nat : m = Len(s) - 1
    BY <1>1
  <2>2. /\ SubSeq(s, 1, m) \in Seq(Segment) /\ Len(SubSeq(s, 1, m)) = m + 1 - 1
        /\ \A i \in 1..(m + 1 - 1) : SubSeq(s, 1, m)[i] = s[1 + i - 1]
    <3>1. 1 \in Nat \ {0} /\ m <= Len(s) /\ 1 <= m + 1
      BY <1>1, <2>1
    <3> QED  BY <3>1, SubSeqIs
  <2>3. Front(s) = SubSeq(s, 1, m)
    BY <2>1 DEF Front
  <2>4. m + 1 - 1 = m /\ \A i \in 1..m : 1 + i - 1 = i
    OBVIOUS
  <2>5. Len(Front(s)) = m /\ \A i \in 1..m : Front(s)[i] = s[i]
    BY <2>2, <2>3, <2>4
  <2> QED  BY <2>1, <2>2, <2>3, <2>5
<1>3. Joined(Front(s), Last(s).first)
  <2>1. ASSUME NEW i \in 1..(Len(s) - 1)
        PROVE  End(s[i]) = IF i = Len(s) - 1 THEN s[Len(s)].first ELSE s[i + 1].first
    BY <1>1 DEF Joined
  <2>2. ASSUME NEW i \in 1..(Len(s) - 1), NEW j \in 1..(Len(s) - 1), i < j PROVE End(s[i]) <= s[j].first
    BY <1>1, <2>2 DEF Joined
  <2>3. \A i \in 1..(Len(s) - 1) : i # Len(s) - 1 => Front(s)[i + 1] = s[i + 1]
    BY <1>1, <1>2
  <2> QED  BY <1>1, <1>2, <2>1, <2>2, <2>3 DEF Joined, Last
<1>4. Last(s).first \in Nat
  BY <1>1, SeqIs DEF Last, Segment
<1>5. Joined(Append(Front(s), e), End(e))
  BY <1>2, <1>3, <1>4, JoinedAppend
<1> QED  BY <1>1, <1>2, <1>5, AppendIs

-------------------------------------------------------------------------------
(* The spool.                                                              *)

\* A segment's file has its lines, the open one's but for those in the buffer.
Stored(i) ==
    LET f == segments[i].first
    IN /\ Numbered(disk[f], f) /\ Len(disk[f]) <= segments[i].lines
       /\ i < Len(segments) => Len(disk[f]) = segments[i].lines
       /\ i = Len(segments) /\ ~failed => Len(disk[f]) + Len(buffer) = segments[i].lines

\* What the writer has not flushed are the last lines, of the last segment.
BufferIs ==
    /\ buffer \in Seq(Line) /\ Numbered(buffer, nextSeq - Len(buffer))
    /\ failed => buffer = <<>>
    /\ IF segments = <<>> THEN buffer = <<>> ELSE Len(buffer) <= Last(segments).lines

\* A file is a segment's, and each segment has its file until the spool is removed.
DiskIs ==
    /\ \A f \in DOMAIN disk :
          /\ disk[f] \in Seq(Line)
          /\ \E i \in 1..Len(segments) : segments[i].first = f /\ Stored(i)
    /\ ~doomed => \A i \in 1..Len(segments) : segments[i].first \in DOMAIN disk

\* The history: segments that follow one another, on disk and in the buffer.
SpoolInv ==
    /\ nextSeq \in Nat \ {0} /\ failed \in BOOLEAN /\ doomed \in BOOLEAN
    /\ segments \in Seq(Segment) /\ Joined(segments, nextSeq)
    /\ BufferIs /\ DiskIs

\* What may become of the history in a step: it goes on, and its oldest go.
Grows ==
    /\ nextSeq <= nextSeq' /\ Oldest <= Oldest' /\ Oldest' \in Nat /\ (doomed => doomed')
    /\ \A i \in 1..Len(segments) :
          \/ End(segments[i]) <= Oldest'
          \/ \E j \in 1..Len(segments') :
                segments'[j].first = segments[i].first /\ segments[i].lines <= segments'[j].lines
    /\ \A f \in DOMAIN disk' : f >= nextSeq \/ (f \in DOMAIN disk /\ Len(disk[f]) <= Len(disk'[f]))

\* Nothing that is kept is older than the oldest.
LEMMA OldestIs ==
    ASSUME SpoolInv
    PROVE  /\ Oldest \in Nat \ {0} /\ Oldest <= nextSeq
           /\ \A i \in 1..Len(segments) : Oldest <= segments[i].first
<1>1. CASE segments = <<>>
  BY <1>1 DEF SpoolInv, Oldest
<1>2. CASE segments # <<>>
  <2>1. Len(segments) \in Nat /\ Len(segments) > 0 /\ segments[1] \in Segment
    BY <1>2, SeqIs, EmptySeq DEF SpoolInv
  <2>2. 1 \in 1..Len(segments) /\ Oldest = segments[1].first
    BY <1>2, <2>1 DEF Oldest
  <2>3. \A i \in 1..Len(segments) : segments[1].first <= segments[i].first
    BY <2>1, <2>2, JoinedIs DEF SpoolInv
  <2>4. /\ segments[1].first < End(segments[1]) /\ End(segments[1]) <= nextSeq
        /\ segments[1].first \in Nat
    BY <2>2, JoinedIs DEF SpoolInv
  <2>5. segments[1].first \in Nat \ {0} /\ nextSeq \in Nat
    BY <2>1 DEF Segment, SpoolInv
  <2>6. End(segments[1]) \in Nat
    BY <2>1 DEF Segment, End
  <2> QED  BY <2>2, <2>3, <2>4, <2>5, <2>6
<1> QED  BY <1>1, <1>2

\* With the buffer written out, every file that is there is whole.
LEMMA FlushedIs ==
    ASSUME SpoolInv, ~failed
    PROVE  /\ DOMAIN Flushed = DOMAIN disk
           /\ \A f \in DOMAIN disk :
                 /\ Flushed[f] \in Seq(Line) /\ Len(disk[f]) <= Len(Flushed[f])
                 /\ Numbered(Flushed[f], f)
                 /\ \E i \in 1..Len(segments) :
                       segments[i].first = f /\ Len(Flushed[f]) = segments[i].lines
<1>1. /\ segments \in Seq(Segment) /\ buffer \in Seq(Line) /\ Joined(segments, nextSeq)
      /\ Numbered(buffer, nextSeq - Len(buffer)) /\ nextSeq \in Nat
      /\ \A f \in DOMAIN disk : /\ disk[f] \in Seq(Line)
                                /\ \E i \in 1..Len(segments) : segments[i].first = f /\ Stored(i)
  BY DEF SpoolInv, BufferIs, DiskIs
<1>2. DOMAIN Flushed = DOMAIN disk
  BY DEF Flushed
<1>3. ASSUME NEW f \in DOMAIN disk
      PROVE  /\ Flushed[f] \in Seq(Line) /\ Len(disk[f]) <= Len(Flushed[f])
             /\ Numbered(Flushed[f], f)
             /\ \E i \in 1..Len(segments) :
                   segments[i].first = f /\ Len(Flushed[f]) = segments[i].lines
  <2>1. PICK i \in 1..Len(segments) : segments[i].first = f /\ Stored(i)
    BY <1>1
  <2>2. /\ Len(segments) \in Nat /\ segments # <<>> /\ segments[i] \in Segment
        /\ disk[f] \in Seq(Line) /\ Len(disk[f]) \in Nat /\ Len(buffer) \in Nat
    <3>1. Len(segments) \in Nat /\ segments[i] \in Segment /\ Len(segments) # 0
      BY <1>1, SeqIs
    <3>2. segments # <<>>
      BY <1>1, <3>1, NoneIs
    <3>3. disk[f] \in Seq(Line)
      BY <1>1
    <3>4. Len(disk[f]) \in Nat /\ Len(buffer) \in Nat
      BY <1>1, <3>3, SeqIs
    <3> QED  BY <3>1, <3>2, <3>3, <3>4
  <2>3. Flushed[f] = IF f = segments[Len(segments)].first THEN disk[f] \o buffer ELSE disk[f]
    BY <2>2 DEF Flushed, Last
  <2>4. Len(segments) \in 1..Len(segments)
    BY <2>2
  <2>5. f = segments[Len(segments)].first <=> i = Len(segments)
    BY <1>1, <2>1, <2>4, JoinedIs
  <2>6. CASE i = Len(segments)
    <3>1. Flushed[f] = disk[f] \o buffer
      BY <2>3, <2>5, <2>6
    <3>2. Numbered(disk[f], f) /\ Len(disk[f]) + Len(buffer) = segments[i].lines
      BY <2>1, <2>6 DEF Stored
    <3>3. End(segments[i]) = nextSeq
      BY <1>1, <2>1, <2>6 DEF Joined
    <3>4. f + Len(disk[f]) = nextSeq - Len(buffer) /\ f \in Int
      BY <2>1, <2>2, <3>2, <3>3 DEF End, Segment
    <3>5. Numbered(disk[f] \o buffer, f)
      BY <1>1, <2>2, <3>2, <3>4, NumberedJoin
    <3>6. disk[f] \o buffer \in Seq(Line) /\ Len(disk[f] \o buffer) = Len(disk[f]) + Len(buffer)
      BY <1>1, <2>2, ConcatIs
    <3> QED  BY <2>1, <2>2, <3>1, <3>2, <3>5, <3>6
  <2>7. CASE i # Len(segments)
    <3>1. i < Len(segments)
      BY <2>2, <2>7
    <3>2. Flushed[f] = disk[f]
      BY <2>3, <2>5, <2>7
    <3> QED  BY <2>1, <2>2, <3>1, <3>2 DEF Stored
  <2> QED  BY <2>6, <2>7
<1> QED  BY <1>2, <1>3

-------------------------------------------------------------------------------
(* An append.                                                              *)

Fresh(line) == Grown([first |-> nextSeq, size |-> 0, lines |-> 0], line)
Extended(line) ==
    IF OpensSegment THEN Append(segments, Fresh(line))
    ELSE Append(Front(segments), Grown(Last(segments), line))

\* A segment that takes a line has one more.
LEMMA GrownIs ==
    ASSUME NEW s \in [first : Nat, size : Nat, lines : Nat], NEW line, line.size \in Nat
    PROVE  /\ Grown(s, line) \in [first : Nat, size : Nat, lines : Nat]
           /\ Grown(s, line).first = s.first /\ Grown(s, line).lines = s.lines + 1
<1> DEFINE n == s.size + line.size  m == s.lines + 1
<1>1. n \in Nat /\ m \in Nat
  OBVIOUS
<1>2. Grown(s, line) = [s EXCEPT !.size = n, !.lines = m]
  BY DEF Grown
<1> HIDE DEF n, m
<1>3. /\ Grown(s, line) \in [first : Nat, size : Nat, lines : Nat]
      /\ Grown(s, line).first = s.first /\ Grown(s, line).lines = m
  BY <1>1, <1>2
<1> QED  BY <1>3 DEF m

\* With the line, the segments go on to the next number.
LEMMA ExtendedIs ==
    ASSUME SpoolInv, NEW line \in Line
    PROVE  LET all == Extended(line)
           IN /\ all \in Seq(Segment) /\ Joined(all, nextSeq + 1)
              /\ Len(all) > 0
              /\ OpensSegment => /\ Len(all) = Len(segments) + 1
                                 /\ \A i \in 1..Len(segments) : all[i] = segments[i]
                                 /\ all[Len(all)].first = nextSeq /\ all[Len(all)].lines = 1
              /\ ~OpensSegment => /\ Len(all) = Len(segments) /\ segments # <<>>
                                  /\ \A i \in 1..Len(segments) :
                                        i < Len(segments) => all[i] = segments[i]
                                  /\ all[Len(all)].first = Last(segments).first
                                  /\ all[Len(all)].lines = Last(segments).lines + 1
<1> DEFINE all == Extended(line)
<1>1. /\ segments \in Seq(Segment) /\ Len(segments) \in Nat /\ Joined(segments, nextSeq)
      /\ nextSeq \in Nat \ {0} /\ line.size \in Nat
  BY SeqIs, TailAssumption DEF SpoolInv, Line
<1>2. CASE OpensSegment
  <2>1. /\ Fresh(line) \in [first : Nat, size : Nat, lines : Nat]
        /\ Fresh(line).first = nextSeq /\ Fresh(line).lines = 1
    <3> DEFINE empty == [first |-> nextSeq, size |-> 0, lines |-> 0]
    <3>1. empty \in [first : Nat, size : Nat, lines : Nat] /\ empty.first = nextSeq /\ empty.lines = 0
      BY <1>1
    <3>2. Fresh(line) = Grown(empty, line)
      BY DEF Fresh
    <3> HIDE DEF empty
    <3> QED  BY <1>1, <3>1, <3>2, GrownIs
  <2>2. Fresh(line) \in Segment /\ End(Fresh(line)) = nextSeq + 1
    BY <1>1, <2>1 DEF Segment, End
  <2>3. all = Append(segments, Fresh(line))
    BY <1>2 DEF Extended
  <2>4. Joined(all, nextSeq + 1)
    <3>1. Fresh(line).first = nextSeq
      BY <2>1
    <3> QED  BY <1>1, <2>2, <2>3, <3>1, JoinedAppend
  <2>5. /\ all \in Seq(Segment) /\ Len(all) = Len(segments) + 1
        /\ \A i \in 1..Len(segments) : all[i] = segments[i]
        /\ all[Len(segments) + 1] = Fresh(line)
    BY <1>1, <2>2, <2>3, AppendIs
  <2> QED  BY <1>1, <1>2, <2>1, <2>4, <2>5
<1>3. CASE ~OpensSegment
  <2> DEFINE last == Last(segments)  grown == Grown(last, line)
  <2>1. segments # <<>> /\ Len(segments) > 0
    <3>1. segments # <<>>
      BY <1>3 DEF OpensSegment
    <3> QED  BY <1>1, <3>1, EmptySeq
  <2>2. last \in Segment /\ End(last) = nextSeq
    <3>1. Len(segments) \in 1..Len(segments)
      BY <1>1, <2>1
    <3> QED  BY <1>1, <3>1, SeqIs DEF Last, Joined
  <2>3. grown \in Segment /\ grown.first = last.first /\ grown.lines = last.lines + 1
    <3>1. last \in [first : Nat, size : Nat, lines : Nat] /\ last.first # 0 /\ last.lines \in Nat
      BY <2>2 DEF Segment
    <3> HIDE DEF last
    <3>2. grown \in [first : Nat, size : Nat, lines : Nat]
          /\ grown.first = last.first /\ grown.lines = last.lines + 1
      BY <1>1, <3>1, GrownIs
    <3> QED  BY <3>1, <3>2 DEF Segment
  <2>4. End(grown) = nextSeq + 1
    BY <2>2, <2>3 DEF End, Segment
  <2> HIDE DEF grown
  <2>5. all = Append(Front(segments), grown)
    BY <1>3 DEF Extended, grown
  <2>6. /\ all \in Seq(Segment) /\ Joined(all, End(grown)) /\ Len(all) = Len(segments)
        /\ \A i \in 1..(Len(segments) - 1) : all[i] = segments[i]
        /\ all[Len(segments)] = grown
    BY <1>1, <2>1, <2>3, <2>5, JoinedReplace
  <2>7. \A i \in 1..Len(segments) : i < Len(segments) => i \in 1..(Len(segments) - 1)
    BY <1>1
  <2> QED  BY <1>3, <2>1, <2>3, <2>4, <2>6, <2>7
<1> QED  BY <1>2, <1>3

\* The segments after an append are the last of those it extends.
LEMMA AppendSegments ==
    ASSUME SpoolInv, NEW line \in Line, AppendLine(line)
    PROVE  LET all == Extended(line)
           IN \E k \in 1..Len(all) :
                 /\ segments' \in Seq(Segment) /\ Joined(segments', nextSeq')
                 /\ Len(segments') = Len(all) + 1 - k
                 /\ \A i \in 1..(Len(all) + 1 - k) : segments'[i] = all[k + i - 1]
<1> DEFINE all == Extended(line)
<1>1. all \in Seq(Segment) /\ Joined(all, nextSeq + 1) /\ Len(all) > 0 /\ nextSeq \in Nat
  BY ExtendedIs DEF SpoolInv
<1>2. segments' = Newest(all, MaxBytes) /\ nextSeq' = nextSeq + 1
  BY DEF AppendLine, Extended, Fresh, Rotated
<1> HIDE DEF all
<1>3. all # <<>> /\ MaxBytes \in Nat /\ Sized(Segment)
  <2>1. all # <<>>
    BY <1>1, NoneIs
  <2> QED  BY <2>1, SpoolAssumption DEF Sized, Segment
<1>4. PICK k \in 1..Len(all) : segments' = SubSeq(all, k, Len(all))
  BY <1>1, <1>2, <1>3, NewestIs
<1>5. nextSeq + 1 \in Nat
  BY <1>1
<1>6. /\ SubSeq(all, k, Len(all)) \in Seq(Segment) /\ Joined(SubSeq(all, k, Len(all)), nextSeq + 1)
      /\ Len(SubSeq(all, k, Len(all))) = Len(all) + 1 - k
      /\ \A i \in 1..(Len(all) + 1 - k) : SubSeq(all, k, Len(all))[i] = all[k + i - 1]
  BY <1>1, <1>5, JoinedSub
<1> QED  BY <1>2, <1>4, <1>6 DEF all

\* The files after an append: those of the segments that stay, the buffer
\* written out if another is opened.
LEMMA AppendFiles ==
    ASSUME SpoolInv, NEW line \in Line, AppendLine(line)
    PROVE  /\ \A f \in DOMAIN disk' :
                 /\ \E j \in 1..Len(segments') : segments'[j].first = f
                 /\ IF OpensSegment
                    THEN \/ f = nextSeq /\ disk'[f] = <<>>
                         \/ f \in DOMAIN disk /\ disk'[f] = Flushed[f]
                    ELSE f \in DOMAIN disk /\ disk'[f] = disk[f]
           /\ ~doomed => \A j \in 1..Len(segments') : segments'[j].first \in DOMAIN disk'
<1> DEFINE all == Extended(line)
           files == IF ~OpensSegment THEN disk
                    ELSE [f \in DOMAIN disk \cup {nextSeq} |->
                             IF f = nextSeq THEN <<>> ELSE Flushed[f]]
           gone == {s.first : s \in ToSet(all)} \ {s.first : s \in ToSet(segments')}
<1>1. disk' = Restrict(files, DOMAIN files \ gone) /\ ~failed
  BY DEF AppendLine, Extended, Fresh
<1>2. DOMAIN disk' = DOMAIN files \ gone /\ \A f \in DOMAIN disk' : disk'[f] = files[f]
  BY <1>1 DEF Restrict
<1>3. PICK k \in 1..Len(all) :
         /\ segments' \in Seq(Segment) /\ Len(segments') = Len(all) + 1 - k
         /\ \A i \in 1..(Len(all) + 1 - k) : segments'[i] = all[k + i - 1]
  BY AppendSegments
<1>4. /\ all \in Seq(Segment) /\ Len(all) \in Nat /\ DOMAIN all = 1..Len(all)
      /\ segments \in Seq(Segment) /\ Len(segments) \in Nat
      /\ OpensSegment => /\ Len(all) = Len(segments) + 1
                         /\ \A i \in 1..Len(segments) : all[i] = segments[i]
                         /\ all[Len(all)].first = nextSeq
      /\ ~OpensSegment => /\ Len(all) = Len(segments) /\ Len(segments) > 0
                          /\ \A i \in 1..Len(segments) : i < Len(segments) => all[i] = segments[i]
                          /\ all[Len(all)].first = segments[Len(segments)].first
  <2>1. all \in Seq(Segment) /\ segments \in Seq(Segment) /\ Len(all) > 0
    BY ExtendedIs DEF SpoolInv
  <2> QED  BY <2>1, ExtendedIs, SeqIs DEF Last
<1>5. DOMAIN segments' = 1..Len(segments')
  BY <1>3, SeqIs
<1> HIDE DEF all
<1>a. Len(all) \in Nat /\ Len(segments) \in Nat
  BY <1>4
<1>6. ASSUME NEW i \in 1..Len(segments) PROVE all[i].first = segments[i].first /\ i \in 1..Len(all)
  <2>1. CASE OpensSegment
    BY <1>4, <2>1
  <2>2. CASE ~OpensSegment
    <3>1. Len(all) = Len(segments)
      BY <1>4, <2>2
    <3>2. i \in 1..Len(all) /\ (i < Len(segments) \/ i = Len(all))
      BY <1>a, <3>1
    <3>3. i < Len(segments) => all[i].first = segments[i].first
      BY <1>4, <2>2
    <3>4. i = Len(all) => all[i].first = segments[i].first
      BY <1>4, <2>2, <3>1
    <3> QED  BY <3>2, <3>3, <3>4
  <2> QED  BY <2>1, <2>2
<1>7. DOMAIN Flushed = DOMAIN disk
  BY <1>1, FlushedIs
<1>8. DOMAIN files = IF OpensSegment THEN {nextSeq} \cup DOMAIN disk ELSE DOMAIN disk
  <2> HIDE DEF gone
  <2> QED  OBVIOUS
<1>9. ASSUME NEW f \in DOMAIN files PROVE \E i \in 1..Len(all) : all[i].first = f
  <2>1. CASE f \in DOMAIN disk
    <3>1. PICK i \in 1..Len(segments) : segments[i].first = f
      BY <2>1 DEF SpoolInv, DiskIs
    <3> QED  BY <1>6, <3>1
  <2>2. CASE OpensSegment /\ f = nextSeq
    <3>1. Len(all) \in 1..Len(all)
      BY <1>4, <2>2
    <3> QED  BY <1>4, <2>2, <3>1
  <2> QED  BY <1>8, <1>9, <2>1, <2>2
<1>10. ASSUME NEW f \in DOMAIN disk'
       PROVE  \E j \in 1..Len(segments') : segments'[j].first = f
  <2>1. PICK i \in 1..Len(all) : all[i].first = f
    BY <1>2, <1>9
  <2>2. f \in {s.first : s \in ToSet(all)}
    BY <1>4, <2>1 DEF ToSet
  <2>3. f \in {s.first : s \in ToSet(segments')}
    BY <1>2, <2>2
  <2> HIDE DEF gone, files
  <2>4. PICK j \in DOMAIN segments' : segments'[j].first = f
    BY <2>3 DEF ToSet
  <2> QED  BY <1>5, <2>4
<1>11. ASSUME NEW f \in DOMAIN disk'
       PROVE  IF OpensSegment
              THEN \/ f = nextSeq /\ disk'[f] = <<>>
                   \/ f \in DOMAIN disk /\ disk'[f] = Flushed[f]
              ELSE f \in DOMAIN disk /\ disk'[f] = disk[f]
  <2>1. f \in DOMAIN files /\ disk'[f] = files[f]
    BY <1>2
  <2> HIDE DEF gone
  <2>2. CASE OpensSegment
    <3>1. f = nextSeq => files[f] = <<>>
      BY <2>2
    <3>2. f # nextSeq /\ f \in DOMAIN disk => files[f] = Flushed[f]
      BY <1>7, <2>2
    <3> QED  BY <1>8, <2>1, <2>2, <3>1, <3>2
  <2>3. CASE ~OpensSegment
    BY <1>8, <2>1, <2>3
  <2> QED  BY <2>2, <2>3
<1>12. ASSUME ~doomed, NEW j \in 1..Len(segments') PROVE segments'[j].first \in DOMAIN disk'
  <2>1. segments'[j] = all[k + j - 1] /\ k + j - 1 \in 1..Len(all)
    <3>1. j \in 1..(Len(all) + 1 - k)
      BY <1>3
    <3>2. segments'[j] = all[k + j - 1]
      BY <1>3, <3>1
    <3>3. k + j - 1 \in 1..Len(all)
      BY <1>a, <3>1
    <3> QED  BY <3>2, <3>3
  <2>2. \A i \in 1..Len(segments) : segments[i].first \in DOMAIN disk
    BY <1>12 DEF SpoolInv, DiskIs
  <2>3. segments'[j].first \in DOMAIN files
    <3>1. CASE k + j - 1 \in 1..Len(segments)
      BY <1>6, <1>8, <2>1, <2>2, <3>1
    <3>2. CASE k + j - 1 \notin 1..Len(segments)
      <4>1. PICK i \in 1..Len(all) : i = k + j - 1
        BY <2>1
      <4>2. Len(all) = Len(segments) \/ (OpensSegment /\ Len(all) = Len(segments) + 1)
        <5>1. CASE OpensSegment
          BY <1>4, <5>1
        <5>2. CASE ~OpensSegment
          <6>1. Len(all) = Len(segments)
            BY <1>4, <5>2
          <6> QED  BY <6>1
        <5> QED  BY <5>1, <5>2
      <4>3. i \notin 1..Len(segments)
        BY <3>2, <4>1
      <4>4. OpensSegment /\ i = Len(all)
        BY <1>a, <4>2, <4>3
      <4> QED  BY <1>4, <1>8, <2>1, <4>1, <4>4
    <3> QED  BY <3>1, <3>2
  <2>4. segments'[j].first \in {s.first : s \in ToSet(segments')}
    BY <1>5 DEF ToSet
  <2> QED  BY <1>2, <2>3, <2>4
<1> QED  BY <1>10, <1>11, <1>12

\* An append keeps the history, but for its oldest.
LEMMA AppendInv ==
    ASSUME SpoolInv, NEW line \in Line, line.id = nextSeq, AppendLine(line)
    PROVE  SpoolInv' /\ Grows
<1> DEFINE all == Extended(line)
<1>1. /\ ~failed /\ ~failed' /\ failed' = failed /\ doomed' = doomed /\ nextSeq' = nextSeq + 1
      /\ buffer' = IF OpensSegment THEN <<line>> ELSE Append(buffer, line)
  BY DEF AppendLine
<1>2. PICK k \in 1..Len(all) :
         /\ segments' \in Seq(Segment) /\ Joined(segments', nextSeq')
         /\ Len(segments') = Len(all) + 1 - k
         /\ \A i \in 1..(Len(all) + 1 - k) : segments'[i] = all[k + i - 1]
  BY AppendSegments
<1>3. /\ all \in Seq(Segment) /\ Joined(all, nextSeq + 1) /\ Len(all) \in Nat /\ Len(all) > 0
      /\ nextSeq \in Nat \ {0} /\ Joined(segments, nextSeq) /\ doomed \in BOOLEAN
      /\ segments \in Seq(Segment) /\ Len(segments) \in Nat
      /\ buffer \in Seq(Line) /\ Len(buffer) \in Nat /\ Numbered(buffer, nextSeq - Len(buffer))
  BY ExtendedIs, SeqIs DEF SpoolInv, BufferIs
<1>4. ASSUME OpensSegment
      PROVE  /\ Len(all) = Len(segments) + 1
             /\ \A i \in 1..Len(segments) : all[i] = segments[i]
             /\ all[Len(all)].first = nextSeq /\ all[Len(all)].lines = 1
  BY <1>4, ExtendedIs
<1>5. ASSUME ~OpensSegment
      PROVE  /\ Len(all) = Len(segments) /\ segments # <<>>
             /\ \A i \in 1..Len(segments) : i < Len(segments) => all[i] = segments[i]
             /\ all[Len(all)].first = segments[Len(segments)].first
             /\ all[Len(all)].lines = segments[Len(segments)].lines + 1
  BY <1>5, ExtendedIs DEF Last
<1> HIDE DEF all
<1>6. /\ k \in Nat /\ k > 0 /\ k <= Len(all) /\ nextSeq + 1 \in Nat
      /\ Len(segments') \in Nat /\ Len(segments') > 0
  BY <1>2, <1>3
<1>7. /\ segments' # <<>> /\ Last(segments)' = all[Len(all)]
  <2>1. Len(segments') \in 1..(Len(all) + 1 - k) /\ k + Len(segments') - 1 = Len(all)
    BY <1>2, <1>3, <1>6
  <2>2. segments' # <<>>
    BY <1>2, <1>6, NoneIs
  <2>3. segments'[Len(segments')] = all[Len(all)]
    BY <1>2, <2>1
  <2> QED  BY <2>2, <2>3 DEF Last
\* Where a segment of before is among those extended.
<1>8. ASSUME NEW i \in 1..Len(segments)
      PROVE  /\ i \in 1..Len(all) /\ all[i].first = segments[i].first
             /\ segments[i].lines <= all[i].lines
             /\ i < Len(all) => all[i] = segments[i]
  <2>1. segments[i].lines \in Nat
    <3>1. segments[i] \in Segment
      BY <1>3, SeqIs
    <3> QED  BY <3>1 DEF Segment
  <2>2. CASE OpensSegment
    <3>1. all[i] = segments[i] /\ Len(all) = Len(segments) + 1
      BY <1>4, <2>2
    <3> QED  BY <1>3, <2>1, <3>1
  <2>3. CASE ~OpensSegment
    <3>1. Len(all) = Len(segments)
      BY <1>5, <2>3
    <3>2. CASE i < Len(segments)
      <4>1. all[i] = segments[i]
        BY <1>5, <2>3, <3>2
      <4> QED  BY <1>3, <2>1, <3>1, <4>1
    <3>3. CASE i = Len(segments)
      <4>1. all[i].first = segments[i].first /\ all[i].lines = segments[i].lines + 1
        BY <1>5, <2>3, <3>1, <3>3
      <4> QED  BY <1>3, <2>1, <3>1, <3>3, <4>1
    <3> QED  BY <1>3, <3>2, <3>3
  <2> QED  BY <2>2, <2>3
\* Where a segment of after is among them.
<1>9. ASSUME NEW j \in 1..Len(segments')
      PROVE  /\ k + j - 1 \in 1..Len(all) /\ segments'[j] = all[k + j - 1]
             /\ j = Len(segments') <=> k + j - 1 = Len(all)
  <2>1. j \in 1..(Len(all) + 1 - k)
    BY <1>2
  <2>2. segments'[j] = all[k + j - 1]
    BY <1>2, <2>1
  <2>3. k + j - 1 \in 1..Len(all) /\ (j = Len(segments') <=> k + j - 1 = Len(all))
    BY <1>2, <1>3, <1>6, <2>1
  <2> QED  BY <2>2, <2>3
<1>10. BufferIs'
  <2>1. Len(buffer) <= IF segments = <<>> THEN 0 ELSE segments[Len(segments)].lines
    <3>1. segments = <<>> => Len(buffer) = 0
      BY <1>3, NoneIs DEF SpoolInv, BufferIs
    <3> QED  BY <3>1 DEF SpoolInv, BufferIs, Last
  <2>2. CASE OpensSegment
    <3>1. buffer' = <<line>> /\ all[Len(all)].lines = 1
      BY <1>1, <1>4, <2>2
    <3>2. buffer' \in Seq(Line) /\ Len(buffer') = 1 /\ buffer'[1] = line
      BY <3>1
    <3>3. Numbered(buffer', nextSeq' - Len(buffer'))
      <4>1. nextSeq' - Len(buffer') = nextSeq /\ nextSeq \in Int
        BY <1>1, <1>3, <3>2
      <4>2. \A i \in 1..1 : nextSeq = nextSeq + i - 1 /\ i = 1
        BY <4>1
      <4> QED  BY <1>3, <3>2, <4>1, <4>2 DEF Numbered
    <3> QED  BY <1>1, <1>7, <3>1, <3>2, <3>3 DEF BufferIs
  <2>3. CASE ~OpensSegment
    <3>1. buffer' = Append(buffer, line) /\ all[Len(all)].lines = segments[Len(segments)].lines + 1
      BY <1>1, <1>5, <2>3
    <3>2. /\ buffer' \in Seq(Line) /\ Len(buffer') = Len(buffer) + 1
          /\ \A i \in 1..Len(buffer) : buffer'[i] = buffer[i]
          /\ buffer'[Len(buffer) + 1] = line
      BY <1>3, <3>1, AppendIs
    <3>3. Numbered(buffer', nextSeq' - Len(buffer'))
      <4>1. PICK n \in Int : n = nextSeq - Len(buffer)
        <5>1. nextSeq \in Nat /\ Len(buffer) \in Nat
          BY <1>3
        <5>2. nextSeq - Len(buffer) \in Int
          BY <5>1
        <5> QED  BY <5>2
      <4>2. Numbered(buffer', n)
        <5>1. line.id = n + Len(buffer) /\ Numbered(buffer, n)
          BY <1>3, <4>1
        <5> QED  BY <1>3, <3>1, <5>1, NumberedAppend
      <4>3. nextSeq' = nextSeq + 1 /\ Len(buffer') = Len(buffer) + 1
        BY <1>1, <3>2
      <4> QED  BY <1>3, <4>1, <4>2, <4>3
    <3>4. Len(buffer') <= all[Len(all)].lines
      <4>1. segments[Len(segments)].lines \in Nat /\ segments # <<>>
        <5>1. segments # <<>> /\ Len(segments) \in 1..Len(segments)
          BY <1>3, <1>5, <2>3
        <5>2. segments[Len(segments)] \in Segment
          BY <1>3, <5>1, SeqIs
        <5> QED  BY <5>1, <5>2 DEF Segment
      <4> QED  BY <1>3, <2>1, <3>1, <3>2, <4>1
    <3> QED  BY <1>1, <1>7, <3>2, <3>3, <3>4 DEF BufferIs
  <2> QED  BY <2>2, <2>3
<1>11. ASSUME NEW f \in DOMAIN disk'
       PROVE  /\ disk'[f] \in Seq(Line)
              /\ \E j \in 1..Len(segments') : segments'[j].first = f /\ Stored(j)'
              /\ f >= nextSeq \/ (f \in DOMAIN disk /\ Len(disk[f]) <= Len(disk'[f]))
  <2>1. PICK j \in 1..Len(segments') : segments'[j].first = f
    BY AppendFiles
  <2>2. k + j - 1 \in 1..Len(all) /\ segments'[j] = all[k + j - 1]
        /\ (j = Len(segments') <=> k + j - 1 = Len(all)) /\ all[k + j - 1].first = f
    BY <1>9, <2>1
  <2>3. PICK p \in 1..Len(all) : p = k + j - 1
    BY <2>2
  <2>4. /\ segments'[j] = all[p] /\ all[p].first = f /\ all[p] \in Segment
        /\ j = Len(segments') <=> p = Len(all)
    BY <1>3, <2>2, <2>3, SeqIs
  <2>5. \A i \in 1..Len(segments) : segments[i].first = f => i = p
    <3>1. ASSUME NEW i \in 1..Len(segments), segments[i].first = f PROVE i = p
      <4>1. i \in 1..Len(all) /\ all[i].first = all[p].first
        BY <1>8, <2>4, <3>1
      <4> QED  BY <1>3, <1>6, <4>1, JoinedIs
    <3> QED  BY <3>1
  <2>6. f \in Nat /\ j <= Len(segments') /\ p <= Len(all)
    BY <1>6, <2>4 DEF Segment
  <2>7. CASE OpensSegment /\ f = nextSeq /\ disk'[f] = <<>>
    <3>1. /\ disk'[f] \in Seq(Line) /\ Len(disk'[f]) = 0 /\ Numbered(disk'[f], f)
      BY <2>7 DEF Numbered
    <3>2. p = Len(all)
      <4>1. Len(all) \in 1..Len(all) /\ all[Len(all)].first = all[p].first
        BY <1>3, <1>4, <2>4, <2>7
      <4> QED  BY <1>3, <1>6, <4>1, JoinedIs
    <3>3. segments'[j].lines = 1 /\ j = Len(segments') /\ Len(buffer') = 1
      BY <1>1, <1>4, <2>4, <2>7, <3>2
    <3>4. Stored(j)'
      BY <2>1, <3>1, <3>3 DEF Stored
    <3> QED  BY <1>3, <2>1, <2>6, <2>7, <3>1, <3>4
  <2>8. CASE OpensSegment /\ f \in DOMAIN disk /\ disk'[f] = Flushed[f]
    <3>1. /\ disk'[f] \in Seq(Line) /\ Len(disk[f]) <= Len(disk'[f]) /\ Numbered(disk'[f], f)
      BY <1>1, <2>8, FlushedIs
    <3>2. PICK i \in 1..Len(segments) : segments[i].first = f /\ Len(Flushed[f]) = segments[i].lines
      BY <1>1, <2>8, FlushedIs
    <3>3. i = p
      BY <2>5, <3>2
    <3>4. all[p] = segments[p] /\ p < Len(all)
      <4>1. Len(all) = Len(segments) + 1 /\ all[i] = segments[i]
        BY <1>4, <2>8
      <4> QED  BY <1>3, <3>3, <4>1
    <3>5. Len(disk'[f]) = segments'[j].lines /\ j < Len(segments')
      <4>1. Len(disk'[f]) = segments'[j].lines
        BY <2>4, <2>8, <3>2, <3>3, <3>4
      <4>2. j # Len(segments')
        BY <1>3, <2>4, <3>4
      <4> QED  BY <1>6, <4>1, <4>2
    <3>6. segments'[j].lines \in Nat
      BY <2>4 DEF Segment
    <3>7. Stored(j)'
      BY <1>6, <2>1, <3>1, <3>5, <3>6 DEF Stored
    <3> QED  BY <2>1, <2>8, <3>1, <3>7
  <2>9. CASE ~OpensSegment /\ f \in DOMAIN disk /\ disk'[f] = disk[f]
    <3>1. disk[f] \in Seq(Line)
      BY <2>9 DEF SpoolInv, DiskIs
    <3>2. PICK i \in 1..Len(segments) : segments[i].first = f /\ Stored(i)
      BY <2>9 DEF SpoolInv, DiskIs
    <3>3. i = p /\ Len(all) = Len(segments) /\ Len(disk[f]) \in Nat /\ segments[p].lines \in Nat
      <4>1. i = p
        BY <2>5, <3>2
      <4>2. Len(all) = Len(segments)
        BY <1>5, <2>9
      <4>3. segments[p] \in Segment
        BY <1>3, <4>1, SeqIs
      <4> QED  BY <3>1, <4>1, <4>2, <4>3, SeqIs DEF Segment
    <3>4. CASE p < Len(all)
      <4>1. all[p] = segments[p]
        BY <1>8, <3>3, <3>4
      <4>2. j # Len(segments') /\ j < Len(segments')
        BY <1>6, <2>4, <3>4
      <4>3. Numbered(disk[f], f) /\ Len(disk[f]) = segments[p].lines
        BY <3>2, <3>3, <3>4 DEF Stored
      <4>4. Stored(j)'
        BY <2>1, <2>4, <2>9, <3>3, <4>1, <4>2, <4>3 DEF Stored
      <4> QED  BY <2>1, <2>9, <3>1, <3>3, <4>4
    <3>5. CASE p = Len(all)
      <4>1. j = Len(segments') /\ segments'[j].lines = segments[p].lines + 1
        BY <1>5, <2>4, <2>9, <3>3, <3>5
      <4>2. Numbered(disk[f], f) /\ Len(disk[f]) + Len(buffer) = segments[p].lines
        BY <1>1, <3>2, <3>3, <3>5 DEF Stored
      <4>3. Len(buffer') = Len(buffer) + 1
        <5>1. buffer' = Append(buffer, line)
          BY <1>1, <2>9
        <5> QED  BY <1>3, <5>1, AppendIs
      <4>4. Len(disk'[f]) + Len(buffer') = segments'[j].lines /\ Len(disk'[f]) <= segments'[j].lines
        BY <1>3, <2>9, <3>3, <4>1, <4>2, <4>3
      <4>5. Stored(j)'
        BY <1>6, <2>1, <2>9, <4>1, <4>2, <4>4 DEF Stored
      <4> QED  BY <2>1, <2>9, <3>1, <3>3, <4>5
    <3> QED  BY <2>6, <3>3, <3>4, <3>5
  <2> QED  BY <2>7, <2>8, <2>9, AppendFiles
<1>12. DiskIs'
  BY <1>1, <1>11, AppendFiles DEF DiskIs
<1>13. SpoolInv'
  BY <1>1, <1>2, <1>3, <1>10, <1>12 DEF SpoolInv
<1>14. Oldest' = all[k].first /\ Oldest <= Oldest' /\ Oldest' \in Nat
  <2>1. Oldest' = all[k].first
    <3>1. 1 \in 1..Len(segments') /\ k + 1 - 1 = k
      BY <1>6
    <3> QED  BY <1>7, <1>9, <3>1 DEF Oldest
  <2>2. 1 \in 1..Len(all) /\ 1 <= k
    BY <1>3, <1>6
  <2>3. all[1].first <= all[k].first
    BY <1>3, <1>6, <2>2, JoinedIs
  <2>4. all[1].first = Oldest
    <3>1. CASE segments = <<>>
      <4>1. OpensSegment /\ Len(segments) = 0
        BY <3>1 DEF OpensSegment
      <4>2. Len(all) = 1 /\ all[Len(all)].first = nextSeq
        BY <1>4, <4>1
      <4> QED  BY <3>1, <4>2 DEF Oldest
    <3>2. CASE segments # <<>>
      <4>1. 1 \in 1..Len(segments)
        BY <1>3, <3>2, EmptySeq
      <4> QED  BY <1>8, <3>2, <4>1 DEF Oldest
    <3> QED  BY <3>1, <3>2
  <2>5. all[k].first \in Nat
    BY <1>3, <1>6, JoinedIs
  <2> QED  BY <2>1, <2>3, <2>4, <2>5
<1>15. ASSUME NEW i \in 1..Len(segments)
       PROVE  \/ End(segments[i]) <= Oldest'
              \/ \E j \in 1..Len(segments') :
                    segments'[j].first = segments[i].first /\ segments[i].lines <= segments'[j].lines
  <2>1. CASE i < k
    <3>1. i \in 1..Len(all) /\ i < Len(all)
      BY <1>6, <2>1
    <3>2. all[i] = segments[i]
      BY <1>8, <3>1
    <3>3. End(all[i]) <= all[k].first
      BY <1>3, <2>1, <3>1 DEF Joined
    <3> QED  BY <1>14, <3>2, <3>3
  <2>2. CASE i >= k
    <3>1. i \in 1..Len(all)
      BY <1>8
    <3>2. PICK j \in 1..Len(segments') : k + j - 1 = i
      <4>1. i - k + 1 \in 1..Len(segments') /\ k + (i - k + 1) - 1 = i
        BY <1>2, <1>3, <1>6, <2>2, <3>1
      <4> QED  BY <4>1
    <3>3. segments'[j] = all[i]
      BY <1>9, <3>2
    <3> QED  BY <1>8, <3>3
  <2> QED  BY <1>6, <2>1, <2>2
<1>16. Grows
  BY <1>1, <1>3, <1>11, <1>14, <1>15 DEF Grows
<1> QED  BY <1>13, <1>16

-------------------------------------------------------------------------------
(* The other steps of the spool.                                           *)

\* What leaves the segments alone.
LEMMA SameSegments ==
    ASSUME SpoolInv, UNCHANGED <<segments, nextSeq>>, doomed => doomed',
           \A f \in DOMAIN disk' : f \in DOMAIN disk /\ Len(disk[f]) <= Len(disk'[f])
    PROVE  Grows
<1>1. nextSeq \in Nat /\ Oldest' = Oldest /\ Oldest \in Nat
  BY OldestIs DEF SpoolInv, Oldest
<1>2. ASSUME NEW i \in 1..Len(segments)
      PROVE  \E j \in 1..Len(segments') :
                segments'[j].first = segments[i].first /\ segments[i].lines <= segments'[j].lines
  <2>1. segments[i] \in Segment
    BY SeqIs DEF SpoolInv
  <2>2. segments[i].lines <= segments[i].lines
    BY <2>1 DEF Segment
  <2> QED  BY <2>2
<1>3. nextSeq <= nextSeq' /\ Oldest <= Oldest' /\ Oldest' \in Nat
  BY <1>1
<1> QED  BY <1>2, <1>3 DEF Grows

\* The open segment is closed for good, its buffer lost.
LEMMA CloseInv ==
    ASSUME SpoolInv, UNCHANGED <<segments, nextSeq, disk>>, failed' = TRUE, buffer' = <<>>,
           doomed' \in BOOLEAN, doomed => doomed'
    PROVE  SpoolInv' /\ Grows
<1>1. /\ nextSeq \in Nat \ {0} /\ segments \in Seq(Segment) /\ Joined(segments, nextSeq)
      /\ \A f \in DOMAIN disk : /\ disk[f] \in Seq(Line)
                                /\ \E i \in 1..Len(segments) : segments[i].first = f /\ Stored(i)
      /\ ~doomed => \A i \in 1..Len(segments) : segments[i].first \in DOMAIN disk
  BY DEF SpoolInv, DiskIs
<1>2. BufferIs'
  <2>1. buffer' \in Seq(Line) /\ Len(buffer') = 0
    OBVIOUS
  <2>2. Numbered(buffer', nextSeq' - Len(buffer'))
    BY <2>1 DEF Numbered
  <2>3. segments # <<>> => Last(segments).lines \in Nat
    <3>1. ASSUME segments # <<>> PROVE Last(segments).lines \in Nat
      <4>1. Len(segments) \in 1..Len(segments)
        BY <1>1, <3>1, SeqIs, NoneIs
      <4>2. Last(segments) \in Segment
        BY <1>1, <4>1, SeqIs DEF Last
      <4> QED  BY <4>2 DEF Segment
    <3> QED  BY <3>1
  <2>4. segments # <<>> => Len(buffer') <= Last(segments)'.lines
    BY <2>1, <2>3 DEF Last
  <2> QED  BY <2>1, <2>2, <2>4 DEF BufferIs
<1>3. \A i \in 1..Len(segments) : Stored(i) => Stored(i)'
  BY DEF Stored
<1>4. DiskIs'
  BY <1>1, <1>3 DEF DiskIs
<1>5. \A f \in DOMAIN disk : Len(disk[f]) <= Len(disk[f])
  BY <1>1, SeqIs
<1>6. Grows
  BY <1>5, SameSegments
<1> QED  BY <1>1, <1>2, <1>4, <1>6 DEF SpoolInv

\* Files go from a directory that is doomed, or none does.
LEMMA RemoveInv ==
    ASSUME SpoolInv, UNCHANGED <<segments, nextSeq, failed, buffer>>,
           doomed' \in BOOLEAN, doomed => doomed', doomed' \/ disk' = disk,
           DOMAIN disk' \subseteq DOMAIN disk, \A f \in DOMAIN disk' : disk'[f] = disk[f]
    PROVE  SpoolInv' /\ Grows
<1>1. /\ nextSeq \in Nat \ {0} /\ segments \in Seq(Segment) /\ Joined(segments, nextSeq)
      /\ \A f \in DOMAIN disk : /\ disk[f] \in Seq(Line)
                                /\ \E i \in 1..Len(segments) : segments[i].first = f /\ Stored(i)
      /\ ~doomed => \A i \in 1..Len(segments) : segments[i].first \in DOMAIN disk
      /\ BufferIs /\ failed \in BOOLEAN
  BY DEF SpoolInv, DiskIs
<1>2. BufferIs'
  BY <1>1 DEF BufferIs, Last
<1>3. ASSUME NEW f \in DOMAIN disk'
      PROVE  \E i \in 1..Len(segments) : segments[i].first = f /\ Stored(i)'
  <2>1. PICK i \in 1..Len(segments) : segments[i].first = f /\ Stored(i)
    BY <1>1
  <2>2. Stored(i)'
    BY <2>1 DEF Stored
  <2> QED  BY <2>1, <2>2
<1>4. DiskIs'
  <2>1. \A f \in DOMAIN disk' : disk'[f] \in Seq(Line)
    BY <1>1
  <2>2. ~doomed' => \A i \in 1..Len(segments) : segments[i].first \in DOMAIN disk'
    BY <1>1
  <2> QED  BY <1>3, <2>1, <2>2 DEF DiskIs
<1>5. \A f \in DOMAIN disk' : f \in DOMAIN disk /\ Len(disk[f]) <= Len(disk'[f])
  BY <1>1, SeqIs
<1>6. Grows
  BY <1>5, SameSegments
<1> QED  BY <1>1, <1>2, <1>4, <1>6 DEF SpoolInv

\* The buffer is written out.
LEMMA FlushInv ==
    ASSUME SpoolInv, ~failed, UNCHANGED <<segments, nextSeq, failed, doomed>>,
           disk' = Flushed, buffer' = <<>>
    PROVE  /\ SpoolInv' /\ Grows
           /\ \A i \in 1..Len(segments) :
                 segments[i].first \in DOMAIN disk' => Len(disk'[segments[i].first]) = segments[i].lines
<1>1. /\ nextSeq \in Nat \ {0} /\ segments \in Seq(Segment) /\ Joined(segments, nextSeq)
      /\ ~doomed => \A i \in 1..Len(segments) : segments[i].first \in DOMAIN disk
      /\ Len(segments) \in Nat /\ \A i \in 1..Len(segments) : segments[i] \in Segment
      /\ doomed \in BOOLEAN
  BY SeqIs DEF SpoolInv, DiskIs
<1>2. /\ DOMAIN disk' = DOMAIN disk
      /\ \A f \in DOMAIN disk' :
            /\ disk'[f] \in Seq(Line) /\ Len(disk[f]) <= Len(disk'[f]) /\ Numbered(disk'[f], f)
            /\ \E i \in 1..Len(segments) :
                  segments[i].first = f /\ Len(disk'[f]) = segments[i].lines
  BY FlushedIs
<1>3. Len(buffer') = 0 /\ buffer' \in Seq(Line)
  OBVIOUS
<1>4. BufferIs'
  <2>1. Numbered(buffer', nextSeq' - Len(buffer'))
    BY <1>3 DEF Numbered
  <2>2. segments # <<>> => Last(segments).lines \in Nat
    <3>1. ASSUME segments # <<>> PROVE Last(segments).lines \in Nat
      <4>1. Len(segments) \in 1..Len(segments)
        BY <1>1, <3>1, NoneIs
      <4>2. Last(segments) \in Segment
        BY <1>1, <4>1 DEF Last
      <4> QED  BY <4>2 DEF Segment
    <3> QED  BY <3>1
  <2>3. segments # <<>> => Len(buffer') <= Last(segments)'.lines
    BY <1>3, <2>2 DEF Last
  <2> QED  BY <1>3, <2>1, <2>3 DEF BufferIs
<1>5. ASSUME NEW f \in DOMAIN disk'
      PROVE  \E i \in 1..Len(segments) : segments[i].first = f /\ Stored(i)'
  <2>1. PICK i \in 1..Len(segments) : segments[i].first = f /\ Len(disk'[f]) = segments[i].lines
    BY <1>2
  <2>2. segments[i].lines \in Nat
    BY <1>1 DEF Segment
  <2>3. segments'[i].first = f /\ Numbered(disk'[f], f) /\ Len(disk'[f]) = segments'[i].lines
    BY <1>2, <2>1
  <2>4. Stored(i)'
    BY <1>3, <2>2, <2>3 DEF Stored
  <2> QED  BY <2>1, <2>4
<1>6. DiskIs'
  BY <1>1, <1>2, <1>5 DEF DiskIs
<1>7. Grows
  BY <1>2, SameSegments
<1>8. ASSUME NEW i \in 1..Len(segments), segments[i].first \in DOMAIN disk'
      PROVE  Len(disk'[segments[i].first]) = segments[i].lines
  <2>1. PICK j \in 1..Len(segments) :
           segments[j].first = segments[i].first /\ Len(disk'[segments[i].first]) = segments[j].lines
    BY <1>2, <1>8
  <2>2. j = i
    BY <1>1, <2>1, JoinedIs
  <2> QED  BY <2>1, <2>2
<1> QED  BY <1>1, <1>4, <1>6, <1>7, <1>8 DEF SpoolInv

-------------------------------------------------------------------------------
(* The writer.                                                             *)

\* What a frame may be short for.
FrameCut(kept) == Len(kept) = FrameMaxLines \/ Weight(kept) + Max(Size) > FrameMaxBytes

\* The writer's numbers beside the spool's, and what was sent beside what is
\* held back.
WriterInv ==
    /\ lineSeq \in 1..(MaxLines + 1) /\ nextSeq <= lineSeq
    /\ {spooling, notice, frames} \subseteq BOOLEAN
    /\ spooling /\ ~failed => nextSeq = lineSeq
    /\ pending \in Seq(Line) /\ Numbered(pending, FrameSeq)
    /\ lastSent \in Nat /\ lastSent < FrameSeq
    /\ lastSent + 1 < FrameSeq => pending # <<>> /\ FrameCut(pending)
    /\ following \subseteq Target
    /\ ~frames => following = {} /\ pending = <<>> /\ ~notice
    /\ out \in Seq(Payload)

\* A line is no larger than the largest.
LEMMA LineIs ==
    /\ Sized(Line) /\ \A l \in Line : l.size \in Nat /\ l.size <= Max(Size) /\ l.id \in Nat
    /\ Size # {} => Max(Size) \in Nat
<1>1. \A l \in Line : l.size \in Size /\ l.id \in Nat
  BY DEF Line
<1>2. \A e \in Size : Max(Size) \in Nat /\ e \in Nat /\ e <= Max(Size)
  BY TailAssumption, MaxIs
<1> QED  BY <1>1, <1>2 DEF Sized

\* What is kept back keeps its numbers, and is short for a cap only.
LEMMA HeldIs ==
    ASSUME WriterInv, NEW line \in Line, line.id = lineSeq
    PROVE  LET kept == HeldBack(line)
               seq == (lineSeq + 1) - Len(kept)
           IN /\ kept \in Seq(Line) /\ kept # <<>> /\ Numbered(kept, seq) /\ Len(kept) \in Nat
              /\ lastSent < seq /\ (lastSent + 1 < seq => FrameCut(kept))
<1> DEFINE all == Append(pending, line)
           N == Len(all)
           m == Max({1, N - FrameMaxLines + 1})
           base == SubSeq(all, m, N)
           kept == HeldBack(line)
<1>1. /\ lineSeq \in Nat /\ pending \in Seq(Line) /\ Len(pending) \in Nat
      /\ Numbered(pending, lineSeq - Len(pending)) /\ lastSent \in Nat
      /\ lastSent < lineSeq - Len(pending)
      /\ lastSent + 1 < lineSeq - Len(pending) => FrameCut(pending)
      /\ FrameMaxLines \in Nat \ {0} /\ FrameMaxBytes \in Nat
  BY SeqIs, TailAssumption DEF WriterInv, FrameSeq
<1>2. /\ all \in Seq(Line) /\ N = Len(pending) + 1 /\ N \in Nat
      /\ Numbered(all, lineSeq - Len(pending))
  BY <1>1, AppendIs, NumberedAppend
<1>3. Weight(pending) \in Nat /\ Weight(all) = Weight(pending) + line.size /\ line.size \in Nat
  <2>1. all = pending \o <<line>> /\ <<line>> \in Seq(Line)
    <3>1. all = pending \o <<line>>
      BY <1>1, AppendIsConcat
    <3> QED  BY <3>1
  <2>2. Weight(<<line>>) = line.size
    BY LineIs, WeightOne
  <2> HIDE DEF all
  <2> QED  BY <1>1, <2>1, <2>2, LineIs, WeightConcat
<1> HIDE DEF all
<1>4. m = IF 1 <= N - FrameMaxLines + 1 THEN N - FrameMaxLines + 1 ELSE 1
  <2>1. PICK z \in Int : z = N - FrameMaxLines + 1
    <3>1. N \in Nat /\ FrameMaxLines \in Nat
      BY <1>1, <1>2
    <3> HIDE DEF N
    <3>2. N - FrameMaxLines + 1 \in Int
      BY <3>1
    <3> QED  BY <3>2
  <2>2. Max({1, z}) = IF 1 <= z THEN z ELSE 1
    BY MinIs
  <2> HIDE DEF N
  <2> QED  BY <2>1, <2>2
<1> HIDE DEF m, N
<1>5. m \in 1..N /\ m \in Nat \ {0} /\ (m > 1 => N + 1 - m = FrameMaxLines)
  BY <1>1, <1>2, <1>4
<1>6. /\ base \in Seq(Line) /\ Len(base) = N + 1 - m
      /\ Numbered(base, lineSeq - Len(pending) + m - 1)
  <2>1. N <= Len(all) /\ m <= N + 1 /\ lineSeq - Len(pending) \in Int
    BY <1>1, <1>2, <1>5 DEF N
  <2> QED  BY <1>2, <1>5, <2>1, SubSeqIs, NumberedSub
<1>7. kept = Newest(base, FrameMaxBytes)
  BY DEF HeldBack, m, N, all
<1> HIDE DEF base, kept
<1>8. Len(base) \in Nat /\ base # <<>>
  <2>1. Len(base) \in Nat /\ Len(base) # 0
    BY <1>2, <1>5, <1>6
  <2> QED  BY <1>6, <2>1, NoneIs
<1>9. PICK k \in 1..Len(base) :
         /\ kept = SubSeq(base, k, Len(base))
         /\ k > 1 => Weight(SubSeq(base, k, Len(base))) + base[k - 1].size > FrameMaxBytes
  BY <1>1, <1>6, <1>7, <1>8, LineIs, NewestIs
<1>10. k \in Nat \ {0} /\ k <= Len(base)
  BY <1>8
<1>11. lineSeq - Len(pending) + m - 1 \in Int
  BY <1>1, <1>5
<1>12. /\ kept \in Seq(Line) /\ Len(kept) = Len(base) + 1 - k
       /\ Numbered(kept, lineSeq - Len(pending) + m - 1 + k - 1)
  BY <1>6, <1>8, <1>9, <1>10, <1>11, SubSeqIs, NumberedSub
<1>13. /\ Len(kept) \in Nat /\ Len(kept) # 0
       /\ (lineSeq + 1) - Len(kept) = lineSeq - Len(pending) + m - 1 + k - 1
  BY <1>1, <1>2, <1>5, <1>6, <1>8, <1>10, <1>12
<1>14. kept # <<>> /\ Numbered(kept, (lineSeq + 1) - Len(kept))
  BY <1>12, <1>13, NoneIs
<1>15. lastSent < (lineSeq + 1) - Len(kept)
  BY <1>1, <1>5, <1>10, <1>13
<1>16. ASSUME lastSent + 1 < (lineSeq + 1) - Len(kept) PROVE FrameCut(kept)
  <2>1. CASE k > 1
    <3>1. Weight(kept) + base[k - 1].size > FrameMaxBytes
      BY <1>9, <2>1
    <3>2. base[k - 1] \in Line
      <4>1. k - 1 \in 1..Len(base)
        BY <1>10, <2>1
      <4> QED  BY <1>6, <4>1, SeqIs
    <3>3. Weight(kept) \in Nat
      BY <1>12, LineIs, WeightConcat
    <3>4. base[k - 1].size \in Nat /\ base[k - 1].size <= Max(Size) /\ Max(Size) \in Nat
      <4>1. base[k - 1].size \in Size
        BY <3>2 DEF Line
      <4> QED  BY <3>2, <4>1, LineIs
    <3>5. Weight(kept) + Max(Size) > FrameMaxBytes
      BY <1>1, <3>1, <3>3, <3>4
    <3> QED  BY <3>5 DEF FrameCut
  <2>2. CASE k = 1 /\ m > 1
    <3>1. Len(kept) = FrameMaxLines
      BY <1>1, <1>5, <1>6, <1>12, <2>2
    <3> QED  BY <3>1 DEF FrameCut
  <2>3. CASE k = 1 /\ m = 1
    <3>1. kept = all
      <4>1. base = all
        <5>1. base = SubSeq(all, 1, Len(all))
          BY <2>3 DEF base, N
        <5> QED  BY <1>2, <5>1, SubSeqFull
      <4>2. kept = SubSeq(base, 1, Len(base))
        BY <1>9, <2>3
      <4> QED  BY <1>6, <4>1, <4>2, SubSeqFull
    <3>2. (lineSeq + 1) - Len(kept) = lineSeq - Len(pending) /\ N <= FrameMaxLines
      <4>1. (lineSeq + 1) - Len(kept) = lineSeq - Len(pending) + 1 - 1 + 1 - 1
        BY <1>13, <2>3
      <4>2. 1 = IF 1 <= N - FrameMaxLines + 1 THEN N - FrameMaxLines + 1 ELSE 1
        BY <1>4, <2>3
      <4> QED  BY <1>1, <1>2, <4>1, <4>2
    <3>3. FrameCut(pending)
      BY <1>1, <1>16, <3>2
    <3>4. Len(pending) # FrameMaxLines
      BY <1>1, <1>2, <3>2
    <3>5. Weight(pending) + Max(Size) > FrameMaxBytes
      BY <3>3, <3>4 DEF FrameCut
    <3>6. Max(Size) \in Nat
      <4>1. line.size \in Size
        BY DEF Line
      <4> QED  BY <4>1, LineIs
    <3>7. Weight(kept) + Max(Size) > FrameMaxBytes
      BY <1>1, <1>3, <3>1, <3>5, <3>6
    <3> QED  BY <3>7 DEF FrameCut
  <2> QED  BY <1>5, <1>10, <2>1, <2>2, <2>3
<1> QED  BY <1>12, <1>13, <1>14, <1>15, <1>16 DEF kept

\* The frame that would go out now.
Frame == [what |-> "frame", seq |-> FrameSeq, lines |-> pending,
          first |-> IF spooling THEN Oldest ELSE NoFirst]

\* What is taken ends in the frame, if there is one.
LEMMA TakenIs ==
    ASSUME SpoolInv, WriterInv
    PROVE  /\ Taken \in Seq(Payload) /\ Len(Taken) \in Nat
           /\ \A i \in 1..Len(Taken) :
                 Taken[i].what # "status" /\ (Taken[i].what = "frame" => pending # <<>> /\ Taken[i] = Frame)
           /\ pending # <<>> => \E i \in 1..Len(Taken) : Taken[i].what = "frame"
<1> DEFINE A == IF notice THEN <<[what |-> "notice"]>> ELSE <<>>
           B == IF pending = <<>> THEN <<>> ELSE <<Frame>>
<1>1. Taken = A \o B
  BY DEF Taken, Frame
<1>2. A \in Seq(Payload) /\ \A i \in 1..Len(A) : A[i] = [what |-> "notice"]
  <2>1. [what |-> "notice"] \in Payload
    BY DEF Payload
  <2> QED  BY <2>1
<1>3. ASSUME pending # <<>> PROVE Frame \in Payload
  <2>1. Len(pending) \in Nat /\ Len(pending) # 0 /\ pending \in Seq(Line)
    BY <1>3, SeqIs, NoneIs DEF WriterInv
  <2>2. /\ lineSeq \in 1..(MaxLines + 1) /\ MaxLines \in Nat /\ lastSent \in Nat
        /\ lastSent < lineSeq - Len(pending) /\ nextSeq <= lineSeq /\ nextSeq \in Nat
    BY TailAssumption DEF WriterInv, FrameSeq, SpoolInv
  <2>3. FrameSeq \in 1..MaxLines
    BY <2>1, <2>2 DEF FrameSeq
  <2>4. Oldest \in Nat /\ Oldest <= nextSeq
    BY OldestIs
  <2>5. Oldest \in 0..(MaxLines + 1) /\ NoFirst \in 0..(MaxLines + 1)
    BY <2>2, <2>4 DEF NoFirst
  <2> QED  BY <2>1, <2>3, <2>5 DEF Frame, Payload
<1>4. B \in Seq(Payload) /\ \A i \in 1..Len(B) : B[i] = Frame /\ pending # <<>>
  <2>1. CASE pending = <<>>
    BY <2>1
  <2>2. CASE pending # <<>>
    BY <1>3, <2>2
  <2> QED  BY <2>1, <2>2
<1>5. pending # <<>> => Len(B) = 1 /\ B[1] = Frame
  OBVIOUS
<1> HIDE DEF A, B
<1>6. /\ Taken \in Seq(Payload) /\ Len(Taken) = Len(A) + Len(B)
      /\ \A i \in 1..Len(A) : Taken[i] = A[i]
      /\ \A i \in 1..Len(B) : Taken[Len(A) + i] = B[i]
      /\ Len(A) \in Nat /\ Len(B) \in Nat
  BY <1>1, <1>2, <1>4, ConcatIs, SeqIs
<1>7. [what |-> "notice"].what = "notice" /\ Frame.what = "frame"
  BY DEF Frame
<1>8. ASSUME NEW i \in 1..Len(Taken)
      PROVE  /\ Taken[i].what # "status"
             /\ (Taken[i].what = "frame" => pending # <<>> /\ Taken[i] = Frame)
  <2>1. CASE i \in 1..Len(A)
    BY <1>2, <1>6, <1>7, <2>1
  <2>2. CASE i \notin 1..Len(A)
    <3>1. PICK j \in 1..Len(B) : i = Len(A) + j
      <4>1. i - Len(A) \in 1..Len(B) /\ i = Len(A) + (i - Len(A))
        BY <1>6, <2>2
      <4> QED  BY <4>1
    <3> QED  BY <1>4, <1>6, <1>7, <3>1
  <2> QED  BY <2>1, <2>2
<1>9. ASSUME pending # <<>> PROVE \E i \in 1..Len(Taken) : Taken[i].what = "frame"
  <2>1. Len(A) + 1 \in 1..Len(Taken) /\ 1 \in 1..Len(B)
    <3>1. Len(B) = 1 /\ Len(A) \in Nat /\ Len(Taken) = Len(A) + Len(B)
      BY <1>5, <1>6, <1>9
    <3> QED  BY <3>1
  <2> QED  BY <1>5, <1>6, <1>7, <1>9, <2>1
<1>10. Len(Taken) \in Nat
  BY <1>6
<1> QED  BY <1>6, <1>8, <1>9, <1>10

\* What else is done to the spool numbers nothing, and mends nothing.
LEMMA SpoolStepInv ==
    ASSUME SpoolInv, SpoolStep
    PROVE  SpoolInv' /\ Grows /\ nextSeq' = nextSeq /\ (failed => failed')
<1>0. failed \in BOOLEAN /\ doomed \in BOOLEAN
  BY DEF SpoolInv
<1>1. ASSUME NEW r \in Reader, NEW what, NEW start, NEW end, Snapshot(r, what, start, end)
      PROVE  SpoolInv' /\ Grows /\ nextSeq' = nextSeq /\ (failed => failed')
  <2>1. /\ ~failed /\ disk' = Flushed /\ buffer' = <<>>
        /\ UNCHANGED <<segments, nextSeq, failed, doomed>>
    BY <1>1 DEF Snapshot
  <2> QED  BY <2>1, FlushInv
<1>2. ASSUME NEW r \in Reader, ReadSegment(r)
      PROVE  SpoolInv' /\ Grows /\ nextSeq' = nextSeq /\ (failed => failed')
  <2>1. UNCHANGED <<segments, nextSeq, failed, buffer, disk, doomed>>
    BY <1>2 DEF ReadSegment
  <2> QED  BY <1>0, <2>1, RemoveInv
<1>3. CASE Doom
  <2>1. /\ doomed' = TRUE /\ UNCHANGED <<segments, nextSeq, disk>>
        /\ \/ failed' = TRUE /\ buffer' = <<>>
           \/ failed' = failed /\ buffer' = buffer
    <3>1. doomed' = TRUE /\ UNCHANGED <<segments, nextSeq, disk>>
      BY <1>3 DEF Doom
    <3>2. PICK f \in {failed, TRUE} : failed' = f /\ buffer' = IF f THEN <<>> ELSE buffer
      BY <1>3 DEF Doom
    <3>3. CASE f = TRUE
      BY <3>1, <3>2, <3>3
    <3>4. CASE f = failed /\ ~failed
      BY <3>1, <3>2, <3>4
    <3> QED  BY <1>0, <3>2, <3>3, <3>4
  <2>2. CASE failed' = TRUE /\ buffer' = <<>>
    BY <2>1, <2>2, CloseInv
  <2>3. CASE failed' = failed /\ buffer' = buffer
    BY <2>1, <2>3, RemoveInv
  <2> QED  BY <2>1, <2>2, <2>3
<1>4. ASSUME NEW f \in DOMAIN disk, Unlink(f)
      PROVE  SpoolInv' /\ Grows /\ nextSeq' = nextSeq /\ (failed => failed')
  <2>1. /\ doomed /\ UNCHANGED <<segments, nextSeq, failed, buffer, doomed>>
        /\ disk' = Restrict(disk, DOMAIN disk \ {f})
    BY <1>4 DEF Unlink
  <2>2. DOMAIN disk' \subseteq DOMAIN disk /\ \A g \in DOMAIN disk' : disk'[g] = disk[g]
    BY <2>1 DEF Restrict
  <2>3. doomed' \in BOOLEAN /\ doomed'
    BY <1>0, <2>1
  <2> QED  BY <2>1, <2>2, <2>3, RemoveInv
<1> QED  BY <1>1, <1>2, <1>3, <1>4 DEF SpoolStep, ReaderStep, ReadPage, Export

\* A step of the writer: what it does to the history, and to what is held.
LEMMA TakeInv ==
    ASSUME SpoolInv, WriterInv, TakePending, UNCHANGED <<spoolVars, lineSeq, spooling>>,
           following' = following, frames' \in BOOLEAN, ~frames' => following = {},
           out' \in Seq(Payload)
    PROVE  SpoolInv' /\ WriterInv' /\ Grows
<1>1. UNCHANGED <<segments, nextSeq, failed, buffer, disk, doomed>>
  BY DEF spoolVars
<1>2. SpoolInv' /\ Grows
  BY <1>1, RemoveInv DEF SpoolInv
<1>3. /\ pending' = <<>> /\ Len(pending') = 0 /\ pending' \in Seq(Line) /\ notice' = FALSE
      /\ lineSeq' = lineSeq
      /\ lastSent' = IF pending = <<>> THEN lastSent ELSE lineSeq - 1
  BY DEF TakePending
<1>4. /\ lineSeq \in Nat \ {0} /\ lastSent \in Nat /\ Len(pending) \in Nat
      /\ lastSent < lineSeq - Len(pending)
      /\ lastSent + 1 < lineSeq - Len(pending) => pending # <<>>
      /\ pending = <<>> => Len(pending) = 0
  BY SeqIs, NoneIs, TailAssumption DEF WriterInv, FrameSeq
<1>5. FrameSeq' = lineSeq /\ lastSent' = lineSeq - 1
  <2>1. FrameSeq' = lineSeq
    BY <1>3, <1>4 DEF FrameSeq
  <2>2. CASE pending = <<>>
    <3>1. lastSent' = lastSent /\ Len(pending) = 0 /\ ~(lastSent + 1 < lineSeq - Len(pending))
      BY <1>3, <1>4, <2>2
    <3>2. lineSeq \in Nat /\ lastSent \in Nat /\ lastSent < lineSeq - Len(pending)
      BY <1>4
    <3> QED  BY <2>1, <3>1, <3>2
  <2>3. CASE pending # <<>>
    <3>1. lastSent' = lineSeq - 1
      BY <1>3, <2>3
    <3> QED  BY <2>1, <3>1
  <2> QED  BY <2>2, <2>3
<1>6. Numbered(pending', FrameSeq')
  BY <1>3 DEF Numbered
<1>7. lastSent' \in Nat /\ lastSent' < FrameSeq' /\ ~(lastSent' + 1 < FrameSeq')
  BY <1>4, <1>5
<1> QED  BY <1>1, <1>2, <1>3, <1>6, <1>7 DEF WriterInv

\* A line that comes is numbered, spooled while the spool works, and held back.
LEMMA PushInv ==
    ASSUME SpoolInv, WriterInv, NEW t \in Target, NEW size \in Size, Push(t, size)
    PROVE  SpoolInv' /\ WriterInv' /\ Grows
<1> DEFINE line == [id |-> lineSeq, size |-> size]
<1>1. /\ t \in following /\ lineSeq <= MaxLines /\ pending' = HeldBack(line)
      /\ lineSeq' = lineSeq + 1
      /\ out' = <<>> /\ UNCHANGED <<following, frames, lastSent>>
      /\ IF spooling THEN Spool(line) ELSE UNCHANGED <<spoolVars, spooling, notice>>
  BY DEF Push
<1>2. lineSeq \in 1..(MaxLines + 1) /\ MaxLines \in Nat /\ nextSeq \in Nat /\ nextSeq <= lineSeq
  BY TailAssumption DEF WriterInv, SpoolInv
<1>3. line \in Line /\ line.id = lineSeq
  <2>1. lineSeq \in 1..MaxLines
    BY <1>1, <1>2
  <2> QED  BY <2>1 DEF Line
<1> HIDE DEF line
<1>4. /\ SpoolInv' /\ Grows /\ nextSeq' <= lineSeq' /\ {spooling', notice'} \subseteq BOOLEAN
      /\ spooling' /\ ~failed' => nextSeq' = lineSeq'
  <2>1. CASE spooling /\ AppendLine(line) /\ UNCHANGED <<spooling, notice>>
    <3>1. ~failed /\ nextSeq' = nextSeq + 1
      BY <2>1 DEF AppendLine
    <3>2. line.id = nextSeq
      BY <1>3, <2>1, <3>1 DEF WriterInv
    <3>3. SpoolInv' /\ Grows
      BY <1>3, <2>1, <3>2, AppendInv
    <3> QED  BY <1>1, <1>2, <1>3, <2>1, <3>1, <3>2, <3>3 DEF WriterInv
  <2>2. CASE AppendFails /\ spooling' = FALSE /\ notice' = TRUE
    <3>1. failed' = TRUE /\ buffer' = <<>> /\ UNCHANGED <<segments, nextSeq, disk, doomed>>
      BY <2>2 DEF AppendFails
    <3>2. doomed \in BOOLEAN
      BY DEF SpoolInv
    <3>3. SpoolInv' /\ Grows
      BY <3>1, <3>2, CloseInv
    <3>4. nextSeq' <= lineSeq'
      <4>1. nextSeq' = nextSeq /\ lineSeq' = lineSeq + 1
        BY <1>1, <3>1
      <4> QED  BY <1>2, <4>1
    <3>5. {spooling', notice'} \subseteq BOOLEAN /\ ~spooling'
      BY <2>2
    <3> QED  BY <3>3, <3>4, <3>5
  <2>3. CASE ~spooling /\ UNCHANGED <<spoolVars, spooling, notice>>
    <3>1. UNCHANGED <<segments, nextSeq, failed, buffer, disk, doomed>>
      BY <2>3 DEF spoolVars
    <3>2. SpoolInv' /\ Grows
      BY <3>1, RemoveInv DEF SpoolInv
    <3> QED  BY <1>1, <1>2, <2>3, <3>1, <3>2 DEF WriterInv
  <2> QED  BY <1>1, <2>1, <2>2, <2>3 DEF Spool
<1>5. /\ pending' \in Seq(Line) /\ pending' # <<>> /\ Numbered(pending', FrameSeq')
      /\ lastSent' \in Nat /\ lastSent' < FrameSeq'
      /\ lastSent' + 1 < FrameSeq' => FrameCut(pending')
  <2>1. FrameSeq' = (lineSeq + 1) - Len(HeldBack(line))
    <3>1. pending' = HeldBack(line) /\ lineSeq' = lineSeq + 1
      BY <1>1
    <3> QED  BY <3>1 DEF FrameSeq
  <2> QED  BY <1>1, <1>3, <2>1, HeldIs DEF WriterInv
<1>6. FrameCut(pending') => FrameCut(pending)'
  BY DEF FrameCut
<1>7. /\ frames /\ frames' /\ frames' \in BOOLEAN /\ following' \subseteq Target
      /\ out' \in Seq(Payload)
  BY <1>1 DEF WriterInv
<1>8. lineSeq' \in 1..(MaxLines' + 1)
  BY <1>1, <1>2
<1> QED  BY <1>4, <1>5, <1>6, <1>7, <1>8 DEF WriterInv

-------------------------------------------------------------------------------
(* Reading.                                                                *)

\* A segment of a snapshot still is one, as long or longer, or is rotated out.
LeftIs(s) ==
    /\ \/ End(s) <= Oldest
       \/ \E j \in 1..Len(segments) : segments[j].first = s.first /\ s.lines <= segments[j].lines
    /\ s.first \in DOMAIN disk => s.lines <= Len(disk[s.first])

\* What is left to read goes on to where the history ended, past the end of a
\* page.
LeftJoins(x) ==
    \E e \in Nat : /\ Joined(x.left, e) /\ x.before <= e /\ e <= nextSeq
                   /\ x.what = "export" => e = x.before

\* The number after the last line read.
Reached(x) == IF x.seq < x.before THEN x.seq ELSE x.before

\* A page that lacks a line it may have is full, or the line is gone.
ShortAt(x) ==
    LET lost == Reached(x) - Len(x.got) - 1
    IN x.start <= lost =>
          Weight(x.got) + Max(Size) > MaxReadBytes \/ doomed \/ lost < Oldest

Reading == [at : {"reading", "done", "error"}, what : {"page", "export"}, left : Seq(Segment),
            before : Nat, start : Nat, seq : Nat, got : Seq(Line), started : BOOLEAN]

\* A reader after a step, which may have nothing left to read.
PageIs(x) ==
    /\ Numbered(x.got, Reached(x) - Len(x.got)) /\ ShortAt(x)
    /\ IF x.left = <<>> THEN x.before <= x.seq
       ELSE x.seq < x.before => x.left[1].first <= x.seq
ExportIs(x) ==
    /\ Numbered(x.got, (IF x.left = <<>> THEN x.before ELSE x.left[1].first) - Len(x.got))
    /\ ~x.started /\ x.left # <<>> => x.got = <<>>
ReadOk(x) ==
    /\ x.left # <<>> => LeftJoins(x) /\ \A i \in 1..Len(x.left) : LeftIs(x.left[i])
    /\ x.what = "page" => PageIs(x)
    /\ x.what = "export" => ExportIs(x)

ReadIs(x) ==
    /\ x \in Reading
    /\ x.at = "error" => x.what = "export"
    /\ x.at # "error" => ReadOk(x)
    /\ x.at = "reading" => x.left # <<>> /\ (x.what = "page" => x.seq < x.before)
    /\ x.at = "done" => x.left = <<>>

\* Every reader is idle, or where a read or an export may be.
ReadersInv ==
    /\ DOMAIN reader = Reader
    /\ \A r \in Reader : reader[r] = [at |-> "idle"] \/ ReadIs(reader[r])

\* What a snapshot has of a segment stays so while the history grows.
LEMMA LeftKept ==
    ASSUME SpoolInv, SpoolInv', Grows, NEW s \in Segment, LeftIs(s), End(s) <= nextSeq
    PROVE  LeftIs(s)'
<1>1. /\ s.first \in Nat /\ s.lines \in Nat \ {0} /\ End(s) = s.first + s.lines
      /\ Oldest \in Nat /\ Oldest' \in Nat /\ nextSeq \in Nat /\ Oldest <= Oldest'
  BY OldestIs DEF Segment, End, SpoolInv, Grows
<1>2. \/ End(s) <= Oldest'
      \/ \E j \in 1..Len(segments') : segments'[j].first = s.first /\ s.lines <= segments'[j].lines
  <2>1. CASE End(s) <= Oldest
    <3>1. End(s) \in Nat
      BY <1>1
    <3> QED  BY <1>1, <2>1, <3>1
  <2>2. CASE \E j \in 1..Len(segments) : segments[j].first = s.first /\ s.lines <= segments[j].lines
    <3>1. PICK j \in 1..Len(segments) : segments[j].first = s.first /\ s.lines <= segments[j].lines
      BY <2>2
    <3>2. segments[j] \in Segment
      BY SeqIs DEF SpoolInv
    <3>3. /\ segments[j].lines \in Nat /\ End(segments[j]) = segments[j].first + segments[j].lines
      BY <3>2 DEF Segment, End
    <3>4. CASE End(segments[j]) <= Oldest'
      <4>1. End(s) <= End(segments[j]) /\ End(segments[j]) \in Nat /\ End(s) \in Nat
        BY <1>1, <3>1, <3>3
      <4> QED  BY <1>1, <3>4, <4>1
    <3>5. CASE \E k \in 1..Len(segments') :
                  segments'[k].first = segments[j].first /\ segments[j].lines <= segments'[k].lines
      <4>1. PICK k \in 1..Len(segments') :
               segments'[k].first = segments[j].first /\ segments[j].lines <= segments'[k].lines
        BY <3>5
      <4>2. segments'[k] \in Segment
        BY SeqIs DEF SpoolInv
      <4>3. segments'[k].lines \in Nat
        BY <4>2 DEF Segment
      <4>4. s.lines <= segments'[k].lines
        BY <1>1, <3>1, <3>3, <4>1, <4>3
      <4> QED  BY <3>1, <4>1, <4>4
    <3> QED  BY <3>4, <3>5 DEF Grows
  <2> QED  BY <2>1, <2>2 DEF LeftIs
<1>3. ASSUME s.first \in DOMAIN disk' PROVE s.lines <= Len(disk'[s.first])
  <2>1. ~(s.first >= nextSeq)
    BY <1>1
  <2>2. s.first \in DOMAIN disk /\ Len(disk[s.first]) <= Len(disk'[s.first])
    BY <1>3, <2>1 DEF Grows
  <2>3. s.lines <= Len(disk[s.first])
    BY <2>2 DEF LeftIs
  <2>4. Len(disk[s.first]) \in Nat /\ Len(disk'[s.first]) \in Nat
    BY <1>3, <2>2, SeqIs DEF SpoolInv, DiskIs
  <2> QED  BY <1>1, <2>2, <2>3, <2>4
<1>4. End(s)' = End(s)
  BY DEF End
<1> QED  BY <1>2, <1>3, <1>4 DEF LeftIs

\* Whatever the writer does, a reader is where it was.
LEMMA ReadKept ==
    ASSUME SpoolInv, SpoolInv', Grows, NEW x, ReadIs(x)
    PROVE  ReadIs(x)'
<1>1. /\ x \in Reading /\ Oldest \in Nat /\ Oldest' \in Nat /\ nextSeq \in Nat /\ nextSeq' \in Nat
      /\ Oldest <= Oldest' /\ nextSeq <= nextSeq' /\ (doomed => doomed')
  BY OldestIs DEF ReadIs, SpoolInv, Grows
<1>2. x.left \in Seq(Segment) /\ x.got \in Seq(Line) /\ x.before \in Nat /\ x.seq \in Nat
  BY <1>1 DEF Reading
<1>3. ShortAt(x) => ShortAt(x)'
  <2>1. Reached(x)' = Reached(x) /\ Weight(x.got)' = Weight(x.got)
    BY DEF Reached, Weight
  <2>2. PICK n \in Int : n = Reached(x) - Len(x.got) - 1
    BY <1>2, SeqIs DEF Reached
  <2>3. n < Oldest => n < Oldest'
    BY <1>1
  <2> QED  BY <1>1, <2>1, <2>2, <2>3 DEF ShortAt
<1>4. ASSUME LeftJoins(x), \A i \in 1..Len(x.left) : LeftIs(x.left[i])
      PROVE  LeftJoins(x)' /\ \A i \in 1..Len(x.left) : LeftIs(x.left[i])'
  <2>1. PICK e \in Nat : /\ Joined(x.left, e) /\ x.before <= e /\ e <= nextSeq
                         /\ x.what = "export" => e = x.before
    BY <1>4 DEF LeftJoins
  <2>2. e <= nextSeq'
    BY <1>1, <2>1
  <2>3. Joined(x.left, e)'
    BY <2>1 DEF Joined, End
  <2>4. LeftJoins(x)'
    BY <2>1, <2>2, <2>3 DEF LeftJoins
  <2>5. ASSUME NEW i \in 1..Len(x.left) PROVE LeftIs(x.left[i])'
    <3>1. x.left[i] \in Segment /\ End(x.left[i]) <= e
      BY <1>2, <2>1, SeqIs, JoinedIs
    <3>2. End(x.left[i]) \in Nat
      BY <3>1 DEF Segment, End
    <3>3. End(x.left[i]) <= nextSeq
      BY <1>1, <2>1, <3>1, <3>2
    <3> QED  BY <1>4, <3>1, <3>3, LeftKept
  <2> QED  BY <2>4, <2>5
<1>5. PageIs(x) => PageIs(x)'
  <2>1. Reached(x)' = Reached(x)
    BY DEF Reached
  <2> QED  BY <1>3, <2>1 DEF PageIs, Numbered
<1>6. ExportIs(x) => ExportIs(x)'
  BY DEF ExportIs, Numbered
<1>7. ReadOk(x) => ReadOk(x)'
  BY <1>4, <1>5, <1>6 DEF ReadOk
<1> QED  BY <1>7 DEF ReadIs, Reading, Segment

\* A reader that has nothing left is done.
SettlesWell == \A x \in Reading : x.at = "reading" /\ ReadOk(x) => ReadIs(Settled(x))

LEMMA SettledIs == SettlesWell
<1> SUFFICES ASSUME NEW x \in Reading, x.at = "reading", ReadOk(x)
             PROVE  ReadIs(Settled(x))
  BY DEF SettlesWell
<1> DEFINE y == [x EXCEPT !.at = "done", !.left = <<>>]
<1>1. /\ x.left \in Seq(Segment) /\ x.what \in {"page", "export"}
  BY DEF Reading
<1>2. CASE ~(x.left = <<>> \/ (x.what = "page" /\ x.seq >= x.before))
  <2>1. Settled(x) = x
    BY <1>2 DEF Settled
  <2>2. x.what = "page" => x.seq < x.before
    BY <1>2 DEF Reading
  <2> QED  BY <1>2, <2>1, <2>2 DEF ReadIs
<1>3. CASE x.left = <<>> \/ (x.what = "page" /\ x.seq >= x.before)
  <2>1. Settled(x) = y
    BY <1>3 DEF Settled
  <2>2. /\ y \in Reading /\ y.at = "done" /\ y.left = <<>> /\ y.what = x.what /\ y.before = x.before
        /\ y.start = x.start /\ y.seq = x.seq /\ y.got = x.got /\ y.started = x.started
    <3>1. <<>> \in Seq(Segment)
      OBVIOUS
    <3>2. y \in Reading
      BY <3>1 DEF Reading
    <3>3. /\ y.at = "done" /\ y.left = <<>> /\ y.what = x.what /\ y.before = x.before
          /\ y.start = x.start /\ y.seq = x.seq /\ y.got = x.got /\ y.started = x.started
      BY DEF Reading
    <3> QED  BY <3>2, <3>3
  <2> HIDE DEF y
  <2>3. ASSUME x.what = "page" PROVE PageIs(y)
    <3>1. Reached(y) = Reached(x)
      BY <2>2 DEF Reached
    <3>2. ShortAt(y) <=> ShortAt(x)
      BY <2>2, <3>1 DEF ShortAt
    <3>3. PageIs(x)
      BY <2>3 DEF ReadOk
    <3>4. x.before <= x.seq
      <4>1. CASE x.left = <<>>
        BY <3>3, <4>1 DEF PageIs
      <4>2. CASE x.seq >= x.before
        BY <4>2 DEF Reading
      <4> QED  BY <1>3, <4>1, <4>2
    <3> QED  BY <2>2, <3>1, <3>2, <3>3, <3>4 DEF PageIs
  <2>4. ASSUME x.what = "export" PROVE ExportIs(y)
    <3>1. x.left = <<>> /\ ExportIs(x)
      BY <1>3, <2>4 DEF ReadOk
    <3> QED  BY <2>2, <3>1 DEF ExportIs
  <2>5. ReadOk(y)
    BY <2>2, <2>3, <2>4 DEF ReadOk
  <2> QED  BY <2>1, <2>2, <2>5 DEF ReadIs
<1> QED  BY <1>2, <1>3

\* The same of the next state.
LEMMA SettledNext == SettlesWell'
BY SettledIs, PTL

\* A reader that takes its snapshot.
LEMMA SnapshotIs ==
    ASSUME SpoolInv, SpoolInv',
           UNCHANGED <<segments, nextSeq>>,
           \A i \in 1..Len(segments) :
              segments[i].first \in DOMAIN disk' => Len(disk'[segments[i].first]) = segments[i].lines,
           NEW what \in {"page", "export"}, NEW start \in Nat, NEW end \in Nat, end <= nextSeq, Oldest <= start,
           what = "export" => end = nextSeq /\ start = Oldest
    PROVE  ReadIs(Settled([at |-> "reading", what |-> what, left |-> segments, before |-> end,
                           start |-> start, seq |-> start, got |-> <<>>, started |-> FALSE]))'
<1> DEFINE x == [at |-> "reading", what |-> what, left |-> segments, before |-> end,
                 start |-> start, seq |-> start, got |-> <<>>, started |-> FALSE]
<1>1. /\ nextSeq \in Nat /\ segments \in Seq(Segment) /\ Joined(segments, nextSeq) /\ Oldest \in Nat
      /\ Len(segments) \in Nat /\ \A i \in 1..Len(segments) : segments[i] \in Segment
      /\ segments' = segments /\ nextSeq' = nextSeq /\ Oldest' = Oldest
  BY OldestIs, SeqIs DEF SpoolInv, Oldest
<1>2. <<>> \in Seq(Line) /\ Len(<<>>) = 0
  OBVIOUS
<1>3. PICK z : z = x
  OBVIOUS
<1>4. /\ z \in Reading /\ z.at = "reading" /\ z.what = what /\ z.left = segments /\ z.before = end
      /\ z.start = start /\ z.seq = start /\ z.got = <<>> /\ z.started = FALSE
  BY <1>1, <1>2, <1>3 DEF Reading
<1> HIDE DEF x
<1>5. ASSUME segments # <<>> PROVE LeftJoins(z)' /\ \A i \in 1..Len(z.left) : LeftIs(z.left[i])'
  <2>1. LeftJoins(z)'
    <3>1. Joined(segments, nextSeq)' <=> Joined(segments, nextSeq)
      BY <1>1 DEF Joined, End
    <3> QED  BY <1>1, <1>4, <3>1 DEF LeftJoins
  <2>2. ASSUME NEW i \in 1..Len(segments) PROVE LeftIs(segments[i])'
    <3>1. segments[i].lines \in Nat
      BY <1>1 DEF Segment
    <3>2. segments'[i].first = segments[i].first /\ segments[i].lines <= segments'[i].lines
      BY <1>1, <3>1
    <3>3. segments[i].first \in DOMAIN disk' => segments[i].lines <= Len(disk'[segments[i].first])
      BY <3>1
    <3> QED  BY <1>1, <3>2, <3>3 DEF LeftIs
  <2> QED  BY <1>1, <1>4, <2>1, <2>2
<1>6. Reached(z)' = Reached(z) /\ Reached(z) = (IF start < end THEN start ELSE end)
  BY <1>4 DEF Reached
<1>7. ShortAt(z)'
  <2>1. ~(z.start <= Reached(z) - Len(z.got) - 1)
    BY <1>2, <1>4, <1>6
  <2> QED  BY <1>6, <2>1 DEF ShortAt
<1>8. PageIs(z)'
  <2>1. Numbered(z.got, Reached(z) - Len(z.got))'
    BY <1>2, <1>4 DEF Numbered
  <2>2. IF z.left = <<>> THEN z.before <= z.seq ELSE z.seq < z.before => z.left[1].first <= z.seq
    BY <1>1, <1>4 DEF Oldest
  <2> QED  BY <1>7, <2>1, <2>2 DEF PageIs
<1>9. ExportIs(z)'
  BY <1>2, <1>4 DEF ExportIs, Numbered
<1>10. ReadOk(z)'
  BY <1>4, <1>5, <1>8, <1>9 DEF ReadOk
<1>11. ReadIs(Settled(z))'
  <2> QED  BY <1>4, <1>10, SettledNext DEF SettlesWell, Reading, Segment, Settled
<1> QED  BY <1>3, <1>11 DEF x

\* What a reader has before it, one segment on.
LEMMA LeftOn ==
    ASSUME SpoolInv, NEW x, ReadIs(x), x.at = "reading"
    PROVE  LET s == Head(x.left)
               t == Tail(x.left)
           IN /\ s \in Segment /\ t \in Seq(Segment) /\ s.first = x.left[1].first
              /\ s.first \in DOMAIN disk =>
                    /\ disk[s.first] \in Seq(Line) /\ Numbered(disk[s.first], s.first)
                    /\ s.lines <= Len(disk[s.first])
              /\ Missing(s) => doomed \/ End(s) <= Oldest
              /\ x.what = "export" => End(s) <= x.before
              /\ t = <<>> => x.before <= End(s)
              /\ t # <<>> => /\ t[1].first = End(s) /\ LeftJoins([x EXCEPT !.left = t])
                             /\ \A i \in 1..Len(t) : LeftIs(t[i])
<1> DEFINE s == Head(x.left)
           t == Tail(x.left)
<1>1. /\ x \in Reading /\ x.left # <<>> /\ LeftJoins(x) /\ \A i \in 1..Len(x.left) : LeftIs(x.left[i])
  BY DEF ReadIs, ReadOk
<1>2. x.left \in Seq(Segment) /\ x.before \in Nat
  BY <1>1 DEF Reading
<1>3. PICK e \in Nat : /\ Joined(x.left, e) /\ x.before <= e /\ e <= nextSeq
                       /\ x.what = "export" => e = x.before
  BY <1>1 DEF LeftJoins
<1>4. /\ s = x.left[1] /\ s \in Segment /\ t \in Seq(Segment) /\ Len(t) = Len(x.left) - 1
      /\ Len(x.left) > 0 /\ t = SubSeq(x.left, 2, Len(x.left)) /\ Len(x.left) \in Nat
  BY <1>1, <1>2, TailIs, SeqIs
<1> HIDE DEF s, t
<1>0. Len(t) = Len(x.left) - 1 /\ Len(x.left) > 0 /\ Len(x.left) \in Nat
  BY <1>4
<1>5. /\ s.first \in Nat /\ s.lines \in Nat /\ End(s) = s.first + s.lines /\ End(s) <= e
      /\ LeftIs(s)
  <2>1. 1 \in 1..Len(x.left)
    BY <1>4
  <2>2. s.first \in Nat /\ s.lines \in Nat /\ End(s) = s.first + s.lines
    BY <1>4 DEF Segment, End
  <2>3. End(s) <= e
    BY <1>2, <1>3, <1>4, <2>1, JoinedIs
  <2> QED  BY <1>1, <1>4, <2>1, <2>2, <2>3
<1>6. ASSUME s.first \in DOMAIN disk
      PROVE  /\ disk[s.first] \in Seq(Line) /\ Numbered(disk[s.first], s.first)
             /\ s.lines <= Len(disk[s.first])
  <2>1. PICK i \in 1..Len(segments) : segments[i].first = s.first /\ Stored(i)
    BY <1>6 DEF SpoolInv, DiskIs
  <2> QED  BY <1>5, <1>6, <2>1 DEF SpoolInv, DiskIs, Stored, LeftIs
<1>7. ASSUME Missing(s) PROVE doomed \/ End(s) <= Oldest
  BY <1>5, <1>7 DEF SpoolInv, DiskIs, LeftIs, Missing
<1>8. x.what = "export" => End(s) <= x.before
  BY <1>3, <1>5
<1>9. ASSUME t = <<>> PROVE x.before <= End(s)
  <2>1. Len(x.left) = 1
    <3>1. Len(t) = 0
      BY <1>9
    <3> QED  BY <1>0, <3>1
  <2>2. End(s) = e
    BY <1>3, <1>4, <2>1 DEF Joined
  <2> QED  BY <1>3, <2>2
<1>10. ASSUME t # <<>>
       PROVE  /\ t[1].first = End(s) /\ LeftJoins([x EXCEPT !.left = t])
              /\ \A i \in 1..Len(t) : LeftIs(t[i])
  <2>1. Len(t) # 0 /\ Len(t) \in Nat
    BY <1>4, <1>10, NoneIs, SeqIs
  <2>2. 2 \in 1..Len(x.left)
    <3>1. PICK n \in Nat : n = Len(x.left)
      BY <1>0
    <3>2. PICK m \in Nat : m = Len(t)
      BY <2>1
    <3>3. m = n - 1 /\ m # 0
      BY <1>0, <2>1, <3>1, <3>2
    <3>4. 2 \in 1..n
      BY <3>3
    <3> QED  BY <3>1, <3>4
  <2>3. /\ Joined(t, e) /\ Len(t) = Len(x.left) + 1 - 2
        /\ \A i \in 1..(Len(x.left) + 1 - 2) : t[i] = x.left[2 + i - 1]
    BY <1>2, <1>3, <1>4, <2>2, JoinedSub
  <2>4. ASSUME NEW i \in 1..Len(t) PROVE t[i] = x.left[i + 1] /\ i + 1 \in 1..Len(x.left)
    <3>1. i \in 1..(Len(x.left) + 1 - 2) /\ 2 + i - 1 = i + 1 /\ i + 1 \in 1..Len(x.left)
      BY <1>4, <2>3
    <3>2. t[i] = x.left[2 + i - 1]
      BY <2>3, <3>1
    <3> QED  BY <3>1, <3>2
  <2>5. t[1].first = End(s)
    <3>1. 1 \in 1..Len(t) /\ 1 \in 1..Len(x.left) /\ 1 # Len(x.left)
      BY <1>4, <2>1, <2>2
    <3>2. End(x.left[1]) = x.left[1 + 1].first
      BY <1>3, <3>1 DEF Joined
    <3> QED  BY <1>4, <2>4, <3>1, <3>2
  <2>6. LeftJoins([x EXCEPT !.left = t])
    <3>1. PICK y : y = [x EXCEPT !.left = t]
      OBVIOUS
    <3>2. y.left = t /\ y.before = x.before /\ y.what = x.what
      BY <1>1, <3>1 DEF Reading
    <3> QED  BY <1>3, <2>3, <3>1, <3>2 DEF LeftJoins
  <2> QED  BY <1>1, <2>4, <2>5, <2>6
<1> QED  BY <1>4, <1>5, <1>6, <1>7, <1>8, <1>9, <1>10 DEF s, t

\* A page, one segment on.
LEMMA PageOn ==
    ASSUME SpoolInv, NEW x, ReadIs(x), x.at = "reading", x.what = "page"
    PROVE  ReadIs(Settled(ReadOn([x EXCEPT !.left = Tail(@)], Head(x.left))))
<1> DEFINE s == Head(x.left)
           t == Tail(x.left)
           n == [x EXCEPT !.left = t]
<1>1. /\ x \in Reading /\ x.left # <<>> /\ PageIs(x) /\ x.seq < x.before
  BY DEF ReadIs, ReadOk
<1>2. /\ x.before \in Nat /\ x.start \in Nat /\ x.seq \in Nat /\ x.got \in Seq(Line)
      /\ Len(x.got) \in Nat
  BY <1>1, SeqIs DEF Reading
<1>3. /\ s \in Segment /\ t \in Seq(Segment) /\ s.first = x.left[1].first
      /\ s.first \in DOMAIN disk =>
            /\ disk[s.first] \in Seq(Line) /\ Numbered(disk[s.first], s.first)
            /\ s.lines <= Len(disk[s.first])
      /\ Missing(s) => doomed \/ End(s) <= Oldest
      /\ t = <<>> => x.before <= End(s)
      /\ t # <<>> => /\ t[1].first = End(s) /\ LeftJoins([x EXCEPT !.left = t])
                     /\ \A i \in 1..Len(t) : LeftIs(t[i])
  BY LeftOn
<1>4. PICK y : y = n
  OBVIOUS
<1>5. /\ y \in Reading /\ y.at = "reading" /\ y.what = "page" /\ y.left = t /\ y.before = x.before
      /\ y.start = x.start /\ y.seq = x.seq /\ y.got = x.got /\ y.started = x.started
  BY <1>1, <1>3, <1>4 DEF Reading
<1>6. Head(x.left) = s /\ [x EXCEPT !.left = Tail(@)] = y
  BY <1>1, <1>4 DEF Reading
<1> HIDE DEF s, t, n
<1>7. /\ s.first \in Nat /\ s.lines \in Nat /\ End(s) = s.first + s.lines /\ End(s) \in Nat
      /\ s.first <= x.seq /\ Reached(x) = x.seq
  <2>1. s.first \in Nat /\ s.lines \in Nat /\ End(s) = s.first + s.lines
    BY <1>3 DEF Segment, End
  <2>2. s.first <= x.seq /\ Reached(x) = x.seq
    BY <1>1, <1>3 DEF PageIs, Reached
  <2> QED  BY <2>1, <2>2
<1>8. t # <<>> => LeftJoins(y)
  BY <1>3, <1>4 DEF n
\* What a step of a page comes to.
<1>9. ASSUME NEW z \in Reading, z.at = "reading", z.what = "page", z.left = t, z.before = x.before,
             End(s) <= z.seq \/ x.before <= z.seq,
             Numbered(z.got, Reached(z) - Len(z.got)), ShortAt(z)
      PROVE  ReadIs(Settled(z))
  <2>1. t # <<>> => LeftJoins(z)
    BY <1>5, <1>8, <1>9 DEF LeftJoins
  <2>2. IF t = <<>> THEN x.before <= z.seq ELSE z.seq < x.before => t[1].first <= z.seq
    <3>1. z.seq \in Nat
      BY <1>9 DEF Reading
    <3> QED  BY <1>2, <1>3, <1>7, <1>9, <3>1
  <2>3. PageIs(z)
    BY <1>9, <2>2 DEF PageIs
  <2>4. ReadOk(z)
    BY <1>3, <1>9, <2>1, <2>3 DEF ReadOk
  <2> QED  BY <1>9, <2>4, SettledIs DEF SettlesWell
<1>10. CASE End(s) <= x.seq
  <2>1. ReadOn(y, s) = y
    BY <1>5, <1>10 DEF ReadOn
  <2>2. Reached(y) = Reached(x)
    BY <1>5 DEF Reached
  <2>3. ShortAt(y) /\ Numbered(y.got, Reached(y) - Len(y.got))
    BY <1>1, <1>5, <2>2 DEF PageIs, ShortAt
  <2>4. ReadIs(Settled(y))
    BY <1>5, <1>9, <1>10, <2>3
  <2> QED  BY <1>6, <2>1, <2>4
<1>11. CASE ~(End(s) <= x.seq) /\ Missing(s)
  <2>1. PICK z : z = [y EXCEPT !.got = <<>>, !.seq = End(s)]
    OBVIOUS
  <2>2. ReadOn(y, s) = z
    BY <1>5, <1>11, <2>1 DEF ReadOn, AfterGap
  <2>3. /\ z \in Reading /\ z.at = "reading" /\ z.what = "page" /\ z.left = t /\ z.before = x.before
        /\ z.start = x.start /\ z.seq = End(s) /\ z.got = <<>>
    <3>1. PICK e \in Nat : e = End(s)
      BY <1>7
    <3>2. PICK none \in Seq(Line) : none = <<>>
      <4>1. <<>> \in Seq(Line)
        OBVIOUS
      <4> QED  BY <4>1
    <3>3. z = [y EXCEPT !.got = none, !.seq = e]
      BY <2>1, <3>1, <3>2
    <3>4. /\ z \in Reading /\ z.at = y.at /\ z.what = y.what /\ z.left = y.left
          /\ z.before = y.before
          /\ z.start = y.start /\ z.seq = e /\ z.got = none
      BY <1>5, <3>3 DEF Reading
    <3> QED  BY <1>5, <3>1, <3>2, <3>4
  <2>4. Reached(z) = IF End(s) < x.before THEN End(s) ELSE x.before
    BY <2>3 DEF Reached
  <2>5. Len(z.got) = 0 /\ Numbered(z.got, Reached(z) - Len(z.got))
    BY <2>3 DEF Numbered
  <2>6. ShortAt(z)
    <3>1. CASE doomed
      BY <3>1 DEF ShortAt
    <3>2. CASE End(s) <= Oldest
      <4>1. Reached(z) - Len(z.got) - 1 < Oldest
        BY <1>2, <1>7, <2>4, <2>5, <3>2, OldestIs
      <4> QED  BY <4>1 DEF ShortAt
    <3> QED  BY <1>3, <1>11, <3>1, <3>2
  <2>7. End(s) <= z.seq
    BY <1>7, <2>3
  <2>8. ReadIs(Settled(z))
    BY <1>9, <2>3, <2>5, <2>6, <2>7
  <2> QED  BY <1>6, <2>2, <2>8
<1>12. CASE ~(End(s) <= x.seq) /\ ~Missing(s)
  <2> DEFINE upto == IF x.before <= End(s) THEN x.before ELSE End(s)
             lines == LinesOf(s, x.seq, upto)
             all == x.got \o lines
             got == Newest(all, MaxReadBytes)
  <2>1. Upto(y, s) = upto /\ upto \in Nat /\ x.seq < upto /\ upto <= End(s) /\ upto <= x.before
    <3>1. Min({x.before, End(s)}) = upto
      BY <1>2, <1>7, MinIs
    <3> QED  BY <1>1, <1>2, <1>5, <1>7, <1>12, <3>1 DEF Upto
  <2> HIDE DEF upto
  <2>2. /\ disk[s.first] \in Seq(Line) /\ Numbered(disk[s.first], s.first)
        /\ s.lines <= Len(disk[s.first])
        /\ Len(disk[s.first]) \in Nat
    BY <1>3, <1>12, SeqIs DEF Missing
  <2>3. ~CutShort(y, s)
    BY <1>7, <2>1, <2>2 DEF CutShort
  <2>4. PICK z : z = [y EXCEPT !.got = got, !.seq = upto]
    OBVIOUS
  <2>5. ReadOn(y, s) = z
    BY <1>5, <1>12, <2>1, <2>3, <2>4 DEF ReadOn
  <2>6. /\ lines \in Seq(Line) /\ Len(lines) = upto - x.seq /\ Numbered(lines, x.seq)
    <3>1. PICK j \in Nat : j = x.seq - s.first + 1
      BY <1>2, <1>7
    <3>2. PICK k \in Nat : k = upto - s.first
      BY <1>7, <1>2, <2>1
    <3>3. /\ j \in Nat \ {0} /\ k <= Len(disk[s.first]) /\ j <= k + 1
          /\ k + 1 - j = upto - x.seq /\ s.first \in Int
          /\ s.first + j - 1 = x.seq
      <4>1. x.seq \in Nat /\ s.first \in Nat /\ s.first <= x.seq
        BY <1>2, <1>7
      <4>2. upto \in Nat /\ x.seq < upto
        BY <2>1
      <4>3. k <= Len(disk[s.first])
        <5>1. upto <= s.first + s.lines /\ s.lines \in Nat /\ s.lines <= Len(disk[s.first])
              /\ Len(disk[s.first]) \in Nat
          BY <1>7, <2>1, <2>2
        <5> QED  BY <3>2, <4>1, <4>2, <5>1
      <4>4. PICK a \in Nat : a = x.seq
        BY <4>1
      <4>5. PICK b \in Nat : b = upto
        BY <4>2
      <4>6. PICK f \in Nat : f = s.first
        BY <4>1
      <4>7. j = a - f + 1 /\ k = b - f /\ f <= a /\ a < b
        BY <3>1, <3>2, <4>1, <4>2, <4>4, <4>5, <4>6
      <4>8. j \in Nat \ {0} /\ j <= k + 1 /\ k + 1 - j = b - a /\ f \in Int /\ f + j - 1 = a
        BY <4>7
      <4> QED  BY <4>3, <4>4, <4>5, <4>6, <4>8
    <3>4. lines = SubSeq(disk[s.first], j, k)
      BY <3>1, <3>2 DEF LinesOf
    <3>5. SubSeq(disk[s.first], j, k) \in Seq(Line) /\ Len(SubSeq(disk[s.first], j, k)) = k + 1 - j
      BY <2>2, <3>3, SubSeqIs
    <3>6. Numbered(SubSeq(disk[s.first], j, k), s.first + j - 1)
      BY <2>2, <3>3, NumberedSub
    <3> QED  BY <3>3, <3>4, <3>5, <3>6
  <2> HIDE DEF lines
  <2>7. Numbered(x.got, x.seq - Len(x.got)) /\ ShortAt(x)
    BY <1>1, <1>7 DEF PageIs
  <2>8. /\ all \in Seq(Line) /\ Len(all) = Len(x.got) + Len(lines)
        /\ Numbered(all, x.seq - Len(x.got))
    <3>1. x.seq - Len(x.got) \in Int /\ x.seq - Len(x.got) + Len(x.got) = x.seq
      BY <1>2
    <3>2. Numbered(lines, x.seq - Len(x.got) + Len(x.got))
      BY <2>6, <3>1
    <3> QED  BY <1>2, <2>6, <2>7, <3>1, <3>2, ConcatIs, NumberedJoin
  <2>9. /\ Weight(all) = Weight(x.got) + Weight(lines) /\ Weight(x.got) \in Nat
        /\ Weight(lines) \in Nat
    BY <1>2, <2>6, LineIs, WeightConcat
  <2>10. all # <<>> /\ Len(all) \in Nat /\ Len(all) = Len(x.got) + (upto - x.seq)
    <3>1. Len(all) \in Nat /\ Len(all) = Len(x.got) + (upto - x.seq) /\ Len(all) # 0
      BY <1>2, <2>1, <2>6, <2>8
    <3> QED  BY <2>8, <3>1, NoneIs
  <2> HIDE DEF all
  <2>11. PICK k \in 1..Len(all) :
            /\ got = SubSeq(all, k, Len(all))
            /\ k > 1 => Weight(SubSeq(all, k, Len(all))) + all[k - 1].size > MaxReadBytes
    <3>1. MaxReadBytes \in Nat
      BY SpoolAssumption
    <3> QED  BY <2>8, <2>10, <3>1, LineIs, NewestIs
  <2> HIDE DEF got
  <2>12. k \in Nat \ {0} /\ k <= Len(all) /\ x.seq - Len(x.got) \in Int
    BY <1>2, <2>10
  <2>13. /\ got \in Seq(Line) /\ Len(got) = Len(all) + 1 - k
         /\ Numbered(got, (x.seq - Len(x.got)) + k - 1)
    <3>1. PICK i \in Int : i = x.seq - Len(x.got)
      BY <2>12
    <3>2. k \in Nat \ {0} /\ Len(all) \in Nat /\ Len(all) <= Len(all) /\ k <= Len(all) + 1
      BY <2>10, <2>12
    <3>3. Numbered(SubSeq(all, k, Len(all)), i + k - 1)
      BY <2>8, <3>1, <3>2, NumberedSub
    <3>4. SubSeq(all, k, Len(all)) \in Seq(Line) /\ Len(SubSeq(all, k, Len(all))) = Len(all) + 1 - k
      BY <2>8, <3>2, SubSeqIs
    <3> QED  BY <2>11, <3>1, <3>3, <3>4
  <2>14. /\ z \in Reading /\ z.at = "reading" /\ z.what = "page" /\ z.left = t
         /\ z.before = x.before
         /\ z.start = x.start /\ z.seq = upto /\ z.got = got
    BY <1>5, <2>1, <2>4, <2>13 DEF Reading
  <2>15. Reached(z) = upto
    BY <1>2, <2>1, <2>14 DEF Reached
  <2>16. (x.seq - Len(x.got)) + k - 1 = upto - Len(got)
    <3>1. x.seq \in Nat /\ Len(x.got) \in Nat /\ upto \in Nat /\ k \in Nat
      BY <1>2, <2>1, <2>12
    <3>2. Len(got) = Len(all) + 1 - k /\ Len(all) = Len(x.got) + (upto - x.seq)
      BY <2>10, <2>13
    <3>3. PICK a \in Nat : a = x.seq
      BY <3>1
    <3>4. PICK b \in Nat : b = Len(x.got)
      BY <3>1
    <3>5. PICK c \in Nat : c = upto
      BY <3>1
    <3>6. Len(got) = (b + (c - a)) + 1 - k
      BY <3>2, <3>3, <3>4, <3>5
    <3>7. (a - b) + k - 1 = c - ((b + (c - a)) + 1 - k)
      BY <3>1
    <3> QED  BY <3>3, <3>4, <3>5, <3>6, <3>7
  <2>17. ShortAt(z)
    <3>1. SUFFICES ASSUME x.start <= upto - Len(got) - 1
                   PROVE  Weight(got) + Max(Size) > MaxReadBytes \/ doomed \/ upto - Len(got) - 1 < Oldest
      BY <2>14, <2>15 DEF ShortAt
    <3>2. CASE k > 1
      <4>1. Weight(got) + all[k - 1].size > MaxReadBytes
        BY <2>11, <3>2
      <4>2. all[k - 1] \in Line
        <5>1. k - 1 \in 1..Len(all)
          BY <2>10, <2>12, <3>2
        <5> QED  BY <2>8, <5>1, SeqIs
      <4>3. all[k - 1].size \in Size /\ all[k - 1].size \in Nat /\ all[k - 1].size <= Max(Size)
        BY <4>2, LineIs DEF Line
      <4>4. Max(Size) \in Nat /\ Weight(got) \in Nat /\ MaxReadBytes \in Nat
        BY <2>13, <4>3, LineIs, WeightConcat, SpoolAssumption
      <4> QED  BY <4>1, <4>3, <4>4
    <3>3. CASE k = 1
      <4>1. upto - Len(got) - 1 = x.seq - Len(x.got) - 1
        BY <1>2, <2>1, <2>10, <2>13, <3>3
      <4>2. Weight(x.got) + Max(Size) > MaxReadBytes \/ doomed \/ x.seq - Len(x.got) - 1 < Oldest
        BY <1>7, <2>7, <3>1, <4>1 DEF ShortAt
      <4>3. got = all
        <5>1. got = SubSeq(all, 1, Len(all))
          BY <2>11, <3>3
        <5> QED  BY <2>8, <5>1, SubSeqFull
      <4>4. Max(Size) \in Nat
        <5>1. 1 \in 1..Len(all)
          BY <2>12, <3>3
        <5>2. all[1] \in Line
          BY <2>8, <5>1, SeqIs
        <5>3. Size # {}
          BY <5>2 DEF Line
        <5> QED  BY <5>3, LineIs
      <4>5. Weight(x.got) + Max(Size) > MaxReadBytes => Weight(got) + Max(Size) > MaxReadBytes
        <5>1. MaxReadBytes \in Nat
          BY SpoolAssumption
        <5> QED  BY <2>9, <4>3, <4>4, <5>1
      <4> QED  BY <4>1, <4>2, <4>5
    <3> QED  BY <2>12, <3>2, <3>3
  <2>18. End(s) <= upto \/ x.before <= upto
    BY <1>2, <1>7 DEF upto
  <2>19. ReadIs(Settled(z))
    BY <1>9, <2>13, <2>14, <2>15, <2>16, <2>17, <2>18
  <2> QED  BY <1>6, <2>5, <2>19
<1> QED  BY <1>10, <1>11, <1>12

\* An export, one segment on.
LEMMA ExportsOn ==
    ASSUME SpoolInv, NEW x, ReadIs(x), x.at = "reading", x.what = "export"
    PROVE  ReadIs(Settled(ExportOn([x EXCEPT !.left = Tail(@)], Head(x.left))))
<1> DEFINE s == Head(x.left)
           t == Tail(x.left)
           n == [x EXCEPT !.left = t]
<1>1. x \in Reading /\ x.left # <<>> /\ ExportIs(x)
  BY DEF ReadIs, ReadOk
<1>2. /\ x.before \in Nat /\ x.start \in Nat /\ x.seq \in Nat /\ x.got \in Seq(Line)
      /\ Len(x.got) \in Nat
      /\ x.started \in BOOLEAN
  BY <1>1, SeqIs DEF Reading
<1>3. /\ s \in Segment /\ t \in Seq(Segment) /\ s.first = x.left[1].first
      /\ s.first \in DOMAIN disk =>
            /\ disk[s.first] \in Seq(Line) /\ Numbered(disk[s.first], s.first)
            /\ s.lines <= Len(disk[s.first])
      /\ End(s) <= x.before
      /\ t = <<>> => x.before <= End(s)
      /\ t # <<>> => /\ t[1].first = End(s) /\ LeftJoins([x EXCEPT !.left = t])
                     /\ \A i \in 1..Len(t) : LeftIs(t[i])
  BY LeftOn
<1>4. PICK y : y = n
  OBVIOUS
<1>5. /\ y \in Reading /\ y.at = "reading" /\ y.what = "export" /\ y.left = t /\ y.before = x.before
      /\ y.start = x.start /\ y.seq = x.seq /\ y.got = x.got /\ y.started = x.started
  BY <1>1, <1>3, <1>4 DEF Reading
<1>6. Head(x.left) = s /\ [x EXCEPT !.left = Tail(@)] = y
  BY <1>1, <1>4 DEF Reading
<1> HIDE DEF s, t, n
<1>7. /\ s.first \in Nat /\ s.lines \in Nat /\ End(s) = s.first + s.lines /\ End(s) \in Nat
  BY <1>3 DEF Segment, End
<1>8. t # <<>> => LeftJoins(y)
  BY <1>3, <1>4 DEF n
<1>9. Numbered(x.got, s.first - Len(x.got)) /\ (~x.started => x.got = <<>>)
  BY <1>1, <1>3 DEF ExportIs
<1>10. (IF t = <<>> THEN x.before ELSE t[1].first) = End(s)
  <2>1. CASE t = <<>>
    BY <1>2, <1>3, <1>7, <2>1
  <2> QED  BY <1>3, <2>1
\* What a step of an export comes to.
<1>11. ASSUME NEW z \in Reading, z.at = "reading", z.what = "export", z.left = t, z.before = x.before,
              Numbered(z.got, End(s) - Len(z.got)), ~z.started => z.got = <<>>
       PROVE  ReadIs(Settled(z))
  <2>1. t # <<>> => LeftJoins(z)
    BY <1>5, <1>8, <1>11 DEF LeftJoins
  <2>2. ExportIs(z)
    BY <1>10, <1>11 DEF ExportIs
  <2>3. ReadOk(z)
    BY <1>3, <1>11, <2>1, <2>2 DEF ReadOk
  <2> QED  BY <1>11, <2>3, SettledIs DEF SettlesWell
<1>12. CASE Skips(y, s)
  <2>1. ExportOn(y, s) = y
    BY <1>12 DEF ExportOn
  <2>2. y.got = <<>> /\ ~y.started
    BY <1>5, <1>9, <1>12 DEF Skips
  <2>3. Numbered(y.got, End(s) - Len(y.got))
    BY <2>2 DEF Numbered
  <2>4. ReadIs(Settled(y))
    BY <1>5, <1>11, <2>2, <2>3
  <2> QED  BY <1>6, <2>1, <2>4
<1>13. CASE ~Skips(y, s) /\ (Missing(s) \/ CutShort(y, s))
  <2>1. PICK z : z = [y EXCEPT !.at = "error"]
    OBVIOUS
  <2>2. ExportOn(y, s) = z
    BY <1>13, <2>1 DEF ExportOn
  <2>3. z \in Reading /\ z.at = "error" /\ z.what = "export"
    BY <1>5, <2>1 DEF Reading
  <2>4. Settled(z) = z
    BY <2>3 DEF Settled
  <2>5. ReadIs(z)
    BY <2>3 DEF ReadIs
  <2> QED  BY <1>6, <2>2, <2>4, <2>5
<1>14. CASE ~Skips(y, s) /\ ~Missing(s) /\ ~CutShort(y, s)
  <2> DEFINE lines == LinesOf(s, s.first, End(s))
             all == x.got \o lines
  <2>1. PICK z : z = [y EXCEPT !.got = all, !.started = TRUE]
    OBVIOUS
  <2>2. ExportOn(y, s) = z
    BY <1>5, <1>14, <2>1 DEF ExportOn
  <2>3. /\ disk[s.first] \in Seq(Line) /\ Numbered(disk[s.first], s.first)
        /\ s.lines <= Len(disk[s.first])
        /\ Len(disk[s.first]) \in Nat
    BY <1>3, <1>14, SeqIs DEF Missing
  <2>4. lines \in Seq(Line) /\ Len(lines) = s.lines /\ Numbered(lines, s.first)
    <3>1. PICK f \in Nat : f = s.first
      BY <1>7
    <3>2. PICK k \in Nat : k = s.lines
      BY <1>7
    <3>3. /\ f - f + 1 = 1 /\ (f + k) - f = k /\ k + 1 - 1 = k /\ f + 1 - 1 = f
          /\ f \in Int /\ 1 <= k + 1
      OBVIOUS
    <3>4. lines = SubSeq(disk[s.first], 1, k)
      BY <1>7, <3>1, <3>2, <3>3 DEF LinesOf
    <3>5. 1 \in Nat \ {0} /\ k <= Len(disk[s.first])
      BY <2>3, <3>2
    <3>6. SubSeq(disk[s.first], 1, k) \in Seq(Line) /\ Len(SubSeq(disk[s.first], 1, k)) = k + 1 - 1
      BY <2>3, <3>3, <3>5, SubSeqIs
    <3>7. Numbered(SubSeq(disk[s.first], 1, k), f + 1 - 1)
      BY <2>3, <3>1, <3>3, <3>5, NumberedSub
    <3> QED  BY <3>1, <3>2, <3>3, <3>4, <3>6, <3>7
  <2> HIDE DEF lines
  <2>5. /\ all \in Seq(Line) /\ Len(all) = Len(x.got) + Len(lines)
        /\ Numbered(all, s.first - Len(x.got))
    <3>1. PICK i \in Int : i = s.first - Len(x.got)
      BY <1>2, <1>7
    <3>2. i + Len(x.got) = s.first
      BY <1>2, <1>7, <3>1
    <3>3. Numbered(lines, i + Len(x.got)) /\ Numbered(x.got, i)
      BY <1>9, <2>4, <3>1, <3>2
    <3> QED  BY <1>2, <2>4, <3>1, <3>3, ConcatIs, NumberedJoin
  <2> HIDE DEF all
  <2>6. /\ z \in Reading /\ z.at = "reading" /\ z.what = "export" /\ z.left = t
        /\ z.before = x.before
        /\ z.got = all /\ z.started = TRUE
    BY <1>5, <2>1, <2>5 DEF Reading
  <2>7. s.first - Len(x.got) = End(s) - Len(all)
    <3>1. PICK a \in Nat : a = Len(x.got)
      BY <1>2
    <3>2. PICK f \in Nat : f = s.first
      BY <1>7
    <3>3. PICK k \in Nat : k = s.lines
      BY <1>7
    <3>4. f - a = (f + k) - (a + k)
      OBVIOUS
    <3> QED  BY <1>7, <2>4, <2>5, <3>1, <3>2, <3>3, <3>4
  <2>8. ReadIs(Settled(z))
    BY <1>11, <2>5, <2>6, <2>7
  <2> QED  BY <1>6, <2>2, <2>8
<1> QED  BY <1>12, <1>13, <1>14

\* Readers keep their place whatever any of them, the writer or the end of the
\* environment does.
LEMMA ReadersStay ==
    ASSUME SpoolInv, SpoolInv', Grows, ReadersInv, reader' = reader
    PROVE  ReadersInv'
<1> SUFFICES ASSUME NEW r \in Reader, reader[r] # [at |-> "idle"] PROVE ReadIs(reader[r])'
  BY DEF ReadersInv
<1>1. PICK x : x = reader[r]
  OBVIOUS
<1>2. ReadIs(x)
  BY <1>1 DEF ReadersInv
<1>3. ReadIs(x)'
  BY <1>2, ReadKept
<1>4. x = reader'[r]
  BY <1>1
<1> QED  BY <1>3, <1>4
         DEF ReadIs, Reading, Segment, ReadOk, LeftJoins, LeftIs, PageIs,
             ExportIs, ShortAt, Reached, Numbered

\* One reader moves; the others' snapshots are as good as before.
LEMMA ReaderMoves ==
    ASSUME SpoolInv, SpoolInv', Grows, ReadersInv, NEW r \in Reader, NEW x, ReadIs(x)',
           reader' = [reader EXCEPT ![r] = x]
    PROVE  ReadersInv'
<1> SUFFICES ASSUME NEW q \in Reader, reader'[q] # [at |-> "idle"] PROVE ReadIs(reader[q])'
  BY DEF ReadersInv
<1>1. CASE q = r
  <2>1. x = reader'[q]
    BY <1>1 DEF ReadersInv
  <2> QED  BY <2>1
           DEF ReadIs, Reading, Segment, ReadOk, LeftJoins, LeftIs, PageIs,
               ExportIs, ShortAt, Reached, Numbered
<1>2. CASE q # r
  <2>1. PICK y : y = reader[q]
    OBVIOUS
  <2>2. y = reader'[q]
    BY <1>2, <2>1 DEF ReadersInv
  <2>3. ReadIs(y)
    BY <2>1, <2>2 DEF ReadersInv
  <2>4. ReadIs(y)'
    BY <2>3, ReadKept
  <2> QED  BY <2>2, <2>4
           DEF ReadIs, Reading, Segment, ReadOk, LeftJoins, LeftIs, PageIs,
               ExportIs, ShortAt, Reached, Numbered
<1> QED  BY <1>1, <1>2

\* The readers, whoever of them moves and whatever the spool does.
LEMMA ReadersStep ==
    ASSUME SpoolInv, SpoolInv', Grows, ReadersInv, SpoolStep
    PROVE  ReadersInv'
<1>1. ASSUME NEW r \in Reader, NEW what \in {"page", "export"}, NEW start \in Nat, NEW end \in Nat,
             end <= nextSeq, Oldest <= start, what = "export" => end = nextSeq /\ start = Oldest,
             Snapshot(r, what, start, end)
      PROVE  ReadersInv'
  <2>1. /\ ~failed /\ disk' = Flushed /\ buffer' = <<>>
        /\ UNCHANGED <<segments, nextSeq, failed, doomed>>
    BY <1>1 DEF Snapshot
  <2>2. \A i \in 1..Len(segments) :
           segments[i].first \in DOMAIN disk' => Len(disk'[segments[i].first]) = segments[i].lines
    BY <2>1, FlushInv
  <2>3. PICK x : x = Settled([at |-> "reading", what |-> what, left |-> segments, before |-> end,
                              start |-> start, seq |-> start, got |-> <<>>, started |-> FALSE])
    OBVIOUS
  <2>4. reader' = [reader EXCEPT ![r] = x]
    BY <1>1, <2>3 DEF Snapshot
  <2>5. ReadIs(x)'
    <3>1. ReadIs(Settled([at |-> "reading", what |-> what, left |-> segments, before |-> end,
                          start |-> start, seq |-> start, got |-> <<>>, started |-> FALSE]))'
      BY <1>1, <2>1, <2>2, SnapshotIs
    <3>2. x = Settled([at |-> "reading", what |-> what, left |-> segments', before |-> end,
                       start |-> start, seq |-> start, got |-> <<>>, started |-> FALSE])
      BY <2>1, <2>3
    <3> QED  BY <3>1, <3>2
             DEF Settled, ReadIs, Reading, Segment, ReadOk, LeftJoins, LeftIs, PageIs, ExportIs,
                  ShortAt, Reached, Numbered
  <2> QED  BY <2>4, <2>5, ReaderMoves
<1>2. ASSUME NEW r \in Reader, NEW before \in 1..(nextSeq + 1), NEW limit \in ReadLimit,
             ReadPage(r, before, limit)
      PROVE  ReadersInv'
  <2> DEFINE end == Min({before, nextSeq})
             most == Min({limit, MaxReadLines, end})
             start == Max({end - most, Oldest})
  <2>1. nextSeq \in Nat /\ before \in Nat /\ limit \in Nat /\ MaxReadLines \in Nat /\ Oldest \in Nat
    BY OldestIs, SpoolAssumption DEF SpoolInv
  <2>2. end \in Nat /\ end <= nextSeq
    BY <2>1, MinIs
  <2> HIDE DEF end
  <2>3. most \in Nat /\ most <= end
    <3> DEFINE T == {limit, MaxReadLines, end}
    <3>1. T \subseteq Nat /\ T # {} /\ end \in T
      BY <2>1, <2>2
    <3> HIDE DEF T
    <3>2. \E m \in T : \A y \in T : m <= y
      BY <3>1, LeastNat
    <3>3. Min(T) \in T /\ \A y \in T : Min(T) <= y
      BY <3>2 DEF Min
    <3> QED  BY <3>1, <3>3 DEF T
  <2> HIDE DEF most
  <2>4. start \in Nat /\ Oldest <= start
    <3>1. end - most \in Nat
      BY <2>2, <2>3
    <3>2. start = IF end - most <= Oldest THEN Oldest ELSE end - most
      <4>1. PICK p \in Int : p = end - most
        BY <3>1
      <4>2. PICK q \in Int : q = Oldest
        BY <2>1
      <4>3. Max({p, q}) = IF p <= q THEN q ELSE p
        BY MinIs
      <4> QED  BY <4>1, <4>2, <4>3
    <3> QED  BY <2>1, <3>1, <3>2
  <2>5. Snapshot(r, "page", start, end)
    BY <1>2 DEF ReadPage, start, most, end
  <2> HIDE DEF start
  <2> QED  BY <1>1, <2>2, <2>4, <2>5
<1>3. ASSUME NEW r \in Reader, Export(r) PROVE ReadersInv'
  <2>1. nextSeq \in Nat /\ Oldest \in Nat
    BY OldestIs DEF SpoolInv
  <2>2. Snapshot(r, "export", Oldest, nextSeq)
    BY <1>3 DEF Export
  <2>3. PICK start \in Nat, end \in Nat : start = Oldest /\ end = nextSeq
    BY <2>1
  <2>4. Snapshot(r, "export", start, end) /\ end <= nextSeq /\ Oldest <= start
    BY <2>1, <2>2, <2>3
  <2> QED  BY <1>1, <2>3, <2>4
<1>4. ASSUME NEW r \in Reader, ReadSegment(r) PROVE ReadersInv'
  <2>1. PICK x : x = reader[r]
    OBVIOUS
  <2>2. x.at = "reading" /\ ReadIs(x)
    <3>1. x.at = "reading"
      BY <1>4, <2>1 DEF ReadSegment
    <3>2. x # [at |-> "idle"]
      BY <3>1
    <3> QED  BY <2>1, <3>1, <3>2 DEF ReadersInv
  <2>3. PICK y :
           y = Settled(IF x.what = "page" THEN ReadOn([x EXCEPT !.left = Tail(@)], Head(x.left))
                             ELSE ExportOn([x EXCEPT !.left = Tail(@)], Head(x.left)))
    OBVIOUS
  <2>4. reader' = [reader EXCEPT ![r] = y]
    <3>1. PICK z : z = [x EXCEPT !.left = Tail(@)]
      OBVIOUS
    <3>2. z.what = x.what
      BY <2>2, <3>1 DEF ReadIs, Reading
    <3>3. [reader[r] EXCEPT !.left = Tail(@)] = z
      BY <2>1, <3>1
    <3> QED  BY <1>4, <2>1, <2>3, <3>1, <3>2, <3>3 DEF ReadSegment
  <2>5. ReadIs(y)
    <3>1. CASE x.what = "page"
      BY <2>2, <2>3, <3>1, PageOn
    <3>2. CASE x.what = "export"
      BY <2>2, <2>3, <3>2, ExportsOn
    <3> QED  BY <2>2, <3>1, <3>2 DEF ReadIs, Reading
  <2>6. ReadIs(y)'
    BY <2>5, ReadKept
  <2> QED  BY <2>4, <2>6, ReaderMoves
<1>5. ASSUME reader' = reader PROVE ReadersInv'
  BY <1>5, ReadersStay
<1>6. Doom => reader' = reader
  BY DEF Doom
<1>7. \A f \in DOMAIN disk : Unlink(f) => reader' = reader
  BY DEF Unlink
<1> QED  BY <1>2, <1>3, <1>4, <1>5, <1>6, <1>7 DEF SpoolStep, ReaderStep

-------------------------------------------------------------------------------
(* The theorems.                                                           *)

TailInv == SpoolInv /\ WriterInv /\ ReadersInv

LEMMA TailInvInit == TailInit => TailInv
<1> SUFFICES ASSUME TailInit PROVE TailInv
  OBVIOUS
<1>1. /\ segments = <<>> /\ nextSeq = 1 /\ failed = FALSE /\ buffer = <<>> /\ disk = <<>>
      /\ doomed = FALSE
      /\ reader = [r \in Reader |-> [at |-> "idle"]]
  BY DEF TailInit, SpoolInit
<1>2. /\ Len(segments) = 0 /\ DOMAIN disk = {} /\ Len(buffer) = 0
      /\ segments \in Seq(Segment) /\ buffer \in Seq(Line)
  BY <1>1
<1>3. SpoolInv
  <2>1. BufferIs
    BY <1>1, <1>2 DEF BufferIs, Numbered
  <2>2. DiskIs
    BY <1>2 DEF DiskIs
  <2>3. Joined(segments, nextSeq)
    BY <1>2 DEF Joined
  <2>4. nextSeq \in Nat \ {0}
    BY <1>1
  <2>5. failed \in BOOLEAN /\ doomed \in BOOLEAN
    BY <1>1
  <2> QED  BY <1>2, <2>1, <2>2, <2>3, <2>4, <2>5 DEF SpoolInv
<1>4. /\ spooling \in BOOLEAN /\ notice \in {FALSE, ~spooling} /\ lineSeq = 1 /\ pending = <<>>
      /\ following = Target /\ frames = TRUE /\ out = <<>> /\ lastSent = 0
  BY DEF TailInit
<1>5. WriterInv
  <2>1. Len(pending) = 0 /\ pending \in Seq(Line) /\ out \in Seq(Payload)
    BY <1>4
  <2>2. FrameSeq = 1
    BY <1>4, <2>1 DEF FrameSeq
  <2>3. Numbered(pending, FrameSeq)
    BY <2>1 DEF Numbered
  <2>4. 1 \in 1..(MaxLines + 1)
    BY TailAssumption
  <2>5. {spooling, notice, frames} \subseteq BOOLEAN
    BY <1>4
  <2>6. /\ lineSeq \in 1..(MaxLines + 1) /\ nextSeq <= lineSeq /\ nextSeq = lineSeq
        /\ lastSent \in Nat /\ lastSent < FrameSeq /\ ~(lastSent + 1 < FrameSeq)
    BY <1>1, <1>4, <2>2, <2>4
  <2> QED  BY <1>4, <2>1, <2>3, <2>5, <2>6 DEF WriterInv
<1>6. ReadersInv
  BY <1>1 DEF ReadersInv
<1> QED  BY <1>3, <1>5, <1>6 DEF TailInv

LEMMA TailInvStep == TailInv /\ [TailNext]_tailVars => TailInv'
<1> SUFFICES ASSUME SpoolInv, WriterInv, ReadersInv, [TailNext]_tailVars PROVE TailInv'
  BY DEF TailInv
<1>0. /\ following \subseteq Target /\ frames \in BOOLEAN
      /\ (~frames => following = {} /\ pending = <<>> /\ ~notice)
  BY DEF WriterInv
<1>1. ASSUME NEW t \in Target, NEW size \in Size, Push(t, size) PROVE TailInv'
  <2>1. SpoolInv' /\ WriterInv' /\ Grows
    BY <1>1, PushInv
  <2>2. reader' = reader
    BY <1>1 DEF Push, Spool, AppendLine, AppendFails, spoolVars
  <2> QED  BY <2>1, <2>2, ReadersStay DEF TailInv
<1>2. ASSUME NEW t \in Target, Status(t) PROVE TailInv'
  <2>1. Append(Taken, [what |-> "status"]) \in Seq(Payload)
    <3>1. [what |-> "status"] \in Payload
      BY DEF Payload
    <3> QED  BY <3>1, TakenIs, AppendIs
  <2>2. SpoolInv' /\ WriterInv' /\ Grows
    BY <1>0, <1>2, <2>1, TakeInv DEF Status, FlushFirst
  <2> QED  BY <1>2, <2>2, ReadersStay DEF TailInv, Status, spoolVars
<1>3. ASSUME NEW t \in Target, Complete(t) PROVE TailInv'
  <2>1. UNCHANGED <<segments, nextSeq, failed, buffer, disk, doomed, reader>>
    BY <1>3 DEF Complete, spoolVars
  <2>2. SpoolInv' /\ Grows
    BY <2>1, RemoveInv DEF SpoolInv
  <2>3. out' \in Seq(Payload) /\ frames
    BY <1>0, <1>3 DEF Complete
  <2>4. WriterInv'
    BY <1>3, <2>1, <2>3 DEF Complete, WriterInv, FrameSeq, FrameCut, Numbered, Weight
  <2> QED  BY <2>1, <2>2, <2>4, ReadersStay DEF TailInv
<1>4. ASSUME Tick PROVE TailInv'
  <2>1. SpoolInv' /\ WriterInv' /\ Grows
    BY <1>0, <1>4, TakenIs, TakeInv DEF Tick, AllDone
  <2> QED  BY <1>4, <2>1, ReadersStay DEF TailInv, Tick, spoolVars
<1>5. ASSUME SpoolStep, UNCHANGED <<lineSeq, pending, spooling, notice, following, frames, lastSent>>,
             out' = <<>>
      PROVE  TailInv'
  <2>1. SpoolInv' /\ Grows /\ nextSeq' = nextSeq /\ (failed => failed')
    BY <1>5, SpoolStepInv
  <2>2. out' \in Seq(Payload)
    BY <1>5
  <2>3. WriterInv'
    BY <1>5, <2>1, <2>2 DEF WriterInv, FrameSeq, FrameCut, Numbered, Weight
  <2> QED  BY <1>5, <2>1, <2>3, ReadersStep DEF TailInv
<1>6. ASSUME UNCHANGED tailVars PROVE TailInv'
  <2>1. UNCHANGED <<segments, nextSeq, failed, buffer, disk, doomed, reader>>
    BY <1>6 DEF tailVars, spoolVars
  <2>2. SpoolInv' /\ Grows
    BY <2>1, RemoveInv DEF SpoolInv
  <2>3. WriterInv'
    BY <1>6, <2>1 DEF tailVars, writerVars, WriterInv, FrameSeq, FrameCut, Numbered, Weight
  <2> QED  BY <2>1, <2>2, <2>3, ReadersStay DEF TailInv
<1> QED  BY <1>1, <1>2, <1>3, <1>4, <1>5, <1>6 DEF TailNext

LEMMA TailInvHolds == TailSpec => []TailInv
BY TailInvInit, TailInvStep, PTL DEF TailSpec

LEMMA TypesHold == TailInv => TailTypeOK
<1> SUFFICES ASSUME SpoolInv, WriterInv, ReadersInv PROVE TailTypeOK
  BY DEF TailInv
<1>1. /\ segments \in Seq(Segment) /\ Joined(segments, nextSeq) /\ nextSeq \in Nat \ {0}
      /\ DOMAIN segments = 1..Len(segments)
      /\ lineSeq \in 1..(MaxLines + 1) /\ nextSeq <= lineSeq /\ MaxLines \in Nat
      /\ lastSent \in Nat /\ lastSent < lineSeq - Len(pending) /\ Len(pending) \in Nat
  BY SeqIs, TailAssumption DEF SpoolInv, WriterInv, FrameSeq
<1>2. ASSUME NEW s \in ToSet(segments)
      PROVE  s \in [first : 1..MaxLines, size : Nat, lines : 1..MaxLines]
  <2>1. PICK i \in 1..Len(segments) : s = segments[i]
    BY <1>1 DEF ToSet
  <2>2. s \in Segment /\ s.first < End(s) /\ End(s) <= nextSeq
    BY <1>1, <2>1, SeqIs, JoinedIs
  <2>3. s.first \in Nat \ {0} /\ s.lines \in Nat \ {0} /\ End(s) = s.first + s.lines
    BY <2>2 DEF Segment, End
  <2>4. PICK f \in Nat \ {0} : f = s.first
    BY <2>3
  <2>5. PICK k \in Nat \ {0} : k = s.lines
    BY <2>3
  <2>6. f + k <= MaxLines + 1
    BY <1>1, <2>2, <2>3, <2>4, <2>5
  <2>7. f \in 1..MaxLines /\ k \in 1..MaxLines
    BY <1>1, <2>6
  <2> QED  BY <2>2, <2>4, <2>5, <2>7 DEF Segment
<1>3. nextSeq \in 1..(MaxLines + 1) /\ lineSeq \in 1..(MaxLines + 1)
  BY <1>1
<1>4. lastSent \in 0..MaxLines
  BY <1>1
<1>5. {failed, doomed, spooling, notice, frames} \subseteq BOOLEAN
  BY DEF SpoolInv, WriterInv
<1>6. \A f \in DOMAIN disk : disk[f] \in Seq(Line)
  BY DEF SpoolInv, DiskIs
<1>7. \A r \in Reader : reader[r].at \in {"idle", "reading", "done", "error"}
  BY DEF ReadersInv, ReadIs, Reading
<1> QED  BY <1>2, <1>3, <1>4, <1>5, <1>6, <1>7 DEF TailTypeOK, SpoolInv, BufferIs, WriterInv

LEMMA Joins == TailInv => SegmentsJoin
<1> SUFFICES ASSUME TailInv PROVE SegmentsJoin
  OBVIOUS
<1>1. /\ SpoolInv /\ segments \in Seq(Segment) /\ Joined(segments, nextSeq) /\ nextSeq \in Nat
      /\ DOMAIN segments = 1..Len(segments) /\ Len(segments) \in Nat
  BY SeqIs DEF TailInv, SpoolInv
<1>2. ASSUME ~failed, ~doomed
      PROVE  /\ DOMAIN disk = {s.first : s \in ToSet(segments)}
             /\ \A s \in ToSet(segments) :
                   LET there == IF s = Last(segments) THEN Flushed[s.first] ELSE disk[s.first]
                   IN [i \in 1..Len(there) |-> there[i].id] = [i \in 1..s.lines |-> s.first + i - 1]
  <2>1. /\ \A i \in 1..Len(segments) : segments[i].first \in DOMAIN disk
        /\ \A f \in DOMAIN disk : \E i \in 1..Len(segments) : segments[i].first = f /\ Stored(i)
    BY <1>1, <1>2 DEF SpoolInv, DiskIs
  <2>2. DOMAIN disk = {s.first : s \in ToSet(segments)}
    BY <1>1, <2>1 DEF ToSet
  <2>3. ASSUME NEW s \in ToSet(segments)
        PROVE  LET there == IF s = Last(segments) THEN Flushed[s.first] ELSE disk[s.first]
               IN [i \in 1..Len(there) |-> there[i].id] = [i \in 1..s.lines |-> s.first + i - 1]
    <3> DEFINE there == IF s = Last(segments) THEN Flushed[s.first] ELSE disk[s.first]
    <3>1. PICK i \in 1..Len(segments) : s = segments[i]
      BY <1>1 DEF ToSet
    <3>2. s.first \in DOMAIN disk
      BY <2>1, <3>1
    <3>3. Numbered(there, s.first) /\ Len(there) = s.lines
      <4>1. CASE s = Last(segments)
        <5>1. /\ Numbered(Flushed[s.first], s.first)
              /\ \E j \in 1..Len(segments) :
                    segments[j].first = s.first /\ Len(Flushed[s.first]) = segments[j].lines
          BY <1>1, <1>2, <3>2, FlushedIs
        <5>2. PICK j \in 1..Len(segments) :
                 segments[j].first = s.first /\ Len(Flushed[s.first]) = segments[j].lines
          BY <5>1
        <5>3. j = i
          BY <1>1, <3>1, <5>2, JoinedIs
        <5> QED  BY <3>1, <4>1, <5>1, <5>2, <5>3
      <4>2. CASE s # Last(segments)
        <5>1. PICK j \in 1..Len(segments) : segments[j].first = s.first /\ Stored(j)
          BY <2>1, <3>2
        <5>2. j = i
          BY <1>1, <3>1, <5>1, JoinedIs
        <5>3. i < Len(segments)
          <6>1. i # Len(segments)
            BY <3>1, <4>2 DEF Last
          <6>2. PICK n \in Nat : n = Len(segments)
            BY <1>1
          <6>3. i \in 1..n /\ i # n
            BY <6>1, <6>2
          <6> QED  BY <6>2, <6>3
        <5> QED  BY <3>1, <4>2, <5>1, <5>2, <5>3 DEF Stored
      <4> QED  BY <4>1, <4>2
    <3> HIDE DEF there
    <3>4. [k \in 1..Len(there) |-> there[k].id] = [k \in 1..s.lines |-> s.first + k - 1]
      BY <3>3 DEF Numbered
    <3> QED  BY <3>4 DEF there
  <2> QED  BY <2>2, <2>3
<1> QED  BY <1>1, <1>2, TypesHold DEF SegmentsJoin, Joined

\* For any sizes and caps: the segments of the history follow one another up to
\* the next line, and each is on disk or in the buffer, line for line
\* (log_spool.rs, append and rotate).
THEOREM SegmentsAreJoined == TailSpec => []SegmentsJoin
BY TailInvHolds, Joins, PTL

LEMMA Whole == TailInv => ReadsWhole
<1> SUFFICES ASSUME TailInv, NEW r \in Reader
             PROVE  /\ Done(r, "page") => /\ Numbered(reader[r].got, reader[r].before - Len(reader[r].got))
                                          /\ ShortForCause(reader[r])
                    /\ reader[r].at = "error" => reader[r].what = "export"
                    /\ Done(r, "export") => Numbered(reader[r].got, reader[r].before - Len(reader[r].got))
  BY DEF ReadsWhole, PageWhole, ExportJoins
<1>1. PICK x : x = reader[r]
  OBVIOUS
<1>2. CASE x.at = "idle"
  BY <1>1, <1>2 DEF Done
<1>3. CASE x.at # "idle"
  <2>1. x # [at |-> "idle"]
    BY <1>3
  <2>2. ReadIs(x)
    BY <1>1, <2>1 DEF TailInv, ReadersInv
  <2>3. ASSUME x.at = "done", x.what = "page"
        PROVE  Numbered(x.got, x.before - Len(x.got)) /\ ShortForCause(x)
    <3>1. PageIs(x) /\ x.left = <<>> /\ x \in Reading
      BY <2>2, <2>3 DEF ReadIs, ReadOk
    <3>2. Reached(x) = x.before
      BY <3>1 DEF PageIs, Reached, Reading
    <3> QED  BY <3>1, <3>2 DEF PageIs, ShortAt, ShortForCause
  <2>4. ASSUME x.at = "done", x.what = "export" PROVE Numbered(x.got, x.before - Len(x.got))
    <3>1. ExportIs(x) /\ x.left = <<>>
      BY <2>2, <2>4 DEF ReadIs, ReadOk
    <3> QED  BY <3>1 DEF ExportIs
  <2> QED  BY <1>1, <2>2, <2>3, <2>4 DEF Done, ReadIs
<1> QED  BY <1>2, <1>3

\* For any readers, caps and limits: a page has no hole, ends where it was asked
\* to and is short for a cap or for lines that are gone only, and what an
\* export has written has no hole (log_spool.rs, read and export).
THEOREM ReadsAreWhole == TailSpec => []ReadsWhole
BY TailInvHolds, Whole, PTL

\* Every line of the history is in a segment.
LEMMA Covered ==
    ASSUME SpoolInv, NEW n \in Nat, Oldest <= n, n < nextSeq
    PROVE  \E i \in 1..Len(segments) : segments[i].first <= n /\ n < End(segments[i])
<1>1. /\ segments \in Seq(Segment) /\ Len(segments) \in Nat /\ Joined(segments, nextSeq)
      /\ nextSeq \in Nat
      /\ segments # <<>>
  <2>1. segments # <<>>
    BY DEF Oldest, SpoolInv
  <2> QED  BY <2>1, SeqIs DEF SpoolInv
<1> DEFINE T == {i \in 1..Len(segments) : n < End(segments[i])}
<1>2. Len(segments) \in T
  <2>1. Len(segments) \in 1..Len(segments)
    BY <1>1, NoneIs
  <2> QED  BY <1>1, <2>1 DEF Joined
<1>3. PICK i \in T : \A j \in T : i <= j
  <2>1. T \subseteq Nat /\ T # {}
    BY <1>2
  <2> HIDE DEF T
  <2> QED  BY <2>1, LeastNat
<1>4. CASE i = 1
  <2>1. segments[1].first <= n
    BY <1>1 DEF Oldest
  <2> QED  BY <1>3, <1>4, <2>1
<1>5. CASE i # 1
  <2>1. i - 1 \in 1..Len(segments) /\ ~(i <= i - 1) /\ (i - 1) + 1 = i /\ i - 1 # Len(segments)
    BY <1>1, <1>3, <1>5
  <2>2. ~(n < End(segments[i - 1]))
    BY <1>3, <2>1
  <2>3. End(segments[i - 1]) = segments[i].first
    BY <1>1, <2>1 DEF Joined
  <2>4. segments[i].first \in Nat
    BY <1>1, <1>3, JoinedIs
  <2>5. segments[i].first <= n
    BY <2>2, <2>3, <2>4
  <2> QED  BY <1>3, <2>5
<1> QED  BY <1>4, <1>5

\* While neither the spool nor its directory has failed, the history is there.
LEMMA HistoryKept ==
    ASSUME SpoolInv, ~failed, ~doomed, NEW n \in Nat, Oldest <= n, n < nextSeq
    PROVE  n \in Kept
<1>1. PICK i \in 1..Len(segments) : segments[i].first <= n /\ n < End(segments[i])
  BY Covered
<1>2. PICK f : f = segments[i].first
  OBVIOUS
<1>3. /\ segments[i] \in Segment /\ f \in DOMAIN disk /\ Joined(segments, nextSeq)
      /\ nextSeq \in Nat
      /\ segments \in Seq(Segment) /\ Len(segments) \in Nat
  BY <1>2, SeqIs DEF SpoolInv, DiskIs
<1>4. Stored(i)
  <2>1. PICK j \in 1..Len(segments) : segments[j].first = f /\ Stored(j)
    BY <1>3 DEF SpoolInv, DiskIs
  <2>2. j = i
    BY <1>2, <1>3, <2>1, JoinedIs
  <2> QED  BY <2>1, <2>2
<1>5. /\ disk[f] \in Seq(Line) /\ buffer \in Seq(Line) /\ Len(disk[f]) \in Nat
      /\ Len(buffer) \in Nat
      /\ Numbered(disk[f], f) /\ Numbered(buffer, nextSeq - Len(buffer))
      /\ DOMAIN disk[f] = 1..Len(disk[f]) /\ DOMAIN buffer = 1..Len(buffer)
  BY <1>2, <1>3, <1>4, SeqIs DEF SpoolInv, DiskIs, BufferIs, Stored
<1>6. f \in Nat /\ segments[i].lines \in Nat /\ n < f + segments[i].lines /\ f <= n
  BY <1>1, <1>2, <1>3 DEF Segment, End
<1>7. CASE n < f + Len(disk[f])
  <2>1. n - f + 1 \in 1..Len(disk[f])
    BY <1>5, <1>6, <1>7
  <2>2. disk[f][n - f + 1].id = f + (n - f + 1) - 1
    BY <1>5, <2>1 DEF Numbered
  <2>3. f + (n - f + 1) - 1 = n
    BY <1>6
  <2>4. disk[f][n - f + 1] \in ToSet(disk[f])
    BY <1>5, <2>1 DEF ToSet
  <2> QED  BY <1>3, <2>2, <2>3, <2>4 DEF Kept
<1>8. CASE ~(n < f + Len(disk[f]))
  <2>1. i = Len(segments) /\ Len(disk[f]) + Len(buffer) = segments[i].lines
    <3>1. Len(disk[f]) # segments[i].lines
      BY <1>5, <1>6, <1>8
    <3>2. ~(i < Len(segments))
      BY <1>2, <1>4, <3>1 DEF Stored
    <3>3. i = Len(segments)
      BY <1>3, <3>2
    <3> QED  BY <1>2, <1>4, <3>3 DEF Stored
  <2>2. nextSeq = f + segments[i].lines
    BY <1>2, <1>3, <2>1 DEF Joined, End
  <2>3. PICK b \in Nat : b = nextSeq - Len(buffer)
    BY <1>5, <1>6, <2>1, <2>2
  <2>4. n - b + 1 \in 1..Len(buffer) /\ b + (n - b + 1) - 1 = n
    <3>1. PICK d \in Nat : d = Len(disk[f])
      BY <1>5
    <3>2. PICK k \in Nat : k = Len(buffer)
      BY <1>5
    <3>3. b = f + d /\ n < f + (d + k) /\ ~(n < f + d)
      <4>1. segments[i].lines = d + k
        BY <2>1, <3>1, <3>2
      <4>2. b = (f + (d + k)) - k
        BY <2>2, <2>3, <3>2, <4>1
      <4>3. n < f + (d + k) /\ ~(n < f + d)
        BY <1>6, <1>8, <3>1, <4>1
      <4> QED  BY <1>6, <4>2, <4>3
    <3>4. n - b + 1 \in 1..k /\ b + (n - b + 1) - 1 = n
      BY <1>6, <3>3
    <3> QED  BY <3>2, <3>4
  <2>5. buffer[n - b + 1].id = n
    BY <1>5, <2>3, <2>4 DEF Numbered
  <2>6. buffer[n - b + 1] \in ToSet(buffer)
    BY <1>5, <2>4 DEF ToSet
  <2> QED  BY <2>5, <2>6 DEF Kept
<1> QED  BY <1>7, <1>8

\* What a step sends: nothing, or what was held, before a status or alone.
LEMMA Sends ==
    ASSUME TailInv, TailNext
    PROVE  /\ \A f \in Frames : pending # <<>> /\ f = Frame
           /\ \A i \in 1..Len(out') : out'[i].what = "status" =>
                 /\ lastSent' = lineSeq - 1
                 /\ pending # <<>> => \E j \in 1..(i - 1) : out'[j].what = "frame"
<1>1. /\ Taken \in Seq(Payload) /\ Len(Taken) \in Nat /\ DOMAIN Taken = 1..Len(Taken)
      /\ \A i \in 1..Len(Taken) :
            Taken[i].what # "status" /\ (Taken[i].what = "frame" => pending # <<>> /\ Taken[i] = Frame)
      /\ pending # <<>> => \E i \in 1..Len(Taken) : Taken[i].what = "frame"
  BY TakenIs, SeqIs DEF TailInv
<1>2. CASE out' = <<>>
  <2>1. Len(out') = 0 /\ ToSet(out') = {}
    BY <1>2 DEF ToSet
  <2> QED  BY <2>1 DEF Frames
<1>3. CASE out' = Taken
  BY <1>1, <1>3 DEF Frames, ToSet
<1>4. CASE out' = Append(Taken, [what |-> "status"]) /\ TakePending
  <2>1. [what |-> "status"] \in Payload
    BY DEF Payload
  <2>2. PICK told \in Payload : told = [what |-> "status"]
    BY <2>1
  <2>3. /\ out' \in Seq(Payload) /\ Len(out') = Len(Taken) + 1 /\ DOMAIN out' = 1..Len(out')
        /\ \A i \in 1..Len(Taken) : out'[i] = Taken[i]
        /\ out'[Len(Taken) + 1] = told
    BY <1>1, <1>4, <2>2, AppendIs, SeqIs
  <2>4. told.what = "status"
    BY <2>2
  <2>5. \A i \in 1..Len(out') : i \in 1..Len(Taken) \/ i = Len(Taken) + 1
    BY <1>1, <2>3
  <2>6. \A f \in Frames : pending # <<>> /\ f = Frame
    <3>1. ASSUME NEW f \in Frames PROVE pending # <<>> /\ f = Frame
      <4>1. PICK i \in 1..Len(out') : f = out'[i] /\ f.what = "frame"
        BY <2>3 DEF Frames, ToSet
      <4>2. i \in 1..Len(Taken)
        BY <2>3, <2>4, <2>5, <4>1
      <4> QED  BY <1>1, <2>3, <4>1, <4>2
    <3> QED  BY <3>1
  <2>7. lastSent' = lineSeq - 1
    <3>1. lastSent' = IF pending = <<>> THEN lastSent ELSE lineSeq - 1
      BY <1>4 DEF TakePending
    <3>2. CASE pending = <<>>
      <4>1. /\ Len(pending) = 0 /\ lastSent < lineSeq - Len(pending)
            /\ ~(lastSent + 1 < lineSeq - Len(pending))
        BY <3>2 DEF TailInv, WriterInv, FrameSeq
      <4>2. lastSent \in Nat /\ lineSeq \in Nat
        BY TailAssumption DEF TailInv, WriterInv
      <4>3. lastSent = lineSeq - 1
        BY <4>1, <4>2
      <4> QED  BY <3>1, <3>2, <4>3
    <3> QED  BY <3>1, <3>2
  <2>8. ASSUME NEW i \in 1..Len(out'), out'[i].what = "status", pending # <<>>
        PROVE  \E j \in 1..(i - 1) : out'[j].what = "frame"
    <3>1. i = Len(Taken) + 1
      BY <1>1, <2>3, <2>5, <2>8
    <3>2. PICK j \in 1..Len(Taken) : Taken[j].what = "frame"
      BY <1>1, <2>8
    <3>3. j \in 1..(i - 1)
      BY <1>1, <3>1
    <3> QED  BY <2>3, <3>2, <3>3
  <2> QED  BY <2>6, <2>7, <2>8
<1> QED  BY <1>2, <1>3, <1>4 DEF TailNext, Push, Status, Complete, Tick, FlushFirst

\* A frame that goes out is the one held back.
LEMMA FramesStep ==
    ASSUME TailInv, TailNext, NEW f \in Frames
    PROVE  /\ Numbered(f.lines, f.seq) /\ f.seq > lastSent
           /\ f.seq > lastSent + 1 =>
                 Len(f.lines) = FrameMaxLines \/ Weight(f.lines) + Max(Size) > FrameMaxBytes
           /\ f.first # NoFirst /\ ~failed /\ ~doomed => f.first..(lineSeq - 1) \subseteq Kept
<1>1. /\ pending # <<>> /\ f.seq = FrameSeq /\ f.lines = pending
      /\ f.first = IF spooling THEN Oldest ELSE NoFirst
  BY Sends DEF Frame
<1>2. /\ Numbered(pending, FrameSeq) /\ lastSent < FrameSeq /\ (lastSent + 1 < FrameSeq => FrameCut(pending))
      /\ lastSent \in Nat /\ lineSeq \in Nat /\ pending \in Seq(Line) /\ SpoolInv
      /\ spooling /\ ~failed => nextSeq = lineSeq
  BY TailAssumption DEF TailInv, WriterInv
<1>3. FrameSeq \in Int
  BY <1>2, SeqIs DEF FrameSeq
<1>4. ASSUME f.first # NoFirst, ~failed, ~doomed PROVE f.first..(lineSeq - 1) \subseteq Kept
  <2>1. spooling /\ f.first = Oldest /\ nextSeq = lineSeq /\ Oldest \in Nat
    BY <1>1, <1>2, <1>4, OldestIs
  <2>2. ASSUME NEW n \in Oldest..(lineSeq - 1) PROVE n \in Kept
    <3>1. n \in Nat /\ Oldest <= n /\ n < nextSeq
      BY <1>2, <2>1
    <3> QED  BY <1>2, <1>4, <3>1, HistoryKept
  <2> QED  BY <2>1, <2>2
<1>5. f.seq > lastSent /\ (f.seq > lastSent + 1 => lastSent + 1 < FrameSeq)
  BY <1>1, <1>2, <1>3
<1> QED  BY <1>1, <1>2, <1>4, <1>5 DEF FrameCut

\* For any targets, caps and sizes: frames keep the numbers of their lines, skip
\* those a cap cost only, which are still in the history, come before the
\* status that ends them, and leave nothing behind (logs.rs, LogWriter).
THEOREM SendsInOrder == TailSpec => SentInOrder
<1>1. TailInv /\ [TailNext]_tailVars =>
         [\A f \in Frames :
            /\ Numbered(f.lines, f.seq)
            /\ f.seq > lastSent
            /\ f.seq > lastSent + 1 =>
                  Len(f.lines) = FrameMaxLines \/ Weight(f.lines) + Max(Size) > FrameMaxBytes]_tailVars
  BY FramesStep
<1>2. TailInv /\ [TailNext]_tailVars =>
         [\A f \in Frames : f.first # NoFirst /\ ~failed /\ ~doomed =>
            f.first..(lineSeq - 1) \subseteq Kept]_tailVars
  BY FramesStep
<1>3. TailInv /\ [TailNext]_tailVars =>
         [\A i \in 1..Len(out') : out'[i].what = "status" =>
            /\ lastSent' = lineSeq - 1
            /\ pending # <<>> => \E j \in 1..(i - 1) : out'[j].what = "frame"]_tailVars
  BY Sends
<1>4. TailInv => NothingLeftBehind
  BY DEF TailInv, WriterInv, NothingLeftBehind
<1>5. TailSpec => FramesInOrder
  BY <1>1, TailInvHolds, PTL DEF TailSpec, FramesInOrder
<1>6. TailSpec => SkippedLinesWait
  BY <1>2, TailInvHolds, PTL DEF TailSpec, SkippedLinesWait
<1>7. TailSpec => StatusLast
  BY <1>3, TailInvHolds, PTL DEF TailSpec, StatusLast
<1>8. TailSpec => []NothingLeftBehind
  BY <1>4, TailInvHolds, PTL
<1> QED  BY <1>5, <1>6, <1>7, <1>8 DEF SentInOrder

===============================================================================
