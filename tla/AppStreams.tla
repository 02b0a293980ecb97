------------------------------ MODULE AppStreams ------------------------------
(***************************************************************************)
(* The streams of one installed app: opened by its views through windows,  *)
(* fed by sources, ended by a cancel, a window that goes, a change to the  *)
(* app, their own source or its rate (crates/streams/src/app.rs), and the  *)
(* opens and the inventory writes that meet in them                        *)
(* (crates/registry/src/extensions/streams.rs and streams/pods.rs).        *)
(*                                                                         *)
(* Apps share nothing but the windows, so one stands for all.  A step is   *)
(* what happens under one lock or between two awaits.                      *)
(***************************************************************************)
EXTENDS Naturals, Sequences, FiniteSets

CONSTANTS
    Stream,     \* the opens, each made once
    Poll,       \* those whose source asks again at every tick
    Window,     \* the windows of the host
    Through,    \* the window each is opened through, or NoWindow
    Limit,      \* max_open_per_app
    MaxData,    \* bound of the model: data frames of one stream
    MaxWrites,  \* bound of the model: inventory writes
    MaxEpoch    \* bound of the model: times a window goes

NoWindow == "none"   \* a stream the host names no window for

ASSUME StreamsAssumption ==
    /\ Poll \subseteq Stream
    /\ NoWindow \notin Window
    /\ Through \in [Stream -> Window \cup {NoWindow}]
    /\ Limit \in Nat \ {0}
    /\ MaxData \in Nat /\ MaxWrites \in Nat /\ MaxEpoch \in Nat

VARIABLES
    app,       \* the inventory's record of the app: on, or off or gone, and its revision
    written,   \* inventory writes so far
    heard,     \* the generation every announced write bumps
    announce,  \* how far the write's announcement is
    epoch,     \* State.windows
    at,        \* how far each open is
    held,      \* what an open, and then its source, holds: see Held
    listed,    \* State.streams
    handle,    \* whose Entry.handle is recorded
    due,       \* the endings that chose the stream and have not come to it
    finish,    \* how far Inner::finish is with it
    ended,     \* Shared.ended
    sent,      \* the frames its channel carried
    source,    \* its source's task and the task that supervises it
    aborted,   \* whose source's task was aborted
    alive      \* the manager has not been dropped

inventory == <<app, written, heard, announce>>
ending == <<listed, handle, finish, aborted>>
vars == <<inventory, epoch, at, held, ending, due, ended, sent, source, alive>>

\* StreamOwner's revision and window epoch; of a source that follows, the writes
\* behind the inventory it was last checked against and the generation it heard.
Held == [revision : Nat, epoch : Nat, checked : Nat, seen : Nat]
Nothing == [revision |-> 0, epoch |-> 0, checked |-> 0, seen |-> 0]

TypeOK ==
    /\ app \in [on : BOOLEAN, revision : Nat]
    /\ written \in 0..MaxWrites
    /\ heard \in 0..written
    /\ announce \in {"no", "choose", "end"}
    /\ epoch \in [Window -> Nat]
    /\ held \in [Stream -> Held]
    /\ at \in [Stream -> {"idle", "asked", "checked", "subscribed", "listed",
                          "spawned", "open", "refused"}]
    /\ listed \subseteq Stream
    /\ handle \subseteq Stream
    /\ due \in [Stream -> SUBSET {"app", "window"}]
    /\ finish \in [Stream -> {"no", "close", "error", "drop"}]
    /\ ended \in [Stream -> BOOLEAN]
    /\ sent \in [Stream -> Seq({"open", "data", "close", "error"})]
    /\ source \in [Stream -> {"none", "wait", "check", "read", "gone"}]
    /\ aborted \subseteq Stream
    /\ alive \in BOOLEAN

Init ==
    /\ app = [on |-> TRUE, revision |-> 0]
    /\ written = 0
    /\ heard = 0
    /\ announce = "no"
    /\ epoch = [w \in Window |-> 0]
    /\ held = [s \in Stream |-> Nothing]
    /\ at = [s \in Stream |-> "idle"]
    /\ listed = {}
    /\ handle = {}
    /\ due = [s \in Stream |-> {}]
    /\ finish = [s \in Stream |-> "no"]
    /\ ended = [s \in Stream |-> FALSE]
    /\ sent = [s \in Stream |-> <<>>]
    /\ source = [s \in Stream |-> "none"]
    /\ aborted = {}
    /\ alive = TRUE

-------------------------------------------------------------------------------
(* The inventory.  One lock is held from a write to the end of its         *)
(* announcement.                                                           *)

\* resolve_app: the app is installed, on, and at the stream's revision.
Permits(s) == app.on /\ app.revision = held[s].revision

\* A write that changes what the app may do, or changes something else.
Write ==
    /\ alive /\ announce = "no" /\ written < MaxWrites
    /\ app' \in {app, [app EXCEPT !.on = ~@], [app EXCEPT !.revision = @ + 1]}
    /\ written' = written + 1
    /\ announce' = "choose"
    /\ UNCHANGED <<heard, epoch, at, held, ending, due, ended, sent, source, alive>>

\* reconcile, end_where: the streams the write no longer permits.
Choose ==
    /\ announce = "choose"
    /\ due' = [s \in Stream |-> IF s \in listed /\ ~Permits(s)
                                THEN due[s] \cup {"app"} ELSE due[s]]
    /\ announce' = "end"
    /\ UNCHANGED <<app, written, heard, epoch, at, held, ending, ended, sent, source,
                   alive>>

\* After its endings, every source that follows the inventory hears of it.
Announced ==
    /\ announce = "end"
    /\ \A s \in Stream : "app" \notin due[s]
    /\ heard' = heard + 1
    /\ announce' = "no"
    /\ UNCHANGED <<app, written, epoch, at, held, ending, due, ended, sent, source,
                   alive>>

-------------------------------------------------------------------------------
(* An open.                                                                *)

Goes(s, from, to) == at[s] = from /\ at' = [at EXCEPT ![s] = to]

Epoch(s) == IF Through[s] \in Window THEN epoch[Through[s]] ELSE 0

\* open_in_window reads the window's epoch first.  The view was rendered from
\* the app's revision.
Ask(s) ==
    /\ alive /\ Goes(s, "idle", "asked")
    /\ held' = [held EXCEPT ![s].revision = app.revision, ![s].epoch = Epoch(s)]
    /\ UNCHANGED <<inventory, epoch, ending, due, ended, sent, source, alive>>

\* What is refused lets go of what it held.
Lose(s) == held' = [held EXCEPT ![s] = Nothing]

\* The app's authority, from one read of the inventory.  More of the cluster
\* is asked after it, or nothing.
Authorize(s) ==
    /\ \/ Permits(s) /\ Goes(s, "asked", "checked")
          /\ held' = IF s \in Poll THEN held ELSE [held EXCEPT ![s].checked = written]
       \/ Goes(s, "asked", "refused") /\ Lose(s)  \* or the cluster says no
    /\ UNCHANGED <<inventory, epoch, ending, due, ended, sent, source, alive>>

\* The source is built; one that follows the inventory subscribes to it.
Subscribe(s) ==
    /\ Goes(s, "checked", "subscribed")
    /\ held' = IF s \in Poll THEN held ELSE [held EXCEPT ![s].seen = heard]
    /\ UNCHANGED <<inventory, epoch, ending, due, ended, sent, source, alive>>

SameWindow(s) == held[s].epoch = Epoch(s)

\* A deviation takes an open whose window went meanwhile.
InsertAnyWindow(s) ==
    /\ Cardinality(listed) < Limit
    /\ Goes(s, "subscribed", "listed")
    /\ listed' = listed \cup {s}
    /\ UNCHANGED <<inventory, epoch, held, handle, finish, aborted, due, ended, sent,
                   source, alive>>

\* AppStreams::open, under the manager's lock: the window is the one that
\* asked, and the app has a slot.
Insert(s) ==
    /\ IF SameWindow(s) /\ Cardinality(listed) < Limit
       THEN /\ Goes(s, "subscribed", "listed")
            /\ listed' = listed \cup {s}
            /\ UNCHANGED held
       ELSE /\ Goes(s, "subscribed", "refused")
            /\ Lose(s)
            /\ UNCHANGED listed
    /\ UNCHANGED <<inventory, epoch, handle, finish, aborted, due, ended, sent,
                   source, alive>>

\* A deviation announces a stream that has ended.
EmitAlways(s, frame) == sent' = [sent EXCEPT ![s] = Append(@, frame)]

\* emit_unless_ended.
Emit(s, frame) == sent' = [sent EXCEPT ![s] = IF ended[s] THEN @ ELSE Append(@, frame)]

\* Then its task is spawned, with the one that supervises it.
Introduce(s) ==
    /\ Goes(s, "listed", "spawned")
    /\ Emit(s, "open")
    /\ source' = [source EXCEPT ![s] = "wait"]
    /\ UNCHANGED <<inventory, epoch, held, ending, due, ended, alive>>

\* Aborting a task that is over does nothing.
Abort(s, known) ==
    aborted' = aborted \cup {t \in {s} : known /\ source[t] \in {"wait", "check", "read"}}

\* A deviation only records the handle.
RecordOnly(s) ==
    /\ Goes(s, "spawned", "open")
    /\ handle' = handle \cup ({s} \cap listed)
    /\ UNCHANGED <<inventory, epoch, held, listed, finish, aborted, due, ended, sent,
                   source, alive>>

\* The handle is recorded, or the task aborted if the stream ended before it.
Record(s) ==
    /\ Goes(s, "spawned", "open")
    /\ IF s \in listed
       THEN handle' = handle \cup {s} /\ UNCHANGED aborted
       ELSE Abort(s, TRUE) /\ UNCHANGED handle
    /\ UNCHANGED <<inventory, epoch, held, listed, finish, due, ended, sent, source,
                   alive>>

-------------------------------------------------------------------------------
(* The endings.  The first to take a stream off the list sends its         *)
(* terminal frame, then aborts its task.                                   *)

Take(s, how) ==
    IF s \in listed
    THEN listed' = listed \ {s} /\ finish' = [finish EXCEPT ![s] = how]
    ELSE UNCHANGED <<listed, finish>>

\* A person cancels it, or its view closes: each stream of a view is ended
\* as if it were cancelled alone.
Cancel(s) ==
    /\ alive /\ s \in listed
    /\ Take(s, "close")
    /\ UNCHANGED <<inventory, epoch, at, held, handle, aborted, due, ended, sent,
                   source, alive>>

\* end_window: the epoch moves under the lock the streams are chosen under.
EndWindow(w) ==
    /\ alive /\ epoch[w] < MaxEpoch
    /\ epoch' = [epoch EXCEPT ![w] = @ + 1]
    /\ due' = [s \in Stream |-> IF s \in listed /\ Through[s] = w
                                THEN due[s] \cup {"window"} ELSE due[s]]
    /\ UNCHANGED <<inventory, at, held, ending, ended, sent, source, alive>>

\* An ending comes to a stream it chose.  (Here the next step of the ending
\* may overtake the frame and the abort of this one: nothing tells.)
EndChosen(s) ==
    /\ \E by \in due[s] : due' = [due EXCEPT ![s] = @ \ {by}]
    /\ Take(s, "close")
    /\ UNCHANGED <<inventory, epoch, at, held, handle, aborted, ended, sent, source,
                   alive>>

\* The manager is dropped, no call using it: each stream ends with no frame.
Drop ==
    /\ alive /\ announce = "no"
    /\ \A s \in Stream : at[s] \in {"idle", "open", "refused"} /\ due[s] = {}
    /\ alive' = FALSE
    /\ listed' = {}
    /\ finish' = [s \in Stream |-> IF s \in listed THEN "drop" ELSE finish[s]]
    /\ UNCHANGED <<inventory, epoch, at, held, handle, aborted, due, ended, sent,
                   source>>

\* Shared::end, under the lock every frame is sent under, and the abort of the
\* task, if its handle was recorded.
Finish(s) ==
    /\ finish[s] # "no"
    /\ sent' = [sent EXCEPT ![s] =
                    IF ended[s] \/ finish[s] = "drop" THEN @ ELSE Append(@, finish[s])]
    /\ ended' = [ended EXCEPT ![s] = TRUE]
    /\ Abort(s, s \in handle)
    /\ handle' = handle \ {s}
    /\ finish' = [finish EXCEPT ![s] = "no"]
    /\ UNCHANGED <<inventory, epoch, at, held, listed, due, source, alive>>

-------------------------------------------------------------------------------
(* A source and the task that supervises it.                               *)

Turns(s, from, to) == source[s] = from /\ source' = [source EXCEPT ![s] = to]

\* Its task is over, and lets go of what it held.
Over(s) ==
    /\ source' = [source EXCEPT ![s] = "gone"]
    /\ aborted' = aborted \ {s}
    /\ Lose(s)

\* A poll's tick, a source that hears that the inventory changed, or one that
\* reconnects: its authority is asked again.
AskAgain(s) ==
    /\ Turns(s, "wait", "check")
    /\ \/ UNCHANGED held
       \/ s \notin Poll /\ held[s].seen # heard /\ held' = [held EXCEPT ![s].seen = heard]
    /\ UNCHANGED <<inventory, epoch, at, ending, due, ended, sent, alive>>

\* A deviation reads the inventory and goes on whatever it says.
RecheckBlindly(s) ==
    /\ Turns(s, "check", IF s \in Poll THEN "read" ELSE "wait")
    /\ held' = IF s \in Poll THEN held ELSE [held EXCEPT ![s].checked = written]
    /\ UNCHANGED <<inventory, epoch, at, ending, due, ended, sent, alive>>

\* It is not permitted any more, or the answer is an error: it fails.
Recheck(s) ==
    /\ \/ /\ Permits(s)
          /\ Turns(s, "check", IF s \in Poll THEN "read" ELSE "wait")
          /\ held' = IF s \in Poll THEN held ELSE [held EXCEPT ![s].checked = written]
          /\ UNCHANGED <<listed, finish, aborted>>
       \/ source[s] = "check" /\ Over(s) /\ Take(s, "error")
    /\ UNCHANGED <<inventory, epoch, at, handle, due, ended, sent, alive>>

\* StreamEmitter::data, under the lock of Shared.ended: a poll's answer, or
\* what a source that follows has heard.  The frame past the app's rate ends
\* the stream once the lock is let go.
Data(s) ==
    /\ source[s] = IF s \in Poll THEN "read" ELSE "wait"
    /\ \/ ended[s] /\ Over(s) /\ UNCHANGED <<listed, finish, sent>>
       \/ /\ ~ended[s] /\ Len(sent[s]) <= MaxData
          /\ sent' = [sent EXCEPT ![s] = Append(@, "data")]
          /\ source' = [source EXCEPT ![s] = "wait"]
          /\ UNCHANGED <<listed, finish, aborted, held>>
       \/ /\ ~ended[s]   \* the app's bucket is empty
          /\ Over(s) /\ Take(s, "error")
          /\ UNCHANGED sent
    /\ UNCHANGED <<inventory, epoch, at, handle, due, ended, alive>>

\* It is over by itself, or fails or panics.  The task that supervises it ends
\* its stream; in between nothing is asked of either.
Return(s) ==
    /\ source[s] = "wait"
    /\ Over(s)
    /\ \E how \in IF s \in Poll THEN {"error"} ELSE {"close", "error"} : Take(s, how)
    /\ UNCHANGED <<inventory, epoch, at, handle, due, ended, sent, alive>>

\* An aborted task stops where it awaits; its supervisor sends nothing.
Stop(s) ==
    /\ s \in aborted
    /\ Over(s)
    /\ UNCHANGED <<inventory, epoch, at, listed, handle, finish, due, ended, sent,
                   alive>>

-------------------------------------------------------------------------------
\* What the host does for a stream by itself: each of these happens to a stream
\* a few times at most.
Moves(s) ==
    \/ Subscribe(s) \/ Insert(s) \/ Introduce(s) \/ Record(s)
    \/ EndChosen(s) \/ Finish(s) \/ Stop(s)

Next ==
    \/ Write \/ Choose \/ Announced \/ Drop
    \/ \E w \in Window : EndWindow(w)
    \/ \E s \in Stream :
         \/ Moves(s) \/ Ask(s) \/ Authorize(s) \/ Cancel(s)
         \/ AskAgain(s) \/ Recheck(s) \/ Data(s) \/ Return(s)

\* Every task the runtime may run is run.  Nothing makes a source send, a
\* cluster answer or a person act.
Fairness == \A s \in Stream : WF_vars(Moves(s))

Spec == Init /\ [][Next]_vars /\ Fairness

-------------------------------------------------------------------------------
\* "`open` once, before anything else" (app.rs:20), "always the first thing the
\* client sees" (:295-296): what the code says of the first frame.
OpenFirst == \A s \in Stream : sent[s] # <<>> => Head(sent[s]) = "open"

\* A stream that an ending took off the list before its open frame was sent:
\* its terminal frame is the only one.
EndedUnopened(s) ==
    /\ at[s] = "listed" /\ sent[s] = <<>>
    /\ ended'[s]
    /\ \E t \in {"close", "error"} : sent'[s] = <<t>>

\* But for that, the channel carries what the stream contract says: the open
\* frame, data, one terminal frame and nothing after it, whoever ends the
\* stream and whenever (app.rs:18-24).
Channel(s) == INSTANCE StreamFrames WITH frames <- sent[s], over <- ended[s]
FramesContract ==
    /\ \A s \in Stream : Channel(s)!Init
    /\ [][\A s \in Stream :
            [Channel(s)!Next \/ EndedUnopened(s)]_<<sent[s], ended[s]>>]_<<sent, ended>>

\* No stream outlives its window's page: one that is listed belongs to the
\* window's present epoch, or the ending that moved the epoch is coming to it
\* (app.rs:323-331, end_window).
WindowsOwnTheirStreams ==
    /\ TypeOK
    /\ \A s \in listed : SameWindow(s) \/ "window" \in due[s]

Following(s) == s \in listed \ Poll /\ source[s] = "wait"

\* The open asked for the app's authority before a write whose announcement
\* was over when its source subscribed, and its source has not asked since.
LateOpen(s) == held[s].checked < held[s].seen

\* "An app that is disabled, removed or updated ends every stream it opened"
\* (app.rs:9-10): a source that follows the inventory and is not permitted is
\* about to hear so, unless its open was late (streams.rs open_watch, pods.rs
\* open_exec), which the code has nothing against.
StaleOnlyByLateOpen ==
    \A s \in Stream : Following(s) /\ ~Permits(s) =>
        announce # "no" \/ held[s].seen # heard \/ LateOpen(s)

\* A stream an ending chose is ended and its task stops, even when it is ended
\* before the task is spawned or its handle recorded (app.rs:381-386).
EndsForGood ==
    \A s \in Stream :
        due[s] # {} \/ finish[s] # "no" ~> ended[s] /\ source[s] = "gone"
===============================================================================
