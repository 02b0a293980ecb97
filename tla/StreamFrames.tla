----------------------------- MODULE StreamFrames -----------------------------
(***************************************************************************)
(* What the page at the end of a stream's channel is told to rely on: the  *)
(* frames of one stream, in the order the channel carries them (the module *)
(* comment of crates/streams/src/app.rs).                                  *)
(***************************************************************************)
EXTENDS Sequences

VARIABLES
    frames,  \* what the channel carried
    over     \* nothing will follow

Terminal == {"close", "error"}

Init == frames = <<>> /\ ~over

Open ==
    /\ ~over /\ frames = <<>>
    /\ frames' = <<"open">>
    /\ UNCHANGED over

Data ==
    /\ ~over /\ frames # <<>>
    /\ frames' = Append(frames, "data")
    /\ UNCHANGED over

\* The one terminal frame.
Terminate ==
    /\ ~over /\ frames # <<>>
    /\ \E t \in Terminal : frames' = Append(frames, t)
    /\ over' = TRUE

\* The host went away: no frame says so.
Abandon == ~over /\ over' = TRUE /\ UNCHANGED frames

Next == Open \/ Data \/ Terminate \/ Abandon

Spec == Init /\ [][Next]_<<frames, over>>
===============================================================================
