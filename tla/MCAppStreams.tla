----------------------------- MODULE MCAppStreams -----------------------------
(* Two opens of one app: one follows and is opened through a window, the   *)
(* other polls and names none.                                             *)
EXTENDS AppStreams

CONSTANTS s1, s2, main

Streams == {s1, s2}
Polling == {s2}
Windows == {main}
OpenedThrough == [s \in Stream |-> IF s = s1 THEN main ELSE NoWindow]
===============================================================================
