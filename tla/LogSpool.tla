-------------------------------- MODULE LogSpool --------------------------------
(***************************************************************************)
(* One log stream's history on disk: segment files appended to under a     *)
(* lock, the oldest deleted past a cap, and read back from a snapshot by   *)
(* readers that hold no lock (crates/streams/src/log_spool.rs).            *)
(*                                                                         *)
(* A line is its number as it came and a size, which stands for its        *)
(* record's bytes and its text's.  A segment's index of byte offsets is    *)
(* left out, a line of it is found by its number; so is an export's cut by *)
(* time stamp.                                                             *)
(***************************************************************************)
EXTENDS Naturals, FiniteSetsExt, SequencesExt

CONSTANTS
    Reader,        \* reads and exports
    MaxBytes,      \* LogSpool.max_bytes
    SegmentBytes,  \* LogSpool.segment_bytes
    MaxReadLines,  \* MAX_READ_LINES
    MaxReadBytes,  \* MAX_READ_BYTES
    ReadLimit      \* the limits reads ask for

ASSUME SpoolAssumption ==
    /\ {MaxBytes, SegmentBytes, MaxReadLines, MaxReadBytes} \subseteq Nat \ {0}
    /\ ReadLimit \subseteq Nat

VARIABLES
    segments,  \* LogSpool.segments
    nextSeq,   \* LogSpool.next_seq
    failed,    \* LogSpool.failed is set
    buffer,    \* lines in the open segment's BufWriter
    disk,      \* the lines in each segment file that is on disk
    doomed,    \* the directory above the spool's is being removed
    reader     \* what each reader is at

spoolVars == <<segments, nextSeq, failed, buffer, disk, doomed, reader>>

SpoolInit ==
    /\ segments = <<>>
    /\ nextSeq = 1
    /\ failed = FALSE
    /\ buffer = <<>>
    /\ disk = <<>>
    /\ doomed = FALSE
    /\ reader = [r \in Reader |-> [at |-> "idle"]]

Weight(s) ==
    LET upto[n \in 0..Len(s)] == IF n = 0 THEN 0 ELSE upto[n - 1] + s[n].size
    IN upto[Len(s)]

\* What a loop that drops the oldest while s is over the cap leaves: one at
\* least.
Newest(s, cap) ==
    IF s = <<>> THEN s
    ELSE LET keeps == {i \in 1..Len(s) : i = Len(s) \/ Weight(SubSeq(s, i, Len(s))) <= cap}
         IN SubSeq(s, Min(keeps), Len(s))

Oldest == IF segments = <<>> THEN nextSeq ELSE segments[1].first

-------------------------------------------------------------------------------
(* Appending.                                                              *)

\* The files once the open segment's buffer is written out; a deviation leaves
\* it.
FlushedNothing == disk
Flushed ==
    IF segments = <<>> THEN disk
    ELSE LET open == Last(segments).first
         IN [f \in DOMAIN disk |-> IF f = open THEN disk[f] \o buffer ELSE disk[f]]

OpensSegment == segments = <<>> \/ Last(segments).size >= SegmentBytes

Grown(s, line) == [s EXCEPT !.size = @ + line.size, !.lines = @ + 1]

\* rotate.
Rotated(s) == Newest(s, MaxBytes)

AppendLine(line) ==
    /\ ~failed
    /\ LET fresh == [first |-> nextSeq, size |-> 0, lines |-> 0]
           all == IF OpensSegment THEN Append(segments, Grown(fresh, line))
                  ELSE Append(Front(segments), Grown(Last(segments), line))
           files == IF ~OpensSegment THEN disk
                    ELSE [f \in DOMAIN disk \cup {nextSeq} |->
                             IF f = nextSeq THEN <<>> ELSE Flushed[f]]
           rotatedOut == {s.first : s \in ToSet(all)} \ {s.first : s \in ToSet(Rotated(all))}
       IN /\ segments' = Rotated(all)
          /\ disk' = Restrict(files, DOMAIN files \ rotatedOut)
          /\ buffer' = IF OpensSegment THEN <<line>> ELSE Append(buffer, line)
    /\ nextSeq' = nextSeq + 1
    /\ UNCHANGED <<failed, doomed, reader>>

\* An append that fails, then `fail`: the open segment is closed for good.
AppendFails ==
    /\ failed' = TRUE
    /\ buffer' = <<>>
    /\ UNCHANGED <<segments, nextSeq, disk, doomed, reader>>

-------------------------------------------------------------------------------
(* Reading.                                                                *)

\* A reader that has nothing left to read is done.
Settled(x) ==
    IF x.at = "reading" /\ (x.left = <<>> \/ (x.what = "page" /\ x.seq >= x.before))
    THEN [x EXCEPT !.at = "done", !.left = <<>>] ELSE x

Snapshot(r, what, start, end) ==
    /\ reader[r].at # "reading"
    /\ ~failed
    /\ disk' = Flushed
    /\ buffer' = <<>>
    /\ reader' = [reader EXCEPT ![r] =
          Settled([at |-> "reading", what |-> what, left |-> segments, before |-> end,
                   start |-> start, seq |-> start, got |-> <<>>, started |-> FALSE])]
    /\ UNCHANGED <<segments, nextSeq, failed, doomed>>

\* `read`: the page of `limit` lines that ends at `before`.
ReadPage(r, before, limit) ==
    LET end == Min({before, nextSeq})
        start == Max({end - Min({limit, MaxReadLines, end}), Oldest})
    IN Snapshot(r, "page", start, end)

\* `export`: the whole history.
Export(r) == Snapshot(r, "export", Oldest, nextSeq)

End(s) == s.first + s.lines

\* A segment's lines from..to-1.
LinesOf(s, from, to) == SubSeq(disk[s.first], from - s.first + 1, to - s.first)

Missing(s) == s.first \notin DOMAIN disk

\* The last line read from a segment, and whether its file is that long.
Upto(x, s) == Min({x.before, End(s)})
CutShort(x, s) == Len(disk[s.first]) < Upto(x, s) - s.first

\* A page that has lost a segment starts after it; a deviation keeps what came
\* before.
AfterGapKept(x, s) == [x EXCEPT !.seq = End(s)]
AfterGap(x, s) == [x EXCEPT !.got = <<>>, !.seq = End(s)]

\* read's loop; reader x is where it will be.
ReadOn(x, s) ==
    IF End(s) <= x.seq THEN x
    ELSE IF Missing(s) THEN AfterGap(x, s)
    ELSE IF CutShort(x, s) THEN [x EXCEPT !.at = "error"]
    ELSE [x EXCEPT !.got = Newest(@ \o LinesOf(s, x.seq, Upto(x, s)), MaxReadBytes),
                   !.seq = Upto(x, s)]

\* export skips a segment that is gone only before the first it reads.
Skips(x, s) == Missing(s) /\ ~x.started
ExportOn(x, s) ==
    IF Skips(x, s) THEN x
    ELSE IF Missing(s) \/ CutShort(x, s) THEN [x EXCEPT !.at = "error"]
    ELSE [x EXCEPT !.got = @ \o LinesOf(s, s.first, End(s)), !.started = TRUE]

ReadSegment(r) ==
    /\ reader[r].at = "reading"
    /\ LET s == Head(reader[r].left)
           x == [reader[r] EXCEPT !.left = Tail(@)]
       IN reader' = [reader EXCEPT ![r] =
             Settled(IF x.what = "page" THEN ReadOn(x, s) ELSE ExportOn(x, s))]
    /\ UNCHANGED <<segments, nextSeq, failed, buffer, disk, doomed>>

-------------------------------------------------------------------------------
(* The end of the user's environment, or of the app.                       *)

\* shutdown_all fails the spool first; UserEnvs::invalidate does not.
Doom ==
    /\ ~doomed
    /\ doomed' = TRUE
    /\ \E f \in {failed, TRUE} :
          /\ failed' = f
          /\ buffer' = IF f THEN <<>> ELSE buffer
    /\ UNCHANGED <<segments, nextSeq, disk, reader>>

\* remove_dir_all, a file at a time, in any order.
Unlink(f) ==
    /\ doomed
    /\ f \in DOMAIN disk
    /\ disk' = Restrict(disk, DOMAIN disk \ {f})
    /\ UNCHANGED <<segments, nextSeq, failed, buffer, doomed, reader>>

ReaderStep(r) ==
    \/ \E before \in 1..(nextSeq + 1), limit \in ReadLimit : ReadPage(r, before, limit)
    \/ Export(r)
    \/ ReadSegment(r)

SpoolStep ==
    \/ \E r \in Reader : ReaderStep(r)
    \/ Doom
    \/ \E f \in DOMAIN disk : Unlink(f)
================================================================================
