--------------------------------- MODULE LogTail ---------------------------------
(***************************************************************************)
(* A live log stream: follows of its targets number their lines, spool     *)
(* them and hold them for the next frame, beside the task that sends the   *)
(* frames (crates/streams/src/logs.rs, LogWriter and                       *)
(* LogStreamManager::start).                                               *)
(*                                                                         *)
(* Everything here happens under the writer's lock, and the spool's inside *)
(* it, so each action is one step.                                         *)
(***************************************************************************)
EXTENDS LogSpool

CONSTANTS
    Target,         \* the pods and containers followed
    FrameMaxLines,  \* FRAME_MAX_LINES
    FrameMaxBytes,  \* FRAME_MAX_BYTES
    Size,           \* the sizes of lines
    MaxLines        \* bound of the model: lines that come

ASSUME TailAssumption ==
    /\ {FrameMaxLines, FrameMaxBytes, MaxLines} \subseteq Nat \ {0}
    /\ Size \subseteq Nat \ {0} /\ IsFiniteSet(Size)

VARIABLES
    lineSeq,    \* LogWriter.next_seq
    pending,    \* LogWriter.pending
    spooling,   \* LogWriter.spool is there
    notice,     \* LogWriter.notice is due
    following,  \* targets still followed: LogWriter.running counts them
    frames,     \* send_frames goes on
    out,        \* what the last step sent, in order
    lastSent    \* the last line sent

writerVars == <<lineSeq, pending, spooling, notice, following, frames, out, lastSent>>
tailVars == <<spoolVars, writerVars>>

Line == [id : 1..MaxLines, size : Size]
Payload ==
    [what : {"notice", "status"}]
        \cup [what : {"frame"}, seq : 1..MaxLines, lines : Seq(Line), first : 0..(MaxLines + 1)]

\* A frame without `first`.
NoFirst == 0

TailTypeOK ==
    /\ \A s \in ToSet(segments) :
          s \in [first : 1..MaxLines, size : Nat, lines : 1..MaxLines]
    /\ nextSeq \in 1..(MaxLines + 1) /\ lineSeq \in 1..(MaxLines + 1)
    /\ {failed, doomed, spooling, notice, frames} \subseteq BOOLEAN
    /\ \A f \in DOMAIN disk : disk[f] \in Seq(Line)
    /\ buffer \in Seq(Line) /\ pending \in Seq(Line)
    /\ \A r \in Reader : reader[r].at \in {"idle", "reading", "done", "error"}
    /\ following \subseteq Target
    /\ out \in Seq(Payload)
    /\ lastSent \in 0..MaxLines

\* A spool that could not be made costs the history and leaves a notice.
TailInit ==
    /\ SpoolInit
    /\ spooling \in BOOLEAN
    /\ notice \in {FALSE, ~spooling}
    /\ lineSeq = 1
    /\ pending = <<>>
    /\ following = Target
    /\ frames = TRUE
    /\ out = <<>>
    /\ lastSent = 0

-------------------------------------------------------------------------------
\* LogWriter::push's spool: one that fails is failed and dropped, with a
\* notice.
Spool(line) ==
    \/ AppendLine(line) /\ UNCHANGED <<spooling, notice>>
    \/ AppendFails /\ spooling' = FALSE /\ notice' = TRUE

\* What is held when line is too: past a cap the oldest go.
HeldBack(line) ==
    LET all == Append(pending, line)
    IN Newest(SubSeq(all, Max({1, Len(all) - FrameMaxLines + 1}), Len(all)), FrameMaxBytes)

Push(t, size) ==
    /\ t \in following
    /\ lineSeq <= MaxLines
    /\ LET line == [id |-> lineSeq, size |-> size]
       IN /\ IF spooling THEN Spool(line) ELSE UNCHANGED <<spoolVars, spooling, notice>>
          /\ pending' = HeldBack(line)
    /\ lineSeq' = lineSeq + 1
    /\ out' = <<>>
    /\ UNCHANGED <<following, frames, lastSent>>

\* A frame is numbered back from the next line.
FrameSeq == lineSeq - Len(pending)

\* LogWriter::take: the notice, if one is due, then the frame.
Taken ==
    (IF notice THEN <<[what |-> "notice"]>> ELSE <<>>) \o
    (IF pending = <<>> THEN <<>>
     ELSE <<[what |-> "frame", seq |-> FrameSeq, lines |-> pending,
             first |-> IF spooling THEN Oldest ELSE NoFirst]>>)

TakePending ==
    /\ pending' = <<>>
    /\ notice' = FALSE
    /\ lastSent' = IF pending = <<>> THEN lastSent ELSE lineSeq - 1

\* A status goes out after the lines sent before it; a deviation sends it at once.
FlushNothing == <<>>
FlushFirst == Taken

Status(t) ==
    /\ t \in following
    /\ out' = Append(FlushFirst, [what |-> "status"])
    /\ TakePending
    /\ UNCHANGED <<spoolVars, lineSeq, spooling, following, frames>>

\* A follow that has completed; its last status is behind it.
Complete(t) ==
    /\ t \in following
    /\ following' = following \ {t}
    /\ out' = <<>>
    /\ UNCHANGED <<spoolVars, lineSeq, pending, spooling, notice, frames, lastSent>>

\* send_frames ends once no target is left to follow.
AllDone == following = {}

Tick ==
    /\ frames
    /\ out' = Taken
    /\ TakePending
    /\ frames' = ~AllDone
    /\ UNCHANGED <<spoolVars, lineSeq, spooling, following>>

-------------------------------------------------------------------------------
TailNext ==
    \/ \E t \in Target : (\E size \in Size : Push(t, size)) \/ Status(t) \/ Complete(t)
    \/ Tick
    \/ SpoolStep /\ UNCHANGED <<lineSeq, pending, spooling, notice, following, frames, lastSent>>
                 /\ out' = <<>>

TailSpec == TailInit /\ [][TailNext]_tailVars

-------------------------------------------------------------------------------
(* The history.                                                            *)

\* Segments follow one another up to the next line, whole lines in each, and
\* the open one's last are in its buffer: no line is lost or kept twice.
SegmentsJoin ==
    /\ TailTypeOK
    /\ \A i \in 1..Len(segments) :
          End(segments[i]) = IF i = Len(segments) THEN nextSeq ELSE segments[i + 1].first
    /\ ~failed /\ ~doomed =>
          /\ DOMAIN disk = {s.first : s \in ToSet(segments)}
          /\ \A s \in ToSet(segments) :
                LET there == IF s = Last(segments) THEN Flushed[s.first] ELSE disk[s.first]
                IN [i \in 1..Len(there) |-> there[i].id] = [i \in 1..s.lines |-> s.first + i - 1]

Numbered(lines, seq) == \A i \in 1..Len(lines) : lines[i].id = seq + i - 1
Done(r, what) == reader[r].at = "done" /\ reader[r].what = what

\* What a page may be short for: its cap, or lines that are gone.
ShortForCause(x) ==
    LET lost == x.before - Len(x.got) - 1   \* the line before the page
    IN x.start <= lost =>
          \/ Weight(x.got) + Max(Size) > MaxReadBytes
          \/ doomed
          \/ lost < Oldest

\* A page "ends at the `before` it was asked for", has no hole and is cut short
\* for no other cause, and never fails once it has its snapshot, whatever was
\* appended, rotated out or removed while it was read.
PageWhole ==
    \A r \in Reader :
        /\ Done(r, "page") =>
              /\ Numbered(reader[r].got, reader[r].before - Len(reader[r].got))
              /\ ShortForCause(reader[r])
        /\ reader[r].at = "error" => reader[r].what = "export"

\* "... after one, the history would have a hole, so it fails": what an export
\* wrote has none and ends where the stream was, unless it is empty.
ExportJoins ==
    \A r \in Reader : Done(r, "export") =>
        Numbered(reader[r].got, reader[r].before - Len(reader[r].got))

\* What is read of the history beside its writer is whole.
ReadsWhole == PageWhole /\ ExportJoins

-------------------------------------------------------------------------------
(* The tail.                                                               *)

Frames == {p \in ToSet(out') : p.what = "frame"}

\* A frame's lines have the numbers it says, none goes out twice or late, and
\* those between two frames are ones a cap cost.
FramesInOrder ==
    [][\A f \in Frames :
          /\ Numbered(f.lines, f.seq)
          /\ f.seq > lastSent
          /\ f.seq > lastSent + 1 =>
                Len(f.lines) = FrameMaxLines \/ Weight(f.lines) + Max(Size) > FrameMaxBytes]_tailVars

\* "Past it, the oldest wait on disk": the spool a frame speaks of has every
\* line from the first it names, the ones the frames skipped among them.
Kept == {l.id : l \in ToSet(buffer) \cup UNION {ToSet(disk[f]) : f \in DOMAIN disk}}
SkippedLinesWait ==
    [][\A f \in Frames : f.first # NoFirst /\ ~failed /\ ~doomed =>
          f.first..(lineSeq - 1) \subseteq Kept]_tailVars

\* "The lines sent before the status go out first, or a `reconnecting` would
\* read as coming before its error."
StatusLast ==
    [][\A i \in 1..Len(out') : out'[i].what = "status" =>
          /\ lastSent' = lineSeq - 1
          /\ pending # <<>> => \E j \in 1..(i - 1) : out'[j].what = "frame"]_tailVars

\* Every target has completed and the last of their lines, and of the spool's
\* failure, is out.
NothingLeftBehind == ~frames => pending = <<>> /\ ~notice

\* What goes to the client is in order, and nothing is kept from it.
SentInOrder == FramesInOrder /\ SkippedLinesWait /\ StatusLast /\ []NothingLeftBehind
================================================================================
