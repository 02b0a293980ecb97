------------------------------ MODULE AgentConsent -----------------------------
(***************************************************************************)
(* The one surface that puts gated calls to a person                       *)
(* (ui-next/src/shell/AgentConsent.tsx), beside the calls (Confirmations): *)
(* it hears them as events, reads what was waiting before it listened, and *)
(* answers by commands of their own.                                       *)
(***************************************************************************)
EXTENDS Confirmations, SequencesExt

CONSTANT
    MaxUpsets \* bound of the model: reloads, covers and failed reads of the window,
              \* callers that go, refusals from outside

ASSUME UpsetAssumption == MaxUpsets \in Nat

VARIABLES
    hearing,  \* the listeners that have landed
    wire,     \* events on their way to them
    fetch,    \* how far the read of what was waiting is
    snapshot, \* what it found
    settled,  \* resolvedMeanwhile
    queue,    \* the requests to ask, the first on screen
    busy,     \* the answer on its way, and whether it has landed
    posts,    \* answers the host has not had yet
    covered,  \* the window is locked
    upsets

replay == <<hearing, fetch, snapshot, settled>>
voice == <<busy, posts>>
bounds == <<covered, upsets>>
vars == <<host, replay, wire, queue, voice, bounds>>

NoAnswer == <<>>

TypeOK ==
    /\ HostTypeOK
    /\ hearing \subseteq {"request", "resolved"}
    /\ wire \in Seq({"request", "resolved"} \X Call)
    /\ fetch \in {"no", "asked", "replied", "applied", "failed"}
    /\ snapshot \subseteq Call /\ settled \subseteq Call
    /\ queue \in Seq(Call)
    /\ busy \in {NoAnswer} \cup (Call \X Word \X {"sent", "landed", "failed"})
    /\ posts \subseteq Call \X Word
    /\ covered \in BOOLEAN
    /\ upsets \in 0..MaxUpsets

\* One thing more goes wrong.
Upset == upsets < MaxUpsets /\ upsets' = upsets + 1

Init ==
    /\ HostInit
    /\ hearing = {} /\ fetch = "no" /\ snapshot = {} /\ settled = {}
    /\ wire = <<>> /\ queue = <<>>
    /\ busy = NoAnswer /\ posts = {}
    /\ covered = FALSE /\ upsets = 0

-------------------------------------------------------------------------------
(* The calls.                                                              *)

\* An event goes to a listener that has landed, and to nobody else.
Emit(what, c) ==
    wire' = IF what \in hearing THEN Append(wire, <<what, c>>) ELSE wire

Caller(c) ==
    /\ \/ Show(c) /\ Emit("request", c)
       \/ Announce(c) /\ Emit("resolved", c)
       \/ /\ Ask(c) \/ (hearing = {} /\ Unshown(c)) \/ Receive(c) \/ Elapse(c) \/ TimeOut(c)
             \/ Run(c) \/ Refuse(c) \/ Finish(c)
          /\ UNCHANGED wire
    /\ UNCHANGED <<replay, queue, voice, bounds>>

Outside(c) ==
    /\ Upset
    /\ Abandon(c) \/ DenyChat(c) \/ DenyAll
    /\ UNCHANGED <<replay, wire, queue, voice, covered>>

-------------------------------------------------------------------------------
(* The window's effect.                                                    *)

HearResolutions ==
    /\ hearing = {}
    /\ hearing' = {"resolved"}
    /\ UNCHANGED <<host, fetch, snapshot, settled, wire, queue, voice, bounds>>

\* A deviation asks for what is waiting before the second listener has landed.
HearRequestsLate ==
    /\ hearing = {"resolved"}
    /\ IF fetch = "no" THEN fetch' = "asked" /\ UNCHANGED hearing
       ELSE hearing' = hearing \cup {"request"} /\ UNCHANGED fetch
    /\ UNCHANGED <<host, snapshot, settled, wire, queue, voice, bounds>>

\* What is waiting is asked for once both have.
HearRequests ==
    /\ hearing = {"resolved"}
    /\ hearing' = hearing \cup {"request"}
    /\ fetch' = "asked"
    /\ UNCHANGED <<host, snapshot, settled, wire, queue, voice, bounds>>

\* mcp_confirm_pending.
Snapshot ==
    /\ fetch = "asked"
    /\ \/ fetch' = "replied" /\ snapshot' = pending
          /\ UNCHANGED upsets
       \/ fetch' = "failed" /\ Upset /\ UNCHANGED snapshot
    /\ UNCHANGED <<host, hearing, settled, wire, queue, voice, covered>>

\* Merged by id, in no particular order, without those heard to be over.
Replay ==
    /\ fetch = "replied"
    /\ fetch' = "applied"
    /\ \E fresh \in SetToSeqs(snapshot \ (settled \cup ToSet(queue))) : queue' = queue \o fresh
    /\ snapshot' = {} /\ settled' = {}
    /\ UNCHANGED <<host, hearing, wire, voice, bounds>>

\* The requests of q but c's, in their order.
Without(q, c) ==
    LET kept[n \in 0..Len(q)] ==
            IF n = 0 THEN <<>>
            ELSE IF q[n] = c THEN kept[n - 1] ELSE Append(kept[n - 1], q[n])
    IN kept[Len(q)]

Hear ==
    /\ wire # <<>>
    /\ wire' = Tail(wire)
    /\ LET c == Head(wire)[2]
       IN IF Head(wire)[1] = "request" THEN queue' = Append(queue, c) /\ UNCHANGED settled
          ELSE /\ queue' = Without(queue, c)
               /\ settled' = IF fetch = "applied" THEN settled ELSE settled \cup {c}
    /\ UNCHANGED <<host, hearing, fetch, snapshot, voice, bounds>>

-------------------------------------------------------------------------------
(* The person, and the answers.                                            *)

Press(said) ==
    /\ ~covered /\ queue # <<>> /\ busy = NoAnswer
    /\ busy' = <<Head(queue), said, "sent">>
    /\ posts' = posts \cup {<<Head(queue), said>>}
    /\ UNCHANGED <<host, replay, wire, queue, bounds>>

\* A deviation answers that it took what it did not find.
RespondBlindly(c, said) ==
    /\ <<c, said>> \in posts
    /\ posts' = posts \ {<<c, said>>}
    /\ Take({c}, said)
    /\ busy' = IF busy = <<c, said, "sent">> THEN <<c, said, "landed">> ELSE busy
    /\ UNCHANGED <<replay, wire, queue, bounds>>

\* mcp_confirm_respond.
Respond(c, said) ==
    /\ <<c, said>> \in posts
    /\ posts' = posts \ {<<c, said>>}
    /\ Take({c}, said)
    /\ busy' = IF busy # <<c, said, "sent">> THEN busy
               ELSE <<c, said, IF c \in pending /\ Listening(c) THEN "landed" ELSE "failed">>
    /\ UNCHANGED <<replay, wire, queue, bounds>>

\* Only an answer that landed takes the question away.
Answered ==
    /\ busy # NoAnswer /\ busy[3] # "sent"
    /\ busy' = NoAnswer
    /\ IF busy[3] = "landed"
       THEN queue' = Without(queue, busy[1])
       ELSE UNCHANGED queue
    /\ UNCHANGED <<host, replay, wire, posts, bounds>>

\* The vault is sealed over it, and opened.
Cover ==
    /\ covered' = ~covered
    /\ IF covered THEN UNCHANGED upsets ELSE Upset
    /\ UNCHANGED <<host, replay, wire, queue, voice>>

\* Nothing is asked over a covered window: all is refused.
RefuseAll ==
    /\ covered /\ queue # <<>>
    /\ queue' = <<>>
    /\ posts' = posts \cup {<<c, "no">> : c \in ToSet(queue)}
    /\ UNCHANGED <<host, replay, wire, busy, bounds>>

\* Everything the window knew is gone; what it had posted is not.
Reload ==
    /\ Upset
    /\ hearing' = {} /\ fetch' = "no" /\ snapshot' = {} /\ settled' = {}
    /\ wire' = <<>> /\ queue' = <<>> /\ busy' = NoAnswer
    /\ UNCHANGED <<host, posts, covered>>

-------------------------------------------------------------------------------
Next ==
    \/ \E c \in Call : Caller(c) \/ Outside(c)
    \/ \E c \in Call, said \in Word : Respond(c, said)
    \/ HearResolutions \/ HearRequests \/ Snapshot \/ Replay \/ Hear
    \/ \E said \in Word : Press(said)
    \/ Answered \/ Cover \/ RefuseAll \/ Reload

\* The runtime polls a request's task, its minute passes, and what was allowed
\* to run returns.  Nothing is assumed of the window or of the person.
Fairness == \A c \in Call : WF_vars(at[c] # "idle" /\ Caller(c))

Spec == Init /\ [][Next]_vars /\ Fairness

-------------------------------------------------------------------------------
\* A request "is seen in the snapshot, or as an event, or as both, whatever the
\* interleaving" (AgentConsent.tsx:149-153): one that waits and may still be
\* answered is on the screen's queue, on its way to it, or being answered, but
\* for a read that failed, which is said on screen.
AskedIsSeen ==
    /\ TypeOK
    /\ \A c \in Call : at[c] = "waiting" /\ answer[c] = "none" =>
        \/ c \in ToSet(queue) \/ <<"request", c>> \in ToSet(wire)
        \/ fetch \in {"no", "asked", "failed"}
        \/ fetch = "replied" /\ c \in snapshot \ settled
        \/ \E said \in Word : <<c, said>> \in posts

Over(c) == at[c] \in {"allowed", "running", "over"}

\* A prompt does not outlive its request: while one is on the queue, or in what
\* will be put there, the event that takes it down is still to come
\* (mcp_confirm.rs:332-337, AgentConsent.tsx:164-171 and 185-188).
NoDeadPrompt ==
    \A c \in Call : Over(c) =>
        /\ c \in ToSet(queue) \/ <<"request", c>> \in ToSet(wire) =>
               <<"resolved", c>> \in ToSet(wire)
        /\ fetch = "replied" /\ c \in snapshot \ settled => <<"resolved", c>> \in ToSet(wire)

\* Prompts match requests: nobody is left waiting unseen, and
\* nobody is asked what is settled.
PromptsMatch == AskedIsSeen /\ NoDeadPrompt

\* An answer the person was told has landed is what became of the call, unless
\* its caller went away, or its minute ended in the instant the answer came
\* (AgentConsent.tsx:488-492, mcp_confirm.rs resolve).
AnswerStands ==
    \A c \in Call :
        /\ \A said \in Word : busy = <<c, said, "landed">> => answer[c] = said
        /\ answer[c] = "yes" => verdict[c] # "denied"
        /\ at[c] \in {"allowed", "running"} \/ verdict[c] = "approved" => answer[c] = "yes"

Fate(c) ==
    IF at[c] = "idle" THEN "new"
    ELSE IF Over(c) THEN at[c]
    ELSE IF verdict[c] = "approved" THEN "allowed" ELSE "asked"

\* What ConsentGate promises of a call; a chat's is one its caller may take down
\* while it runs.
Gate == INSTANCE ConsentGate WITH
    Loose <- Chat, word <- answer, fate <- [c \in Call |-> Fate(c)]
ImplementsGate == Gate!Spec
================================================================================
