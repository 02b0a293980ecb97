------------------------------ MODULE ConsentGate ------------------------------
(***************************************************************************)
(* What a gated call is promised, whoever makes it: a person is asked, the *)
(* first word counts, only a yes lets it run, and what ran or was refused  *)
(* is in the audit log (broker.rs, mcp_confirm.rs, docs/MCP.md).           *)
(***************************************************************************)
EXTENDS Naturals

CONSTANTS
    Call,
    Loose   \* calls whose caller may take them down while they run

VARIABLES
    fate,   \* what has become of each call
    word,   \* the first answer to it
    records \* what the audit log has of it

vars == <<fate, word, records>>

TypeOK ==
    /\ fate \in [Call -> {"new", "asked", "allowed", "running", "over"}]
    /\ word \in [Call -> {"none", "yes", "no"}]
    /\ records \in [Call -> 0..1]

Init ==
    /\ fate = [c \in Call |-> "new"]
    /\ word = [c \in Call |-> "none"]
    /\ records = [c \in Call |-> 0]

Moves(c, from, to) == fate[c] \in from /\ fate' = [fate EXCEPT ![c] = to]
Recorded(c) == records[c] = 0 /\ records' = [records EXCEPT ![c] = 1]

Ask(c) == Moves(c, {"new"}, "asked") /\ UNCHANGED <<word, records>>

\* One call is answered, or several are refused at once.
Speak(calls, said) ==
    /\ \A c \in calls : fate[c] = "asked" /\ word[c] = "none"
    /\ word' = [c \in Call |-> IF c \in calls THEN said ELSE word[c]]
    /\ UNCHANGED <<fate, records>>

Allow(c) ==
    /\ word[c] = "yes"
    /\ Moves(c, {"asked"}, "allowed")
    /\ UNCHANGED <<word, records>>

\* A no, or no answer in time; or srelens refuses after all.
Refuse(c) ==
    /\ Moves(c, {"asked", "allowed"}, "over")
    /\ Recorded(c)
    /\ UNCHANGED word

\* The caller is gone before anything ran.
Withdraw(c) == Moves(c, {"asked", "allowed"}, "over") /\ UNCHANGED <<word, records>>

Run(c) == Moves(c, {"allowed"}, "running") /\ UNCHANGED <<word, records>>

Finish(c) ==
    /\ Moves(c, {"running"}, "over")
    /\ Recorded(c)
    /\ UNCHANGED word

Lose(c) ==
    /\ c \in Loose
    /\ Moves(c, {"running"}, "over")
    /\ UNCHANGED <<word, records>>

Settle(c) == Allow(c) \/ Refuse(c) \/ Withdraw(c) \/ Run(c) \/ Finish(c) \/ Lose(c)

Next ==
    \/ \E c \in Call : Ask(c) \/ Settle(c)
    \/ \E calls \in SUBSET Call, said \in {"yes", "no"} : Speak(calls, said)

\* A call that was asked about is settled, whoever answers.
Spec == Init /\ [][Next]_vars /\ \A c \in Call : WF_vars(Settle(c))
================================================================================
