--------------------------- MODULE McpSubscriptions ---------------------------
(***************************************************************************)
(* Resource subscriptions of one MCP session: the requests that start and  *)
(* stop watches (crates/mcp/src/stdio.rs, handle_subscription), the        *)
(* registry they share with the watches' own threads (subscriptions.rs),   *)
(* and the stream that notifies the client, stdio's loop or the SSE stream *)
(* of an HTTP session (http.rs).                                           *)
(*                                                                         *)
(* A request runs alone: the loop is one task, and HTTP holds the sessions *)
(* lock from the lookup of the stream to the answer.  The watches run on   *)
(* other threads, and a step is what happens under one lock.               *)
(***************************************************************************)
EXTENDS Naturals, FiniteSets

CONSTANTS
    Uri,               \* what may be subscribed to, in canonical form
    MAX_SUBSCRIPTIONS,
    MaxWatches,        \* bound of the model: watches started
    MaxStreams         \* bound of the model: SSE streams of the session

ASSUME SubscriptionsAssumption ==
    /\ Uri # {}
    /\ MAX_SUBSCRIPTIONS \in Nat \ {0}
    /\ MaxWatches \in Nat
    /\ MaxStreams \in Nat \ {0}

Watch == 1..MaxWatches
NoStream == 0

VARIABLES
    transport, \* stdio, whose one stream is the session, or http
    stream,    \* the stream that serves the session, or NoStream
    opened,    \* streams so far
    request,   \* how far the present subscribe request is
    asked,     \* watches so far: the last is the present request's
    on, of,    \* the URI and the stream each watch was started for
    task,      \* how far its task is; its callbacks are several steps
    aborted,   \* those whose task was aborted
    dead,      \* those with a reason in their `dead` slot
    known,     \* those whose own generation is filled in
    live,      \* the registries' entries; a generation is its watch
    dirty, wake, \* what the stream shares with its watches
    taking,    \* it is about to take the dirty set
    out,       \* notifications it took and has not written
    told,      \* URIs the client was told it is subscribed to
    unread     \* URIs a watch saw change with no notification since

watches == <<on, of, task, aborted, dead, known>>
client == <<told, unread>>
sending == <<dirty, wake, taking, out>>
session == <<transport, stream, opened>>
vars == <<session, request, asked, watches, live, sending, client>>

TypeOK ==
    /\ transport \in {"stdio", "http"}
    /\ opened \in 0..MaxStreams /\ stream \in 0..opened
    /\ request \in {"none", "watched", "checked", "inserted", "recorded"}
    /\ asked \in 0..MaxWatches
    /\ on \in [Watch -> Uri] /\ of \in [Watch -> 0..MaxStreams]
    /\ task \in [Watch -> {"none", "running", "changed", "dying", "read", "evicted",
                           "marked", "gone"}]
    /\ aborted \subseteq Watch /\ dead \subseteq Watch /\ known \subseteq Watch
    /\ live \subseteq Watch
    /\ dirty \subseteq Uri /\ out \subseteq Uri
    /\ wake \in BOOLEAN /\ taking \in BOOLEAN
    /\ told \subseteq Uri /\ unread \subseteq Uri

Init ==
    /\ transport \in {"stdio", "http"}
    /\ opened = (IF transport = "stdio" THEN 1 ELSE 0)
    /\ stream = opened
    /\ request = "none"
    /\ asked = 0
    /\ on = [w \in Watch |-> CHOOSE u \in Uri : TRUE]
    /\ of = [w \in Watch |-> NoStream]
    /\ task = [w \in Watch |-> "none"]
    /\ aborted = {} /\ dead = {} /\ known = {} /\ live = {}
    /\ dirty = {} /\ out = {} /\ wake = FALSE /\ taking = FALSE
    /\ told = {} /\ unread = {}

Registry(n) == {w \in live : of[w] = n}
Entry(n, u) == {w \in Registry(n) : on[w] = u}

-------------------------------------------------------------------------------
(* The session's stream.                                                   *)

\* PushChannels is dropped, or the loop has returned: abort_all.
CloseStream ==
    /\ live' = live \ Registry(stream)
    /\ aborted' = aborted \cup Registry(stream)
    /\ dirty' = {} /\ out' = {} /\ wake' = FALSE /\ taking' = FALSE
    /\ told' = {} /\ unread' = {}
    /\ UNCHANGED <<transport, request, asked, on, of, task, dead, known>>

\* PushState::install: a GET's stream takes the place of the one before it.
Install ==
    /\ transport = "http" /\ request = "none" /\ opened < MaxStreams
    /\ opened' = opened + 1
    /\ stream' = opened + 1
    /\ CloseStream

\* The loop ends, the SSE body is dropped, the session or the server ends.
EndStream ==
    /\ stream # NoStream /\ request = "none"
    /\ stream' = NoStream
    /\ CloseStream
    /\ UNCHANGED opened

\* The loop was woken, or answered a line: it takes the whole set.
Woken ==
    /\ wake /\ ~taking /\ out = {}
    /\ transport = "stdio" => request = "none"
    /\ wake' = FALSE
    /\ taking' = TRUE
    /\ UNCHANGED <<session, request, asked, watches, live, dirty, out, client>>

\* A deviation takes one URI.
TakeOne ==
    /\ taking
    /\ taking' = FALSE
    /\ \E u \in dirty : out' = {u} /\ dirty' = dirty \ {u}
    /\ UNCHANGED <<session, request, asked, watches, live, wake, client>>

Take ==
    /\ taking
    /\ taking' = FALSE
    /\ out' = dirty
    /\ dirty' = {}
    /\ UNCHANGED <<session, request, asked, watches, live, wake, client>>

Working(w) == task[w] \in {"running", "changed"}

\* One notification is written.  Its client reads the resource again, and so
\* finds out when nothing watches it.
Notify(u) ==
    /\ u \in out
    /\ out' = out \ {u}
    /\ unread' = unread \ {u}
    /\ told' = IF \E w \in Entry(stream, u) : Working(w) THEN told ELSE told \ {u}
    /\ UNCHANGED <<session, request, asked, watches, live, dirty, wake, taking>>

-------------------------------------------------------------------------------
(* The requests.                                                           *)

\* stdio reads a line once the notifications before it are written.
Reads ==
    /\ stream # NoStream /\ request = "none"
    /\ transport = "stdio" => ~taking /\ out = {}

\* The answer; stdio's loop then takes the dirty set, woken or not.
Answer(subscribed) ==
    /\ request' = "none"
    /\ taking' = (taking \/ transport = "stdio")
    /\ told' = subscribed
    /\ UNCHANGED <<session, asked, on, of, dirty, wake, out, unread>>

\* resources/unsubscribe: SubscriptionRegistry::remove.
Unsubscribe(u) ==
    /\ Reads
    /\ live' = live \ Entry(stream, u)
    /\ aborted' = aborted \cup Entry(stream, u)
    /\ Answer(told \ {u})
    /\ UNCHANGED <<task, dead, known>>

\* resources/subscribe, not refused: the watcher spawns the watch's task.
Subscribe(u) ==
    /\ Reads /\ asked < MaxWatches
    /\ asked' = asked + 1
    /\ on' = [on EXCEPT ![asked + 1] = u]
    /\ of' = [of EXCEPT ![asked + 1] = stream]
    /\ task' = [task EXCEPT ![asked + 1] = "running"]
    /\ request' = "watched"
    /\ UNCHANGED <<session, aborted, dead, known, live, sending, client>>

\* It died before it was committed to: what was there before stays.
Stillborn ==
    /\ request = "watched" /\ asked \in dead
    /\ dead' = dead \ {asked}
    /\ aborted' = aborted \cup {asked}
    /\ Answer(told)
    /\ UNCHANGED <<task, known, live>>

Commit ==
    /\ request = "watched" /\ asked \notin dead
    /\ request' = "checked"
    /\ UNCHANGED <<session, asked, watches, live, sending, client>>

\* The entries that count against the limit: those of tasks that ended go first.
Counted(n, u) ==
    LET all == Registry(n)
        full(entries) == Entry(n, u) = {} /\ Cardinality(entries) >= MAX_SUBSCRIPTIONS
    IN  IF full(all) THEN {w \in all : task[w] # "gone"} ELSE all

Full(n, u) == Entry(n, u) = {} /\ Cardinality(Counted(n, u)) >= MAX_SUBSCRIPTIONS

Without(n, u) == live \ (Entry(n, u) \cup (Registry(n) \ Counted(n, u)))

\* SubscriptionRegistry::insert: it takes the place of the URI's last watch.
Insert ==
    /\ request = "checked"
    /\ LET u == on[asked]  n == of[asked]
       IN /\ ~Full(n, u)
          /\ live' = Without(n, u) \cup {asked}
          /\ aborted' = aborted \cup Entry(n, u)
    /\ request' = "inserted"
    /\ UNCHANGED <<session, asked, on, of, task, dead, known, sending, client>>

\* Too many: the watch is refused.
Refuse ==
    /\ request = "checked"
    /\ Full(of[asked], on[asked])
    /\ live' = Without(of[asked], on[asked])
    /\ aborted' = aborted \cup {asked}
    /\ Answer(told)
    /\ UNCHANGED <<task, dead, known>>

\* The generation is filled in before `dead` is looked at again; on_dead does
\* the two the other way round.
Record ==
    /\ request = "inserted"
    /\ known' = known \cup {asked}
    /\ request' = "recorded"
    /\ UNCHANGED <<session, asked, on, of, task, aborted, dead, live, sending, client>>

\* It died after the commit: remove_if of its own generation.
Died ==
    /\ request = "recorded" /\ asked \in dead
    /\ dead' = dead \ {asked}
    /\ live' = live \ {asked}
    /\ aborted' = aborted \cup (live \cap {asked})
    /\ Answer(told \ {on[asked]})
    /\ UNCHANGED <<task, known>>

\* A deviation does not look again.
AcceptBlindly ==
    /\ request = "recorded"
    /\ Answer(told \cup {on[asked]})
    /\ UNCHANGED <<task, aborted, dead, known, live>>

Accept ==
    /\ request = "recorded" /\ asked \notin dead
    /\ Answer(told \cup {on[asked]})
    /\ UNCHANGED <<task, aborted, dead, known, live>>

-------------------------------------------------------------------------------
(* A watch.                                                                *)

Moves(w, from, to) == task[w] = from /\ task' = [task EXCEPT ![w] = to]

\* Its stream's dirty set, if that is still the session's.
Mark(w) ==
    IF of[w] = stream THEN dirty' = dirty \cup {on[w]} ELSE UNCHANGED dirty

\* try_send on a channel of one: a wakeup that waits already will do.
Wake(w) == wake' = (wake \/ of[w] = stream)

\* on_change: the set first, then the wakeup.
Change(w) ==
    /\ Moves(w, "running", "changed")
    /\ Mark(w)
    /\ unread' = IF of[w] = stream THEN unread \cup {on[w]} ELSE unread
    /\ UNCHANGED <<session, request, asked, on, of, aborted, dead, known, live, wake,
                   taking, out, told>>

Changed(w) ==
    /\ Moves(w, "changed", "running")
    /\ Wake(w)
    /\ UNCHANGED <<session, request, asked, on, of, aborted, dead, known, live, dirty,
                   taking, out, client>>

\* on_dead: the watch is over, and the reason is put where its request looks.
Die(w) ==
    /\ Moves(w, "running", "dying")
    /\ dead' = dead \cup {w}
    /\ UNCHANGED <<session, request, asked, on, of, aborted, known, live, sending,
                   client>>

\* Its own generation; none means the request will see the reason.
ReadGeneration(w) ==
    /\ Moves(w, "dying", IF w \in known THEN "read" ELSE "gone")
    /\ UNCHANGED <<session, request, asked, on, of, aborted, dead, known, live,
                   sending, client>>

\* A deviation removes whatever watches the URI.
EvictUri(w) ==
    /\ Moves(w, "read", IF Entry(of[w], on[w]) # {} THEN "evicted" ELSE "gone")
    /\ live' = live \ Entry(of[w], on[w])
    /\ aborted' = aborted \cup Entry(of[w], on[w])
    /\ UNCHANGED <<session, request, asked, on, of, dead, known, sending, client>>

\* remove_if: only its own entry, and only then is there something to tell.
Evict(w) ==
    /\ Moves(w, "read", IF w \in live THEN "evicted" ELSE "gone")
    /\ live' = live \ {w}
    /\ aborted' = aborted \cup (live \cap {w})
    /\ UNCHANGED <<session, request, asked, on, of, dead, known, sending, client>>

MarkDead(w) ==
    /\ Moves(w, "evicted", "marked")
    /\ Mark(w)
    /\ UNCHANGED <<session, request, asked, on, of, aborted, dead, known, live, wake,
                   taking, out, client>>

WakeDead(w) ==
    /\ Moves(w, "marked", "gone")
    /\ Wake(w)
    /\ UNCHANGED <<session, request, asked, on, of, aborted, dead, known, live, dirty,
                   taking, out, client>>

\* An aborted task stops where it awaits, not in a callback.
Stop(w) ==
    /\ w \in aborted
    /\ Moves(w, "running", "gone")
    /\ UNCHANGED <<session, request, asked, on, of, aborted, dead, known, live,
                   sending, client>>

-------------------------------------------------------------------------------
Handling == Stillborn \/ Commit \/ Insert \/ Refuse \/ Record \/ Died \/ Accept
Sending == Woken \/ Take \/ \E u \in Uri : Notify(u)
Calling(w) ==
    Changed(w) \/ ReadGeneration(w) \/ Evict(w) \/ MarkDead(w) \/ WakeDead(w) \/ Stop(w)

Next ==
    \/ Install \/ EndStream \/ Handling \/ Sending
    \/ \E u \in Uri : Subscribe(u) \/ Unsubscribe(u)
    \/ \E w \in Watch : Calling(w) \/ Change(w) \/ Die(w)

\* Threads run, and the client reads what it is sent.  Nothing makes an object
\* change, a watch die or a client ask.
Fairness ==
    /\ WF_vars(Handling) /\ WF_vars(Sending)
    /\ \A w \in Watch : WF_vars(Calling(w))

Spec == Init /\ [][Next]_vars /\ Fairness

-------------------------------------------------------------------------------
\* A client that was told it is subscribed has a watch that works, or one whose
\* death it is about to be told of (stdio.rs:781-795, remove_if).
NoSilentWatch ==
    \A u \in told :
        \/ \E w \in Entry(stream, u) : Working(w) \/ task[w] \in {"dying", "read"}
        \/ \E w \in Watch : on[w] = u /\ of[w] = stream /\ task[w] = "evicted"
        \/ u \in dirty \cup out
        \/ request # "none" /\ on[asked] = u

\* A watch that is not told to stop is the request's own, or the session's
\* present stream has it in its registry: no watch outlives its stream.  The
\* registry has one of each URI, and no more than its limit (subscriptions.rs
\* insert, http.rs PushState).
WatchesOwned ==
    /\ TypeOK
    /\ \A w \in Watch \ aborted :
          Working(w) => w \in Registry(stream) \/ (request # "none" /\ w = asked)
    /\ \A w, x \in live : on[w] = on[x] => w = x
    /\ Cardinality(live) <= MAX_SUBSCRIPTIONS

\* Clients and watches match: nobody waits for a watch that is not there, and
\* no watch runs for nobody.
WatchesMatch == NoSilentWatch /\ WatchesOwned

\* A working watch of a client that stays subscribed leaves the registry only
\* for a newer watch of its URI or with its stream: not for the death of an
\* older watch, nor for a request that fails before it has replaced it
\* (stdio.rs:839-844, remove_if).
PriorKept ==
    [][\A w \in Registry(stream) :
           Working(w) /\ on[w] \in told' /\ stream' = stream =>
               \/ w \in live'
               \/ request = "checked" /\ asked \in live' /\ on[asked] = on[w]]_vars

\* What a watch saw change is notified: a wakeup that is not sent, because one
\* waits already, loses nothing (stdio.rs:773-777).
Notified == \A u \in Uri : u \in unread ~> u \notin unread
===============================================================================
