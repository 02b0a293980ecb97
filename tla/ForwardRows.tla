----------------------------- MODULE ForwardRows ------------------------------
(***************************************************************************)
(* The rows a web page shows for the host's port-forwards                  *)
(* (packages/core/src/lib/forward.ts), beside the forwards themselves      *)
(* (PortForwards): commands are requests of their own, answered in any     *)
(* order, and events come over the page's one socket, which may be lost    *)
(* (transport/webTransport.ts, wsClient.ts).                               *)
(***************************************************************************)
EXTENDS PortForwards, Sequences

CONSTANTS
    Page,       \* the user's pages
    MaxQueue,   \* frames the host queues for a socket before it drops it
    MaxReloads  \* bound of the model: reloads of the pages

NoPage == "none"
ASSUME PagesAssumption ==
    NoPage \notin Page /\ MaxQueue \in Nat \ {0} /\ MaxReloads \in Nat

VARIABLES
    by,        \* the page a start's answer goes to
    rows,      \* the status of each row a page shows for a forward
    watching,  \* closers: the forwards it listens to
    dropped,   \* those its reader took off the screen
    listening, \* those its socket is subscribed to
    wire,      \* the events on their way to it
    listing,   \* how far its list_forwards is
    snapshot,  \* what that found
    stops,     \* its stop_port_forwards that were asked, and answered
    told,      \* the forwards it was told have ended
    orphans,   \* forwards started for a page that was gone
    blind,     \* pages whose last listing failed
    reloads

socket == <<listening, wire>>
store == <<rows, watching, dropped, told>>
asks == <<listing, snapshot, stops>>
vars == <<host, by, store, socket, asks, orphans, blind, reloads>>

Status == {"active", "reconnecting", "failed"}
Event == Status \cup {"closed"}

TypeOK ==
    /\ HostTypeOK
    /\ by \in [Forward -> Page \cup {NoPage}]
    /\ rows \in [Page -> [Forward -> Seq(Status)]]
    /\ watching \in [Page -> SUBSET Forward] /\ dropped \in [Page -> SUBSET Forward]
    /\ listening \in [Page -> SUBSET Forward]
    /\ wire \in [Page -> Seq(Forward \X Event)]
    /\ listing \in [Page -> {"no", "asked", "taken"}]
    /\ snapshot \in [Page -> [Forward -> {"ended", "live", "stopped", "absent"}]]
    /\ stops \in [Page -> [Forward -> {"no", "asked", "done"}]]
    /\ told \in [Page -> SUBSET Forward]
    /\ orphans \subseteq Forward /\ blind \subseteq Page
    /\ reloads \in 0..MaxReloads

NoRows == [i \in Forward |-> <<>>]
NoEntries == [i \in Forward |-> "absent"]
NoStops == [i \in Forward |-> "no"]

Init ==
    /\ HostInit
    /\ by = [i \in Forward |-> NoPage]
    /\ rows = [p \in Page |-> NoRows]
    /\ watching = [p \in Page |-> {}] /\ dropped = [p \in Page |-> {}]
    /\ listening = [p \in Page |-> {}] /\ wire = [p \in Page |-> <<>>]
    /\ listing = [p \in Page |-> "no"] /\ snapshot = [p \in Page |-> NoEntries]
    /\ stops = [p \in Page |-> NoStops]
    /\ told = [p \in Page |-> {}]
    /\ orphans = {} /\ blind = {} /\ reloads = 0

-------------------------------------------------------------------------------
(* The host, and the events it sends to every page subscribed to them.     *)

\* The queue of a page that does not read is full: its socket is dropped.
Reached(p, i) == i \in listening[p] /\ Len(wire[p]) < MaxQueue
Overrun(p, i) == i \in listening[p] /\ Len(wire[p]) >= MaxQueue

Emit(i, event) ==
    /\ wire' = [p \in Page |->
                    IF Reached(p, i) THEN Append(wire[p], <<i, event>>)
                    ELSE IF Overrun(p, i) THEN <<>> ELSE wire[p]]
    /\ listening' = [p \in Page |-> IF Overrun(p, i) THEN {} ELSE listening[p]]

Task(i) ==
    /\ \/ Establish(i) /\ Emit(i, "active")
       \/ Retry(i) /\ Emit(i, "reconnecting")
       \/ GiveUp(i) /\ Emit(i, "failed")
       \/ Close(i) /\ Emit(i, "closed")
       \/ (Finish(i) \/ Again(i) \/ Record(i)) /\ UNCHANGED socket
    /\ UNCHANGED <<by, store, asks, orphans, blind, reloads>>

Window(i) ==
    /\ Elapse(i)
    /\ UNCHANGED <<by, store, socket, asks, orphans, blind, reloads>>

\* The start goes on without the page that asked.
Start(i) ==
    /\ Spawn(i) \/ Insert(i)
    /\ orphans' = IF start'[i] = "listed" /\ by[i] = NoPage
                  THEN orphans \cup {i} ELSE orphans
    /\ UNCHANGED <<by, store, socket, asks, blind, reloads>>

-------------------------------------------------------------------------------
(* A page's store.                                                         *)

\* endForward: every row of it, and nothing more is listened for.
Dead(statuses) == [k \in DOMAIN statuses |-> "failed"]

\* startPortForward.
AskStart(p, i) ==
    /\ Starts(i, "no", "asked")
    /\ by' = [by EXCEPT ![i] = p]
    /\ UNCHANGED <<task, failures, lost, ended, held, store, socket, asks, orphans,
                   blind, reloads>>

\* Its answer: a row, and its events from now on.
Started(p, i) ==
    /\ by[i] = p /\ start[i] \in {"listed", "failed"}
    /\ by' = [by EXCEPT ![i] = NoPage]
    /\ IF start[i] = "listed"
       THEN /\ rows' = [rows EXCEPT ![p][i] = Append(@, "active")]
            /\ watching' = [watching EXCEPT ![p] = @ \cup {i}]
       ELSE UNCHANGED <<rows, watching>>
    /\ UNCHANGED <<host, dropped, told, socket, asks, orphans, blind, reloads>>

\* stopPortForward: a live tunnel, or a dead row taken off the screen.
AskStop(p, i) ==
    /\ rows[p][i] # <<>> /\ stops[p][i] = "no"
    /\ stops' = [stops EXCEPT ![p][i] = "asked"]
    /\ UNCHANGED <<host, by, store, socket, listing, snapshot, orphans, blind, reloads>>

DoStop(p, i) ==
    /\ stops[p][i] = "asked"
    /\ Stop(i)
    /\ stops' = [stops EXCEPT ![p][i] = "done"]
    /\ UNCHANGED <<by, store, socket, listing, snapshot, orphans, blind, reloads>>

\* removeForward.
Stopped(p, i) ==
    /\ stops[p][i] = "done"
    /\ stops' = [stops EXCEPT ![p][i] = "no"]
    /\ rows' = [rows EXCEPT ![p][i] = <<>>]
    /\ watching' = [watching EXCEPT ![p] = @ \ {i}]
    /\ listening' = [listening EXCEPT ![p] = @ \ {i}]
    /\ dropped' = [dropped EXCEPT ![p] = @ \cup {i}]
    /\ told' = [told EXCEPT ![p] = @ \ {i}]
    /\ UNCHANGED <<host, by, wire, listing, snapshot, orphans, blind, reloads>>

\* rehydrateForwards, on mount.
AskListing(p) ==
    /\ listing[p] = "no"
    /\ listing' = [listing EXCEPT ![p] = "asked"]
    /\ UNCHANGED <<host, by, store, socket, snapshot, stops, orphans, blind, reloads>>

\* A deviation reports the forwards that run, and forgets the others.
TakeRunning(p) ==
    /\ listing[p] = "asked"
    /\ listing' = [listing EXCEPT ![p] = "taken"]
    /\ snapshot' = [snapshot EXCEPT ![p] =
                        [i \in Forward |-> IF Entry(i) = "ended" THEN "absent"
                                           ELSE Entry(i)]]
    /\ UNCHANGED <<host, by, store, socket, stops, orphans, blind, reloads>>

\* ForwardManager::list.
TakeListing(p) ==
    /\ listing[p] = "asked"
    /\ listing' = [listing EXCEPT ![p] = "taken"]
    /\ snapshot' = [snapshot EXCEPT ![p] = [i \in Forward |-> Entry(i)]]
    /\ UNCHANGED <<host, by, store, socket, stops, orphans, blind, reloads>>

ListingFails(p) ==
    /\ listing[p] # "no"
    /\ listing' = [listing EXCEPT ![p] = "no"]
    /\ snapshot' = [snapshot EXCEPT ![p] = NoEntries]
    /\ blind' = blind \cup {p}
    /\ UNCHANGED <<host, by, store, socket, stops, orphans, reloads>>

Listed(p) == {i \in Forward \ dropped[p] : snapshot[p][i] \in {"live", "ended"}}
ListedDead(p) == {i \in Listed(p) : snapshot[p][i] = "ended"}
AsListed(p, i) == IF i \in ListedDead(p) THEN "failed" ELSE "active"

\* It adopts what it does not know, and ends the rows of what has ended.
ApplyListing(p) ==
    /\ listing[p] = "taken"
    /\ listing' = [listing EXCEPT ![p] = "no"]
    /\ snapshot' = [snapshot EXCEPT ![p] = NoEntries]
    /\ rows' = [rows EXCEPT ![p] = [i \in Forward |->
                    IF i \notin Listed(p) THEN @[i]
                    ELSE IF @[i] = <<>> THEN <<AsListed(p, i)>>
                    ELSE IF i \in ListedDead(p) THEN Dead(@[i]) ELSE @[i]]]
    /\ watching' = [watching EXCEPT ![p] =
                        (@ \ ListedDead(p))
                        \cup {i \in Listed(p) \ ListedDead(p) : rows[p][i] = <<>>}]
    /\ listening' = [listening EXCEPT ![p] = @ \ ListedDead(p)]
    /\ told' = [told EXCEPT ![p] = @ \cup ListedDead(p)]
    /\ blind' = blind \ {p}
    /\ UNCHANGED <<host, by, dropped, wire, stops, orphans, reloads>>

\* The socket subscribes to a channel somebody listens to: when it is asked,
\* and again when it is open again.
Listen(p, i) ==
    /\ i \in watching[p] \ listening[p]
    /\ listening' = [listening EXCEPT ![p] = @ \cup {i}]
    /\ UNCHANGED <<host, by, store, wire, asks, orphans, blind, reloads>>

\* It is lost, with what was on its way.
Outage(p) ==
    /\ listening[p] # {}
    /\ listening' = [listening EXCEPT ![p] = {}]
    /\ wire' = [wire EXCEPT ![p] = <<>>]
    /\ UNCHANGED <<host, by, store, asks, orphans, blind, reloads>>

\* An event that somebody listens to: setForwardStatus, or endForward.
Deliver(p) ==
    /\ wire[p] # <<>>
    /\ wire' = [wire EXCEPT ![p] = Tail(@)]
    /\ LET i == Head(wire[p])[1]  event == Head(wire[p])[2]
           over == event = "closed" /\ i \in watching[p]
       IN /\ rows' = [rows EXCEPT ![p][i] =
                        IF i \notin watching[p] THEN @
                        ELSE IF over THEN Dead(@)
                        ELSE [k \in DOMAIN @ |-> event]]
          /\ watching' = [watching EXCEPT ![p] = IF over THEN @ \ {i} ELSE @]
          /\ listening' = [listening EXCEPT ![p] = IF over THEN @ \ {i} ELSE @]
          /\ told' = [told EXCEPT ![p] = IF over THEN @ \cup {i} ELSE @]
    /\ UNCHANGED <<host, by, dropped, asks, orphans, blind, reloads>>

\* The page reloads: its store is empty, and it lists again.  What it asked
\* the host goes on, or is never seen by it.
Reload(p) ==
    /\ reloads < MaxReloads
    /\ reloads' = reloads + 1
    /\ rows' = [rows EXCEPT ![p] = NoRows]
    /\ watching' = [watching EXCEPT ![p] = {}] /\ dropped' = [dropped EXCEPT ![p] = {}]
    /\ listening' = [listening EXCEPT ![p] = {}] /\ wire' = [wire EXCEPT ![p] = <<>>]
    /\ told' = [told EXCEPT ![p] = {}]
    /\ stops' = [stops EXCEPT ![p] = NoStops]
    /\ listing' = [listing EXCEPT ![p] = "asked"]
    /\ snapshot' = [snapshot EXCEPT ![p] = NoEntries]
    /\ by' = [i \in Forward |-> IF by[i] = p THEN NoPage ELSE by[i]]
    /\ UNCHANGED <<host, orphans, blind>>

-------------------------------------------------------------------------------
Next ==
    \/ \E i \in Forward : Task(i) \/ Window(i) \/ Start(i)
    \/ \E p \in Page :
         \/ AskListing(p) \/ TakeListing(p) \/ ListingFails(p) \/ ApplyListing(p)
         \/ Outage(p) \/ Deliver(p) \/ Reload(p)
         \/ \E i \in Forward :
              \/ AskStart(p, i) \/ Started(p, i) \/ Listen(p, i)
              \/ AskStop(p, i) \/ DoStop(p, i) \/ Stopped(p, i)

\* The runtime runs a forward's task, its timers fire and its attempts return;
\* nothing makes a session end.
Fairness ==
    \A i \in Forward : WF_vars(task[i] # "serving" /\ Task(i)) /\ WF_vars(Window(i))

Spec == Init /\ [][Next]_vars /\ Fairness

-------------------------------------------------------------------------------
\* The answer to a start finds the row a listing made for it: it adds another,
\* and listens again.
DoubledByStart(p, i) == Len(rows[p][i]) > 1

\* A row that was shown to have ended stays so, whatever is still on its way to
\* the page, unless its start's answer came after a listing that had it
\* (forward.ts endForward, watchForward); and no listing says from then on that
\* the forward is live (forward.rs:496-498).
EndIsFinal ==
    /\ TypeOK
    /\ \A p \in Page : \A i \in told[p] :
          /\ rows[p][i] \in {<<>>, <<"failed">>} \/ DoubledByStart(p, i)
          /\ Entry(i) # "live"

WillList(p, i) == listing[p] = "asked" \/ (listing[p] = "taken" /\ i \in Listed(p))

\* A forward the host holds, dead or alive, is on a page where it may be stopped
\* or dismissed, or is on its way to one, over the reloads of the page that
\* started it; unless that page was gone when it was put in the map, or its
\* listing failed (forward.rs list, forward.ts rehydrateForwards).
HeldIsShown ==
    \A i \in held \ orphans :
        by[i] # NoPage \/ blind # {} \/ \E p \in Page : rows[p][i] # <<>> \/ WillList(p, i)

\* A forward whose target does not come back gives up, whether it reached it
\* before or not: it does not try for ever (forward.rs:86-106).
GivesUpAtLast ==
    \A i \in Forward :
        task[i] \in {"attempt", "waiting"} ~> task[i] \notin {"attempt", "waiting"}
===============================================================================
