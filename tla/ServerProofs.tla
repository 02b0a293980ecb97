--------------------------- MODULE ServerProofs ----------------------------
(***************************************************************************)
(* What the two servers promise their users: that builds of one user's     *)
(* environment take turns and keep what is in use, and that a client of    *)
(* the MCP server has a watch for what it was told it is subscribed to.    *)
(* The two parts share no state; their names differ so that one module can *)
(* extend both specifications.                                             *)
(***************************************************************************)
EXTENDS UserEnvs, McpSubscriptions, FiniteSetTheorems, TLAPS

-----------------------------------------------------------------------------
(* The build lock has one holder, and a build goes on only while nothing   *)
(* is cached.                                                              *)

\* 0 is no version of the kubeconfigs.
LEMMA VersionType == Version \subseteq Nat /\ Absent \notin Version /\ 1 \in Version
BY EnvsAssumption DEF Version, Absent

EnvsInv == EnvsTypeOK /\ BuildsWhenAbsent

LEMMA EnvsInitInv == EnvsInit => EnvsInv
BY VersionType, EnvsAssumption
   DEF EnvsInit, EnvsInv, EnvsTypeOK, BuildsWhenAbsent, Idle, Building, Free, Task

\* A step of env_for: only the holder of the lock checks, builds and inserts.
LEMMA RequestStep ==
    ASSUME EnvsInv, NEW r \in Request, Authorised(r) \/ EnvFor(r) \/ GiveUp(r)
    PROVE  EnvsInv'
<1> USE EnvsAssumption, VersionType
    DEF EnvsInv, EnvsTypeOK, BuildsWhenAbsent, Building, At, Goto, Return, Idle
<1>1. CASE Authorised(r)  BY <1>1 DEF Authorised
<1>2. CASE Lookup(r)      BY <1>2 DEF Lookup
<1>3. CASE Lock(r)        BY <1>3 DEF Lock
<1>4. CASE Check(r)       BY <1>4 DEF Check, Built
<1>5. CASE List(r)        BY <1>5 DEF List
<1>6. CASE Prepare(r)     BY <1>6 DEF Prepare
<1>7. CASE Write(r)       BY <1>7 DEF Write
<1>8. CASE InsertEnv(r)   BY <1>8 DEF InsertEnv
<1>9. CASE WriteFails(r)  BY <1>9 DEF WriteFails
<1>10. CASE GiveUp(r)     BY <1>10 DEF GiveUp
<1> QED
  BY <1>1, <1>2, <1>3, <1>4, <1>5, <1>6, <1>7, <1>8, <1>9, <1>10 DEF EnvFor

\* A change, a logout, a sweep and what they drop.
LEMMA TaskStepInv ==
    ASSUME EnvsInv, NEW t \in Task, Put(t) \/ Logout(t) \/ Retire(t) \/ Invalidate(t)
    PROVE  EnvsInv'
<1> USE EnvsAssumption, VersionType
    DEF EnvsInv, EnvsTypeOK, BuildsWhenAbsent, Idle
<1>1. CASE Put(t)     BY <1>1 DEF Put
<1>2. CASE Logout(t)  BY <1>2 DEF Logout
<1>3. CASE Retire(t)  BY <1>3 DEF Retire
<1>4. CASE DropEnv(t) BY <1>4 DEF DropEnv
<1>5. CASE Wipe(t)
  <2>1. UNCHANGED <<stored, signedIn, cached, lock, req>> /\ dir' = "none"
    BY <1>5 DEF Wipe
  <2>2. job[t].version \in Version \cup {Absent}
    OBVIOUS
  <2>3. floor' \in Version
    BY <1>5, <2>2 DEF Wipe, Absent, Version
  <2>4. job' \in [Task -> [at : {"idle", "drop", "wipe", "revoke"},
                            version : Version \cup {Absent}]]
    BY <1>5 DEF Wipe
  <2> QED  BY <2>1, <2>3, <2>4
<1>6. CASE Revoke(t)  BY <1>6 DEF Revoke
<1> QED  BY <1>1, <1>2, <1>3, <1>4, <1>5, <1>6 DEF Invalidate

\* Every reachable state is well typed, the build lock has the one request that
\* builds, and that request builds only what is not cached.
THEOREM BuildsTakeTurns == EnvsSpec => [](EnvsTypeOK /\ BuildsWhenAbsent)
<1>1. EnvsInv /\ [EnvsNext]_envsVars => EnvsInv'
  <2> SUFFICES ASSUME EnvsInv, [EnvsNext]_envsVars PROVE EnvsInv'
    OBVIOUS
  <2>1. CASE Login
    BY <2>1 DEF Login, EnvsInv, EnvsTypeOK, BuildsWhenAbsent
  <2>2. CASE UNCHANGED envsVars
    BY <2>2 DEF envsVars, EnvsInv, EnvsTypeOK, BuildsWhenAbsent
  <2> QED  BY <2>1, <2>2, RequestStep, TaskStepInv DEF EnvsNext
<1> QED  BY <1>1, EnvsInitInv, PTL DEF EnvsSpec, EnvsInv

\* However requests race, no build replaces an environment that is cached, nor
\* does it touch its files, and with it the streams that hang off it (users.rs,
\* env_for).
THEOREM EnvInUseIsKept == EnvsSpec => InUseIsKept
<1> DEFINE Replaces == \A r \in Request :
              At(r, "insert") /\ cached' = req[r].version /\ req'[r] = Idle
                 => cached = Absent
           Removes == cached # Absent /\ dir = "files" /\ dir' # "files" =>
              \E t \in Task : job[t].at = "wipe" /\ job'[t] # job[t]
<1>1. EnvsTypeOK /\ BuildsWhenAbsent => [Replaces]_envsVars
  BY DEF BuildsWhenAbsent, Building, At
<1>2. EnvsTypeOK /\ BuildsWhenAbsent /\ [EnvsNext]_envsVars => [Removes]_envsVars
  <2> SUFFICES ASSUME EnvsTypeOK, BuildsWhenAbsent, EnvsNext, cached # Absent,
                      dir = "files", dir' # "files"
               PROVE  \E t \in Task : job[t].at = "wipe" /\ job'[t] # job[t]
    OBVIOUS
  <2>1. ASSUME NEW r \in Request, Authorised(r) \/ EnvFor(r) \/ GiveUp(r)
        PROVE  FALSE
    BY <2>1 DEF EnvFor, Authorised, Lookup, Lock, Check, List, Prepare, Write, InsertEnv,
                WriteFails, GiveUp, BuildsWhenAbsent, Building, At
  <2>2. ASSUME NEW t \in Task, Put(t) \/ Logout(t) \/ Retire(t) \/ Invalidate(t)
        PROVE  job[t].at = "wipe" /\ job'[t] # job[t]
    <3>1. Wipe(t)
      BY <2>2 DEF Put, Logout, Retire, Invalidate, DropEnv, Revoke
    <3>2. job'[t].at # "wipe"
      BY <3>1 DEF Wipe, Idle, EnvsTypeOK
    <3> QED  BY <3>1, <3>2 DEF Wipe
  <2>3. ~Login
    BY DEF Login
  <2> QED  BY <2>1, <2>2, <2>3 DEF EnvsNext
<1> QED
  BY <1>1, <1>2, BuildsTakeTurns, PTL DEF EnvsSpec, InUseIsKept, NeverReplaced,
     OnlyInvalidateRemoves

-----------------------------------------------------------------------------
(* Subscriptions.  The invariant says of each watch how far it is, who     *)
(* knows of it, and of each URI a client was told of what still covers it: *)
(* the watch, its death on the way to the client, or the notification.     *)

\* How far a watch is, and who knows of it.
WatchIs(w) ==
    /\ task[w] = "none" <=> w > asked
    /\ w > asked => w \notin live \cup aborted \cup dead \cup known
    /\ w <= asked => of[w] # NoStream
    /\ w \in dead => ~Working(w)
    /\ w \in live => of[w] = stream /\ w \notin aborted
    /\ w \in live \ known => request = "inserted" /\ w = asked
    /\ task[w] \in {"read", "evicted", "marked"} => w \in known
    /\ task[w] \in {"evicted", "marked"} => w \notin live

\* The request's own watch works for the present stream, unless its death has
\* been recorded.
RequestIs ==
    request # "none" =>
        /\ asked \in Watch /\ of[asked] = stream
        /\ asked \notin dead => Working(asked) /\ asked \notin aborted
        /\ request \in {"watched", "checked"} => asked \notin live \cup aborted \cup known
        /\ request \in {"inserted", "recorded"} => asked \in live \cup aborted

\* What a client that was told it is subscribed still has.
Covered(u) ==
    \/ \E w \in Entry(stream, u) : Working(w) \/ task[w] \in {"dying", "read"}
    \/ \E w \in Watch : on[w] = u /\ of[w] = stream /\ task[w] = "evicted"
    \/ u \in dirty \cup out

\* Nothing is taken before what was is written.
SendingIs ==
    /\ taking => out = {}
    /\ transport = "stdio" /\ request # "none" => ~taking /\ out = {}

ToldIs(u) == Covered(u) \/ (request \in {"inserted", "recorded"} /\ on[asked] = u)

Inv ==
    /\ WatchesOwned /\ RequestIs /\ SendingIs
    /\ \A w \in Watch : WatchIs(w)
    /\ \A u \in told : ToldIs(u)

LEMMA InvMatch == Inv => WatchesMatch
BY DEF Inv, WatchesMatch, NoSilentWatch, ToldIs, Covered

LEMMA WatchNat ==
    /\ Watch \subseteq Nat
    /\ MaxWatches \in Nat /\ MaxStreams \in Nat \ {0} /\ MAX_SUBSCRIPTIONS \in Nat \ {0}
    /\ \A n \in 0..MaxWatches : n < MaxWatches => n + 1 \in Watch
BY SubscriptionsAssumption DEF Watch

LEMMA Finite == ASSUME Inv PROVE IsFiniteSet(live)
<1>1. IsFiniteSet(1..MaxWatches)
  BY WatchNat, FS_Interval
<1> QED  BY <1>1, FS_Subset DEF Inv, WatchesOwned, TypeOK, Watch

LEMMA Fewer ==
    ASSUME Inv, NEW S, S \subseteq live
    PROVE  Cardinality(S) <= MAX_SUBSCRIPTIONS
BY Finite, FS_Subset, FS_CardinalityType, WatchNat DEF Inv, WatchesOwned

LEMMA InitInv == Init => Inv
<1> SUFFICES ASSUME Init PROVE Inv
  OBVIOUS
<1>1. (CHOOSE u \in Uri : TRUE) \in Uri
  BY SubscriptionsAssumption
<1>2. TypeOK
  <2>1. on \in [Watch -> Uri]
    BY <1>1 DEF Init
  <2>2. opened \in 0..MaxStreams /\ stream \in 0..opened /\ asked \in 0..MaxWatches
    BY WatchNat DEF Init
  <2>3. of \in [Watch -> 0..MaxStreams]
    BY WatchNat DEF Init, NoStream
  <2>4. task \in [Watch -> {"none", "running", "changed", "dying", "read", "evicted",
                            "marked", "gone"}]
    BY DEF Init
  <2> QED  BY <2>1, <2>2, <2>3, <2>4 DEF Init, TypeOK
<1>3. Cardinality(live) <= MAX_SUBSCRIPTIONS
  BY FS_EmptySet, WatchNat DEF Init
<1>4. RequestIs /\ \A w \in Watch : WatchIs(w) /\ ~Working(w)
  BY WatchNat DEF Init, RequestIs, WatchIs, Working, Watch
<1> QED  BY <1>2, <1>3, <1>4 DEF Init, Inv, WatchesOwned, SendingIs

LEMMA StreamStep == ASSUME Inv, Install \/ EndStream PROVE Inv'
<1> USE WatchNat DEF Inv, WatchesOwned, NoStream
<1>1. live' = {}
  BY DEF Install, EndStream, CloseStream, Registry, WatchIs, TypeOK
<1>2. Cardinality(live') <= MAX_SUBSCRIPTIONS
  BY <1>1, Fewer
<1>3. TypeOK'
  <2>1. opened' \in 0..MaxStreams /\ stream' \in 0..opened'
    BY DEF Install, EndStream, TypeOK
  <2> QED  BY <1>1, <2>1 DEF Install, EndStream, CloseStream, Registry, TypeOK
<1>4. request' = "none"
  BY DEF Install, EndStream, CloseStream
<1>5. \A w \in Watch : WatchIs(w)'
  BY <1>1 DEF Install, EndStream, CloseStream, Registry, WatchIs, Working, TypeOK
<1>6. \A w \in Watch \ aborted' : ~Working(w)'
  BY <1>1 DEF Install, EndStream, CloseStream, Registry, Working
<1>7. told' = {}
  BY DEF Install, EndStream, CloseStream
<1>8. SendingIs'
  BY <1>4 DEF Install, EndStream, CloseStream, SendingIs
<1> QED  BY <1>1, <1>2, <1>3, <1>4, <1>5, <1>6, <1>7, <1>8 DEF RequestIs

LEMMA SendStep == ASSUME Inv, Sending PROVE Inv'
<1>1. TypeOK'
  BY DEF Inv, WatchesOwned, TypeOK, Sending, Woken, Take, Notify, watches, session, client
<1>2. UNCHANGED <<session, request, asked, watches, live>>
  BY DEF Sending, Woken, Take, Notify
<1>3. WatchesOwned' /\ RequestIs' /\ \A w \in Watch : WatchIs(w)'
  BY <1>1, <1>2 DEF Inv, WatchesOwned, RequestIs, WatchIs, Registry, Working, watches, session
<1>4. ASSUME NEW u \in told' PROVE ToldIs(u)'
  <2>1. u \in told /\ (Covered(u) => Covered(u)')
    <3>1. CASE Woken
      BY <1>4, <3>1 DEF Woken, Covered, Entry, Registry, Working, watches, session, client
    <3>2. CASE Take
      <4>1. UNCHANGED <<stream, on, of, task, live, told>>
        BY <3>2 DEF Take, watches, session, client
      <4>2. out' = dirty /\ out = {}
        BY <3>2 DEF Take, Inv, SendingIs
      <4> QED  BY <1>4, <4>1, <4>2 DEF Covered, Entry, Registry, Working
    <3>3. ASSUME NEW v \in Uri, Notify(v) PROVE u \in told /\ (Covered(u) => Covered(u)')
      <4>1. u \in told /\ (u = v => \E w \in Entry(stream, u) : Working(w))
        BY <1>4, <3>3 DEF Notify
      <4>2. UNCHANGED <<stream, on, of, task, live, dirty>> /\ out' = out \ {v}
        BY <3>3 DEF Notify, watches, session
      <4> QED  BY <4>1, <4>2 DEF Covered, Entry, Registry, Working
    <3> QED  BY <3>1, <3>2, <3>3 DEF Sending
  <2> QED  BY <1>2, <2>1 DEF Inv, ToldIs, watches
<1>5. SendingIs'
  <2>1. UNCHANGED <<transport, request>>
    BY <1>2 DEF session
  <2>2. CASE Woken
    BY <2>1, <2>2 DEF Woken, SendingIs, Inv
  <2>3. CASE Take
    BY <2>1, <2>3 DEF Take, SendingIs, Inv
  <2>4. ASSUME NEW v \in Uri, Notify(v) PROVE SendingIs'
    BY <2>1, <2>4 DEF Notify, SendingIs, Inv
  <2> QED  BY <2>2, <2>3, <2>4 DEF Sending
<1> QED  BY <1>3, <1>4, <1>5 DEF Inv

\* An answer leaves the request's watch as it is, and waits for the one before.
LEMMA AnswerRest ==
    ASSUME Inv, request # "none", NEW S \in SUBSET Uri, Answer(S)
    PROVE  SendingIs' /\ RequestIs'
BY DEF Inv, Answer, SendingIs, RequestIs, session

\* A request that fails leaves what was told, and what covers it.
LEMMA UnsubscribeStep == ASSUME Inv, NEW u \in Uri, Unsubscribe(u) PROVE Inv'
<1> USE DEF Inv, WatchesOwned
<1>1. UNCHANGED <<session, asked, on, of, dirty, wake, out, unread, task, dead, known>>
  BY DEF Unsubscribe, Answer
<1>2. live' = live \ Entry(stream, u) /\ aborted' = aborted \cup Entry(stream, u)
  BY DEF Unsubscribe
<1>3. request = "none" /\ request' = "none" /\ told' = told \ {u}
  BY DEF Unsubscribe, Answer, Reads
<1>4. TypeOK'
  BY <1>1, <1>2, <1>3 DEF TypeOK, Unsubscribe, Answer, session, Entry, Registry
<1>5. Cardinality(live') <= MAX_SUBSCRIPTIONS
  BY <1>2, Fewer
<1>6. ASSUME NEW w \in Watch PROVE WatchIs(w)'
  BY <1>1, <1>2, <1>3 DEF WatchIs, Entry, Registry, Working, session
<1>7. SendingIs' /\ RequestIs'
  BY <1>1, <1>3 DEF SendingIs, RequestIs, Unsubscribe, Answer, Reads, session
<1>8. ASSUME NEW v \in told' PROVE ToldIs(v)'
  BY <1>1, <1>2, <1>3 DEF ToldIs, Covered, Entry, Registry, Working, session
<1>9. ASSUME NEW w \in Watch \ aborted', Working(w)' PROVE w \in Registry(stream)'
  BY <1>1, <1>2, <1>3, <1>9 DEF Entry, Registry, Working, session
<1>10. \A w, x \in live' : on'[w] = on'[x] => w = x
  BY <1>1, <1>2
<1> QED  BY <1>4, <1>5, <1>6, <1>7, <1>8, <1>9, <1>10

LEMMA SubscribeStep == ASSUME Inv, NEW u \in Uri, Subscribe(u) PROVE Inv'
<1> USE DEF Inv, WatchesOwned
<1>1. UNCHANGED <<session, aborted, dead, known, live, sending, client>>
  BY DEF Subscribe
<1>2. PICK a \in Watch : a = asked + 1
  BY WatchNat DEF Subscribe, TypeOK
<1>3. /\ request = "none" /\ request' = "watched" /\ asked' = a /\ stream # NoStream
      /\ on' = [on EXCEPT ![a] = u] /\ of' = [of EXCEPT ![a] = stream]
      /\ task' = [task EXCEPT ![a] = "running"]
  BY <1>2 DEF Subscribe, Reads
<1>4. /\ a \notin live \cup aborted \cup dead \cup known /\ task[a] = "none"
      /\ \A w \in Watch : w > a <=> w > asked /\ w # a
      /\ ~(a > a)
  BY <1>2, WatchNat DEF WatchIs, TypeOK
<1>5. TypeOK'
  BY <1>1, <1>2, <1>3, WatchNat DEF TypeOK, session, sending, client, Watch
<1>6. ASSUME NEW w \in Watch PROVE WatchIs(w)'
  <2>1. CASE w = a
    BY <1>1, <1>2, <1>3, <1>4, <2>1 DEF WatchIs, Working, TypeOK
  <2>2. CASE w # a
    <3>1. task'[w] = task[w] /\ of'[w] = of[w] /\ (w > asked' <=> w > asked)
          /\ (w <= asked' <=> w <= asked)
      BY <1>2, <1>3, <1>4, <2>2, WatchNat DEF TypeOK
    <3> QED  BY <1>1, <1>3, <1>4, <2>2, <3>1 DEF WatchIs, Working, session
  <2> QED  BY <2>1, <2>2
<1>7. SendingIs'
  BY <1>1, <1>3 DEF SendingIs, Subscribe, Reads, session, sending
<1>8. RequestIs'
  BY <1>1, <1>2, <1>3, <1>4 DEF RequestIs, TypeOK, Working, session
<1>9. ASSUME NEW v \in told' PROVE ToldIs(v)'
  <2>1. Covered(v)
    BY <1>1, <1>3 DEF ToldIs, client
  <2>2. Covered(v)'
    BY <1>1, <1>2, <1>3, <1>4, <2>1 DEF Covered, Entry, Registry, Working, session, sending, TypeOK
  <2> QED  BY <2>2 DEF ToldIs
<1>10. ASSUME NEW w \in Watch \ aborted', Working(w)'
       PROVE  w \in Registry(stream)' \/ (request' # "none" /\ w = asked')
  BY <1>1, <1>2, <1>3, <1>4, <1>10 DEF Registry, Working, session, TypeOK
<1>11. \A w, x \in live' : on'[w] = on'[x] => w = x
  BY <1>1, <1>2, <1>3, <1>4 DEF TypeOK
<1> QED  BY <1>1, <1>5, <1>6, <1>7, <1>8, <1>9, <1>10, <1>11

\* The answer to a subscription that has come this far.
LEMMA AnswerStep ==
    ASSUME Inv, request # "none", NEW S \in SUBSET Uri, Answer(S), UNCHANGED task,
           live' \subseteq live, live \ live' \subseteq aborted' \cup {w \in Watch : task[w] = "gone"},
           aborted \subseteq aborted', aborted' \subseteq aborted \cup {asked},
           live' \cap aborted' = {}, live' \subseteq known',
           dead' \subseteq dead, UNCHANGED known, asked \in aborted' \cup live',
           \A u \in S : Covered(u)'
    PROVE  Inv'
<1> USE DEF Inv, WatchesOwned
<1>1. /\ UNCHANGED <<session, asked, on, of, dirty, wake, out, unread, task, known>>
      /\ request' = "none" /\ told' = S
  BY DEF Answer
<1>2. TypeOK'
  BY <1>1 DEF TypeOK, Answer, session, RequestIs
<1>3. Cardinality(live') <= MAX_SUBSCRIPTIONS
  BY Fewer
<1>4. SendingIs' /\ RequestIs'
  BY <1>1 DEF SendingIs, RequestIs, Answer, session
<1>5. ASSUME NEW w \in Watch PROVE WatchIs(w)'
  BY <1>1, WatchNat DEF WatchIs, RequestIs, Working, session, TypeOK
<1>6. ASSUME NEW u \in told' PROVE ToldIs(u)'
  BY <1>1, <1>6 DEF ToldIs
<1>7. ASSUME NEW w \in Watch \ aborted', Working(w)' PROVE w \in Registry(stream)'
  <2>1. Working(w) /\ w \notin aborted
    BY <1>1, <1>7 DEF Working
  <2>2. w \in live'
    BY <1>7, <2>1 DEF Registry, Working
  <2> QED  BY <1>1, <1>5, <2>2 DEF Registry, WatchIs
<1> QED  BY <1>1, <1>2, <1>3, <1>4, <1>5, <1>6, <1>7

LEMMA StillbornStep == ASSUME Inv, Stillborn PROVE Inv'
<1>1. request = "watched" /\ UNCHANGED <<stream, on, of, task, live, dirty, out, known>>
  BY DEF Stillborn, Answer, session
<1>2. \A u \in told : Covered(u)'
  BY <1>1 DEF Inv, ToldIs, Covered, Entry, Registry, Working
<1>3. live \subseteq known /\ live \cap (aborted \cup {asked}) = {}
  BY <1>1 DEF Inv, WatchIs, RequestIs, WatchesOwned, TypeOK
<1>4. told \in SUBSET Uri
  BY DEF Inv, WatchesOwned, TypeOK
<1> QED  BY <1>1, <1>2, <1>3, <1>4, AnswerStep DEF Stillborn

LEMMA AcceptStep == ASSUME Inv, Accept PROVE Inv'
<1>1. request = "recorded" /\ UNCHANGED <<stream, on, of, task, live, dirty, out, known, aborted>>
  BY DEF Accept, Answer, session
<1>2. asked \in Watch /\ asked \in live /\ on[asked] \in Uri /\ told \in SUBSET Uri
  BY <1>1 DEF Inv, RequestIs, Accept, WatchesOwned, TypeOK
<1>3. \A u \in told \cup {on[asked]} : Covered(u)'
  BY <1>1, <1>2 DEF Inv, ToldIs, Covered, Entry, Registry, Working, Accept, RequestIs
<1>4. live \subseteq known /\ live \cap aborted = {}
  BY <1>1 DEF Inv, WatchIs, WatchesOwned, TypeOK
<1> QED  BY <1>1, <1>2, <1>3, <1>4, AnswerStep DEF Accept

LEMMA DiedStep == ASSUME Inv, Died PROVE Inv'
<1>1. request = "recorded" /\ UNCHANGED <<stream, on, of, task, dirty, out, known>>
  BY DEF Died, Answer, session
<1>2. asked \in Watch /\ asked \in live \cup aborted /\ told \in SUBSET Uri
  BY <1>1 DEF Inv, RequestIs, WatchesOwned, TypeOK
<1>3. live' = live \ {asked} /\ aborted' = aborted \cup (live \cap {asked})
  BY DEF Died
<1>4. \A u \in told \ {on[asked]} : Covered(u)'
  BY <1>1, <1>3 DEF Inv, ToldIs, Covered, Entry, Registry, Working
<1>5. live \subseteq known /\ live \cap aborted = {}
  BY <1>1 DEF Inv, WatchIs, WatchesOwned, TypeOK
<1> QED  BY <1>1, <1>2, <1>3, <1>4, <1>5, AnswerStep DEF Died

\* What is counted has not ended, or everything counts.
LEMMA CountedIs ==
    ASSUME NEW n, NEW u
    PROVE  /\ Counted(n, u) \subseteq Registry(n)
           /\ \A w \in Registry(n) \ Counted(n, u) : task[w] = "gone" /\ Entry(n, u) = {}
BY DEF Counted

LEMMA RefuseStep == ASSUME Inv, Refuse PROVE Inv'
<1> DEFINE n == of[asked]  u == on[asked]
<1>1. request = "checked" /\ UNCHANGED <<stream, on, of, task, dirty, out, known>>
  BY DEF Refuse, Answer, session
<1>2. asked \in Watch /\ asked \notin live \cup aborted /\ told \in SUBSET Uri
  BY <1>1 DEF Inv, RequestIs, WatchesOwned, TypeOK
<1>3. Entry(n, u) = {}
  BY DEF Refuse, Full
<1>4. /\ live' \subseteq live /\ aborted' = aborted \cup {asked}
      /\ \A w \in live \ live' : task[w] = "gone"
  BY <1>3, CountedIs DEF Refuse, Without
<1>5. \A v \in told : Covered(v)'
  BY <1>1, <1>4 DEF Inv, ToldIs, Covered, Entry, Registry, Working
<1>6. live \subseteq known /\ live \cap aborted = {} /\ live \subseteq Watch
  BY <1>1 DEF Inv, WatchIs, WatchesOwned, TypeOK
<1> HIDE DEF n, u
<1>7. dead' = dead /\ request # "none" /\ Answer(told)
  BY <1>1 DEF Refuse
<1> QED  BY <1>1, <1>2, <1>4, <1>5, <1>6, <1>7, AnswerStep

LEMMA CommitStep == ASSUME Inv, Commit PROVE Inv'
<1>1. /\ UNCHANGED <<session, asked, watches, live, sending, client>>
      /\ request = "watched" /\ request' = "checked"
  BY DEF Commit
<1>2. WatchesOwned' /\ RequestIs' /\ SendingIs' /\ \A w \in Watch : WatchIs(w)'
  BY <1>1 DEF Inv, WatchesOwned, TypeOK, RequestIs, SendingIs, WatchIs, Registry, Working,
              session, watches, sending, client
<1>3. \A u \in told' : ToldIs(u)'
  BY <1>1 DEF Inv, ToldIs, Covered, Entry, Registry, Working, session, watches, sending, client
<1> QED  BY <1>2, <1>3 DEF Inv

LEMMA RecordStep == ASSUME Inv, Record PROVE Inv'
<1>1. /\ UNCHANGED <<session, asked, on, of, task, aborted, dead, live, sending, client>>
      /\ request = "inserted" /\ request' = "recorded" /\ known' = known \cup {asked}
      /\ asked \in Watch
  BY DEF Record, Inv, RequestIs
<1>2. WatchesOwned' /\ RequestIs' /\ SendingIs'
  BY <1>1 DEF Inv, WatchesOwned, TypeOK, RequestIs, SendingIs, Registry, Working, session,
              sending, client
<1>3. \A w \in Watch : WatchIs(w)'
  BY <1>1, WatchNat DEF Inv, WatchesOwned, TypeOK, WatchIs, Working, session
<1>4. \A u \in told' : ToldIs(u)'
  BY <1>1 DEF Inv, ToldIs, Covered, Entry, Registry, Working, session, sending, client
<1> QED  BY <1>2, <1>3, <1>4 DEF Inv

\* The registry that takes a watch is not over its limit: it had room, or the
\* new one takes the place of the last.
LEMMA InsertFits ==
    ASSUME Inv, Insert
    PROVE  Cardinality(live') <= MAX_SUBSCRIPTIONS
<1> DEFINE u == on[asked]  n == of[asked]  left == live' \ {asked}
<1>1. asked \in Watch /\ live = Registry(n)
  BY DEF Inv, RequestIs, WatchIs, WatchesOwned, TypeOK, Insert, Registry
<1>2. live' = Without(n, u) \cup {asked} /\ ~Full(n, u)
  BY DEF Insert
<1>3. left \subseteq live /\ IsFiniteSet(live) /\ IsFiniteSet(left)
  BY <1>2, Finite, FS_Subset DEF Without
<1>4. Cardinality(left) < MAX_SUBSCRIPTIONS
  <2>1. CASE Entry(n, u) = {}
    <3>1. left \subseteq Counted(n, u) /\ Counted(n, u) \subseteq live
      BY <1>1, <1>2, CountedIs DEF Without
    <3>2. Cardinality(left) <= Cardinality(Counted(n, u)) /\ IsFiniteSet(Counted(n, u))
      BY <1>3, <3>1, FS_Subset
    <3>3. ~(Cardinality(Counted(n, u)) >= MAX_SUBSCRIPTIONS)
      BY <1>2, <2>1 DEF Full
    <3> HIDE DEF left, n, u
    <3> QED  BY <1>3, <3>2, <3>3, FS_CardinalityType, WatchNat
  <2>2. CASE Entry(n, u) # {}
    <3>1. PICK e \in live : e \in Entry(n, u)
      BY <2>2 DEF Entry, Registry
    <3>2. left \subseteq live \ {e}
      BY <1>2, <3>1 DEF Without
    <3> HIDE DEF left, n, u
    <3>3. Cardinality(live \ {e}) = Cardinality(live) - 1 /\ IsFiniteSet(live \ {e})
      BY <1>3, FS_RemoveElement
    <3>4. Cardinality(left) <= Cardinality(live \ {e})
      BY <3>2, <3>3, FS_Subset
    <3> QED
      BY <1>3, <3>3, <3>4, FS_CardinalityType, WatchNat DEF Inv, WatchesOwned
  <2> QED  BY <2>1, <2>2
<1>5. live' = left \cup {asked} /\ asked \notin left
  BY <1>2
<1> HIDE DEF left
<1>6. Cardinality(live') = Cardinality(left) + 1
  BY <1>3, <1>5, FS_AddElement
<1> QED  BY <1>3, <1>4, <1>6, FS_CardinalityType, WatchNat

LEMMA InsertStep == ASSUME Inv, Insert PROVE Inv'
<1> DEFINE u == on[asked]  n == of[asked]
<1>1. /\ UNCHANGED <<session, asked, on, of, task, dead, known, sending, client>>
      /\ request = "checked" /\ request' = "inserted"
  BY DEF Insert
<1>2. asked \in Watch /\ n = stream /\ asked \notin live \cup aborted \cup known
  BY <1>1 DEF Inv, RequestIs
<1>3. /\ live' = Without(n, u) \cup {asked} /\ aborted' = aborted \cup Entry(n, u)
      /\ \A w \in Registry(n) \ Counted(n, u) : task[w] = "gone"
  BY CountedIs DEF Insert
<1>4. live \subseteq Watch /\ \A w \in live : of[w] = stream
  BY DEF Inv, WatchIs, WatchesOwned, TypeOK
<1>12. u = on[asked] /\ of[asked] = stream
  BY <1>2
<1> HIDE DEF n, u
<1>13. Entry(n, u) = {w \in live : on[w] = u} /\ Registry(n) = live
  BY <1>2, <1>4 DEF Entry, Registry
<1>14. Without(n, u) = live \ (Entry(n, u) \cup (live \ Counted(n, u)))
  BY <1>13 DEF Without
<1>5. /\ Without(n, u) \subseteq live
      /\ \A w \in live : w \in Without(n, u) \/ task[w] = "gone" \/ (on[w] = u /\ w \in aborted')
      /\ \A w \in Without(n, u) : on[w] # u
      /\ \A w \in aborted' : w \in aborted \/ (w \in live /\ on[w] = u)
      /\ aborted \subseteq aborted'
  BY <1>3, <1>13, <1>14
<1>6. TypeOK'
  <2>1. TypeOK
    BY DEF Inv, WatchesOwned
  <2>2. live' \subseteq Watch /\ aborted' \subseteq Watch
    BY <1>2, <1>3, <1>4, <1>5, <2>1 DEF TypeOK
  <2> QED  BY <1>1, <2>1, <2>2 DEF TypeOK, session, sending, client
<1>7. \A w, x \in live' : on'[w] = on'[x] => w = x
  BY <1>1, <1>3, <1>5, <1>12 DEF Inv, WatchesOwned
<1>8. \A w \in Watch \ aborted' :
          Working(w)' => w \in Registry(stream)' \/ (request' # "none" /\ w = asked')
  BY <1>1, <1>2, <1>3, <1>5, <1>12 DEF Inv, WatchesOwned, Working, Registry, session
<1>9. ASSUME NEW w \in Watch PROVE WatchIs(w)'
  <2>1. WatchIs(w) /\ WatchIs(asked)
    BY <1>2 DEF Inv
  <2>2. CASE w = asked
    <3>1. w \in live' /\ w \notin aborted' /\ of[w] = stream
      BY <1>2, <1>3, <1>5, <1>12, <2>2
    <3>2. ~(w > asked)
      BY <2>2, WatchNat
    <3> QED  BY <1>1, <1>2, <2>1, <2>2, <3>1, <3>2 DEF WatchIs, Working, session
  <2>3. CASE w # asked
    <3>1. (w \in live' => w \in live /\ w \notin aborted') /\ (w \in aborted' => w \in aborted \cup live)
      BY <1>3, <1>5, <2>1, <2>3 DEF WatchIs
    <3> QED  BY <1>1, <2>1, <2>3, <3>1 DEF WatchIs, Working, session
  <2> QED  BY <2>2, <2>3
<1>10. SendingIs' /\ RequestIs'
  <2>1. asked \notin aborted' /\ asked \in live'
    BY <1>2, <1>3, <1>5
  <2>2. SendingIs'
    BY <1>1 DEF Inv, SendingIs, session, sending
  <2>3. RequestIs'
    BY <1>1, <1>2, <2>1 DEF Inv, RequestIs, Working, session
  <2> QED  BY <2>2, <2>3
<1>11. ASSUME NEW v \in told' PROVE ToldIs(v)'
  <2>1. CASE v = u
    BY <1>1, <1>12, <2>1 DEF ToldIs
  <2>2. CASE v # u
    <3>1. Covered(v)
      BY <1>1, <1>11 DEF Inv, ToldIs, client
    <3>2. Covered(v)'
      BY <1>1, <1>2, <1>3, <1>5, <1>12, <2>2, <3>1
         DEF Covered, Entry, Registry, Working, session, sending
    <3> QED  BY <3>2 DEF ToldIs
  <2> QED  BY <2>1, <2>2
<1> QED  BY <1>6, <1>7, <1>8, <1>9, <1>10, <1>11, InsertFits DEF Inv, WatchesOwned

Moved(w) ==
    /\ task[w] # "none" /\ task'[w] # "none"
    /\ \A x \in Watch : x # w => task'[x] = task[x]
    /\ task' \in [Watch -> {"none", "running", "changed", "dying", "read", "evicted",
                            "marked", "gone"}]

\* A move of a watch's thread is a step of that watch.
LEMMA MovesMoved ==
    ASSUME Inv, NEW w \in Watch, NEW from, NEW to, Moves(w, from, to), from # "none",
           to \in {"running", "changed", "dying", "read", "evicted", "marked", "gone"}
    PROVE  Moved(w) /\ task[w] = from /\ task'[w] = to
BY DEF Moves, Moved, Inv, WatchesOwned, TypeOK

\* A step of a watch's own task: the watches' other state that it moves is its
\* own, and whatever covered a subscription still does.
LEMMA WatchStep ==
    ASSUME Inv, NEW w \in Watch, Moved(w),
           UNCHANGED <<session, request, asked, on, of, known, taking, out, told>>,
           wake' \in BOOLEAN, dirty' \in SUBSET Uri, unread' \in SUBSET Uri,
           dirty \subseteq dirty',
           dead' = dead \/ (dead' = dead \cup {w} /\ ~Working(w)'),
           Working(w)' => Working(w),
           w \in dead' \/ Working(w)' \/ ~Working(w) \/ w \in aborted,
           \/ UNCHANGED <<live, aborted>>
           \/ live' = live \ {w} /\ aborted' = aborted \cup (live \cap {w}),
           w \in live => task'[w] \in {"running", "changed", "dying", "read"}
                         \/ w \in aborted' \/ w \notin known,
           task'[w] \in {"read", "evicted", "marked"} => w \in known,
           task'[w] \in {"evicted", "marked"} => w \notin live',
           w \in live /\ w \notin live' => task'[w] = "evicted",
           task[w] = "evicted" /\ of[w] = stream => on[w] \in dirty'
    PROVE  Inv'
<1>1. /\ task[w] # "none" /\ task'[w] # "none"
      /\ \A x \in Watch : x # w => task'[x] = task[x]
      /\ task' \in [Watch -> {"none", "running", "changed", "dying", "read", "evicted",
                              "marked", "gone"}]
  BY DEF Moved
<1>2. TypeOK'
  BY <1>1 DEF Inv, WatchesOwned, TypeOK, session
<1>3. Cardinality(live') <= MAX_SUBSCRIPTIONS
  BY Fewer
<1>4. ASSUME NEW x \in Watch PROVE WatchIs(x)'
  BY <1>1 DEF Inv, WatchIs, Working, session
<1>5. ASSUME NEW x \in Watch \ aborted', Working(x)'
      PROVE  x \in Registry(stream)' \/ (request' # "none" /\ x = asked')
  BY <1>1, <1>5 DEF Inv, WatchesOwned, Working, Registry, session
<1>6. SendingIs'
  BY DEF Inv, SendingIs, session
<1>7. RequestIs'
  BY <1>1 DEF Inv, RequestIs, WatchIs, Working, session
<1>8. ASSUME NEW u \in told' PROVE ToldIs(u)'
  <2>1. CASE request \in {"inserted", "recorded"} /\ on[asked] = u
    BY <2>1 DEF ToldIs
  <2>2. CASE ~(request \in {"inserted", "recorded"} /\ on[asked] = u)
    <3>1. Covered(u)
      BY <1>8, <2>2 DEF Inv, ToldIs
    <3>2. u \in dirty \cup out => u \in dirty' \cup out'
      OBVIOUS
    <3>3. ASSUME NEW x \in Watch, on[x] = u, of[x] = stream, task[x] = "evicted"
          PROVE  Covered(u)'
      BY <1>1, <3>3 DEF Covered, session
    <3>4. ASSUME NEW x \in live, on[x] = u, of[x] = stream,
                 Working(x) \/ task[x] \in {"dying", "read"}
          PROVE  Covered(u)'
      <4>1. x \in Watch /\ x \notin aborted /\ x \in known
        BY <2>2, <3>4 DEF Inv, WatchesOwned, TypeOK, WatchIs
      <4>2. CASE x # w
        <5>1. x \in live' /\ task'[x] = task[x]
          BY <1>1, <3>4, <4>1, <4>2
        <5> QED  BY <3>4, <5>1 DEF Covered, Entry, Registry, Working, session
      <4>3. CASE x = w /\ w \notin live'
        BY <1>1, <3>4, <4>1, <4>3 DEF Covered, session
      <4>4. CASE x = w /\ w \in live'
        <5>1. Working(w)' \/ task'[w] \in {"dying", "read"}
          BY <1>1, <3>4, <4>1, <4>4 DEF Working
        <5> QED  BY <3>4, <4>1, <4>4, <5>1 DEF Covered, Entry, Registry, session
      <4> QED  BY <4>2, <4>3, <4>4
    <3>5. u \in dirty \cup out => Covered(u)'
      BY <3>2 DEF Covered
    <3>6. \/ \E x \in live : on[x] = u /\ of[x] = stream
                             /\ (Working(x) \/ task[x] \in {"dying", "read"})
          \/ \E x \in Watch : on[x] = u /\ of[x] = stream /\ task[x] = "evicted"
          \/ u \in dirty \cup out
      BY <3>1 DEF Covered, Entry, Registry
    <3>7. Covered(u)'
      BY <3>3, <3>4, <3>5, <3>6
    <3> QED  BY <3>7 DEF ToldIs
  <2> QED  BY <2>1, <2>2
<1>9. \A x, y \in live' : on'[x] = on'[y] => x = y
  BY DEF Inv, WatchesOwned
<1> QED  BY <1>2, <1>3, <1>4, <1>5, <1>6, <1>7, <1>8, <1>9 DEF Inv, WatchesOwned

LEMMA TaskStep ==
    ASSUME Inv, NEW w \in Watch, Calling(w) \/ Change(w) \/ Die(w)
    PROVE  Inv'
<1>1. /\ on[w] \in Uri /\ dirty \in SUBSET Uri /\ unread \in SUBSET Uri /\ wake \in BOOLEAN
      /\ WatchIs(w) /\ WatchesOwned
  BY DEF Inv, WatchesOwned, TypeOK
<1>2. CASE Changed(w)
  <2>1. Moved(w) /\ task[w] = "changed" /\ task'[w] = "running"
    BY <1>2, MovesMoved DEF Changed
  <2> QED  BY <1>1, <1>2, <2>1, WatchStep DEF Changed, Wake, Working, WatchIs, session, client
<1>3. CASE ReadGeneration(w)
  <2>1. Moved(w) /\ task[w] = "dying" /\ task'[w] = (IF w \in known THEN "read" ELSE "gone")
    BY <1>3, MovesMoved DEF ReadGeneration
  <2> QED  BY <1>1, <1>3, <2>1, WatchStep DEF ReadGeneration, Working, WatchIs, sending, client
<1>4. CASE Evict(w)
  <2>1. Moved(w) /\ task[w] = "read" /\ task'[w] = (IF w \in live THEN "evicted" ELSE "gone")
    BY <1>4, MovesMoved DEF Evict
  <2> QED  BY <1>1, <1>4, <2>1, WatchStep DEF Evict, Working, WatchIs, sending, client
<1>5. CASE MarkDead(w)
  <2>1. Moved(w) /\ task[w] = "evicted" /\ task'[w] = "marked"
    BY <1>5, MovesMoved DEF MarkDead
  <2> QED  BY <1>1, <1>5, <2>1, WatchStep DEF MarkDead, Mark, Working, WatchIs, client
<1>6. CASE WakeDead(w)
  <2>1. Moved(w) /\ task[w] = "marked" /\ task'[w] = "gone"
    BY <1>6, MovesMoved DEF WakeDead
  <2> QED  BY <1>1, <1>6, <2>1, WatchStep DEF WakeDead, Wake, Working, WatchIs, client
<1>7. CASE Stop(w)
  <2>1. Moved(w) /\ task[w] = "running" /\ task'[w] = "gone"
    BY <1>7, MovesMoved DEF Stop
  <2> QED  BY <1>1, <1>7, <2>1, WatchStep DEF Stop, Working, WatchIs, sending, client
<1>8. CASE Change(w)
  <2>1. Moved(w) /\ task[w] = "running" /\ task'[w] = "changed"
    BY <1>8, MovesMoved DEF Change
  <2> QED  BY <1>1, <1>8, <2>1, WatchStep DEF Change, Mark, Working, WatchIs
<1>9. CASE Die(w)
  <2>1. Moved(w) /\ task[w] = "running" /\ task'[w] = "dying"
    BY <1>9, MovesMoved DEF Die
  <2> QED  BY <1>1, <1>9, <2>1, WatchStep DEF Die, Working, WatchIs, sending, client
<1> QED  BY <1>2, <1>3, <1>4, <1>5, <1>6, <1>7, <1>8, <1>9 DEF Calling

LEMMA StepInv == Inv /\ [Next]_vars => Inv'
<1> SUFFICES ASSUME Inv, [Next]_vars PROVE Inv'
  OBVIOUS
<1>1. CASE UNCHANGED vars
  <2>1. WatchesOwned' /\ RequestIs' /\ SendingIs' /\ \A w \in Watch : WatchIs(w)'
    BY <1>1 DEF Inv, WatchesOwned, TypeOK, RequestIs, SendingIs, WatchIs, Registry, Working,
                vars, session, watches, sending, client
  <2>2. \A u \in told' : ToldIs(u)'
    BY <1>1 DEF Inv, ToldIs, Covered, Entry, Registry, Working, vars, session, watches,
                sending, client
  <2> QED  BY <2>1, <2>2 DEF Inv
<1>2. CASE Handling
  BY <1>2, StillbornStep, CommitStep, InsertStep, RefuseStep, RecordStep, DiedStep, AcceptStep
     DEF Handling
<1> QED  BY <1>1, <1>2, StreamStep, SendStep, SubscribeStep, UnsubscribeStep, TaskStep DEF Next

\* No client waits for a watch that is not there, and no watch runs for nobody.
THEOREM WatchesAreMatched == Spec => []WatchesMatch
<1>1. Spec => []Inv
  BY InitInv, StepInv, PTL DEF Spec
<1> QED  BY <1>1, InvMatch, PTL

\* A working watch of a client that stays subscribed leaves the registry only
\* for a newer watch of its URI or with its stream: a request that fails leaves
\* the subscription before it alone (stdio.rs insert, remove_if).
THEOREM PriorIsKept == Spec => PriorKept
<1> DEFINE Kept == \A w \in Registry(stream) :
              Working(w) /\ on[w] \in told' /\ stream' = stream =>
               \/ w \in live'
               \/ request = "checked" /\ asked \in live' /\ on[asked] = on[w]
<1>1. Inv /\ [Next]_vars => [Kept]_vars
  <2> SUFFICES ASSUME Inv, Next, NEW w \in live, of[w] = stream, Working(w), w \notin live',
                      on[w] \in told', stream' = stream
               PROVE  request = "checked" /\ asked \in live' /\ on[asked] = on[w]
    BY DEF Registry
  <2>1. CASE Install \/ EndStream
    BY <2>1 DEF Install, EndStream, Inv, WatchesOwned, TypeOK, NoStream
  <2>2. CASE Sending
    BY <2>2 DEF Sending, Woken, Take, Notify
  <2>3. ASSUME NEW u \in Uri, Subscribe(u) \/ Unsubscribe(u) PROVE FALSE
    BY <2>3 DEF Subscribe, Unsubscribe, Answer, Entry, Registry
  <2>4. ASSUME NEW x \in Watch, Calling(x) \/ Change(x) \/ Die(x) PROVE FALSE
    BY <2>4 DEF Calling, Change, Changed, Die, ReadGeneration, Evict, MarkDead, WakeDead, Stop,
                Moves, Working
  <2>5. CASE Handling
    <3>1. CASE Stillborn \/ Commit \/ Record \/ Accept \/ Died
      BY <3>1 DEF Stillborn, Commit, Record, Accept, Died, Answer
    <3>2. CASE Insert
      BY <3>2, CountedIs DEF Insert, Without, Entry, Registry, Working
    <3>3. CASE Refuse
      BY <3>3, CountedIs DEF Refuse, Full, Without, Entry, Registry, Working
    <3> QED  BY <2>5, <3>1, <3>2, <3>3 DEF Handling
  <2> QED  BY <2>1, <2>2, <2>3, <2>4, <2>5 DEF Next
<1>2. Spec => []Inv
  BY InitInv, StepInv, PTL DEF Spec
<1> QED  BY <1>1, <1>2, PTL DEF Spec, PriorKept
=============================================================================
