--------------------------- MODULE ClientCacheProofs ---------------------------
(***************************************************************************)
(* A client that was dropped does not come back, a discovery under a reset *)
(* is not kept, and a reset disturbs no context but its own: for any       *)
(* callers, contexts, invalidations and clears.  The generations a call    *)
(* has read never pass the cache's, so while they are equal no reset of    *)
(* its context came in between.                                            *)
(***************************************************************************)
EXTENDS ClientCache, FiniteSetTheorems, TLAPS

\* The cache's generations are those, as both atomics at once would say.
Current(c, was) == generation = was.gen /\ ctxGen[c] = was.ctx

HasSeen(p) == call[p].at \in {"lookup", "build", "insert", "again", "global", "store"}
HasOuter(p) == call[p].want = "discovery" /\ call[p].at \notin {"idle", "outer"}

\* Where a call is says what it wants and what it holds.
Placed(p) ==
    /\ call[p].at \in {"outer", "get", "list", "index", "reagain", "reglobal", "keep"} =>
          call[p].want = "discovery"
    /\ call[p].at \in {"again", "global", "store"} => lock = p
    /\ call[p].at \in {"reagain", "reglobal", "keep"} => dlock = p

\* What a call has read is never ahead of the cache.
Behind(p) ==
    /\ call[p].at # "idle" =>
          call[p].seen.gen <= generation /\ call[p].outer.gen <= generation
    /\ call[p].on \notin emptied =>
          /\ HasSeen(p) => call[p].seen.ctx <= ctxGen[call[p].on]
          /\ HasOuter(p) => call[p].outer.ctx <= ctxGen[call[p].on]

\* While the generations are what a call has read, no reset has passed it by.
Fresh(p) ==
    call[p].on \notin emptied =>
        /\ call[p].at \in {"insert", "again"} /\ Current(call[p].on, call[p].seen) =>
              call[p].got >= last[call[p].on]
        /\ HasOuter(p) /\ Current(call[p].on, call[p].outer) =>
              call[p].since >= last[call[p].on]

\* What a call has found again, and may find yet, is `was`.
Agrees(p, was) ==
    /\ call[p].now.ctx = was.ctx
    /\ call[p].at \in {"global", "reglobal"} => generation = was.gen
    /\ call[p].at \in {"store", "keep"} => call[p].now.gen = was.gen

\* A client that passes the check is older than no reset that has dropped the
\* clients; one that has not waits for the mutex the call holds.  An index that
\* passes is older than none but those that wait for discovery's.
Passed(p) ==
    call[p].on \notin emptied =>
        /\ call[p].at \in {"global", "store"} /\ Agrees(p, call[p].seen) =>
              /\ call[p].got >= floor[call[p].on]
              /\ \A r \in Resetter :
                    reset[r].at = "discovery" /\ call[p].on \in reset[r].of =>
                       call[p].got >= reset[r].mark
        /\ call[p].at \in {"reglobal", "keep"} /\ Agrees(p, call[p].outer) =>
              call[p].since >= last[call[p].on] \/ ToBeDropped(call[p].on)

\* Beside a quiet call nothing it has read was changed.
Undisturbed(p) ==
    call[p].quiet =>
        /\ call[p].at # "idle"
        /\ \A r \in Resetter : call[p].on \notin reset[r].of
        /\ call[p].seen.gen = generation /\ call[p].outer.gen = generation
        /\ HasSeen(p) => call[p].seen.ctx = ctxGen[call[p].on]
        /\ HasOuter(p) => call[p].outer.ctx = ctxGen[call[p].on]
        /\ call[p].at \in {"global", "store"} => Agrees(p, call[p].seen)
        /\ call[p].at \in {"reglobal", "keep"} => Agrees(p, call[p].outer)

\* A reset raises its contexts' generations, then drops what is cached for them.
Resetting(r) ==
    /\ reset[r].mark <= begun
    /\ reset[r].at \in {"bump", "contexts"} => reset[r].of = Context
    /\ reset[r].at \in {"contexts", "clients", "discovery"} =>
          \A c \in reset[r].of : last[c] >= reset[r].mark
    /\ reset[r].at = "discovery" =>
          \A c \in reset[r].of \ emptied :
             clients[c] = Absent \/ clients[c] >= reset[r].mark

Bumping == {r \in Resetter : reset[r].at = "bump"}

\* No generation is raised more often than resets have begun.
Counted ==
    /\ \A c \in Context : floor[c] <= last[c] /\ last[c] <= begun /\ ctxGen[c] < begun
    /\ IsFiniteSet(Bumping)
    /\ generation + Cardinality(Bumping) < begun

Inv ==
    /\ TypeOK /\ Counted
    /\ \A p \in Caller : Placed(p) /\ Behind(p) /\ Fresh(p) /\ Undisturbed(p) /\ Passed(p)
    /\ \A r \in Resetter : Resetting(r)
    /\ StaleOnlyBesideClear

-------------------------------------------------------------------------------
(* Types.                                                                  *)

LEMMA Idle ==
    /\ IdleCall \in Call /\ IdleReset \in Reset
    /\ IdleCall.at = "idle" /\ IdleCall.want = "client" /\ IdleCall.quiet = FALSE
    /\ IdleReset.at = "idle" /\ IdleReset.of = {} /\ IdleReset.mark = 1
<1>1. (CHOOSE c \in Context : TRUE) \in Context
  BY CacheAssumption
<1>2. 1 \in Stamp /\ 0 \in 0..MaxResets
  BY CacheAssumption DEF Stamp
<1> QED
  BY <1>1, <1>2 DEF IdleCall, Call, IdleReset, Reset, Generations, NoGenerations, Absent

LEMMA Numbers ==
    ASSUME TypeOK
    PROVE  /\ generation \in Nat /\ begun \in Nat /\ MaxResets \in Nat
           /\ \A c \in Context : /\ ctxGen[c] \in Nat
                                 /\ last[c] \in Nat /\ last[c] >= 1
                                 /\ floor[c] \in Nat /\ floor[c] >= 1
BY CacheAssumption DEF TypeOK, Stamp

\* A call's own part of a step.
LEMMA CallType ==
    ASSUME TypeOK, NEW p \in Caller
    PROVE  /\ call[p] \in Call /\ call[p].on \in Context
           /\ call[p].seen \in Generations /\ call[p].outer \in Generations
           /\ call[p].now \in Generations
           /\ call[p].since \in Stamp /\ call[p].got \in Stamp \cup {Absent}
           /\ call[p].seen.gen \in Nat /\ call[p].seen.ctx \in Nat
           /\ call[p].outer.gen \in Nat /\ call[p].outer.ctx \in Nat
           /\ call[p].since \in Nat /\ call[p].got \in Nat
           /\ call[p].want \in {"client", "discovery"} /\ call[p].quiet \in BOOLEAN
BY CacheAssumption DEF TypeOK, Call, Generations, Stamp, Absent

Place == {"idle", "context", "lookup", "build", "insert", "again", "global", "store",
          "outer", "get", "list", "index", "reagain", "reglobal", "keep"}

\* A step of p leaves the other calls alone, and makes `new` of its own.
Becomes(p, new) ==
    /\ new \in Call /\ call'[p] = new
    /\ call' \in [Caller -> Call]
    /\ \A q \in Caller \ {p} : call'[q] = call[q]

LEMMA Become ==
    ASSUME TypeOK, NEW p \in Caller, NEW new \in Call, call' = [call EXCEPT ![p] = new]
    PROVE  Becomes(p, new)
BY DEF TypeOK, Becomes

\* A call that moves on stays one.
LEMMA Moved ==
    ASSUME NEW r \in Call, NEW at \in Place
    PROVE  /\ [r EXCEPT !.at = at] \in Call
           /\ \A g \in 0..MaxResets :
                 /\ [r EXCEPT !.at = at, !.seen.gen = g] \in Call
                 /\ [r EXCEPT !.at = at, !.seen.ctx = g] \in Call
                 /\ [r EXCEPT !.at = at, !.now.gen = g] \in Call
                 /\ [r EXCEPT !.at = at, !.now.ctx = g] \in Call
                 /\ \A b \in Stamp : [r EXCEPT !.at = at, !.outer.ctx = g, !.since = b] \in Call
           /\ \A b \in Stamp \cup {Absent} : [r EXCEPT !.at = at, !.got = b] \in Call
<1>1. /\ [r EXCEPT !.at = at] \in Call
      /\ \A b \in Stamp \cup {Absent} : [r EXCEPT !.at = at, !.got = b] \in Call
  BY DEF Call, Place
<1>2. ASSUME NEW g \in 0..MaxResets
      PROVE  /\ [r EXCEPT !.at = at, !.seen.gen = g] \in Call
             /\ [r EXCEPT !.at = at, !.seen.ctx = g] \in Call
  <2>1. [r.seen EXCEPT !.gen = g] \in Generations /\ [r.seen EXCEPT !.ctx = g] \in Generations
    BY DEF Call, Generations
  <2>2. /\ [r EXCEPT !.at = at, !.seen = [r.seen EXCEPT !.gen = g]] \in Call
        /\ [r EXCEPT !.at = at, !.seen = [r.seen EXCEPT !.ctx = g]] \in Call
    BY <2>1 DEF Call, Place
  <2> QED  BY <2>1, <2>2 DEF Call
<1>3. ASSUME NEW g \in 0..MaxResets, NEW b \in Stamp
      PROVE  [r EXCEPT !.at = at, !.outer.ctx = g, !.since = b] \in Call
  <2>1. [r.outer EXCEPT !.ctx = g] \in Generations
    BY DEF Call, Generations
  <2>2. [r EXCEPT !.at = at, !.outer = [r.outer EXCEPT !.ctx = g], !.since = b] \in Call
    BY <2>1 DEF Call, Place
  <2> QED  BY <2>1, <2>2 DEF Call
<1>4. ASSUME NEW g \in 0..MaxResets
      PROVE  /\ [r EXCEPT !.at = at, !.now.gen = g] \in Call
             /\ [r EXCEPT !.at = at, !.now.ctx = g] \in Call
  <2>1. [r.now EXCEPT !.gen = g] \in Generations /\ [r.now EXCEPT !.ctx = g] \in Generations
    BY DEF Call, Generations
  <2>2. /\ [r EXCEPT !.at = at, !.now = [r.now EXCEPT !.gen = g]] \in Call
        /\ [r EXCEPT !.at = at, !.now = [r.now EXCEPT !.ctx = g]] \in Call
    BY <2>1 DEF Call, Place
  <2> QED  BY <2>1, <2>2 DEF Call
<1> QED  BY <1>1, <1>2, <1>3, <1>4

LEMMA AnswerIs ==
    ASSUME TypeOK, NEW p \in Caller, NEW client \in Stamp \cup {Absent}, Answer(p, client)
    PROVE  Becomes(p, IF call[p].want = "discovery"
                      THEN [call[p] EXCEPT !.at = "list", !.got = client]
                      ELSE IdleCall)
<1>1. [call[p] EXCEPT !.at = "list", !.got = client] \in Call
  BY CallType, Moved DEF Place
<1> QED  BY <1>1, Idle, Become DEF Answer

\* What each step makes of its call.
LEMMA StartIs ==
    ASSUME TypeOK, NEW p \in Caller, NEW c \in Context, NEW what \in {"client", "discovery"},
           NEW place \in {"context", "outer"}, Start(p, c, what, place)
    PROVE  \E new \in Call :
              /\ Becomes(p, new)
              /\ new.at = place /\ new.on = c /\ new.want = what
              /\ new.seen.gen = generation /\ new.outer.gen = generation
              /\ new.quiet => \A r \in Resetter : c \notin reset[r].of
<1> DEFINE q0 == \A r \in Resetter : c \notin reset[r].of
           new == [IdleCall EXCEPT
                     !.at = place, !.on = c, !.want = what,
                     !.seen.gen = generation, !.outer.gen = generation,
                     !.quiet = q0]
<1>1. call' = [call EXCEPT ![p] = new]
  BY DEF Start
<1>2. q0 \in BOOLEAN
  OBVIOUS
<1> HIDE DEF q0
<1>3. /\ new.at = place /\ new.on = c /\ new.want = what
      /\ new.seen.gen = generation /\ new.outer.gen = generation /\ new.quiet = q0
  BY DEF IdleCall, NoGenerations
<1>4. /\ [IdleCall.seen EXCEPT !.gen = generation] \in Generations
      /\ [IdleCall.outer EXCEPT !.gen = generation] \in Generations
  BY Idle DEF Call, Generations, TypeOK
<1>5. new \in Call
  <2>1. [IdleCall EXCEPT !.at = place, !.on = c, !.want = what,
            !.seen = [IdleCall.seen EXCEPT !.gen = generation],
            !.outer = [IdleCall.outer EXCEPT !.gen = generation],
            !.quiet = q0] \in Call
    BY <1>2, <1>4, Idle DEF Call
  <2> QED  BY <2>1, Idle DEF Call
<1>6. Becomes(p, new)
  BY <1>1, <1>5, Become
<1> HIDE DEF new
<1> QED  BY <1>3, <1>5, <1>6 DEF q0

LEMMA ReadIs ==
    ASSUME TypeOK, NEW p \in Caller
    PROVE  /\ LoadGeneration(p) =>
                 Becomes(p, [call[p] EXCEPT !.at = "context", !.seen.gen = generation])
           /\ ContextGeneration(p) =>
                 Becomes(p, [call[p] EXCEPT !.at = "lookup", !.seen.ctx = ctxGen[call[p].on]])
           /\ OuterGeneration(p) =>
                 Becomes(p, [call[p] EXCEPT !.at = "get", !.outer.ctx = ctxGen[call[p].on],
                                            !.since = begun])
           /\ ReadContext(p) =>
                 Becomes(p, [call[p] EXCEPT
                               !.at = IF call[p].at = "again" THEN "global" ELSE "reglobal",
                               !.now.ctx = ctxGen[call[p].on]])
           /\ ReadGlobal(p) =>
                 Becomes(p, [call[p] EXCEPT
                               !.at = IF call[p].at = "global" THEN "store" ELSE "keep",
                               !.now.gen = generation])
<1>1. /\ call[p] \in Call /\ generation \in 0..MaxResets /\ ctxGen[call[p].on] \in 0..MaxResets
      /\ begun \in Stamp
  BY CallType DEF TypeOK
<1>2. /\ [call[p] EXCEPT !.at = "context", !.seen.gen = generation] \in Call
      /\ [call[p] EXCEPT !.at = "lookup", !.seen.ctx = ctxGen[call[p].on]] \in Call
      /\ [call[p] EXCEPT !.at = "get", !.outer.ctx = ctxGen[call[p].on], !.since = begun] \in Call
  BY <1>1, Moved DEF Place
<1>3. LoadGeneration(p) =>
        call' = [call EXCEPT ![p] = [call[p] EXCEPT !.at = "context", !.seen.gen = generation]]
  BY DEF LoadGeneration, TypeOK
<1>4. ContextGeneration(p) =>
        call' = [call EXCEPT ![p] =
                   [call[p] EXCEPT !.at = "lookup", !.seen.ctx = ctxGen[call[p].on]]]
  BY DEF ContextGeneration, TypeOK
<1>5. OuterGeneration(p) =>
        call' = [call EXCEPT ![p] = [call[p] EXCEPT !.at = "get",
                                       !.outer.ctx = ctxGen[call[p].on], !.since = begun]]
  BY DEF OuterGeneration, TypeOK
<1>6. ASSUME ReadContext(p)
      PROVE  Becomes(p, [call[p] EXCEPT
                           !.at = IF call[p].at = "again" THEN "global" ELSE "reglobal",
                           !.now.ctx = ctxGen[call[p].on]])
  <2>1. PICK at \in Place : at = IF call[p].at = "again" THEN "global" ELSE "reglobal"
    BY DEF Place
  <2>2. call' = [call EXCEPT ![p] = [call[p] EXCEPT !.at = at, !.now.ctx = ctxGen[call[p].on]]]
    BY <1>6, <2>1 DEF ReadContext, TypeOK
  <2>3. [call[p] EXCEPT !.at = at, !.now.ctx = ctxGen[call[p].on]] \in Call
    BY <1>1, Moved
  <2> QED  BY <2>1, <2>2, <2>3, Become
<1>7. ASSUME ReadGlobal(p)
      PROVE  Becomes(p, [call[p] EXCEPT
                           !.at = IF call[p].at = "global" THEN "store" ELSE "keep",
                           !.now.gen = generation])
  <2>1. PICK at \in Place : at = IF call[p].at = "global" THEN "store" ELSE "keep"
    BY DEF Place
  <2>2. call' = [call EXCEPT ![p] = [call[p] EXCEPT !.at = at, !.now.gen = generation]]
    BY <1>7, <2>1 DEF ReadGlobal, TypeOK
  <2>3. [call[p] EXCEPT !.at = at, !.now.gen = generation] \in Call
    BY <1>1, Moved
  <2> QED  BY <2>1, <2>2, <2>3, Become
<1> QED  BY <1>2, <1>3, <1>4, <1>5, <1>6, <1>7, Become

LEMMA MoveIs ==
    ASSUME TypeOK, NEW p \in Caller
    PROVE  /\ Miss(p) => Becomes(p, [call[p] EXCEPT !.at = "build"])
           /\ Build(p) => Becomes(p, [call[p] EXCEPT !.at = "insert", !.got = begun])
           /\ LockClients(p) => Becomes(p, [call[p] EXCEPT !.at = "again"])
           /\ List(p) => Becomes(p, [call[p] EXCEPT !.at = "index"])
           /\ LockDiscovery(p) => Becomes(p, [call[p] EXCEPT !.at = "reagain"])
           /\ Fails(p) \/ Keep(p) => Becomes(p, IdleCall)
<1>1. call[p] \in Call /\ begun \in Stamp \cup {Absent}
  BY CallType DEF TypeOK
<1>2. /\ \A at \in Place : [call[p] EXCEPT !.at = at] \in Call
      /\ [call[p] EXCEPT !.at = "insert", !.got = begun] \in Call
  BY <1>1, Moved DEF Place
<1>3. \A at \in Place : call' = [call EXCEPT ![p].at = at] =>
         Becomes(p, [call[p] EXCEPT !.at = at])
  <2>1. \A at \in Place : [call EXCEPT ![p].at = at] =
                          [call EXCEPT ![p] = [call[p] EXCEPT !.at = at]]
    BY DEF TypeOK
  <2> QED  BY <1>2, <2>1, Become
<1>4. Build(p) => call' = [call EXCEPT ![p] = [call[p] EXCEPT !.at = "insert", !.got = begun]]
  BY DEF Build, TypeOK
<1> QED
  BY <1>2, <1>3, <1>4, Become, Idle
  DEF Miss, Build, LockClients, List, LockDiscovery, Fails, Keep, Place

\* A step of a call keeps the types, and is its own.
LEMMA CallerType ==
    ASSUME TypeOK, NEW p \in Caller, CallerStep(p)
    PROVE  /\ TypeOK'
           /\ \A q \in Caller \ {p} : call'[q] = call[q]
           /\ UNCHANGED <<generation, ctxGen, reset, stampVars>>
<1> DEFINE Mine == call' \in [Caller -> Call] /\ \A q \in Caller \ {p} : call'[q] = call[q]
           Rest == UNCHANGED <<generation, ctxGen, reset, stampVars>>
           Caches == /\ clients' \in [Context -> Stamp \cup {Absent}]
                     /\ discovery' \in [Context -> Stamp \cup {Absent}]
                     /\ lock' \in Caller \cup {Free} /\ dlock' \in Caller \cup {Free}
<1>1. Mine
  <2>1. ASSUME NEW c \in Context, StartGet(p, c) \/ StartDiscovery(p, c)
        PROVE  Mine
    BY <2>1, StartIs DEF StartGet, StartDiscovery, Becomes
  <2>2. CASE Hit(p) \/ Store(p)
    <3>1. call[p].got \in Stamp \cup {Absent} /\ clients[call[p].on] \in Stamp \cup {Absent}
      BY CallType DEF TypeOK
    <3> QED  BY <2>2, <3>1, AnswerIs DEF Hit, Store, Becomes
  <2> QED  BY <2>1, <2>2, ReadIs, MoveIs DEF CallerStep, Becomes
<1>2. Caches
  <2>1. call[p].got \in Stamp \cup {Absent} /\ call[p].on \in Context
    BY CallType
  <2> QED
    BY <2>1 DEF CallerStep, StartGet, StartDiscovery, Start, LoadGeneration, ContextGeneration,
       Hit, Miss, Build, Fails, LockClients, ReadContext, ReadGlobal, Store,
     OuterGeneration, List, LockDiscovery, Keep,
       cacheVars, lockVars, TypeOK
<1>3. Rest
  BY DEF CallerStep, StartGet, StartDiscovery, Start, LoadGeneration, ContextGeneration,
     Hit, Miss, Build, Fails, LockClients, ReadContext, ReadGlobal, Store,
     OuterGeneration, List, LockDiscovery, Keep,
     cacheVars, lockVars, TypeOK
<1> QED  BY <1>1, <1>2, <1>3 DEF TypeOK, stampVars

-------------------------------------------------------------------------------
(* A step of a call.                                                       *)

Kept(p) == Placed(p) /\ Behind(p) /\ Fresh(p) /\ Undisturbed(p)

LEMMA CallerKeepsCalls ==
    ASSUME Inv, NEW p \in Caller, CallerStep(p), NEW q \in Caller
    PROVE  Kept(q)'
<1> USE DEF Kept, Placed, Behind, Fresh, Undisturbed, HasSeen, HasOuter, Agrees
<1>1. /\ TypeOK /\ TypeOK' /\ Kept(p) /\ Kept(q) /\ Counted
      /\ UNCHANGED <<generation, ctxGen, reset, begun, last, floor, emptied>>
      /\ \A u \in Caller \ {p} : call'[u] = call[u]
  BY CallerType DEF Inv, stampVars
<1>2. /\ lock' = lock \/ (LockClients(p) /\ lock = Free /\ lock' = p) \/ (Store(p) /\ lock' = Free)
      /\ dlock' = dlock \/ (LockDiscovery(p) /\ dlock = Free /\ dlock' = p) \/ (Keep(p) /\ dlock' = Free)
  BY DEF CallerStep, StartGet, StartDiscovery, Start, LoadGeneration, ContextGeneration,
     Hit, Miss, Build, Fails, LockClients, ReadContext, ReadGlobal, Store,
     OuterGeneration, List, LockDiscovery, Keep,
     lockVars
<1>3. CASE q # p
  <2>1. call'[q] = call[q]
    BY <1>1, <1>3
  <2>2. Placed(q)'
    BY <1>1, <1>2, <1>3, <2>1, CacheAssumption DEF Keep, Store
  <2>3. Behind(q)' /\ Fresh(q)'
    BY <1>1, <2>1 DEF Current
  <2>4. Undisturbed(q)'
    BY <1>1, <2>1
  <2> QED  BY <2>2, <2>3, <2>4
<1>4. ASSUME NEW c \in Context, StartGet(p, c) \/ StartDiscovery(p, c)
      PROVE  Kept(p)'
  <2>1. PICK new \in Call :
           /\ Becomes(p, new) /\ new.on = c
           /\ \/ new.at = "context" /\ new.want = "client"
              \/ new.at = "outer" /\ new.want = "discovery"
           /\ new.seen.gen = generation /\ new.outer.gen = generation
           /\ new.quiet => \A r \in Resetter : c \notin reset[r].of
    BY <1>1, <1>4, StartIs DEF StartGet, StartDiscovery
  <2>2. call'[p] = new
    BY <2>1 DEF Becomes
  <2>3. generation \in Nat
    BY <1>1, Numbers
  <2> QED  BY <1>1, <2>1, <2>2, <2>3
<1>5. ASSUME LoadGeneration(p)
      PROVE  Kept(p)'
  <2>1. call[p].at = "get" /\ call'[p] = [call[p] EXCEPT !.at = "context", !.seen.gen = generation]
    BY <1>1, <1>5, ReadIs DEF LoadGeneration, Becomes
  <2>2. /\ call'[p].at = "context" /\ call'[p].on = call[p].on /\ call'[p].want = call[p].want
        /\ call'[p].seen.gen = generation /\ call'[p].outer = call[p].outer
        /\ call'[p].since = call[p].since /\ call'[p].quiet = call[p].quiet
    BY <1>1, <2>1, CallType DEF Call, Generations
  <2>3. generation \in Nat
    BY <1>1, Numbers
  <2> QED  BY <1>1, <2>1, <2>2, <2>3 DEF Current
<1>6. ASSUME ContextGeneration(p)
      PROVE  Kept(p)'
  <2>1. /\ call[p].at = "context"
        /\ call'[p] = [call[p] EXCEPT !.at = "lookup", !.seen.ctx = ctxGen[call[p].on]]
    BY <1>1, <1>6, ReadIs DEF ContextGeneration, Becomes
  <2>2. /\ call'[p].at = "lookup" /\ call'[p].on = call[p].on /\ call'[p].want = call[p].want
        /\ call'[p].seen.gen = call[p].seen.gen /\ call'[p].seen.ctx = ctxGen[call[p].on]
        /\ call'[p].outer = call[p].outer
        /\ call'[p].since = call[p].since /\ call'[p].quiet = call[p].quiet
    BY <1>1, <2>1, CallType DEF Call, Generations
  <2>3. ctxGen[call[p].on] \in Nat
    BY <1>1, Numbers, CallType
  <2> QED  BY <1>1, <2>1, <2>2, <2>3 DEF Current
<1>7. ASSUME OuterGeneration(p)
      PROVE  Kept(p)'
  <2>1. /\ call[p].at = "outer"
        /\ call'[p] = [call[p] EXCEPT !.at = "get", !.outer.ctx = ctxGen[call[p].on],
                                      !.since = begun]
    BY <1>1, <1>7, ReadIs DEF OuterGeneration, Becomes
  <2>2. /\ call'[p].at = "get" /\ call'[p].on = call[p].on /\ call'[p].want = call[p].want
        /\ call'[p].seen = call[p].seen /\ call'[p].outer.gen = call[p].outer.gen
        /\ call'[p].outer.ctx = ctxGen[call[p].on]
        /\ call'[p].since = begun /\ call'[p].quiet = call[p].quiet
    BY <1>1, <2>1, CallType DEF Call, Generations
  <2>3. ctxGen[call[p].on] \in Nat /\ last[call[p].on] <= begun
    BY <1>1, Numbers, CallType DEF Counted
  <2> QED  BY <1>1, <2>1, <2>2, <2>3 DEF Current
<1>8. ASSUME Build(p)
      PROVE  Kept(p)'
  <2>1. call[p].at = "build" /\ call'[p] = [call[p] EXCEPT !.at = "insert", !.got = begun]
    BY <1>1, <1>8, MoveIs DEF Build, Becomes
  <2>2. /\ call'[p].at = "insert" /\ call'[p].on = call[p].on /\ call'[p].want = call[p].want
        /\ call'[p].seen = call[p].seen /\ call'[p].outer = call[p].outer
        /\ call'[p].got = begun
        /\ call'[p].since = call[p].since /\ call'[p].quiet = call[p].quiet
    BY <1>1, <2>1, CallType DEF Call
  <2>3. last[call[p].on] <= begun
    BY <1>1, CallType DEF Counted
  <2> QED  BY <1>1, <2>1, <2>2, <2>3 DEF Current
<1>9. ASSUME Miss(p) \/ LockClients(p) \/ List(p) \/ LockDiscovery(p)
      PROVE  Kept(p)'
  <2>1. PICK at \in Place :
           /\ call'[p] = [call[p] EXCEPT !.at = at]
           /\ \/ call[p].at = "lookup" /\ at = "build"
              \/ call[p].at = "insert" /\ at = "again" /\ lock' = p
              \/ call[p].at = "list" /\ at = "index"
              \/ call[p].at = "index" /\ at = "reagain" /\ dlock' = p
    BY <1>1, <1>9, MoveIs DEF Miss, LockClients, List, LockDiscovery, Becomes, Place
  <2>2. /\ call'[p].at = at /\ call'[p].on = call[p].on /\ call'[p].want = call[p].want
        /\ call'[p].seen = call[p].seen /\ call'[p].outer = call[p].outer
        /\ call'[p].got = call[p].got
        /\ call'[p].since = call[p].since /\ call'[p].quiet = call[p].quiet
    BY <1>1, <2>1, CallType DEF Call
  <2>3. Placed(p)'
    BY <1>1, <2>1, <2>2
  <2>4. Behind(p)'
    BY <1>1, <2>1, <2>2
  <2>5. Fresh(p)'
    BY <1>1, <2>1, <2>2 DEF Current
  <2>6. Undisturbed(p)'
    BY <1>1, <2>1, <2>2
  <2> QED  BY <2>3, <2>4, <2>5, <2>6
<1>10. ASSUME Hit(p) \/ Store(p)
      PROVE  Kept(p)'
  <2>1. PICK b \in Stamp \cup {Absent} : Answer(p, b)
    BY <1>1, <1>10, CallType DEF Hit, Store, TypeOK
  <2>2. call[p].at \in {"lookup", "store"}
    BY <1>10 DEF Hit, Store
  <2>3. CASE call[p].want = "discovery"
    <3>1. call'[p] = [call[p] EXCEPT !.at = "list", !.got = b]
      BY <1>1, <2>1, <2>3, AnswerIs DEF Becomes
    <3>2. /\ call'[p].at = "list" /\ call'[p].on = call[p].on /\ call'[p].want = call[p].want
          /\ call'[p].seen = call[p].seen /\ call'[p].outer = call[p].outer
          /\ call'[p].since = call[p].since /\ call'[p].quiet = call[p].quiet
      BY <1>1, <3>1, CallType DEF Call
    <3> QED  BY <1>1, <2>2, <2>3, <3>2 DEF Current
  <2>4. CASE call[p].want # "discovery"
    <3>1. call'[p] = IdleCall
      BY <1>1, <2>1, <2>4, AnswerIs DEF Becomes
    <3> QED  BY <3>1, Idle
  <2> QED  BY <2>3, <2>4
<1>11. ASSUME Fails(p) \/ Keep(p)
      PROVE  Kept(p)'
  <2>1. call'[p] = IdleCall
    BY <1>1, <1>11, MoveIs DEF Becomes
  <2> QED  BY <2>1, Idle
<1>12. ASSUME ReadContext(p)
      PROVE  Kept(p)'
  <2>1. PICK at \in Place :
           /\ call'[p] = [call[p] EXCEPT !.at = at, !.now.ctx = ctxGen[call[p].on]]
           /\ \/ call[p].at = "again" /\ at = "global"
              \/ call[p].at = "reagain" /\ at = "reglobal"
    BY <1>1, <1>12, ReadIs DEF ReadContext, Becomes, Place
  <2>2. /\ call'[p].at = at /\ call'[p].on = call[p].on /\ call'[p].want = call[p].want
        /\ call'[p].seen = call[p].seen /\ call'[p].outer = call[p].outer
        /\ call'[p].now.ctx = ctxGen[call[p].on] /\ call'[p].got = call[p].got
        /\ call'[p].since = call[p].since /\ call'[p].quiet = call[p].quiet
    BY <1>1, <2>1, CallType DEF Call, Generations
  <2>3. lock' = lock /\ dlock' = dlock
    BY <1>12 DEF ReadContext, lockVars
  <2> HIDE DEF Agrees
  <2>4. Placed(p)' /\ Behind(p)'
    BY <1>1, <2>1, <2>2, <2>3
  <2>5. Fresh(p)'
    BY <1>1, <2>1, <2>2 DEF Current
  <2>6. Undisturbed(p)'
    BY <1>1, <2>1, <2>2 DEF Agrees
  <2> QED  BY <2>4, <2>5, <2>6
<1>13. ASSUME ReadGlobal(p)
      PROVE  Kept(p)'
  <2>1. PICK at \in Place :
           /\ call'[p] = [call[p] EXCEPT !.at = at, !.now.gen = generation]
           /\ \/ call[p].at = "global" /\ at = "store"
              \/ call[p].at = "reglobal" /\ at = "keep"
    BY <1>1, <1>13, ReadIs DEF ReadGlobal, Becomes, Place
  <2>2. /\ call'[p].at = at /\ call'[p].on = call[p].on /\ call'[p].want = call[p].want
        /\ call'[p].seen = call[p].seen /\ call'[p].outer = call[p].outer
        /\ call'[p].now.ctx = call[p].now.ctx /\ call'[p].now.gen = generation
        /\ call'[p].got = call[p].got
        /\ call'[p].since = call[p].since /\ call'[p].quiet = call[p].quiet
    BY <1>1, <2>1, CallType DEF Call, Generations
  <2>3. lock' = lock /\ dlock' = dlock
    BY <1>13 DEF ReadGlobal, lockVars
  <2> HIDE DEF Agrees
  <2>4. Placed(p)' /\ Behind(p)'
    BY <1>1, <2>1, <2>2, <2>3
  <2>5. Fresh(p)'
    BY <1>1, <2>1, <2>2 DEF Current
  <2>6. Undisturbed(p)'
    BY <1>1, <2>1, <2>2 DEF Agrees
  <2> QED  BY <2>4, <2>5, <2>6
<1>14. Kept(p)'
  BY <1>4, <1>5, <1>6, <1>7, <1>8, <1>9, <1>10, <1>11, <1>12, <1>13 DEF CallerStep
<1> QED  BY <1>3, <1>14

\* What has passed the check, or may pass it, is new enough: at the first of the
\* two reads nothing had been reset, and since then the call holds the mutex.
LEMMA CallerKeepsPassed ==
    ASSUME Inv, NEW p \in Caller, CallerStep(p), NEW q \in Caller
    PROVE  Passed(q)'
<1>1. /\ TypeOK /\ TypeOK' /\ Kept(p) /\ Passed(p) /\ Passed(q) /\ Counted
      /\ UNCHANGED <<generation, ctxGen, reset, begun, last, floor, emptied>>
      /\ \A u \in Caller \ {p} : call'[u] = call[u]
  BY CallerType DEF Inv, Kept, stampVars
<1>2. \A c : ToBeDropped(c) => ToBeDropped(c)'
  BY <1>1 DEF ToBeDropped
<1>3. CASE q # p
  <2>1. call'[q] = call[q]
    BY <1>1, <1>3
  <2> QED  BY <1>1, <1>2, <2>1 DEF Passed, Agrees
<1>4. ASSUME ReadContext(p)
      PROVE  Passed(p)'
  <2>1. PICK at \in Place :
           /\ call'[p] = [call[p] EXCEPT !.at = at, !.now.ctx = ctxGen[call[p].on]]
           /\ \/ call[p].at = "again" /\ at = "global"
              \/ call[p].at = "reagain" /\ at = "reglobal"
    BY <1>1, <1>4, ReadIs DEF ReadContext, Becomes, Place
  <2>2. /\ call'[p].at = at /\ call'[p].on = call[p].on /\ call'[p].got = call[p].got
        /\ call'[p].seen = call[p].seen /\ call'[p].outer = call[p].outer
        /\ call'[p].now.ctx = ctxGen[call[p].on] /\ call'[p].since = call[p].since
    BY <1>1, <2>1, CallType DEF Call, Generations
  <2>3. ASSUME call[p].at = "again", call[p].on \notin emptied, Current(call[p].on, call[p].seen)
        PROVE  /\ call[p].got >= floor[call[p].on]
               /\ \A r \in Resetter :
                     reset[r].at = "discovery" /\ call[p].on \in reset[r].of =>
                        call[p].got >= reset[r].mark
    <3>1. /\ call[p].got >= last[call[p].on] /\ call[p].on \in Context
          /\ call[p].got \in Nat /\ last[call[p].on] \in Nat
          /\ floor[call[p].on] \in Nat /\ floor[call[p].on] <= last[call[p].on]
      BY <1>1, <2>3, CallType, Numbers DEF Kept, Fresh, Counted
    <3>2. ASSUME NEW r \in Resetter, reset[r].at = "discovery", call[p].on \in reset[r].of
          PROVE  last[call[p].on] >= reset[r].mark /\ reset[r].mark \in Nat
      BY <1>1, <3>2, CacheAssumption DEF Inv, Resetting, TypeOK, Reset, Stamp
    <3> QED  BY <3>1, <3>2
  <2>4. ASSUME call[p].at = "reagain", call[p].on \notin emptied,
               Current(call[p].on, call[p].outer)
        PROVE  call[p].since >= last[call[p].on]
    BY <1>1, <2>4 DEF Kept, Placed, HasOuter, Fresh
  <2> QED  BY <1>1, <2>1, <2>2, <2>3, <2>4 DEF Passed, Agrees, Current
<1>5. ASSUME ReadGlobal(p)
      PROVE  Passed(p)'
  <2>1. PICK at \in Place :
           /\ call'[p] = [call[p] EXCEPT !.at = at, !.now.gen = generation]
           /\ \/ call[p].at = "global" /\ at = "store"
              \/ call[p].at = "reglobal" /\ at = "keep"
    BY <1>1, <1>5, ReadIs DEF ReadGlobal, Becomes, Place
  <2>2. /\ call'[p].at = at /\ call'[p].on = call[p].on /\ call'[p].got = call[p].got
        /\ call'[p].seen = call[p].seen /\ call'[p].outer = call[p].outer
        /\ call'[p].now.ctx = call[p].now.ctx /\ call'[p].now.gen = generation
        /\ call'[p].since = call[p].since
    BY <1>1, <2>1, CallType DEF Call, Generations
  <2> QED  BY <1>1, <1>2, <2>1, <2>2 DEF Passed, Agrees
<1>6. ASSUME call'[p].at \notin {"global", "store", "reglobal", "keep"}
      PROVE  Passed(p)'
  BY <1>6 DEF Passed
<1>7. \/ ReadContext(p) \/ ReadGlobal(p)
      \/ call'[p].at \notin {"global", "store", "reglobal", "keep"}
  <2>1. ASSUME NEW c \in Context, StartGet(p, c) \/ StartDiscovery(p, c)
        PROVE  call'[p].at \in {"context", "outer"}
    BY <1>1, <2>1, StartIs DEF StartGet, StartDiscovery, Becomes
  <2>2. ASSUME Hit(p) \/ Store(p)
        PROVE  call'[p].at \in {"list", "idle"}
    <3>1. PICK b \in Stamp \cup {Absent} : Answer(p, b)
      BY <1>1, <2>2, CallType DEF Hit, Store, TypeOK
    <3>2. call'[p] \in {[call[p] EXCEPT !.at = "list", !.got = b], IdleCall}
      BY <1>1, <3>1, AnswerIs DEF Becomes
    <3> QED  BY <1>1, <3>2, CallType, Idle DEF Call
  <2>3. ASSUME LoadGeneration(p) \/ ContextGeneration(p) \/ OuterGeneration(p)
        PROVE  call'[p].at \in {"context", "lookup", "get"}
    <3>1. PICK new \in Call : new = call[p]
      BY <1>1, CallType
    <3>2. \/ call'[p] = [new EXCEPT !.at = "context", !.seen.gen = generation]
          \/ call'[p] = [new EXCEPT !.at = "lookup", !.seen.ctx = ctxGen[call[p].on]]
          \/ call'[p] = [new EXCEPT !.at = "get", !.outer.ctx = ctxGen[call[p].on],
                                    !.since = begun]
      BY <1>1, <2>3, <3>1, ReadIs DEF Becomes
    <3> QED  BY <3>2 DEF Call
  <2>4. ASSUME Miss(p) \/ Build(p) \/ LockClients(p) \/ List(p) \/ LockDiscovery(p)
        PROVE  call'[p].at \in {"build", "insert", "again", "index", "reagain"}
    <3>1. PICK new \in Call : new = call[p]
      BY <1>1, CallType
    <3>2. \/ call'[p] = [new EXCEPT !.at = "insert", !.got = begun]
          \/ \E at \in {"build", "again", "index", "reagain"} : call'[p] = [new EXCEPT !.at = at]
      BY <1>1, <2>4, <3>1, MoveIs DEF Becomes
    <3> QED  BY <3>2 DEF Call
  <2>5. ASSUME Fails(p) \/ Keep(p)
        PROVE  call'[p].at = "idle"
    BY <1>1, <2>5, MoveIs, Idle DEF Becomes
  <2> QED  BY <2>1, <2>2, <2>3, <2>4, <2>5 DEF CallerStep
<1> QED  BY <1>3, <1>4, <1>5, <1>6, <1>7

\* What a call puts in the cache is no older than any reset of its context
\* that has dropped the clients.
LEMMA CallerKeepsCache ==
    ASSUME Inv, NEW p \in Caller, CallerStep(p)
    PROVE  /\ Counted' /\ StaleOnlyBesideClear'
           /\ \A r \in Resetter : Resetting(r)'
<1>1. /\ TypeOK /\ TypeOK' /\ Kept(p) /\ Counted
      /\ UNCHANGED <<generation, ctxGen, reset, begun, last, floor, emptied>>
  BY CallerType DEF Inv, Kept, stampVars
<1>2. Counted'
  <2>1. Bumping' = Bumping
    BY <1>1 DEF Bumping
  <2> QED  BY <1>1, <2>1 DEF Counted
<1>3. ASSUME NEW c \in Context \ emptied
      PROVE  \/ clients'[c] = clients[c]
             \/ /\ clients'[c] >= floor[c]
                /\ \A r \in Resetter : reset[r].at = "discovery" /\ c \in reset[r].of =>
                      clients'[c] >= reset[r].mark
  <2>1. clients' = clients \/ Store(p)
    BY DEF CallerStep, StartGet, StartDiscovery, Start, LoadGeneration, ContextGeneration,
       Hit, Miss, Build, Fails, LockClients, ReadContext, ReadGlobal,
         OuterGeneration, List, LockDiscovery, Keep, cacheVars
  <2>2. CASE Store(p)
    <3>1. CASE Same(p, call[p].seen) /\ c = call[p].on
      <4>1. clients'[c] = call[p].got
        BY <1>1, <2>2, <3>1 DEF Store, TypeOK
      <4> QED  BY <1>1, <1>3, <2>2, <3>1, <4>1 DEF Store, Same, Inv, Passed, Agrees
    <3>2. CASE ~(Same(p, call[p].seen) /\ c = call[p].on)
      BY <1>1, <2>2, <3>2 DEF Store, TypeOK
    <3> QED  BY <3>1, <3>2
  <2> QED  BY <2>1, <2>2
<1>4. \A c \in Context : /\ clients'[c] \in Nat /\ floor[c] \in Nat /\ last[c] \in Nat
                         /\ floor[c] <= last[c]
  BY <1>1, Numbers, CacheAssumption DEF TypeOK, Counted, Stamp, Absent
<1>5. StaleOnlyBesideClear'
  <2>1. ASSUME NEW c \in Context \ emptied, clients'[c] # Absent
        PROVE  clients'[c] >= floor[c]
    <3>1. clients[c] # Absent => clients[c] >= floor[c]
      BY DEF Inv, StaleOnlyBesideClear
    <3> QED  BY <1>3, <1>4, <2>1, <3>1
  <2> QED  BY <1>1, <2>1 DEF StaleOnlyBesideClear
<1>6. ASSUME NEW r \in Resetter PROVE Resetting(r)'
  <2>1. Resetting(r) /\ reset'[r] = reset[r] /\ reset[r].of \subseteq Context
        /\ reset[r].mark \in Nat
    BY <1>1, CacheAssumption DEF Inv, TypeOK, Reset, Stamp
  <2>2. ASSUME reset[r].at = "discovery", NEW c \in reset[r].of \ emptied
        PROVE  clients'[c] = Absent \/ clients'[c] >= reset[r].mark
    <3>1. c \in Context \ emptied
      BY <2>1, <2>2
    <3>2. clients[c] = Absent \/ clients[c] >= reset[r].mark
      BY <2>1, <2>2 DEF Resetting
    <3> QED  BY <1>3, <2>2, <3>1, <3>2
  <2> QED  BY <1>1, <2>1, <2>2 DEF Resetting
<1> QED  BY <1>2, <1>5, <1>6

-------------------------------------------------------------------------------
(* A step of a reset.                                                      *)

\* The beginning of a reset touches of a call only whether it is quiet.
LEMMA BeginIs ==
    ASSUME TypeOK, NEW r \in Resetter, NEW cs \in SUBSET Context,
           NEW place \in {"bump", "contexts", "clients"}, Begin(r, cs, place)
    PROVE  /\ begun' = begun + 1 /\ begun' \in Stamp /\ begun <= MaxResets
           /\ call' \in [Caller -> Call] /\ reset' \in [Resetter -> Reset]
           /\ \A q \in Caller :
                 /\ call'[q].at = call[q].at /\ call'[q].on = call[q].on
                 /\ call'[q].want = call[q].want
                 /\ call'[q].seen = call[q].seen /\ call'[q].outer = call[q].outer
                 /\ call'[q].now = call[q].now
                 /\ call'[q].got = call[q].got /\ call'[q].since = call[q].since
                 /\ call'[q].quiet => call[q].quiet /\ call[q].on \notin cs
           /\ reset[r].at = "idle" /\ \A x \in Resetter \ {r} : reset'[x] = reset[x]
           /\ reset'[r].at = place /\ reset'[r].of = cs /\ reset'[r].mark = begun'
<1> DEFINE quieter(q) == [call[q] EXCEPT !.quiet = @ /\ call[q].on \notin cs]
           started == [at |-> place, of |-> cs, mark |-> begun + 1]
<1>1. begun' = begun + 1 /\ begun + 1 \in Stamp /\ begun \in Nat /\ begun <= MaxResets
  BY CacheAssumption DEF Begin, TypeOK, Stamp
<1>2. ASSUME NEW q \in Caller
      PROVE  /\ quieter(q) \in Call
             /\ quieter(q).at = call[q].at /\ quieter(q).on = call[q].on
             /\ quieter(q).want = call[q].want
             /\ quieter(q).seen = call[q].seen /\ quieter(q).outer = call[q].outer
             /\ quieter(q).now = call[q].now
             /\ quieter(q).got = call[q].got /\ quieter(q).since = call[q].since
             /\ quieter(q).quiet => call[q].quiet /\ call[q].on \notin cs
  <2>1. call[q] \in Call
    BY CallType
  <2>2. (call[q].quiet /\ call[q].on \notin cs) \in BOOLEAN
    OBVIOUS
  <2> QED  BY <2>1, <2>2 DEF Call
<1>3. call' = [q \in Caller |-> quieter(q)]
  BY DEF Begin
<1> HIDE DEF quieter
<1>4. started \in Reset
  BY <1>1 DEF Reset
<1>5. reset' = [reset EXCEPT ![r] = started] /\ reset[r].at = "idle"
  BY DEF Begin
<1>6. /\ reset' \in [Resetter -> Reset] /\ reset'[r] = started
      /\ \A x \in Resetter \ {r} : reset'[x] = reset[x]
  BY <1>4, <1>5 DEF TypeOK
<1> QED  BY <1>1, <1>2, <1>3, <1>5, <1>6

\* A reset's own move.
LEMMA ResetMoves ==
    ASSUME TypeOK, NEW r \in Resetter, NEW at \in {"contexts", "clients", "discovery"},
           reset' = [reset EXCEPT ![r].at = at]
    PROVE  /\ reset' \in [Resetter -> Reset]
           /\ \A x \in Resetter \ {r} : reset'[x] = reset[x]
           /\ reset'[r].at = at /\ reset'[r].of = reset[r].of /\ reset'[r].mark = reset[r].mark
<1>1. [reset[r] EXCEPT !.at = at] \in Reset
  BY DEF TypeOK, Reset
<1>2. reset' = [reset EXCEPT ![r] = [reset[r] EXCEPT !.at = at]]
  BY DEF TypeOK
<1>3. reset[r] \in Reset
  BY DEF TypeOK
<1> HIDE DEF Reset
<1>4. /\ reset' \in [Resetter -> Reset] /\ reset'[r] = [reset[r] EXCEPT !.at = at]
      /\ \A x \in Resetter \ {r} : reset'[x] = reset[x]
  BY <1>1, <1>2 DEF TypeOK
<1> QED  BY <1>3, <1>4 DEF Reset

\* Every reset is one of those, and leaves the rest of each call alone.
LEMMA ResetIs ==
    ASSUME Inv, NEW r \in Resetter, ResetStep(r)
    PROVE  /\ call' \in [Caller -> Call] /\ reset' \in [Resetter -> Reset]
           /\ \A x \in Resetter \ {r} : reset'[x] = reset[x]
           /\ \A q \in Caller :
                 /\ call'[q].at = call[q].at /\ call'[q].on = call[q].on
                 /\ call'[q].want = call[q].want
                 /\ call'[q].seen = call[q].seen /\ call'[q].outer = call[q].outer
                 /\ call'[q].now = call[q].now
                 /\ call'[q].got = call[q].got /\ call'[q].since = call[q].since
                 /\ call'[q].quiet => call[q].quiet
<1>1. TypeOK /\ \A c \in Context : {c} \in SUBSET Context
  BY DEF Inv
<1>2. ASSUME NEW c \in Context, Invalidate(r, c)
      PROVE  Begin(r, {c}, "clients")
  BY <1>2 DEF Invalidate
<1>3. (SetPaths(r) => Begin(r, Context, "bump")) /\ (Clear(r) => Begin(r, Context, "contexts"))
  BY DEF SetPaths, Clear
<1>4. CASE BumpAll(r) \/ ClearContexts(r) \/ DropClients(r)
  BY <1>1, <1>4, ResetMoves DEF BumpAll, ClearContexts, DropClients, TypeOK
<1>5. CASE DropDiscovery(r)
  BY <1>1, <1>5, Idle DEF DropDiscovery, TypeOK
<1> QED  BY <1>1, <1>2, <1>3, <1>4, <1>5, BeginIs DEF ResetStep

\* What each makes of the generations and the stamps.
Raises(r) ==
    /\ generation' \in {generation, generation + 1}
    /\ \A c \in Context :
          /\ ctxGen'[c] \in {ctxGen[c], ctxGen[c] + 1, 0}
          /\ ctxGen'[c] < begun'
          /\ ctxGen'[c] < ctxGen[c] => reset[r].at = "contexts" /\ reset[r].of = Context
          /\ last'[c] # last[c] =>
                /\ reset[r].at # "contexts"
                /\ generation' = generation + 1 \/ ctxGen'[c] = ctxGen[c] + 1
          /\ last'[c] \in Nat /\ last[c] <= last'[c] /\ last'[c] <= begun'
    /\ begun' \in {begun, begun + 1}
    /\ emptied \subseteq emptied'

LEMMA RaisesStep ==
    ASSUME Inv, NEW r \in Resetter, ResetStep(r)
    PROVE  Raises(r)
<1>0. /\ TypeOK /\ Resetting(r) /\ Counted
      /\ reset[r].mark \in Nat /\ reset[r].mark <= begun
      /\ generation \in Nat /\ begun \in Nat
      /\ \A c \in Context : /\ ctxGen[c] \in Nat /\ last[c] \in Nat
                            /\ last[c] <= begun /\ ctxGen[c] < begun
  BY Numbers, CacheAssumption DEF Inv, TypeOK, Reset, Stamp, Counted, Resetting
<1>1. ASSUME NEW cs \in SUBSET Context, NEW mark \in Nat, mark <= begun', Raised(cs, mark),
             begun' \in {begun, begun + 1}
      PROVE  \A c \in Context :
                /\ last'[c] # last[c] => c \in cs
                /\ last'[c] \in Nat /\ last[c] <= last'[c] /\ last'[c] <= begun'
  BY <1>0, <1>1 DEF Raised
<1>2. ASSUME NEW c \in Context, Invalidate(r, c)
      PROVE  Raises(r)
  <2>1. begun' = begun + 1 /\ reset[r].at = "idle"
    BY <1>2 DEF Invalidate, Begin
  <2>2. \A d \in Context : /\ last'[d] # last[d] => d = c
                           /\ last'[d] \in Nat /\ last[d] <= last'[d] /\ last'[d] <= begun'
    BY <1>0, <1>1, <1>2, <2>1 DEF Invalidate
  <2>3. /\ generation' = generation /\ ctxGen' = [ctxGen EXCEPT ![c] = @ + 1]
        /\ emptied' = emptied
    BY <1>2 DEF Invalidate, Bump
  <2>4. \A d \in Context : ctxGen'[d] = IF d = c THEN ctxGen[d] + 1 ELSE ctxGen[d]
    BY <1>0, <2>3 DEF TypeOK
  <2> QED  BY <1>0, <2>1, <2>2, <2>3, <2>4 DEF Raises
<1>3. CASE SetPaths(r)
  <2>1. begun' = begun + 1 /\ UNCHANGED <<generation, ctxGen, last, emptied>>
    BY <1>3 DEF SetPaths, Begin
  <2> QED  BY <1>0, <2>1 DEF Raises
<1>4. CASE Clear(r)
  <2>1. /\ begun' = begun + 1 /\ generation' = generation + 1
        /\ UNCHANGED <<ctxGen, emptied>> /\ reset[r].at = "idle"
    BY <1>4 DEF Clear, Begin
  <2>2. \A d \in Context : last'[d] \in Nat /\ last[d] <= last'[d] /\ last'[d] <= begun'
    BY <1>0, <1>1, <1>4, <2>1 DEF Clear
  <2> QED  BY <1>0, <2>1, <2>2 DEF Raises
<1>5. CASE BumpAll(r)
  <2>1. /\ generation' = generation + 1 /\ begun' = begun /\ reset[r].at = "bump"
        /\ UNCHANGED <<ctxGen, emptied>>
    BY <1>5 DEF BumpAll
  <2>2. \A d \in Context : last'[d] \in Nat /\ last[d] <= last'[d] /\ last'[d] <= begun'
    BY <1>0, <1>1, <1>5, <2>1 DEF BumpAll
  <2> QED  BY <1>0, <2>1, <2>2 DEF Raises
<1>6. CASE ClearContexts(r)
  <2>1. /\ reset[r].at = "contexts" /\ reset[r].of = Context /\ ctxGen' = [c \in Context |-> 0]
        /\ emptied \subseteq emptied' /\ UNCHANGED <<generation, begun, last>>
    BY <1>0, <1>6 DEF ClearContexts, Resetting
  <2>2. \A c \in Context : ctxGen'[c] = 0 /\ 0 < begun
    BY <1>0, <2>1
  <2> QED  BY <1>0, <2>1, <2>2 DEF Raises
<1>7. CASE DropClients(r) \/ DropDiscovery(r)
  <2>1. UNCHANGED <<generation, ctxGen, begun, last, emptied>>
    BY <1>7 DEF DropClients, DropDiscovery, stampVars
  <2> QED  BY <1>0, <2>1 DEF Raises
<1> QED  BY <1>2, <1>3, <1>4, <1>5, <1>6, <1>7 DEF ResetStep

LEMMA ResetKeepsCalls ==
    ASSUME Inv, NEW r \in Resetter, ResetStep(r), NEW q \in Caller
    PROVE  Kept(q)'
<1>0. /\ TypeOK /\ Kept(q) /\ Resetting(r) /\ call[q].on \in Context
      /\ Raises(r) /\ lock' = lock /\ dlock' = dlock
      /\ generation \in Nat /\ begun \in Nat
      /\ ctxGen[call[q].on] \in Nat /\ last[call[q].on] \in Nat
      /\ call[q].seen.gen \in Nat /\ call[q].seen.ctx \in Nat
      /\ call[q].outer.gen \in Nat /\ call[q].outer.ctx \in Nat
      /\ call[q].got \in Nat /\ call[q].since \in Nat
  <2>1. lock' = lock /\ dlock' = dlock
    BY DEF ResetStep, Invalidate, SetPaths, Clear, BumpAll, ClearContexts, DropClients,
       DropDiscovery, Begin, lockVars
  <2>2. TypeOK /\ Kept(q) /\ Resetting(r)
    BY DEF Inv, Kept
  <2> QED  BY <2>1, <2>2, RaisesStep, Numbers, CallType
<1>1. /\ call'[q].at = call[q].at /\ call'[q].on = call[q].on
      /\ call'[q].want = call[q].want
      /\ call'[q].seen = call[q].seen /\ call'[q].outer = call[q].outer
      /\ call'[q].now = call[q].now
      /\ call'[q].got = call[q].got /\ call'[q].since = call[q].since
      /\ call'[q].quiet => call[q].quiet
  BY ResetIs
\* The generations a call has read are not lowered, but where a clear says so.
<1>2. call[q].at # "idle" /\ call[q].on \notin emptied' => ctxGen[call[q].on] <= ctxGen'[call[q].on]
  <2>1. ClearContexts(r) /\ call[q].at # "idle" => call[q].on \in emptied'
    BY DEF ClearContexts
  <2>2. ~ClearContexts(r) => ctxGen'[call[q].on] # 0 \/ ctxGen[call[q].on] = 0
    <3>1. ASSUME NEW c \in Context, Invalidate(r, c)
          PROVE  ctxGen'[call[q].on] \in {ctxGen[call[q].on], ctxGen[call[q].on] + 1}
      BY <1>0, <3>1 DEF Invalidate, Bump, TypeOK
    <3>2. ASSUME SetPaths(r) \/ Clear(r) \/ BumpAll(r) \/ DropClients(r) \/ DropDiscovery(r)
          PROVE  ctxGen' = ctxGen
      BY <3>2 DEF SetPaths, Clear, BumpAll, DropClients, DropDiscovery
    <3> QED  BY <1>0, <3>1, <3>2 DEF ResetStep
  <2> QED  BY <1>0, <2>1, <2>2 DEF Raises
<1>3. /\ HasSeen(q)' <=> HasSeen(q)
      /\ HasOuter(q)' <=> HasOuter(q)
      /\ HasSeen(q) \/ HasOuter(q) => call[q].at # "idle"
      /\ call[q].on \notin emptied' => call[q].on \notin emptied
  BY <1>0, <1>1 DEF HasSeen, HasOuter, Raises
<1>4. Placed(q)'
  BY <1>0, <1>1 DEF Kept, Placed
<1>5. Behind(q)'
  <2>1. call[q].at # "idle" =>
          call[q].seen.gen <= generation' /\ call[q].outer.gen <= generation'
    BY <1>0 DEF Raises, Kept, Behind
  <2>2. call[q].on \notin emptied' =>
          /\ HasSeen(q) => call[q].seen.ctx <= ctxGen'[call[q].on]
          /\ HasOuter(q) => call[q].outer.ctx <= ctxGen'[call[q].on]
    <3>1. ctxGen'[call[q].on] \in Nat
      BY <1>0 DEF Raises
    <3> QED  BY <1>0, <1>2, <1>3, <3>1 DEF Kept, Behind
  <2> QED  BY <1>1, <1>3, <2>1, <2>2 DEF Behind
\* While they are the same, no reset has raised one.
<1>6. ASSUME NEW was \in Generations, was.gen \in Nat, was.ctx \in Nat,
             was.gen <= generation, was.ctx <= ctxGen[call[q].on],
             call[q].at # "idle", call[q].on \notin emptied',
             generation' = was.gen, ctxGen'[call[q].on] = was.ctx
      PROVE  /\ generation = was.gen /\ ctxGen[call[q].on] = was.ctx
             /\ last'[call[q].on] = last[call[q].on]
  BY <1>0, <1>2, <1>6 DEF Raises
<1>7. Fresh(q)'
  <2>1. call[q].seen \in Generations /\ call[q].outer \in Generations
    BY <1>0, CallType
  <2>2. ASSUME call[q].on \notin emptied', call[q].at \in {"insert", "again"},
               Current(call[q].on, call[q].seen)'
        PROVE  call[q].got >= last'[call[q].on]
    <3>1. call[q].at # "idle" /\ HasSeen(q)
      BY <2>2 DEF HasSeen
    <3>2. /\ call[q].seen.gen <= generation /\ call[q].seen.ctx <= ctxGen[call[q].on]
          /\ generation' = call[q].seen.gen /\ ctxGen'[call[q].on] = call[q].seen.ctx
      BY <1>0, <1>1, <1>3, <2>2, <3>1 DEF Kept, Behind, Current
    <3>3. /\ generation = call[q].seen.gen /\ ctxGen[call[q].on] = call[q].seen.ctx
          /\ last'[call[q].on] = last[call[q].on]
      BY <1>0, <1>6, <2>1, <2>2, <3>1, <3>2
    <3> QED  BY <1>0, <1>3, <2>2, <3>3 DEF Kept, Fresh, Current
  <2>3. ASSUME call[q].on \notin emptied', HasOuter(q), Current(call[q].on, call[q].outer)'
        PROVE  call[q].since >= last'[call[q].on]
    <3>1. call[q].at # "idle"
      BY <2>3 DEF HasOuter
    <3>2. /\ call[q].outer.gen <= generation /\ call[q].outer.ctx <= ctxGen[call[q].on]
          /\ generation' = call[q].outer.gen /\ ctxGen'[call[q].on] = call[q].outer.ctx
      BY <1>0, <1>1, <1>3, <2>3, <3>1 DEF Kept, Behind, Current
    <3>3. /\ generation = call[q].outer.gen /\ ctxGen[call[q].on] = call[q].outer.ctx
          /\ last'[call[q].on] = last[call[q].on]
      BY <1>0, <1>6, <2>1, <2>3, <3>1, <3>2
    <3> QED  BY <1>0, <1>3, <2>3, <3>3 DEF Kept, Fresh, Current
  <2> QED  BY <1>1, <1>3, <2>2, <2>3 DEF Fresh, Current
\* A quiet call is beside resets of other contexts only.
<1>8. Undisturbed(q)'
  <2> DEFINE Apart == /\ \A x \in Resetter : call[q].on \notin reset'[x].of
                      /\ generation' = generation
                      /\ ctxGen'[call[q].on] = ctxGen[call[q].on]
  <2>1. ASSUME call'[q].quiet PROVE Apart
    <3>0. /\ \A x \in Resetter : call[q].on \notin reset[x].of
          /\ \A x \in Resetter \ {r} : reset'[x] = reset[x]
      BY <1>0, <1>1, <2>1, ResetIs DEF Kept, Undisturbed
    <3>1. ASSUME NEW c \in Context, Invalidate(r, c) PROVE Apart
      <4>1. call[q].on # c /\ reset'[r].of = {c}
        BY <1>0, <2>1, <3>1, BeginIs DEF Invalidate
      <4>2. generation' = generation /\ ctxGen' = [ctxGen EXCEPT ![c] = @ + 1]
        BY <3>1 DEF Invalidate, Bump
      <4> QED  BY <1>0, <3>0, <4>1, <4>2 DEF TypeOK
    <3>2. ~SetPaths(r) /\ ~Clear(r)
      BY <1>0, <2>1, BeginIs DEF SetPaths, Clear
    <3>3. ~BumpAll(r) /\ ~ClearContexts(r)
      BY <1>0, <3>0 DEF Resetting, BumpAll, ClearContexts
    <3>4. CASE DropClients(r)
      <4>1. reset'[r].of = reset[r].of
        BY <1>0, <3>4, ResetMoves DEF DropClients
      <4> QED  BY <3>0, <3>4, <4>1 DEF DropClients
    <3>5. CASE DropDiscovery(r)
      <4>1. reset'[r].of = {}
        BY <1>0, <3>5, Idle DEF DropDiscovery, TypeOK
      <4> QED  BY <3>0, <3>5, <4>1 DEF DropDiscovery
    <3> QED  BY <3>1, <3>2, <3>3, <3>4, <3>5 DEF ResetStep
  <2>2. call'[q].quiet =>
          /\ call[q].at \in {"global", "store"} => Agrees(q, call[q].seen)'
          /\ call[q].at \in {"reglobal", "keep"} => Agrees(q, call[q].outer)'
    BY <1>0, <1>1, <2>1 DEF Kept, Undisturbed, Agrees
  <2> QED  BY <1>0, <1>1, <1>3, <2>1, <2>2 DEF Kept, Undisturbed, Agrees
<1> QED  BY <1>4, <1>5, <1>7, <1>8 DEF Kept

\* A reset passes no call that holds the mutex it has to take: it neither returns
\* nor comes past the clients, and the one that raises a generation has still to
\* drop the discovery.
LEMMA ResetKeepsPassed ==
    ASSUME Inv, NEW r \in Resetter, ResetStep(r), NEW q \in Caller
    PROVE  Passed(q)'
<1>0. /\ TypeOK /\ Kept(q) /\ Passed(q) /\ Resetting(r) /\ Raises(r)
      /\ call[q].on \in Context /\ generation \in Nat
      /\ call[q].seen.gen \in Nat /\ call[q].outer.gen \in Nat
      /\ call[q].got \in Nat /\ call[q].since \in Nat
      /\ reset[r].mark \in Nat /\ reset[r].of \subseteq Context
      /\ last[call[q].on] \in Nat /\ last[call[q].on] <= begun /\ begun \in Nat
  BY RaisesStep, Numbers, CallType, CacheAssumption
  DEF Inv, Kept, Counted, TypeOK, Reset, Stamp
<1>1. /\ call'[q].at = call[q].at /\ call'[q].on = call[q].on
      /\ call'[q].seen = call[q].seen /\ call'[q].outer = call[q].outer
      /\ call'[q].now = call[q].now
      /\ call'[q].got = call[q].got /\ call'[q].since = call[q].since
  BY ResetIs
<1>2. \A x \in Resetter \ {r} : reset'[x] = reset[x]
  BY ResetIs
<1>3. /\ call[q].at \in {"global", "store"} /\ Agrees(q, call[q].seen)' => Agrees(q, call[q].seen)
      /\ call[q].at \in {"reglobal", "keep"} /\ Agrees(q, call[q].outer)' =>
            Agrees(q, call[q].outer)
  <2>1. call[q].at # "idle" =>
          call[q].seen.gen <= generation /\ call[q].outer.gen <= generation
    BY <1>0 DEF Kept, Behind
  <2>2. generation' = generation \/ generation' = generation + 1
    BY <1>0 DEF Raises
  <2> QED  BY <1>0, <1>1, <2>1, <2>2 DEF Agrees
<1>4. ASSUME call[q].on \notin emptied', call[q].at \in {"global", "store"},
             Agrees(q, call[q].seen)'
      PROVE  /\ call[q].got >= floor'[call[q].on]
             /\ \A x \in Resetter :
                   reset'[x].at = "discovery" /\ call[q].on \in reset'[x].of =>
                      call[q].got >= reset'[x].mark
  <2>1. /\ call[q].got >= floor[call[q].on]
        /\ \A x \in Resetter :
              reset[x].at = "discovery" /\ call[q].on \in reset[x].of =>
                 call[q].got >= reset[x].mark
    BY <1>0, <1>3, <1>4 DEF Passed, Raises
  <2>2. lock = q /\ lock # Free
    BY <1>0, <1>4, CacheAssumption DEF Kept, Placed
  <2>3. ~DropClients(r)
    BY <2>2 DEF DropClients
  <2>4. reset'[r].at # "discovery"
    <3>1. ASSUME NEW c \in Context, Invalidate(r, c) PROVE reset'[r].at # "discovery"
      BY <1>0, <3>1, BeginIs DEF Invalidate
    <3>2. ASSUME SetPaths(r) \/ Clear(r) PROVE reset'[r].at # "discovery"
      BY <1>0, <3>2, BeginIs DEF SetPaths, Clear
    <3>3. ASSUME BumpAll(r) \/ ClearContexts(r) PROVE reset'[r].at # "discovery"
      BY <1>0, <3>3, ResetMoves DEF BumpAll, ClearContexts
    <3>4. ASSUME DropDiscovery(r) PROVE reset'[r].at # "discovery"
      BY <1>0, <3>4, Idle DEF DropDiscovery, TypeOK
    <3> QED  BY <2>3, <3>1, <3>2, <3>3, <3>4 DEF ResetStep
  <2>5. floor' = floor \/ DropDiscovery(r)
    BY DEF ResetStep, Invalidate, SetPaths, Clear, BumpAll, ClearContexts, DropClients, Begin,
       stampVars
  <2>6. call[q].got >= floor'[call[q].on]
    BY <1>0, <2>1, <2>5 DEF DropDiscovery
  <2> QED  BY <1>2, <2>1, <2>4, <2>6
<1>5. ASSUME call[q].on \notin emptied', call[q].at \in {"reglobal", "keep"},
             Agrees(q, call[q].outer)'
      PROVE  call[q].since >= last'[call[q].on] \/ ToBeDropped(call[q].on)'
  <2> DEFINE c == call[q].on
  <2>1. call[q].since >= last[c] \/ ToBeDropped(c)
    BY <1>0, <1>3, <1>5 DEF Passed, Raises
  <2>2. dlock = q /\ dlock # Free
    BY <1>0, <1>5, CacheAssumption DEF Kept, Placed
  <2>3. ~DropDiscovery(r)
    BY <2>2 DEF DropDiscovery
  <2>4. ASSUME NEW d \in Context, Invalidate(r, d), last'[c] # last[c]
        PROVE  ToBeDropped(c)'
    <3>1. /\ reset'[r].at = "clients" /\ reset'[r].of = {d} /\ reset'[r].mark = begun'
      BY <1>0, <2>4, BeginIs DEF Invalidate
    <3>2. c = d /\ last'[c] = begun'
      BY <1>0, <2>4 DEF Invalidate, Raised
    <3> QED  BY <1>1, <3>1, <3>2 DEF ToBeDropped
  <2>5. ASSUME Clear(r), last'[c] # last[c]
        PROVE  ToBeDropped(c)'
    <3>1. /\ reset'[r].at = "contexts" /\ reset'[r].of = Context /\ reset'[r].mark = begun'
      BY <1>0, <2>5, BeginIs DEF Clear
    <3>2. last'[c] = begun'
      BY <1>0, <2>5 DEF Clear, Raised
    <3> QED  BY <1>0, <1>1, <3>1, <3>2 DEF ToBeDropped
  <2>6. ASSUME BumpAll(r), last'[c] # last[c]
        PROVE  ToBeDropped(c)'
    <3>1. /\ reset'[r].at = "contexts" /\ reset'[r].of = Context
          /\ reset'[r].mark = reset[r].mark
      BY <1>0, <2>6, ResetMoves DEF BumpAll, Resetting
    <3>2. last'[c] = reset[r].mark
      BY <1>0, <2>6 DEF BumpAll, Raised
    <3> QED  BY <1>0, <1>1, <3>1, <3>2 DEF ToBeDropped
  <2>7. ASSUME SetPaths(r) \/ ClearContexts(r) \/ DropClients(r)
        PROVE  last' = last
    BY <2>7 DEF SetPaths, ClearContexts, DropClients, stampVars
  <2>8. ASSUME last'[c] = last[c], ToBeDropped(c)
        PROVE  ToBeDropped(c)'
    <3>1. PICK x \in Resetter :
             /\ reset[x].at \in {"contexts", "clients", "discovery"}
             /\ c \in reset[x].of /\ reset[x].mark = last[c]
      BY <2>8 DEF ToBeDropped
    <3>2. CASE x # r
      BY <1>1, <1>2, <2>8, <3>1, <3>2 DEF ToBeDropped
    <3>3. CASE x = r
      <4>1. ClearContexts(r) \/ DropClients(r)
        BY <2>3, <3>1, <3>3 DEF ResetStep, Invalidate, SetPaths, BumpAll, Clear, Begin
      <4>2. /\ reset'[r].at \in {"clients", "discovery"}
            /\ reset'[r].of = reset[r].of /\ reset'[r].mark = reset[r].mark
        BY <1>0, <4>1, ResetMoves DEF ClearContexts, DropClients
      <4> QED  BY <1>1, <2>8, <3>1, <3>3, <4>2 DEF ToBeDropped
    <3> QED  BY <3>2, <3>3
  <2>9. last'[c] # last[c] => ToBeDropped(c)'
    BY <2>3, <2>4, <2>5, <2>6, <2>7 DEF ResetStep
  <2> QED  BY <2>1, <2>8, <2>9
<1> QED  BY <1>1, <1>4, <1>5 DEF Passed, Agrees

\* The count of resets bounds the generations, which keeps their types.
LEMMA ResetKeepsCount ==
    ASSUME Inv, NEW r \in Resetter, ResetStep(r)
    PROVE  Counted' /\ generation' \in 0..MaxResets
<1> DEFINE n == Cardinality(Bumping)
<1>0. /\ TypeOK /\ Counted /\ Raises(r) /\ Resetting(r)
      /\ generation \in Nat /\ begun \in Nat /\ begun <= MaxResets + 1 /\ MaxResets \in Nat
      /\ IsFiniteSet(Bumping) /\ n \in Nat /\ generation + n < begun
  <2>1. begun <= MaxResets + 1
    BY CacheAssumption DEF Inv, TypeOK, Stamp
  <2> QED
    BY <2>1, RaisesStep, Numbers, FS_CardinalityType DEF Inv, Counted
<1>1. /\ reset' \in [Resetter -> Reset]
      /\ \A x \in Resetter \ {r} : reset'[x] = reset[x]
  BY ResetIs
<1>2. IsFiniteSet(Bumping') /\ generation' + n' < begun' /\ begun' <= MaxResets + 1
  <2> DEFINE Goal == IsFiniteSet(Bumping') /\ generation' + n' < begun' /\ begun' <= MaxResets + 1
  <2>1. ASSUME NEW c \in Context, Invalidate(r, c) PROVE Goal
    <3>1. /\ begun' = begun + 1 /\ begun <= MaxResets /\ generation' = generation
          /\ reset[r].at = "idle" /\ reset'[r].at = "clients"
      BY <1>0, <2>1, BeginIs DEF Invalidate, Bump
    <3>2. Bumping' = Bumping
      BY <1>1, <3>1 DEF Bumping
    <3> QED  BY <1>0, <3>1, <3>2
  <2>2. CASE SetPaths(r)
    <3>1. /\ begun' = begun + 1 /\ begun <= MaxResets /\ generation' = generation
          /\ reset[r].at = "idle" /\ reset'[r].at = "bump"
      BY <1>0, <2>2, BeginIs DEF SetPaths
    <3>2. Bumping' = Bumping \cup {r}
      BY <1>1, <3>1 DEF Bumping
    <3>3. IsFiniteSet(Bumping') /\ n' \in {n, n + 1}
      BY <1>0, <3>2, FS_AddElement
    <3> QED  BY <1>0, <3>1, <3>3
  <2>3. CASE Clear(r)
    <3>1. /\ begun' = begun + 1 /\ begun <= MaxResets /\ generation' = generation + 1
          /\ reset[r].at = "idle" /\ reset'[r].at = "contexts"
      BY <1>0, <2>3, BeginIs DEF Clear
    <3>2. Bumping' = Bumping
      BY <1>1, <3>1 DEF Bumping
    <3> QED  BY <1>0, <3>1, <3>2
  <2>4. CASE BumpAll(r)
    <3>1. /\ begun' = begun /\ generation' = generation + 1
          /\ reset[r].at = "bump" /\ reset'[r].at = "contexts"
      BY <1>0, <2>4, ResetMoves DEF BumpAll
    <3>2. Bumping' = Bumping \ {r} /\ r \in Bumping
      BY <1>1, <3>1 DEF Bumping
    <3>3. IsFiniteSet(Bumping') /\ n' = n - 1
      BY <1>0, <3>2, FS_RemoveElement
    <3> QED  BY <1>0, <3>1, <3>3
  <2>5. CASE ClearContexts(r) \/ DropClients(r)
    <3>1. /\ UNCHANGED <<begun, generation>> /\ reset[r].at # "bump"
          /\ reset'[r].at \in {"clients", "discovery"}
      BY <1>0, <2>5, ResetMoves DEF ClearContexts, DropClients, stampVars
    <3>2. Bumping' = Bumping
      BY <1>1, <3>1 DEF Bumping
    <3> QED  BY <1>0, <3>1, <3>2
  <2>6. CASE DropDiscovery(r)
    <3>1. /\ UNCHANGED <<begun, generation>> /\ reset[r].at = "discovery"
          /\ reset'[r].at = "idle"
      BY <1>0, <2>6, Idle DEF DropDiscovery, TypeOK
    <3>2. Bumping' = Bumping
      BY <1>1, <3>1 DEF Bumping
    <3> QED  BY <1>0, <3>1, <3>2
  <2> QED  BY <2>1, <2>2, <2>3, <2>4, <2>5, <2>6 DEF ResetStep
<1>3. ASSUME NEW c \in Context
      PROVE  floor'[c] <= last'[c] /\ floor'[c] \in Nat
  <2>1. last[c] <= last'[c] /\ last'[c] \in Nat /\ floor[c] <= last[c] /\ floor[c] \in Nat
        /\ last[c] \in Nat
    BY <1>0, Numbers DEF Raises, Counted
  <2>2. CASE DropDiscovery(r)
    <3>1. c \in reset[r].of => reset[r].mark <= last[c] /\ reset[r].mark \in Nat
      BY <1>0, <2>2, CacheAssumption DEF DropDiscovery, Resetting, TypeOK, Reset, Stamp
    <3>2. floor'[c] \in {floor[c], reset[r].mark}
          /\ (floor'[c] # floor[c] => c \in reset[r].of)
      BY <2>2 DEF DropDiscovery
    <3> QED  BY <2>1, <3>1, <3>2
  <2>3. CASE ~DropDiscovery(r)
    <3>1. floor' = floor
      BY <2>3 DEF ResetStep, Invalidate, SetPaths, Clear, BumpAll, ClearContexts, DropClients,
         Begin, stampVars
    <3> QED  BY <2>1, <3>1
  <2> QED  BY <2>2, <2>3
<1>4. Counted'
  BY <1>0, <1>2, <1>3 DEF Counted, Raises
<1>5. generation' \in 0..MaxResets
  <2>1. n' \in Nat /\ generation' \in Nat /\ begun' \in Nat
    BY <1>0, <1>2, FS_CardinalityType DEF Raises
  <2> QED  BY <1>0, <1>2, <2>1
<1> QED  BY <1>4, <1>5

LEMMA ResetType ==
    ASSUME Inv, NEW r \in Resetter, ResetStep(r)
    PROVE  TypeOK'
<1>1. TypeOK /\ Counted' /\ generation' \in 0..MaxResets /\ Raises(r)
  BY ResetKeepsCount, RaisesStep DEF Inv
<1>2. call' \in [Caller -> Call] /\ reset' \in [Resetter -> Reset]
  BY ResetIs
<1>3. begun' \in Stamp
  <2>1. begun' = begun \/ begun' \in Stamp
    BY DEF ResetStep, Invalidate, SetPaths, Clear, BumpAll, ClearContexts, DropClients,
       DropDiscovery, Begin, stampVars
  <2> QED  BY <1>1, <2>1 DEF TypeOK
<1>4. ctxGen' \in [Context -> 0..MaxResets]
  <2>1. \A c \in Context : ctxGen'[c] \in 0..MaxResets
    <3>1. \A c \in Context : ctxGen'[c] \in Nat /\ ctxGen'[c] < begun'
      BY <1>1, Numbers DEF Raises
    <3>2. begun' \in Nat /\ begun' <= MaxResets + 1 /\ MaxResets \in Nat
      BY <1>3, CacheAssumption DEF Stamp
    <3> QED  BY <3>1, <3>2
  <2>2. \/ ctxGen' = ctxGen \/ ctxGen' = [c \in Context |-> 0]
        \/ \E c \in Context : ctxGen' = [ctxGen EXCEPT ![c] = @ + 1]
    BY DEF ResetStep, Invalidate, Bump, SetPaths, Clear, BumpAll, ClearContexts, DropClients,
       DropDiscovery
  <2>3. ctxGen' = [c \in Context |-> ctxGen'[c]]
    BY <1>1, <2>2 DEF TypeOK
  <2> QED  BY <2>1, <2>3
<1>5. clients' \in [Context -> Stamp \cup {Absent}]
      /\ discovery' \in [Context -> Stamp \cup {Absent}]
  <2>1. \A cs \in SUBSET Context :
           /\ Without(clients, cs) \in [Context -> Stamp \cup {Absent}]
           /\ Without(discovery, cs) \in [Context -> Stamp \cup {Absent}]
    BY <1>1 DEF Without, TypeOK
  <2>2. reset[r].of \in SUBSET Context
    BY <1>1 DEF TypeOK, Reset
  <2>3. /\ clients' = clients \/ clients' = Without(clients, reset[r].of)
        /\ discovery' = discovery \/ discovery' = Without(discovery, reset[r].of)
    BY DEF ResetStep, Invalidate, SetPaths, Clear, BumpAll, ClearContexts, DropClients,
       DropDiscovery, Begin
  <2> QED  BY <1>1, <2>1, <2>2, <2>3 DEF TypeOK
<1>6. last' \in [Context -> Stamp] /\ floor' \in [Context -> Stamp]
  <2>1. reset[r].mark \in Stamp
    BY <1>1 DEF TypeOK, Reset
  <2>2. \A cs, mark : mark \in Stamp /\ Raised(cs, mark) => last' \in [Context -> Stamp]
    BY <1>1 DEF TypeOK, Raised
  <2>3. \/ last' = last
        \/ \E cs, mark : mark \in Stamp /\ Raised(cs, mark)
    BY <1>3, <2>1 DEF ResetStep, Invalidate, SetPaths, Clear, BumpAll, ClearContexts,
       DropClients, DropDiscovery, stampVars
  <2>4. floor' = floor \/ DropDiscovery(r)
    BY DEF ResetStep, Invalidate, SetPaths, Clear, BumpAll, ClearContexts, DropClients, Begin,
       stampVars
  <2>5. DropDiscovery(r) => floor' \in [Context -> Stamp]
    BY <1>1, <2>1 DEF DropDiscovery, TypeOK
  <2> QED  BY <1>1, <2>2, <2>3, <2>4, <2>5 DEF TypeOK
<1>7. emptied' \subseteq Context
  <2>1. emptied' = emptied
        \/ emptied' = emptied \cup {call[p].on : p \in {q \in Caller : call[q].at # "idle"}}
    BY DEF ResetStep, Invalidate, SetPaths, Clear, BumpAll, ClearContexts, DropClients,
       DropDiscovery, stampVars
  <2>2. \A p \in Caller : call[p].on \in Context
    BY <1>1, CallType
  <2> QED  BY <1>1, <2>1, <2>2 DEF TypeOK
<1>8. UNCHANGED lockVars
  BY DEF ResetStep, Invalidate, SetPaths, Clear, BumpAll, ClearContexts, DropClients,
     DropDiscovery, Begin, lockVars
<1> QED  BY <1>1, <1>2, <1>3, <1>4, <1>5, <1>6, <1>7, <1>8 DEF TypeOK, lockVars

\* What a reset drops is gone, and no client older than it is left behind it.
LEMMA ResetKeepsCache ==
    ASSUME Inv, NEW r \in Resetter, ResetStep(r)
    PROVE  StaleOnlyBesideClear' /\ \A x \in Resetter : Resetting(x)'
<1>0. /\ TypeOK /\ TypeOK' /\ Raises(r) /\ begun \in Nat
      /\ \A x \in Resetter : Resetting(x) /\ reset[x].mark \in Nat /\ reset[x].of \subseteq Context
      /\ \A c \in Context : last[c] \in Nat /\ floor[c] \in Nat
      /\ \A c \in Context \ emptied : clients[c] # Absent => clients[c] >= floor[c]
  <2>1. \A x \in Resetter : reset[x].mark \in Nat /\ reset[x].of \subseteq Context
    BY CacheAssumption DEF Inv, TypeOK, Reset, Stamp
  <2> QED  BY <2>1, ResetType, RaisesStep, Numbers DEF Inv, StaleOnlyBesideClear
<1>1. \A x \in Resetter \ {r} : reset'[x] = reset[x]
  BY ResetIs
\* Clients are dropped, never put back.
<1>2. /\ \A c \in Context : clients'[c] = clients[c] \/ clients'[c] = Absent
      /\ DropClients(r) => \A c \in reset[r].of : clients'[c] = Absent
  <2>1. clients' = clients \/ DropClients(r)
    BY DEF ResetStep, Invalidate, SetPaths, Clear, BumpAll, ClearContexts, DropDiscovery, Begin
  <2>2. DropClients(r) => clients' = Without(clients, reset[r].of)
    BY DEF DropClients
  <2> QED  BY <1>0, <2>1, <2>2 DEF Without
<1>3. ASSUME NEW x \in Resetter \ {r} PROVE Resetting(x)'
  <2>1. /\ Resetting(x) /\ reset'[x] = reset[x] /\ reset[x].mark \in Nat
        /\ reset[x].of \subseteq Context
    BY <1>0, <1>1
  <2> QED  BY <1>0, <1>2, <2>1 DEF Resetting, Raises
<1>4. Resetting(r)'
  <2>1. ASSUME NEW c \in Context, Invalidate(r, c) PROVE Resetting(r)'
    <3>1. /\ reset'[r].at = "clients" /\ reset'[r].of = {c} /\ reset'[r].mark = begun'
          /\ begun' = begun + 1
      BY <1>0, <2>1, BeginIs DEF Invalidate
    <3>2. last'[c] >= begun'
      BY <1>0, <2>1, <3>1 DEF Invalidate, Raised
    <3> QED  BY <1>0, <3>1, <3>2 DEF Resetting
  <2>2. CASE SetPaths(r)
    <3>1. /\ reset'[r].at = "bump" /\ reset'[r].of = Context /\ reset'[r].mark = begun'
          /\ begun' = begun + 1
      BY <1>0, <2>2, BeginIs DEF SetPaths
    <3> QED  BY <1>0, <3>1 DEF Resetting
  <2>3. CASE Clear(r)
    <3>1. /\ reset'[r].at = "contexts" /\ reset'[r].of = Context /\ reset'[r].mark = begun'
          /\ begun' = begun + 1
      BY <1>0, <2>3, BeginIs DEF Clear
    <3>2. \A c \in Context : last'[c] >= begun'
      BY <1>0, <2>3, <3>1 DEF Clear, Raised
    <3> QED  BY <1>0, <3>1, <3>2 DEF Resetting
  <2>4. CASE BumpAll(r)
    <3>1. /\ reset'[r].at = "contexts" /\ reset'[r].of = Context
          /\ reset'[r].mark = reset[r].mark /\ begun' = begun
      BY <1>0, <2>4, ResetMoves DEF BumpAll, Resetting
    <3>2. \A c \in Context : last'[c] >= reset[r].mark
      BY <1>0, <2>4 DEF BumpAll, Raised
    <3> QED  BY <1>0, <3>1, <3>2 DEF Resetting
  <2>5. CASE ClearContexts(r)
    <3>1. /\ reset[r].at = "contexts" /\ reset'[r].at = "clients"
          /\ reset'[r].of = reset[r].of /\ reset'[r].mark = reset[r].mark
          /\ UNCHANGED <<begun, last>>
      BY <1>0, <2>5, ResetMoves DEF ClearContexts
    <3> QED  BY <1>0, <3>1 DEF Resetting
  <2>6. CASE DropClients(r)
    <3>1. /\ reset[r].at = "clients" /\ reset'[r].at = "discovery"
          /\ reset'[r].of = reset[r].of /\ reset'[r].mark = reset[r].mark
          /\ UNCHANGED <<begun, last>>
      BY <1>0, <2>6, ResetMoves DEF DropClients, stampVars
    <3> QED  BY <1>0, <1>2, <2>6, <3>1 DEF Resetting
  <2>7. CASE DropDiscovery(r)
    <3>1. reset'[r].at = "idle" /\ reset'[r].of = {} /\ reset'[r].mark = 1 /\ begun' = begun
      BY <1>0, <2>7, Idle DEF DropDiscovery, TypeOK
    <3>2. begun >= 1
      BY <1>0 DEF TypeOK, Stamp
    <3> QED  BY <3>1, <3>2 DEF Resetting
  <2> QED  BY <2>1, <2>2, <2>3, <2>4, <2>5, <2>6, <2>7 DEF ResetStep
<1>5. ASSUME NEW c \in Context \ emptied', clients'[c] # Absent
      PROVE  clients'[c] >= floor'[c]
  <2>1. c \notin emptied /\ clients'[c] = clients[c] /\ clients[c] >= floor[c]
    BY <1>0, <1>2, <1>5 DEF Raises
  <2>2. ASSUME DropDiscovery(r), c \in reset[r].of PROVE clients[c] >= reset[r].mark
    BY <1>0, <1>5, <2>1, <2>2 DEF DropDiscovery, Resetting
  <2>3. /\ floor'[c] # floor[c] => DropDiscovery(r) /\ c \in reset[r].of
        /\ floor'[c] \in {floor[c], reset[r].mark}
    BY DEF ResetStep, Invalidate, SetPaths, Clear, BumpAll, ClearContexts, DropClients,
       DropDiscovery, Begin, stampVars
  <2> QED  BY <2>1, <2>2, <2>3
<1> QED  BY <1>0, <1>3, <1>4, <1>5 DEF StaleOnlyBesideClear

-------------------------------------------------------------------------------
(* The invariant.                                                          *)

LEMMA InitInv == Init => Inv
<1> SUFFICES ASSUME Init PROVE Inv
  OBVIOUS
<1>1. /\ MaxResets \in Nat /\ 1 \in Stamp /\ Absent \in Stamp \cup {Absent} /\ 1 # Absent
      /\ IdleCall \in Call /\ IdleReset \in Reset
      /\ IdleCall.at = "idle" /\ IdleCall.want = "client" /\ IdleCall.quiet = FALSE
      /\ IdleReset.at = "idle" /\ IdleReset.of = {} /\ IdleReset.mark = 1
  BY Idle, CacheAssumption DEF Stamp, Absent
<1>2. TypeOK
  BY <1>1 DEF Init, TypeOK
<1>3. Counted
  <2>1. Bumping = {}
    BY <1>1 DEF Init, Bumping
  <2>2. IsFiniteSet(Bumping) /\ Cardinality(Bumping) = 0
    BY <2>1, FS_EmptySet
  <2> QED  BY <2>2 DEF Init, Counted
<1>4. \A p \in Caller : Kept(p)
  BY <1>1 DEF Init, Kept, Placed, Behind, Fresh, Undisturbed, HasSeen, HasOuter, Agrees
<1>5. (\A p \in Caller : Passed(p)) /\ (\A r \in Resetter : Resetting(r))
  BY <1>1 DEF Init, Passed, Resetting
<1>6. StaleOnlyBesideClear
  BY <1>2 DEF Init, StaleOnlyBesideClear
<1> QED  BY <1>2, <1>3, <1>4, <1>5, <1>6 DEF Inv, Kept

LEMMA InvStep == Inv /\ [Next]_vars => Inv'
<1>1. ASSUME Inv, NEW p \in Caller, CallerStep(p) PROVE Inv'
  <2>1. TypeOK' /\ Counted' /\ StaleOnlyBesideClear' /\ \A r \in Resetter : Resetting(r)'
    BY <1>1, CallerType, CallerKeepsCache DEF Inv
  <2>2. \A q \in Caller : Kept(q)' /\ Passed(q)'
    BY <1>1, CallerKeepsCalls, CallerKeepsPassed
  <2> QED  BY <2>1, <2>2 DEF Inv, Kept
<1>2. ASSUME Inv, NEW r \in Resetter, ResetStep(r) PROVE Inv'
  <2>1. TypeOK' /\ Counted'
    BY <1>2, ResetType, ResetKeepsCount
  <2>2. StaleOnlyBesideClear' /\ \A x \in Resetter : Resetting(x)'
    BY <1>2, ResetKeepsCache
  <2>3. \A q \in Caller : Kept(q)' /\ Passed(q)'
    BY <1>2, ResetKeepsCalls, ResetKeepsPassed
  <2> QED  BY <2>1, <2>2, <2>3 DEF Inv, Kept
<1>3. ASSUME Inv, UNCHANGED vars PROVE Inv'
  BY <1>3 DEF Inv, TypeOK, Counted, Bumping, Placed, Behind, Fresh, Undisturbed, Passed,
     Agrees, ToBeDropped, HasSeen, HasOuter, Current, Resetting, StaleOnlyBesideClear, vars, cacheVars, lockVars, stampVars
<1> QED  BY <1>1, <1>2, <1>3 DEF Next

LEMMA Invariance == Spec => []Inv
BY InitInv, InvStep, PTL DEF Spec

\* Once invalidate, clear or set_paths has returned, no client built before it is
\* cached for its contexts, whatever a `get` beside it was doing, unless a clear
\* emptied the generation that get had read.
THEOREM DroppedStaysDropped == Spec => []StaleOnlyBesideClear
<1>1. Inv => StaleOnlyBesideClear
  BY DEF Inv
<1> QED  BY <1>1, Invariance, PTL

\* A discovery across a reset of its context is not kept, but for that reset to
\* drop when it comes to it, and what a call brings
\* is cached when every reset beside it was of another context.
THEOREM ResetsExact == Spec => ResetsAreExact
<1>1. Inv /\ [Next]_vars =>
         [\A p \in Caller : dlock = p /\ discovery' # discovery /\ call[p].on \notin emptied =>
            last[call[p].on] <= call[p].since \/ ToBeDropped(call[p].on)]_vars
  <2> SUFFICES ASSUME Inv, Next, NEW p \in Caller, dlock = p, discovery' # discovery,
                      call[p].on \notin emptied
               PROVE  last[call[p].on] <= call[p].since \/ ToBeDropped(call[p].on)
    OBVIOUS
  <2>1. PICK q \in Caller : Keep(q)
    <3>1. ASSUME NEW r \in Resetter, ResetStep(r) PROVE FALSE
      <4>1. DropDiscovery(r)
        BY <3>1 DEF ResetStep, Invalidate, SetPaths, Clear, BumpAll, ClearContexts, DropClients,
           Begin
      <4> QED  BY <4>1, CacheAssumption DEF DropDiscovery
    <3>2. ASSUME NEW q \in Caller, CallerStep(q) PROVE Keep(q)
      BY <3>2 DEF CallerStep, StartGet, StartDiscovery, Start, LoadGeneration, ContextGeneration,
         Hit, Miss, Build, Fails, LockClients, ReadContext, ReadGlobal, Store,
     OuterGeneration, List, LockDiscovery,
         cacheVars
    <3> QED  BY <3>1, <3>2 DEF Next
  <2>2. q = p
    BY <2>1 DEF Keep, Inv, Placed
  <2>3. call[p].at = "keep" /\ Agrees(p, call[p].outer)
    BY <2>1, <2>2 DEF Keep, AskedAt, Same, Agrees
  <2>4. call[p].since >= last[call[p].on] \/ ToBeDropped(call[p].on)
    BY <2>3 DEF Inv, Passed
  <2>5. call[p].since \in Nat /\ last[call[p].on] \in Nat
    BY CallType, Numbers DEF Inv
  <2> QED  BY <2>4, <2>5
<1>2. Inv /\ [Next]_vars =>
         [\A p \in Caller : call[p].quiet /\ call'[p].at # call[p].at =>
            /\ call[p].at = "store" => clients'[call[p].on] = call[p].got
            /\ call[p].at = "keep" => discovery'[call[p].on] = call[p].got]_vars
  <2> SUFFICES ASSUME Inv, Next, NEW p \in Caller, call[p].quiet, call'[p].at # call[p].at
               PROVE  /\ call[p].at = "store" => clients'[call[p].on] = call[p].got
                      /\ call[p].at = "keep" => discovery'[call[p].on] = call[p].got
    OBVIOUS
  <2>1. CallerStep(p)
    <3>1. ASSUME NEW r \in Resetter, ResetStep(r) PROVE FALSE
      BY <3>1, ResetIs
    <3>2. ASSUME NEW q \in Caller, CallerStep(q) PROVE q = p
      BY <3>2, CallerType DEF Inv
    <3> QED  BY <3>1, <3>2 DEF Next
  <2>2. /\ TypeOK /\ Placed(p) /\ Undisturbed(p) /\ call[p].on \in Context
        /\ call[p].now \in Generations /\ call[p].seen \in Generations
        /\ call[p].outer \in Generations
    BY CallType DEF Inv
  <2>3. CASE call[p].at = "store"
    <3>1. Store(p)
      BY <2>1, <2>3 DEF CallerStep, StartGet, StartDiscovery, Start, LoadGeneration,
         ContextGeneration, Hit, Miss, Build, Fails, LockClients, ReadContext, ReadGlobal,
         OuterGeneration, List,
         LockDiscovery, Keep
    <3>2. Same(p, call[p].seen)
      BY <2>2, <2>3 DEF Undisturbed, Agrees, Same, Generations
    <3> QED  BY <2>2, <2>3, <3>1, <3>2 DEF Store, TypeOK
  <2>4. CASE call[p].at = "keep"
    <3>1. Keep(p)
      BY <2>1, <2>4 DEF CallerStep, StartGet, StartDiscovery, Start, LoadGeneration,
         ContextGeneration, Hit, Miss, Build, Fails, LockClients, ReadContext, ReadGlobal, Store,
     OuterGeneration, List,
         LockDiscovery
    <3>2. Same(p, call[p].outer)
      BY <2>2, <2>4 DEF Undisturbed, Agrees, Same, Generations
    <3> QED  BY <2>2, <2>4, <3>1, <3>2 DEF Keep, AskedAt, TypeOK
  <2> QED  BY <2>3, <2>4
<1> QED
  BY <1>1, <1>2, Invariance, PTL DEF Spec, ResetsAreExact, DiscoveryUntouched, OthersUndisturbed
================================================================================
