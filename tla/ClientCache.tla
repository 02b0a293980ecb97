------------------------------ MODULE ClientCache ------------------------------
(***************************************************************************)
(* The cache of authenticated clients and of what each cluster serves, and *)
(* the resets that race the calls filling it                               *)
(* (crates/kube/src/client_cache.rs).                                      *)
(*                                                                         *)
(* A step is a stretch between two awaits, or between two atomics.  A      *)
(* client is the moment it was built: the number of resets begun by then,  *)
(* so an entry is stale when it is older than a reset that has returned.   *)
(* The bearer is left out: a hit with another bearer is a miss.            *)
(***************************************************************************)
EXTENDS Naturals

CONSTANTS
    Context,      \* kube contexts
    Caller,       \* tasks calling get, or asking for discovery
    Invalidator,  \* tasks calling invalidate
    Clearer,      \* tasks calling clear or set_paths
    MaxResets     \* bound of the model: resets begun

Free == "free"   \* a mutex nobody holds

ASSUME CacheAssumption ==
    /\ MaxResets \in Nat /\ Context # {}
    /\ Invalidator \cap Clearer = {} /\ Free \notin Caller

VARIABLES
    generation,   \* ClientCache.generation
    ctxGen,       \* ClientCache.context_generations
    clients,      \* the client cached for a context, or Absent
    discovery,    \* the discovery index cached for a context, by its client
    lock,         \* who holds clients' mutex across an await, or Free
    dlock,        \* who holds discovery's
    call,         \* what each caller is at
    reset,        \* what each reset is at
    begun,        \* resets begun, plus one
    last,         \* the latest reset of a context that raised its generation
    floor,        \* the latest reset returned for a context
    emptied       \* contexts whose generation a clear emptied under a call

cacheVars == <<generation, ctxGen, clients, discovery>>
lockVars == <<lock, dlock>>
stampVars == <<begun, last, floor, emptied>>
vars == <<cacheVars, lockVars, call, reset, stampVars>>

Absent == 0
Resetter == Invalidator \cup Clearer
Stamp == 1..(MaxResets + 1)
Generations == [gen : 0..MaxResets, ctx : 0..MaxResets]
NoGenerations == [gen |-> 0, ctx |-> 0]

\* seen and outer: the generations `get` and `discover_cluster` started at;
\* now: those either has found again; got: the client; since: the resets begun
\* when `outer` was read; quiet: no reset of the context has run beside this call.
Call == [at : {"idle", "context", "lookup", "build", "insert", "again", "global",
               "store", "outer", "get", "list", "index", "reagain", "reglobal", "keep"},
         on : Context, want : {"client", "discovery"},
         seen : Generations, outer : Generations, now : Generations,
         got : Stamp \cup {Absent}, since : Stamp, quiet : BOOLEAN]
IdleCall == [at |-> "idle", on |-> CHOOSE c \in Context : TRUE, want |-> "client",
             seen |-> NoGenerations, outer |-> NoGenerations, now |-> NoGenerations,
             got |-> Absent, since |-> 1, quiet |-> FALSE]

\* of: the contexts a reset is for; mark: which reset it is.
Reset == [at : {"idle", "bump", "contexts", "clients", "discovery"},
          of : SUBSET Context, mark : Stamp]
IdleReset == [at |-> "idle", of |-> {}, mark |-> 1]

TypeOK ==
    /\ generation \in 0..MaxResets
    /\ ctxGen \in [Context -> 0..MaxResets]
    /\ clients \in [Context -> Stamp \cup {Absent}]
    /\ discovery \in [Context -> Stamp \cup {Absent}]
    /\ lock \in Caller \cup {Free} /\ dlock \in Caller \cup {Free}
    /\ call \in [Caller -> Call]
    /\ reset \in [Resetter -> Reset]
    /\ begun \in Stamp
    /\ last \in [Context -> Stamp] /\ floor \in [Context -> Stamp]
    /\ emptied \subseteq Context

Init ==
    /\ generation = 0
    /\ ctxGen = [c \in Context |-> 0]
    /\ clients = [c \in Context |-> Absent]
    /\ discovery = [c \in Context |-> Absent]
    /\ lock = Free /\ dlock = Free
    /\ call = [p \in Caller |-> IdleCall]
    /\ reset = [r \in Resetter |-> IdleReset]
    /\ begun = 1
    /\ last = [c \in Context |-> 1]
    /\ floor = [c \in Context |-> 1]
    /\ emptied = {}

-------------------------------------------------------------------------------
(* get.                                                                    *)

\* A call starts; it is quiet while no reset of its context runs.
Start(p, c, what, place) ==
    /\ call[p].at = "idle"
    /\ call' = [call EXCEPT ![p] =
          [IdleCall EXCEPT
              !.at = place, !.on = c, !.want = what,
              !.seen.gen = generation, !.outer.gen = generation,
              !.quiet = \A r \in Resetter : c \notin reset[r].of]]
    /\ UNCHANGED <<cacheVars, lockVars, reset, stampVars>>

\* `generation` is read first, then the context's.
StartGet(p, c) == Start(p, c, "client", "context")

LoadGeneration(p) ==
    /\ call[p].at = "get"
    /\ call' = [call EXCEPT ![p].at = "context", ![p].seen.gen = generation]
    /\ UNCHANGED <<cacheVars, lockVars, reset, stampVars>>

ContextGeneration(p) ==
    /\ call[p].at = "context"
    /\ call' = [call EXCEPT ![p].at = "lookup", ![p].seen.ctx = ctxGen[call[p].on]]
    /\ UNCHANGED <<cacheVars, lockVars, reset, stampVars>>

\* `discover_cluster` goes on with the client; a caller of `get` has it.
Answer(p, client) ==
    call' = [call EXCEPT ![p] = IF @.want = "discovery"
                                THEN [@ EXCEPT !.at = "list", !.got = client]
                                ELSE IdleCall]

\* A hit, unless the bearer resolved for this call is another one.
Hit(p) ==
    /\ call[p].at = "lookup"
    /\ lock = Free
    /\ clients[call[p].on] # Absent
    /\ Answer(p, clients[call[p].on])
    /\ UNCHANGED <<cacheVars, lockVars, reset, stampVars>>

Miss(p) ==
    /\ call[p].at = "lookup"
    /\ lock = Free
    /\ call' = [call EXCEPT ![p].at = "build"]
    /\ UNCHANGED <<cacheVars, lockVars, reset, stampVars>>

\* The paths are read and the client built from them, after any reset so far.
Build(p) ==
    /\ call[p].at = "build"
    /\ call' = [call EXCEPT ![p].at = "insert", ![p].got = begun]
    /\ UNCHANGED <<cacheVars, lockVars, reset, stampVars>>

\* No bearer for the context, a kubeconfig that cannot be read, or a cluster
\* that does not say what it serves.
Fails(p) ==
    /\ call[p].at \in {"lookup", "build", "list"}
    /\ call' = [call EXCEPT ![p] = IdleCall]
    /\ UNCHANGED <<cacheVars, lockVars, reset, stampVars>>

\* The mutex is held while the generations are read again.
LockClients(p) ==
    /\ call[p].at = "insert"
    /\ lock = Free
    /\ lock' = p
    /\ call' = [call EXCEPT ![p].at = "again"]
    /\ UNCHANGED <<cacheVars, dlock, reset, stampVars>>

\* The context's is read first, behind a mutex of its own.
ReadContext(p) ==
    /\ call[p].at \in {"again", "reagain"}
    /\ call' = [call EXCEPT ![p].at = IF @ = "again" THEN "global" ELSE "reglobal",
                            ![p].now.ctx = ctxGen[call[p].on]]
    /\ UNCHANGED <<cacheVars, lockVars, reset, stampVars>>

ReadGlobal(p) ==
    /\ call[p].at \in {"global", "reglobal"}
    /\ call' = [call EXCEPT ![p].at = IF @ = "global" THEN "store" ELSE "keep",
                            ![p].now.gen = generation]
    /\ UNCHANGED <<cacheVars, lockVars, reset, stampVars>>

\* Nothing was reset since `was`; a deviation asks the whole cache only.
SameGlobally(p, was) == call[p].now.gen = was.gen
Same(p, was) == call[p].now = was

Store(p) ==
    /\ call[p].at = "store"
    /\ lock' = Free
    /\ clients' = IF Same(p, call[p].seen)
                  THEN [clients EXCEPT ![call[p].on] = call[p].got] ELSE clients
    /\ Answer(p, call[p].got)
    /\ UNCHANGED <<generation, ctxGen, discovery, dlock, reset, stampVars>>

-------------------------------------------------------------------------------
(* get_discovery, resolve_resource and discover_cluster.                   *)

\* A cached index that answers is all there is to a call; this is the other.
StartDiscovery(p, c) == Start(p, c, "discovery", "outer")

OuterGeneration(p) ==
    /\ call[p].at = "outer"
    /\ call' = [call EXCEPT ![p].at = "get", ![p].outer.ctx = ctxGen[call[p].on],
                            ![p].since = begun]
    /\ UNCHANGED <<cacheVars, lockVars, reset, stampVars>>

\* What the client's cluster serves, and its custom resources.
List(p) ==
    /\ call[p].at = "list"
    /\ call' = [call EXCEPT ![p].at = "index"]
    /\ UNCHANGED <<cacheVars, lockVars, reset, stampVars>>

LockDiscovery(p) ==
    /\ call[p].at = "index"
    /\ dlock = Free
    /\ dlock' = p
    /\ call' = [call EXCEPT ![p].at = "reagain"]
    /\ UNCHANGED <<cacheVars, lock, reset, stampVars>>

\* What an index is checked against.
AskedAt(p) == call[p].outer

\* After a reset it is an error, and nothing is cached.
Keep(p) ==
    /\ call[p].at = "keep"
    /\ dlock' = Free
    /\ discovery' = IF Same(p, AskedAt(p))
                    THEN [discovery EXCEPT ![call[p].on] = call[p].got] ELSE discovery
    /\ call' = [call EXCEPT ![p] = IdleCall]
    /\ UNCHANGED <<generation, ctxGen, clients, lock, reset, stampVars>>

-------------------------------------------------------------------------------
(* invalidate, clear and set_paths.                                        *)

\* A reset of cs begins: what is built from now on is newer than it.
Begin(r, cs, place) ==
    /\ reset[r].at = "idle"
    /\ begun + 1 \in Stamp
    /\ begun' = begun + 1
    /\ reset' = [reset EXCEPT ![r] = [at |-> place, of |-> cs, mark |-> begun + 1]]
    /\ call' = [p \in Caller |-> [call[p] EXCEPT !.quiet = @ /\ call[p].on \notin cs]]
    /\ UNCHANGED <<clients, discovery, lockVars, floor>>

Raised(cs, mark) ==
    last' = [c \in Context |-> IF c \in cs /\ mark > last[c] THEN mark ELSE last[c]]

\* A deviation: every context's calls in flight are turned away.
BumpEverything(c) == generation' = generation + 1 /\ UNCHANGED ctxGen
Bump(c) == ctxGen' = [ctxGen EXCEPT ![c] = @ + 1] /\ UNCHANGED generation

Invalidate(r, c) ==
    /\ r \in Invalidator
    /\ Begin(r, {c}, "clients")
    /\ Bump(c)
    /\ Raised({c}, begun')
    /\ UNCHANGED emptied

\* set_paths, when the paths differ: they are replaced first.
SetPaths(r) ==
    /\ r \in Clearer
    /\ Begin(r, Context, "bump")
    /\ UNCHANGED <<generation, ctxGen, last, emptied>>

BumpAll(r) ==
    /\ reset[r].at = "bump"
    /\ generation' = generation + 1
    /\ Raised(Context, reset[r].mark)
    /\ reset' = [reset EXCEPT ![r].at = "contexts"]
    /\ UNCHANGED <<ctxGen, clients, discovery, lockVars, call, begun, floor, emptied>>

Clear(r) ==
    /\ r \in Clearer
    /\ Begin(r, Context, "contexts")
    /\ Raised(Context, begun')
    /\ generation' = generation + 1
    /\ UNCHANGED <<ctxGen, emptied>>

ClearContexts(r) ==
    /\ reset[r].at = "contexts"
    /\ ctxGen' = [c \in Context |-> 0]
    /\ emptied' = emptied \cup {call[p].on : p \in {q \in Caller : call[q].at # "idle"}}
    /\ reset' = [reset EXCEPT ![r].at = "clients"]
    /\ UNCHANGED <<generation, clients, discovery, lockVars, call, begun, last, floor>>

Without(cache, cs) == [c \in Context |-> IF c \in cs THEN Absent ELSE cache[c]]

DropClients(r) ==
    /\ reset[r].at = "clients"
    /\ lock = Free
    /\ clients' = Without(clients, reset[r].of)
    /\ reset' = [reset EXCEPT ![r].at = "discovery"]
    /\ UNCHANGED <<generation, ctxGen, discovery, lockVars, call, stampVars>>

\* ... and the reset returns: nothing older than its start is to stay.
DropDiscovery(r) ==
    /\ reset[r].at = "discovery"
    /\ dlock = Free
    /\ discovery' = Without(discovery, reset[r].of)
    /\ reset' = [reset EXCEPT ![r] = IdleReset]
    /\ floor' = [c \in Context |-> IF c \in reset[r].of /\ reset[r].mark > floor[c]
                                   THEN reset[r].mark ELSE floor[c]]
    /\ UNCHANGED <<generation, ctxGen, clients, lockVars, call, begun, last, emptied>>

-------------------------------------------------------------------------------
CallerStep(p) ==
    \/ \E c \in Context : StartGet(p, c) \/ StartDiscovery(p, c)
    \/ LoadGeneration(p) \/ ContextGeneration(p)
    \/ Hit(p) \/ Miss(p) \/ Build(p) \/ Fails(p)
    \/ LockClients(p) \/ ReadContext(p) \/ ReadGlobal(p) \/ Store(p)
    \/ OuterGeneration(p) \/ List(p) \/ LockDiscovery(p) \/ Keep(p)

ResetStep(r) ==
    \/ \E c \in Context : Invalidate(r, c)
    \/ SetPaths(r) \/ BumpAll(r) \/ Clear(r) \/ ClearContexts(r)
    \/ DropClients(r) \/ DropDiscovery(r)

Next ==
    \/ \E p \in Caller : CallerStep(p)
    \/ \E r \in Resetter : ResetStep(r)

Spec == Init /\ [][Next]_vars

-------------------------------------------------------------------------------
\* "Drop any cached client for a context": once a reset has returned, no client
\* built before it is cached, however long a `get` beside it takes, but for one
\* case: a clear empties the context's generation under the call, so an
\* invalidation can put it back to what the call has read.
StaleOnlyBesideClear ==
    /\ TypeOK
    /\ \A c \in Context \ emptied : clients[c] # Absent => clients[c] >= floor[c]

\* The reset that was the latest to raise the context's generation has still to
\* drop its discovery.
ToBeDropped(c) ==
    \E r \in Resetter :
        /\ reset[r].at \in {"contexts", "clients", "discovery"}
        /\ c \in reset[r].of /\ reset[r].mark = last[c]

\* An index is kept only when no reset of its context raised a generation under
\* its discovery, or when that reset is still to drop it, for it came after the
\* index was checked; but for the same case.
DiscoveryUntouched ==
    [][\A p \in Caller : dlock = p /\ discovery' # discovery /\ call[p].on \notin emptied =>
          last[call[p].on] <= call[p].since \/ ToBeDropped(call[p].on)]_vars

\* A reset of one context costs no other one anything: a call none of whose
\* context's resets ran beside it is cached.
OthersUndisturbed ==
    [][\A p \in Caller : call[p].quiet /\ call'[p].at # call[p].at =>
          /\ call[p].at = "store" => clients'[call[p].on] = call[p].got
          /\ call[p].at = "keep" => discovery'[call[p].on] = call[p].got]_vars

\* A reset costs its own contexts what was under way, and no other context anything.
ResetsAreExact == DiscoveryUntouched /\ OthersUndisturbed
================================================================================
