# srelens in TLA+

TLA+ models of the concurrent parts of srelens, checked with TLC, and theorems
about them proved with TLAPS. Each module says in its header which file it
models; `PROJECT.json` maps every definition to the lines it translates
(`map`), and lists the runs, the deviations each property is known to catch
(`mutants`), the hazards and the components.

    tlc -config MCSidecarSession.cfg MCSidecarSession   # one run
    tlapm SidecarSessionProofs.tla                      # the proofs of a module

## 1. The system

srelens is a Kubernetes workspace. One set of Rust crates serves four fronts: a
Tauri desktop app, a web server, a terminal UI and an MCP server for agents.
Everything a front can do is a *capability* in a registry; reads that go on
(logs, watches, port-forwards, terminals) are *streams* that emit into a
front's sink; extensions may bring a native process, the *sidecar*, which the
host starts, supervises and talks JSON-RPC with.

| part | where | state it keeps | operations | works with |
|---|---|---|---|---|
| sidecar connection | `plugin-host/src/sidecar/connection.rs` | tables of pending requests and open streams, of the sidecar's calls; three semaphores; `ended` | request, open_stream, lifecycle call, answer or frame handled, call answered, end | supervisor (ends it), broker (answers calls), SDK at the other end |
| sidecar supervisor | `.../supervisor.rs` | status, the process, the published session and connection, the count of failures | start, restart, stop, request, drop; exit, violation and failed check of the process | connection, launcher, registry (one supervisor an app) |
| sidecar broker | `.../broker.rs`, `data.rs` | the consent asked | serve one call: annotate, confirm, invoke, audit | capability registry, confirmations |
| extension inventory | `registry/src/extensions.rs`, `durable.rs`, `extensions/*` | installed apps in a durable file, running sidecars, tool snapshots, scan Jobs | install, enable, disable, quarantine, reconcile, run a Job | supervisor, kube, trust |
| client cache | `kube/src/client_cache.rs` | clients and discovery by context, two generations | get, discover_cluster, invalidate, clear, set_paths | every capability and stream that reaches a cluster |
| object watches | `kube/src/watch.rs`, `streams/src/watch.rs` | the current list, the reconnecting flag; a task per channel | start, stop, reduce an event, relist | client cache, sink |
| log stream, log spool | `streams/src/logs.rs`, `log_spool.rs` | lines pending a frame; segment files of past lines | push, status, tick, complete; append, rotate, read a page, export | kube log follower, sink, user environments (directory) |
| port-forwards | `streams/src/forward.rs` | a map of forwards, traffic, how each ended | start, stop, list, reconnect, give up | client cache, sink |
| app streams | `streams/src/app.rs` | streams by app and window, rate counters | open, emit, cancel, end a window or an app | sidecar streams, sink |
| web server | `server/src/users.rs`, `ws/hub.rs`, `oidc_provider.rs`, `auth/*` | an environment a user with its decrypted files; connections; tokens in sqlite | env_for, invalidate, sweep, teardown; register, deliver; refresh | streams, client cache |
| MCP server | `mcp/src/*` | subscriptions with generations | subscribe, on_dead, call with consent | registry, confirmations |
| assistant | `llm/`, `agent/` | the turns of a chat | rounds of a turn | MCP tools |
| desktop | `apps/desktop/src-tauri/src/*` | pending confirmations, the vault file | ask, answer, time out; update, re-key | all of the above |
| SDKs, frontend, TUI, packaging | `sdk/`, `packages/`, `apps/tui`, ... | the sidecar's half of the session; views | | |

### What is hard, and what makes each part correct

* **Sidecar connection.** Futures that may be dropped at any await race the
  reader of the sidecar's stdout, their own timeouts and the end of the session
  for entries of the same tables, while semaphores held by guards bound them.
  Correct: no permit or slot outlives its request; each request is answered or
  cancelled and never both, and none is forgotten; a stream's reader is told
  how it ended, last; a late line is no violation; the end wakes everyone; a
  sidecar that never reads its stdin costs a bounded memory.
* **Sidecar supervisor.** One task, with a person's controls, process exits,
  timers and the drop of the supervisor around it. Correct: one process at a
  time, no session left open, a status that follows the documented life cycle
  and the backoff policy, a stop that returns and means it.
* **Client cache.** Clients are built under no lock, so resets overtake them.
  Correct: what a reset dropped does not come back.
* **User environments.** Builds hold a lock that invalidation does not take,
  and share a directory with it. Correct: builds take turns; no environment is
  replaced, outlives its kubeconfig, or loses its files.
* **Logs.** Follows, the frame task, pages and exports share a spool that
  rotates, fails and is removed. Correct: lines keep their numbers and order,
  a page has no hole, an export is whole or an error, the last line goes out.
* **App streams.** Opens, cancels, windows that go, inventory writes and the
  source's own end meet on one entry and one channel. Correct: the channel is an
  open frame, data and one terminal frame; no stream outlives its window's page
  or its app's permission; an ending ends the source, whenever it comes.
* **MCP subscriptions.** The threads of watches call back into the registry that
  the request which started them is still writing. Correct: a client that was
  told it is subscribed is watched for, or hears that it is not; no watch runs
  for nobody; a change is notified.
* **Port-forwards.** A task that reconnects and ends, a map that lists it, and a
  page that hears of both over a socket it may lose. Correct: an end is final,
  what the host holds can be seen and stopped, a target that is gone is given up.
* **Consent.** Calls from chats and sidecars wait for a person in front of a
  window that is late, reloads, locks and answers twice. Correct: only a yes runs
  a call, what ran or was refused is recorded, a prompt stands for a request that
  waits, and an answer that landed is what happened.
* **Scan Jobs.** A Job in somebody else's cluster, whose creation may be
  answered late or never. Correct: it has one keeper until it is gone, the app
  one scan, and a result is that of a Job that is gone.
* **The parts not modelled yet** have their hazards in `PROJECT.json`: watches
  detached by two starts on one channel, a refresh token used twice, a sidecar
  started for an app just turned off.

## 2. The plan

Done (this order: what an extension or a user cannot recover from first):

1. `SidecarSession`, `SidecarCalls`: the two halves of the host's side of a
   session, with `SidecarSessionProofs` and `SidecarCallsProofs`.
2. `SidecarSupervisor` implementing the abstract `SidecarLifecycle`, and
   `SidecarCaller`, a request made beside it, with `SidecarSupervisorProofs`.
3. `ClientCache` with `ClientCacheProofs`; `UserEnvs`; `LogSpool` inside `LogTail`.
4. `AppStreams` implementing the abstract `StreamFrames`, with `LogTail` in
   `StreamProofs`; `McpSubscriptions`, with `UserEnvs` in `ServerProofs`.
5. `PortForwards`, composed with the page that shows them in `ForwardRows`.
6. `Confirmations`, composed with the window that asks in `AgentConsent`, which
   implements the abstract `ConsentGate`; proofs in `AgentConsentProofs`.
7. `ScanJobs`, with `ForwardRows` in `HostProofs`.

Next:

8. The connection of `SidecarSession` with the SDK's session
   (`sdk/rust/src/session.rs`) across two pipes, which checks the protocol.
9. `WsHub` composed with `UserEnvs`: overflow, reconnect and the teardown by
   epoch. `TokenProvider`: single-flight refresh against login. `WatchManager`.
10. `ExtensionInventory` with `AppSidecars`: reconcile against a start under way,
    durable replace against power loss. `AgentLoop`, `Vault`, `ObjectWatch`, and
    `logStream.ts` in the frontend last.

Every safety property the runs check is proved (section 5). A new module is
written to be proved about too: no `RECURSIVE` operator, recursive functions
where a fold would be, and an invariant that is a conjunction of named parts.

## 3. The modules

In all of them a step is what the code does between two points where another
thread can act: an await, a lock taken or released, an atomic, a send on a
channel. Locks held across an await are variables; a lock held within one step
is not. Callers, timers, the cluster and the process at the other end are
nondeterministic, and an action that starts something is bounded by a constant
(`Max...`, named in each module as a bound of the model). Operators whose comment
calls them *a deviation* are no part of the specification: they are the mutants.
The specifications of `UserEnvs`, `LogTail` and `ScanJobs` are called `EnvsSpec`,
`TailSpec` and `ScansSpec`, and their parts likewise, so that a module of proofs can
extend them beside another.

### SidecarSession (`connection.rs`)

`pending`, `open`, `nextId`, `nextStream`, `ended` are the fields of `State`;
`permits` and `slots` the holders of the two semaphores; `answer` the oneshot
of each request, `events` and `receivers` the channel of each stream; `taken`
and `takenOpen` what `end` drained and has yet to answer; `sent` the lines
written. A task runs `request`, `open_stream` or the supervisor's `call`, and
`pc` is where it is: each early return, the timeout, and the drop of the future
at each await are actions (`TimeOut`, `Abandon`, `DropStream`), and the guards
that run then are steps of their own, since they take the lock again
(`DropPending`, `SendCancel`, `CloseStream`, `SendStreamCancel`). `Response`,
`Deliver`, `Finish`, `UnknownStream` are what the reader does with a line; the
sidecar may send any at any time. Parsing is left out: a line that breaks the
protocol ends the reader, as `Response` for an id never sent does.

### SidecarCalls (`connection.rs`, `answer_call`)

The reader admits a call in steps (`ReadCall`, `Reserve`, `TakePermit`,
`Insert`), a worker waits for the broker or its cancellation (`Choose`),
releases what it held (`Release`) and queues its answer (`Settle`); the writer
may never run (`Write` is not fair). `log` is the history of answers and
`written` how many left the queue.

### SidecarSupervisor, SidecarLifecycle, SidecarCaller (`supervisor.rs`)

`loc` is where the `supervise` task is. A session is the number of its launch;
`live`, `killed`, `over`, `reader` say what has become of its process, its
session and its reader. A failed start or check may come at any time.
`SidecarLifecycle` is the status and the count of failures alone: what leads to
what, and how often a failure is retried; `ImplementsLifecycle` says every step
of the supervisor is one of its steps or changes neither. `SidecarCaller` adds
one caller of `request`, which clones the published session (`Clone`), asks it
whether it is over (`Look`) and begins its request in it (`Begin`), each under a lock of
its own; the supervisor's steps come between them, and the session looks again
under the lock that `end` takes (`Enters`). Who waits is told by the end of the
session (`Told`), or by what needs no end: an answer, a timeout, its caller (`Return`).

### ClientCache (`client_cache.rs`)

A client is stamped with the number of resets begun when it was built, so
staleness is a comparison. A call reads the global generation, the context's,
looks up, builds under no lock, takes the mutex, reads the two generations again, one
after the other (`ReadContext`, `ReadGlobal`), compares and stores; a discovery
ends the same way, under the other mutex. A reset bumps, and then takes the two
maps in turn, each when nobody holds it. `floor` is the latest reset to have
returned for a context, `last` the latest to have raised its generation, and
`emptied` holds the contexts for which a clear reset the generation to zero
under a call (section 6).

### UserEnvs (`users.rs`, and its callers in `api_kubeconfigs.rs`, `auth/routes.rs`)

One user; an environment is the version of the kubeconfigs it was built from.
`env_for` looks up, waits for the build lock, looks again, lists, prepares the
directory, writes, inserts; a request may be given up at each await.
`DropEnv` and `Wipe` are the two steps of `invalidate`. `floor` is the latest
change whose handler has answered.

### LogSpool, LogTail (`log_spool.rs`, `logs.rs`)

A line is its number and a size. `segments` is the spool's list, `disk` what the
files hold, `buffer` what the open segment's writer has not flushed. Readers
take a snapshot under the lock and then open files by path, one a step.
`LogTail` extends it with the writer's side: numbering, the frame held back by
two caps, the notice of a failed spool, a follow's status and completion.
Appending happens only inside the tail's push, so the two are one specification.

### AppStreams, StreamFrames (`streams/src/app.rs`, `extensions/streams.rs`, `streams/pods.rs`)

`listed`, `handle` and `epoch` are the manager's state, `ended` and `sent` a
stream's `Shared`, `app` the inventory's record. An open asks for the app's
authority (`Authorize`), awaits the cluster, subscribes to the inventory
(`Subscribe`), is listed (`Insert`), introduces itself, spawns its task and
records the handle (`Introduce`, `Record`); an ending may come between any two.
A write changes the record, then chooses the streams to end, then announces
itself (`Write`, `Choose`, `Announced`). A source follows the inventory or asks
again at each tick. The rate bucket is a free choice in `Data`, the supervisor's
`finish` is one step with the source's return, a cancel and the end of a view
are the same action on a stream. `StreamFrames` is the module's own contract
(`app.rs:18-24`) on one channel: open, data, one terminal frame, in that order. The
code keeps it but for one case, which `FramesContract` names: a stream that is
ended between its listing (line 345) and its open frame (356) sends its terminal
frame alone (`EndedUnopened`, and section 6).

### McpSubscriptions (`mcp/src/stdio.rs`, `http.rs`, `subscriptions.rs`, `mcp_watch.rs`)

One session, over stdio or over HTTP (`transport`, chosen in `Init`). A watch is
its number, which is also its generation. A request starts a watch, records the
registry's entry and its generation, and then reads whether it is dead, while
the watch's thread marks itself dead and then reads its generation: whichever
is second sees the other (`Record`, `Died`; `Die`, `ReadGeneration`, `Evict`).
`dirty` and `wake` are what a stream shares with its watches. Left out: the tool
list's notifications, the bound on sessions, reads and the audit.

### PortForwards, ForwardRows (`forward.rs`, `packages/core/src/lib/forward.ts`)

`PortForwards` is the manager's map and each forward's task: attempts, a session
that is lost within the recovery window or after it, the count of failures
(which stops at `MAX_ATTEMPTS`), giving up, stop. `ForwardRows` adds a page of
the web front: the row store, one listing at a time, commands answered in any
order, and a socket that orders its events but may be lost. The three channels
of a forward are subscribed as one; bytes and their counters are left out.

### Confirmations, AgentConsent, ConsentGate (`broker.rs`, `mcp/src/stdio.rs`, `mcp_confirm.rs`, `AgentConsent.tsx`)

`Confirmations` is the host: a chat's call over MCP, a sidecar's write and its
scan Job, all through `PromptUser::ask` and the map `Pending`; who runs what
after a yes, and what is recorded when a caller goes. `AgentConsent` is the
window's effect: two listeners that land one after the other, the read of what
was waiting and its merge, the queue, one answer at a time, a lock that refuses
everything, a reload. `ConsentGate` is what a call is promised; `Loose` calls
are a chat's, whose caller may take them down while they run: such a call leaves
no record (section 6). The action `Snapshot` gives the requests in any order.
Left out: the app's quit, calls that need no consent, install previews, the check
of a declared action, headless policies, the typed name on a protected cluster.

### ScanJobs (`extensions/jobs.rs`)

The app's slot, the call, the task that creates its Job (which outlives the
call), the `Cleanup` guard and the task its drop starts, and the Job in the
cluster. `known` is what the guard has: a pending creation, an owned Job, or
nothing. A creation that failed may still be committed (`Commit`), every request
may take effect without its reply (`PerhapsDeleting`), and a crash leaves the
Job to its deadline and TTL. A result file may refuse to go (`stuck`): the code
ignores it. Sending an error to the caller and dropping the
guard are one step; a Job's name is never another's, so the checks of name, UID
and labels always hold; the worker's log is left out.

## 4. The runs

| run | instance | shows |
|---|---|---|
| `session` | 2 tasks, 1 request permit, 1 stream slot, 2 places a stream, 2 ids of each | the tables, permits and streams stay consistent; nothing is forgotten; the end wakes waiters |
| `calls` | 2 ids, 1 permit, 2 answers, each id twice | answers are bounded, in turn and true, a refusal included; the end drains |
| `supervisor` | 1 stop, 1 request at a time, 2 restarts, 3 launches, a backoff of one | life cycle, one process, sessions over, stop returns, a request is begun in a session that serves and told of its end |
| `client_cache` | 2 contexts, a call, an invalidation, a clear or set_paths, 2 resets | what a reset dropped stays away, but beside a clear; others are undisturbed |
| `user_envs` | 3 requests, a change, a logout, a sweep, 2 versions | builds take turns, nothing in use is disturbed, every request returns |
| `log_tail` | 2 follows, 4 lines of two sizes, segments of 2, history of 6, one reader | numbers, order, pages, exports, frames |
| `app_streams` | 2 opens (one follows, through a window; one polls), a limit of 1, a write, a window that goes, the manager's drop | the contract on frames; no stream outlives its window, nor its app but by a late open; endings stop sources |
| `mcp_subscriptions` | 2 URIs, a limit of 1, 2 watches, 2 streams, stdio and HTTP | clients and watches match; a working watch is kept; changes are notified |
| `host` | 2 scans of one app; apart from them 1 forward, 1 page, 3 attempts, a queue of 3, 2 reloads | a Job has one keeper, results stand, scans end; an end is final, what is held is shown, a lost target is given up |
| `consent` | a chat's call and a sidecar's Job, one upset | prompts match requests; answers stand; the gate is implemented |
| `user_envs_stale` | a request and a change | refutes a comment of the code (section 6) |
| `app_streams_open` | as `app_streams` | refutes another |

**Why the bounds are enough.** The hazards are races of two or three parties
over one entry: two tasks and one permit make every pair of a task, its rival
and the end of the session meet, and a second id lets a late line for the first
be told from a new request. Two places in a stream's buffer are the least in
which the place kept for the terminal event differs from the buffer. Two uses of
an id are the least reuse; with one permit the second id is refused as busy
while the first is with the broker, and two places for answers are both taken
by then. Three launches with two restarts contain a failure, a retry past
the backoff, a disabled state, a restart from it and a stop on top. Two resets
are needed for a generation to go away and come back. Three requests are a
holder of the lock, one that waits and one that overtakes. Four lines in
segments of two rotate a history of six while a reader is inside it. Two opens
with a limit of one reach the limit, and one write, one reload of the window and
the drop are each a full ending that may meet the others. Two watches are one
that is replaced and one that replaces it, and with a limit of one the second
URI is refused. Forwards share nothing, so one is enough; three attempts have a
first, a middle and a last, and two reloads make a listing that is stale twice.
An upset is a reload, a lock, a failed read, a caller that goes or a refusal from
outside: each meets every step of both calls, two of them together are not
checked. Two calls of one app are a scan and the next, or one refused beside it.

**Fairness.** Only what the runtime does by itself is fair. `session`: every
task that can go on is polled, and `end`, which has no await, runs through; the
sidecar, its reader, the callers and the timers owe nothing, so
`EndWakesWaiters` rests on the end alone. `calls`: a worker goes on once it has its answer or its
cancellation and `end` runs through; the broker may never answer and the sidecar
never read. `supervisor`: the task is polled, its own timers fire, a process
that was *killed* exits; one that was not owes nothing, nor do its checks. The
end of a session sends its error to all who wait in it (`Told`); an answer owes nothing.
`user_envs`: requests are polled, handlers run through, and the build lock is
tokio's, which is fair (strong fairness of `Lock`): waiters get it in turn.
`app_streams`: tasks run; no source sends, no cluster answers and no person acts
unless it will. `mcp_subscriptions`: threads run and the client reads what it is
sent; no object changes and no watch dies unless it will. `host`, of a forward: its
task runs, attempts return (each has a timeout), timers fire, and the page runs
its callbacks; a session that serves may serve for ever. `consent`: a request's
task is polled, its minute passes, what was allowed returns; nothing is assumed of the
window or the person. `host`, of a scan: every await of `jobs.rs` has a timeout (30
seconds for a creation, 1230 for a run, 30 for each half of a cleanup; a client
that is built for it fails or connects). Its Job's own deadline and TTL, which
the code only writes into the Job (`jobs.rs:783`), are assumed of the cluster: it ends a Job at
the one, removes it after the other and finishes a deletion (`ClusterOwes`).
`client_cache` and `log_tail` have safety properties only and assume none.

**Deadlock** is checked in `session`, `calls` and `user_envs`, where some step
is always possible. The other models may simply be done (a bound is reached,
the supervisor is gone, a stream, a call or a scan has ended). That nothing waits for ever is
what `EndWakesWaiters`, `EndedDrains`, `StopReturns`, `GoneIsTold`, `EnvForReturns`,
`EndsForGood`, `Notified`, `GivesUpAtLast`, `ImplementsGate` and `ScansEnd` say.

**Parts in one run.** `MCHost` explores the scans while no forward has begun and the forward
while no scan has: they share no state, so no step of one can be what the other
depends on. `consent` has a chat's call and a Job; a sidecar's ordinary approved
write, which runs on a task of its own, is in the model and covered by
the theorem `GateSafe` (section 5), not by that run.

## 5. The proofs

`SidecarSessionProofs`, for any set of tasks, any limits and any bound on ids
(assuming `SessionAssumption`: limits are positive naturals):

* `TypeCorrect`: `Spec => [](TypeOK /\ Placed)`. `TypeOK` alone is not
  inductive: an action that uses `id[t]` or `sid[t]` needs it set. `Placed`
  says where a task's locals are set, and is inductive with it.
* `RequestsCorrect`: `Spec => [](AnsweredOrCancelled /\ EndedAdmitsNothing)`.
  The invariant adds `Numbered` (an id is given to one task, is in one of
  `pending` and `taken`, and an id not yet given has no answer and no cancel
  line) and `OneOutcome` (an id in a table has no outcome yet, and the task
  about to write a cancel line has taken its id out). Whoever takes the id out
  of `pending` is then the only one to decide its outcome. It is proved an
  action at a time, with a lemma for tasks, one for the reader and one for the end.
* `NothingForgotten`: `Spec => []GivenUpIsCancelled`, on top of it: every way
  out of `pending` leads to an answer, to `end`, or to a cancel line.
* `NothingLeaks`: `Spec => []NoLeak`, which contains `TypeOK`. A slot is handed on: `Slotted` says that
  it is the opening task's until the stream is in the table, and the table's
  until its task drops the guard. `StreamNumbered` keeps the numbers of streams
  apart, without which one task's end would free another's entry.
* `StreamsEnd`: `Spec => []StreamsEndOnce`. `CancelledOnce` says that an open
  stream has not been cancelled and nobody is about to, which makes whoever
  takes it out of the table the only one who may. `Channels` says that the last
  place of a stream's channel stays free until it ends and then holds how it
  ended (`ChannelOK`), and that whoever still reads has its receiver, and has
  been told or will find the terminal event at the end (`Told`): a full channel
  cannot swallow the end.

`SidecarCallsProofs`, for any ids, any limits and any bound on calls (assuming
`CallsAssumption`: limits are positive naturals). The invariant is three parts.
`Owned` says who has a call: the reader until it has a worker, its worker until
it is answered, and what its entry can be meanwhile, before and after the end.
`History` relates the answers and cancellations so far to the calls made: an
id's calls are numbered, only the last can be without an answer, and its
cancellation was taken exactly when its entry says so. `Bounded` counts the
places of the answer queue.

* `AnswersComeInTurn`: `Spec => []AnswersInTurn`.
* `CancelledAreAnswered`: `Spec => []CancelledIsAnswered`.
* `AnswersAreBounded`: `Spec => []AnswersBounded`; it needs the finiteness of the
  set of workers, which comes from `Bounded`, not from `CallId`.
* `BusyWhenBusy`: `Spec => BusyIsTrue`: the permits are held by workers whose
  calls are in the table.

`SidecarSupervisorProofs`, for any callers of `stop`, any backoff and any number of
restarts and crashes (assuming `SupervisorAssumption`). The invariant follows
the place of the supervise task: which session its process has and when none
lives (`OneRun`), when a session may be published (`Published`), and what the
status says of the place and the failures (`StatusIs`).

* `OneRunAtATime`: `Spec => []OneAtATime`: no process is launched beside another,
  and a session is over before the next one starts.
* `StopsHold`: `Spec => StopsHonoured`: a stopped, refused or disabled sidecar is
  started by a restart only, and a stop returns when nothing of it runs.
* `KeepsLifecycle`: `Spec => ImplementsLifecycle`: every step of the status is one
  of `SidecarLifecycle`, or none. `OneRun` and `StatusIs` are what the mapping
  needs: without them the failures could pass the backoff unseen.
* `RequestsReachTheLatest`: `CallerSpec => NeverStale`: whatever happened since a
  request cloned its session, it is begun only in the latest one, and while its
  run is on. `Held` is what makes it so: the session a request holds is the
  latest or is over, since a launch comes only when the last session is
  over (`RunEnds`), and `Enters` asks under the lock that ends it.

`ClientCacheProofs`, for any callers, contexts, invalidations and clears
(assuming `CacheAssumption`: there is a context, no task is both an invalidator and a
clearer, and the mark of a free mutex is no caller). `StaleOnlyBesideClear` is far from
inductive: it has to be known that a `get` which puts a client back finds the
generations changed. The invariant says of each call that what it has read is
never ahead of the cache (`Behind`); that while it is equal no reset of its
context has begun since (`Fresh`), for the generations only rise but for what a
clear empties; and that beside a call no reset disturbed it is equal
(`Undisturbed`). Of each reset it says that it raised its generations before it
drops anything (`Resetting`). `Counted` bounds the generations by the resets
begun, those still to raise theirs set apart, which the types need. The check before
an insert is two reads, and a reset may raise a generation after the one and
before the insert. `Passed` says why that is harmless: when the first read finds the
context's generation unchanged, and the second the global one, nothing had been
reset at the first; and a reset that came since has still to drop the map,
for the call holds its mutex.

* `DroppedStaysDropped`: `Spec => []StaleOnlyBesideClear`.
* `ResetsExact`: `Spec => ResetsAreExact`, from `Passed` and `Undisturbed`.

`StreamProofs`, `ServerProofs` and `HostProofs` each prove about two parts that
share no state; neither half uses a fact of the other.

`StreamProofs`, first half: app streams, for any streams, windows, polls and limit
(assuming `StreamsAssumption`). A lemma shows that a step of one stream leaves the
others alone, so the invariant is kept stream by stream: where it is and what may
still be done to it (`Placed`), whether its channel is empty (`Framed`), what its
source was last told (`Checked`), and whose page it is (`InWindow`).

* `ChannelsKeepTheContract`: `Spec => FramesContract`: each channel implements
  `StreamFrames`, a step of the channel for each step of the system, but for a
  stream ended before its open frame (section 6). `Framed` is
  what makes a source's first frame come after the open frame; `ended`, read
  under the lock of every send, makes the terminal frame the last.
* `StreamsGoWithTheirWindow`: `Spec => []WindowsOwnTheirStreams`. `Placed` keeps a
  stream that has ended, or whose task was aborted, off the list, where the
  epoch it held is forgotten.
* `LeftBehindOnlyLate`: `Spec => []StaleOnlyByLateOpen`. The invariant `Checked`
  dates a source's last answer by the writes behind it: while there was none
  since, it is permitted.

Second half: a log that is followed, for any targets, readers, caps and sizes of
lines (assuming `SpoolAssumption` and `TailAssumption`: the caps are positive
and the sizes finitely many, so that there is a largest line).
The invariant `TailInv` has three parts.

`SpoolInv` is the history: its segments follow one another up to the next
number (`Joined`), a segment's file has its lines and the open one lacks just
what the buffer holds (`Stored`, `BufferIs`, `DiskIs`). With it goes `Grows`, what
any step may do to the history: segments go at the old end only, and a segment
or a file that stays is never shorter. An append is the long case: it flushes,
opens a segment, extends it and keeps the newest that fit, all in one step.

`WriterInv` relates the writer to it: a spool that works has got every line
that was numbered, what is pending is numbered up to the last line, and where
lines were skipped what is pending is as long as a cap allows.

`ReadersInv` is what a reader may know of a history that moves under it: each
segment of its snapshot is still there, as long or longer, or is older than the
oldest kept (`LeftIs`); those left follow one another to where it started
(`LeftJoins`); what it has read is numbered up to where it is (`PageIs`,
`ExportIs`), and is short for a cap or for a line that is gone (`ShortAt`).
`LeftIs` is kept by every step because of `Grows`.

* `SegmentsAreJoined`: `TailSpec => []SegmentsJoin`.
* `ReadsAreWhole`: `TailSpec => []ReadsWhole`.
* `SendsInOrder`: `TailSpec => SentInOrder`, the four parts of it: the numbers of
  frames, the lines they skip, the status after its lines, nothing left behind.

They rest on lemmas about sequences of lines: what a part, a concatenation and
an append keep (`NumberedSub`, `NumberedJoin`, `NumberedAppend`), what a sum of
sizes is (`WeightIs`, `WeightConcat`), and that the newest lines or segments that
fit a budget are a suffix, the longest that fits (`NewestIs`). Those are proved
by induction, from the least natural of a set (`LeastNat`).

`ServerProofs`, first half: user environments, for any requests, handlers and
versions (assuming `EnvsAssumption`: the mark of a free lock is no request).

* `BuildsTakeTurns`: `EnvsSpec => [](EnvsTypeOK /\ BuildsWhenAbsent)`; the part of
  `EnvsTypeOK` about the lock says that a request is between the lock and the
  insert exactly while it holds it.
* `EnvInUseIsKept`: `EnvsSpec => InUseIsKept`. The strengthening is
  `BuildsWhenAbsent`: past its second look a build has nothing cached. Only an
  insert caches, it needs the lock, and an invalidation only removes; so no
  build replaces what is cached or touches the files of it.

Second half: MCP subscriptions, for any URIs and any number of watches and
streams (assuming `SubscriptionsAssumption`: there is a URI, and the limit is positive). The
invariant says of a watch how far its thread is and who may know of it
(`WatchIs`), of the request under way that its watch works unless its death is
recorded (`RequestIs`), and of every URI the client was told of what covers it
(`ToldIs`): a watch that works or is about to report its death, a death on
its way to the stream, or a notification not yet read. `WatchesOwned` is the
strengthening of the bound: what is in the registry belongs to the present stream.

* `WatchesAreMatched`: `Spec => []WatchesMatch`. Of the two reads that cross, the
  request's of what is dead and the thread's of its generation, `WatchIs` knows
  that the second finds what the first wrote.
* `PriorIsKept`: `Spec => PriorKept`: a working watch of a client leaves only for a
  newer one, or with its stream; a request that fails before it has replaced the
  old one leaves it alone. One that replaced it and then finds its own watch
  dead has neither, which the code accepts (`stdio.rs:887-889`) and tells the client.

`HostProofs`, first half: scan Jobs, for any number of calls.

* `JobsAreKept`: `ScansSpec => []OneKeeper`. The invariant, of each run, says where
  its guard is (`GuardIs`: with the creating task, in the channel, with the
  caller or with the cleanup, and what it knows there) and what the run has made
  (`MadeIs`). That the slot is taken exactly while somebody keeps a guard is a
  fact about all runs; a lemma shows that a step of one run leaves the others
  alone and moves the slot with its own guard.
* `ResultsHold`: `ScansSpec => []ResultsStand`, from the same invariant.

Second half: port-forwards and their rows, for any forwards and pages and any
number of attempts and reloads. What is on the wire of a page, in its snapshot
or answered to it is never ahead of the host: an event that says a forward is
over is of one that has ended (`WireIs`, `HostIs`), and a snapshot has it live
only if it was put in the map (`PageIs`).

* `EndsAreFinal`: `Spec => []EndIsFinal`. `ToldIs` says that a page told of an end
  keeps the row dead and no longer listens, whatever listing was under way, unless the
  start's answer then added another row.
* `HeldAreShown`: `Spec => []HeldIsShown`. `ShownIs` says where a forward that is
  held is, or is on its way to be, seen: with the start that is answered, in a
  row, or in a listing that a page will take.

`AgentConsentProofs`, for any calls, chats and Jobs and any number of upsets:

* `GateSafe`: `Spec => Gate!Init /\ [][Gate!Next]_(Gate!vars)`, the safety part of
  `ImplementsGate`: each step of the host, the window and the person is one step
  of the gate, or none. The inductive invariant is `HostInv`: a request in
  `Pending` waits and has no answer, a verdict is what a request leaves `ask` with
  and agrees with its answer, and only a call that is over has a record.
* `AnswersHold`: `Spec => []AnswerStands`. The window knows that an answer
  landed only from the host's reply; `ToldInv` says that the answer on record
  is then the one it sent.

* `PromptsAreMatched`: `Spec => []PromptsMatch`. The invariant `PromptInv` follows a
  request from the host's map to the queue over two ways, the event and the
  first read, either of which may bring it first or after its end. `SeenIs` says
  where a request that waits is, `DeadIs` that one that is over has the word of
  it behind it on the wire, `KnownIs` that what the window has heard has
  happened, and `InOrder` that the wire keeps a request before its end. What is
  left of a queue when a call is taken off it (`Without`, a recursive function)
  is a lemma by induction on its length.

Only model-checked: the liveness properties (`EndsForGood`, `EndedDrains`,
`EndWakesWaiters`, `StopReturns`, `GoneIsTold`, `EnvForReturns`, `Notified`,
`GivesUpAtLast`, `ScansEnd` and the fairness of `ConsentGate`), as liveness under fairness and
ENABLED are beyond this prover. The library's induction theorems, which take an
operator, are beyond it too; the inductions here are by a least counterexample,
with a set in the place of the operator. That needs recursive functions: of a
fold, or of a `SelectSeq`, the prover cannot expand the definition. So `Weight`
in `LogSpool` and `Without` in `AgentConsent` are functions.

## 6. What the models found

Two runs have a counterexample for what a comment of the code says; `PROJECT.json`
(`findings`) has the lines and quotes:

* `user_envs_stale` (`users.rs:304`): a build that listed the kubeconfigs before
  a change is cached after the change was answered.
* `app_streams_open` (`app.rs:356`): a stream that is cancelled, or whose view, window or
  app goes, after it was listed and before its open frame was sent, gets its
  terminal frame and no open one; the comment says `open` is "always the first
  thing the client sees" (`app.rs:295-296`; also 20).

The same is true of the following; the property in brackets holds because it
names the exception, which is the place to look.

* A stream's open that was authorized before its app was switched off, and is
  listed after, is told by nobody and runs on (`extensions/streams.rs:623-658`,
  against `app.rs:9-10`) [`StaleOnlyByLateOpen`].
* A clear resets a context's generation to zero, so an invalidation beside it
  may bring it back to what a call had read (`client_cache.rs:255`)
  [`StaleOnlyBesideClear`]; a discovery that starts between the bump and the removal is
  kept with the client being dropped (`client_cache.rs:248`) [`ResetsAreExact`].
* An environment built between the two steps of an invalidation stays cached
  with its files removed (`users.rs:312`) [`InUseIsKept`].
* The supervisor's drop reads the session, then aborts the task; a launch that
  completes between leaves a session nobody ends (`supervisor.rs:225`)
  [`OneAtATime`, which says nothing of the session
  once the task is aborted].
* An export whose directory is gone before its first segment ends as a complete,
  empty file (`log_spool.rs:311`, against the comment at 290) [`ReadsWhole`].
* A start's answer that comes after a listing had the forward adds a second row
  for it (`forward.ts`) [`EndIsFinal`]; a forward stopped from one page stays
  live on another (`forward.ts:229`, against the comment at 177), and a rebuilt
  environment gives its ids out again: one page is modelled.
* A chat's call that its caller drops while it runs leaves no audit record
  (`docs/MCP.md:172` says every call is recorded) [`ImplementsGate`, `Loose`].
* srelens that dies over a scan leaves its result file, which nobody removes
  (`jobs.rs:379`), and so does a `remove_file` that fails, whose error is dropped (380)
  [`ResultsStand`].
* The window applies what was waiting and then appends a live request without
  looking for it in its queue (`AgentConsent.tsx:381`, against the merge at
  179-181), so a request may be queued twice while it is installing its listeners; and
  when the read of what was waiting fails, requests made before the listeners
  landed are not shown [`PromptsMatch`, which asks that a request be queued, not
  that it be queued once, and excuses every request of a page whose read failed].
* An answer that arrives when the timeout has fired but its receiver is not yet dropped
  is accepted, and the window told that it landed (`mcp_confirm.rs:445`)
  [`AnswerStands`, which excuses that instant].
* A request refused because its session is over reads the status for its error
  afterwards, and may by then be told "The extension is running"
  (`supervisor.rs:107`, 293) [no property: `NeverStale` is about requests that are begun].

## 7. What is not modelled

Of the modelled files: parsing, sizes and wording of messages, metrics and logs;
`ensure_paths` and the token resolver of the cache; `shutdown_all` and the
teardown of an environment after a disconnect (it needs the hub); `SpoolDirs`,
which makes and sweeps the spool's directories; the map of log streams; the
desktop's transport of forwards; the check of a Job's template. Of the
system: the parts in section 2 under *Next*, and those with nothing for a model
checker: manifest validation, signatures, single API calls, the analyses of
`kube` (topology, changed, BGP, Argo and the like, pure functions of what the API
server answered), the terminal UI's event loop, views, packaging.
`PROJECT.json` lists each with its reason.
