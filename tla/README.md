# apm2go in TLA+

apm2go watches a Linux host for JVMs, loads the OpenTelemetry agent into them
while they run, receives the telemetry they export, and stores it in an
embedded DuckDB. This directory models the parts of it in which several
goroutines, processes or restarts interact. TLC checks the models on small
instances; TLAPS proves every safety property of the runs for every instance.

`PROJECT.json` lists, for every definition that models code, the lines it
models; for every property of a passing run, a faulty variant of one mapped
definition (the operators marked *Fault* in the modules) that TLC shows to break
it; and the hazards the properties are aimed at. Disagreements between code and
comments that were met on the way are under *Observations* below.

## The system

| Component | Source | State it keeps | Operations | Interacts with |
|---|---|---|---|---|
| Inventory manager | `internal/inventory` | entries by JVM identity, the set of attaches in flight | reconcile (scan, observe, decide, reap), attach goroutines, operator requests | discovery, injector, API, event bus |
| Injector | `internal/injector`, `agent/bootstrap` | none of its own; marker property and loaded agents in the target | Inject: properties request, bootstrap attach, OpenTelemetry attach | attach protocol, ingest tokens, assets |
| JVM discovery | `internal/discovery`, `internal/container`, `internal/netns` | cached container metadata | Scan, Inspect, Resolve, naming | the processes of the host, Docker, inventory, gateway binder |
| Pipeline | `internal/pipeline` | two bounded queues, two batches, rate limiter, counters, name budgets | Consume, ConsumeMetrics, Run | receiver (many goroutines), store |
| Receiver | `internal/receiver` | gRPC and HTTP servers, gateway listeners, counters | ingest, Run and its shutdown, ListenOn | pipeline, tokens, inventory |
| Store maintenance | `internal/store/maintenance.go` | spans, per-minute rollups, dependencies, watermark | Rollup, Retention | span writer, through `writeMu` |
| eBPF supervisor | `internal/ebpf/supervisor.go` | target set, one wake-up, one child process | SetTargets, Run | discovery loop, the OBI child |
| eBPF discovery | `internal/ebpf/discover*.go`, `listenports.go`, `self.go`, `registry.go` | runtimes and first-seen times by name, the last target set | scan, classify, disambiguate, SetTargets of each sink | the processes of the host, supervisor, process metrics, pipeline |
| Attach protocol | `internal/attach`, `cmd/apm2go-attach-helper` | trigger files and a socket in the target, a helper process per request | LoadAgent, JCmd, Properties | injector, diagnostics, the target JVM |
| Ingest tokens | `internal/ingesttoken`, `receiver/auth.go` | valid tokens, in memory and in a file | Issue, Accepts, HasTokenFor | injector, receiver, `apm2go attach` |
| Cardinality guard | `internal/pipeline/limits.go` | the service and operation names seen | admit | pipeline, both collectors |
| Event bus | `internal/inventory/events.go` | a bounded channel per subscriber | publish, subscribe | inventory, API |
| Process and host metrics | `internal/procmetrics`, `hostmetrics` | last sample per pid | collect | eBPF discovery, pipeline |
| Diagnostics | `internal/jvmdiag`, `api/diagnostics.go`, `store/diagnostics.go` | stored dumps | collect, store, prune, compare | inventory, attach protocol, store |
| Application | `internal/app`, `cmd/apm2go` | the shared context | start and stop all of these | all |

What makes these correct, and what is hard about it:

* *Inventory and injector.* A JVM must be driven to "attached" without ever
  running two attaches at once or loading the agent twice, while the process may
  die, the reply of an attach may be lost after it took effect, operators
  interfere, and apm2go restarts with an empty inventory.
* *JVM discovery.* A dozen files are read per process while processes exit and
  pids are reused; the version and the name change when perf data appear and when
  Docker answers, and its missing answers are cached. Ingest must become reachable
  at the gateways of containers, whichever component starts first.
* *Pipeline and receiver.* Handlers must never wait for the store; memory must
  stay bounded; every item must be accounted for; shutdown must write what is
  held. Two components react to the same cancellation independently.
* *Maintenance.* Each minute must be rolled up exactly once across failures and
  restarts, and raw spans must not expire first. Spans arrive after the minute
  they started in.
* *Supervisor.* A change of the target set must not be lost between the read of
  the set and the wait for the next change, and must not cost more restarts than
  needed; there must be one child.
* *Attach protocol.* The target opens its socket only if it finds a file when it is
  signalled, and dumps its threads otherwise; exchanges overlap, helpers are killed,
  deadlines pass while a request is queued in the target, and the listener reports
  success for agents that failed. Callers must be told the truth, and in time.
* *Ingest tokens.* A running exporter keeps its token for life, so a token must be in
  the store before anyone has it, whatever is killed when.
* *Cardinality guard.* The budget must hold although the look-up and the admission
  are under two locks, and a name must not change its label half-way.
* *Process metrics.* A pid is no identity; a rate needs two samples of one process.
* *Diagnostics.* Dumps are filed under a pid and a start time taken from the
  inventory, which learns of a new process only at its next scan; requests and the
  retention pass queue for one lock.
* *eBPF discovery.* `/proc` is read file by file while processes come and go. A
  host that stands still must yield one stable target set, the right one, and OBI,
  which selects by port number alone, must be able to tell its members apart.

## Modules

| Module | Models | Notes |
|---|---|---|
| `Injector` | `Injector.Inject` and the target processes | an attach is addressed by pid and reaches whoever has it |
| `Inventory` | `Manager`, extends `Injector` | one action per critical section of `Manager.mu` |
| `InventoryProofs` | | type correctness, mutual exclusion, no entry stuck attaching, attached means configured, who loads an agent again |
| `JvmDiscovery` | `Scanner.Scan`, `Inspect`, `Resolver.Resolve`, naming, `ListenOnGateway` | processes and Docker are the environment |
| `JvmDiscoveryProofs` | | type correctness, reports match the host |
| `Pipeline` | `Consume`, `ConsumeMetrics`, `Pipeline.Run`, the rate limiter, export handlers and `Receiver.Run`'s shutdown | |
| `PipelineProofs` | | type correctness, bounded memory, drain at shutdown, accounting, counters |
| `Maintenance` | `Maintainer` beside `WriteSpans` | time in minutes |
| `Supervisor` | `Supervisor.SetTargets` and `Run` with its child | |
| `SupervisorProofs` | | wake-ups, single child, restarts |
| `EbpfDiscovery` | `Scan` and its classifiers, `Discoverer.scan`, `WithSelf`, `Registry.SetTargets` | the process table is the environment |
| `EbpfDiscoveryProofs` | | type correctness, sinks match the host, rules and names separate, the registry |
| `Attach` | `Runner`, the helper, `execute` and the trigger files, with the listener of the target | exchanges overlap |
| `AttachContract` | what callers of `internal/attach` rely on | abstract; `Attach` implements it |
| `AttachProofs` | | of `Attach`: types, trigger files, late requests, the refinement of `AttachContract`; of `Diagnostics`: types, what is dropped, quotas, comparisons |
| `Ingest` | `Registry`, `authenticator`, and the way of a token through `Inject`, `apm2go attach` and the bootstrap agent | the daemon is killed and started again |
| `IngestProofs` | | the store is readable, tokens are saved before use, nobody instrumented is refused |
| `Metrics` | `cardinalityGuard`, `procmetrics.Collector`, `hostmetrics.Collector` | the collectors are callers of the guard |
| `TelemetryProofs` | | of `Maintenance`: types, rollups, drops, the watermark; of `Metrics`: types, budgets, labels, CPU figures |
| `Diagnostics` | the handlers for diagnostics, `Collect`, the diagnostics table, its pruning by `Retention` | |
| `MC*` | instances for TLC | |

`Metrics` and `Diagnostics` prefix the names of their initial predicate, next-state
relation and specification, since a module of proofs extends each of them together
with another module.

**Inventory.** `entries` is `Manager.entries` (state "absent" for a missing
key), `inflight` the sync.Map, `rec` the reconcile loop's position, `worker` the
goroutines: attaches spawned by the loop, and operator requests. A reconcile pass
is `Scan`, then `Observe` and `Decide` for each JVM found, then `ReapMissing`.
`attach` is `AttachEnter`, `AttachBegin`, the steps of `Inject`, `AttachRecord`,
`AttachRelease`. Deadlines (settle delay, retry backoff, retention of exited
entries) are flags that time raises between passes: the code compares them with
the time read at the start of a pass. No operator request is assumed to spend the
ten minutes of the exited retention between its pid lookup and the lock that
follows it. A scan is an atomic snapshot that may miss live processes. What is
read of a process may change between scans, since its perf data appears late. The
events that transitions publish are not in the model. A restart stops all
goroutines at once; an attach helper that outlives apm2go is not modelled. The
properties request may go unanswered by a live target at any time; `blind` is history,
and remembers that a goroutine goes on without an answer. A request that was given up
is not carried out later in this model: `SettledBeforeAnswer` of `Attach` shows that it
is settled before a later properties request is answered.

**JvmDiscovery.** `proc` is the process table, `scan` the pass of the reconcile
loop: `ReadDir`, then for each pid `Inspect` (command line, executable, maps),
`Identify` (status, stat, cgroup, namespaces, route), `ResolveContainer` and
`ReadPerfData`, then `ScanReturns` and one `Extend` per JVM found. Processes may
exit, be replaced or write their perf data between any two of these. `cache` and
`fresh` are the resolver's cache, whose entries expire at any time; `bound` the two
binders. What a program tells of itself is a set: the naming rules its command
line and its perf data serve, and whether it carries apm2go's agent flag. The text
of names is left out, `source` says which rule gave it. Perf data are those of the
process itself; files that crashed JVMs leave behind, the user cache, uids and the
filter are not modelled. A socket of Docker's that is missing at start-up is
"absent" for good.

**Pipeline.** `handler` holds the export goroutines (`Consume` item by item, the
count after the send as a step of its own), `queue` the channels, `batch` and
`runner` the state of `Run`, `rcv` that of `Receiver.Run`, `stats` the counters.
`fate` is history: what became of each item. A write succeeds or fails at
choice; the receiver's grace periods end at choice; flush times, batch counts and
the rewriting of names by the cardinality guard are left out. After `Exited` the
process is gone, so nothing moves any more; for that reason, and as exports are
finitely many, deadlock is not checked.

**Maintenance.** `job` is the position of `runOnce`. A rollup reads watermark and
clock, then takes the lock and runs one transaction, which is one step.
Retention's statements commit one by one under the lock, so a failure or restart
may fall between any two. A time inside a minute cannot be told from the minute's
start, hence the two possible `Cutoffs` and the partial deletion in
`DeleteSpans`. `late` and `expired` are history. Writers whose clocks run ahead of the
host's are not modelled. The clock is bounded, so the system may stop.

**Supervisor.** `run` is the position of `Run` and the set it read last,
`changed` the one-slot channel, `children` the number of live OBI processes.
Where the host has no eBPF, or the binary cannot be staged, `Run` waits in
"off". Scans and crashes are bounded, so the system may stop.

**Attach.** One target and a set of exchanges with it; `pc` is an exchange's
position: dispatch by `Runner`, the helper's drop to the target's user, `connect`
(first dial, one trigger file per location, signal, polling) and the connection.
`trigger` says who made the file at each place, `backlog` is the queue of the
listener's socket. `HandleQuit`, `Serve` and `Dies` are HotSpot, as the client code
and its comments describe it: it checks the owner of the first file it finds and
the credentials of its peer, takes one connection at a time, and carries a request
out even if the client has gone. A reply is reduced to what its readers look at: the
listener's code, the agent's code, and whether the body is a refusal or was cut.
The deadline is a step that may come at any time while polling or connected;
`KillHelper` is the end of the caller's context, on which `exec.CommandContext`
kills the helper and its deferred functions do not run. `before` is history. Each
exchange happens at most once, so the system may stop; the socket file of a dead
JVM and a pid that is reused are not modelled here (`Injector` has the latter).

**AttachContract.** Status of each exchange, the requests carried out, and whether
the target lives. `Attach` implements it with `status` read off `pc`; the
specification is a property of the run.

**Ingest.** `disk` holds the store and the temporary file, `valid` the registry's
memory, `mu` its lock. `Issue`, `Write` and `Rename` are the steps of a save, with a
kill or a failure between any two. `inject` is the position of an injection of the
daemon's, `command` that of `apm2go attach`; both leave a token in the target's
configuration (inline or in a file), its system property and, once the agent is
loaded, its exporter. The marker is set with the property. Renaming is atomic; that
the data of the temporary file reach the disk before the rename is assumed, since
only the process is killed, not the machine. The inventory's locking is in
`Inventory`; here a process has one injection at a time.

**Metrics.** `call` is the guard's call that each caller is in: the look-up under
the read lock and the admission under the write lock are two steps. `filed` and
`filedOps` are history: which name went out under which label. `round` is a
collection of the process collector, with its copy of the targets; `prior` its
baselines. To a baseline the model adds the process it was read from and, as history of
that process, its first reading, the CPU time that the reported figures have charged
it with (a figure times the time it is over), what fell between two rounds that began
in the same instant, and whether its first figure was relative to another process.
As in the code a figure is over the time between the starts of two rounds, however late
in a round a counter is read, and a process that is gone when its turn comes keeps its
baseline. One call of the guard
stands for all metrics of a process, as they carry one name. A budget of zero, which
means no limit, is not modelled. The clock and the number of calls are bounded.

**Diagnostics.** One pid. `jvm` is the process behind it and `tracked` the one the
inventory has; a row has the start time it was filed under and, known only to the
model, the process it is of. `request` is the handler, `pass` the retention pass from
its lock on. A JVM may be replaced at any time, between the lookup of its entry
and the dump too. Requests, passes and the clock are bounded.

**EbpfDiscovery.** `proc` is the process table, which `Launch`, `Listen` and
`Exit` change between any two steps of a scan. `scan` is the loop: `ReadDir`, then
for each pid `ReadExe` and `Classify`, then `ScanReturns` (which disambiguates)
and one step per sink. The exe link is read first, everything else of a process in
one later step, so a reused pid can still combine two processes. A program is
described by what the classifiers tell apart: the class its base name falls into,
the name its arguments give it, and whether it carries Go build information.
Targets form a set, where the code has a slice in the order of `/proc`; the only
thing that depends on that order, which of two equally named targets labels a
name and which new names still fit the registry, is left open. `Suffixed` stands
for `"%s-%d"` and is only assumed to separate ports. `sink["registry"]` is
`Registry.current`. A scan that fails leaves everything as it is, which is a
stuttering step; container ids, first-seen times and socket tables that cannot be
read are left out. `quiet` is history: it is "seen" once a scan has begun and ended
without a change of the table. `Expected` says, without reference to a scan, what
the table calls for.

## Runs

| Run | Question |
|---|---|
| `inv_safety` | attaches exclude each other, none is stuck, a second load only without an answer, attached means configured |
| `inv_live` | every JVM reaches its target state, dead ones are forgotten |
| `jvm_scan` | reports match a quiet host, the naming rules in their order; names and gateways settle |
| `attach` | success is the truth, trigger files go, late requests settle, every exchange ends |
| `ingest` | no instrumented JVM is refused, the token store is always readable |
| `pipe_safety` | accounting, counters, memory, drain |
| `pipe_live` | delivery and shutdown, under retries and the rate limiter |
| `metrics` | budgets hold, one label per name, CPU figures add up |
| `maint` | exactly-once rollup, retention after rollup, backlog |
| `diag` | only surplus dumps go, quotas hold, requests are answered, the running JVM is compared with itself |
| `ebpf` | single child, restarts, convergence, stop |
| `ebpf_scan` | sinks match a quiet host, rules and names separate, registry within its limit |

All of them pass.

Bounds. `inv_safety`: one process (of changing description), two goroutines, two
attempts, two operator requests, one missed scan, one restart. Two goroutines are
enough for every race on one key, and two loads of the agent (`MaxLoads`) for a second
one; pid reuse is left to the theorems of `InventoryProofs` that assume nothing of
`PidOf`. `inv_live` drops the restart and the missed scan. `jvm_scan`: two pids, a JVM in a container, one on the
host that only its maps give away, and a process that is no JVM, any of them
running at the start. With and without their perf data and Docker's answer, the two
JVMs meet every two neighbours in the order of the naming rules but the last two (a
third JVM for those exceeds the time of a run; `ReportCorrect` covers them); two changes are an exit and a reuse of the pid during one
inspection, or an outage of Docker and its end. `pipe_safety`: a gRPC export of two spans, an HTTP
export of one span and one of a metric, a span queue of two, a metric queue of
one, batches of two: the queue fills, a batch fills, and a batch is left half
full. `pipe_live` has a limiter of one token and exports sent up to twice. `maint`:
three spans, two of them entry spans and one the child of another, five minutes,
a catch-up limit and a lateness of two, retentions of one and two minutes, two
failures: outages longer than the limit and longer than the retention both fit.
`ebpf`: two targets (four sets), four changes, two failures of the child.
`ebpf_scan`: two pids, two ports, six programs (each kind; an interpreter, a
binary and an FPM pool of one name; an FPM master), any initial process table, two
changes during scans and a registry of three names. Two processes are enough for
every collision of ports and names and for one pid to be reused, and four names
compete for the registry's three places. A server's master and worker are two
processes as well.
`attach`: two exchanges of any kind, apm2go as root, as the JVM's user or as a third
one; two are enough for a shared trigger file, a full backlog and an answer after a
deadline. `ingest`: two JVMs of one service, one configured inline and one by a file,
three tokens, two starts: a token can be minted before a kill, in a failed attempt and
after it. `metrics`: budgets of one service and one operation, two exporters with a
call each, one pid with two processes, three instants, so that two callers meet at the
last slot and a pid is reused within a round, between rounds, and with a round
between. `diag`: two requests of two kinds, a quota of one, a retention of one, three instants, two
processes and two passes: a surplus dump, a dump of the predecessor and an old one
can meet in a pass.
Pid symmetry is used in `ebpf_scan` and worker symmetry in `inv_safety`, which has no liveness property.

Fairness. Inventory: the poll loop ticks, started goroutines run (an attach is
bounded by its timeout), and deadlines pass; since the model only lets them pass
between reconcile passes, they get strong fairness. Nothing is assumed of
processes, operators or restarts. JVM discovery: the
poll loop runs, time passes, and the receiver gets to serve. Pipeline: handlers run, writes return, and Go's
`select` chooses at random among ready cases, hence strong fairness for each
case of `Run`'s. Whether clients export, hang up or the process is cancelled is
left open. Maintenance: the ticker fires and statements return; failures are finite in number.
Attach: the client's goroutine or helper runs on, and its deadline passes (`Timeout`
is one of its steps); nothing is assumed of the target. Diagnostics: a handler runs
on, gets the writer lock in its turn (Go's mutex hands itself to a waiter that has
starved, hence strong fairness), and a pass that has begun runs on. `ingest` and
`metrics` check safety only.
Supervisor: `Run` is scheduled, its backoff ends, a killed child exits, and a
cancelled context is noticed by a `select`.

## Observations

In eight places the code does what a comment of its says it does not. The
configurations named here are not among the runs, since TLC ends them with a
counterexample; run one with `tlc -config inv_attached.cfg MCInventory` and likewise.

* `inv_attached.cfg` (`MCInventory`): the bootstrap agent sets the marker before the
  OpenTelemetry agent is loaded (`injector.go:120`). If the second attach fails, the
  retry finds the marker and reports the JVM as attached, with no agent in it. What
  does hold, and is proved, is `AttachedIsConfigured`.
* `inv_twice.cfg` (`MCInventory`): `injector.go:99` says that Inject is idempotent, and
  `injector.go:115-116` that the agent is not loaded twice. A properties request that
  fails is tolerated (`injector.go:117-119`) and the agent is loaded again, after a lost
  reply or a restart. For a daemon that runs as root and a JVM of another user this is
  the normal case (see below). What does hold, and is proved, is
  `LoadedAgainOnlyBlindly`: with an answer, no process is given the agent again.
* `inv_veto.cfg` (`MCInventory`): an attach decided before an operator disables the
  process starts after the request was answered (`manager.go:285`, against
  `state.go:58-59`).
* `pipe_clean.cfg` (`MCPipeline`): the pipeline drains and returns as soon as the
  context is cancelled, while the receiver still lets exports finish; those are
  answered with success and lost (`pipeline.go:200`, against `receiver.go:198`). What
  does hold, and is proved, is `DrainedAtShutdown`.
* `maint_late.cfg` (`MCMaintenance`): spans are filed by start time but arrive when
  they end, so spans written below the watermark are never counted
  (`maintenance.go:93`, against the comment above it). What does hold, and is
  proved, is `RolledExactlyOnce` for spans that were written in time.
* `diag_lost.cfg` (`MCDiagnostics`): `api/diagnostics.go:116` says that storing must not
  be bounded by the request, but `contextWithTimeout` derives from the request's
  context, so a dump whose client has left is not stored.
* `diag_mixed.cfg` (`MCDiagnostics`): a JVM that is replaced between two scans of the
  inventory is dumped under the start time of its predecessor, and its dump is compared
  with one of the predecessor, although `api/diagnostics.go:233-234` says that only
  histograms of the same process are. What does hold, and is proved, is
  `RunningComparedWithItself`: under its own start time, the JVM that runs now is never
  compared with another.
* `metrics_reuse.cfg` (`MCMetrics`): a pid that is reused between two rounds, or whose
  process is gone when its turn in a round comes (`collector.go:152-156`), stays among
  the targets and keeps its baseline, although `collector.go:135-136` says that no
  process inherits one. What does hold, and is proved, is `UsageAddsUp`: what such a
  figure charges the successor with is never more than it used itself.

Observations from the models that no run is spent on: one incomplete scan marks a
live process exited, and `observe` never revives it (`manager.go:153`); an attach
that ends after its entry was reaped turns it failed or attached again until the
next pass (`manager.go:295`; `DeadAreForgotten` shows that it does not stay); an
attach for a dead process reaches the process that was given its pid; spans that are shed are answered with
success although `receiver.go:320` speaks of Unavailable; `rollup_1m` and `deps_1m`
are written but no chart query reads them; an edge whose caller lies in an
earlier rollup window than its callee is not counted in `deps_1m`.

About JVM discovery: a process that exits after its command line was read is
reported all the same, with the zero start time and uid 0, although
`scanner.go:63-64` says that it is skipped; the inventory then has an entry for it
until the next pass. The first pass does not wait for the receiver, so a JVM that
is past its settle delay is told to export to a gateway that is not bound yet,
although `manager.go:109-110` says that ingest has to be reachable first. A failed
bind is never retried. A container whose name Docker did not give when it was first
asked for has none for the five minutes of `cacheTTL`, and a JVM that is
instrumented in that time exports under the other name.

About eBPF discovery: the self target joins after `disambiguate`, so its API port is not
kept apart from other targets on that number, and nothing keeps a rule off the
receiver's port when another namespace has a listener on it, although
`run.go:192-206` argues that the export loop is broken by the self target's port
list. The workers of an FPM pool, unlike those of nginx and httpd, are targets each,
with one name and one port, and change the target set when they are recycled. The
prefix `node` also matches a Go program such as node_exporter, which is then
labelled as Node.js. `"%s-%d"` may equal another process's own name.

About the attach protocol: the properties request goes out with apm2go's own
credentials, which a JVM of another user hangs up on, so a daemon that runs as root
never sees the marker of such a JVM and attaches anew after every restart. A helper
that is killed leaves its trigger files behind; from then on exchanges count them as
usable and nobody removes them. An exchange that relies on a file its maker removes
before the signal is handled, or on one that root made, makes the JVM dump its threads
on its own output, as does a signal handled after the deadline.

About ingest tokens: `apm2go attach` mints a token the daemon does not know, and
`cmd/apm2go/attach.go:59-61` says that the daemon attaches again with its own; it finds
the marker instead and leaves the JVM as it is, with the warning only if no other JVM of
that service was ever given a token, since `HasTokenFor` asks by service. (The
definition `AttachedWithOwnToken` of `Ingest` states the comment.) `Revoke` is called by
nothing, and failed attempts leave their tokens valid.

About the cardinality guard: operations of all services share one budget, although the
comment on `operation` says that a noisy service cannot exhaust it for the others; and
the budgets start empty at each start of the daemon, so that the store may hold more
names. About process metrics: a figure is over the time between the starts of two rounds,
while the counters are read later, so one figure may exceed what the machine can do (and
the next makes up for it); when two rounds start in the same instant, what was used
between their readings is in no figure.

About diagnostics: the 30 seconds that storing may take run while the handler waits for
the writer lock.

## Proofs

All theorems hold for every value of the constants that satisfies the named
assumptions of the modules.

* `InventoryProofs`. `TypeCorrect`; `MutualExclusion` (`OneHandshake`);
  `AttachingCorrect` (`AttachingIsInFlight`). `OneHandshake` says nothing of the
  lock and so is not inductive: entering needs that a goroutine between
  `LoadOrStore` and `Delete` has its key in `inflight`. The invariant is that fact
  (`LockHeld`) with `OneHandshake`. `AttachingIsInFlight` rests on it: when an
  attach records its outcome, no other goroutine works on the key. Nothing is
  assumed about `PidOf`, so these three cover reused pids.
  `AttachedCarriesMarker` (`AttachedIsConfigured`) has the hypothesis `PidsUnique`,
  without which it is false, as the observations say; it needs that a goroutine past
  its first attach, or about to record a success, has its target marked (`MarkerSeen`).
  `AnsweredProbePreventsReload` (`LoadedAgainOnlyBlindly`) has none. It first needs two
  facts of the host (`HostInv`): a pid belongs to one live process at a time, and every
  key the manager holds was seen running, so that a request reaches the process it is
  meant for unless that one is dead for good. `AgainInv` adds that a process with the
  agent has the marker, that a goroutine about to load the agent has marked its target,
  and that one which goes on after an answer has a target without the agent for as
  long as that lives, since no other goroutine works on that key; the last two up to the
  death of the target.
* `JvmDiscoveryProofs`. `ReportCorrect`. As for the other scanner, the invariant
  (`Progress`) says of a scan that began after the last change of the process table
  what it has found so far and which fields of the description in hand are already
  right; it also needs that a fresh cache entry holds an answer. `DeriveFirst`
  shows that the rule chosen applies and that none before it does, and `AppliesNamed`
  relates what a rule goes by in the description to what the host offers (`Named`), so
  that the theorem states the full order.
* `PipelineProofs`. `TypeCorrect`, with the handlers' positions added so that
  reading the payload is defined; `MemoryBounded`, from the phase of `Run` (a batch
  is full only when it is about to be written); `ShutdownDrains`, from an invariant
  that what was held at cancellation is, in every phase of the drain, still where
  `Run` is yet to look, or written; `ItemsAccounted`, from the fact that no step
  takes an item out of all five places at once; `StatsReconcile`
  (`CountersReconcile`), which speaks only of moments at which nobody is between two
  steps, from two invariants that hold at all others: `SentInv` counts the handlers that
  have sent a span and not counted it, `SettledInv` the spans that exports being served
  have still to settle. Both sets are shown to be finite step by step, so the set of
  exporters need not be.
* `SupervisorProofs`. `WakeupsArrive`, `SingleChild` and `RestartsBounded`, which
  are inductive together with the types.
* `EbpfDiscoveryProofs`. `SinksCorrect`: what a scan hands out at its end depends on
  reads at many earlier moments, so the invariant (`Progress`) says, for a scan that
  began after the last change of the process table, that the targets found so far
  are those of the watched processes it has passed, that the program in hand is
  that of the current pid, and, per sink, which ones already have the expected set.
  `DisambiguateExpected` connects the code's counting of claims and names with the
  quantified definition in `Expected`, through lemmas on cardinality. `RulesCorrect`
  and `NamesCorrect` follow from it. `RegistryCorrect` (`RegistryLabels`) counts
  names against the limit, so its invariant adds that a scan has found finitely many
  targets and that finitely many names are known.
* `AttachProofs`, about `Attach`. `TypeCorrect`; `FilesGo` (`TriggersRemoved`);
  `LateRequestsSettle` (`SettledBeforeAnswer`); `Refinement` (`ImplementsContract`). One
  invariant serves all: only a live target listens or has a signal pending; a trigger
  file was usable to the exchange that made it; an exchange joins the backlog once and leaves it with an
  answer; the exchanges that ended before another began are ahead of it in the
  backlog; and a reply that will be taken for success comes from a target that has
  carried the request out or is gone. For the refinement, `StepRefines` maps each action
  to a step of the contract: the call, serving a request, the answer and the death of the
  target are seen, whatever ends an exchange without a success is a failure of the
  contract, and all else stutters.
* `AttachProofs`, about `Diagnostics`. `DiagnosticsTypeCorrect`; `SurplusOnly`
  (`OnlySurplusDropped`) and `QuotaKept` (`QuotaAfterPass`), action properties. The writer
  lock is held by the request that inserts or by the pass (`LockInv`), so nothing is
  stored between a pass's selection and its last delete; a request stores one row
  (`RowsInv`); and until the last surplus row is gone, what stays of each process and
  kind is within the quota and at least as new as each row still to go (`PassInv`), so
  that a pass may fail anywhere. `RunningNotMixed` (`RunningComparedWithItself`) rests on
  the order of the processes of a pid (`OriginInv`): the entry behind a row was that of
  the process dumped or of a predecessor, never of a successor.
* `TelemetryProofs`, about `Maintenance`. `MaintenanceTypeCorrect`; `RollupsExact`
  (`RolledExactlyOnce`); `DropsAfterRollup` (`DropsFollowRollup`); `WatermarkAdvances`. The
  first two are inductive together with `WindowInv`: a rollup under way starts where
  the last one ended or, if it is the first, below every span that is not late.
* `TelemetryProofs`, about `Metrics`. `MetricsTypeCorrect`; `BudgetsKept`
  (`FiledNamesBounded`) and `LabelsStable` (`OneLabelPerName`), from the invariant that a
  name filed under itself has been admitted and that one was collapsed only when the
  set was full, from when on it does not change (`ServicesAgree`, `OperationsAgree`);
  `UsageAccounted` (`UsageAddsUp`), inductive together with the facts that a baseline is
  not above the counter of its process and not from a later round (`BaselineInv`).
* `IngestProofs`. `StoreReadable` (`StartsAgain`), `SavedBeforeUse` and `NeverRefused`
  (`InstrumentedIsHeard`). Whether a daemon accepts a token depends on what an earlier
  one saved, so the last is not inductive alone. The invariant adds `LockInv` (only a
  live daemon injects, and whoever saves holds the lock), `StoreInv` (the store is never
  torn, a running daemon knows all of it, the temporary file about to be renamed is the
  whole registry, and the token being saved is in it) and `HandedOutIsSaved`.

Assumptions are those of the constants (functions of the right type, positive
sizes, natural bounds); TLC evaluates them in every run.

`NoLostWakeup` and the type invariants of these modules are stated by theorems
(`WakeupsArrive`, `TypeCorrect` and the lemmas on types) and not repeated in the runs.

Only model-checked are the eleven liveness properties, since fairness and ENABLED are
out of the prover's reach: `DrivenToTarget`, `DeadAreForgotten`, `NamesSettle`,
`GatewaysSettle`, `Delivered`, `ShutdownCompletes`, `BacklogDrains`, `AppliesLatest`,
`SupervisorStops`, `ExchangeEnds` and `RequestAnswered`. Every other property of the
runs is stated by a theorem. The strengthened invariants were checked by TLC on the
instances of the runs before they were proved.

## Not modelled

Rendering configuration, conversion of OTLP
messages, SQL queries, parsers of JVM output, the REST handlers that only read and the
web interface: functions of their input without shared state, or input and output.
The event bus only tells the web interface to fetch again, which it also does on a
timer. `PROJECT.json` gives the reason for each component. `Retention` also deletes
metrics, from a table that nothing in `Maintenance` reads.

## Plan

1. Proofs: the step facts behind the liveness properties (what a scan, a pass or a
   flush can only decrease), action properties of `Inventory` and `Ingest` such as that
   a marker or a saved token is never taken back, and the lemmas on sequences and
   cardinality that several modules of proofs need in one place.
2. The application's start and stop: one fatal error stops all components; composed
   with `JvmDiscovery`, whether ingest is reachable before an attach.
3. Pure operators against reference definitions: histogram buckets and quantiles, route
   normalisation, the comparison of class histograms.
