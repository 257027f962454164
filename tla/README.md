# Verification of the vLLM orchestrator

The orchestrator (Go, package `main`) is an HTTP proxy in front of inference
engines (`vllm serve`, `llama-server`). It starts an engine when a request for
its model arrives, holds the requests back until the engine is ready, puts idle
engines to sleep, terminates the ones that stay idle, and evicts models from a
GPU group when another one needs the memory.

This directory holds TLA+ modules translated from the code, TLC configurations
that check them on small instances, and TLAPS proofs for instances of every
size. `PROJECT.json` lists the components, runs, mutants, the lines of code each
definition stands for, findings, hazards and theorems.

    tlc -workers 2 -config MCModelEntry.cfg MCModelEntry     # one run
    tlapm ModelEntryProofs.tla                               # the proofs of one module

## 1. The system: inventory

### Model entry and request handling (`state.go`, `proxy.go`) - modelled

One `modelEntry` per model replica: `state` (UNLOADED, LOADING, ACTIVE, SLEEP1,
SLEEP2), `proc`, `assignedGroupIdx`, `reservedVRAMMB`, `activeRequests`,
`lastCompleted`, all guarded by `mu`, and a buffered channel `queue` of
`requestPair` (a response writer, an error cell, and a `done` channel).

* `routeRequest` calls `handleRequest`, then waits for `done` or for the end of
  the client's context, forwards, and calls `completeRequest`.
* `handleRequest` uses an ACTIVE model at once. Otherwise it enqueues the
  request (or answers 503 when the queue is full), reads the state again, and
  then drains, wakes the model, waits for whoever loads it, or claims the load.
* The loader goes through `assignGroup`, `launchVLLM` or `launchLlamaCpp`,
  `waitForHealth`, and each failure resets the entry and answers the queue with
  503.
* `wakeAndActivate`, `waitForActive`, `drainQueue`, `drainQueueWith503`,
  `loadModel` (a request nobody forwards, made at startup).

Hard here: every goroutine releases `mu` between reading the state and acting on
it, for up to an hour; the queue is drained by several goroutines, some granting
and some rejecting. Correct means: one loader at a time; the process agrees with
the state; no request is answered twice or stays queued; a late answer about an
old process changes nothing.

### TTL loop (`state.go` 144-299) - modelled

One goroutine per entry with a tick. It reads the state twice (the second time
with the process), then sleeps the engine or kills it, and writes the result if
the process is still the same. Correct means: no decision while a request is
being proxied, no nil process, no effect on a later life of the entry.

### Health watcher and crash handler (`state.go` 425-504) - modelled

One goroutine per process that became ACTIVE. After three consecutive failed
`GET /health` it calls `onExit`, which releases the entry if it still holds that
process and rejects the queue. Correct means: every crash is noticed, and only
the crashed process is released.

### Engine process control (`process.go`) - partly modelled

Builds the command line and the environment, starts the process, reaps it, and
talks to it over a Unix socket: `checkSocketOwned`, `waitForHealth`,
`sleepModel`, `wakeModel`, `killProcess` (SIGTERM, SIGKILL after 30 s, removal
of the socket path). The HTTP client has no timeout: a call that an engine accepts
and never answers returns when the engine ends. The path belongs to the entry, not
to the process, so a client of an old process may reach a new one and the other way
round.
`drainAndMeasure` reads memory figures from the engine's log while the scheduler
reads them without a lock. The calls are steps of the model; command lines and
the parsing of the log are not.

### Group assignment and VRAM accounting (`scheduler.go` 14-204) - modelled

`assignGroup`, `pickGroup`, `siblingGroups`, `groupHasOtherModels`. State: the
groups' `measuredFreeMB` and the entries' assigned groups. Loads of different
models run it at once; only replicas of one model exclude each other
(`assignMu`, held while other models are evicted). Correct means: replicas land
on distinct groups and do not evict each other; two models are not given the
same memory; a load ends, with the lock released and the entry not LOADING,
whichever way it fails.

### Eviction (`scheduler.go` 207-485) - modelled

`freeMemoryRules` runs inside the load of another model and applies rules 1 to 4
to lists of entries made beforehand; `freeCPURam` puts SLEEP1 models into SLEEP2.
Correct means: no entry is left LOADING without a loader nor loaded by two, no
request is left in its queue, rule 2 does not touch models with requests, a replica
in use is not evicted for its sibling, and a state that is written agrees with the
process.

### Memory state (`memory.go`) - partly modelled

`refreshMemory` overwrites the groups' free VRAM and the free CPU RAM with what
`nvidia-smi` and `/proc/meminfo` say, every minute and after most scheduler
actions; TTL loop, wake and eviction add and subtract CPU RAM between refreshes.
The VRAM figures are part of `Scheduler`; the CPU RAM is left open (see "Not
modelled"). Parsing is text handling.

### Routing and replicas (`proxy.go`, `state.go` 71-142) - partly modelled

`resolve`, the round robin of `replicaSet.pick`, `serveHTTP`'s dispatch,
`forwardToAnyActive`, `serveModels`, the JSON rewriting, and the WebSocket tunnel
with two copying goroutines. Correct means: a request reaches the engine of the
entry it was given, and a tunnel that both sides have left is given up.

### Configuration (`config.go`) - modelled

Validation and `sanitizeModelName`, from which socket paths are made. Correct
means: a pinned model that was accepted fits its group, every name leads to its
model, and two entries share a path only if one of their names has a character that
`sanitizeModelName` replaces, or a dash.

### Start and shutdown (`main.go`) - modelled

Validation, the sweep of stale sockets, startup loads, the server, and on SIGTERM
`srv.Shutdown` and the loop that kills each entry's process. Engines are
processes of their own and outlive a crash. Correct means: a restart does not cut
off a serving engine, nor mistake it for its own; a shutdown ends, and leaves no
engine behind that it could have known of.

### Statistics script (`scripts/`) - not modelled

A separate Python program that reads engine metrics.

### Interaction

    client -> serveHTTP -> routeRequest -> handleRequest --load--> assignGroup
                                 |              |                     |
                                 |        queue, state, proc     freeMemoryRules
                                 v              ^    ^                |
                            engine socket       |    +----------------+
                                 ^         ttlLoop                (entries of
                                 +------- watchHealth            other models)

Everything shared is in the entries (each with its own `mu`), in `memoryState`
(its own lock), and in the file system (socket paths). There is no persistent
state: a restart begins with every entry UNLOADED, among the engines and socket
files that the last life has left.

## 2. Modules

| Module | What it is |
| --- | --- |
| `ModelLifecycle` | Abstract specification: the lifecycle of `src/README.md`, with whether a process is held |
| `ModelEntry` | One entry with all its goroutines, its engines and the socket path |
| `MCModelEntry` | Its instances for TLC |
| `ModelEntryProofs` | Theorems about `ModelEntry` |
| `ModelEntryEviction` | `ModelEntry` composed with evictors: other models' loads inside `freeMemoryRules` or `freeCPURam` |
| `MCModelEntryEviction` | Its instances for TLC |
| `ModelEntryEvictionProofs` | Theorems about `ModelEntryEviction` |
| `Scheduler` | Several entries, groups and loads: `assignGroup`, the rules in order, VRAM figures |
| `MCScheduler` | Its instances for TLC |
| `SchedulerProofs` | Theorems about `Scheduler` |
| `SchedulerConfigProofs` | `Scheduler` over an accepted configuration: its assumptions are what validation gives |
| `Config` | `validateConfig` and what `newOrchestrator` builds, as operators |
| `Orchestrator` | The program's life over `Config`: sweep, sockets, loads, connections, shutdown, crash and restart |
| `MCOrchestrator` | Its configurations for TLC |
| `ConfigProofs` | Lemmas about the operators of `Config` |
| `OrchestratorProofs` | Theorems about `Orchestrator`: engines, sockets and shutdown |
| `OrchestratorTypeProofs` | Its types, and what is said of accepted configurations |
| `OrchestratorServingProofs` | The two together: who answers for a model |

### `ModelEntry` and the code

A step is one critical section of `me.mu`, one channel operation, or one call to
an engine or the operating system. Each goroutine has a program counter (`hpc`
of a handler, `tpc` of the TTL loop, `watch` of a health watcher), and the locals
it carries from one section into a later one (`hproc`, `tstate`, `tproc`,
`tlevel`, `fails`). A local that is dead is reset, so that it does not multiply
states.

| Code | Actions |
| --- | --- |
| `handleRequest`, fast path, enqueue, dispatch | `Arrive`, `Enqueue`, `QueueFull`, `Dispatch`, `Claim` |
| its load | `AssignSucceeds`, `AssignFails`, `AssignPanics`, `Launch`, `LaunchFails`, `LaunchReset`, `Register`, `HealthReset`, `Activate` |
| `waitForHealth` | `HealthOk`, `HealthExited`, `HealthTimesOut`, `HealthKilled` |
| `wakeAndActivate`, `wakeModel` | `Wake`, `WakePost`, `WakePoll`, `WakeDone` |
| `waitForActive`, `drainQueue`, `drainQueueWith503` | `Waiting`, `Drain` |
| `routeRequest`, `completeRequest` | `Released`, `ClientGone`, `Forward`, `ForwardAborts`, `Complete` |
| `tickTTL`, `transitionToSleep`, `killAndUnload` | `TTLTick`, `TTLRecheck`, `TTLSleepPost`, `TTLSleepPoll`, `TTLSleepDone`, `TTLKill`, `TTLKillSkipped`, `TTLSignal`, `TTLKilled` |
| `watchHealth`, `onExit` | `WatchWakes`, `WatchProbes`, `OnExit`, `OnExitSkipped`, `WatchDrains` |
| engines (external) | `EngineListens`, `EngineCloses`, `EngineExits`, `EngineCrashes`, `EngineHangs` |
| the clock | `TimePasses` |

Abstractions:

* A request is a name, called once. A request that is retried is another one.
* `idle` is how many of `ttl_active`, `ttl_inactive`, `ttl_unused` have passed
  since the last completion, in that order (validation makes them increase); the
  loop compares nothing else. It stands still while requests are counted, since
  the last one to complete sets it back.
* `assignGroup` is one step with any of its outcomes: a group, an error, or the
  panic of a rule that meets a nil process. After the panic the handler is gone
  (`"panicked"`) and the entry stays LOADING. In `loadModel` such a panic would end
  the program, so only requests panic.
* The free CPU RAM is overwritten by `refreshMemory` with whatever the host has,
  so its comparison with the weights goes either way (`tlevel`).
* A poll of `/is_sleeping` that waits is a stutter; it gives up at any moment,
  where the code gives up after 30 or 60 seconds. The same for `/health` and its
  deadline of an hour, which is looked at between two calls.
* An engine that has bound the path may answer 200 to `/health`, or something else
  for as long as it likes. `engine = "term"` is an engine that was sent SIGTERM and
  still answers, `"closed"` one that no longer does.
* A call of a client reaches whoever has bound the path, or the client's own
  process over a connection kept from an earlier call (`Answering`). An engine of
  `MayHang` may stop answering at any moment (`hung`): a call it accepts does not
  return while it lives.
* `killAndUnload` is two steps: the entry is released (`TTLKill`), and its process is
  signalled (`TTLSignal`).
* Each process is launched once (`Procs` is a set of launches), as in the code,
  where every launch makes a new `*vllmProcess`.

`SlowStart` is an assumption about the environment. A waker that found the model
asleep reads `me.proc` again in `wakeAndActivate`, without the state. If the model
was unloaded and claimed again in between, that is the loader's process, and
the waker would write ACTIVE over LOADING once the engine answers. `SlowStart =
TRUE` says that an engine does not get from launch to listening between the
waker's reading of the state and its POST: microseconds against, for any real
engine, seconds. With `SlowStart = FALSE` and three requests TLC finds
`OneLoader` violated; every run and every theorem that depends on it assumes
`SlowStart`, and says so.

### `ModelEntryEviction` and the code

An evictor is a goroutine inside `freeMemoryRules` or `freeCPURam`; what is
modelled is all it does to this one entry. `List` is `idleModels` or
`activeModels`; any time may pass before the visit (`VisitToSleep`, `VisitToKill`,
`VisitToUnload`, `PassOver`), because other entries come first. The release of the
entry and the signal to its process (`EvictorSignal`) are two steps; a kill that is
skipped, since the entry has another process by now (`EvictorKillSkipped`), goes on
to the check of free memory like one that was carried out. Whether enough memory is
free afterwards is open. `freeCPURam` is started by itself instead of
from rule 1 at another entry, which allows more orders than the code.

`sleepModel(nil)` and `killProcess(nil)` are nil dereferences in the goroutine
that loads another model; the evictor stops in `"panic"`. What that does to the
other entry is `AssignPanics` of `ModelEntry`, and `Panics` of `Scheduler`.

### `Scheduler` and the code

A load is a goroutine in the UNLOADED case of `handleRequest`, with the locals of
`assignGroup` and `freeMemoryRules`: the pass (`phase`), the group it is at, the
siblings' groups (`excl`), the rule, the rest of the rule's list (`todo`), the entry
that is being put to sleep with whether its process was nil (`victim`, `live`), and
the rest of `freeCPURam`'s list (`cpu`).
Other loads, sleeps, wakes and unloadings come between any two of its steps.

| Code | Actions |
| --- | --- |
| `handleRequest`: claim, launch, health | `Claim`, `Launch`, `LaunchFails`, `HealthOk`, `HealthFails` |
| `assignGroup`, `siblingGroups` | `Lock`, `TryGroup`, `PickGroup`, `GiveUp`, `Record` |
| its branch for pinned models | `CheckPinned`, `Reserve` |
| `freeMemoryRules` | `List`, `PassOver`, `VisitToSleep`, `Sleep`, `SleepFails`, `SleepNil`, `VisitToKill` |
| `freeCPURam` | `Demote`, `DemoteFails`, `DemoteNil` |
| TTL, wake, crash | `FallsAsleep`, `WakesUp`, `Unloads` |
| engines (external) | `Hangs` |

Abstractions:

* An engine holds VRAM as its state says (`Holds`); what `nvidia-smi` shows is the
  total less that (`Measured`). A reading comes right after the reader's own
  `refreshMemory`, so nothing of an older figure is left in it but a pinned load's
  subtraction made between the two (`Readings`).
* `waitVRAMStable` ends with the memory back or, at its deadline, not.
* CPU RAM and the counts of requests are open: a branch that depends on them goes
  either way, and `freeCPURam` comes to any subset of the SLEEP1 models it has listed.
* A list, the reading of an entry, each visit of `freeCPURam` and the sleep call are
  separate steps. A call and the write that follows it are one, as is a kill with the
  release before it; `ModelEntryEviction` takes these apart.
* The engine of an entry in `MayHang` may stop answering, in any state (`hung`).
  `Sleep`, `Demote` and the health check wait for it (`Answers`).
* A load whose goroutine panics leaves its entry LOADING and its locks released
  (`Panics`); `net/http` recovers the panic of a handler. `loadModel`'s would end
  the program.
* `measured` becomes true at the launch of a llama.cpp engine, at any health check
  of a vLLM one, or not at all.
* `ReclaimRobbed = FALSE` keeps an entry that was released under its loader from
  being claimed again while that loader goes on; it bounds states. The theorems do
  not assume it.

### `Config` and the code

`ValidConfig` is the conjunction of `validateConfig`'s conditions, `DevicesExist`
that of `initMemory`. Numbers that are only compared with each other are small,
names are sequences of characters because two properties are about characters
(`Sanitize`, which keeps the characters that `sanitizeRe` keeps and replaces every
other one, and the replica's suffix), and settings that are only passed on to an
engine are one flag (`foreign`). `FirstGroup` is the group that `assignGroup` finds
for a pin. `EntriesOf`, `SocketPath` and `ByName` are what
`newOrchestrator` builds.

### `Orchestrator` and the code

| Code | Actions |
| --- | --- |
| `main`: configuration, sweep, server | `Start`, `SweepDial`, `SweepRemove`, `Serve` |
| SIGTERM, `srv.Shutdown`, the kill loop | `Terminate`, `Shutdown`, `KillVisit`, `Killed`, `ShutdownComplete` |
| SIGKILL, `log.Fatalf`, a panic | `Crash`, `Unload` (of a nil process) |
| `peekAndResolve`, `pick`, `handleRequest` | `Arrive`, `Claim`, `Wake`, `ClientLeaves`, `Boot` |
| `launchVLLM`, `launchLlamaCpp` | `Stat`, `Dial`, `RemoveStale`, `Launch`, `LaunchFails` |
| registration, `waitForHealth` | `Register`, `HealthOk`, `HealthTimesOut`, `HealthFails` |
| `forwardDirect`, `serveWebSocket` | `Forward`, `Responded`, `SideCloses`, `CopyReadsEnd`, `CopyWriteFails`, `TunnelCloses` |
| TTL loop, `killAndUnload`, `onExit` | `FallsAsleep`, `Unload`, `Stopped`, `CrashNoticed` |
| engines (external) | `Binds`, `BindFails`, `Listens`, `Closes`, `Exits`, `Dies` |

Abstractions:

* The file system is `linked`, the processes that some path still leads to. A
  process binds its path only if there is no file, and listens in a later step; a
  dial succeeds when the process that the file belongs to listens.
* The check for a file at the path, the dial, its removal and `cmd.Start` are four
  steps: an engine of an earlier life may bind, listen or end between any two.
* An entry is coarser than in `ModelEntry`: the two sleep levels are one, a wake is
  one step, and the queue is the set of connections that wait.
* The sweep lists both directories in one step, before it dials the first file.
* A connection carries one request. Whether it asks for an upgrade shows when it is
  forwarded. A tunnel has two sides that close and two copiers that end.
* A launch takes the next process in a fixed order; processes do not differ before
  they are launched.
* The end of the program, by any way, loses the state of its goroutines (`AllLost`);
  processes and files stay.
* `killProcess` returns when the process is dead; `VictimExits` is the SIGKILL that
  makes sure of it.

## 3. Runs

| Run | Instance | What it shows |
| --- | --- | --- |
| `entry` | 2 requests, 2 launches, queue of 2, 2 failed checks | `TypeOK`, `OneLoader`, `ProcessMatchesState`, `NeverPanics`, `QueuedOnceAndOpen`, `UnloadedOnlyWhenDown`, `AnsweredOnce`, and that the entry implements `ModelLifecycle` |
| `entry_liveness` | 2 requests, 1 launch that may hang, queue of 1, 1 failed check | `LoadEnds`, `QueueDrains`, `CrashNoticed` |
| `entry_in_flight` | the same, nobody hangs | finding: the TTL loop sleeps a model under a request |
| `entry_count_leak` | the same | finding: the count of requests stays up |
| `eviction` | 2 requests, 1 launch, queue of 1, 1 evictor, `MaxIdle = 0` | `EvictorTypeOK`; `LoadEnds` of a vLLM entry, whatever evictors write over it |
| `eviction_llama` | llama.cpp, a startup load and a request, 1 launch, queue of 1, 1 evictor | `QueueDrains` with rule 1's unloading |
| `eviction_rule_two` | 2 requests, 1 launch, queue of 1, 1 evictor | finding: rule 2 kills a model in use |
| `eviction_process` | the same | finding: a sleeping model without a process |
| `scheduler` | 2 replicas, each as large as a group, one of which may hang, a llama.cpp model pinned to one of 2 groups, 2 loads | `SchedulerTypeOK`, `ReplicasApart`, `LoadingHasLoad`, `AssignMuHeldToAssign`, `SiblingsSpared`, `LoadsEnd` |
| `scheduler_siblings` | 2 replicas and another vLLM model, none pinned, 1 load | finding: `freeCPURam` puts an ACTIVE sibling to sleep |
| `scheduler_double_booking` | 2 models of a group's size, 2 groups of 2 and 3, 2 loads | finding: both are given one group |
| `orchestrator` | 373 configurations validated; 2 of them followed through 2 lives, 2 processes, 1 connection | `OrchestratorTypeOK`, `NamesResolve`, `PinnedFitsIfIdsDiffer`, `PathsApart`, `ServingSurvivesRestart`, `OwnEngineAnswers`, `OnlyMissedSurvive`, `ShutdownEnds`, `TunnelsEnd` |

Why these bounds. Most hazards of one entry take two handlers (one that loads, one
that overtakes or is overtaken), the one TTL goroutine, and the watcher of one
earlier process. A second launch is what tells an old process from a new one, so
`entry` has two. Two handlers are not enough for everything: a waker that answers
late while the entry is loaded again takes a first load, the waker and a second
loader. No run reaches that; `OneLoaderCorrect` and `EntryFollowsLifecycle` are
proved for any number of requests. A queue of two lets a request be queued behind
the loader's; a queue of one, in the other runs, is full when the second comes. Two
failed checks separate "one" from "consecutive"; the code's three add nothing but
states. `MaxIdle` bounds how many of the three TTLs may pass between requests: 3, all
of them, in `entry`; 0 in `eviction`, where every sleep and unloading comes from the
evictor or a crash. `MayHang` bounds which processes may
hang: none where only safety is checked, since each goroutine may then stop anywhere
for ever, which is all that a hung engine can do to it. Handlers run to `"ended"`, so
each run stops at last: `CHECK_DEADLOCK FALSE`. Symmetry is declared in safety runs
only, over requests that are not startup loads, and over processes.

In `scheduler` two replicas are the least that can meet, the third model gives
each rule something to evict that is not a sibling, and is pinned so that
the other half of `assignGroup` runs at the same time. Two loads are the least that
race; a replica that is loaded alone meets a sibling that is asleep, active, or
released under its loader. The first replica may hang, as whom a load waits for, and
as what a rule or `freeCPURam` puts to sleep. The run stops where every load has
panicked or is blocked: `CHECK_DEADLOCK FALSE`.

In `orchestrator` the configurations vary one thing at a time from a sound base:
each global setting, every order of three TTLs, group and device identifiers, ids
that repeat, all pins, sizes and replica counts of one model, the engines' fields,
and names and aliases of two models, with characters that are replaced among them.
Past its validation a configuration is followed only if it
is in `Explored`: a startup vLLM model with an alias beside a llama.cpp model, and
two replicas of a llama.cpp model. Two lives are a crash and a restart; two
processes are an old one and a new one on the same path, or one for each entry.
The run stops when both lives are over: `CHECK_DEADLOCK FALSE`.

Some properties name what they leave out, and each case left out occurs in the runs:

* `OwnEngineAnswers` excepts the processes of the entry's path that had yet to bind
  it when the load found the path free, or freed it (`rivals`). An engine that has
  bound by then and begins to listen between the check and the start is not one of
  them: its file is removed, or the launch is refused.
* `OnlyMissedSurvive` excepts the processes launched or unregistered at the visit of
  the kill loop and those that a crash handler dropped (`missed`).
* `ReplicasApart` excepts entries that were released under their loader (`robbed`).
* `LoadingHasLoad`, `LoadEnds`, `QueueDrains` and `LoadsEnd` except loads that have
  panicked, and the last three goroutines that wait for an engine that hangs
  (`Stuck`, `Blocked`).
* `ShutdownEnds` allows the end by a crash, and by the nil dereference of a TTL tick
  that meets the kill loop (`Unload`).
* `TunnelsEnd` speaks of tunnels whose two sides have closed. One whose other side is
  silent stays, in the code as in the model.

### Fairness

`ModelEntry.FairSpec` has weak fairness of each handler's own steps (`Handle(r)`),
of each watcher, and of the exit of a process that was signalled. Go schedules
runnable goroutines; a call that is answered, or refused, returns; between two calls
`waitForHealth` looks at its deadline; `killProcess` sends SIGKILL
after 30 s. Nothing is assumed of a call that a hung engine has accepted: the step
is not enabled. Nor is anything of the arrival of requests, of a client leaving, of
a proxied call ending, of an engine starting, of the TTL loop, of evictors
(`FairEvictionSpec`), or of the clock. In
particular a request may be proxied for ever, and `LoadEnds`, `QueueDrains` and
`CrashNoticed` hold all the same.

`Scheduler.FairSpec` has strong fairness of each load's steps, the taking of
`assignMu` among them: a Go mutex hands itself to a waiter of more than 1 ms. It is
strong for the calls as well: a call that a hung engine has taken fails once that
engine is killed, even if the next engine of the entry hangs too, which would make
the step enabled and disabled again and again. `LoadsEnd` excepts what strong
fairness does not: a load that is blocked for ever. A load
may also find its entry's siblings claimed again and again; `LoadsEnd` does not
need that to stop.

`Orchestrator.FairSpec` has weak fairness of main's steps after SIGTERM (the
deadline of 60 s among them), of the exit of the process the kill loop waits for
(SIGKILL), and of the copiers of a tunnel that have the end of a stream to read.
Nothing is assumed of clients, engines, loads or the TTL loop, nor that there is no
crash: `ShutdownEnds` allows the end by one.

### Findings

1. `state.go:344`: a request that finds the model ACTIVE is not counted, while
   `completeRequest` counts it out. The TTL loop may take a busy model for idle
   (`entry_in_flight`).
2. `proxy.go:137`: `completeRequest` is neither deferred nor called when the
   client has left, though the drain counted the request (`entry_count_leak`).
3. `scheduler.go:301`: rule 2 acts on its list without looking again at the
   state or the count (`eviction_rule_two`).
4. `scheduler.go:279`: rule 1 writes SLEEP1 over an entry that was released
   meanwhile; it then sleeps with no process, and every later wake "succeeds"
   (`eviction_process`).
5. `scheduler.go:406`: `freeCPURam` puts an entry to SLEEP2 that was SLEEP1 when it
   made its list and has been woken since, a sibling of the replica that is being
   loaded not excepted (`scheduler.go:77`; `scheduler_siblings`).
6. `scheduler.go:93`: no memory is reserved for a group that is chosen, so two
   loads at once are given the same memory; the second engine fails to start
   (`scheduler_double_booking`).

Further things were met, each reached in the models, on which no run is spent. The
first six are why a property has an exception, or why it is not stated of a kind of
entry:

* The calls to an engine have no timeout (`process.go:95`, `214`), and
  `waitForHealth` looks at its deadline only between two of them
  (`process.go:309`). An engine that accepts the call and hangs keeps the entry
  LOADING for as long as it lives; the plan promises a kill and a 503
  (`documents/plan_vllm_orchestrator.md:451`). The same holds of a waker's
  `POST /wake_up` and an evictor's `POST /sleep`, the latter with `assignMu` held.
  `LoadEnds`, `QueueDrains` and `LoadsEnd` say "unless a goroutine waits for a hung
  engine", and so do not state what the plan promises.
* `state.go:392`: `assignGroup` may panic on the nil process of another entry
  (`scheduler.go:274`, `312`). The handler ends, the entry stays LOADING, and every
  later request waits. The same properties except a load that has panicked.
* `state.go:379`: a request that read UNLOADED and finds SLEEP1 when it would claim
  the load returns without draining the queue that it is in. Rule 1 writes SLEEP1 over
  a released entry, so nobody else drains it either: `QueueDrains` is not a property
  of a vLLM entry under evictors.
* `scheduler.go:241`: rule 1 unloads a llama.cpp entry that is being loaded again,
  and so lets a second loader in: `OneLoader` is not a property of any entry under
  evictors.
* `config.go:127`: two groups may have one id. A pinned model's
  `tensor_parallel_size` is compared with the last of them, and `scheduler.go:17`
  places the model on the first: `PinnedFitsIfIdsDiffer` has its name from that.
* `state.go:353`: a request refused by a full queue gets its 503, but its
  handler waits for a `done` that nobody closes until its client leaves.
* `main.go:105` says "Terminate all running vLLM subprocesses"; a load in progress
  when its entry is visited launches, or has launched, a process that survives.
  `OnlyMissedSurvive` states which.
* The kill loop leaves `me.state`, so a TTL tick during the shutdown calls
  `killAndUnload(nil)` and the whole program ends in mid-loop.
* The plan (`documents/plan_vllm_orchestrator.md:454`) says that a tunnel is closed
  on both sides when either side closes. `proxy.go:426` waits for both copiers;
  `TunnelsEnd` states what that gives.
* After a crash in mid-load two engines may race for one path, and the old one
  answers the new one's health check.
* A wake and a sleep that cross leave an entry ACTIVE with an engine that sleeps,
  which nothing wakes.
* An entry that an eviction left at SLEEP2 without a process, as in finding 4, ends
  the program: the TTL loop's `killAndUnload` gets nil (`state.go:243`), in a
  goroutine that nothing recovers.
* `validateConfig` accepts more replicas than there are groups, although
  `README.md:166` asks for a group for each. Such a replica finds no group that no
  sibling has, and its loads fail with 503 until one of them unloads. No property here
  says that what is accepted can be placed.

## 4. Proofs

`ModelEntryProofs` proves, for all sets of requests and launches, all queue
depths, all limits of failed checks, and both kinds of engine:

| Theorem | Of `Spec` |
| --- | --- |
| `TypeCorrect` | `[]TypeOK` |
| `QueueCorrect` | `[]QueuedOnceAndOpen` |
| `AnswerCorrect` | `AnsweredOnce` |
| `EntryInvariant` | `[]EntryCore`, under `SlowStart` |
| `OneLoaderCorrect`, `ProcessCorrect`, `PanicFree` | `[]OneLoader`, `[]ProcessMatchesState`, `[]NeverPanics`, under `SlowStart` |
| `UnloadedCorrect` | `UnloadedOnlyWhenDown`, under `SlowStart` |
| `EntryFollowsLifecycle` | `FollowsLifecycle` (refinement of `ModelLifecycle`), under `SlowStart` |

They rest on the named assumptions of `ModelEntry`: startup loads are requests,
nil is not a process, queue depth and check limit are positive, at most three
TTLs pass, `MayHang` is a set of processes (any of them, all of them), the two
switches are Boolean. Where it is used, `SlowStart` is a hypothesis of the theorem.

The argument. `OneLoader` is not inductive: a late update might release or
activate the entry under its loader. What excludes it:

* `LoaderProcess`: nothing is registered while a loader assigns and launches, nor
  after a panic has ended its load; from `Register` on, `me.proc` is the loader's
  own process.
* `UnbornUnknown`: nobody knows a process before it is launched, so a loader's
  process is not one that another goroutine remembers.
* `LoaderAlone`: while it loads, no watcher, no kill of the TTL loop and no waker
  past its POST holds the loader's process; and a waker that has not posted yet
  finds nobody listening (here `SlowStart` is used).
* `Remembered`: wakers and killers hold a process, not nil.

`EntryCore` is the conjunction of these with `OneLoader`, `ProcessMatchesState`
and `NeverPanics`. `EntryStep` shows that each action keeps it.

`QueueInv` strengthens `QueuedOnceAndOpen`: a queued request is past `Enqueue`
and not yet forwarded, a granted one has no answer until it is forwarded. The
handler that enqueued it may have gone on, and its client may have left; the
queue holds it still. `EngineInv` says that only a loader's process is starting,
that from `Register` to `Activate` nobody else answers the path, and that a watcher
reports a process only when it does not answer its path. `UnloadedOnlyWhenDown`
follows: whoever releases a serving entry finds its process down, or is the TTL
goroutine, whose next step signals it. In the code the release comes first
(`state.go:254`, then `process.go:332`), and other goroutines may run in between.

`EntryFollowsLifecycle` maps `state` and `proc # NoProc` to the abstract state.
`LifecycleStep` goes through the actions: each is an abstract step or leaves both
mapped values alone.

`SchedulerProofs` proves, for all entries, replicas, groups, sizes and numbers of
loads, with or without `ReclaimRobbed`:

| Theorem | Of `Spec` |
| --- | --- |
| `SchedulerTypesHold` | `[]SchedulerTypeOK` |
| `SchedulerLoadingHasLoad` | `[]LoadingHasLoad` |
| `SchedulerReplicasApart` | `[]ReplicasApart` |
| `SchedulerSiblingsSpared` | `SiblingsSpared` |
| `SchedulerAssignMu` | `[]AssignMuHeldToAssign` |

from the assumptions of `Scheduler`: what the constants are, and that a pinned model
has no replicas. `Allocation` may be any integer, since `validateConfig` does not
look at `vram_allocation`.

The argument. That two replicas are on distinct groups must be known before the
second is recorded. `PlacementInv` adds to `ReplicasApart`:

* `HasTarget`, `OwnsEntry`: a load at work has an entry, and two have different
  ones or the entry was released under one of them.
* `UnloadedIsBare`: an unloaded entry is on no group.
* `HoldsLock`: between `Lock` and `Record` the load of a replica holds its model's
  `assignMu`, so no sibling is recorded in between.
* `ExcludesSiblings`: what it read of its siblings' groups covers the groups they
  are on now; they can only have left.
* `AtCandidate`: the group it runs rules on, records or has recorded is not one of
  them.
* `VictimIsOther`: an entry that a rule has chosen and not yet written is no sibling,
  however long `freeCPURam` takes before the write.

`SchedulerSiblingsSpared` follows from `AtCandidate`, `ExcludesSiblings` and
`VictimIsOther`: a rule works on a group where no sibling is. It is about the four
rules. `freeCPURam` looks at no group and acts on the list it made at its start;
`scheduler_siblings` shows what it does to an ACTIVE sibling.

`SchedulerAssignMu` is what rules out a deadlock over `assignMu`: who holds it is
choosing a group, not waiting. Each way out of `assignGroup`, the panics of a rule
among them, unlocks (`EndsKeepsLocks`). A step of the search keeps its lock, and must
not leave for `"reserve"` or `"launch"` with it: only a pinned load does, and a load
that locked is of a replica, which `HasTarget` and `PinAssumption` say is not pinned
(`KeptLocksInUse`). That a waiter gets the lock in the end is left to `LoadsEnd`,
which needs fairness.

`SchedulerConfigProofs` discharges the assumptions on entries, groups and pins:

| Theorem | Of a file that `ValidConfig` accepts |
| --- | --- |
| `AcceptedSuitsScheduler` | `Scheduler` over `EntriesOf(File)` satisfies `GroupsAssumption`, `ModelsAssumption` and `PinAssumption` |
| `AcceptedReplicasApart` | so `[]ReplicasApart`, `[]AssignMuHeldToAssign` and `SiblingsSpared` hold of it |

What is left to assume there is that the figures (`Total`, `Full`, `Weights`) are
numbers, that None is no load and no entry, that `MayHang` is a set of entries, and
that `ReclaimRobbed` is Boolean.

`ModelEntryEvictionProofs` proves, for every number of evictors as well, and both
with and without `SlowStart`:

| Theorem | Of `EvictionSpec` |
| --- | --- |
| `EvictionTypeCorrect` | `[]EvictorTypeOK` |
| `EvictionQueueCorrect` | `[]QueuedOnceAndOpen` |
| `EvictionAnswerCorrect` | `AnsweredOnce` |
| `EvictionLoadingClaimed` | `[]LoadingIsClaimed` |

The argument. `OneLoader` and `ProcessMatchesState` do not survive evictors, which
write the state without looking at it. What survives rests on what an evictor
cannot do (`EvictStep`): it touches no queue, no request and no handler, so
`QueueInv` is kept, and `AnsweredOnce` follows from it as it does without
evictors; and it writes UNLOADED, SLEEP1 or SLEEP2 but never LOADING. Of
the entry's own steps only `Claim` writes LOADING, and its handler has then claimed
the entry. It stops having claimed it only in a step that writes another state
(`LoaderStep`): a load whose `assignGroup` panics writes nothing, and its goroutine
is gone with the entry still LOADING. So `LoadingIsClaimed` is the most that holds;
that a LOADING entry has a loader at work is not true of the code.

`OrchestratorProofs` proves, for all configurations, engines, connections and
numbers of lives:

| Theorem | Of `Spec` |
| --- | --- |
| `SocketsSurvive` | `[]ServingSurvivesRestart` |
| `ShutdownStopsAll` | `[]OnlyMissedSurvive` |
| `OwnEngineCorrect` | `[]OwnEngineAnswers` |

`OrchestratorTypeProofs` and `OrchestratorServingProofs` add

| Theorem | Of `Spec` |
| --- | --- |
| `TypeInvariance`, `StatesHaveTypes` | `[]TypeInv`, `[]OrchestratorTypeOK` |
| `NamesResolved` | `[]NamesResolve` |
| `PinnedFitting` | `[]PinnedFitsIfIdsDiffer` |
| `SocketsApart` | `[]PathsApart` |
| `EveryOwnEngineCorrect` | `[]EachOwnEngineAnswers` |

The assumptions are that None is neither an engine nor a connection, that there is
at least one life, that each configuration is a value of the Go structs
(`ConfigurationsAssumption`: any strings, any integers, any lengths), and that
different replica numbers are written differently (`NumeralsAssumption`: `ToString`
stands for `%d`, and the provers know nothing of it).

The argument. `Mine` is the set of the processes launched in this life.

* `Remembers`: all that the orchestrator holds (`proc`, `leng`, `victim`,
  `stopping`) is in `Mine`. So whoever unlinks a path after a kill unlinks that of
  a process it launched.
* `Respected`: an engine that listened at the start and still does is linked, the
  sweep is not about to remove its path, and none of `Mine` has its path. With
  `Remembers` this is `SocketInv`, and `SocketsSurvive` follows from it.
* `Cleared`: such an engine is not at a path that a load has found free or is about
  to free. The check of `launchVLLM`, the removal of the file and the start of the
  process are separate steps, so that nobody answered at the check must be carried
  over to the start: an engine that answered at the start of the program never
  begins to listen again.
* `Busy`: a load excludes the TTL loop and the crash handler, and registers its
  process where none is registered; so no process is forgotten by being overwritten.
* `Accounted`: until the kill loop is over, each unstopped process of `Mine` is
  registered, or about to be, at an entry that is still to be visited, or it is in
  `missed`.
* `OnlyRivals`: whoever may come to answer at the path of an entry that shares it
  with no other is the entry's process or one of its rivals. Rivals are kept for each
  entry, and are taken when its load has found no file at its path, or removes the
  one it found.

`ShutdownInv`, behind `ShutdownStopsAll`, is `SocketInv`, `Cleared`, `Busy` and
`Accounted`; `AnswerInv`, behind `OwnEngineCorrect`, has `OnlyRivals` for the last.

What is said of accepted configurations is about `FlattenSeq`, a fold, over
sequences of any length: the entries, the devices and the names are each one.
Induction over data is out of reach with an operator for a predicate, but not with a
set: the library's theorem that a well-founded relation has minimal elements (`WFMin`)
gives a least number of every non-empty set of numbers (`LeastNumber`), and so
`SetInduction`. `ConfigProofs` uses it to say what `FlattenSeq` does: position `i` of
part `k` is at one place of the result, `off[k] + i`, and every place is such a one
(`FlattenLayout`, `LayoutUnique`). From it:

* `FlattenInjective`: if the flattened sequence repeats nothing, two parts share
  nothing. So groups share no device, models no name (`GroupsDisjoint`,
  `NamesApart`).
* `FirstGroupFound`, `PinHasDevices`: the group that `assignGroup` finds for a pin is
  the one that `validateConfig` counted the devices of, when no two groups have one
  id. `PinnedFitting` needs that.
* `EntriesExact`: `o.models` has exactly one entry for each replica of each model;
  a model that is not replicated has one (`PinnedModelHasOneEntry`), and `pick`'s
  `next % n` always finds a replica (`ReplicaCount`).
* `PathsConfused`: equal paths of two entries are those of two models whose
  sanitized names are equal, or differ by a replica's suffix; `PathsCollide`: a
  character of one of the names is then replaced, or is a dash. Replaced is every
  character that `sanitizeRe` does not keep, so `a@b` and `a+b` share a path.

`OrchestratorTypeOK` is not inductive: that `Arrive` picks an entry of `o.models`
and that `Register` writes a process need more. `TypeInv` adds that the configuration
behind a running program was accepted and `models` is what was built of it, and that
a load that registers, polls or kills has a process, not None, in hand.

`OwnEngineAnswers` leaves out entries that share a path. `EveryOwnEngineCorrect`
puts a condition on the file in its place: where sanitized names can be told apart
(`NamesToldApart`), each entry has a path of its own (`OwnPaths`), so every ACTIVE
model and every replica is answered by its own engine or a rival.

Only model-checked are the liveness properties (`LoadEnds`, `QueueDrains`,
`CrashNoticed`, `LoadsEnd`, `ShutdownEnds`, `TunnelsEnd`), with and without
evictors, since fairness is beyond the prover, and the findings, which are
counterexamples. Every invariant and every action property that a passing run checks
is a theorem.

## 5. Not modelled

* The CPU RAM ledger (`freeCPURAMB`). It is overwritten by every `refreshMemory`
  and only compared with a model's weights; the models take both branches of each
  comparison, so what it holds cannot break a property here. Whether an amount is
  credited twice between two refreshes is a question no other code depends on.
* Older `nvidia-smi` figures written over newer ones (`memory.go:178`).
* `drainAndMeasure`, `parseNvidiaSmi`, `peekModel`, `rewriteModelField`, command
  lines and environments: text handling, covered by the repository's tests.
* Engines that hang, in `Orchestrator`: a call there is answered or fails. What a hung
  engine does to a load, a waker or an evictor is in `ModelEntry` and `Scheduler`;
  the kill loop calls no engine, and `Shutdown` has its own deadline.
* `serveModels`, `/metrics`, `forwardToAnyActive`: they read entries and answer.
* The wrap of the round robin's 64-bit counter: `next` is unbounded, and a run is
  too short to reach it.
* The statistics script.

## 6. Plan

1. Larger instances: a third replica, a third load.
2. The CPU RAM ledger, should any code come to depend on its amount.

`Scheduler` does not refine to `ModelEntryEviction` entry by entry: in it a call to an
engine and the write that follows are one step, as are a kill and the release before
it, where the other has several, so it has fewer interleavings within an entry, and
more entries. The two are tied by hand, by the
code that both translate.

The hazards without a property, with the reason, are in `PROJECT.json`.
