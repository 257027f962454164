----------------------------- MODULE ModelEntry -----------------------------
(***************************************************************************)
(* One modelEntry of the orchestrator (state.go) with every goroutine that *)
(* touches it: the HTTP handlers and the load_at_startup goroutines that   *)
(* run handleRequest, the ttlLoop goroutine, and one watchHealth goroutine *)
(* per process that became ACTIVE; with the engine processes themselves    *)
(* and the socket file they share, as process.go sees them.                *)
(*                                                                         *)
(* One step is one critical section of me.mu, one channel operation, or    *)
(* one call to an engine: goroutines interleave between them, and every    *)
(* value a goroutine read in an earlier section is a local that may be     *)
(* stale.  assignGroup is one step here, with any outcome.  freeCPURAMB is *)
(* overwritten by refreshMemory at any moment with what the host reports,  *)
(* so its comparison with the weights goes either way.                     *)
(***************************************************************************)
EXTENDS Integers, Sequences, FiniteSets

CONSTANTS
  Requests,      \* calls of handleRequest: HTTP requests and startup loads
  BootRequests,  \* those that loadModel makes
  Procs,         \* processes the entry may launch; each launch takes a new one
  NoProc,        \* the nil *vllmProcess
  QueueDepth,    \* capacity of me.queue
  MaxIdle,       \* how many of the three TTLs may pass between requests
  MaxFails,      \* consecutive failed health checks that mean a crash
  MayHang,       \* bound: the processes that may stop answering; a run that checks
                 \* safety only needs none, since any goroutine may stop anywhere
  LlamaCpp,      \* me.cfg.Engine is llama_cpp: no sleep states
  SlowStart      \* an engine takes longer to start than a goroutine takes
                 \* from reading a sleep state to posting /wake_up

ASSUME BootAssumption == BootRequests \subseteq Requests
ASSUME NoProcAssumption == NoProc \notin Procs
ASSUME QueueDepthAssumption == QueueDepth \in Nat \ {0}
ASSUME MaxIdleAssumption == MaxIdle \in 0..3
ASSUME MaxFailsAssumption == MaxFails \in Nat \ {0}
ASSUME MayHangAssumption == MayHang \subseteq Procs
ASSUME SwitchAssumption == LlamaCpp \in BOOLEAN /\ SlowStart \in BOOLEAN

VARIABLES
  \* modelEntry
  state,           \* me.state
  proc,            \* me.proc
  assigned,        \* me.assignedGroupIdx >= 0
  activeRequests,  \* me.activeRequests
  queue,           \* me.queue
  idle,            \* how many of the three TTLs have passed since lastCompleted
  \* requestPair and response of each request
  reply,           \* done and *err: "open", closed as "granted" or "rejected"
  answer,          \* what was written to the ResponseWriter
  \* goroutines
  hpc,             \* where each handler goroutine is
  hproc,           \* its local variable proc
  tpc,             \* where the TTL goroutine is
  tstate, tproc, tlevel,   \* its locals
  watch,           \* where the watchHealth goroutine of each process is
  fails,           \* its local counter
  \* the outside world
  engine,          \* life of each process
  asleep,          \* what its /is_sleeping answers
  hung,            \* processes that accept calls and no longer answer any
  socket           \* the process that bound the file at me.socketPath

entry == <<state, proc, assigned, activeRequests, queue, idle>>
pairs == <<reply, answer>>
handler == <<hpc, hproc>>
ttl == <<tpc, tstate, tproc, tlevel>>
health == <<watch, fails>>
world == <<engine, asleep, hung, socket>>
vars == <<entry, pairs, handler, ttl, health, world>>

States == {"UNLOADED", "LOADING", "ACTIVE", "SLEEP1", "SLEEP2"}
Sleeping == {"SLEEP1", "SLEEP2"}
Serving == {"ACTIVE"} \union Sleeping

LoaderPCs == {"assign", "launch", "launchFailed", "register", "health",
              "healthKill", "healthReset", "activate"}
WakerPCs == {"wake", "wakePost", "wakePoll", "wakeDone"}
HandlerPCs == {"arrive", "enqueue", "dispatch", "waiting", "claim", "drain",
               "drain503", "await", "forward", "complete", "ended", "panicked"}
              \union LoaderPCs \union WakerPCs
TTLPCs == {"tick", "recheck", "sleepPost", "sleepPoll", "sleepDone", "kill",
           "signal", "killWait", "panic"}
WatchPCs == {"none", "wait", "probe", "exit", "drain503", "done"}
EngineStates == {"unborn", "starting", "up", "term", "closed", "dead"}

TypeOK ==
  /\ state \in States
  /\ proc \in Procs \union {NoProc}
  /\ assigned \in BOOLEAN
  /\ activeRequests \in Int
  /\ queue \in Seq(Requests)
  /\ idle \in 0..MaxIdle
  /\ reply \in [Requests -> {"open", "granted", "rejected"}]
  /\ answer \in [Requests -> {"none", "proxied", "503"}]
  /\ hpc \in [Requests -> HandlerPCs]
  /\ hproc \in [Requests -> Procs \union {NoProc}]
  /\ tpc \in TTLPCs
  /\ tstate \in States
  /\ tproc \in Procs \union {NoProc}
  /\ tlevel \in 0..2
  /\ watch \in [Procs -> WatchPCs]
  /\ fails \in [Procs -> 0..MaxFails]
  /\ engine \in [Procs -> EngineStates]
  /\ asleep \in [Procs -> BOOLEAN]
  /\ hung \subseteq Procs
  /\ socket \in Procs \union {NoProc}

Init ==
  /\ state = "UNLOADED" /\ proc = NoProc /\ assigned = FALSE
  /\ activeRequests = 0 /\ queue = <<>> /\ idle = 0
  /\ reply = [r \in Requests |-> "open"]
  /\ answer = [r \in Requests |-> "none"]
  /\ hpc = [r \in Requests |-> "arrive"]
  /\ hproc = [r \in Requests |-> NoProc]
  /\ tpc = "tick" /\ tstate = "UNLOADED" /\ tproc = NoProc /\ tlevel = 0
  /\ watch = [p \in Procs |-> "none"]
  /\ fails = [p \in Procs |-> 0]
  /\ engine = [p \in Procs |-> "unborn"]
  /\ asleep = [p \in Procs |-> FALSE]
  /\ hung = {}
  /\ socket = NoProc

-----------------------------------------------------------------------------
(* Helpers *)

\* The process that accepts whoever dials the path, if any.
Accepts(p) == p # NoProc /\ engine[p] \in {"up", "term"}
Listener == IF Accepts(socket) THEN socket ELSE NoProc

\* Who may answer a call of p's client: it dials the path, whichever process has
\* bound it, or uses a connection to p that it kept from an earlier call.  NoProc is
\* a call that fails.  The client has no timeout: a call that a hung process has
\* accepted returns when that process ends.
Answering(p) == ({Listener} \union (IF Accepts(p) THEN {p} ELSE {})) \ hung

\* The guard "if me.proc != proc { return }" of every late update.
StillCurrentUnchecked(p) == TRUE
StillCurrent(p) == proc = p

\* The four assignments that release an entry.
MarkUnloadedKeepsState ==
  /\ proc' = NoProc /\ assigned' = FALSE
  /\ UNCHANGED <<state, activeRequests, queue, idle>>
MarkUnloaded ==
  /\ state' = "UNLOADED" /\ proc' = NoProc /\ assigned' = FALSE
  /\ UNCHANGED <<activeRequests, queue, idle>>

\* SIGTERM: a process that listens goes on listening until it closes.
Signalled(p) ==
  CASE engine[p] = "up" -> "term"
    [] engine[p] = "starting" -> "closed"
    [] OTHER -> engine[p]

\* One turn of drainQueue: receive, count, close done.
PopGranted ==
  /\ queue # <<>>
  /\ queue' = Tail(queue)
  /\ activeRequests' = activeRequests + 1
  /\ reply' = [reply EXCEPT ![Head(queue)] = "granted"]
  /\ UNCHANGED <<state, proc, assigned, idle, answer>>

\* One turn of drainQueueWith503: receive, write 503, set *err, close done.
PopRejected ==
  /\ queue # <<>>
  /\ queue' = Tail(queue)
  /\ reply' = [reply EXCEPT ![Head(queue)] = "rejected"]
  /\ answer' = [answer EXCEPT ![Head(queue)] = "503"]
  /\ UNCHANGED <<state, proc, assigned, activeRequests, idle>>

-----------------------------------------------------------------------------
(* The handler goroutine of request r *)

\* r goes from one point of its code to another; only its handler moves.
Moves(r, from, to) ==
  /\ hpc[r] = from
  /\ hpc' = [hpc EXCEPT ![r] = to]
  /\ UNCHANGED <<ttl, health>>

\* ... and changes nothing else.
Steps(r, from, to) == Moves(r, from, to) /\ UNCHANGED <<entry, pairs, hproc, world>>

\* handleRequest reads the state; an ACTIVE model is used at once, without
\* counting the request.
Arrive(r) ==
  /\ Moves(r, "arrive", IF state = "ACTIVE" THEN "await" ELSE "enqueue")
  /\ reply' = [reply EXCEPT ![r] = IF state = "ACTIVE" THEN "granted" ELSE "open"]
  /\ UNCHANGED <<entry, answer, hproc, world>>

Enqueue(r) ==
  /\ Moves(r, "enqueue", "dispatch")
  /\ Len(queue) < QueueDepth
  /\ queue' = Append(queue, r)
  /\ UNCHANGED <<state, proc, assigned, activeRequests, idle, pairs, hproc, world>>

\* The queue is full: 503 is written and handleRequest returns; done stays open.
QueueFull(r) ==
  /\ Moves(r, "enqueue", "await")
  /\ Len(queue) = QueueDepth
  /\ answer' = [answer EXCEPT ![r] = "503"]
  /\ UNCHANGED <<entry, reply, hproc, world>>

\* The state is read again.  (The two variants before it are mutants: an ACTIVE
\* model's handler closes its own done, or trusts others to drain.)
DispatchClosesOwn(r) ==
  /\ Moves(r, "dispatch", CASE state = "ACTIVE" -> "await"
                            [] state \in Sleeping -> "wake"
                            [] state = "LOADING" -> "waiting"
                            [] state = "UNLOADED" -> "claim")
  /\ reply' = IF state = "ACTIVE" THEN [reply EXCEPT ![r] = "granted"] ELSE reply
  /\ UNCHANGED <<entry, answer, hproc, world>>
DispatchLeavesDrain(r) ==
  Steps(r, "dispatch", CASE state = "ACTIVE" -> "await"
                         [] state \in Sleeping -> "wake"
                         [] state = "LOADING" -> "waiting"
                         [] state = "UNLOADED" -> "claim")
Dispatch(r) ==
  Steps(r, "dispatch", CASE state = "ACTIVE" -> "drain"
                         [] state \in Sleeping -> "wake"
                         [] state = "LOADING" -> "waiting"
                         [] state = "UNLOADED" -> "claim")

\* wakeAndActivate: read me.proc; nil means nothing to wake, and no error.
Wake(r) ==
  /\ Moves(r, "wake", IF proc = NoProc THEN "drain" ELSE "wakePost")
  /\ hproc' = [hproc EXCEPT ![r] = proc]
  /\ UNCHANGED <<entry, pairs, world>>

WakePost(r) == \E q \in Answering(hproc[r]) :
  /\ Moves(r, "wakePost", IF q # NoProc THEN "wakePoll" ELSE "drain503")
  /\ asleep' = [p \in Procs |-> IF p = q THEN FALSE ELSE asleep[p]]
  /\ UNCHANGED <<entry, pairs, hproc, engine, hung, socket>>

\* The poll ends when the engine says it is awake, or after 60 s without that.
WakePoll(r) == \E q \in Answering(hproc[r]) :
  Steps(r, "wakePoll", IF q # NoProc /\ ~asleep[q] THEN "wakeDone" ELSE "drain503")

\* The entry may have changed hands meanwhile; the queue is drained all the same.
WakeDone(r) ==
  /\ Moves(r, "wakeDone", "drain")
  /\ IF StillCurrent(hproc[r])
       THEN state' = "ACTIVE" /\ idle' = 0
       ELSE UNCHANGED <<state, idle>>
  /\ UNCHANGED <<proc, assigned, activeRequests, queue, pairs, hproc, world>>

\* The state is read again under the lock before LOADING is claimed.  A model
\* that went to sleep meanwhile is left alone, and so is the queue.
ClaimableUnchecked == TRUE
Claimable == state = "UNLOADED"

Claim(r) ==
  /\ Moves(r, "claim", CASE Claimable -> "assign"
                         [] ~Claimable /\ state = "ACTIVE" -> "drain"
                         [] ~Claimable /\ state = "LOADING" -> "waiting"
                         [] OTHER -> "await")
  /\ state' = IF Claimable THEN "LOADING" ELSE state
  /\ UNCHANGED <<proc, assigned, activeRequests, queue, idle, pairs, hproc, world>>

\* assignGroup returns a group.  A pinned model's is recorded at Register only.
AssignSucceeds(r) ==
  /\ Moves(r, "assign", "launch")
  /\ assigned' \in {assigned, TRUE}
  /\ UNCHANGED <<state, proc, activeRequests, queue, idle, pairs, hproc, world>>

AssignFails(r) ==
  /\ Moves(r, "assign", "drain503")
  /\ state' = "UNLOADED"
  /\ UNCHANGED <<proc, assigned, activeRequests, queue, idle, pairs, hproc, world>>

\* A rule at work for this load meets an entry that serves without a process, and the
\* nil dereference ends the handler; net/http recovers it, so that the program goes on
\* (a startup load's would end it).  The entry stays LOADING.
AssignPanics(r) == r \notin BootRequests /\ Steps(r, "assign", "panicked")

\* launchVLLM and launchLlamaCpp: a socket file that nobody serves is removed,
\* one that is served is an error.
SocketOwned == Listener # NoProc

Launch(r) ==
  /\ Moves(r, "launch", "register")
  /\ ~SocketOwned
  /\ socket' = NoProc
  /\ \E p \in Procs :
       /\ engine[p] = "unborn"
       /\ engine' = [engine EXCEPT ![p] = "starting"]
       /\ hproc' = [hproc EXCEPT ![r] = p]
  /\ UNCHANGED <<entry, pairs, asleep, hung>>

\* The socket is owned, or the command cannot be started.
LaunchFails(r) ==
  /\ Moves(r, "launch", "launchFailed")
  /\ socket' = IF SocketOwned THEN socket ELSE NoProc
  /\ UNCHANGED <<entry, pairs, hproc, engine, asleep, hung>>

LaunchReset(r) ==
  /\ Moves(r, "launchFailed", "drain503")
  /\ state' = "UNLOADED" /\ assigned' = FALSE
  /\ UNCHANGED <<proc, activeRequests, queue, idle, pairs, hproc, world>>

Register(r) ==
  /\ Moves(r, "register", "health")
  /\ proc' = hproc[r] /\ assigned' = TRUE
  /\ UNCHANGED <<state, activeRequests, queue, idle, pairs, hproc, world>>

\* waitForHealth: GET /health may answer 200, or something else, which goes on like a
\* call that fails.
HealthOk(r) == \E q \in Answering(hproc[r]) \ {NoProc} : Steps(r, "health", "activate")

\* The exit of the process and the deadline are looked at between two calls.
HealthExited(r) ==
  /\ Steps(r, "health", "healthReset")
  /\ Answering(hproc[r]) # {} /\ engine[hproc[r]] = "dead"

\* The deadline has passed: killProcess, which waits for the end of the process and
\* removes whatever file is at the path.
HealthWithoutDeadline(r) == FALSE
HealthTimesOut(r) ==
  /\ Moves(r, "health", "healthKill")
  /\ Answering(hproc[r]) # {}
  /\ engine' = [engine EXCEPT ![hproc[r]] = Signalled(hproc[r])]
  /\ UNCHANGED <<entry, pairs, hproc, asleep, hung, socket>>

HealthKilled(r) ==
  /\ Moves(r, "healthKill", "healthReset")
  /\ engine[hproc[r]] = "dead"
  /\ socket' = NoProc
  /\ UNCHANGED <<entry, pairs, hproc, engine, asleep, hung>>

HealthReset(r) ==
  /\ Moves(r, "healthReset", "drain503")
  /\ MarkUnloaded
  /\ UNCHANGED <<pairs, hproc, world>>

Activate(r) ==
  /\ hpc[r] = "activate"
  /\ hpc' = [hpc EXCEPT ![r] = "drain"]
  /\ state' = "ACTIVE" /\ idle' = 0
  /\ watch' = [watch EXCEPT ![hproc[r]] = "wait"]
  /\ fails' = [fails EXCEPT ![hproc[r]] = 0]
  /\ UNCHANGED <<proc, assigned, activeRequests, queue, pairs, hproc, ttl, world>>

\* waitForActive polls the state: only ACTIVE and UNLOADED end it.
Waiting(r) ==
  \/ state = "ACTIVE" /\ Steps(r, "waiting", "drain")
  \/ state = "UNLOADED" /\ Steps(r, "waiting", "drain503")

\* drainQueue and drainQueueWith503, to the turn that finds the queue empty and
\* with it the end of handleRequest and of its locals.
Drain(r) ==
  \/ hpc[r] = "drain" /\ PopGranted /\ UNCHANGED <<handler, ttl, health, world>>
  \/ hpc[r] = "drain503" /\ PopRejected /\ UNCHANGED <<handler, ttl, health, world>>
  \/ /\ queue = <<>> /\ \E pc \in {"drain", "drain503"} : Moves(r, pc, "await")
     /\ hproc' = [hproc EXCEPT ![r] = NoProc]
     /\ UNCHANGED <<entry, pairs, world>>

\* routeRequest and loadModel wait for done.  A rejected request has its 503,
\* and a startup load has nothing to forward nor to complete.
ReleasedIgnoringErr(r) ==
  reply[r] # "open" /\ Steps(r, "await", IF r \in BootRequests THEN "ended" ELSE "forward")
Released(r) ==
  /\ reply[r] # "open"
  /\ Steps(r, "await", IF reply[r] = "granted" /\ r \notin BootRequests
                         THEN "forward" ELSE "ended")

\* The select takes r.Context().Done(), even if done is closed as well.
ClientGone(r) == r \notin BootRequests /\ Steps(r, "await", "ended")

\* forwardDirect: the reverse proxy writes the engine's answer, or 502.
Forward(r) ==
  /\ Moves(r, "forward", "complete")
  /\ answer' = [answer EXCEPT ![r] = "proxied"]
  /\ UNCHANGED <<entry, reply, hproc, world>>

\* A response that breaks off midway makes the reverse proxy panic with
\* http.ErrAbortHandler, and completeRequest, not deferred, is not reached.
ForwardAborts(r) ==
  /\ Moves(r, "forward", "ended")
  /\ answer' = [answer EXCEPT ![r] = "proxied"]
  /\ UNCHANGED <<entry, reply, hproc, world>>

Complete(r) ==
  /\ Moves(r, "complete", "ended")
  /\ activeRequests' = activeRequests - 1 /\ idle' = 0
  /\ UNCHANGED <<state, proc, assigned, queue, pairs, hproc, world>>

\* What the goroutine itself does, once its request has arrived, up to the
\* proxied call (which takes as long as the engine takes).
Handle(r) ==
  \/ Enqueue(r) \/ QueueFull(r) \/ Dispatch(r)
  \/ Wake(r) \/ WakePost(r) \/ WakePoll(r) \/ WakeDone(r)
  \/ Claim(r) \/ AssignSucceeds(r) \/ AssignFails(r) \/ AssignPanics(r)
  \/ Launch(r) \/ LaunchFails(r) \/ LaunchReset(r) \/ Register(r)
  \/ HealthOk(r) \/ HealthExited(r) \/ HealthTimesOut(r) \/ HealthKilled(r)
  \/ HealthReset(r) \/ Activate(r)
  \/ Waiting(r) \/ Drain(r) \/ Released(r) \/ Complete(r)

-----------------------------------------------------------------------------
(* The ttlLoop goroutine *)

\* The TTL that has to pass in each state; llama_cpp goes by ttl_unused alone.
Threshold ==
  CASE state = "ACTIVE" -> IF LlamaCpp THEN 3 ELSE 1
    [] state = "SLEEP1" -> 2
    [] OTHER -> 3

NobodyActive == activeRequests <= 0

\* llama_cpp cannot sleep, and SLEEP2 is the last stage.
TTLKills == LlamaCpp \/ state = "SLEEP2"

TTLMoves(from, to) == tpc = from /\ tpc' = to /\ UNCHANGED <<pairs, handler, health>>

\* tickTTL returns, and its locals are gone.
TTLReturns(from) ==
  TTLMoves(from, "tick") /\ tstate' = "UNLOADED" /\ tproc' = NoProc /\ tlevel' = 0

\* First critical section of tickTTL; ticks that find nothing to do are stutters.
TTLTick ==
  /\ state \in Serving /\ NobodyActive /\ idle >= Threshold
  /\ TTLMoves("tick", "recheck") /\ tstate' = state
  /\ UNCHANGED <<entry, tproc, tlevel, world>>

\* Second critical section: the process is read, and the step to take is fixed;
\* the state of the first section is not needed any more.  ACTIVE goes to level 1 or 2
\* by the free CPU RAM; a nil process cannot sleep.
TTLRecheck ==
  /\ \/ /\ state # tstate \/ ~NobodyActive \/ (proc = NoProc /\ ~TTLKills)
        /\ TTLReturns("recheck")
     \/ /\ state = tstate /\ NobodyActive /\ TTLKills
        /\ TTLMoves("recheck", "kill")
        /\ tstate' = "UNLOADED" /\ tproc' = proc /\ UNCHANGED tlevel
     \/ /\ state = tstate /\ NobodyActive /\ ~TTLKills /\ proc # NoProc
        /\ TTLMoves("recheck", "sleepPost")
        /\ tstate' = "UNLOADED" /\ tproc' = proc
        /\ tlevel' \in IF state = "ACTIVE" THEN {1, 2} ELSE {2}
  /\ UNCHANGED <<entry, world>>

\* transitionToSleep -> sleepModel: POST /sleep, then poll /is_sleeping for 30 s.
TTLSleepPost == \E q \in Answering(tproc) :
  /\ IF q # NoProc
       THEN TTLMoves("sleepPost", "sleepPoll") /\ UNCHANGED <<tstate, tproc, tlevel>>
       ELSE TTLReturns("sleepPost")
  /\ asleep' = [p \in Procs |-> IF p = q THEN TRUE ELSE asleep[p]]
  /\ UNCHANGED <<entry, engine, hung, socket>>

TTLSleepPoll == \E q \in Answering(tproc) :
  /\ IF q # NoProc /\ asleep[q]
       THEN TTLMoves("sleepPoll", "sleepDone") /\ UNCHANGED <<tstate, tproc, tlevel>>
       ELSE TTLReturns("sleepPoll")
  /\ UNCHANGED <<entry, world>>

\* The switch on (prevState, level) of transitionToSleep.
SleepTarget ==
  CASE state = "ACTIVE" /\ tlevel = 1 -> "SLEEP1"
    [] state \in {"ACTIVE", "SLEEP1"} /\ tlevel = 2 -> "SLEEP2"
    [] OTHER -> state

TTLSleepDone ==
  /\ TTLReturns("sleepDone")
  /\ state' = IF StillCurrent(tproc) THEN SleepTarget ELSE state
  /\ UNCHANGED <<proc, assigned, activeRequests, queue, idle, world>>

\* killAndUnload: the entry is released first ...
TTLKill ==
  /\ StillCurrent(tproc)
  /\ TTLMoves("kill", "signal")
  /\ MarkUnloaded
  /\ UNCHANGED <<tstate, tproc, tlevel, world>>

TTLKillSkipped ==
  ~StillCurrent(tproc) /\ TTLReturns("kill") /\ UNCHANGED <<entry, world>>

\* ... then killProcess signals the process; killProcess(nil) is a nil dereference.
TTLSignal ==
  /\ TTLMoves("signal", IF tproc = NoProc THEN "panic" ELSE "killWait")
  /\ engine' = [p \in Procs |-> IF p = tproc THEN Signalled(p) ELSE engine[p]]
  /\ UNCHANGED <<entry, tstate, tproc, tlevel, asleep, hung, socket>>

\* The process is gone; whatever file is at the path is removed.
TTLKilled ==
  /\ TTLReturns("killWait")
  /\ engine[tproc] = "dead"
  /\ socket' = NoProc
  /\ UNCHANGED <<entry, engine, asleep, hung>>

TTL == TTLTick \/ TTLRecheck \/ TTLSleepPost \/ TTLSleepPoll \/ TTLSleepDone
       \/ TTLKill \/ TTLKillSkipped \/ TTLSignal \/ TTLKilled

-----------------------------------------------------------------------------
(* The watchHealth goroutine of process p *)

WatchMoves(p, from, to) ==
  /\ watch[p] = from
  /\ watch' = [watch EXCEPT ![p] = to]
  /\ UNCHANGED <<handler, ttl, world>>

WatchWakesWhileActive(p) ==
  /\ IF StillCurrent(p) /\ state = "ACTIVE"
       THEN WatchMoves(p, "wait", "probe") /\ UNCHANGED fails
       ELSE WatchMoves(p, "wait", "done") /\ fails' = [fails EXCEPT ![p] = 0]
  /\ UNCHANGED <<entry, pairs>>
WatchWakes(p) ==
  /\ IF StillCurrent(p) /\ state \notin {"UNLOADED", "LOADING"}
       THEN WatchMoves(p, "wait", "probe") /\ UNCHANGED fails
       ELSE WatchMoves(p, "wait", "done") /\ fails' = [fails EXCEPT ![p] = 0]
  /\ UNCHANGED <<entry, pairs>>

\* Any answer counts as healthy.
TooManyFailsOffByOne(n) == n > MaxFails
TooManyFails(n) == n >= MaxFails

WatchProbes(p) == \E q \in Answering(p) :
  LET n == IF q # NoProc THEN 0 ELSE fails[p] + 1 IN
  /\ WatchMoves(p, "probe", IF TooManyFails(n) THEN "exit" ELSE "wait")
  /\ fails' = [fails EXCEPT ![p] = n]
  /\ UNCHANGED <<entry, pairs>>

\* onExit: the entry is released, the process is not signalled.
OnExit(p) ==
  /\ StillCurrent(p)
  /\ WatchMoves(p, "exit", "drain503")
  /\ MarkUnloaded
  /\ fails' = [fails EXCEPT ![p] = 0]
  /\ UNCHANGED pairs

OnExitSkipped(p) ==
  /\ ~StillCurrent(p)
  /\ WatchMoves(p, "exit", "done")
  /\ fails' = [fails EXCEPT ![p] = 0]
  /\ UNCHANGED <<entry, pairs>>

WatchDrains(p) ==
  \/ watch[p] = "drain503" /\ PopRejected /\ UNCHANGED <<handler, ttl, health, world>>
  \/ /\ queue = <<>> /\ WatchMoves(p, "drain503", "done")
     /\ UNCHANGED <<entry, pairs, fails>>

Watch(p) == WatchWakes(p) \/ WatchProbes(p) \/ OnExit(p) \/ OnExitSkipped(p)
            \/ WatchDrains(p)

-----------------------------------------------------------------------------
(* The outside world: time, and the engines *)

\* idle is read in a serving state with no request counted, and zeroed on the way
\* to either.
TimePasses ==
  /\ state \in Serving /\ NobodyActive /\ idle < MaxIdle
  /\ idle' = idle + 1
  /\ UNCHANGED <<state, proc, assigned, activeRequests, queue, pairs, handler,
                 ttl, health, world>>

EngineMoves(p, from, to) ==
  /\ engine[p] \in from
  /\ engine' = [engine EXCEPT ![p] = to]
  /\ asleep' = [asleep EXCEPT ![p] = asleep[p] /\ to \notin {"closed", "dead"}]
  /\ UNCHANGED <<entry, pairs, handler, ttl, health, hung>>

\* A starting engine binds the path; the bind fails on a file that is there.
EngineListens(p) ==
  /\ EngineMoves(p, {"starting"}, "up")
  /\ socket = NoProc /\ socket' = p
  /\ SlowStart => \A r \in Requests : hpc[r] \notin {"wake", "wakePost"}

\* A signalled engine closes its listening socket before it exits.
EngineCloses(p) == EngineMoves(p, {"term"}, "closed") /\ UNCHANGED socket
EngineExits(p) == EngineMoves(p, {"term", "closed"}, "dead") /\ UNCHANGED socket
EngineCrashes(p) == EngineMoves(p, {"starting", "up"}, "dead") /\ UNCHANGED socket

\* It goes on accepting connections, the first ones or later ones, and answers none.
EngineHangs(p) ==
  /\ engine[p] = "up" /\ p \in MayHang \ hung
  /\ hung' = hung \union {p}
  /\ UNCHANGED <<entry, pairs, handler, ttl, health, engine, asleep, socket>>

World == TimePasses \/ \E p \in Procs : EngineListens(p) \/ EngineCloses(p) \/ EngineExits(p)
                                        \/ EngineCrashes(p) \/ EngineHangs(p)

Next ==
  \/ \E r \in Requests : Arrive(r) \/ Handle(r) \/ ClientGone(r)
                          \/ Forward(r) \/ ForwardAborts(r)
  \/ TTL
  \/ \E p \in Procs : Watch(p)
  \/ World

Spec == Init /\ [][Next]_vars

\* Handlers and health watchers are scheduled, and a signalled process exits
\* (SIGKILL after 30 s).  Nothing is assumed of arrivals, of clients, of proxied
\* calls, of an engine's start, of the clock or of the TTL goroutine.
Fairness ==
  /\ \A r \in Requests : WF_vars(Handle(r))
  /\ \A p \in Procs : WF_vars(Watch(p)) /\ WF_vars(EngineExits(p))

FairSpec == Spec /\ Fairness

-----------------------------------------------------------------------------
(* Properties *)

Loading(r) == hpc[r] \in LoaderPCs

\* r has claimed the entry: it loads it, or a panic has ended its load.
Claimed(r) == Loading(r) \/ hpc[r] = "panicked"

\* Nobody claims an entry that somebody has claimed, and nobody loads one that is not
\* LOADING, with other goroutines waking, killing and releasing it (handleRequest, its
\* UNLOADED case).
OneLoader ==
  /\ \A r, s \in Requests : Claimed(r) /\ Claimed(s) => r = s
  /\ (state = "LOADING") <=> \E r \in Requests : Claimed(r)

\* A model that is ACTIVE or asleep has a process; an UNLOADED one has neither a
\* process nor a GPU group, whichever of the five resets unloaded it last.
ProcessMatchesState ==
  /\ state \in Serving => proc # NoProc
  /\ state = "UNLOADED" => proc = NoProc /\ ~assigned

\* A queued request is in the queue once and its done channel is still open, so
\* no two drainers ever close it twice.
QueuedOnceAndOpen ==
  \A i \in 1..Len(queue) :
    /\ reply[queue[i]] = "open" /\ answer[queue[i]] = "none"
    /\ \A j \in 1..Len(queue) : queue[i] = queue[j] => i = j

\* No goroutine of the entry dereferences a nil process.
NeverPanics == tpc # "panic"

\* At most one answer is ever written for a request.
AnsweredOnce ==
  [][\A r \in Requests : answer[r] # "none" => answer'[r] = answer[r]]_vars

\* A serving model is unloaded only if its own process can no longer be reached, or by
\* the TTL goroutine, which then tells this very process to stop: no late report about
\* an older process takes a new one down, and no process that still answers is let go
\* of without being stopped (tickTTL, killAndUnload, onExit).
UnloadedOnlyWhenDown ==
  [][\A p \in Procs : (state \in Serving /\ proc = p /\ state' = "UNLOADED") =>
       \/ engine[p] # "up" \/ Listener # p
       \/ tpc' = "signal" /\ tproc' = p]_vars

\* The entry follows the documented lifecycle (README, "Model Lifecycle").
Lifecycle == INSTANCE ModelLifecycle
               WITH st <- state, running <- proc # NoProc, CanSleep <- ~LlamaCpp
FollowsLifecycle == Lifecycle!Spec

\* r waits for a hung process, or has panicked.
Stuck(r) ==
  \/ hpc[r] = "panicked"
  \/ hpc[r] \in {"health", "wakePost", "wakePoll"} /\ Answering(hproc[r]) = {}

\* A load ends, in ACTIVE or in failure, unless its engine has accepted a call and
\* never answers it, or its rules have panicked: whatever else becomes of the engine,
\* of the TTL goroutine and of other requests, waitForHealth and killProcess see to it.
LoadEnds ==
  <>[](state = "LOADING") => <>[](\E r \in Requests : Claimed(r) /\ Stuck(r))

\* The plan: "all others enqueue and drain when ACTIVE".  Whoever finds the model busy, no
\* request stays in the queue for ever, but where a waker or a loader is stuck.  The
\* handler that enqueued it reads the state again afterwards, and every way on from
\* there ends in a drain, its own or the loader's.
QueueDrains == []<>(queue = <<>>) \/ <>[](\E r \in Requests : Stuck(r))

\* A crash of the entry's process is noticed: the entry does not keep a dead
\* process for ever (watchHealth, onExit).
CrashNoticed ==
  \A p \in Procs : (proc = p /\ engine[p] = "dead") ~> proc # p

\* documents/plan_vllm_orchestrator.md: "Check active_request_count == 0 before
\* any sleep/terminate".  tickTTL decides with no proxied request in flight.
TTLSparesInFlight ==
  [][tpc = "recheck" /\ tpc' \in {"sleepPost", "kill"} =>
       \A r \in Requests : hpc[r] # "forward"]_vars

\* The same plan makes every TTL step wait for "active_request_count == 0".  When
\* every request has come to its end, the count is zero.
NoRequestNoCount ==
  (\A r \in Requests : hpc[r] = "ended") => activeRequests = 0
=============================================================================
