---------------------------- MODULE Orchestrator ----------------------------
(***************************************************************************)
(* The orchestrator's life (main.go): it reads its configuration, sweeps   *)
(* stale sockets, loads the startup models, serves requests, and ends by   *)
(* SIGTERM or by a crash, after which it is started again.  Its engines    *)
(* are processes of their own: they outlive it, and so do their sockets.   *)
(*                                                                         *)
(* An entry is coarser than in ModelEntry: its queue is the set of waiting *)
(* connections, the two sleep levels are one, and no eviction releases an  *)
(* entry under its loader.  What is finer: a connection with its upstream  *)
(* (proxy.go), the sockets of several entries, and several lives.          *)
(***************************************************************************)
EXTENDS Config

CONSTANTS
  Configurations,  \* what the configuration file may hold
  Present,         \* devices that nvidia-smi lists
  Conns,           \* HTTP connections
  Engines,         \* processes that may be launched
  None,            \* no process
  Lives,           \* bound: how many times the orchestrator is started
  Explored         \* bound: configurations followed beyond their validation

ASSUME NoneAssumption == None \notin Engines \union Conns
ASSUME LivesAssumption == Lives \in Nat \ {0}
ASSUME ConfigurationsAssumption == Configurations \subseteq ConfigFile
\* fmt writes different numbers differently.
ASSUME NumeralsAssumption ==
  \A c \in Configurations : \A m \in Range(c.models) : \A r, s \in 0..(ReplicasOf(m) - 1) :
    ToString(r) = ToString(s) => r = s

VARIABLES
  cfg,
  phase,     \* where main is
  life,      \* how many times it has been started
  sweep,     \* socket paths that the sweep has still to look at
  unowned,   \* the path it found nobody listening on and removes next
  visit,     \* the entry that the kill loop visits
  victim,    \* the process it waits for
  models,    \* o.models: for each entry its model, its replica and its socketPath
  \* modelEntry, by its number in o.models
  state, proc,
  lpc,       \* where the goroutine that loads it is
  leng,      \* the process it has launched
  by,        \* the connection whose handler it is, None for loadModel
  boot,      \* entries whose loadModel has still to act
  next,      \* replicaSet.next of each model
  stopping,  \* processes that a killProcess outside the kill loop waits for
  \* connections
  cpc, cent, ceng,
  gone,      \* of a tunnel: the sides that closed, the copiers that ended
  \* the outside world
  engine,    \* life of each process
  epath,     \* the path it was given
  linked,    \* processes that the file at their path belongs to
  old,       \* processes of earlier lives
  \* history
  upAtStart, \* processes that were listening when the orchestrator was started
  rivals,    \* for each entry, the processes of its path that had yet to bind it when
             \* the load last found the path free, or freed it
  missed     \* processes of this life that the kill loop could not know of

main == <<phase, life, sweep, unowned, visit, victim>>
entries == <<state, proc, lpc, leng, by, boot, next, stopping>>
conns == <<cpc, cent, ceng, gone>>
world == <<engine, epath, linked, old>>
history == <<upAtStart, rivals, missed>>
vars == <<main, entries, conns, world, history, models, cfg>>

Path(e) == models[e].path
Entries == DOMAIN models

Phases == {"off", "sweep", "serve", "drain", "kill", "wait", "down"}
Running == {"serve", "drain", "kill", "wait"}
Live == {"starting", "bound", "up", "term", "closed"}
Launching == {"launch", "dial", "remove", "start"}
Launched == {"register", "health", "kill"}
Sides == {"client", "upstream"}
Copiers == {"copier", "handler"}

OrchestratorTypeOK ==
  /\ phase \in Phases /\ life \in 0..Lives
  /\ sweep \subseteq {epath[g] : g \in Engines} /\ Cardinality(unowned) <= 1
  /\ visit \in 0..(Len(models) + 1) /\ victim \in Engines \union {None}
  /\ state \in [Entries -> {"UNLOADED", "LOADING", "ACTIVE", "ASLEEP"}]
  /\ proc \in [Entries -> Engines \union {None}]
  /\ lpc \in [Entries -> {"none"} \union Launching \union Launched]
  /\ leng \in [Entries -> Engines \union {None}]
  /\ by \in [Entries -> Conns \union {None}]
  /\ DOMAIN next \subseteq DOMAIN cfg.models /\ Range(next) \subseteq Nat
  /\ boot \subseteq Entries /\ stopping \subseteq Engines
  /\ cpc \in [Conns -> {"new", "waiting", "granted", "proxied", "tunnel", "ended"}]
  /\ cent \in [Conns -> Entries \union {0}]
  /\ ceng \in [Conns -> Engines \union {None}]
  /\ gone \in [Conns -> SUBSET (Sides \union Copiers)]
  /\ engine \in [Engines -> Live \union {"unborn", "dead"}]
  /\ linked \subseteq Engines /\ old \subseteq Engines
  /\ upAtStart \subseteq Engines /\ missed \subseteq Engines
  /\ rivals \in [Entries -> SUBSET Engines]

Init ==
  /\ cfg \in Configurations
  /\ phase = "off" /\ life = 0 /\ sweep = {} /\ unowned = {} /\ visit = 0 /\ victim = None
  /\ models = <<>>
  /\ state = <<>> /\ proc = <<>> /\ lpc = <<>> /\ leng = <<>> /\ by = <<>>
  /\ boot = {} /\ next = <<>> /\ stopping = {}
  /\ cpc = [c \in Conns |-> "new"] /\ cent = [c \in Conns |-> 0]
  /\ ceng = [c \in Conns |-> None] /\ gone = [c \in Conns |-> {}]
  /\ engine = [g \in Engines |-> "unborn"]
  /\ epath = [g \in Engines |-> <<>>]
  /\ linked = {} /\ old = {}
  /\ upAtStart = {} /\ missed = {} /\ rivals = <<>>
-----------------------------------------------------------------------------
(* Sockets *)

At(path) == {g \in linked : epath[g] = path}

\* checkSocketOwned: who answers at the path.  (OwnedNever is a mutant.)
Listeners(path) == {g \in At(path) : engine[g] \in {"up", "term"}}
OwnedNever(path) == FALSE
Owned(path) == Listeners(path) # {}

Unlink(path) == linked' = linked \ At(path)

\* SIGTERM.
Signalled(g) ==
  [engine EXCEPT ![g] = CASE @ = "up" -> "term"
                          [] @ \in {"starting", "bound"} -> "closed"
                          [] OTHER -> @]

-----------------------------------------------------------------------------
(* Start and end *)

\* What the end of the process leaves: nothing in it, and its connections closed.
AllLost(to) ==
  /\ UNCHANGED <<cfg, life>>
  /\ phase' = to
  /\ sweep' = {} /\ unowned' = {} /\ visit' = 0 /\ victim' = None
  /\ models' = <<>>
  /\ state' = <<>> /\ proc' = <<>> /\ lpc' = <<>> /\ leng' = <<>> /\ by' = <<>>
  /\ boot' = {} /\ next' = <<>> /\ stopping' = {} /\ rivals' = <<>>
  /\ missed' = IF to = "down" THEN missed ELSE {}
  /\ UNCHANGED <<world, upAtStart>>
  /\ cpc' = [c \in Conns |-> IF cpc[c] = "new" THEN "new" ELSE "ended"]
  /\ cent' = [c \in Conns |-> 0] /\ ceng' = [c \in Conns |-> None]
  /\ gone' = [c \in Conns |-> {}]

\* loadConfig, validateConfig, initMemory; then the socket directories are listed.
Start ==
  /\ phase \in {"off", "down"} /\ life < Lives
  /\ ValidConfig(cfg) /\ DevicesExist(cfg, Present)
  /\ phase' = "sweep" /\ life' = life + 1
  /\ sweep' = {epath[g] : g \in linked}
  /\ old' = {g \in Engines : engine[g] # "unborn"}
  /\ upAtStart' = {g \in linked : engine[g] = "up"} /\ missed' = {}
  /\ UNCHANGED <<cfg, models, unowned, visit, victim, entries, conns, engine, epath, linked, rivals>>

\* Each file is dialled, and removed if nobody answers.
SweepDial == \E path \in sweep :
  /\ phase = "sweep" /\ unowned = {}
  /\ sweep' = sweep \ {path}
  /\ unowned' = IF Owned(path) THEN {} ELSE {path}
  /\ UNCHANGED <<cfg, models, phase, life, visit, victim, entries, conns, world, history>>

SweepRemove == \E path \in unowned :
  /\ phase = "sweep"
  /\ Unlink(path) /\ unowned' = {}
  /\ UNCHANGED <<cfg, models, phase, life, sweep, visit, victim, entries, conns, engine, epath, old,
                 history>>

\* newOrchestrator, the goroutines of the startup models, ListenAndServe.
Built == [e \in DOMAIN EntriesOf(cfg) |->
  LET r == EntriesOf(cfg)[e] IN
  [model |-> r.model, replica |-> r.replica, path |-> SocketPath(cfg, r)]]
Serve ==
  /\ phase = "sweep" /\ sweep = {} /\ unowned = {} /\ cfg \in Explored
  /\ phase' = "serve"
  /\ models' = Built
  /\ state' = [e \in DOMAIN Built |-> "UNLOADED"] /\ proc' = [e \in DOMAIN Built |-> None]
  /\ lpc' = [e \in DOMAIN Built |-> "none"] /\ leng' = [e \in DOMAIN Built |-> None]
  /\ by' = [e \in DOMAIN Built |-> None] /\ rivals' = [e \in DOMAIN Built |-> {}]
  /\ next' = [k \in DOMAIN cfg.models |-> 0]
  /\ boot' = {e \in DOMAIN Built : cfg.models[Built[e].model].startup}
  /\ UNCHANGED <<cfg, life, sweep, unowned, visit, victim, stopping, conns, world, upAtStart,
                 missed>>

\* SIGKILL, a panic, or log.Fatalf when the address is taken.
Crash ==
  /\ phase \in Running \union {"sweep"}
  /\ AllLost("off")

\* SIGTERM.
Terminate ==
  /\ phase = "serve" /\ phase' = "drain"
  /\ UNCHANGED <<cfg, models, life, sweep, unowned, visit, victim, entries, conns, world, history>>

\* srv.Shutdown has closed the listener; it returns when the handlers of all
\* connections that no tunnel has hijacked are done, and after 60 s at the latest.
\* (The variant before it is a mutant without the deadline.)
ShutdownWithoutDeadline ==
  /\ phase = "drain" /\ \A c \in Conns : cpc[c] \in {"new", "tunnel", "ended"}
  /\ phase' = "kill" /\ visit' = 1
  /\ UNCHANGED <<cfg, models, life, sweep, unowned, victim, entries, conns, world, history>>
Shutdown ==
  /\ phase = "drain"
  /\ phase' = "kill" /\ visit' = 1
  /\ UNCHANGED <<cfg, models, life, sweep, unowned, victim, entries, conns, world, history>>

\* The loop over o.models: me.proc is taken away, me.state is not touched.  (The
\* variant before it is a mutant that leaves models alone while they load.)
NothingToKillOrLoading(e) == proc[e] = None \/ state[e] = "LOADING"
NothingToKill(e) == proc[e] = None
KillVisit ==
  /\ phase = "kill" /\ visit \in Entries
  /\ IF NothingToKill(visit)
       THEN visit' = visit + 1 /\ UNCHANGED <<phase, victim, engine>>
       ELSE /\ phase' = "wait" /\ victim' = proc[visit] /\ UNCHANGED visit
            /\ engine' = Signalled(proc[visit])
  /\ proc' = [proc EXCEPT ![visit] = None]
  /\ missed' = IF lpc[visit] = "register" THEN missed \union {leng[visit]} ELSE missed
  /\ UNCHANGED <<cfg, models, life, sweep, unowned, state, lpc, leng, by, boot, next, stopping,
                 conns, epath, linked, old, upAtStart, rivals>>

\* killProcess returns.  (The variant before it is a mutant that advances twice.)
KilledSkipsNext ==
  /\ phase = "wait" /\ engine[victim] = "dead"
  /\ phase' = "kill" /\ visit' = visit + 2 /\ victim' = None
  /\ Unlink(epath[victim])
  /\ UNCHANGED <<cfg, models, life, sweep, unowned, entries, conns, engine, epath, old, history>>
Killed ==
  /\ phase = "wait" /\ engine[victim] = "dead"
  /\ phase' = "kill" /\ visit' = visit + 1 /\ victim' = None
  /\ Unlink(epath[victim])
  /\ UNCHANGED <<cfg, models, life, sweep, unowned, entries, conns, engine, epath, old, history>>

ShutdownComplete ==
  /\ phase = "kill" /\ \A e \in Entries : e < visit
  /\ AllLost("down")

-----------------------------------------------------------------------------
(* Connections *)

Steps == phase \in Running /\ UNCHANGED <<cfg, models, main>>

Replicas(k) == {e \in Entries : models[e].model = k}

\* peekAndResolve: the name is looked up, and pick takes the replicas in turn.
Picked(k) ==
  CHOOSE e \in Replicas(k) : models[e].replica = next[k] % Cardinality(Replicas(k))

\* handleRequest on the picked entry.
Arrive(c) == \E name \in Known(cfg) :
  LET k == ByName(cfg, name) IN
  /\ Steps /\ phase = "serve" /\ cpc[c] = "new"
  /\ cent' = [cent EXCEPT ![c] = Picked(k)]
  /\ next' = [next EXCEPT ![k] = IF Cardinality(Replicas(k)) = 1 THEN @ ELSE @ + 1]
  /\ cpc' = [cpc EXCEPT ![c] = IF state[Picked(k)] = "ACTIVE" THEN "granted" ELSE "waiting"]
  /\ UNCHANGED <<state, proc, lpc, leng, by, boot, stopping, ceng, gone, world, history>>

\* drainQueue and drainQueueWith503.
Drained(e, to) ==
  cpc' = [c \in Conns |-> IF cpc[c] = "waiting" /\ cent[c] = e THEN to ELSE cpc[c]]

\* The UNLOADED case: the handler, or loadModel, claims the entry.
Claims(e, who) ==
  /\ state[e] = "UNLOADED"
  /\ state' = [state EXCEPT ![e] = "LOADING"]
  /\ lpc' = [lpc EXCEPT ![e] = "launch"] /\ by' = [by EXCEPT ![e] = who]
  /\ UNCHANGED <<proc, leng, next, stopping, conns, world, history>>
Claim(c) == Steps /\ cpc[c] = "waiting" /\ Claims(cent[c], c) /\ UNCHANGED boot
Boot(e) ==
  /\ Steps /\ e \in boot /\ boot' = boot \ {e}
  /\ \/ Claims(e, None)
     \/ state[e] # "UNLOADED" /\ UNCHANGED <<state, proc, lpc, leng, by, next, stopping, conns,
                                              world, history>>

\* The other cases: the model is ACTIVE by now, or asleep; a nil process needs no
\* waking, and waking fails when nobody answers, or not as hoped.
Wake(c) ==
  LET e == cent[c] IN
  /\ Steps /\ cpc[c] = "waiting" /\ state[e] \in {"ACTIVE", "ASLEEP"}
  /\ \/ /\ state[e] = "ACTIVE" \/ proc[e] = None \/ Owned(Path(e))
        /\ Drained(e, "granted")
        /\ state' = IF proc[e] = None THEN state ELSE [state EXCEPT ![e] = "ACTIVE"]
     \/ /\ state[e] = "ASLEEP" /\ proc[e] # None
        /\ Drained(e, "ended") /\ UNCHANGED state
  /\ UNCHANGED <<proc, lpc, leng, by, boot, next, stopping, cent, ceng, gone, world, history>>

\* The client gives up; a handler that loads goes on with the load.
ClientLeaves(c) ==
  /\ Steps /\ cpc[c] \in {"waiting", "granted"} /\ \A e \in Entries : by[e] # c
  /\ cpc' = [cpc EXCEPT ![c] = "ended"]
  /\ UNCHANGED <<entries, cent, ceng, gone, world, history>>

\* forwardDirect, or serveWebSocket if the request asks for an upgrade, dials the path;
\* 502 if that fails.
Forward(c) ==
  /\ Steps /\ cpc[c] = "granted"
  /\ \/ \E g \in Listeners(Path(cent[c])) :
          /\ ceng' = [ceng EXCEPT ![c] = g]
          /\ \E to \in {"proxied", "tunnel"} : cpc' = [cpc EXCEPT ![c] = to]
     \/ cpc' = [cpc EXCEPT ![c] = "ended"] /\ UNCHANGED ceng
  /\ UNCHANGED <<entries, cent, gone, world, history>>

\* A plain response comes to its end, or breaks off.
Responded(c) ==
  /\ Steps /\ cpc[c] = "proxied"
  /\ cpc' = [cpc EXCEPT ![c] = "ended"] /\ ceng' = [ceng EXCEPT ![c] = None]
  /\ UNCHANGED <<entries, cent, gone, world, history>>

\* A tunnel: the client or the engine closes its side,
HasClosed(c, side) ==
  \/ side \in gone[c]
  \/ side = "upstream" /\ \E g \in Engines : g = ceng[c] /\ engine[g] = "dead"
Tunnel(c, what) ==
  /\ cpc[c] = "tunnel" /\ what \notin gone[c] /\ Steps
  /\ gone' = [gone EXCEPT ![c] = @ \union {what}]
  /\ UNCHANGED <<entries, cpc, cent, ceng, world, history>>
SideCloses(c) == \E side \in Sides : Tunnel(c, side)

\* io.Copy ends at the end of what it reads, or when it has something to write to a
\* side that has closed.
Reads == [copier |-> "client", handler |-> "upstream"]
Writes == [copier |-> "upstream", handler |-> "client"]
CopyReadsEnd(c) == \E who \in Copiers : Tunnel(c, who) /\ HasClosed(c, Reads[who])
CopyWriteFails(c) == \E who \in Copiers : Tunnel(c, who) /\ HasClosed(c, Writes[who])

\* Both copies have ended: the handler returns and closes what is open.  (The variant
\* before it is a mutant in which the goroutine does not close done.)
CopiersDoneUnsaid(c) == {"handler", "done"} \subseteq gone[c]
CopiersDone(c) == Copiers \subseteq gone[c]
TunnelCloses(c) ==
  /\ cpc[c] = "tunnel" /\ CopiersDone(c) /\ Steps
  /\ cpc' = [cpc EXCEPT ![c] = "ended"] /\ ceng' = [ceng EXCEPT ![c] = None]
  /\ gone' = [gone EXCEPT ![c] = {}]
  /\ UNCHANGED <<entries, cent, world, history>>

-----------------------------------------------------------------------------
(* The goroutine that loads entry e *)

Loads(e, from) == Steps /\ lpc[e] = from /\ UNCHANGED <<next, boot, cent, ceng, gone, old>>
LoadGoesOn(e, to) == lpc' = [lpc EXCEPT ![e] = to] /\ UNCHANGED <<by, cpc>>
LoadEnds(e, to) ==
  /\ lpc' = [lpc EXCEPT ![e] = "none"] /\ leng' = [leng EXCEPT ![e] = None]
  /\ by' = [by EXCEPT ![e] = None]
  /\ Drained(e, to)

Visited(e) == (phase = "kill" /\ e < visit) \/ (phase = "wait" /\ e <= visit)

\* launchVLLM, launchLlamaCpp: is there a file?  (The variant before it is a mutant
\* that does not look.)
AfterStatUnchecked(path) == "start"
AfterStat(path) == IF At(path) = {} THEN "start" ELSE "dial"

YetToBind(path) == {h \in Engines : epath[h] = path /\ engine[h] = "starting"}

Stat(e) ==
  /\ Loads(e, "launch") /\ LoadGoesOn(e, AfterStat(Path(e)))
  /\ rivals' = [rivals EXCEPT ![e] = YetToBind(Path(e))]
  /\ UNCHANGED <<state, proc, leng, stopping, engine, epath, linked, upAtStart, missed>>

\* If there is one, it is dialled; nobody answers, and it is removed.
Dial(e) ==
  /\ Loads(e, "dial") /\ LoadGoesOn(e, "remove")
  /\ ~Owned(Path(e))
  /\ UNCHANGED <<state, proc, leng, stopping, engine, epath, linked, history>>

RemoveStale(e) ==
  /\ Loads(e, "remove") /\ LoadGoesOn(e, "start")
  /\ Unlink(Path(e)) /\ rivals' = [rivals EXCEPT ![e] = YetToBind(Path(e))]
  /\ UNCHANGED <<state, proc, leng, stopping, engine, epath, upAtStart, missed>>

\* cmd.Start.
Launch(e) ==
  LET unborn == {h \in Engines : engine[h] = "unborn"}
      g == CHOOSE h \in unborn : TRUE IN
  /\ Loads(e, "start") /\ LoadGoesOn(e, "register")
  /\ unborn # {} /\ engine' = [engine EXCEPT ![g] = "starting"]
  /\ epath' = [epath EXCEPT ![g] = Path(e)]
  /\ leng' = [leng EXCEPT ![e] = g]
  /\ missed' = IF Visited(e) THEN missed \union {g} ELSE missed
  /\ UNCHANGED <<state, proc, stopping, linked, upAtStart, rivals>>

\* No group, a socket that is owned, or no such command.
LaunchFails(e) ==
  /\ \/ Loads(e, "launch") \/ Loads(e, "start")
     \/ Loads(e, "dial") /\ Owned(Path(e))
  /\ LoadEnds(e, "ended")
  /\ state' = [state EXCEPT ![e] = "UNLOADED"]
  /\ UNCHANGED <<proc, stopping, engine, epath, linked, history>>

Register(e) ==
  /\ Loads(e, "register") /\ LoadGoesOn(e, "health")
  /\ proc' = [proc EXCEPT ![e] = leng[e]]
  /\ UNCHANGED <<state, leng, stopping, engine, epath, linked, history>>

\* waitForHealth: somebody answers with 200, or the process has exited, or the deadline
\* passes.
HealthOk(e) ==
  /\ Loads(e, "health") /\ LoadEnds(e, "granted")
  /\ Owned(Path(e))
  /\ state' = [state EXCEPT ![e] = "ACTIVE"]
  /\ UNCHANGED <<proc, stopping, engine, epath, linked, history>>

HealthTimesOut(e) ==
  /\ Loads(e, "health") /\ LoadGoesOn(e, "kill")
  /\ engine' = Signalled(leng[e])
  /\ UNCHANGED <<state, proc, leng, stopping, epath, linked, history>>

HealthFails(e) ==
  /\ \/ Loads(e, "health") /\ UNCHANGED linked
     \/ Loads(e, "kill") /\ Unlink(epath[leng[e]])
  /\ engine[leng[e]] = "dead" /\ LoadEnds(e, "ended")
  /\ state' = [state EXCEPT ![e] = "UNLOADED"] /\ proc' = [proc EXCEPT ![e] = None]
  /\ UNCHANGED <<stopping, engine, epath, history>>

-----------------------------------------------------------------------------
(* An entry that has been loaded *)

CanSleep(e) == EngineOf(cfg.models[models[e].model]) = VLLM

FallsAsleep(e) ==
  /\ Steps /\ CanSleep(e) /\ state[e] = "ACTIVE" /\ proc[e] # None /\ Owned(Path(e))
  /\ state' = [state EXCEPT ![e] = "ASLEEP"]
  /\ UNCHANGED <<proc, lpc, leng, by, boot, next, stopping, conns, world, history>>

\* The last TTL: killAndUnload, which has nothing to kill once the kill loop has been
\* by: a nil dereference, and the end of the whole program.
Unload(e) ==
  /\ phase \in Running
  /\ state[e] = IF CanSleep(e) THEN "ASLEEP" ELSE "ACTIVE"
  /\ IF proc[e] = None
       THEN AllLost("off")
       ELSE /\ UNCHANGED <<cfg, models, main>>
            /\ state' = [state EXCEPT ![e] = "UNLOADED"]
            /\ proc' = [proc EXCEPT ![e] = None]
            /\ engine' = Signalled(proc[e]) /\ stopping' = stopping \union {proc[e]}
            /\ UNCHANGED <<lpc, leng, by, boot, next, conns, epath, linked, old, history>>
Stopped(g) ==
  /\ Steps /\ g \in stopping /\ engine[g] = "dead"
  /\ stopping' = stopping \ {g} /\ Unlink(epath[g])
  /\ UNCHANGED <<state, proc, lpc, leng, by, boot, next, conns, engine, epath, old, history>>

\* watchHealth: nobody answers any more; the process is not signalled.
CrashNoticed(e) ==
  /\ Steps /\ state[e] \in {"ACTIVE", "ASLEEP"} /\ proc[e] # None /\ ~Owned(Path(e))
  /\ state' = [state EXCEPT ![e] = "UNLOADED"] /\ proc' = [proc EXCEPT ![e] = None]
  /\ Drained(e, "ended") /\ missed' = missed \union {proc[e]}
  /\ UNCHANGED <<lpc, leng, by, boot, next, stopping, cent, ceng, gone, world, upAtStart,
                 rivals>>

-----------------------------------------------------------------------------
(* The engines *)

EngineMoves(g, from, to) ==
  /\ engine[g] \in from /\ engine' = [engine EXCEPT ![g] = to]
  /\ UNCHANGED <<cfg, models, main, entries, conns, epath, old, history>>

\* It binds the path, which fails if there is a file, and later it listens.
Binds(g) == EngineMoves(g, {"starting"}, "bound") /\ At(epath[g]) = {} /\ linked' = linked \union {g}
BindFails(g) == EngineMoves(g, {"starting"}, "dead") /\ At(epath[g]) # {} /\ UNCHANGED linked
Listens(g) == EngineMoves(g, {"bound"}, "up") /\ UNCHANGED linked
Closes(g) == EngineMoves(g, {"term"}, "closed") /\ UNCHANGED linked
Exits(g) == EngineMoves(g, {"term", "closed"}, "dead") /\ UNCHANGED linked
Dies(g) == EngineMoves(g, {"starting", "bound", "up"}, "dead") /\ UNCHANGED linked

Next ==
  \/ Start \/ SweepDial \/ SweepRemove \/ Serve \/ Crash
  \/ Terminate \/ Shutdown \/ KillVisit \/ Killed \/ ShutdownComplete
  \/ \E c \in Conns : \/ Arrive(c) \/ Claim(c) \/ Wake(c) \/ ClientLeaves(c)
                      \/ Forward(c) \/ Responded(c)
                      \/ SideCloses(c) \/ CopyReadsEnd(c) \/ CopyWriteFails(c) \/ TunnelCloses(c)
  \/ \E e \in Entries : \/ Boot(e)
                        \/ Stat(e) \/ Dial(e) \/ RemoveStale(e) \/ Launch(e) \/ LaunchFails(e)
                        \/ Register(e)
                        \/ HealthOk(e) \/ HealthTimesOut(e) \/ HealthFails(e)
                        \/ FallsAsleep(e) \/ Unload(e) \/ CrashNoticed(e)
  \/ \E g \in Engines : \/ Stopped(g) \/ Binds(g) \/ BindFails(g) \/ Listens(g)
                        \/ Closes(g) \/ Exits(g) \/ Dies(g)

Spec == Init /\ [][Next]_vars

\* killProcess sends SIGKILL after 30 s to the process it waits for.
VictimExits == \E g \in Engines : g = victim /\ Exits(g)

\* main goes on until it ends, SIGKILL ends its victim, io.Copy notices the end of what
\* it reads.  Nothing is assumed of clients, engines or loads, nor that the
\* orchestrator does not crash.
FairSpec ==
  /\ Spec
  /\ WF_vars(Shutdown) /\ WF_vars(KillVisit) /\ WF_vars(Killed) /\ WF_vars(ShutdownComplete)
  /\ WF_vars(VictimExits)
  /\ \A c \in Conns : WF_vars(CopyReadsEnd(c)) /\ WF_vars(TunnelCloses(c))

-----------------------------------------------------------------------------
(* Properties *)

\* A configuration has been accepted; nothing has been built of it yet.
Accepted == phase = "sweep"

\* Every name and alias of an accepted configuration leads to the model that declares
\* it: the map modelByName, filled in the order of the models, overwrites nothing.
NamesResolve ==
  Accepted => \A k \in DOMAIN cfg.models, name \in Known(cfg) :
    name \in Range(Declared(cfg.models[k])) => ByName(cfg, name) = k

\* A pinned model that asks for so many devices is pinned to a group that has them.
PinnedFits ==
  Accepted => \A m \in Range(cfg.models) :
    m.pin # "" => m.tp <= Len(cfg.groups[FirstGroup(cfg, m.pin)].gpus)

\* So it is when the groups have different ids: validateConfig, which counts the devices
\* of the last group of an id, then speaks of the one that assignGroup takes.
PinnedFitsIfIdsDiffer == IsInjective([i \in DOMAIN cfg.groups |-> cfg.groups[i].id]) => PinnedFits

\* Two entries get one socket only if they are of two models, one of which has a name
\* with a character that is replaced, or with a dash, as before a replica's number.
PathsApart ==
  Accepted => \A e, f \in Range(EntriesOf(cfg)) :
    e # f /\ SocketPath(cfg, e) = SocketPath(cfg, f) =>
      /\ e.model # f.model
      /\ \E x \in {e, f} :
           LET name == cfg.models[x.model].name IN
           ~(Range(name) \subseteq Kept \ {"-"})

\* A restart does not cut off an engine that was listening: the sweep and the launches
\* leave the socket of each such engine in place as long as it listens.
ServingSurvivesRestart == \A g \in upAtStart : engine[g] = "up" => g \in linked

\* Whoever answers requests for a model that is ACTIVE is the process of its entry,
\* unless the shutdown loop has taken that process away, or another entry has the same
\* path, or the other one was launched for the path earlier, mostly by an orchestrator
\* that crashed, and had yet to bind it when the load found the path free, or freed it.
OwnEngineAnswers == \A e \in Entries : \A h \in Listeners(Path(e)) :
  state[e] = "ACTIVE" /\ (\A f \in Entries : Path(f) = Path(e) => f = e) =>
    h = proc[e] \/ proc[e] = None \/ h \in rivals[e]

\* When the orchestrator has shut down, the processes of this life that go on unstopped
\* are those that the loop over the entries could not know of: launched, or not yet
\* registered, when it visited their entry, or dropped by a crash handler.
OnlyMissedSurvive ==
  phase = "down" => \A g \in Engines \ old :
    engine[g] \in {"starting", "bound", "up"} => g \in missed

\* A shutdown ends, whatever clients, tunnels and loads do.
ShutdownEnds == phase = "drain" ~> phase \in {"down", "off"}

\* A tunnel whose two sides have closed is given up, and its request completed.
TunnelsEnd == \A c \in Conns :
  cpc[c] = "tunnel" /\ (\A side \in Sides : HasClosed(c, side)) ~> cpc[c] # "tunnel"
=============================================================================
