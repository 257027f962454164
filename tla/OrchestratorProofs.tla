------------------------- MODULE OrchestratorProofs -------------------------
(***************************************************************************)
(* Proofs about Orchestrator, for every set of configurations, engines and *)
(* connections and every number of lives: a restart cuts off nobody who    *)
(* was listening, a shutdown stops every process it can know of, and no    *)
(* stranger answers for an entry.                                          *)
(*                                                                         *)
(* All rest on one fact: every process that the orchestrator remembers was *)
(* launched in this life, on a path where the load had found nobody.       *)
(***************************************************************************)
EXTENDS Orchestrator, ConfigProofs

\* The processes launched in this life, and those of them nobody has told to stop.
Mine == {g \in Engines \ old : engine[g] # "unborn"}
Unstopped == {"starting", "bound", "up"}

\* The variables are functions on what they should be functions on.
Shape ==
  /\ cfg \in Configurations /\ Entries \subseteq Nat \ {0} /\ visit \in Nat
  /\ phase \in Phases
  /\ DOMAIN state = Entries /\ DOMAIN proc = Entries
  /\ DOMAIN lpc = Entries /\ DOMAIN leng = Entries /\ DOMAIN rivals = Entries
  /\ DOMAIN engine = Engines /\ DOMAIN epath = Engines
  /\ linked \subseteq Engines /\ old \subseteq Engines /\ upAtStart \subseteq Engines

\* What the orchestrator remembers it launched itself.
Remembers ==
  /\ phase = "wait" => victim \in Mine
  /\ stopping \subseteq Mine
  /\ \A e \in Entries :
       /\ proc[e] \in Mine \union {None}
       /\ lpc[e] \in {"register", "health", "kill"} => leng[e] \in Mine
  /\ phase = "sweep" => Mine = {}
  /\ phase \in {"off", "down"} => Entries = {} /\ stopping = {} /\ unowned = {}

\* An engine that listened at the start and still does keeps its socket; the sweep
\* is not about to remove it, and nothing was launched on its path since.
Respected ==
  /\ \A g \in old : engine[g] # "unborn"
  /\ \A g \in upAtStart : engine[g] \in {"up", "term", "closed", "dead"}
  /\ \A g \in upAtStart : engine[g] = "up" =>
       g \in linked /\ epath[g] \notin unowned /\ \A h \in Mine : epath[h] # epath[g]

SocketInv == Shape /\ Remembers /\ Respected

\* None of them is at a path that a load has found free, or is about to free.
Cleared ==
  \A e \in Entries : lpc[e] \in {"remove", "start"} =>
    \A g \in upAtStart : engine[g] = "up" => epath[g] # Path(e)

\* An engine's own steps: it is born by then, and removes no file.
LEMMA EngineStep ==
  ASSUME SocketInv, NEW g \in Engines, NEW from, NEW to, EngineMoves(g, from, to),
         "unborn" \notin from, to \in {"bound", "up", "closed", "dead"}, linked \subseteq linked',
         to \in {"bound", "up"} => from \subseteq {"starting", "bound"},
         linked' \subseteq Engines
  PROVE  SocketInv' /\ Mine' = Mine
<1> USE DEF SocketInv, EngineMoves, main, entries, conns, history
<1>1. Mine' = Mine
  BY DEF Mine, Shape
<1>2. Shape'
  BY DEF Shape, Entries
<1>3. Remembers'
  BY <1>1 DEF Remembers, Entries
<1>4. Respected'
  BY <1>1 DEF Respected, Shape
<1> QED BY <1>1, <1>2, <1>3, <1>4


\* The end of the program: it remembers nothing.
LEMMA LossStep ==
  ASSUME SocketInv, NEW to \in {"off", "down"}, AllLost(to)
  PROVE  SocketInv'
<1> USE DEF SocketInv, AllLost, world
<1>1. Mine' = Mine
  BY DEF Mine
<1>2. Entries' = {}
  BY DEF Entries
<1>3. Shape'
  BY <1>2 DEF Shape, Phases
<1>4. Remembers' /\ Respected'
  BY <1>1, <1>2 DEF Remembers, Respected
<1> QED BY <1>3, <1>4

\* A socket file is removed at a path where nobody listens.
LEMMA UnlinkStep ==
  ASSUME SocketInv, NEW path, linked' \subseteq linked, linked \ At(path) \subseteq linked',
         UNCHANGED <<engine, epath, old, upAtStart>>, unowned' = {} \/ unowned' = unowned,
         \/ path \in unowned
         \/ \A g \in upAtStart : engine[g] = "up" => epath[g] # path
         \/ \E g \in Mine : epath[g] = path
  PROVE  Respected' /\ linked' \subseteq Engines /\ Mine' = Mine
<1>1. Mine' = Mine
  BY DEF Mine
<1>2. \A g \in upAtStart : engine[g] = "up" => epath[g] # path
  BY DEF SocketInv, Respected, Owned, Listeners, At
<1> QED BY <1>1, <1>2 DEF SocketInv, Shape, Respected, At

\* main, from its start to the end of the kill loop.
LEMMA MainStep ==
  ASSUME SocketInv,
         \/ Start \/ SweepDial \/ SweepRemove \/ Serve \/ Crash
         \/ Terminate \/ Shutdown \/ KillVisit \/ Killed \/ ShutdownComplete
  PROVE  SocketInv'
<1> USE DEF SocketInv, main, entries, conns, history, world
<1>1. CASE Start
  <2>1. Mine' = {}
    BY <1>1 DEF Start, Mine
  <2>2. Shape'
    BY <1>1 DEF Start, Shape, Entries, Phases
  <2>3. Remembers'
    BY <1>1, <2>1 DEF Start, Remembers, Entries
  <2>4. Respected'
    BY <1>1, <2>1 DEF Start, Respected, Remembers, Shape
  <2> QED BY <2>2, <2>3, <2>4
<1>2. CASE SweepDial
  <2>1. PICK path \in sweep : unowned = {} /\ unowned' = IF Owned(path) THEN {} ELSE {path}
    BY <1>2 DEF SweepDial
  <2>2. Mine' = Mine
    BY <1>2 DEF SweepDial, Mine
  <2>3. Shape' /\ Remembers'
    BY <1>2, <2>2 DEF SweepDial, Shape, Remembers, Entries
  <2>4. Respected'
    BY <1>2, <2>1, <2>2 DEF SweepDial, Respected, Shape, Owned, Listeners, At
  <2> QED BY <2>3, <2>4
<1>3. CASE SweepRemove
  <2>1. Respected' /\ linked' \subseteq Engines /\ Mine' = Mine
    BY <1>3, UnlinkStep DEF SweepRemove, Unlink, At
  <2> QED BY <1>3, <2>1 DEF SweepRemove, Shape, Remembers, Entries
<1>4. CASE Serve
  <2>1. Mine' = Mine
    BY <1>4 DEF Serve, Mine
  <2>2. Entries' = DOMAIN EntriesOf(cfg)
    BY <1>4 DEF Serve, Entries, Built
  <2>3. Shape'
    <3>1. DOMAIN EntriesOf(cfg) \subseteq Nat \ {0}
      BY ConfigurationsAssumption, EntriesNumbered DEF Shape
    <3> QED BY <1>4, <2>2, <3>1 DEF Serve, Shape, Built, Phases
  <2>4. Remembers'
    BY <1>4, <2>1, <2>2 DEF Serve, Remembers, Built
  <2>5. Respected'
    BY <1>4, <2>1 DEF Serve, Respected
  <2> QED BY <2>3, <2>4, <2>5
<1>5. CASE Crash \/ ShutdownComplete
  BY <1>5, LossStep DEF Crash, ShutdownComplete
<1>6. CASE Terminate \/ Shutdown
  <2>1. Mine' = Mine
    BY <1>6 DEF Terminate, Shutdown, Mine
  <2> QED BY <1>6, <2>1 DEF Terminate, Shutdown, Shape, Remembers, Respected, Entries, Phases
<1>7. CASE KillVisit
  <2>1. Mine' = Mine
    BY <1>7 DEF KillVisit, Signalled, Mine, Shape
  <2>2. Shape'
    BY <1>7 DEF KillVisit, Signalled, Shape, Entries, Phases
  <2>3. Remembers'
    BY <1>7, <2>1 DEF KillVisit, NothingToKill, Remembers, Shape, Entries
  <2>4. Respected'
    <3>1. \A g \in Engines :
            /\ engine'[g] \in {engine[g], "term", "closed"}
            /\ engine'[g] = "unborn" => engine[g] = "unborn"
      BY <1>7 DEF KillVisit, Signalled, Shape
    <3>2. UNCHANGED <<old, upAtStart, epath, linked, unowned>>
      BY <1>7 DEF KillVisit
    <3> QED BY <2>1, <3>1, <3>2 DEF Respected, Shape, Mine
  <2> QED BY <2>2, <2>3, <2>4
<1>8. CASE Killed
  <2>1. victim \in Mine
    BY <1>8 DEF Killed, Remembers
  <2>2. Respected' /\ linked' \subseteq Engines /\ Mine' = Mine
    BY <1>8, <2>1, UnlinkStep DEF Killed, Unlink, At
  <2> QED BY <1>8, <2>2 DEF Killed, Shape, Remembers, Entries, Phases
<1> QED BY <1>1, <1>2, <1>3, <1>4, <1>5, <1>6, <1>7, <1>8

\* The connections: they touch neither a process nor a socket.
LEMMA ConnStep ==
  ASSUME SocketInv, NEW c \in Conns,
         \/ Arrive(c) \/ Claim(c) \/ Wake(c) \/ ClientLeaves(c) \/ Forward(c) \/ Responded(c)
         \/ SideCloses(c) \/ CopyReadsEnd(c) \/ CopyWriteFails(c) \/ TunnelCloses(c)
  PROVE  SocketInv'
<1> USE DEF SocketInv, main, entries, conns, history, world, Steps
<1> DEFINE Aside ==
      /\ UNCHANGED <<cfg, models, main, world, history, proc, leng, stopping>>
      /\ DOMAIN state' = DOMAIN state /\ DOMAIN lpc' = DOMAIN lpc
      /\ \A e \in Entries : lpc'[e] \in {lpc[e], "launch"}
<1>1. Aside => SocketInv'
  <2> SUFFICES ASSUME Aside PROVE SocketInv'
    OBVIOUS
  <2>1. Mine' = Mine
    BY DEF Mine
  <2> QED BY <2>1 DEF Shape, Remembers, Respected, Entries
<1>2. CASE Arrive(c) \/ Wake(c) \/ ClientLeaves(c) \/ Forward(c) \/ Responded(c)
  BY <1>1, <1>2 DEF Arrive, Wake, ClientLeaves, Forward, Responded, Shape
<1>3. CASE Claim(c)
  BY <1>1, <1>3 DEF Claim, Claims, Shape
<1>4. CASE SideCloses(c) \/ CopyReadsEnd(c) \/ CopyWriteFails(c) \/ TunnelCloses(c)
  BY <1>1, <1>4 DEF SideCloses, CopyReadsEnd, CopyWriteFails, TunnelCloses, Tunnel
<1> QED BY <1>2, <1>3, <1>4

\* The loads, and what befalls an entry that has been loaded.
LEMMA LoadStep ==
  ASSUME SocketInv, Cleared, NEW e \in Entries,
         \/ Boot(e) \/ Stat(e) \/ Dial(e) \/ RemoveStale(e) \/ Launch(e) \/ LaunchFails(e)
         \/ Register(e) \/ HealthOk(e) \/ HealthTimesOut(e) \/ HealthFails(e)
         \/ FallsAsleep(e) \/ Unload(e) \/ CrashNoticed(e)
  PROVE  SocketInv'
<1> USE DEF SocketInv, main, entries, conns, history, world, Steps, Loads, LoadGoesOn, LoadEnds
<1> DEFINE Signals == \A g \in Engines :
             /\ engine'[g] \in {engine[g], "term", "closed"}
             /\ engine'[g] = "unborn" => engine[g] = "unborn"
             /\ engine[g] \in {"unborn", "dead"} => engine'[g] = engine[g]
           Aside == UNCHANGED <<cfg, models, main, epath, linked, old, upAtStart>>
<1>1. ASSUME Aside, Signals, DOMAIN engine' = Engines PROVE Respected' /\ Mine' = Mine
  <2>1. Mine' = Mine
    BY <1>1 DEF Mine
  <2> QED BY <1>1, <2>1 DEF Respected, Shape
<1>2. CASE Boot(e)
  <2>1. Aside /\ Signals /\ UNCHANGED <<engine, proc, leng, stopping>>
    BY <1>2 DEF Boot, Claims
  <2>2. \A f \in Entries : lpc'[f] \in {lpc[f], "launch"}
    BY <1>2 DEF Boot, Claims, Shape
  <2> QED BY <1>1, <1>2, <2>1, <2>2 DEF Boot, Claims, Shape, Remembers, Entries
<1>3. CASE Launch(e)
  <2>1. PICK g \in Engines : /\ engine[g] = "unborn"
                             /\ engine' = [engine EXCEPT ![g] = "starting"]
                             /\ epath' = [epath EXCEPT ![g] = Path(e)]
                             /\ leng' = [leng EXCEPT ![e] = g]
    BY <1>3 DEF Launch
  <2>2. lpc[e] = "start" /\ lpc' = [lpc EXCEPT ![e] = "register"]
    BY <1>3 DEF Launch
  <2>3. UNCHANGED <<cfg, models, main, state, proc, stopping, linked, old, upAtStart, rivals>>
    BY <1>3 DEF Launch
  <2>4. g \notin old /\ Mine' = Mine \union {g} /\ g \notin upAtStart
    BY <2>1, <2>3 DEF Mine, Respected, Shape
  <2>5. Shape'
    BY <2>1, <2>2, <2>3 DEF Shape, Entries
  <2>6. Remembers'
    <3>1. phase \notin {"sweep", "off", "down"}
      BY <1>3 DEF Launch, Running
    <3> QED BY <2>1, <2>2, <2>3, <2>4, <3>1 DEF Remembers, Shape, Entries
  <2>7. Respected'
    <3>1. \A x \in upAtStart : engine[x] = "up" => epath[x] # Path(e)
      BY <2>2 DEF Cleared
    <3>2. \A x \in upAtStart : engine'[x] = engine[x] /\ epath'[x] = epath[x]
      BY <2>1, <2>4 DEF Shape
    <3>3. \A h \in Mine : epath'[h] = epath[h]
      BY <2>1 DEF Shape, Mine
    <3> QED BY <2>1, <2>3, <2>4, <3>1, <3>2, <3>3 DEF Respected, Shape, Mine
  <2> QED BY <2>5, <2>6, <2>7
<1>4. CASE LaunchFails(e)
  <2>1. Respected' /\ Mine' = Mine
    BY <1>1, <1>4 DEF LaunchFails, Shape
  <2> QED BY <1>4, <2>1 DEF LaunchFails, Shape, Remembers, Entries
<1>12. CASE Stat(e) \/ Dial(e)
  <2>1. Respected' /\ Mine' = Mine
    BY <1>1, <1>12 DEF Stat, Dial, Shape
  <2>2. \A f \in Entries : lpc'[f] \in {lpc[f], "start", "dial", "remove"}
    BY <1>12 DEF Stat, AfterStat, Dial, Shape
  <2> QED BY <1>12, <2>1, <2>2 DEF Stat, Dial, Shape, Remembers, Entries
<1>13. CASE RemoveStale(e)
  <2>1. \A g \in upAtStart : engine[g] = "up" => epath[g] # Path(e)
    BY <1>13 DEF RemoveStale, Cleared
  <2>2. Respected' /\ linked' \subseteq Engines /\ Mine' = Mine
    BY <1>13, <2>1, UnlinkStep DEF RemoveStale, Unlink, At
  <2> QED BY <1>13, <2>2 DEF RemoveStale, Shape, Remembers, Entries
<1>5. CASE Register(e)
  <2>1. Respected' /\ Mine' = Mine
    BY <1>1, <1>5 DEF Register, Shape
  <2> QED BY <1>5, <2>1 DEF Register, Shape, Remembers, Entries
<1>6. CASE HealthOk(e)
  <2>1. Respected' /\ Mine' = Mine
    BY <1>1, <1>6 DEF HealthOk, Shape
  <2> QED BY <1>6, <2>1 DEF HealthOk, Shape, Remembers, Entries
<1>7. CASE HealthTimesOut(e)
  <2>1. Signals /\ DOMAIN engine' = Engines
    BY <1>7 DEF HealthTimesOut, Signalled, Shape
  <2>2. Respected' /\ Mine' = Mine
    BY <1>1, <1>7, <2>1 DEF HealthTimesOut
  <2> QED BY <1>7, <2>1, <2>2 DEF HealthTimesOut, Shape, Remembers, Entries
<1>8. CASE HealthFails(e)
  <2>1. Respected' /\ linked' \subseteq Engines /\ Mine' = Mine
    <3>1. CASE UNCHANGED linked
      BY <1>1, <1>8, <3>1 DEF HealthFails, Shape
    <3>2. CASE lpc[e] = "kill" /\ Unlink(epath[leng[e]])
      BY <1>8, <3>2, UnlinkStep DEF HealthFails, Unlink, Remembers, At
    <3> QED BY <1>8, <3>1, <3>2 DEF HealthFails
  <2> QED BY <1>8, <2>1 DEF HealthFails, Shape, Remembers, Entries
<1>9. CASE FallsAsleep(e)
  <2>1. Respected' /\ Mine' = Mine
    BY <1>1, <1>9 DEF FallsAsleep, Shape
  <2> QED BY <1>9, <2>1 DEF FallsAsleep, Shape, Remembers, Entries
<1>10. CASE Unload(e)
  <2>1. CASE proc[e] = None
    BY <1>10, <2>1, LossStep DEF Unload
  <2>2. CASE proc[e] # None
    <3>1. Signals /\ DOMAIN engine' = Engines
      BY <1>10, <2>2 DEF Unload, Signalled, Shape
    <3>2. Respected' /\ Mine' = Mine
      BY <1>1, <1>10, <2>2, <3>1 DEF Unload
    <3>3. proc[e] \in Mine /\ phase \notin {"off", "down"}
      BY <1>10, <2>2 DEF Unload, Running, Remembers
    <3> QED BY <1>10, <2>2, <3>1, <3>2, <3>3 DEF Unload, Shape, Remembers, Entries
  <2> QED BY <2>1, <2>2
<1>11. CASE CrashNoticed(e)
  <2>1. Respected' /\ Mine' = Mine
    BY <1>1, <1>11 DEF CrashNoticed, Shape
  <2> QED BY <1>11, <2>1 DEF CrashNoticed, Shape, Remembers, Entries
<1> QED BY <1>2, <1>3, <1>4, <1>5, <1>6, <1>7, <1>8, <1>9, <1>10, <1>11, <1>12, <1>13

\* A killProcess outside the kill loop returns: it removes its process's socket.
LEMMA StoppedStep ==
  ASSUME SocketInv, NEW g \in Engines, Stopped(g)
  PROVE  SocketInv'
<1> USE DEF SocketInv, Stopped, Steps, main, conns, history
<1>1. g \in Mine
  BY DEF Remembers
<1>2. Respected' /\ linked' \subseteq Engines /\ Mine' = Mine
  BY <1>1, UnlinkStep DEF Unlink, At
<1> QED BY <1>2 DEF Shape, Remembers, Entries

LEMMA SocketStep == SocketInv /\ Cleared /\ [Next]_vars => SocketInv'
<1> SUFFICES ASSUME SocketInv, Cleared, [Next]_vars PROVE SocketInv'
  OBVIOUS
<1>1. ASSUME NEW g \in Engines,
             Binds(g) \/ BindFails(g) \/ Listens(g) \/ Closes(g) \/ Exits(g) \/ Dies(g)
      PROVE  SocketInv'
  <2>1. CASE Binds(g)
    BY <2>1, EngineStep DEF Binds, SocketInv, Shape
  <2>2. CASE BindFails(g)
    BY <2>2, EngineStep DEF BindFails, SocketInv, Shape
  <2>3. CASE Listens(g)
    BY <2>3, EngineStep DEF Listens, SocketInv, Shape
  <2>4. CASE Closes(g)
    BY <2>4, EngineStep DEF Closes, SocketInv, Shape
  <2>5. CASE Exits(g)
    BY <2>5, EngineStep DEF Exits, SocketInv, Shape
  <2>6. CASE Dies(g)
    BY <2>6, EngineStep DEF Dies, SocketInv, Shape
  <2> QED BY <1>1, <2>1, <2>2, <2>3, <2>4, <2>5, <2>6
<1>2. CASE UNCHANGED vars
  BY <1>2 DEF vars, main, entries, world, history, SocketInv, Shape, Remembers, Respected, Mine,
     Entries
<1>3. CASE Next
  BY <1>1, <1>3, MainStep, ConnStep, LoadStep, StoppedStep DEF Next
<1> QED BY <1>2, <1>3

\* A load goes on to remove the file only when nobody answers there, and to start its
\* process only then or when there is no file.
LEMMA ClearedStep == SocketInv /\ Cleared /\ [Next]_vars => Cleared'
<1> SUFFICES ASSUME SocketInv, Cleared, [Next]_vars PROVE Cleared'
  OBVIOUS
<1> USE DEF SocketInv, main, entries, conns, history, world, Steps
<1> DEFINE Past(f) == lpc[f] \in {"remove", "start"}
           Frame == UNCHANGED <<models, epath, upAtStart>>
           Ups == \A g \in upAtStart : engine'[g] = "up" => engine[g] = "up"
<1>1. ASSUME Frame, Ups, \A f \in Entries : Past(f)' => Past(f) PROVE Cleared'
  BY <1>1 DEF Cleared, Path, Entries
<1>2. ASSUME Entries' = {} PROVE Cleared'
  BY <1>2 DEF Cleared
<1>3. CASE Start
  BY <1>2, <1>3 DEF Start, Remembers, Entries
<1>4. CASE SweepDial \/ SweepRemove \/ Terminate \/ Shutdown \/ Killed
  BY <1>1, <1>4 DEF SweepDial, SweepRemove, Terminate, Shutdown, Killed
<1>5. CASE Serve
  BY <1>5 DEF Serve, Cleared, Built, Entries
<1>6. CASE Crash \/ ShutdownComplete
  BY <1>2, <1>6 DEF Crash, ShutdownComplete, AllLost, Entries
<1>7. CASE KillVisit
  <2>1. Frame /\ UNCHANGED lpc /\ Ups
    BY <1>7 DEF KillVisit, Signalled, Shape
  <2> QED BY <1>1, <2>1
<1>8. ASSUME NEW c \in Conns,
             \/ Arrive(c) \/ Claim(c) \/ Wake(c) \/ ClientLeaves(c) \/ Forward(c) \/ Responded(c)
             \/ SideCloses(c) \/ CopyReadsEnd(c) \/ CopyWriteFails(c) \/ TunnelCloses(c)
      PROVE  Cleared'
  <2>1. CASE Claim(c)
    BY <1>1, <2>1 DEF Claim, Claims, Shape
  <2>2. CASE ~Claim(c)
    BY <1>1, <1>8, <2>2 DEF Arrive, Wake, ClientLeaves, Forward, Responded, SideCloses,
       CopyReadsEnd, CopyWriteFails, TunnelCloses, Tunnel
  <2> QED BY <2>1, <2>2
<1>9. ASSUME NEW e \in Entries,
             \/ Boot(e) \/ LaunchFails(e) \/ Register(e) \/ HealthOk(e) \/ HealthFails(e)
             \/ FallsAsleep(e) \/ CrashNoticed(e)
      PROVE  Cleared'
  <2>1. Frame /\ UNCHANGED engine
    BY <1>9 DEF Boot, Claims, LaunchFails, Register, HealthOk, HealthFails, FallsAsleep,
       CrashNoticed, Loads
  <2>2. \A f \in Entries : lpc'[f] \in {lpc[f], "launch", "health", "none"}
    BY <1>9 DEF Boot, Claims, LaunchFails, Register, HealthOk, HealthFails, FallsAsleep,
       CrashNoticed, Loads, LoadGoesOn, LoadEnds, Shape
  <2> QED BY <1>1, <2>1, <2>2
<1>10. ASSUME NEW e \in Entries, HealthTimesOut(e) \/ Unload(e) PROVE Cleared'
  <2>1. CASE HealthTimesOut(e)
    <3>1. Frame /\ Ups /\ lpc' = [lpc EXCEPT ![e] = "kill"]
      BY <2>1 DEF HealthTimesOut, Loads, LoadGoesOn, Signalled, Shape
    <3> QED BY <1>1, <3>1 DEF Shape
  <2>2. CASE Unload(e) /\ proc[e] = None
    BY <1>2, <2>2 DEF Unload, AllLost, Entries
  <2>3. CASE Unload(e) /\ proc[e] # None
    <3>1. Frame /\ Ups /\ UNCHANGED lpc
      BY <2>3 DEF Unload, Signalled, Shape
    <3> QED BY <1>1, <3>1
  <2> QED BY <1>10, <2>1, <2>2, <2>3
<1>11. ASSUME NEW e \in Entries, Stat(e) \/ Dial(e) PROVE Cleared'
  <2>1. Frame /\ UNCHANGED engine /\ \A f \in Entries : f # e => lpc'[f] = lpc[f]
    BY <1>11 DEF Stat, Dial, Loads, LoadGoesOn, Shape
  <2>2. Past(e)' => \A g \in upAtStart : engine[g] = "up" => epath[g] # Path(e)
    BY <1>11 DEF Stat, AfterStat, Dial, Loads, LoadGoesOn, Owned, Listeners, At, Respected, Shape
  <2> QED BY <2>1, <2>2 DEF Cleared, Path, Entries
<1>12. ASSUME NEW e \in Entries, RemoveStale(e) PROVE Cleared'
  <2>1. Frame /\ UNCHANGED engine /\ lpc[e] = "remove" /\ lpc' = [lpc EXCEPT ![e] = "start"]
    BY <1>12 DEF RemoveStale, Loads, LoadGoesOn
  <2> QED BY <1>1, <2>1 DEF Shape
<1>13. ASSUME NEW e \in Entries, Launch(e) PROVE Cleared'
  <2>1. PICK g \in Engines : /\ engine[g] = "unborn"
                             /\ engine' = [engine EXCEPT ![g] = "starting"]
                             /\ epath' = [epath EXCEPT ![g] = Path(e)]
    BY <1>13 DEF Launch
  <2>2. UNCHANGED <<models, upAtStart>> /\ lpc' = [lpc EXCEPT ![e] = "register"]
    BY <1>13 DEF Launch, Loads, LoadGoesOn
  <2>3. \A x \in upAtStart : engine'[x] = engine[x] /\ epath'[x] = epath[x]
    BY <2>1 DEF Respected, Shape
  <2> QED BY <2>2, <2>3 DEF Cleared, Path, Entries, Shape
<1>14. ASSUME NEW g \in Engines,
              \/ Stopped(g) \/ Binds(g) \/ BindFails(g) \/ Listens(g)
              \/ Closes(g) \/ Exits(g) \/ Dies(g)
       PROVE  Cleared'
  <2>1. Frame /\ UNCHANGED lpc /\ Ups
    BY <1>14 DEF Stopped, Binds, BindFails, Listens, Closes, Exits, Dies, EngineMoves, Respected,
       Shape
  <2> QED BY <1>1, <2>1
<1>15. CASE UNCHANGED vars
  BY <1>1, <1>15 DEF vars
<1> QED BY <1>3, <1>4, <1>5, <1>6, <1>7, <1>8, <1>9, <1>10, <1>11, <1>12, <1>13, <1>14, <1>15
     DEF Next

LEMMA SocketInit == Init => SocketInv /\ Cleared
BY DEF Init, SocketInv, Shape, Remembers, Respected, Cleared, Entries, Mine, Phases

\* A restart cuts off nobody who was listening, however many lives and processes: the
\* look at a socket, its removal and the launch are steps of their own, but nobody who
\* listened at the start is overlooked.
THEOREM SocketsSurvive == Spec => []ServingSurvivesRestart
<1>1. SocketInv => ServingSurvivesRestart
  BY DEF SocketInv, Respected, ServingSurvivesRestart
<1>2. SocketInv /\ Cleared /\ [Next]_vars => (SocketInv /\ Cleared)'
  BY SocketStep, ClearedStep
<1> QED BY <1>1, <1>2, SocketInit, PTL DEF Spec

-----------------------------------------------------------------------------
(* What a process of this life is registered as *)

\* A load excludes other uses of its entry, and registers its process where none is.
Busy ==
  \A e \in Entries :
    /\ lpc[e] \in {"none"} \union Launching \union Launched
    /\ lpc[e] # "none" => state[e] = "LOADING"
    /\ (state[e] = "UNLOADED" \/ lpc[e] \in Launching \union {"register"}) => proc[e] = None
    /\ lpc[e] \in {"health", "kill"} => proc[e] \in {None, leng[e]}

LEMMA BusyStep == SocketInv /\ Busy /\ [Next]_vars => Busy'
<1> SUFFICES ASSUME SocketInv, Busy, [Next]_vars PROVE Busy'
  OBVIOUS
<1> USE DEF Busy, Launching, Launched, Entries, main, entries, conns, history, world
<1> DEFINE Same == UNCHANGED <<models, state, proc, lpc, leng>>
<1>1. Shape
  BY DEF SocketInv
<1>2. CASE Same
  BY <1>2
<1>3. ASSUME NEW to, AllLost(to) PROVE Busy'
  BY <1>3 DEF AllLost
<1>4. CASE \/ Start \/ SweepDial \/ SweepRemove \/ Terminate \/ Shutdown \/ Killed
           \/ Crash \/ ShutdownComplete
  BY <1>2, <1>3, <1>4 DEF Start, SweepDial, SweepRemove, Terminate, Shutdown, Killed, Crash,
     ShutdownComplete
<1>5. CASE Serve
  BY <1>5 DEF Serve, Built
<1>6. CASE KillVisit
  BY <1>1, <1>6 DEF KillVisit, Shape
<1>7. ASSUME NEW c \in Conns,
             \/ Arrive(c) \/ ClientLeaves(c) \/ Forward(c) \/ Responded(c)
             \/ SideCloses(c) \/ CopyReadsEnd(c) \/ CopyWriteFails(c) \/ TunnelCloses(c)
      PROVE  Busy'
  BY <1>2, <1>7 DEF Arrive, ClientLeaves, Forward, Responded, SideCloses, CopyReadsEnd,
     CopyWriteFails, TunnelCloses, Tunnel, Steps
<1>8. ASSUME NEW c \in Conns, Claim(c) PROVE Busy'
  BY <1>1, <1>8 DEF Claim, Claims, Steps, Shape
<1>9. ASSUME NEW c \in Conns, Wake(c) PROVE Busy'
  BY <1>1, <1>9 DEF Wake, Steps, Shape
<1>10. ASSUME NEW e \in Entries, Boot(e) PROVE Busy'
  BY <1>1, <1>10 DEF Boot, Claims, Steps, Shape
<1>11. ASSUME NEW e \in Entries,
              \/ Stat(e) \/ Dial(e) \/ RemoveStale(e) \/ Launch(e) \/ LaunchFails(e)
              \/ Register(e) \/ HealthOk(e) \/ HealthTimesOut(e) \/ HealthFails(e)
       PROVE  Busy'
  <2> USE <1>1 DEF Loads, LoadGoesOn, LoadEnds, Steps, Shape
  <2>1. CASE Launch(e)
    <3>1. PICK g : leng' = [leng EXCEPT ![e] = g]
      BY <2>1 DEF Launch
    <3>2. UNCHANGED <<models, state, proc>> /\ lpc[e] = "start"
          /\ lpc' = [lpc EXCEPT ![e] = "register"]
      BY <2>1 DEF Launch
    <3> QED BY <3>1, <3>2
  <2>2. CASE LaunchFails(e)
    BY <2>2 DEF LaunchFails
  <2>3. CASE Register(e)
    BY <2>3 DEF Register
  <2>4. CASE HealthOk(e)
    BY <2>4 DEF HealthOk
  <2>5. CASE HealthTimesOut(e)
    BY <2>5 DEF HealthTimesOut
  <2>6. CASE HealthFails(e)
    BY <2>6 DEF HealthFails
  <2>7. CASE Stat(e) \/ Dial(e) \/ RemoveStale(e)
    BY <2>7 DEF Stat, AfterStat, Dial, RemoveStale
  <2> QED BY <1>11, <2>1, <2>2, <2>3, <2>4, <2>5, <2>6, <2>7
<1>12. ASSUME NEW e \in Entries, FallsAsleep(e) \/ Unload(e) \/ CrashNoticed(e)
       PROVE  Busy'
  BY <1>1, <1>3, <1>12 DEF FallsAsleep, Unload, CrashNoticed, Steps, Shape
<1>13. ASSUME NEW g \in Engines,
              \/ Stopped(g) \/ Binds(g) \/ BindFails(g) \/ Listens(g)
              \/ Closes(g) \/ Exits(g) \/ Dies(g)
       PROVE  Busy'
  BY <1>2, <1>13 DEF Stopped, Steps, Binds, BindFails, Listens, Closes, Exits, Dies, EngineMoves
<1>14. CASE UNCHANGED vars
  BY <1>2, <1>14 DEF vars
<1> QED BY <1>4, <1>5, <1>6, <1>7, <1>8, <1>9, <1>10, <1>11, <1>12, <1>13, <1>14 DEF Next

\* The kill loop has still to see g, at an entry where it is or will be registered.
Pending(g) == \E e \in Entries :
  ~Visited(e) /\ (proc[e] = g \/ (lpc[e] = "register" /\ leng[e] = g))

Accounted ==
  \A g \in Mine : engine[g] \in Unstopped =>
    /\ phase \in Running => g \in missed \/ Pending(g)
    /\ phase = "down" => g \in missed

ShutdownInv == SocketInv /\ Cleared /\ Busy /\ Accounted

\* A step that adds nobody to the unstopped processes of this life, and after which
\* each of them is pending where it was.
LEMMA StillAccounted ==
  ASSUME Accounted, UNCHANGED <<models, phase, visit>>, missed \subseteq missed',
         \A g \in Mine' : engine'[g] \in Unstopped =>
           \/ g \in missed'
           \/ g \in Mine /\ engine[g] \in Unstopped /\ \A e \in Entries :
                (proc[e] = g \/ (lpc[e] = "register" /\ leng[e] = g)) =>
                  proc'[e] = g \/ (lpc'[e] = "register" /\ leng'[e] = g)
  PROVE  Accounted'
BY DEF Accounted, Pending, Visited, Entries

LEMMA AccountedMain ==
  ASSUME ShutdownInv,
         \/ Start \/ SweepDial \/ SweepRemove \/ Serve \/ Crash
         \/ Terminate \/ Shutdown \/ KillVisit \/ Killed \/ ShutdownComplete
  PROVE  Accounted'
<1> USE DEF ShutdownInv, SocketInv, main, entries, conns, history, world
<1>1. CASE Start \/ SweepDial \/ SweepRemove
  <2>1. phase' = "sweep"
    BY <1>1 DEF Start, SweepDial, SweepRemove
  <2> QED BY <2>1 DEF Accounted, Running
<1>2. CASE Serve
  <2>1. Mine' = {}
    BY <1>2 DEF Serve, Remembers, Mine
  <2> QED BY <2>1 DEF Accounted
<1>3. CASE Crash
  BY <1>3 DEF Crash, AllLost, Accounted, Running
<1>4. CASE Terminate \/ Shutdown
  <2>1. Mine' = Mine /\ Entries' = Entries /\ UNCHANGED <<engine, missed, proc, lpc, leng>>
    BY <1>4 DEF Terminate, Shutdown, Mine, Entries
  <2>2. phase \in Running
    BY <1>4 DEF Terminate, Shutdown, Running
  <2>3. \A e \in Entries : ~Visited(e)'
    BY <1>4 DEF Terminate, Shutdown, Visited, Shape
  <2>4. phase' # "down"
    BY <1>4 DEF Terminate, Shutdown
  <2> QED BY <2>1, <2>2, <2>3, <2>4 DEF Accounted, Pending
<1>5. CASE KillVisit
  <2>1. phase = "kill" /\ visit \in Entries /\ phase' \in {"kill", "wait"}
    BY <1>5 DEF KillVisit
  <2>2. /\ UNCHANGED <<models, lpc, leng, old>> /\ proc' = [proc EXCEPT ![visit] = None]
        /\ missed' = IF lpc[visit] = "register" THEN missed \union {leng[visit]} ELSE missed
    BY <1>5 DEF KillVisit
  <2>3. \A e \in Entries : e # visit /\ ~Visited(e) => ~Visited(e)'
    BY <1>5 DEF KillVisit, Visited, Shape
  <2>4. \A g \in Engines : engine'[g] \in Unstopped =>
          engine'[g] = engine[g] /\ g # proc[visit]
    BY <1>5, NoneAssumption DEF KillVisit, NothingToKill, Signalled, Shape, Unstopped
  <2>5. Mine' \subseteq Engines /\ \A g \in Mine' : engine'[g] \in Unstopped => g \in Mine
    BY <2>2, <2>4 DEF Mine, Unstopped
  <2>6. ASSUME NEW g \in Mine', engine'[g] \in Unstopped PROVE g \in missed' \/ Pending(g)'
    <3>1. CASE g \in missed
      BY <2>2, <3>1
    <3>2. CASE Pending(g)
      <4>1. PICK e \in Entries :
              ~Visited(e) /\ (proc[e] = g \/ (lpc[e] = "register" /\ leng[e] = g))
        BY <3>2 DEF Pending
      <4>2. CASE e = visit
        BY <2>2, <2>4, <2>5, <2>6, <4>1, <4>2
      <4>3. CASE e # visit
        <5>1. e \in Entries' /\ ~Visited(e)'
          BY <2>2, <2>3, <4>1, <4>3 DEF Entries
        <5>2. proc'[e] = proc[e] /\ lpc'[e] = lpc[e] /\ leng'[e] = leng[e]
          BY <2>2, <4>3 DEF Shape
        <5> QED BY <4>1, <5>1, <5>2 DEF Pending
      <4> QED BY <4>2, <4>3
    <3> QED BY <2>1, <2>4, <2>5, <2>6, <3>1, <3>2 DEF Accounted, Running
  <2> QED BY <2>1, <2>6 DEF Accounted
<1>6. CASE Killed
  <2>1. /\ phase = "wait" /\ phase' = "kill" /\ Entries' = Entries /\ Mine' = Mine
        /\ UNCHANGED <<engine, missed, proc, lpc, leng>>
    BY <1>6 DEF Killed, Mine, Entries
  <2>2. \A e \in Entries : Visited(e)' => Visited(e)
    BY <1>6 DEF Killed, Visited, Shape
  <2> QED BY <2>1, <2>2 DEF Accounted, Pending, Running
<1>7. CASE ShutdownComplete
  <2>1. phase = "kill" /\ phase' = "down" /\ \A e \in Entries : Visited(e)
    BY <1>7 DEF ShutdownComplete, AllLost, Visited
  <2>2. Mine' = Mine /\ UNCHANGED <<engine, missed>>
    BY <1>7 DEF ShutdownComplete, AllLost, Mine
  <2> QED BY <2>1, <2>2 DEF Accounted, Pending, Running
<1> QED BY <1>1, <1>2, <1>3, <1>4, <1>5, <1>6, <1>7

LEMMA AccountedLoad ==
  ASSUME ShutdownInv, NEW e \in Entries,
         \/ Boot(e) \/ Stat(e) \/ Dial(e) \/ RemoveStale(e) \/ Launch(e) \/ LaunchFails(e)
         \/ Register(e) \/ HealthOk(e) \/ HealthTimesOut(e) \/ HealthFails(e)
         \/ FallsAsleep(e) \/ Unload(e) \/ CrashNoticed(e)
  PROVE  Accounted'
<1> USE DEF ShutdownInv, SocketInv, main, entries, conns, history, world, Steps, Loads, LoadGoesOn,
        LoadEnds
<1> DEFINE Frame == UNCHANGED <<models, phase, visit, old, engine>> /\ missed \subseteq missed'
<1>1. ASSUME Frame, \A f \in Entries, g \in Mine :
               (proc[f] = g \/ (lpc[f] = "register" /\ leng[f] = g)) =>
                 \/ g \in missed' \/ engine[g] \notin Unstopped
                 \/ proc'[f] = g \/ (lpc'[f] = "register" /\ leng'[f] = g)
      PROVE  Accounted'
  <2>1. Mine' = Mine /\ Entries' = Entries /\ \A f \in Entries : Visited(f)' = Visited(f)
    BY <1>1 DEF Mine, Entries, Visited
  <2> QED BY <1>1, <2>1 DEF Accounted, Pending
<1>2. CASE Boot(e)
  <2>1. Frame /\ UNCHANGED <<proc, leng>>
    BY <1>2 DEF Boot, Claims
  <2>2. \A f \in Entries : lpc'[f] = lpc[f] \/ (f = e /\ lpc[f] = "none")
    BY <1>2 DEF Boot, Claims, Shape, Busy
  <2> QED BY <1>1, <2>1, <2>2
<1>3. CASE Launch(e)
  <2>1. PICK g \in Engines : /\ engine[g] = "unborn"
                             /\ engine' = [engine EXCEPT ![g] = "starting"]
                             /\ leng' = [leng EXCEPT ![e] = g]
                             /\ missed' = IF Visited(e) THEN missed \union {g} ELSE missed
    BY <1>3 DEF Launch
  <2>2. /\ UNCHANGED <<models, phase, visit, proc, old>> /\ lpc[e] = "start"
        /\ lpc' = [lpc EXCEPT ![e] = "register"]
    BY <1>3 DEF Launch
  <2>3. Mine' = Mine \union {g} /\ Entries' = Entries
    BY <2>1, <2>2 DEF Mine, Respected, Shape, Entries
  <2>4. \A f \in Entries : Visited(f)' = Visited(f)
    BY <2>2 DEF Visited
  <2>5. phase \in Running /\ phase' # "down"
    BY <1>3, <2>2 DEF Launch, Running
  <2>6. g \in missed' \/ Pending(g)'
    BY <2>1, <2>2, <2>3, <2>4 DEF Pending, Shape
  <2>7. ASSUME NEW h \in Mine, h # g, engine'[h] \in Unstopped PROVE h \in missed' \/ Pending(h)'
    <3>1. engine[h] \in Unstopped
      BY <2>1, <2>7 DEF Shape, Mine
    <3>2. h \in missed \/ Pending(h)
      BY <2>5, <3>1 DEF Accounted
    <3>3. \A f \in Entries : (proc[f] = h \/ (lpc[f] = "register" /\ leng[f] = h)) =>
            (proc'[f] = h \/ (lpc'[f] = "register" /\ leng'[f] = h))
      BY <2>1, <2>2 DEF Shape
    <3> QED BY <2>1, <2>3, <2>4, <3>2, <3>3 DEF Pending
  <2> QED BY <2>2, <2>3, <2>5, <2>6, <2>7 DEF Accounted
<1>4. CASE LaunchFails(e)
  <2>1. Frame /\ UNCHANGED proc /\ lpc[e] # "register"
    BY <1>4 DEF LaunchFails
  <2> QED BY <1>1, <1>4, <2>1 DEF LaunchFails, Shape
<1>5. CASE Register(e)
  <2>1. Frame /\ UNCHANGED leng /\ proc[e] = None
    BY <1>5 DEF Register, Busy
  <2> QED BY <1>1, <1>5, <2>1, NoneAssumption DEF Register, Shape, Mine
<1>6. CASE HealthOk(e)
  <2>1. Frame /\ UNCHANGED proc /\ lpc[e] = "health"
    BY <1>6 DEF HealthOk
  <2> QED BY <1>1, <1>6, <2>1 DEF HealthOk, Shape
<1>7. CASE HealthTimesOut(e)
  <2>1. UNCHANGED <<models, phase, visit, old, missed, proc, leng>> /\ lpc[e] = "health"
    BY <1>7 DEF HealthTimesOut
  <2>2. lpc' = [lpc EXCEPT ![e] = "kill"]
    BY <1>7 DEF HealthTimesOut
  <2>3. \A g \in Mine' : engine'[g] \in Unstopped => g \in Mine /\ engine[g] \in Unstopped
    BY <1>7, <2>1 DEF HealthTimesOut, Signalled, Mine, Unstopped, Shape
  <2> QED BY <2>1, <2>2, <2>3, StillAccounted DEF Shape
<1>8. CASE HealthFails(e)
  <2>1. /\ Frame /\ proc' = [proc EXCEPT ![e] = None] /\ lpc[e] \in {"health", "kill"}
        /\ lpc' = [lpc EXCEPT ![e] = "none"] /\ leng' = [leng EXCEPT ![e] = None]
        /\ engine[leng[e]] = "dead"
    BY <1>8 DEF HealthFails
  <2>2. proc[e] \in {None, leng[e]}
    BY <2>1 DEF Busy
  <2> QED BY <1>1, <2>1, <2>2, NoneAssumption DEF Shape, Mine, Unstopped
<1>9. CASE FallsAsleep(e)
  <2>1. Frame /\ UNCHANGED <<proc, lpc, leng>>
    BY <1>9 DEF FallsAsleep
  <2> QED BY <1>1, <2>1
<1>10. CASE Unload(e)
  <2>1. CASE proc[e] = None
    BY <1>10, <2>1 DEF Unload, AllLost, Accounted, Running
  <2>2. CASE proc[e] # None
    <3>1. /\ UNCHANGED <<models, phase, visit, old, missed, lpc, leng>>
          /\ proc' = [proc EXCEPT ![e] = None] /\ engine' = Signalled(proc[e])
      BY <1>10, <2>2 DEF Unload
    <3>2. \A g \in Mine' : engine'[g] \in Unstopped =>
            g \in Mine /\ engine[g] \in Unstopped /\ g # proc[e]
      BY <3>1 DEF Signalled, Mine, Unstopped, Shape
    <3> QED BY <3>1, <3>2, StillAccounted DEF Shape
  <2> QED BY <2>1, <2>2
<1>11. CASE CrashNoticed(e)
  <2>1. /\ Frame /\ UNCHANGED <<lpc, leng>> /\ proc' = [proc EXCEPT ![e] = None]
        /\ proc[e] \in missed'
    BY <1>11 DEF CrashNoticed
  <2> QED BY <1>1, <2>1 DEF Shape
<1>12. CASE Stat(e) \/ Dial(e) \/ RemoveStale(e)
  <2>1. Frame /\ UNCHANGED <<proc, leng>> /\ lpc[e] # "register"
        /\ \A f \in Entries : f # e => lpc'[f] = lpc[f]
    BY <1>12 DEF Stat, Dial, RemoveStale, Shape
  <2> QED BY <1>1, <2>1
<1> QED BY <1>2, <1>3, <1>4, <1>5, <1>6, <1>7, <1>8, <1>9, <1>10, <1>11, <1>12

LEMMA AccountedOther ==
  ASSUME ShutdownInv,
         \/ \E c \in Conns :
              \/ Arrive(c) \/ Claim(c) \/ Wake(c) \/ ClientLeaves(c) \/ Forward(c) \/ Responded(c)
              \/ SideCloses(c) \/ CopyReadsEnd(c) \/ CopyWriteFails(c) \/ TunnelCloses(c)
         \/ \E g \in Engines :
              \/ Stopped(g) \/ Binds(g) \/ BindFails(g) \/ Listens(g)
              \/ Closes(g) \/ Exits(g) \/ Dies(g)
         \/ UNCHANGED vars
  PROVE  Accounted'
<1> USE DEF ShutdownInv, SocketInv, main, entries, conns, history, world, Steps
<1> DEFINE Frame == UNCHANGED <<models, phase, visit, old, missed, proc, leng>>
<1>1. ASSUME Frame, UNCHANGED <<lpc, engine>> PROVE Accounted'
  BY <1>1, StillAccounted DEF Mine
<1>2. ASSUME NEW c \in Conns,
             \/ Arrive(c) \/ Wake(c) \/ ClientLeaves(c) \/ Forward(c) \/ Responded(c)
             \/ SideCloses(c) \/ CopyReadsEnd(c) \/ CopyWriteFails(c) \/ TunnelCloses(c)
      PROVE  Accounted'
  BY <1>1, <1>2 DEF Arrive, Wake, ClientLeaves, Forward, Responded, SideCloses, CopyReadsEnd,
     CopyWriteFails, TunnelCloses, Tunnel
<1>3. ASSUME NEW c \in Conns, Claim(c) PROVE Accounted'
  <2>1. Frame /\ UNCHANGED engine
    BY <1>3 DEF Claim, Claims
  <2>2. state[cent[c]] = "UNLOADED" /\ lpc' = [lpc EXCEPT ![cent[c]] = "launch"]
    BY <1>3 DEF Claim, Claims
  <2>3. \A e \in Entries : lpc[e] = "register" => lpc'[e] = "register"
    BY <2>2 DEF Busy, Shape
  <2> QED BY <2>1, <2>3, StillAccounted DEF Mine
<1>4. ASSUME NEW g \in Engines, Stopped(g) PROVE Accounted'
  BY <1>1, <1>4 DEF Stopped
<1>5. ASSUME NEW g \in Engines, NEW from, NEW to, EngineMoves(g, from, to), from \subseteq Live,
             to \in Unstopped => from \subseteq Unstopped
      PROVE  Accounted'
  <2>1. Frame /\ UNCHANGED lpc
    BY <1>5 DEF EngineMoves
  <2>2. \A h \in Mine' : engine'[h] \in Unstopped => h \in Mine /\ engine[h] \in Unstopped
    BY <1>5 DEF EngineMoves, Mine, Shape, Live, Unstopped
  <2> QED BY <2>1, <2>2, StillAccounted
<1>6. ASSUME NEW g \in Engines,
             Binds(g) \/ BindFails(g) \/ Listens(g) \/ Closes(g) \/ Exits(g) \/ Dies(g)
      PROVE  Accounted'
  <2>1. PICK from \in SUBSET Live, to \in {"bound", "up", "closed", "dead"} :
          EngineMoves(g, from, to) /\ (to \in Unstopped => from \subseteq Unstopped)
    <3>1. CASE Binds(g)
      BY <3>1 DEF Binds, Live, Unstopped
    <3>2. CASE BindFails(g)
      BY <3>2 DEF BindFails, Live, Unstopped
    <3>3. CASE Listens(g)
      BY <3>3 DEF Listens, Live, Unstopped
    <3>4. CASE Closes(g)
      BY <3>4 DEF Closes, Live, Unstopped
    <3>5. CASE Exits(g)
      BY <3>5 DEF Exits, Live, Unstopped
    <3>6. CASE Dies(g)
      BY <3>6 DEF Dies, Live, Unstopped
    <3> QED BY <1>6, <3>1, <3>2, <3>3, <3>4, <3>5, <3>6
  <2> QED BY <1>5, <2>1
<1>7. CASE UNCHANGED vars
  BY <1>1, <1>7 DEF vars
<1> QED BY <1>2, <1>3, <1>4, <1>6, <1>7

\* A shutdown leaves no process of this life running but those that the kill loop
\* could not know of, for any number of entries and engines.
THEOREM ShutdownStopsAll == Spec => []OnlyMissedSurvive
<1>1. Init => ShutdownInv
  BY SocketInit DEF Init, ShutdownInv, Busy, Accounted, Entries, Mine
<1>2. ShutdownInv /\ [Next]_vars => ShutdownInv'
  BY SocketStep, ClearedStep, BusyStep, AccountedMain, AccountedLoad, AccountedOther
     DEF ShutdownInv, Next
<1>3. ShutdownInv => OnlyMissedSurvive
  BY DEF ShutdownInv, Accounted, OnlyMissedSurvive, Mine, Unstopped
<1> QED BY <1>1, <1>2, <1>3, PTL DEF Spec

-----------------------------------------------------------------------------
(* Who answers at an entry's path *)

\* The process an entry has, or is about to register; None, if it is to be started.
IsOf(g, e) ==
  \/ g # None /\ g = proc[e]
  \/ lpc[e] \in {"register", "health", "kill"} /\ g = leng[e]
  \/ lpc[e] = "start" /\ g = None

\* It answers at its path, or may come to.
MayAnswer(h) ==
  \/ engine[h] = "starting"
  \/ engine[h] \in {"bound", "up", "term"} /\ h \in linked

Alone(e) == \A f \in Entries : Path(f) = Path(e) => f = e

OnlyRivals ==
  \A e \in Entries, g \in Engines \union {None}, h \in Engines :
    Alone(e) /\ IsOf(g, e) /\ epath[h] = Path(e) /\ MayAnswer(h) => h = g \/ h \in rivals[e]

AnswerInv == SocketInv /\ Cleared /\ Busy /\ OnlyRivals

\* A step by which no entry gets a process and no process comes to a path.
LEMMA RivalFrame ==
  ASSUME AnswerInv, UNCHANGED <<models, epath, rivals>>,
         \A e \in Entries, g \in Engines \union {None} : IsOf(g, e)' => IsOf(g, e),
         \A h \in Engines : MayAnswer(h)' => MayAnswer(h)
  PROVE  OnlyRivals'
BY DEF AnswerInv, OnlyRivals, Alone, Path, Entries

LEMMA RivalMain ==
  ASSUME AnswerInv,
         \/ Start \/ SweepDial \/ SweepRemove \/ Serve \/ Crash
         \/ Terminate \/ Shutdown \/ KillVisit \/ Killed \/ ShutdownComplete
  PROVE  OnlyRivals'
<1> USE DEF AnswerInv, SocketInv, main, entries, conns, history, world
<1>1. CASE Start \/ SweepDial \/ Terminate \/ Shutdown
  <2>1. UNCHANGED <<models, epath, rivals, proc, lpc, leng, engine, linked>>
    BY <1>1 DEF Start, SweepDial, Terminate, Shutdown
  <2> QED BY <2>1, RivalFrame DEF IsOf, MayAnswer
<1>2. CASE SweepRemove \/ Killed
  <2>1. UNCHANGED <<models, epath, rivals, proc, lpc, leng, engine>> /\ linked' \subseteq linked
    BY <1>2 DEF SweepRemove, Killed, Unlink
  <2> QED BY <2>1, RivalFrame DEF IsOf, MayAnswer
<1>3. CASE Serve
  <2>1. \A e \in Entries' : proc'[e] = None /\ lpc'[e] = "none"
    BY <1>3 DEF Serve, Entries, Built
  <2> QED BY <2>1, NoneAssumption DEF OnlyRivals, IsOf
<1>4. CASE Crash \/ ShutdownComplete
  <2>1. Entries' = {}
    BY <1>4 DEF Crash, ShutdownComplete, AllLost, Entries
  <2> QED BY <2>1 DEF OnlyRivals
<1>5. CASE KillVisit
  <2>1. UNCHANGED <<models, epath, rivals, lpc, leng, linked>>
        /\ proc' = [proc EXCEPT ![visit] = None]
    BY <1>5 DEF KillVisit
  <2>2. \A h \in Engines : MayAnswer(h)' => MayAnswer(h)
    BY <1>5 DEF KillVisit, Signalled, MayAnswer, Shape
  <2>3. \A e \in Entries, g \in Engines \union {None} : IsOf(g, e)' => IsOf(g, e)
    BY <2>1, NoneAssumption DEF IsOf, Shape
  <2> QED BY <2>1, <2>2, <2>3, RivalFrame
<1> QED BY <1>1, <1>2, <1>3, <1>4, <1>5

LEMMA RivalLoad ==
  ASSUME AnswerInv, NEW e \in Entries,
         \/ Boot(e) \/ Stat(e) \/ Dial(e) \/ RemoveStale(e) \/ Launch(e) \/ LaunchFails(e)
         \/ Register(e) \/ HealthOk(e) \/ HealthTimesOut(e) \/ HealthFails(e)
         \/ FallsAsleep(e) \/ Unload(e) \/ CrashNoticed(e)
  PROVE  OnlyRivals'
<1> USE DEF AnswerInv, SocketInv, main, entries, conns, history, world, Steps, Loads, LoadGoesOn,
        LoadEnds
<1> DEFINE Frame == UNCHANGED <<models, epath, rivals>>
           Fewer == \A f \in Entries, g \in Engines \union {None} : IsOf(g, f)' => IsOf(g, f)
<1>1. ASSUME Frame, Fewer, UNCHANGED engine, linked' \subseteq linked PROVE OnlyRivals'
  BY <1>1, RivalFrame DEF MayAnswer
<1>2. ASSUME Frame, Fewer, UNCHANGED linked,
             \E g \in Engines : engine' = Signalled(g)
      PROVE  OnlyRivals'
  <2>1. \A h \in Engines : MayAnswer(h)' => MayAnswer(h)
    BY <1>2 DEF Signalled, MayAnswer, Shape
  <2> QED BY <1>2, <2>1, RivalFrame
<1>3. CASE Boot(e)
  <2>1. Frame /\ UNCHANGED <<proc, leng, engine, linked>>
    BY <1>3 DEF Boot, Claims
  <2>2. \A f \in Entries : lpc'[f] \in {lpc[f], "launch"}
    BY <1>3 DEF Boot, Claims, Shape
  <2> QED BY <1>1, <2>1, <2>2 DEF IsOf
<1>4. CASE Launch(e)
  <2>1. PICK n \in Engines :
          /\ engine[n] = "unborn" /\ engine' = [engine EXCEPT ![n] = "starting"]
          /\ epath' = [epath EXCEPT ![n] = Path(e)] /\ leng' = [leng EXCEPT ![e] = n]
    BY <1>4 DEF Launch
  <2>2. /\ UNCHANGED <<models, proc, rivals, linked>> /\ lpc[e] = "start" /\ proc[e] = None
        /\ lpc' = [lpc EXCEPT ![e] = "register"]
    BY <1>4 DEF Launch, Busy, Launching
  <2> SUFFICES ASSUME NEW f \in Entries, NEW g \in Engines \union {None}, NEW h \in Engines,
                      Alone(f)', IsOf(g, f)', epath'[h] = Path(f)', MayAnswer(h)'
               PROVE  h = g \/ h \in rivals'[f]
    BY <2>2 DEF OnlyRivals, Entries
  <2>3. Alone(f) /\ Path(f)' = Path(f)
    BY <2>2 DEF Alone, Path, Entries
  <2>4. h # n => MayAnswer(h) /\ epath[h] = Path(f)
    BY <2>1, <2>2, <2>3 DEF MayAnswer, Shape
  <2>5. CASE f = e
    <3>1. g = n
      BY <2>1, <2>2, <2>5 DEF IsOf, Shape
    <3>2. h # n => h \in rivals[e]
      BY <2>2, <2>3, <2>4, <2>5, NoneAssumption DEF OnlyRivals, IsOf
    <3> QED BY <2>2, <2>5, <3>1, <3>2
  <2>6. CASE f # e
    <3>1. Path(f) # Path(e)
      BY <2>3, <2>6 DEF Alone
    <3>2. h # n
      BY <2>1, <2>3, <3>1 DEF Shape
    <3>3. IsOf(g, f)
      BY <2>1, <2>2, <2>6 DEF IsOf, Shape
    <3> QED BY <2>2, <2>3, <2>4, <3>2, <3>3 DEF OnlyRivals
  <2> QED BY <2>5, <2>6
<1>5. CASE LaunchFails(e)
  <2>1. Frame /\ UNCHANGED <<engine, proc, linked>>
    BY <1>5 DEF LaunchFails
  <2>2. lpc' = [lpc EXCEPT ![e] = "none"] /\ leng' = [leng EXCEPT ![e] = None]
    BY <1>5 DEF LaunchFails
  <2> QED BY <1>1, <2>1, <2>2 DEF IsOf, Shape
<1>13. CASE Stat(e) \/ RemoveStale(e)
  <2>1. /\ UNCHANGED <<models, epath, engine, proc, leng>> /\ linked' \subseteq linked
        /\ rivals' = [rivals EXCEPT ![e] = YetToBind(Path(e))]
    BY <1>13 DEF Stat, RemoveStale, Unlink
  <2>2. /\ lpc[e] \in {"launch", "remove"} /\ lpc'[e] \in {"start", "dial"} /\ proc[e] = None
        /\ \A f \in Entries : f # e => lpc'[f] = lpc[f]
    BY <1>13 DEF Stat, AfterStat, RemoveStale, Shape, Busy, Launching
  <2>3. ASSUME NEW h \in Engines, lpc'[e] = "start", epath[h] = Path(e), MayAnswer(h)'
        PROVE  h \in YetToBind(Path(e))
    BY <1>13, <2>1, <2>3 DEF Stat, AfterStat, RemoveStale, Unlink, At, MayAnswer, YetToBind, Shape
  <2> SUFFICES ASSUME NEW f \in Entries, NEW g \in Engines \union {None}, NEW h \in Engines,
                      Alone(f)', IsOf(g, f)', epath'[h] = Path(f)', MayAnswer(h)'
               PROVE  h = g \/ h \in rivals'[f]
    BY <2>1 DEF OnlyRivals, Entries
  <2>4. Alone(f) /\ epath[h] = Path(f) /\ MayAnswer(h)
    BY <2>1 DEF Alone, Path, Entries, MayAnswer
  <2>5. CASE f = e
    <3>1. lpc'[e] = "start"
      BY <2>1, <2>2, <2>5 DEF IsOf
    <3> QED BY <2>1, <2>3, <2>4, <2>5, <3>1 DEF Shape
  <2>6. CASE f # e
    <3>1. IsOf(g, f)
      BY <2>1, <2>2, <2>6 DEF IsOf
    <3> QED BY <2>1, <2>4, <2>6, <3>1 DEF OnlyRivals, Shape
  <2> QED BY <2>5, <2>6
<1>14. CASE Dial(e)
  <2>1. Frame /\ UNCHANGED <<engine, proc, leng, linked>> /\ lpc' = [lpc EXCEPT ![e] = "remove"]
    BY <1>14 DEF Dial
  <2> QED BY <1>1, <2>1 DEF IsOf, Shape
<1>6. CASE Register(e)
  <2>1. Frame /\ UNCHANGED <<engine, leng, linked>> /\ lpc[e] = "register"
    BY <1>6 DEF Register
  <2>2. proc' = [proc EXCEPT ![e] = leng[e]] /\ lpc' = [lpc EXCEPT ![e] = "health"]
    BY <1>6 DEF Register
  <2> QED BY <1>1, <2>1, <2>2 DEF IsOf, Shape
<1>7. CASE HealthOk(e)
  <2>1. Frame /\ UNCHANGED <<engine, linked, proc>>
    BY <1>7 DEF HealthOk
  <2>2. lpc' = [lpc EXCEPT ![e] = "none"] /\ leng' = [leng EXCEPT ![e] = None]
    BY <1>7 DEF HealthOk
  <2> QED BY <1>1, <2>1, <2>2 DEF IsOf, Shape
<1>8. CASE HealthTimesOut(e)
  <2>1. Frame /\ UNCHANGED <<linked, proc, leng>> /\ engine' = Signalled(leng[e])
    BY <1>8 DEF HealthTimesOut
  <2>2. lpc[e] = "health" /\ lpc' = [lpc EXCEPT ![e] = "kill"] /\ leng[e] \in Engines
    BY <1>8 DEF HealthTimesOut, Remembers, Mine
  <2> QED BY <1>2, <2>1, <2>2 DEF IsOf, Shape
<1>9. CASE HealthFails(e)
  <2>1. /\ Frame /\ UNCHANGED engine /\ linked' \subseteq linked
        /\ proc' = [proc EXCEPT ![e] = None]
    BY <1>9 DEF HealthFails, Unlink
  <2>2. lpc' = [lpc EXCEPT ![e] = "none"] /\ leng' = [leng EXCEPT ![e] = None]
    BY <1>9 DEF HealthFails
  <2> QED BY <1>1, <2>1, <2>2, NoneAssumption DEF IsOf, Shape
<1>10. CASE FallsAsleep(e)
  <2>1. Frame /\ UNCHANGED <<engine, linked, proc, lpc, leng>>
    BY <1>10 DEF FallsAsleep
  <2> QED BY <1>1, <2>1 DEF IsOf
<1>11. CASE Unload(e)
  <2>1. CASE proc[e] = None
    <3>1. Entries' = {}
      BY <1>11, <2>1 DEF Unload, AllLost, Entries
    <3> QED BY <3>1 DEF OnlyRivals
  <2>2. CASE proc[e] # None
    <3>1. /\ Frame /\ UNCHANGED <<linked, lpc, leng>> /\ engine' = Signalled(proc[e])
          /\ proc' = [proc EXCEPT ![e] = None] /\ proc[e] \in Engines
      BY <1>11, <2>2 DEF Unload, Remembers, Mine
    <3> QED BY <1>2, <3>1, NoneAssumption DEF IsOf, Shape
  <2> QED BY <2>1, <2>2
<1>12. CASE CrashNoticed(e)
  <2>1. /\ Frame /\ UNCHANGED <<engine, linked, lpc, leng>>
        /\ proc' = [proc EXCEPT ![e] = None]
    BY <1>12 DEF CrashNoticed
  <2> QED BY <1>1, <2>1, NoneAssumption DEF IsOf, Shape
<1> QED BY <1>3, <1>4, <1>5, <1>6, <1>7, <1>8, <1>9, <1>10, <1>11, <1>12, <1>13, <1>14

LEMMA RivalOther ==
  ASSUME AnswerInv,
         \/ \E c \in Conns :
              \/ Arrive(c) \/ Claim(c) \/ Wake(c) \/ ClientLeaves(c) \/ Forward(c) \/ Responded(c)
              \/ SideCloses(c) \/ CopyReadsEnd(c) \/ CopyWriteFails(c) \/ TunnelCloses(c)
         \/ \E g \in Engines :
              \/ Stopped(g) \/ Binds(g) \/ BindFails(g) \/ Listens(g)
              \/ Closes(g) \/ Exits(g) \/ Dies(g)
         \/ UNCHANGED vars
  PROVE  OnlyRivals'
<1> USE DEF AnswerInv, SocketInv, main, entries, conns, history, world, Steps
<1> DEFINE Frame == UNCHANGED <<models, epath, rivals, proc, leng>>
<1>1. ASSUME Frame, UNCHANGED <<lpc, engine>>, linked' \subseteq linked PROVE OnlyRivals'
  BY <1>1, RivalFrame DEF IsOf, MayAnswer
<1>2. ASSUME NEW c \in Conns,
             \/ Arrive(c) \/ Wake(c) \/ ClientLeaves(c) \/ Forward(c) \/ Responded(c)
             \/ SideCloses(c) \/ CopyReadsEnd(c) \/ CopyWriteFails(c) \/ TunnelCloses(c)
      PROVE  OnlyRivals'
  BY <1>1, <1>2 DEF Arrive, Wake, ClientLeaves, Forward, Responded, SideCloses, CopyReadsEnd,
     CopyWriteFails, TunnelCloses, Tunnel
<1>3. ASSUME NEW c \in Conns, Claim(c) PROVE OnlyRivals'
  <2>1. Frame /\ UNCHANGED <<engine, linked>>
    BY <1>3 DEF Claim, Claims
  <2>2. \A f \in Entries : lpc'[f] \in {lpc[f], "launch"}
    BY <1>3 DEF Claim, Claims, Shape
  <2> QED BY <2>1, <2>2, RivalFrame DEF IsOf, MayAnswer
<1>4. ASSUME NEW g \in Engines, Stopped(g) PROVE OnlyRivals'
  BY <1>1, <1>4 DEF Stopped, Unlink
<1>5. ASSUME NEW g \in Engines, NEW from, NEW to, EngineMoves(g, from, to),
             to = "bound" => from \subseteq {"starting"}, to = "up" => from \subseteq {"bound"},
             to \notin {"starting", "term"},
             linked' \subseteq linked \/ (to = "bound" /\ linked' = linked \union {g})
      PROVE  OnlyRivals'
  <2>1. Frame /\ UNCHANGED lpc
    BY <1>5 DEF EngineMoves
  <2>2. \A h \in Engines : MayAnswer(h)' => MayAnswer(h)
    BY <1>5 DEF EngineMoves, MayAnswer, Shape
  <2> QED BY <2>1, <2>2, RivalFrame DEF IsOf
<1>6. ASSUME NEW g \in Engines,
             Binds(g) \/ BindFails(g) \/ Listens(g) \/ Closes(g) \/ Exits(g) \/ Dies(g)
      PROVE  OnlyRivals'
  <2>1. CASE Binds(g)
    BY <1>5, <2>1 DEF Binds
  <2>2. CASE BindFails(g)
    BY <1>5, <2>2 DEF BindFails
  <2>3. CASE Listens(g)
    BY <1>5, <2>3 DEF Listens
  <2>4. CASE Closes(g)
    BY <1>5, <2>4 DEF Closes
  <2>5. CASE Exits(g)
    BY <1>5, <2>5 DEF Exits
  <2>6. CASE Dies(g)
    BY <1>5, <2>6 DEF Dies
  <2> QED BY <1>6, <2>1, <2>2, <2>3, <2>4, <2>5, <2>6
<1>7. CASE UNCHANGED vars
  BY <1>1, <1>7 DEF vars
<1> QED BY <1>2, <1>3, <1>4, <1>6, <1>7

\* No stranger answers for an entry, for any number of entries, engines and lives.
THEOREM OwnEngineCorrect == Spec => []OwnEngineAnswers
<1>1. Init => AnswerInv
  BY SocketInit DEF Init, AnswerInv, Busy, OnlyRivals, Entries
<1>2. AnswerInv /\ [Next]_vars => AnswerInv'
  BY SocketStep, ClearedStep, BusyStep, RivalMain, RivalLoad, RivalOther DEF AnswerInv, Next
<1>3. AnswerInv => OwnEngineAnswers
  <2> SUFFICES ASSUME AnswerInv, NEW e \in Entries, NEW h \in Listeners(Path(e)),
                      \A f \in Entries : Path(f) = Path(e) => f = e, proc[e] # None
               PROVE  h = proc[e] \/ h \in rivals[e]
    BY DEF OwnEngineAnswers
  <2>1. proc[e] \in Engines /\ h \in Engines /\ epath[h] = Path(e) /\ MayAnswer(h)
    BY DEF AnswerInv, SocketInv, Remembers, Mine, Shape, Listeners, At, MayAnswer
  <2> QED BY <2>1 DEF AnswerInv, OnlyRivals, IsOf, Alone
<1> QED BY <1>1, <1>2, <1>3, PTL DEF Spec
=============================================================================
