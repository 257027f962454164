----------------------- MODULE OrchestratorTypeProofs -----------------------
(***************************************************************************)
(* Proofs about Orchestrator that rest on what its configuration is:       *)
(* what validateConfig accepts resolves every name, can be placed and      *)
(* keeps sockets apart, and every state has its type.                      *)
(***************************************************************************)
EXTENDS Orchestrator, ConfigProofs

-----------------------------------------------------------------------------
(* The inductive invariant *)

\* main: beside the types, the configuration has been validated, o.models is what
\* newOrchestrator builds of it, and the kill loop waits for an entry's process.
MainOK ==
  /\ cfg \in Configurations /\ phase \in Phases /\ life \in 0..Lives
  /\ sweep \subseteq {epath[g] : g \in Engines}
  /\ phase # "sweep" => sweep = {}
  /\ unowned = {} \/ \E path \in unowned : unowned = {path}
  /\ visit \in 0..(Len(models) + 1) /\ victim \in Engines \union {None}
  /\ phase = "wait" => visit \in Entries
  /\ phase \in Running \union {"sweep"} => ValidConfig(cfg)
  /\ IF phase \in Running THEN models = Built ELSE models = << >>

EntriesOK ==
  /\ state \in [Entries -> {"UNLOADED", "LOADING", "ACTIVE", "ASLEEP"}]
  /\ proc \in [Entries -> Engines \union {None}]
  /\ lpc \in [Entries -> {"none", "launch", "dial", "remove", "start",
                          "register", "health", "kill"}]
  /\ leng \in [Entries -> Engines \union {None}]
  /\ \A e \in Entries : lpc[e] \in {"register", "health", "kill"} => leng[e] \in Engines
  /\ by \in [Entries -> Conns \union {None}]
  /\ DOMAIN next = IF phase \in Running THEN DOMAIN cfg.models ELSE {}
  /\ \A k \in DOMAIN next : next[k] \in Nat
  /\ boot \subseteq Entries /\ stopping \subseteq Engines
  /\ rivals \in [Entries -> SUBSET Engines]

ConnsOK ==
  /\ cpc \in [Conns -> {"new", "waiting", "granted", "proxied", "tunnel", "ended"}]
  /\ cent \in [Conns -> Entries \union {0}]
  /\ ceng \in [Conns -> Engines \union {None}]
  /\ gone \in [Conns -> SUBSET (Sides \union Copiers)]

WorldOK ==
  /\ engine \in [Engines -> Live \union {"unborn", "dead"}]
  /\ DOMAIN epath = Engines
  /\ linked \subseteq Engines /\ old \subseteq Engines
  /\ upAtStart \subseteq Engines /\ missed \subseteq Engines

TypeInv == MainOK /\ EntriesOK /\ ConnsOK /\ WorldOK

LEMMA TypeInvImplies == TypeInv => OrchestratorTypeOK
<1> SUFFICES ASSUME TypeInv PROVE OrchestratorTypeOK
  OBVIOUS
<1> USE DEF TypeInv
<1>1. Cardinality(unowned) <= 1
  <2>1. CASE unowned = {}
    BY <2>1, FS_EmptySet
  <2>2. CASE \E path \in unowned : unowned = {path}
    <3>1. PICK path : unowned = {path}
      BY <2>2
    <3>2. Cardinality(unowned) = 1
      BY <3>1, FS_Singleton
    <3> QED BY <3>2
  <2> QED BY <2>1, <2>2 DEF MainOK
<1>2. DOMAIN next \subseteq DOMAIN cfg.models /\ Range(next) \subseteq Nat
  BY DEF EntriesOK, Range
<1> QED BY <1>1, <1>2 DEF MainOK, EntriesOK, ConnsOK, WorldOK, OrchestratorTypeOK, Launching,
   Launched

-----------------------------------------------------------------------------
(* o.models *)

LEMMA BuiltIs ==
  ASSUME cfg \in Configurations, ValidConfig(cfg)
  PROVE  /\ cfg \in ConfigFile /\ cfg.models # << >> /\ NamesValid(cfg)
         /\ Len(Built) \in Nat /\ DOMAIN Built = 1..Len(Built)
         /\ DOMAIN Built = DOMAIN EntriesOf(cfg)
         /\ \A e \in DOMAIN Built : /\ Built[e].model = EntriesOf(cfg)[e].model
                                   /\ Built[e].replica = EntriesOf(cfg)[e].replica
<1>1. cfg \in ConfigFile /\ cfg.models # << >> /\ NamesValid(cfg)
  BY ConfigurationsAssumption DEF ValidConfig
<1> DEFINE n == Len(EntriesOf(cfg))
<1>2. n \in Nat /\ DOMAIN EntriesOf(cfg) = 1..n
  BY <1>1, EntriesNumbered
<1>3. DOMAIN Built = 1..n
  BY <1>2 DEF Built
<1>4. Built \in [1..n -> {Built[e] : e \in 1..n}]
  BY <1>2 DEF Built
<1>5. Len(Built) = n
  BY <1>2, <1>4, SequenceOf
<1>6. \A e \in DOMAIN Built : /\ Built[e].model = EntriesOf(cfg)[e].model
                            /\ Built[e].replica = EntriesOf(cfg)[e].replica
  BY DEF Built
<1> QED BY <1>1, <1>2, <1>3, <1>5, <1>6

\* The round robin finds the replica whose turn it is.
LEMMA PickedIsEntry ==
  ASSUME TypeInv, phase \in Running, NEW k \in DOMAIN cfg.models
  PROVE  Picked(k) \in Entries
<1> DEFINE E == EntriesOf(cfg)
           n == ReplicasOf(cfg.models[k])
<1>1. models = Built /\ cfg \in Configurations /\ ValidConfig(cfg) /\ next[k] \in Nat
  BY DEF TypeInv, MainOK, EntriesOK
<1>2. Replicas(k) = {e \in DOMAIN E : E[e].model = k}
  BY <1>1, BuiltIs DEF Replicas, Entries
<1>3. n \in Nat \ {0} /\ Cardinality(Replicas(k)) = n
  BY <1>1, <1>2, BuiltIs, ReplicaCount, ConfigTypes, ReplicasPositive
<1>4. next[k] % n \in 0..(n - 1)
  BY <1>1, <1>3
<1>5. PICK e \in DOMAIN E : E[e].model = k /\ E[e].replica = next[k] % n
  BY <1>1, <1>4, BuiltIs, EntriesExact
<1>6. e \in Replicas(k) /\ models[e].replica = next[k] % Cardinality(Replicas(k))
  BY <1>1, <1>2, <1>3, <1>5, BuiltIs
<1>7. Picked(k) \in Replicas(k)
  BY <1>6 DEF Picked
<1> QED BY <1>7 DEF Replicas

LEMMA NameLeadsToModel ==
  ASSUME TypeInv, phase \in Running, NEW name \in Known(cfg)
  PROVE  ByName(cfg, name) \in DOMAIN cfg.models
<1>1. cfg \in ConfigFile /\ NamesValid(cfg)
  BY BuiltIs DEF TypeInv, MainOK
<1>2. PICK k \in DOMAIN cfg.models : name \in Range(Declared(cfg.models[k]))
  BY DEF Known, Range
<1> QED BY <1>1, <1>2, NameResolves

-----------------------------------------------------------------------------
(* The steps *)

\* The end of the program.
LEMMA TypeLossStep ==
  ASSUME TypeInv, NEW to \in {"off", "down"}, AllLost(to)
  PROVE  TypeInv'
<1> USE DEF TypeInv, AllLost, world
<1>1. models' = << >> /\ Entries' = {}
  BY DEF Entries
<1>2. /\ phase' \in {"off", "down"} /\ sweep' = {} /\ unowned' = {} /\ visit' = 0
      /\ victim' = None /\ UNCHANGED <<cfg, life>>
  OBVIOUS
<1>3. MainOK'
  BY <1>1, <1>2 DEF MainOK, Phases, Running
<1>4. EntriesOK'
  <2>1. \A S : << >> \in [{} -> S]
    OBVIOUS
  <2> QED BY <1>1, <1>2, <2>1 DEF EntriesOK, Running
<1>5. ConnsOK'
  BY <1>1 DEF ConnsOK
<1>6. WorldOK'
  BY DEF WorldOK
<1> QED BY <1>3, <1>4, <1>5, <1>6

\* While it runs, main's own variables are all that MainOK is about.
LEMMA MainKept ==
  ASSUME MainOK, phase \in Running, phase' \in Running,
         UNCHANGED <<cfg, models, life, sweep, unowned>>,
         visit' \in 0..(Len(models) + 1), victim' \in Engines \union {None},
         phase' = "wait" => visit' \in Entries
  PROVE  MainOK'
<1>1. Built' = Built /\ Entries' = Entries
  BY DEF Built, Entries
<1>2. sweep' = {} /\ phase' \in Phases
  BY DEF MainOK, Phases, Running
<1>3. ValidConfig(cfg') /\ models' = Built'
  BY <1>1 DEF MainOK
<1>4. /\ cfg' \in Configurations /\ life' \in 0..Lives
      /\ unowned' = {} \/ \E path \in unowned' : unowned' = {path}
      /\ visit' \in 0..(Len(models') + 1)
  BY DEF MainOK
<1> QED BY <1>1, <1>2, <1>3, <1>4 DEF MainOK

\* SIGTERM leaves every process in a state of its life.
LEMMA SignalledType ==
  ASSUME WorldOK, NEW g PROVE Signalled(g) \in [Engines -> Live \union {"unborn", "dead"}]
BY DEF WorldOK, Signalled, Live

\* The steps of main that leave the entries, the connections and the engines alone.
LEMMA TypeMainStep ==
  ASSUME TypeInv,
         \/ Start \/ SweepDial \/ SweepRemove \/ Serve \/ Crash
         \/ Terminate \/ Shutdown \/ KillVisit \/ Killed \/ ShutdownComplete
  PROVE  TypeInv'
<1> USE DEF TypeInv, main, entries, conns, world, history
<1>1. CASE Start
  <2>1. MainOK'
    <3>1. life' \in 0..Lives
      BY <1>1, LivesAssumption DEF Start, MainOK
    <3>2. models = << >> /\ phase' = "sweep" /\ ValidConfig(cfg) /\ UNCHANGED <<cfg, models>>
      BY <1>1 DEF Start, MainOK, Running
    <3>3. sweep' \subseteq {epath'[g] : g \in Engines}
      BY <1>1 DEF Start, WorldOK
    <3> QED BY <1>1, <3>1, <3>2, <3>3 DEF Start, MainOK, Phases, Running
  <2>2. EntriesOK' /\ ConnsOK'
    BY <1>1 DEF Start, EntriesOK, ConnsOK, Entries, Running
  <2>3. WorldOK'
    BY <1>1 DEF Start, WorldOK
  <2> QED BY <2>1, <2>2, <2>3
<1>2. CASE SweepDial \/ SweepRemove
  <2>1. MainOK'
    BY <1>2 DEF SweepDial, SweepRemove, MainOK, Entries, Built, Running
  <2>2. EntriesOK' /\ ConnsOK'
    BY <1>2 DEF SweepDial, SweepRemove, EntriesOK, ConnsOK, Entries
  <2>3. WorldOK'
    BY <1>2 DEF SweepDial, SweepRemove, Unlink, WorldOK
  <2> QED BY <2>1, <2>2, <2>3
<1>3. CASE Serve
  <2>1. models' = Built /\ Len(models') \in Nat /\ models = << >> /\ Built' = Built
    BY <1>3, BuiltIs DEF Serve, MainOK, Running, Built
  <2>2. MainOK'
    BY <1>3, <2>1 DEF Serve, MainOK, Phases, Running, Entries
  <2>3. EntriesOK'
    <3>1. Entries' = DOMAIN Built /\ phase' = "serve" /\ UNCHANGED <<cfg, stopping>>
      BY <1>3, <2>1 DEF Serve, Entries
    <3>2. /\ state' = [e \in DOMAIN Built |-> "UNLOADED"]
          /\ proc' = [e \in DOMAIN Built |-> None] /\ leng' = [e \in DOMAIN Built |-> None]
          /\ lpc' = [e \in DOMAIN Built |-> "none"] /\ by' = [e \in DOMAIN Built |-> None]
          /\ rivals' = [e \in DOMAIN Built |-> {}]
      BY <1>3 DEF Serve
    <3>3. next' = [k \in DOMAIN cfg.models |-> 0] /\ boot' \subseteq DOMAIN Built
      BY <1>3 DEF Serve
    <3> QED BY <3>1, <3>2, <3>3 DEF EntriesOK, Running
  <2>4. ConnsOK'
    <3>1. cent \in [Conns -> {0}] /\ UNCHANGED conns
      BY <1>3, <2>1 DEF Serve, ConnsOK, Entries
    <3>2. cent' \in [Conns -> Entries' \union {0}]
      BY <3>1
    <3> QED BY <3>1, <3>2 DEF ConnsOK
  <2>5. WorldOK'
    BY <1>3 DEF Serve, WorldOK
  <2> QED BY <2>2, <2>3, <2>4, <2>5
<1>4. CASE Terminate \/ Shutdown
  <2>1. MainOK'
    <3>1. phase \in Running /\ phase' \in {"drain", "kill"} /\ visit' \in {visit, 1}
      BY <1>4 DEF Terminate, Shutdown, Running
    <3>2. Len(models) \in Nat
      BY <3>1, BuiltIs DEF MainOK
    <3>3. UNCHANGED <<cfg, models, life, sweep, unowned, victim, epath>>
      BY <1>4 DEF Terminate, Shutdown
    <3>4. phase' \in Running /\ phase' # "wait"
      BY <3>1 DEF Running
    <3>5. visit' \in 0..(Len(models) + 1) /\ victim' \in Engines \union {None}
      BY <3>1, <3>2, <3>3 DEF MainOK
    <3> QED BY <3>1, <3>3, <3>4, <3>5, MainKept
  <2>2. EntriesOK' /\ ConnsOK' /\ WorldOK'
    BY <1>4 DEF Terminate, Shutdown, EntriesOK, ConnsOK, WorldOK, Running, Entries
  <2> QED BY <2>1, <2>2
<1>5. CASE KillVisit
  <2>1. phase = "kill" /\ visit \in Entries /\ UNCHANGED <<cfg, models>>
    BY <1>5 DEF KillVisit
  <2>2. Len(models) \in Nat /\ Entries = 1..Len(models)
    BY <2>1, BuiltIs DEF MainOK, Running, Entries
  <2>3. /\ phase' \in {"kill", "wait"} /\ victim' \in Engines \union {None}
        /\ visit' \in 0..(Len(models) + 1) /\ (phase' = "wait" => visit' \in Entries)
        /\ engine' \in [Engines -> Live \union {"unborn", "dead"}]
    <3>1. visit \in 1..Len(models) /\ visit + 1 \in 0..(Len(models) + 1)
      BY <2>1, <2>2
    <3>2. CASE NothingToKill(visit)
      BY <1>5, <2>1, <3>1, <3>2 DEF KillVisit, MainOK, WorldOK
    <3>3. CASE ~NothingToKill(visit)
      <4>1. proc[visit] \in Engines
        BY <2>1, <3>3 DEF EntriesOK, NothingToKill
      <4>2. Signalled(proc[visit]) \in [Engines -> Live \union {"unborn", "dead"}]
        BY <4>1, SignalledType
      <4> QED BY <1>5, <2>1, <2>2, <3>1, <3>3, <4>1, <4>2 DEF KillVisit
    <3> QED BY <3>2, <3>3
  <2>4. MainOK'
    <3>1. UNCHANGED <<cfg, models, life, sweep, unowned, epath>>
      BY <1>5 DEF KillVisit
    <3>2. phase \in Running /\ phase' \in Running
      BY <2>1, <2>3 DEF Running
    <3> QED BY <2>3, <3>1, <3>2, MainKept
  <2>5. EntriesOK' /\ ConnsOK'
    BY <1>5, <2>1, <2>3 DEF KillVisit, EntriesOK, ConnsOK, Running, Entries
  <2>6. WorldOK'
    BY <1>5, <2>1, <2>3 DEF KillVisit, EntriesOK, WorldOK
  <2> QED BY <2>4, <2>5, <2>6
<1>6. CASE Killed
  <2>1. /\ phase = "wait" /\ phase' = "kill" /\ visit' = visit + 1 /\ victim' = None
        /\ UNCHANGED <<cfg, models, life, sweep, unowned, entries, conns, epath, rivals>>
    BY <1>6 DEF Killed
  <2>2. Len(models) \in Nat /\ visit \in 1..Len(models)
    BY <2>1, BuiltIs DEF MainOK, Running, Entries
  <2>3. visit' \in 0..(Len(models') + 1)
    BY <2>1, <2>2
  <2>4. MainOK'
    BY <2>1, <2>3, MainKept DEF Running
  <2>5. EntriesOK' /\ ConnsOK'
    BY <2>1 DEF EntriesOK, ConnsOK, Running, Entries
  <2>6. WorldOK'
    BY <1>6 DEF Killed, Unlink, WorldOK
  <2> QED BY <2>4, <2>5, <2>6
<1>7. CASE Crash \/ ShutdownComplete
  BY <1>7, TypeLossStep DEF Crash, ShutdownComplete
<1> QED BY <1>1, <1>2, <1>3, <1>4, <1>5, <1>6, <1>7

\* While it runs: what is left to show when main stands still.
LEMMA TypeRunningStep ==
  ASSUME TypeInv, Steps, EntriesOK', ConnsOK', WorldOK'
  PROVE  TypeInv'
<1>1. MainOK'
  BY MainKept DEF TypeInv, Steps, main, MainOK, Entries
<1> QED BY <1>1 DEF TypeInv

LEMMA TypeConnStep ==
  ASSUME TypeInv, NEW c \in Conns,
         \/ Arrive(c) \/ Claim(c) \/ Wake(c) \/ ClientLeaves(c) \/ Forward(c) \/ Responded(c)
         \/ SideCloses(c) \/ CopyReadsEnd(c) \/ CopyWriteFails(c) \/ TunnelCloses(c)
  PROVE  TypeInv'
<1> USE DEF TypeInv, main, entries, conns, world, history
<1>1. CASE Arrive(c)
  <2>1. PICK name \in Known(cfg) : cent' = [cent EXCEPT ![c] = Picked(ByName(cfg, name))]
    BY <1>1 DEF Arrive
  <2>2. Steps /\ Picked(ByName(cfg, name)) \in Entries /\ Entries' = Entries
    BY <1>1, NameLeadsToModel, PickedIsEntry DEF Arrive, Steps, Entries
  <2>3. EntriesOK'
    BY <1>1, <2>2 DEF Arrive, EntriesOK, Steps
  <2>4. ConnsOK' /\ WorldOK'
    BY <1>1, <2>1, <2>2 DEF Arrive, ConnsOK, WorldOK
  <2> QED BY <2>2, <2>3, <2>4, TypeRunningStep
<1>2. CASE Claim(c)
  <2>1. Steps /\ Entries' = Entries
    BY <1>2 DEF Claim, Steps, Entries
  <2>2. EntriesOK'
    BY <1>2, <2>1 DEF Claim, Claims, EntriesOK, Steps
  <2>3. ConnsOK' /\ WorldOK'
    BY <1>2, <2>1 DEF Claim, Claims, ConnsOK, WorldOK
  <2> QED BY <2>1, <2>2, <2>3, TypeRunningStep
<1>3. CASE Wake(c)
  <2>1. Steps /\ Entries' = Entries
    BY <1>3 DEF Wake, Steps, Entries
  <2>2. EntriesOK'
    BY <1>3, <2>1 DEF Wake, EntriesOK, Steps
  <2>3. ConnsOK' /\ WorldOK'
    BY <1>3, <2>1 DEF Wake, Drained, ConnsOK, WorldOK
  <2> QED BY <2>1, <2>2, <2>3, TypeRunningStep
<1>4. CASE ClientLeaves(c) \/ Forward(c) \/ Responded(c)
  <2>1. Steps /\ Entries' = Entries
    BY <1>4 DEF ClientLeaves, Forward, Responded, Steps, Entries
  <2>2. EntriesOK' /\ WorldOK'
    BY <1>4, <2>1 DEF ClientLeaves, Forward, Responded, EntriesOK, WorldOK, Steps
  <2>3. ConnsOK'
    BY <1>4, <2>1 DEF ClientLeaves, Forward, Responded, ConnsOK, WorldOK, Listeners, At
  <2> QED BY <2>1, <2>2, <2>3, TypeRunningStep
<1>5. CASE SideCloses(c) \/ CopyReadsEnd(c) \/ CopyWriteFails(c)
  <2>1. PICK what \in Sides \union Copiers : Tunnel(c, what)
    BY <1>5 DEF SideCloses, CopyReadsEnd, CopyWriteFails
  <2>2. Steps /\ Entries' = Entries
    BY <2>1 DEF Tunnel, Steps, Entries
  <2>3. EntriesOK' /\ ConnsOK' /\ WorldOK'
    BY <2>1, <2>2 DEF Tunnel, EntriesOK, ConnsOK, WorldOK, Steps
  <2> QED BY <2>2, <2>3, TypeRunningStep
<1>6. CASE TunnelCloses(c)
  <2>1. Steps /\ Entries' = Entries
    BY <1>6 DEF TunnelCloses, Steps, Entries
  <2>2. EntriesOK' /\ ConnsOK' /\ WorldOK'
    BY <1>6, <2>1 DEF TunnelCloses, EntriesOK, ConnsOK, WorldOK, Steps
  <2> QED BY <2>1, <2>2, TypeRunningStep
<1> QED BY <1>1, <1>2, <1>3, <1>4, <1>5, <1>6

LEMMA TypeLoadStep ==
  ASSUME TypeInv, NEW e \in Entries,
         \/ Boot(e) \/ Stat(e) \/ Dial(e) \/ RemoveStale(e) \/ Launch(e) \/ LaunchFails(e)
         \/ Register(e) \/ HealthOk(e) \/ HealthTimesOut(e) \/ HealthFails(e)
         \/ FallsAsleep(e) \/ Unload(e) \/ CrashNoticed(e)
  PROVE  TypeInv'
<1> USE DEF TypeInv, main, entries, conns, world, history, Loads, LoadGoesOn, LoadEnds
<1> DEFINE Same == Steps /\ Entries' = Entries
<1>1. CASE Boot(e)
  <2>1. Same
    BY <1>1 DEF Boot, Steps, Entries
  <2>2. EntriesOK'
    BY <1>1, <2>1 DEF Boot, Claims, EntriesOK, Steps
  <2>3. ConnsOK' /\ WorldOK'
    BY <1>1, <2>1 DEF Boot, Claims, ConnsOK, WorldOK
  <2> QED BY <2>1, <2>2, <2>3, TypeRunningStep
<1>2. CASE Launch(e)
  <2>1. PICK g \in Engines :
          /\ engine' = [engine EXCEPT ![g] = "starting"]
          /\ epath' = [epath EXCEPT ![g] = Path(e)]
          /\ leng' = [leng EXCEPT ![e] = g]
          /\ missed' = IF Visited(e) THEN missed \union {g} ELSE missed
    BY <1>2 DEF Launch
  <2>2. /\ Same /\ lpc' = [lpc EXCEPT ![e] = "register"]
        /\ UNCHANGED <<state, proc, by, next, boot, stopping, conns, linked, old, upAtStart,
                       rivals>>
    BY <1>2 DEF Launch, Steps, Entries
  <2>3. EntriesOK'
    BY <2>1, <2>2 DEF EntriesOK, Steps
  <2>4. ConnsOK'
    BY <2>2 DEF ConnsOK
  <2>5. WorldOK'
    BY <2>1, <2>2 DEF WorldOK, Live
  <2> QED BY <2>2, <2>3, <2>4, <2>5, TypeRunningStep
<1>3. CASE LaunchFails(e) \/ Register(e) \/ HealthOk(e) \/ HealthFails(e)
  <2>1. Same
    BY <1>3 DEF LaunchFails, Register, HealthOk, HealthFails, Steps, Entries
  <2>2. EntriesOK'
    BY <1>3, <2>1 DEF LaunchFails, Register, HealthOk, HealthFails, EntriesOK, Steps
  <2>3. ConnsOK'
    BY <1>3, <2>1 DEF LaunchFails, Register, HealthOk, HealthFails, Drained, ConnsOK
  <2>4. WorldOK'
    BY <1>3, <2>1 DEF LaunchFails, Register, HealthOk, HealthFails, Unlink, WorldOK
  <2> QED BY <2>1, <2>2, <2>3, <2>4, TypeRunningStep
<1>4. CASE HealthTimesOut(e)
  <2>1. Same
    BY <1>4 DEF HealthTimesOut, Steps, Entries
  <2>2. EntriesOK' /\ ConnsOK'
    BY <1>4, <2>1 DEF HealthTimesOut, EntriesOK, ConnsOK, Steps
  <2>3. WorldOK'
    BY <1>4, SignalledType DEF HealthTimesOut, WorldOK
  <2> QED BY <2>1, <2>2, <2>3, TypeRunningStep
<1>5. CASE FallsAsleep(e) \/ CrashNoticed(e)
  <2>1. Same
    BY <1>5 DEF FallsAsleep, CrashNoticed, Steps, Entries
  <2>2. EntriesOK'
    BY <1>5, <2>1 DEF FallsAsleep, CrashNoticed, EntriesOK, Steps
  <2>3. ConnsOK'
    BY <1>5, <2>1 DEF FallsAsleep, CrashNoticed, Drained, ConnsOK
  <2>4. WorldOK'
    BY <1>5, <2>1 DEF FallsAsleep, CrashNoticed, EntriesOK, WorldOK
  <2> QED BY <2>1, <2>2, <2>3, <2>4, TypeRunningStep
<1>6. CASE Unload(e) /\ proc[e] = None
  BY <1>6, TypeLossStep DEF Unload
<1>7. CASE Unload(e) /\ proc[e] # None
  <2>1. Same /\ proc[e] \in Engines
    BY <1>7 DEF Unload, Steps, Entries, EntriesOK
  <2>2. EntriesOK' /\ ConnsOK'
    BY <1>7, <2>1 DEF Unload, EntriesOK, ConnsOK, Steps
  <2>3. WorldOK'
    BY <1>7, SignalledType DEF Unload, WorldOK
  <2> QED BY <2>1, <2>2, <2>3, TypeRunningStep
<1>8. CASE Stat(e) \/ Dial(e) \/ RemoveStale(e)
  <2>1. Same
    BY <1>8 DEF Stat, Dial, RemoveStale, Steps, Entries
  <2>2. EntriesOK'
    BY <1>8, <2>1 DEF Stat, AfterStat, Dial, RemoveStale, YetToBind, EntriesOK, Steps
  <2>3. ConnsOK' /\ WorldOK'
    BY <1>8, <2>1 DEF Stat, Dial, RemoveStale, Unlink, ConnsOK, WorldOK
  <2> QED BY <2>1, <2>2, <2>3, TypeRunningStep
<1> QED BY <1>1, <1>2, <1>3, <1>4, <1>5, <1>6, <1>7, <1>8

LEMMA TypeEngineStep ==
  ASSUME TypeInv, NEW g \in Engines,
         \/ Stopped(g) \/ Binds(g) \/ BindFails(g) \/ Listens(g)
         \/ Closes(g) \/ Exits(g) \/ Dies(g)
  PROVE  TypeInv'
<1> USE DEF TypeInv, main, entries, conns, world, history
<1>1. CASE Stopped(g)
  <2>1. Steps /\ Entries' = Entries
    BY <1>1 DEF Stopped, Steps, Entries
  <2>2. EntriesOK' /\ ConnsOK' /\ WorldOK'
    BY <1>1, <2>1 DEF Stopped, Unlink, EntriesOK, ConnsOK, WorldOK, Steps
  <2> QED BY <2>1, <2>2, TypeRunningStep
<1>2. CASE ~Stopped(g)
  <2>1. UNCHANGED <<cfg, models, main, entries, conns, epath, old, history>>
    BY <1>2 DEF EngineMoves, Binds, BindFails, Listens, Closes, Exits, Dies
  <2>2. MainOK' /\ EntriesOK' /\ ConnsOK'
    BY <2>1 DEF MainOK, EntriesOK, ConnsOK, Entries, Built
  <2>3. WorldOK'
    BY <1>2, <2>1 DEF EngineMoves, Binds, BindFails, Listens, Closes, Exits, Dies, WorldOK, Live
  <2> QED BY <2>2, <2>3
<1> QED BY <1>1, <1>2

LEMMA TypeInit == Init => TypeInv
<1> SUFFICES ASSUME Init PROVE TypeInv
  OBVIOUS
<1>1. Entries = {} /\ Len(models) = 0
  BY DEF Init, Entries
<1>2. \A S : << >> \in [{} -> S]
  OBVIOUS
<1>3. MainOK
  BY <1>1, LivesAssumption DEF Init, MainOK, Phases, Running
<1>4. EntriesOK
  BY <1>1, <1>2 DEF Init, EntriesOK, Running
<1>5. ConnsOK /\ WorldOK
  BY DEF Init, ConnsOK, WorldOK
<1> QED BY <1>3, <1>4, <1>5 DEF TypeInv

LEMMA TypeStep == TypeInv /\ [Next]_vars => TypeInv'
<1> SUFFICES ASSUME TypeInv, [Next]_vars PROVE TypeInv'
  OBVIOUS
<1>1. CASE UNCHANGED vars
  <2> USE DEF TypeInv, vars, main, entries, conns, world, history
  <2>1. MainOK' /\ EntriesOK'
    BY <1>1 DEF MainOK, EntriesOK, Entries, Built
  <2>2. ConnsOK' /\ WorldOK'
    BY <1>1 DEF ConnsOK, WorldOK, Entries
  <2> QED BY <2>1, <2>2
<1>2. CASE Next
  BY <1>2, TypeMainStep, TypeConnStep, TypeLoadStep, TypeEngineStep DEF Next
<1> QED BY <1>1, <1>2

\* The inductive invariant holds in every state: the models that are served are those of
\* a configuration that was validated, and a load that has launched holds its process.
THEOREM TypeInvariance == Spec => []TypeInv
BY TypeInit, TypeStep, PTL DEF Spec

-----------------------------------------------------------------------------
(* Theorems *)

\* Every state of every life has its type: newOrchestrator's slices and maps are filled
\* for the configuration read, and round robin never picks an entry that is not there.
THEOREM StatesHaveTypes == Spec => []OrchestratorTypeOK
BY TypeInvariance, TypeInvImplies, PTL

LEMMA AcceptedIsValid ==
  ASSUME TypeInv, Accepted
  PROVE  cfg \in Configurations /\ cfg \in ConfigFile /\ ValidConfig(cfg)
BY ConfigurationsAssumption DEF TypeInv, MainOK, Accepted

\* Whatever configuration validateConfig accepts, no name in modelByName is overwritten.
THEOREM NamesResolved == Spec => []NamesResolve
<1>1. TypeInv => NamesResolve
  BY AcceptedIsValid, NameResolves DEF NamesResolve, ValidConfig
<1> QED BY <1>1, TypeInvariance, PTL

\* When the groups of an accepted configuration have different ids, a pinned model that
\* asks for so many devices gets them, though the two look-ups of its group differ.
THEOREM PinnedFitting == Spec => []PinnedFitsIfIdsDiffer
<1>1. ASSUME TypeInv, Accepted, IsInjective([i \in DOMAIN cfg.groups |-> cfg.groups[i].id]),
             NEW m \in Range(cfg.models), m.pin # ""
      PROVE  m.tp <= Len(cfg.groups[FirstGroup(cfg, m.pin)].gpus)
  <2>1. /\ cfg \in ConfigFile /\ m \in ModelConfig
        /\ PlacementValid(cfg, m) /\ EngineValid(cfg, m)
    BY <1>1, AcceptedIsValid, ConfigTypes DEF ValidConfig, Range
  <2>2. /\ m.pin \in GroupIds(cfg) /\ m.tp >= 0
        /\ m.tp = 0 \/ (m.tp > 0 => m.tp <= GpuCount(cfg, m.pin))
    BY <1>1, <2>1, PinChecked, Zenon
  <2>3. \A i, j \in DOMAIN cfg.groups : cfg.groups[i].id = cfg.groups[j].id => i = j
    BY <1>1 DEF IsInjective
  <2> QED BY <2>1, <2>2, <2>3, PinHasDevices
<1>2. TypeInv => PinnedFitsIfIdsDiffer
  BY <1>1, Zenon DEF PinnedFitsIfIdsDiffer, PinnedFits
<1> QED BY <1>2, TypeInvariance, PTL

\* Whatever it accepts, two entries share a socket only across models, and only when a
\* name has a character that is replaced, or a dash.
THEOREM SocketsApart == Spec => []PathsApart
<1>1. ASSUME TypeInv, Accepted PROVE PathsApart
  <2>1. cfg \in Configurations /\ cfg \in ConfigFile /\ cfg.models # << >> /\ NamesValid(cfg)
    BY <1>1, AcceptedIsValid DEF ValidConfig
  <2>2. ASSUME NEW e \in Range(EntriesOf(cfg)), NEW f \in Range(EntriesOf(cfg)), e # f,
               SocketPath(cfg, e) = SocketPath(cfg, f)
        PROVE  /\ e.model # f.model
               /\ \E x \in {e, f} :
                    ~(Range(cfg.models[x.model].name) \subseteq Kept \ {Dash})
    <3>1. e.model = f.model /\ ToString(e.replica) = ToString(f.replica) => e.replica = f.replica
      <4>1. /\ e.model \in DOMAIN cfg.models
            /\ e.replica \in 0..(ReplicasOf(cfg.models[e.model]) - 1)
            /\ f.replica \in 0..(ReplicasOf(cfg.models[f.model]) - 1)
        BY <2>1, EntryRecords
      <4>2. cfg.models[e.model] \in Range(cfg.models)
        BY <4>1 DEF Range
      <4> QED BY <2>1, <4>1, <4>2, NumeralsAssumption
    <3>2. e.model # f.model /\ Confusable(cfg, e, f)
      BY <2>1, <2>2, <3>1, PathsConfused
    <3> QED BY <2>1, <3>2, PathsCollide
  <2> QED BY <2>2, Zenon DEF PathsApart, Dash
<1>2. TypeInv => PathsApart
  BY <1>1 DEF PathsApart
<1> QED BY <1>2, TypeInvariance, PTL
=============================================================================
