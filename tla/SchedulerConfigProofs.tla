----------------------- MODULE SchedulerConfigProofs -----------------------
(***************************************************************************)
(* Scheduler over the entries and groups of a configuration file.  What it *)
(* assumes of pins, groups and models is what validateConfig and           *)
(* newOrchestrator make sure of, so what is proved of it holds under every *)
(* configuration that is accepted.                                         *)
(***************************************************************************)
EXTENDS ConfigProofs

CONSTANTS
  File,  \* the configuration
  Total, Full, Weights, Allocation, Loads, MayHang, None, ReclaimRobbed  \* as in Scheduler

VARIABLES
  state, grp, eng, hung, measured, robbed, lock, pc, target, phase, at, excl, rule, todo,
  victim, live, cpu

Built == EntriesOf(File)
ConfigOf(e) == File.models[Built[e].model]

\* The group that assignGroup finds for a pin.
PinOf(m) == IF m.pin = "" THEN 0 ELSE FirstGroup(File, m.pin)

S == INSTANCE SchedulerProofs WITH
  Entries <- DOMAIN Built,
  ModelOf <- [e \in DOMAIN Built |-> Built[e].model],
  LlamaCpp <- {e \in DOMAIN Built : EngineOf(ConfigOf(e)) = LlamaCppEngine},
  NumGroups <- Len(File.groups),
  Pin <- [e \in DOMAIN Built |-> PinOf(ConfigOf(e))]

\* A pinned model names a declared group and has one replica.
LEMMA PinOfValid ==
  ASSUME NEW m, PlacementValid(File, m)
  PROVE  \/ PinOf(m) = 0
         \/ m.pin \in GroupIds(File) /\ PinOf(m) = FirstGroup(File, m.pin) /\ ~ (m.replicas > 1)
<1>1. CASE m.pin = ""
  BY <1>1, Zenon DEF PinOf
<1>2. CASE m.pin # ""
  BY <1>2, Zenon DEF PinOf, PlacementValid
<1> QED BY <1>1, <1>2, Zenon

\* validateConfig (pins, replicas, groups) makes sure of what Scheduler assumes of them.
THEOREM AcceptedSuitsScheduler ==
  ASSUME File \in ConfigFile, ValidConfig(File)
  PROVE  S!GroupsAssumption /\ S!ModelsAssumption /\ S!PinAssumption
<1>1. /\ File.models # << >> /\ File.groups # << >>
      /\ \A m \in Range(File.models) : PlacementValid(File, m)
  BY Zenon DEF ValidConfig, GroupsValid
<1>2. Len(File.groups) \in Nat \ {0}
  BY <1>1, ConfigTypes DEF ConfigFile
<1>3. \A e \in DOMAIN Built : /\ Built[e].model \in DOMAIN File.models
                             /\ ConfigOf(e) \in ModelConfig /\ ConfigOf(e) \in Range(File.models)
  <2>1. \A e \in DOMAIN Built : Built[e].model \in DOMAIN File.models
    BY <1>1, EntriesExact DEF Built
  <2> QED BY <2>1, ConfigTypes DEF ConfigOf, Range
<1>4. \A e \in DOMAIN Built : ConfigOf(e).replicas \in Int
  BY <1>3, FieldTypes
<1>5. \A e, f \in DOMAIN Built :
        Built[e].model = Built[f].model /\ ConfigOf(e).replicas <= 1 => e = f
  BY <1>1, PinnedModelHasOneEntry DEF Built, ConfigOf
<1>6. ASSUME NEW e \in DOMAIN Built
      PROVE  /\ PinOf(ConfigOf(e)) \in 0..Len(File.groups)
             /\ PinOf(ConfigOf(e)) # 0 => ConfigOf(e).replicas <= 1
  <2>1. PlacementValid(File, ConfigOf(e)) /\ ConfigOf(e).replicas \in Int
    BY <1>1, <1>3, <1>4
  <2>2. CASE PinOf(ConfigOf(e)) = 0
    BY <1>2, <2>2
  <2>3. CASE PinOf(ConfigOf(e)) # 0
    <3>1. /\ ConfigOf(e).pin \in GroupIds(File) /\ ~ (ConfigOf(e).replicas > 1)
          /\ PinOf(ConfigOf(e)) = FirstGroup(File, ConfigOf(e).pin)
      BY <2>1, <2>3, PinOfValid
    <3>2. PinOf(ConfigOf(e)) \in 1..Len(File.groups)
      BY <3>1, FirstGroupFound
    <3>3. ConfigOf(e).replicas <= 1
      BY <2>1, <3>1
    <3> QED BY <1>2, <3>2, <3>3
  <2> QED BY <2>2, <2>3
<1>7. S!GroupsAssumption
  BY <1>2 DEF S!GroupsAssumption
<1>8. S!ModelsAssumption
  BY DEF S!ModelsAssumption
<1>9. S!PinAssumption
  BY <1>5, <1>6 DEF S!PinAssumption, S!Replicated, S!Siblings
<1> QED BY <1>7, <1>8, <1>9

\* So under every accepted configuration, with any figures nvidia-smi may give, replicas
\* stay on distinct groups, the rules of freeMemoryRules spare siblings (freeCPURam does
\* not), and assignMu is let go of on every way out of assignGroup.
THEOREM AcceptedReplicasApart ==
  ASSUME File \in ConfigFile, ValidConfig(File),
         S!NoneAssumption, S!ReclaimAssumption, S!MayHangAssumption, S!SizesAssumption
  PROVE  S!Spec => []S!ReplicasApart /\ []S!AssignMuHeldToAssign /\ S!SiblingsSpared
<1>1. S!GroupsAssumption /\ S!ModelsAssumption /\ S!PinAssumption
  BY AcceptedSuitsScheduler
<1>2. S!Spec => []S!ReplicasApart
  BY <1>1, S!SchedulerReplicasApart
<1>3. S!Spec => []S!AssignMuHeldToAssign
  BY <1>1, S!SchedulerAssignMu
<1>4. S!Spec => S!SiblingsSpared
  BY <1>1, S!SchedulerSiblingsSpared
<1> QED BY <1>2, <1>3, <1>4
=============================================================================
