-------------------------- MODULE SchedulerProofs --------------------------
(***************************************************************************)
(* Proofs about Scheduler, for every set of entries, models, groups and    *)
(* loads: the types, that a LOADING entry has a load, that replicas stay   *)
(* on distinct groups, and that a replica's load spares its siblings.      *)
(*                                                                         *)
(* The argument for the last two: a load of a replica holds assignMu from  *)
(* the moment it reads its siblings' groups to the moment its own group is *)
(* recorded, and only a holder of assignMu records a group; so what it has *)
(* excluded still covers its siblings, and the group it is at is never one *)
(* of them.  Launch writes the recorded group again, which changes nothing *)
(* as long as no eviction has released the entry meanwhile.                *)
(***************************************************************************)
EXTENDS Scheduler, TLAPS

\* Where a load works through the rules on a group.
Evicting == {"list", "visit", "demote", "sleep"}

\* A load has an entry; the steps of the pinned case are a pinned entry's.
HasTarget ==
  \A l \in Loads :
    /\ pc[l] \in Loading \union {"panicked"} => target[l] \in Entries
    /\ pc[l] \in Loading /\ (phase[l] = "pinned" \/ pc[l] \in {"pinned", "reserve"})
         => Pin[target[l]] # 0

\* An entry that nobody has robbed belongs to its one load.
OwnsEntry ==
  \A l \in Loads : \A e \in Entries \ robbed :
    (pc[l] \in Loading /\ target[l] = e) =>
      /\ state[e] = "LOADING"
      /\ \A k \in Loads : pc[k] \in Loading /\ target[k] = e => k = l
      /\ eng[e] = IF pc[l] = "health" THEN "starting" ELSE "none"
      /\ pc[l] \in {"launch", "health"} \/ grp[e] = 0
      /\ pc[l] = "launch" /\ Pin[e] = 0 => grp[e] = at[l]

\* An UNLOADED entry has neither a group nor an engine.
UnloadedIsBare ==
  \A e \in Entries \ robbed : state[e] = "UNLOADED" => grp[e] = 0 /\ eng[e] = "none"

\* A replica's load holds assignMu while it chooses a group,
HoldsLock ==
  \A l \in Loads :
    pc[l] \in Assigning /\ Replicated(target[l]) => lock[ModelOf[target[l]]] = l

\* has excluded its siblings' groups,
ExcludesSiblings ==
  \A l \in Loads : pc[l] \in Assigning =>
    \A f \in Siblings(target[l]) \ robbed : grp[f] \in excl[l] \union {0}

\* and is at another one.
AtCandidate ==
  \A l \in Loads :
    pc[l] \in Evicting \union {"record"} /\ Replicated(target[l]) =>
      at[l] \in Groups \ excl[l]

\* What it puts to sleep there is no sibling, or was one when an eviction released it.
VictimIsOther ==
  \A l \in Loads : pc[l] \in {"demote", "sleep"} =>
    victim[l] \in Entries \ (Siblings(target[l]) \ robbed)

PlacementInv ==
  /\ HasTarget /\ OwnsEntry /\ UnloadedIsBare
  /\ HoldsLock /\ ExcludesSiblings /\ AtCandidate /\ VictimIsOther
  /\ ReplicasApart

-----------------------------------------------------------------------------
(* Types *)

\* The initial values have their types.
LEMMA TypeInit == Init => SchedulerTypeOK
  BY GroupsAssumption, SizesAssumption
     DEF Init, SchedulerTypeOK, States, Serving, EngineStates

\* The types of the entries, and of the loads' locals with the locks.
EntriesTyped ==
  /\ state \in [Entries -> States] /\ grp \in [Entries -> 0..NumGroups]
  /\ eng \in [Entries -> EngineStates] /\ measured \in [Entries -> BOOLEAN]
  /\ hung \subseteq Entries /\ robbed \subseteq Entries
LocalsTyped ==
  /\ lock \in [Models -> Loads \union {None}]
  /\ pc \in [Loads -> Loading \union {"idle", "panicked"}]
  /\ target \in [Loads -> Entries \union {None}]
  /\ phase \in [Loads -> {"first", "retry", "pinned"}]
  /\ at \in [Loads -> 0..(NumGroups + 1)]
  /\ excl \in [Loads -> SUBSET Groups]
  /\ rule \in [Loads -> 1..4]
  /\ todo \in [Loads -> SUBSET Entries]
  /\ victim \in [Loads -> Entries \union {None}]
  /\ live \in [Loads -> BOOLEAN]
  /\ cpu \in [Loads -> SUBSET Entries]

LEMMA TypeParts == SchedulerTypeOK <=> EntriesTyped /\ LocalsTyped
  BY DEF SchedulerTypeOK, EntriesTyped, LocalsTyped

\* A load that evicts or has chosen a group is at one.
AtGroup ==
  \A l \in Loads :
    /\ pc[l] \in Evicting \union {"record", "pinned", "reserve", "launch"} => at[l] \in Groups
    /\ pc[l] = "group" => at[l] # 0

\* The end of a load, and the ways on from a visit, keep the locals' types.
LEMMA EndsTyped ==
  ASSUME LocalsTyped, AtGroup, NEW l \in Loads, NEW from, Ends(l, from)
  PROVE  LocalsTyped' /\ AtGroup'
  BY GroupsAssumption
     DEF LocalsTyped, AtGroup, Evicting, Ends, Moves, LeavesLoop, LeavesVisit, Unlock

LEMMA ContinuesTyped ==
  ASSUME LocalsTyped, AtGroup, NEW l \in Loads, NEW from \in Evicting,
         NEW enough, NEW rest \in SUBSET Entries,
         Continues(l, from, enough, rest)
  PROVE  LocalsTyped' /\ AtGroup'
<1> USE GroupsAssumption
    DEF LocalsTyped, AtGroup, Evicting, LeavesVisit, Moves, Groups, Loading, Assigning
<1>0. ReturnsTo(l, enough) \in {"reserve", "record", "group"}
  BY DEF ReturnsTo
<1>1. CASE Returns(l, from, enough)
  BY <1>0, <1>1 DEF Continues, Returns
<1>2. CASE ~Returns(l, from, enough)
  BY <1>2 DEF Continues, LastRule
<1> QED  BY <1>1, <1>2

LEMMA PanicsTyped ==
  ASSUME LocalsTyped, AtGroup, NEW l \in Loads, NEW from, Panics(l, from)
  PROVE  LocalsTyped' /\ AtGroup'
  BY GroupsAssumption
     DEF LocalsTyped, AtGroup, Evicting, Panics, Moves, LeavesLoop, LeavesVisit, Unlock

\* A visit panics, goes on in the rule, or stays with the entry it is at.
PanicsThere(l) == \E from \in Evicting : Panics(l, from)
GoesOn(l) ==
  \E from \in Evicting : \E rest \in SUBSET Entries : \E enough : Continues(l, from, enough, rest)
StaysThere(l) ==
  /\ pc[l] \in {"visit", "demote"}
  /\ \E to \in {"demote", "sleep"} : pc' = [pc EXCEPT ![l] = to]
  /\ UNCHANGED <<lock, target, phase, at, excl, rule, todo>>
  /\ \E e \in Entries \union {None} : victim' = [victim EXCEPT ![l] = e]
  /\ \E b \in BOOLEAN : live' = [live EXCEPT ![l] = b]
  /\ \E C \in SUBSET Entries : cpu' = [cpu EXCEPT ![l] = C]

LEMMA VisitWays ==
  ASSUME LocalsTyped, NEW l \in Loads, Visit(l)
  PROVE  PanicsThere(l) \/ GoesOn(l) \/ StaysThere(l)
<1>0. \A e : todo[l] \ {e} \in SUBSET Entries
  BY DEF LocalsTyped
<1> USE DEF PanicsThere, GoesOn, Evicting
<1>1. ASSUME NEW e \in Entries, PassOver(l, e) PROVE GoesOn(l)
  BY <1>0, <1>1 DEF PassOver
<1>2. ASSUME NEW e \in Entries, VisitToSleep(l, e) PROVE StaysThere(l)
  BY <1>2 DEF VisitToSleep, Moves, StaysThere, LocalsTyped
<1>3. ASSUME NEW e \in Entries, VisitToKill(l, e) PROVE PanicsThere(l) \/ GoesOn(l)
  BY <1>0, <1>3 DEF VisitToKill
<1>4. ASSUME NEW d \in Entries, DemoteGoesOn(l, d) PROVE GoesOn(l) \/ StaysThere(l)
  <2>1. CASE Continues(l, "demote", FALSE, todo[l] \ {victim[l]})
    BY <1>0, <2>1
  <2>2. CASE ~Continues(l, "demote", FALSE, todo[l] \ {victim[l]})
    <3>1. /\ Moves(l, "demote", IF cpu[l] = {d} THEN "sleep" ELSE "demote")
          /\ cpu' = [cpu EXCEPT ![l] = @ \ {d}]
          /\ UNCHANGED <<lock, target, phase, at, excl, rule, todo, victim, live>>
      BY <1>4, <2>2 DEF DemoteGoesOn
    <3>2. victim' = [victim EXCEPT ![l] = victim[l]] /\ live' = [live EXCEPT ![l] = live[l]]
      BY <3>1 DEF LocalsTyped
    <3> QED  BY <3>1, <3>2 DEF Moves, StaysThere, LocalsTyped
  <2> QED  BY <2>1, <2>2
<1>5. ASSUME NEW d \in Entries, Demote(l, d) \/ DemoteFails(l, d) \/ DemoteNil(l, d)
      PROVE  PanicsThere(l) \/ GoesOn(l) \/ StaysThere(l)
  BY <1>4, <1>5 DEF Demote, DemoteFails, DemoteNil
<1>6. CASE Sleep(l)
  BY <1>0, <1>6 DEF Sleep
<1>7. CASE SleepFails(l) \/ SleepNil(l)
  BY <1>0, <1>7 DEF SleepFails, SleepNil
<1> QED  BY <1>1, <1>2, <1>3, <1>5, <1>6, <1>7 DEF Visit

LEMMA VisitTyped ==
  ASSUME EntriesTyped, LocalsTyped, AtGroup, NEW l \in Loads, Visit(l)
  PROVE  EntriesTyped' /\ LocalsTyped' /\ AtGroup'
<1>1. EntriesTyped'
  <2> USE DEF EntriesTyped, States, Serving, EngineStates, entries
  <2>1. ASSUME NEW e \in Entries, PassOver(l, e) \/ VisitToSleep(l, e) PROVE EntriesTyped'
    BY <2>1 DEF PassOver, VisitToSleep
  <2>2. ASSUME NEW e \in Entries, VisitToKill(l, e) PROVE EntriesTyped'
    <3>1. 0 \in 0..NumGroups
      BY GroupsAssumption
    <3> QED  BY <2>2, <3>1 DEF VisitToKill
  <2>3. ASSUME NEW d \in Entries, Demote(l, d) \/ DemoteFails(l, d) \/ DemoteNil(l, d)
        PROVE  EntriesTyped'
    BY <2>3 DEF Demote, DemoteFails, DemoteNil
  <2>4. CASE Sleep(l)
    <3>1. victim[l] \in Entries => state[victim[l]] \in States /\ eng[victim[l]] \in EngineStates
      OBVIOUS
    <3> QED  BY <2>4, <3>1 DEF Sleep
  <2>5. CASE SleepFails(l) \/ SleepNil(l)
    BY <2>5 DEF SleepFails, SleepNil
  <2> HIDE DEF EntriesTyped
  <2> QED  BY <2>1, <2>2, <2>3, <2>4, <2>5 DEF Visit
<1>2. CASE PanicsThere(l)
  BY <1>1, <1>2, PanicsTyped DEF PanicsThere
<1>3. CASE GoesOn(l)
  BY <1>1, <1>3, ContinuesTyped DEF GoesOn
<1>4. CASE StaysThere(l)
  <2>1. LocalsTyped'
    BY <1>4 DEF StaysThere, LocalsTyped, Loading, Assigning
  <2>2. AtGroup'
    BY <1>4 DEF StaysThere, LocalsTyped, AtGroup, Evicting
  <2> QED  BY <1>1, <2>1, <2>2
<1> QED  BY <1>2, <1>3, <1>4, VisitWays

\* Every step of a load keeps the types.
LEMMA TypeLoadStep ==
  ASSUME EntriesTyped, LocalsTyped, AtGroup, NEW l \in Loads,
         (\E e \in Entries : Claim(l, e)) \/ Lock(l) \/ Load(l)
  PROVE  EntriesTyped' /\ LocalsTyped' /\ AtGroup'
<1> DEFINE Goal == EntriesTyped' /\ LocalsTyped' /\ AtGroup'
<1> USE GroupsAssumption, PinAssumption
    DEF EntriesTyped, LocalsTyped, AtGroup, Evicting, entries, loop, visit, States, Serving,
        EngineStates, Assigning, Loading, Groups, Moves
<1>1. ASSUME NEW e \in Entries, Claim(l, e) PROVE Goal
  BY <1>1 DEF Claim
<1>2. ASSUME Lock(l) PROVE Goal
  <2>1. {grp[f] : f \in Siblings(target[l])} \ {0} \in SUBSET Groups
    BY DEF Siblings
  <2> QED  BY <1>2, <2>1 DEF Lock
<1>3. ASSUME TryGroup(l) PROVE Goal
  <2>1. at[l] \in Groups => at[l] + 1 \in 1..(NumGroups + 1)
    OBVIOUS
  <2>2. EntriesTyped'
    BY <1>3 DEF TryGroup
  <2>3. /\ at[l] \in Groups
        /\ \/ pc' = [pc EXCEPT ![l] = "list"] /\ at' = at
           \/ pc' = [pc EXCEPT ![l] = "group"] /\ at' = [at EXCEPT ![l] = at[l] + 1]
    BY <1>3 DEF TryGroup
  <2>4. UNCHANGED <<lock, target, phase, excl, rule, todo, victim, live, cpu>>
    BY <1>3 DEF TryGroup
  <2>5. at' \in [Loads -> 0..(NumGroups + 1)] /\ pc' \in [Loads -> Loading \union {"idle", "panicked"}]
    BY <2>1, <2>3
  <2>6. LocalsTyped'
    BY ONLY <2>4, <2>5, LocalsTyped DEF LocalsTyped
  <2>7. at[l] + 1 # 0
    BY <2>1, <2>3
  <2>8. AtGroup'
    BY <2>3, <2>7
  <2> QED  BY <2>2, <2>6, <2>8
<1>4. ASSUME PickGroup(l) PROVE Goal
  BY <1>4 DEF PickGroup
<1>5. ASSUME GiveUp(l) PROVE Goal
  <2>1. LocalsTyped' /\ AtGroup'
    BY ONLY <1>5, EndsTyped, LocalsTyped, AtGroup, l \in Loads DEF GiveUp
  <2> QED  BY <1>5, <2>1 DEF GiveUp
<1>6. ASSUME Record(l) PROVE Goal
  <2>1. at[l] \in 0..NumGroups
    BY <1>6 DEF Record
  <2>2. EntriesTyped'
    BY <1>6, <2>1 DEF Record
  <2>3. LocalsTyped' /\ AtGroup'
    BY <1>6 DEF Record, LeavesLoop, LeavesVisit, Unlock
  <2> QED  BY <2>2, <2>3
<1>7. ASSUME CheckPinned(l) PROVE Goal
  BY <1>7 DEF CheckPinned
<1>8. ASSUME Reserve(l) PROVE Goal
  BY <1>8 DEF Reserve, LeavesLoop, LeavesVisit
<1>9. ASSUME List(l) PROVE Goal
  <2> DEFINE found == {e \in Entries : state[e] = Wanted(rule[l])}
  <2>1. PICK listed \in SUBSET found : Continues(l, "list", FALSE, listed)
    BY <1>9 DEF List
  <2>2. LocalsTyped' /\ AtGroup'
    <3> HIDE DEF LocalsTyped, AtGroup
    <3> QED  BY <2>1, ContinuesTyped
  <2> QED  BY <1>9, <2>2 DEF List
<1>10. ASSUME Visit(l) PROVE Goal
  <2> HIDE DEF EntriesTyped, LocalsTyped, AtGroup
  <2> QED  BY <1>10, VisitTyped
<1>11. ASSUME Launch(l) PROVE Goal
  <2>1. at[l] \in 0..NumGroups
    BY <1>11 DEF Launch
  <2>2. EntriesTyped'
    BY <1>11, <2>1 DEF Launch
  <2>3. LocalsTyped' /\ AtGroup'
    BY <1>11 DEF Launch
  <2> QED  BY <2>2, <2>3
<1>12. ASSUME LaunchFails(l) \/ HealthOk(l) \/ HealthFails(l) PROVE Goal
  <2>1. EntriesTyped'
    <3>0. 0 \in 0..NumGroups
      OBVIOUS
    <3>1. CASE LaunchFails(l)
      BY ONLY <3>0, <3>1, EntriesTyped
         DEF LaunchFails, EntriesTyped, States, EngineStates
    <3>2. CASE HealthOk(l)
      BY <3>2 DEF HealthOk
    <3>3. CASE HealthFails(l)
      BY ONLY <3>0, <3>3, EntriesTyped
         DEF HealthFails, EntriesTyped, States, EngineStates
    <3> QED  BY <1>12, <3>1, <3>2, <3>3
  <2>2. Ends(l, "launch") \/ Ends(l, "health")
    BY <1>12 DEF LaunchFails, HealthOk, HealthFails
  <2>3. LocalsTyped' /\ AtGroup'
    <3> HIDE DEF LocalsTyped, AtGroup
    <3> QED  BY <2>2, EndsTyped
  <2> QED  BY <2>1, <2>3
<1> HIDE DEF Goal
<1>13. Goal
  BY <1>1, <1>2, <1>3, <1>4, <1>5, <1>6, <1>7, <1>8, <1>9, <1>10, <1>11, <1>12 DEF Load
<1> QED  BY <1>13 DEF Goal

\* What else happens to the entries keeps them too.
LEMMA TypeStep ==
  ASSUME EntriesTyped, LocalsTyped, AtGroup, [Next]_vars
  PROVE  EntriesTyped' /\ LocalsTyped' /\ AtGroup'
<1>1. CASE \E l \in Loads : (\E e \in Entries : Claim(l, e)) \/ Lock(l) \/ Load(l)
  BY <1>1, TypeLoadStep
<1>2. CASE \E e \in Entries : FallsAsleep(e) \/ WakesUp(e) \/ Unloads(e) \/ Hangs(e)
  <2> USE DEF Others, loop, visit, EntriesTyped, LocalsTyped, AtGroup, States, Serving, EngineStates
  <2>1. ASSUME NEW e \in Entries, FallsAsleep(e)
        PROVE  EntriesTyped' /\ LocalsTyped' /\ AtGroup'
    BY <2>1 DEF FallsAsleep
  <2>2. ASSUME NEW e \in Entries, WakesUp(e)
        PROVE  EntriesTyped' /\ LocalsTyped' /\ AtGroup'
    BY <2>2 DEF WakesUp
  <2>3. ASSUME NEW e \in Entries, Unloads(e)
        PROVE  EntriesTyped' /\ LocalsTyped' /\ AtGroup'
    <3>1. 0 \in 0..NumGroups
      BY GroupsAssumption
    <3>2. EntriesTyped'
      BY <2>3, <3>1 DEF Unloads
    <3>3. LocalsTyped' /\ AtGroup'
      BY <2>3 DEF Unloads
    <3> QED  BY <3>2, <3>3
  <2>4. ASSUME NEW e \in Entries, Hangs(e)
        PROVE  EntriesTyped' /\ LocalsTyped' /\ AtGroup'
    BY <2>4 DEF Hangs
  <2> HIDE DEF EntriesTyped, LocalsTyped, AtGroup
  <2> QED  BY <1>2, <2>1, <2>2, <2>3, <2>4
<1>3. CASE UNCHANGED vars
  BY <1>3 DEF vars, entries, loop, visit, EntriesTyped, LocalsTyped, AtGroup
<1> QED  BY <1>1, <1>2, <1>3 DEF Next

\* The types, and that a load that evicts is at a group, hold throughout.
LEMMA TypesHold == Spec => [](EntriesTyped /\ LocalsTyped /\ AtGroup)
<1>1. Init => EntriesTyped /\ LocalsTyped /\ AtGroup
  BY TypeInit, TypeParts DEF Init, AtGroup, Evicting
<1>2. EntriesTyped /\ LocalsTyped /\ AtGroup /\ [Next]_vars
        => (EntriesTyped /\ LocalsTyped /\ AtGroup)'
  BY TypeStep
<1> QED  BY <1>1, <1>2, PTL DEF Spec

\* The type invariant of Scheduler (assignGroup, freeMemoryRules).
THEOREM SchedulerTypesHold == Spec => []SchedulerTypeOK
<1>1. EntriesTyped /\ LocalsTyped => SchedulerTypeOK
  BY TypeParts
<1> QED  BY <1>1, TypesHold, PTL

-----------------------------------------------------------------------------
(* No entry is left claimed by nobody *)

\* A load in this state has its entry still to end, or can no longer.
HasClaim(l) == pc[l] \in Loading \union {"panicked"}

\* A step that makes no entry LOADING and after which each claim goes on.
LEMMA ClaimsGoOn ==
  ASSUME LoadingHasLoad,
         \A e \in Entries : state'[e] = "LOADING" => state[e] = "LOADING",
         \A l \in Loads : HasClaim(l) => HasClaim(l)' /\ target'[l] = target[l]
  PROVE  LoadingHasLoad'
  BY DEF LoadingHasLoad, HasClaim

\* The end of a load ends its entry's LOADING.
LEMMA ClaimEnds ==
  ASSUME LocalsTyped, LoadingHasLoad, NEW l \in Loads, NEW from, Ends(l, from),
         \A e \in Entries : state'[e] = "LOADING" => state[e] = "LOADING" /\ e # target[l]
  PROVE  LoadingHasLoad'
  BY DEF LocalsTyped, LoadingHasLoad, Ends, Moves

\* On the way through a rule a claim goes on, or its load panics.
LEMMA RuleKeepsClaim ==
  ASSUME LocalsTyped, NEW l \in Loads, PanicsThere(l) \/ GoesOn(l) \/ StaysThere(l)
  PROVE  \A k \in Loads : HasClaim(k) => HasClaim(k)' /\ target'[k] = target[k]
<1> USE DEF LocalsTyped, HasClaim, Moves, Loading, Assigning, Evicting
<1>1. CASE PanicsThere(l)
  BY <1>1 DEF PanicsThere, Panics
<1>2. ASSUME NEW from \in Evicting, NEW enough, NEW rest, Continues(l, from, enough, rest)
      PROVE  \A k \in Loads : HasClaim(k) => HasClaim(k)' /\ target'[k] = target[k]
  <2>1. ReturnsTo(l, enough) \in {"reserve", "record", "group"}
    BY DEF ReturnsTo
  <2>2. target' = target /\ \E to \in Loading : pc' = [pc EXCEPT ![l] = to]
    <3>1. CASE Returns(l, from, enough)
      BY <1>2, <2>1, <3>1 DEF Continues, Returns
    <3>2. CASE ~Returns(l, from, enough)
      BY <1>2, <3>2 DEF Continues
    <3> QED  BY <3>1, <3>2
  <2> QED  BY <2>2
<1>3. CASE StaysThere(l)
  BY <1>3 DEF StaysThere
<1>4. CASE GoesOn(l)
  BY <1>2, <1>4 DEF GoesOn
<1> QED  BY <1>1, <1>3, <1>4

\* What each visit does to the entries: none becomes LOADING.
LEMMA VisitMakesNoLoading ==
  ASSUME EntriesTyped, NEW l \in Loads, Visit(l)
  PROVE  \A e \in Entries : state'[e] = "LOADING" => state[e] = "LOADING"
<1> USE DEF EntriesTyped
<1>1. ASSUME NEW e \in Entries, PassOver(l, e) \/ VisitToSleep(l, e) \/ VisitToKill(l, e)
      PROVE  \A x \in Entries : state'[x] = "LOADING" => state[x] = "LOADING"
  BY <1>1 DEF PassOver, VisitToSleep, VisitToKill, entries
<1>2. ASSUME NEW d \in Entries, Demote(l, d) \/ DemoteFails(l, d) \/ DemoteNil(l, d)
      PROVE  \A x \in Entries : state'[x] = "LOADING" => state[x] = "LOADING"
  BY <1>2 DEF Demote, DemoteFails, DemoteNil, entries
<1>3. CASE Sleep(l) \/ SleepFails(l) \/ SleepNil(l)
  BY <1>3 DEF Sleep, SleepFails, SleepNil, entries
<1> QED  BY <1>1, <1>2, <1>3 DEF Visit

LEMMA ListGoesOn ==
  ASSUME NEW l \in Loads, List(l)
  PROVE  GoesOn(l)
  BY DEF List, GoesOn, Evicting

\* Every step keeps a claim for each LOADING entry.
LEMMA LoadingStep ==
  ASSUME EntriesTyped, LocalsTyped, LoadingHasLoad, [Next]_vars
  PROVE  LoadingHasLoad'
<1> USE DEF entries, loop, visit
<1>1. ASSUME NEW l \in Loads, NEW e \in Entries, Claim(l, e) PROVE LoadingHasLoad'
  BY <1>1 DEF Claim, Moves, LoadingHasLoad, EntriesTyped, LocalsTyped, Loading, Assigning
<1>2. ASSUME NEW l \in Loads, Lock(l) \/ TryGroup(l) \/ PickGroup(l) \/ CheckPinned(l)
        \/ Reserve(l) \/ Record(l) \/ Launch(l)
      PROVE LoadingHasLoad'
  <2>1. state' = state /\ target' = target
    BY <1>2 DEF Lock, TryGroup, PickGroup, CheckPinned, Reserve, Record, Launch
  <2>2. \E to \in Loading : pc' = [pc EXCEPT ![l] = to]
    <3> USE DEF Moves, Loading, Assigning
    <3>1. CASE Lock(l) \/ Reserve(l) \/ Record(l) \/ Launch(l)
      BY <3>1 DEF Lock, Reserve, Record, Launch
    <3>2. CASE TryGroup(l)
      BY <3>2 DEF TryGroup
    <3>3. CASE PickGroup(l)
      BY <3>3 DEF PickGroup
    <3>4. CASE CheckPinned(l)
      BY <3>4 DEF CheckPinned
    <3> QED  BY <1>2, <3>1, <3>2, <3>3, <3>4
  <2> QED  BY <2>1, <2>2, ClaimsGoOn DEF HasClaim, LocalsTyped
<1>3. ASSUME NEW l \in Loads, List(l) PROVE LoadingHasLoad'
  <2>1. state' = state
    BY <1>3 DEF List
  <2> QED  BY <1>3, <2>1, ListGoesOn, RuleKeepsClaim, ClaimsGoOn
<1>4. ASSUME NEW l \in Loads, Visit(l) PROVE LoadingHasLoad'
  BY <1>4, VisitMakesNoLoading, VisitWays, RuleKeepsClaim, ClaimsGoOn
<1>5. ASSUME NEW l \in Loads, GiveUp(l) \/ LaunchFails(l) \/ HealthOk(l) \/ HealthFails(l)
      PROVE LoadingHasLoad'
  <2>1. \E from : Ends(l, from)
    BY <1>5 DEF GiveUp, LaunchFails, HealthOk, HealthFails
  <2>2. \A e \in Entries : state'[e] = "LOADING" => state[e] = "LOADING" /\ e # target[l]
    BY <1>5 DEF EntriesTyped, GiveUp, LaunchFails, HealthOk, HealthFails
  <2> QED  BY <2>1, <2>2, ClaimEnds
<1>6. ASSUME NEW e \in Entries, FallsAsleep(e) \/ WakesUp(e) \/ Unloads(e) \/ Hangs(e)
      PROVE LoadingHasLoad'
  <2>1. \A x \in Entries : state'[x] = "LOADING" => state[x] = "LOADING"
    BY <1>6 DEF FallsAsleep, WakesUp, Unloads, Hangs, EntriesTyped
  <2>2. UNCHANGED <<pc, target>>
    BY <1>6 DEF FallsAsleep, WakesUp, Unloads, Hangs, Others
  <2> QED  BY <2>1, <2>2 DEF LoadingHasLoad
<1>7. CASE UNCHANGED vars
  BY <1>7 DEF vars, LoadingHasLoad
<1> QED  BY <1>1, <1>2, <1>3, <1>4, <1>5, <1>6, <1>7 DEF Next, Load

\* LoadingHasLoad, in the UNLOADED case of handleRequest: on every way out of a load,
\* failed, robbed by an eviction or not, its entry is no longer LOADING.
THEOREM SchedulerLoadingHasLoad == Spec => []LoadingHasLoad
<1>1. Init => LoadingHasLoad
  BY DEF Init, LoadingHasLoad
<1>2. EntriesTyped /\ LocalsTyped /\ LoadingHasLoad /\ [Next]_vars => LoadingHasLoad'
  BY LoadingStep
<1> QED  BY <1>1, <1>2, TypesHold, PTL DEF Spec

-----------------------------------------------------------------------------
(* Placement *)

Owned(e) == \E l \in Loads : pc[l] \in Loading /\ target[l] = e

\* What a step may do to an entry that is not its own, or that its load leaves:
\* nothing, or an entry without an owner changes, and an UNLOADED one is bare.
Unowned(e) ==
  \/ state'[e] = state[e] /\ grp'[e] = grp[e] /\ eng'[e] = eng[e]
  \/ /\ ~Owned(e)'
     /\ grp'[e] \in {grp[e], 0}
     /\ state'[e] = "UNLOADED" => grp'[e] = 0 /\ eng'[e] = "none"
NoneOwned == robbed \subseteq robbed' /\ \A e \in Entries \ robbed' : Unowned(e)

\* What a step may do to the locals of a load: nothing, or the load stops,
Stays(l) ==
  /\ pc'[l] = pc[l] /\ target'[l] = target[l] /\ at'[l] = at[l]
  /\ excl'[l] = excl[l] /\ phase'[l] = phase[l] /\ victim'[l] = victim[l]
Stops(l) == pc'[l] \notin Loading /\ (pc'[l] = "panicked" => pc[l] \in Loading /\ target'[l] = target[l])

\* or it goes on with its search under the same lock.
Searches(l) ==
  /\ pc[l] \in Loading \ {"lock", "launch", "health"} /\ pc'[l] \in Loading \ {"lock", "health"}
  /\ target'[l] = target[l]
  /\ phase'[l] = "pinned" \/ pc'[l] \in {"pinned", "reserve", "launch"} => Pin[target[l]] # 0
  /\ pc'[l] \in Assigning => excl'[l] = excl[l] /\ (pc[l] \in Assigning \/ Pin[target[l]] # 0)
  /\ pc'[l] \in Evicting \union {"record"} /\ Replicated(target[l]) => at'[l] \in Groups \ excl[l]
  /\ pc'[l] \in {"demote", "sleep"} => victim'[l] \in Entries \ (Siblings(target[l]) \ robbed)
LocalsOnly ==
  /\ \A l \in Loads : Stays(l) \/ Stops(l) \/ Searches(l)
  /\ \A m \in Models : \A l \in Loads : lock[m] = l /\ lock'[m] # l => Stops(l)

\* Such a step keeps the placement invariant.
LEMMA SearchKeepsPlacement ==
  ASSUME EntriesTyped, LocalsTyped, PlacementInv, NoneOwned, LocalsOnly
  PROVE  PlacementInv'
<1> USE DEF PlacementInv, NoneOwned, Unowned, LocalsOnly
<1>1. HasTarget'
  BY DEF HasTarget, Stays, Stops, Searches, Loading, Assigning
<1>2. OwnsEntry'
  BY DEF OwnsEntry, HasTarget, Owned, Stays, Stops, Searches, Loading, Assigning
<1>3. UnloadedIsBare'
  BY DEF UnloadedIsBare
<1>4. HoldsLock'
  BY PinAssumption DEF HoldsLock, HasTarget, Stays, Stops, Searches, Loading, Assigning, Models
<1>5. ExcludesSiblings'
  BY PinAssumption DEF ExcludesSiblings, HasTarget, Replicated, Siblings, Stays, Stops, Searches, Loading, Assigning
<1>6. AtCandidate'
  BY DEF AtCandidate, Stays, Stops, Searches, Evicting, Loading, Assigning
<1>8. VictimIsOther'
  BY DEF VictimIsOther, Stays, Stops, Searches, Loading, Assigning
<1>7. ReplicasApart'
  BY DEF ReplicasApart, Siblings
<1> QED  BY <1>1, <1>2, <1>3, <1>4, <1>5, <1>6, <1>7, <1>8

\* The ways out of a rule, and the end of a load, as changes of locals.
LEMMA ContinuesSearches ==
  ASSUME LocalsTyped, AtGroup, PlacementInv, NEW l \in Loads,
         NEW from \in Evicting, NEW enough, NEW rest, Continues(l, from, enough, rest)
  PROVE  LocalsOnly
<1> USE DEF LocalsTyped, Moves, Loading, Assigning, Evicting, LeavesVisit
<1>1. \A k \in Loads \ {l} : Stays(k)
  <2>1. CASE Returns(l, from, enough)
    BY <2>1 DEF Continues, Returns, Stays
  <2>2. CASE ~Returns(l, from, enough)
    BY <2>2 DEF Continues, Stays
  <2> QED  BY <2>1, <2>2
<1>2. Searches(l)
  <2> USE DEF Searches, PlacementInv, HasTarget, AtCandidate
  <2>1. CASE Returns(l, from, enough)
    <3>1. ReturnsTo(l, enough) \in {"reserve", "record", "group"}
      BY DEF ReturnsTo
    <3>2. ReturnsTo(l, enough) = "reserve" => phase[l] = "pinned"
      BY DEF ReturnsTo
    <3>3. /\ pc[l] = from /\ pc'[l] = ReturnsTo(l, enough)
          /\ at'[l] = IF pc'[l] = "group" THEN at[l] + 1 ELSE at[l]
          /\ target' = target /\ phase' = phase /\ excl' = excl
      BY <2>1, <3>1 DEF Continues, Returns
    <3> QED  BY <3>1, <3>2, <3>3
  <2>2. CASE ~Returns(l, from, enough)
    BY <2>2 DEF Continues
  <2> QED  BY <2>1, <2>2
<1> QED  BY <1>1, <1>2 DEF LocalsOnly, Continues

LEMMA EndsStops ==
  ASSUME LocalsTyped, NEW l \in Loads,
         PanicsThere(l) \/ \E from : Ends(l, from)
  PROVE  LocalsOnly /\ Stops(l) /\ (~PanicsThere(l) => pc'[l] = "idle")
         /\ \A k \in Loads \ {l} : Stays(k)
<1> USE DEF LocalsTyped, Moves, LeavesLoop, LeavesVisit, Unlock, Loading, Assigning, Evicting
<1>1. \A k \in Loads \ {l} : Stays(k)
  BY DEF PanicsThere, Panics, Ends, Stays
<1>2. Stops(l) /\ (~PanicsThere(l) => pc'[l] = "idle")
  BY DEF PanicsThere, Panics, Ends, Stops
<1>3. \A m \in Models : \A k \in Loads : lock[m] = k /\ lock'[m] # k => k = l
  BY DEF PanicsThere, Panics, Ends
<1> QED  BY <1>1, <1>2, <1>3 DEF LocalsOnly

\* The three ways on from a visit exclude each other.
LEMMA NotBoth ==
  ASSUME LocalsTyped, NEW l \in Loads, pc'[l] \in {"demote", "sleep"}
  PROVE  ~GoesOn(l) /\ ~PanicsThere(l)
<1> USE DEF LocalsTyped, Moves, Evicting
<1>1. ASSUME NEW from, NEW enough, NEW rest, Continues(l, from, enough, rest) PROVE FALSE
  <2>1. ReturnsTo(l, enough) \in {"reserve", "record", "group"}
    BY DEF ReturnsTo
  <2>2. CASE Returns(l, from, enough)
    BY <2>1, <2>2 DEF Returns
  <2>3. CASE ~Returns(l, from, enough)
    BY <1>1, <2>3 DEF Continues
  <2> QED  BY <2>2, <2>3
<1>2. ~PanicsThere(l)
  BY DEF PanicsThere, Panics
<1> QED  BY <1>1, <1>2 DEF GoesOn

\* A load that stays with an entry has found it on its own group, where no sibling is.
LEMMA StaysSearches ==
  ASSUME LocalsTyped, AtGroup, PlacementInv, NEW l \in Loads, Visit(l), StaysThere(l)
  PROVE  LocalsOnly
<1> USE DEF LocalsTyped, Loading, Assigning, Evicting
<1>1. \A k \in Loads \ {l} : Stays(k)
  BY DEF StaysThere, Stays
<1>2. target[l] \in Entries /\ pc'[l] \in {"demote", "sleep"} /\ pc[l] \in {"visit", "demote"}
  BY DEF StaysThere, PlacementInv, HasTarget
<1>3. victim'[l] \in Entries \ (Siblings(target[l]) \ robbed)
  <2>1. CASE pc[l] = "visit"
    <3>1. PICK e \in Entries : VisitToSleep(l, e)
      <4>1. \A e \in Entries : PassOver(l, e) \/ VisitToKill(l, e) => GoesOn(l) \/ PanicsThere(l)
        BY DEF PassOver, VisitToKill, GoesOn, PanicsThere
      <4>2. ~GoesOn(l) /\ ~PanicsThere(l)
        BY <1>2, NotBoth
      <4>3. ~(Sleep(l) \/ SleepFails(l) \/ SleepNil(l))
        BY <2>1 DEF Sleep, SleepFails, SleepNil, Panics, Moves
      <4>4. \A d \in Entries : ~(Demote(l, d) \/ DemoteFails(l, d) \/ DemoteNil(l, d))
        BY <2>1 DEF Demote, DemoteFails, DemoteNil, Demotes
      <4> QED  BY <4>1, <4>2, <4>3, <4>4 DEF Visit
    <3>2. victim'[l] = e /\ grp[e] = at[l]
      BY <3>1 DEF VisitToSleep
    <3>3. at[l] \in Groups
      BY <2>1 DEF AtGroup
    <3>4. e \notin Siblings(target[l]) \ robbed
      BY <1>2, <2>1, <3>2, <3>3, GroupsAssumption
         DEF PlacementInv, ExcludesSiblings, AtCandidate, Replicated, Groups
    <3> QED  BY <3>2, <3>4
  <2>2. CASE pc[l] = "demote"
    <3>1. victim'[l] = victim[l]
      <4>1. \A e \in Entries : ~(PassOver(l, e) \/ VisitToSleep(l, e) \/ VisitToKill(l, e))
        BY <2>2 DEF PassOver, VisitToSleep, VisitToKill, Visits
      <4>2. ~GoesOn(l) /\ ~PanicsThere(l)
        BY <1>2, NotBoth
      <4>3. ~(Sleep(l) \/ SleepFails(l) \/ SleepNil(l))
        BY <2>2 DEF Sleep, SleepFails, SleepNil, Panics, Moves
      <4>4. PICK d \in Entries : Demote(l, d) \/ DemoteFails(l, d) \/ DemoteNil(l, d)
        BY <4>1, <4>3 DEF Visit
      <4>5. DemoteGoesOn(l, d)
        BY <4>2, <4>4 DEF Demote, DemoteFails, DemoteNil, PanicsThere
      <4>6. todo[l] \ {victim[l]} \in SUBSET Entries
        OBVIOUS
      <4>7. ~Continues(l, "demote", FALSE, todo[l] \ {victim[l]})
        BY <4>2, <4>6 DEF GoesOn
      <4> QED  BY <4>5, <4>7 DEF DemoteGoesOn
    <3> QED  BY <2>2, <3>1 DEF PlacementInv, VictimIsOther
  <2> QED  BY <1>2, <2>1, <2>2
<1>4. Searches(l)
  <2>1. phase'[l] = "pinned" => Pin[target[l]] # 0
    BY <1>2 DEF StaysThere, PlacementInv, HasTarget
  <2>2. Replicated(target[l]) => at'[l] \in Groups \ excl[l]
    BY <1>2 DEF StaysThere, PlacementInv, AtCandidate
  <2> QED  BY <1>2, <1>3, <2>1, <2>2 DEF Searches, StaysThere
<1>5. lock' = lock
  BY DEF StaysThere
<1> QED  BY <1>1, <1>4, <1>5 DEF LocalsOnly

\* The other steps of the search.
LEMMA SearchSteps ==
  ASSUME EntriesTyped, LocalsTyped, AtGroup, PlacementInv, NEW l \in Loads,
         TryGroup(l) \/ PickGroup(l) \/ CheckPinned(l) \/ Reserve(l)
  PROVE  LocalsOnly /\ UNCHANGED entries
<1> USE DEF LocalsTyped, Moves, Loading, Assigning, Evicting, loop, visit
<1>1. UNCHANGED <<entries, lock, target>>
  BY DEF TryGroup, PickGroup, CheckPinned, Reserve
<1>2. \A k \in Loads \ {l} : Stays(k)
  <2>1. CASE TryGroup(l)
    BY <2>1 DEF TryGroup, Stays
  <2>2. CASE PickGroup(l)
    BY <2>2 DEF PickGroup, Stays
  <2>3. CASE CheckPinned(l)
    BY <2>3 DEF CheckPinned, Stays
  <2>4. CASE Reserve(l)
    BY <2>4 DEF Reserve, LeavesLoop, LeavesVisit, Stays
  <2> QED  BY <2>1, <2>2, <2>3, <2>4
<1>3. Searches(l)
  <2> USE DEF Searches, PlacementInv, HasTarget
  <2>1. CASE TryGroup(l)
    BY <2>1 DEF TryGroup, Candidate
  <2>2. CASE PickGroup(l)
    BY <2>2 DEF PickGroup, Best, Fitting
  <2>3. CASE CheckPinned(l)
    BY <2>3, PinAssumption DEF CheckPinned
  <2>4. CASE Reserve(l)
    BY <2>4 DEF Reserve, LeavesLoop
  <2> QED  BY <2>1, <2>2, <2>3, <2>4
<1> QED  BY <1>1, <1>2, <1>3 DEF LocalsOnly

\* No load becomes the owner of an entry by these.
LEMMA NoNewOwner ==
  ASSUME LocalsOnly, NEW e \in Entries, Owned(e)'
  PROVE  Owned(e)
<1>1. PICK l \in Loads : pc'[l] \in Loading /\ target'[l] = e
  BY DEF Owned
<1>2. Stays(l) \/ Searches(l)
  BY <1>1 DEF LocalsOnly, Stops
<1>3. pc[l] \in Loading /\ target[l] = e
  <2>1. CASE Stays(l)
    BY <1>1, <2>1 DEF Stays
  <2>2. CASE Searches(l)
    BY <1>1, <2>2 DEF Searches
  <2> QED  BY <1>2, <2>1, <2>2
<1> QED  BY <1>3 DEF Owned

LEMMA EndingSteps ==
  ASSUME EntriesTyped, LocalsTyped, PlacementInv, NEW l \in Loads,
         GiveUp(l) \/ LaunchFails(l) \/ HealthOk(l) \/ HealthFails(l)
  PROVE  LocalsOnly /\ NoneOwned
<1>1. PICK from : Ends(l, from)
  BY DEF GiveUp, LaunchFails, HealthOk, HealthFails
<1>2. /\ LocalsOnly /\ \A k \in Loads \ {l} : Stays(k)
      /\ pc[l] = from /\ pc'[l] = "idle"
  BY <1>1, EndsStops DEF Ends, Moves, LocalsTyped
<1>3. from \in Loading
  BY <1>1 DEF GiveUp, LaunchFails, HealthOk, HealthFails, Ends, Moves, LocalsTyped, Loading, Assigning
<1>4. PICK e \in Entries : e = target[l]
  BY <1>2, <1>3 DEF PlacementInv, HasTarget
<1>5. ASSUME e \notin robbed, Owned(e)' PROVE FALSE
  <2>1. PICK k \in Loads : pc'[k] \in Loading /\ target'[k] = e
    BY <1>5 DEF Owned
  <2>2. k # l
    BY <1>2, <2>1 DEF Loading, Assigning
  <2>3. pc[k] \in Loading /\ target[k] = e
    BY <1>2, <2>1, <2>2 DEF Stays
  <2> QED  BY <1>2, <1>3, <1>4, <1>5, <2>2, <2>3 DEF PlacementInv, OwnsEntry
<1>6. \A x \in Entries \ {e} : state'[x] = state[x] /\ grp'[x] = grp[x] /\ eng'[x] = eng[x]
  BY <1>4 DEF EntriesTyped, GiveUp, LaunchFails, HealthOk, HealthFails
<1>7. robbed' = robbed
  BY DEF GiveUp, LaunchFails, HealthOk, HealthFails
<1>8. ASSUME e \notin robbed
      PROVE  /\ grp'[e] \in {grp[e], 0}
             /\ state'[e] = "UNLOADED" => grp'[e] = 0 /\ eng'[e] = "none"
  <2> USE DEF EntriesTyped, PlacementInv, OwnsEntry, Ends, Moves, Loading, Assigning
  <2>1. CASE GiveUp(l)
    BY <1>4, <1>8, <2>1 DEF GiveUp
  <2>2. CASE LaunchFails(l)
    BY <1>4, <1>8, <2>2 DEF LaunchFails
  <2>3. CASE HealthOk(l)
    BY <1>4, <2>3 DEF HealthOk
  <2>4. CASE HealthFails(l)
    BY <1>4, <2>4 DEF HealthFails
  <2> QED  BY <2>1, <2>2, <2>3, <2>4
<1> QED  BY <1>2, <1>4, <1>5, <1>6, <1>7, <1>8 DEF NoneOwned, Unowned

\* A visit changes only entries without an owner, or robs one: an engine that can be put
\* to sleep is not one that its load has just launched.
LEMMA VisitStep ==
  ASSUME EntriesTyped, LocalsTyped, AtGroup, PlacementInv, NEW l \in Loads, Visit(l)
  PROVE  LocalsOnly /\ NoneOwned
<1>1. LocalsOnly
  BY VisitWays, EndsStops, ContinuesSearches, StaysSearches DEF GoesOn
<1>2. \A x \in Entries \ robbed : Owned(x) => state[x] = "LOADING" /\ eng[x] \in {"none", "starting"}
  BY DEF PlacementInv, OwnsEntry, Owned
<1>3. ASSUME UNCHANGED entries PROVE NoneOwned
  BY <1>3 DEF entries, NoneOwned, Unowned
<1>4. ASSUME NEW d \in Entries, Serves(d), UNCHANGED <<grp, robbed>>,
             NEW s, state' = [state EXCEPT ![d] = s], s # "UNLOADED",
             NEW g, eng' = [eng EXCEPT ![d] = g]
      PROVE  NoneOwned
  BY <1>1, <1>2, <1>4, NoNewOwner DEF Serves, EntriesTyped, NoneOwned, Unowned
<1>5. ASSUME NEW e \in Entries, PassOver(l, e) \/ VisitToSleep(l, e) PROVE NoneOwned
  BY <1>3, <1>5 DEF PassOver, VisitToSleep
<1>6. ASSUME NEW e \in Entries, VisitToKill(l, e) PROVE NoneOwned
  BY <1>1, <1>2, <1>6, NoNewOwner DEF VisitToKill, EntriesTyped, NoneOwned, Unowned
<1>7. ASSUME NEW d \in Entries, Demote(l, d) \/ DemoteFails(l, d) \/ DemoteNil(l, d)
      PROVE  NoneOwned
  <2>1. CASE Demote(l, d)
    BY <1>4, <2>1 DEF Demote
  <2>2. CASE DemoteFails(l, d) \/ DemoteNil(l, d)
    BY <1>3, <2>2 DEF DemoteFails, DemoteNil
  <2> QED  BY <1>7, <2>1, <2>2
<1>8. CASE Sleep(l)
  <2> DEFINE e == victim[l]
             s == IF rule[l] = 1 THEN "SLEEP1" ELSE "SLEEP2"
             g == IF rule[l] = 3 THEN "sleep2" ELSE IF eng[e] = "up" THEN "sleep1" ELSE eng[e]
  <2>1. e \in Entries
    BY <1>8 DEF Sleep, PlacementInv, VictimIsOther
  <2>2. /\ Serves(e) /\ UNCHANGED <<grp, robbed>>
        /\ state' = [state EXCEPT ![e] = s] /\ eng' = [eng EXCEPT ![e] = g]
    BY <1>8 DEF Sleep
  <2>3. s # "UNLOADED"
    OBVIOUS
  <2> HIDE DEF e, s, g
  <2>4. NoneOwned
    BY <1>4, <2>1, <2>2, <2>3
  <2> QED  BY <1>1, <2>4
<1>9. CASE SleepFails(l) \/ SleepNil(l)
  BY <1>1, <1>3, <1>9 DEF SleepFails, SleepNil
<1> QED  BY <1>1, <1>5, <1>6, <1>7, <1>8, <1>9 DEF Visit

\* So does whatever else happens to an entry.
LEMMA OtherStep ==
  ASSUME EntriesTyped, PlacementInv, NEW e \in Entries,
         FallsAsleep(e) \/ WakesUp(e) \/ Unloads(e)
  PROVE  LocalsOnly /\ NoneOwned
<1>1. LocalsOnly
  BY DEF FallsAsleep, WakesUp, Unloads, Others, loop, visit, LocalsOnly, Stays
<1>2. e \notin robbed => ~Owned(e)
  BY DEF PlacementInv, OwnsEntry, Owned, FallsAsleep, WakesUp, Unloads, Serving
<1>3. e \notin robbed => ~Owned(e)'
  BY <1>1, <1>2, NoNewOwner
<1>4. robbed' = robbed
  BY DEF FallsAsleep, WakesUp, Unloads, Others
<1>5. \A x \in Entries \ {e} : state'[x] = state[x] /\ grp'[x] = grp[x] /\ eng'[x] = eng[x]
  BY DEF FallsAsleep, WakesUp, Unloads, EntriesTyped
<1>6. /\ grp'[e] \in {grp[e], 0}
      /\ state'[e] = "UNLOADED" => grp'[e] = 0 /\ eng'[e] = "none"
  BY DEF FallsAsleep, WakesUp, Unloads, EntriesTyped
<1> QED  BY <1>1, <1>3, <1>4, <1>5, <1>6 DEF NoneOwned, Unowned

\* A claim takes an entry that has no owner.
LEMMA ClaimStep ==
  ASSUME EntriesTyped, LocalsTyped, PlacementInv, NEW l \in Loads, NEW e \in Entries, Claim(l, e)
  PROVE  PlacementInv'
<1> USE DEF PlacementInv, Claim, Moves, LocalsTyped, EntriesTyped, Loading, Assigning, Evicting, visit
<1>1. HasTarget'
  BY DEF HasTarget
<1>2. OwnsEntry'
  <2>1. e \notin robbed => \A k \in Loads : ~(pc[k] \in Loading /\ target[k] = e)
    BY DEF OwnsEntry
  <2>2. e \notin robbed => grp[e] = 0 /\ eng[e] = "none"
    BY DEF UnloadedIsBare
  <2> QED  BY <2>1, <2>2 DEF OwnsEntry
<1>3. UnloadedIsBare'
  BY DEF UnloadedIsBare
<1>4. HoldsLock'
  BY DEF HoldsLock
<1>5. ExcludesSiblings'
  BY DEF ExcludesSiblings
<1>6. AtCandidate'
  BY DEF AtCandidate
<1>9. VictimIsOther'
  BY DEF VictimIsOther
<1>7. ReplicasApart'
  BY DEF ReplicasApart
<1> QED  BY <1>1, <1>2, <1>3, <1>4, <1>5, <1>6, <1>7, <1>9

\* assignMu is taken only when no sibling's load holds it.
LEMMA LockStep ==
  ASSUME EntriesTyped, LocalsTyped, PlacementInv, NEW l \in Loads, Lock(l)
  PROVE  PlacementInv'
<1> USE DEF PlacementInv, Lock, Moves, LocalsTyped, entries, Loading, Assigning, Evicting, visit
<1>1. HasTarget'
  BY DEF HasTarget
<1>2. OwnsEntry'
  BY DEF OwnsEntry
<1>3. UnloadedIsBare'
  BY DEF UnloadedIsBare
<1>4. HoldsLock'
  <2>1. target[l] \in Entries
    BY DEF HasTarget
  <2>2. \A k \in Loads : pc[k] \in Assigning /\ Replicated(target[k])
          => ~(Replicated(target[l]) /\ ModelOf[target[k]] = ModelOf[target[l]])
    BY NoneAssumption DEF HoldsLock, AssignMuFree
  <2>3. \A k \in Loads : pc[k] \in Assigning => target[k] \in Entries
    BY DEF HasTarget
  <2> QED  BY <2>1, <2>2, <2>3 DEF HoldsLock, Models
<1>5. ExcludesSiblings'
  BY DEF ExcludesSiblings
<1>6. AtCandidate'
  BY DEF AtCandidate
<1>9. VictimIsOther'
  BY DEF VictimIsOther
<1>7. ReplicasApart'
  BY DEF ReplicasApart
<1> QED  BY <1>1, <1>2, <1>3, <1>4, <1>5, <1>6, <1>7, <1>9

\* Siblings are siblings of each other.
LEMMA SiblingsMutual ==
  ASSUME NEW e \in Entries, NEW f \in Siblings(e)
  PROVE  f \in Entries /\ f # e /\ e \in Siblings(f) /\ Replicated(e) /\ Replicated(f)
         /\ ModelOf[f] = ModelOf[e]
  BY DEF Siblings, Replicated

\* The recorded group is no sibling's, and no other load of the model is choosing.
LEMMA RecordStep ==
  ASSUME EntriesTyped, LocalsTyped, AtGroup, PlacementInv, NEW l \in Loads, Record(l)
  PROVE  PlacementInv'
<1> USE DEF PlacementInv, Record, Moves, LeavesLoop, LeavesVisit, Unlock, LocalsTyped,
            EntriesTyped, Loading, Assigning, Evicting
<1>0. target[l] \in Entries
  BY DEF HasTarget
<1>1. HasTarget'
  BY DEF HasTarget
<1>2. OwnsEntry'
  BY DEF OwnsEntry
<1>3. UnloadedIsBare'
  BY DEF UnloadedIsBare, OwnsEntry
<1>4. HoldsLock'
  <2>1. \A k \in Loads : pc[k] \in Assigning => ModelOf[target[k]] \in Models
    BY DEF HasTarget, Models
  <2> QED  BY <2>1 DEF HoldsLock
<1>5. ExcludesSiblings'
  <2> SUFFICES ASSUME NEW k \in Loads, pc'[k] \in Assigning,
                      NEW f \in Siblings(target[k]) \ robbed
               PROVE  grp'[f] \in excl'[k] \union {0}
    BY DEF ExcludesSiblings
  <2>1. k # l /\ pc[k] \in Assigning /\ excl'[k] = excl[k] /\ target[k] \in Entries
    BY DEF HasTarget
  <2>2. grp[f] \in excl[k] \union {0}
    BY <2>1 DEF ExcludesSiblings
  <2>3. f # target[l]
    BY <2>1, SiblingsMutual DEF HoldsLock
  <2> QED  BY <2>1, <2>2, <2>3, SiblingsMutual
<1>6. AtCandidate'
  BY DEF AtCandidate
<1>9. VictimIsOther'
  BY DEF VictimIsOther
<1>7. ReplicasApart'
  <2> SUFFICES ASSUME NEW e \in Entries, NEW f \in Siblings(e),
                      grp'[e] # 0, grp'[e] = grp'[f], {e, f} \intersect robbed = {}
               PROVE  FALSE
    BY DEF ReplicasApart
  <2>1. f \in Entries /\ f # e /\ e \in Siblings(f) /\ Replicated(e) /\ Replicated(f)
    BY SiblingsMutual
  <2>2. CASE target[l] \notin {e, f}
    BY <2>1, <2>2 DEF ReplicasApart
  <2>3. \A x \in Siblings(target[l]) \ robbed : grp[x] # at[l]
    BY <1>0, SiblingsMutual, GroupsAssumption DEF ExcludesSiblings, AtCandidate, Groups
  <2>4. CASE target[l] = e
    BY <2>1, <2>3, <2>4
  <2>5. CASE target[l] = f
    BY <2>1, <2>3, <2>5
  <2> QED  BY <2>2, <2>4, <2>5
<1> QED  BY <1>1, <1>2, <1>3, <1>4, <1>5, <1>6, <1>7, <1>9

\* registerModel writes the group that was recorded, unless the entry was robbed.
LEMMA LaunchStep ==
  ASSUME EntriesTyped, LocalsTyped, AtGroup, PlacementInv, NEW l \in Loads, Launch(l)
  PROVE  PlacementInv'
<1> USE DEF PlacementInv, Launch, Moves, LocalsTyped, EntriesTyped, Loading, Assigning, Evicting, visit
<1>0. target[l] \in Entries
  BY DEF HasTarget
<1>1. HasTarget'
  BY DEF HasTarget
<1>2. OwnsEntry'
  BY DEF OwnsEntry
<1>3. UnloadedIsBare'
  BY DEF UnloadedIsBare, OwnsEntry
<1>4. HoldsLock'
  BY DEF HoldsLock
<1>8. \A f \in Entries \ robbed : Replicated(f) => grp'[f] = grp[f]
  BY <1>0, PinAssumption DEF OwnsEntry
<1>5. ExcludesSiblings'
  <2> SUFFICES ASSUME NEW k \in Loads, pc'[k] \in Assigning,
                      NEW f \in Siblings(target[k]) \ robbed
               PROVE  grp'[f] \in excl'[k] \union {0}
    BY DEF ExcludesSiblings
  <2>1. pc[k] \in Assigning /\ target[k] \in Entries
    BY DEF HasTarget
  <2> QED  BY <1>8, <2>1, SiblingsMutual DEF ExcludesSiblings
<1>6. AtCandidate'
  BY DEF AtCandidate
<1>9. VictimIsOther'
  BY DEF VictimIsOther
<1>7. ReplicasApart'
  <2> SUFFICES ASSUME NEW e \in Entries, NEW f \in Siblings(e),
                      grp'[e] # 0, grp'[e] = grp'[f], {e, f} \intersect robbed = {}
               PROVE  FALSE
    BY DEF ReplicasApart
  <2> QED  BY <1>8, SiblingsMutual DEF ReplicasApart
<1> QED  BY <1>1, <1>2, <1>3, <1>4, <1>5, <1>6, <1>7, <1>9

LEMMA PlacementInit == Init => PlacementInv
  BY DEF Init, PlacementInv, HasTarget, OwnsEntry, UnloadedIsBare, HoldsLock,
         ExcludesSiblings, AtCandidate, VictimIsOther, ReplicasApart, Loading, Assigning, Evicting

\* The placement invariant is inductive.
LEMMA PlacementStep ==
  ASSUME EntriesTyped, LocalsTyped, AtGroup, PlacementInv, [Next]_vars
  PROVE  PlacementInv'
<1>1. ASSUME NEW l \in Loads,
             (\E e \in Entries : Claim(l, e)) \/ Lock(l) \/ Record(l) \/ Launch(l)
      PROVE  PlacementInv'
  BY <1>1, ClaimStep, LockStep, RecordStep, LaunchStep
<1>2. UNCHANGED entries => NoneOwned
  BY DEF entries, NoneOwned, Unowned
<1>3. ASSUME NEW l \in Loads,
             \/ TryGroup(l) \/ PickGroup(l) \/ CheckPinned(l) \/ Reserve(l)
             \/ List(l) \/ Visit(l)
             \/ GiveUp(l) \/ LaunchFails(l) \/ HealthOk(l) \/ HealthFails(l)
      PROVE  PlacementInv'
  <2>1. CASE TryGroup(l) \/ PickGroup(l) \/ CheckPinned(l) \/ Reserve(l)
    BY <1>2, <2>1, SearchSteps, SearchKeepsPlacement
  <2>2. CASE List(l)
    <3>1. UNCHANGED entries
      BY <2>2 DEF List
    <3> QED  BY <1>2, <2>2, <3>1, ListGoesOn, ContinuesSearches, SearchKeepsPlacement DEF GoesOn
  <2>3. CASE Visit(l)
    BY <2>3, VisitStep, SearchKeepsPlacement
  <2>4. CASE GiveUp(l) \/ LaunchFails(l) \/ HealthOk(l) \/ HealthFails(l)
    BY <2>4, EndingSteps, SearchKeepsPlacement
  <2> QED  BY <1>3, <2>1, <2>2, <2>3, <2>4
<1>4. ASSUME NEW e \in Entries, FallsAsleep(e) \/ WakesUp(e) \/ Unloads(e)
      PROVE  PlacementInv'
  BY <1>4, OtherStep, SearchKeepsPlacement
<1>5. CASE (\E e \in Entries : Hangs(e)) \/ UNCHANGED vars
  <2>1. LocalsOnly
    BY <1>5 DEF Hangs, Others, vars, loop, visit, LocalsOnly, Stays
  <2>2. NoneOwned
    BY <1>5 DEF Hangs, Others, vars, entries, NoneOwned, Unowned
  <2> QED  BY <2>1, <2>2, SearchKeepsPlacement
<1> QED  BY <1>1, <1>3, <1>4, <1>5 DEF Next, Load

LEMMA PlacementHolds == Spec => []PlacementInv
<1>1. EntriesTyped /\ LocalsTyped /\ AtGroup /\ PlacementInv /\ [Next]_vars => PlacementInv'
  BY PlacementStep
<1> QED  BY <1>1, PlacementInit, TypesHold, PTL DEF Spec

\* ReplicasApart, siblingGroups and assignMu: no interleaving of loads, evictions and
\* unloads puts two replicas of a model on one group.
THEOREM SchedulerReplicasApart == Spec => []ReplicasApart
<1>1. PlacementInv => ReplicasApart
  BY DEF PlacementInv
<1> QED  BY <1>1, PlacementHolds, PTL

\* What a step may do to the siblings of an evicting load's entry.
Spares ==
  \A l \in Loads : (pc[l] \in {"visit", "sleep"} /\ todo'[l] # todo[l]) =>
    \A f \in Siblings(target[l]) \ robbed : state'[f] = state[f]

\* An entry that is visited is on the group at hand, and no sibling is; nor has one come
\* to be the entry whose engine is called.
LEMMA VisitSpares ==
  ASSUME EntriesTyped, LocalsTyped, AtGroup, PlacementInv, NEW l \in Loads, Visit(l),
         pc[l] \in {"visit", "sleep"}, NEW f \in Siblings(target[l]) \ robbed
  PROVE  state'[f] = state[f]
<1>1. target[l] \in Entries /\ f \in Entries /\ Replicated(target[l])
  BY SiblingsMutual DEF PlacementInv, HasTarget, Loading, Assigning
<1>2. grp[f] # at[l]
  BY <1>1, GroupsAssumption
     DEF PlacementInv, ExcludesSiblings, AtCandidate, Evicting, Assigning, Groups
<1>3. ASSUME NEW e \in Entries, PassOver(l, e) \/ VisitToSleep(l, e) \/ VisitToKill(l, e)
      PROVE  state'[f] = state[f]
  BY <1>1, <1>2, <1>3 DEF PassOver, VisitToSleep, VisitToKill, entries, EntriesTyped
<1>4. \A d \in Entries : ~(Demote(l, d) \/ DemoteFails(l, d) \/ DemoteNil(l, d))
  BY DEF Demote, DemoteFails, DemoteNil, Demotes
<1>5. CASE Sleep(l)
  BY <1>1, <1>5 DEF Sleep, PlacementInv, VictimIsOther, EntriesTyped
<1>6. CASE SleepFails(l) \/ SleepNil(l)
  BY <1>6 DEF SleepFails, SleepNil, entries
<1> QED  BY <1>3, <1>4, <1>5, <1>6 DEF Visit

\* Only a load's own visits take an entry off its list there.
LEMMA SparesStep ==
  ASSUME EntriesTyped, LocalsTyped, AtGroup, PlacementInv, [Next]_vars
  PROVE  Spares
<1> SUFFICES ASSUME NEW l \in Loads, pc[l] \in {"visit", "sleep"}, todo'[l] # todo[l],
                    NEW f \in Siblings(target[l]) \ robbed
             PROVE  state'[f] = state[f]
  BY DEF Spares
<1> USE DEF LocalsTyped, Moves, LeavesLoop, loop
<1>1. ASSUME NEW k \in Loads, (\E e \in Entries : Claim(k, e)) \/ Lock(k) \/ Load(k)
      PROVE  k = l /\ Visit(k)
  <2>1. CASE k # l
    <3>1. todo' = todo \/ \E rest : todo' = [todo EXCEPT ![k] = rest]
      <4>1. CASE List(k) \/ Visit(k)
        <5>1. PanicsThere(k) \/ GoesOn(k) \/ StaysThere(k)
          BY <4>1, VisitWays, ListGoesOn
        <5> QED  BY <5>1 DEF PanicsThere, Panics, GoesOn, Continues, Returns, StaysThere
      <4>3. CASE (\E e \in Entries : Claim(k, e)) \/ Lock(k) \/ TryGroup(k) \/ PickGroup(k)
                   \/ CheckPinned(k) \/ Launch(k)
        BY <4>3 DEF Claim, Lock, TryGroup, PickGroup, CheckPinned, Launch
      <4>4. CASE GiveUp(k) \/ Record(k) \/ Reserve(k) \/ LaunchFails(k) \/ HealthOk(k) \/ HealthFails(k)
        BY <4>4 DEF GiveUp, Record, Reserve, LaunchFails, HealthOk, HealthFails, Ends
      <4> QED  BY <1>1, <4>1, <4>3, <4>4 DEF Load
    <3> QED  BY <2>1, <3>1
  <2>2. CASE k = l
    <3>1. ~((\E e \in Entries : Claim(k, e)) \/ Lock(k) \/ TryGroup(k) \/ PickGroup(k))
      BY <2>2 DEF Claim, Lock, TryGroup, PickGroup
    <3>2. ~(GiveUp(k) \/ Record(k) \/ CheckPinned(k) \/ Reserve(k) \/ Launch(k))
      BY <2>2 DEF GiveUp, Record, CheckPinned, Reserve, Launch, Ends
    <3>3. ~(LaunchFails(k) \/ HealthOk(k) \/ HealthFails(k))
      BY <2>2 DEF LaunchFails, HealthOk, HealthFails, Ends
    <3>4. ~List(k)
      BY <2>2 DEF List, Continues, Returns
    <3> QED  BY <1>1, <2>2, <3>1, <3>2, <3>3, <3>4 DEF Load
  <2> QED  BY <2>1, <2>2
<1>2. ~\E e \in Entries : FallsAsleep(e) \/ WakesUp(e) \/ Unloads(e) \/ Hangs(e)
  BY DEF FallsAsleep, WakesUp, Unloads, Hangs, Others
<1>3. ~UNCHANGED vars
  BY DEF vars
<1>4. Visit(l)
  BY <1>1, <1>2, <1>3 DEF Next
<1> HIDE DEF LocalsTyped
<1> QED  BY <1>4, VisitSpares

\* SiblingsSpared: the rules of freeMemoryRules, at work for a replica, leave its siblings
\* alone.  (freeCPURam does not: ActiveSiblingsSpared is refuted by TLC.)
THEOREM SchedulerSiblingsSpared == Spec => SiblingsSpared
<1>1. EntriesTyped /\ LocalsTyped /\ AtGroup /\ PlacementInv /\ [Next]_vars => [Spares]_vars
  BY SparesStep
<1>2. SiblingsSpared <=> [][Spares]_vars
  BY PTL DEF SiblingsSpared, Spares
<1> QED  BY <1>1, <1>2, TypesHold, PlacementHolds, PTL DEF Spec
-----------------------------------------------------------------------------
(* assignMu *)

\* What a step may do to the locks: each is kept, by a load that stays or goes on with
\* its search, or is let go of.
LocksKept ==
  \A m \in Models : lock'[m] # None =>
    lock'[m] = lock[m] /\ (Stays(lock[m]) \/ Searches(lock[m]))

LEMMA KeptLocksInUse ==
  ASSUME LocalsTyped, PlacementInv, AssignMuHeldToAssign, LocksKept
  PROVE  AssignMuHeldToAssign'
<1> SUFFICES ASSUME NEW m \in Models, lock'[m] # None
             PROVE  LET l == lock'[m] IN
                    pc'[l] \in Assigning /\ Replicated(target'[l]) /\ ModelOf[target'[l]] = m
  BY DEF AssignMuHeldToAssign
<1>1. PICK l \in Loads : l = lock[m] /\ l = lock'[m] /\ (Stays(l) \/ Searches(l))
  BY DEF LocksKept, LocalsTyped
<1>2. pc[l] \in Assigning /\ Replicated(target[l]) /\ ModelOf[target[l]] = m
  BY <1>1 DEF AssignMuHeldToAssign, LocksKept
<1>3. CASE Stays(l)
  BY <1>1, <1>2, <1>3 DEF Stays
<1>4. CASE Searches(l)
  <2>1. Pin[target[l]] = 0
    BY <1>2, PinAssumption DEF PlacementInv, HasTarget, Loading
  <2>2. pc'[l] \in Assigning /\ target'[l] = target[l]
    BY <1>4, <2>1 DEF Searches, Loading
  <2> QED  BY <1>1, <1>2, <2>2
<1> QED  BY <1>1, <1>3, <1>4

\* A search that leaves the locks alone, and a load that lets go of its own.
LEMMA SearchKeepsLocks ==
  ASSUME LocalsTyped, AssignMuHeldToAssign, LocalsOnly,
         \A m \in Models : lock'[m] # None => lock'[m] = lock[m] /\ ~Stops(lock[m])
  PROVE  LocksKept
  BY DEF LocksKept, LocalsOnly, LocalsTyped

LEMMA EndsKeepsLocks ==
  ASSUME LocalsTyped, AssignMuHeldToAssign, NEW l \in Loads,
         PanicsThere(l) \/ (\E from : Ends(l, from)) \/ Record(l)
  PROVE  LocksKept
<1>1. \A m \in Models : lock'[m] = IF lock[m] = l THEN None ELSE lock[m]
  BY DEF PanicsThere, Panics, Ends, Record, Unlock
<1>2. \A k \in Loads \ {l} : Stays(k)
  BY DEF PanicsThere, Panics, Ends, Record, LeavesLoop, LeavesVisit, Moves, Stays, LocalsTyped
<1> QED  BY <1>1, <1>2 DEF LocksKept, LocalsTyped

\* A step of the search does not stop its load.
LEMMA SearchingGoesOn ==
  ASSUME LocalsTyped, NEW l \in Loads,
         \/ TryGroup(l) \/ PickGroup(l) \/ CheckPinned(l) \/ Reserve(l)
         \/ GoesOn(l) \/ StaysThere(l)
  PROVE  lock' = lock /\ pc'[l] \in Loading /\ \A k \in Loads \ {l} : pc'[k] = pc[k]
<1> USE DEF LocalsTyped, Moves, Loading, Assigning, loop, visit
<1>1. CASE TryGroup(l)
  BY <1>1 DEF TryGroup
<1>2. CASE PickGroup(l)
  BY <1>2 DEF PickGroup
<1>3. CASE CheckPinned(l) \/ Reserve(l)
  BY <1>3 DEF CheckPinned, Reserve
<1>4. ASSUME NEW from, NEW enough, NEW rest, Continues(l, from, enough, rest)
      PROVE  lock' = lock /\ pc'[l] \in Loading /\ \A k \in Loads \ {l} : pc'[k] = pc[k]
  <2>1. ReturnsTo(l, enough) \in {"reserve", "record", "group"}
    BY DEF ReturnsTo
  <2>2. CASE Returns(l, from, enough)
    BY <1>4, <2>1, <2>2 DEF Continues, Returns
  <2>3. CASE ~Returns(l, from, enough)
    BY <1>4, <2>3 DEF Continues
  <2> QED  BY <2>2, <2>3
<1>5. CASE StaysThere(l)
  BY <1>5 DEF StaysThere
<1> QED  BY <1>1, <1>2, <1>3, <1>4, <1>5 DEF GoesOn

LEMMA LockUseStep ==
  ASSUME EntriesTyped, LocalsTyped, AtGroup, PlacementInv, AssignMuHeldToAssign, [Next]_vars
  PROVE  AssignMuHeldToAssign'
<1>1. ASSUME NEW l \in Loads, NEW e \in Entries, Claim(l, e) PROVE AssignMuHeldToAssign'
  <2>1. \A m \in Models : lock[m] # l
    BY <1>1, NoneAssumption DEF Claim, Moves, AssignMuHeldToAssign, LocalsTyped, Loading, Assigning
  <2>2. lock' = lock /\ \A k \in Loads \ {l} : pc'[k] = pc[k] /\ target'[k] = target[k]
    BY <1>1 DEF Claim, Moves, LocalsTyped
  <2> QED  BY <2>1, <2>2 DEF AssignMuHeldToAssign, LocalsTyped
<1>2. ASSUME NEW l \in Loads, Lock(l) PROVE AssignMuHeldToAssign'
  <2>1. \A m \in Models : lock[m] # l
    BY <1>2, NoneAssumption DEF Lock, Moves, AssignMuHeldToAssign, LocalsTyped, Assigning
  <2>2. /\ pc'[l] = "group" /\ target' = target
        /\ \A k \in Loads \ {l} : pc'[k] = pc[k]
        /\ \A m \in Models : lock'[m] = IF Replicated(target[l]) /\ m = ModelOf[target[l]]
                                          THEN l ELSE lock[m]
    BY <1>2 DEF Lock, Moves, LocalsTyped
  <2> SUFFICES ASSUME NEW m \in Models, lock'[m] # None
               PROVE  LET k == lock'[m] IN
                      pc'[k] \in Assigning /\ Replicated(target'[k]) /\ ModelOf[target'[k]] = m
    BY DEF AssignMuHeldToAssign
  <2>3. CASE lock'[m] = l
    BY <2>1, <2>2, <2>3 DEF Assigning
  <2>4. CASE lock'[m] # l
    <3>1. lock'[m] = lock[m] /\ lock[m] \in Loads \ {l}
      BY <2>2, <2>4 DEF LocalsTyped
    <3> QED  BY <2>2, <3>1 DEF AssignMuHeldToAssign
  <2> QED  BY <2>3, <2>4
<1>3. ASSUME NEW l \in Loads,
             \/ Record(l) \/ PanicsThere(l)
             \/ GiveUp(l) \/ LaunchFails(l) \/ HealthOk(l) \/ HealthFails(l)
      PROVE  AssignMuHeldToAssign'
  BY <1>3, EndsKeepsLocks, KeptLocksInUse DEF GiveUp, LaunchFails, HealthOk, HealthFails
<1>4. ASSUME NEW l \in Loads,
             \/ TryGroup(l) \/ PickGroup(l) \/ CheckPinned(l) \/ Reserve(l)
             \/ GoesOn(l) \/ (Visit(l) /\ StaysThere(l))
      PROVE  AssignMuHeldToAssign'
  <2>1. LocalsOnly
    BY <1>4, SearchSteps, ContinuesSearches, StaysSearches DEF GoesOn
  <2>2. lock' = lock /\ pc'[l] \in Loading /\ \A k \in Loads \ {l} : pc'[k] = pc[k]
    BY <1>4, SearchingGoesOn
  <2>3. \A m \in Models : lock[m] # None => ~Stops(lock[m])
    BY <2>2 DEF AssignMuHeldToAssign, LocalsTyped, Stops, Loading
  <2> QED  BY <2>1, <2>2, <2>3, SearchKeepsLocks, KeptLocksInUse
<1>5. ASSUME NEW l \in Loads, List(l) \/ Visit(l) PROVE AssignMuHeldToAssign'
  <2>1. PanicsThere(l) \/ GoesOn(l) \/ (Visit(l) /\ StaysThere(l))
    BY <1>5, VisitWays, ListGoesOn
  <2>2. CASE PanicsThere(l)
    BY <1>3, <2>2
  <2>3. CASE GoesOn(l) \/ (Visit(l) /\ StaysThere(l))
    BY <1>4, <2>3
  <2> QED  BY <2>1, <2>2, <2>3
<1>6. ASSUME NEW l \in Loads, Launch(l) PROVE AssignMuHeldToAssign'
  <2>1. \A m \in Models : lock[m] # l
    BY <1>6, NoneAssumption DEF Launch, Moves, AssignMuHeldToAssign, LocalsTyped, Assigning
  <2>2. lock' = lock /\ target' = target /\ \A k \in Loads \ {l} : pc'[k] = pc[k]
    BY <1>6 DEF Launch, Moves, LocalsTyped
  <2> QED  BY <2>1, <2>2 DEF AssignMuHeldToAssign, LocalsTyped
<1>7. CASE \/ \E e \in Entries : FallsAsleep(e) \/ WakesUp(e) \/ Unloads(e) \/ Hangs(e)
           \/ UNCHANGED vars
  <2>1. UNCHANGED <<lock, pc, target>>
    BY <1>7 DEF FallsAsleep, WakesUp, Unloads, Hangs, Others, vars
  <2> QED  BY <2>1 DEF AssignMuHeldToAssign
<1> QED  BY <1>1, <1>2, <1>3, <1>4, <1>5, <1>6, <1>7 DEF Next, Load

\* AssignMuHeldToAssign, the deferred unlock of assignGroup: however many replicas load
\* at once, and whatever their evictions meet, nobody waits for a load that waits.
THEOREM SchedulerAssignMu == Spec => []AssignMuHeldToAssign
<1>1. Init => AssignMuHeldToAssign
  BY DEF Init, AssignMuHeldToAssign
<1>2. EntriesTyped /\ LocalsTyped /\ AtGroup /\ PlacementInv /\ AssignMuHeldToAssign /\ [Next]_vars
        => AssignMuHeldToAssign'
  BY LockUseStep
<1> QED  BY <1>1, <1>2, TypesHold, PlacementHolds, PTL DEF Spec
=============================================================================
