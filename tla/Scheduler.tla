----------------------------- MODULE Scheduler -----------------------------
(***************************************************************************)
(* assignGroup and the eviction rules of scheduler.go over the VRAM        *)
(* figures of memory.go: several entries, some of them replicas of one     *)
(* model, several GPU groups, and loads that run at the same time.         *)
(*                                                                         *)
(* A load is a goroutine in the UNLOADED case of handleRequest.  Between   *)
(* two of its steps every other load goes on, and the entries go to sleep, *)
(* wake and unload.  The list of a rule, the visit that reads an entry,    *)
(* the visits of freeCPURam on its own list and the call that puts an      *)
(* engine to sleep are separate steps, so a list and what was read may be  *)
(* stale; a call and the write that follows it are one (ModelEntryEviction *)
(* takes them apart, for one entry).  Request counts and CPU RAM are left  *)
(* open: whatever depends on them goes either way.                         *)
(***************************************************************************)
EXTENDS Integers, FiniteSets, FiniteSetsExt

CONSTANTS
  Entries,     \* the entries of o.models
  ModelOf,     \* the model (replicaSet) of each
  LlamaCpp,    \* those whose engine is llama.cpp
  NumGroups,   \* len(ms.groups), in the order of the configuration
  Total,       \* measuredTotalVRAMMB of each group
  Full,        \* VRAM each entry's engine takes (fullKVVRAMMB once measured)
  Weights,     \* the part of it that sleep level 1 moves to CPU RAM
  Allocation,  \* cfg.VRAMAllocationMB, 0 if not set
  Pin,         \* index of cfg.GPUGroup, 0 if not pinned
  Loads,       \* goroutines that load an entry
  MayHang,     \* bound: the entries whose engine may stop answering
  None,        \* no load, no entry
  ReclaimRobbed  \* FALSE bounds the states: an entry that was released under its
                 \* loader is not claimed a second time

Groups == 1..NumGroups
Models == {ModelOf[e] : e \in Entries}
Siblings(e) == {f \in Entries \ {e} : ModelOf[f] = ModelOf[e]}
Replicated(e) == Siblings(e) # {}

ASSUME NoneAssumption == None \notin Entries \union Loads
ASSUME ReclaimAssumption == ReclaimRobbed \in BOOLEAN
ASSUME MayHangAssumption == MayHang \subseteq Entries
ASSUME GroupsAssumption == NumGroups \in Nat \ {0}
ASSUME SizesAssumption ==
  /\ Total \in [Groups -> Nat]
  /\ Full \in [Entries -> Nat] /\ Weights \in [Entries -> Nat]
  /\ Allocation \in [Entries -> Int]  \* validateConfig does not look at vram_allocation
ASSUME ModelsAssumption == ModelOf = [e \in Entries |-> ModelOf[e]] /\ LlamaCpp \subseteq Entries
\* validateConfig refuses replicas > 1 together with gpu_group.
ASSUME PinAssumption ==
  Pin \in [Entries -> 0..NumGroups] /\ \A e \in Entries : Pin[e] # 0 => ~Replicated(e)

VARIABLES
  \* modelEntry
  state,     \* me.state
  grp,       \* me.assignedGroupIdx, 0 for -1
  eng,       \* the engine at me.proc, "none" for nil
  hung,      \* entries whose engine accepts calls and answers none
  measured,  \* me.mem.measured
  robbed,    \* entries that an eviction has released under their loader (history)
  lock,      \* who holds assignMu of each model
  \* locals of each load
  pc, target,
  phase,     \* whose call of freeMemoryRules: "first" pass, "retry", "pinned"
  at,        \* the group it is at, in the end the one chosen
  excl,      \* exclude
  rule,      \* rule applied
  todo,      \* listed entries still to visit
  victim,    \* the entry that rule 1 or 3 is putting to sleep
  live,      \* the process it has read is not nil
  cpu        \* entries that freeCPURam has listed and not visited

entries == <<state, grp, eng, hung, measured, robbed>>
visit == <<victim, live, cpu>>
loop == <<phase, at, excl, rule, todo, visit>>
vars == <<entries, lock, pc, target, loop>>

Serving == {"ACTIVE", "SLEEP1", "SLEEP2"}
States == {"UNLOADED", "LOADING"} \union Serving
EngineStates == {"none", "starting", "up", "sleep1", "sleep2"}
Assigning == {"group", "list", "visit", "demote", "sleep", "record"}
Loading == Assigning \union {"lock", "pinned", "reserve", "launch", "health"}

SchedulerTypeOK ==
  /\ state \in [Entries -> States]
  /\ grp \in [Entries -> 0..NumGroups]
  /\ eng \in [Entries -> EngineStates]
  /\ hung \subseteq Entries
  /\ measured \in [Entries -> BOOLEAN]
  /\ robbed \subseteq Entries
  /\ lock \in [Models -> Loads \union {None}]
  /\ pc \in [Loads -> Loading \union {"idle", "panicked"}]
  /\ target \in [Loads -> Entries \union {None}]
  /\ phase \in [Loads -> {"first", "retry", "pinned"}]
  /\ at \in [Loads -> 0..(NumGroups + 1)]
  /\ excl \in [Loads -> SUBSET Groups]
  /\ rule \in [Loads -> 1..4]
  /\ todo \in [Loads -> SUBSET Entries]
  /\ victim \in [Loads -> Entries \union {None}]
  /\ live \in [Loads -> BOOLEAN]
  /\ cpu \in [Loads -> SUBSET Entries]

Init ==
  /\ state = [e \in Entries |-> "UNLOADED"]
  /\ grp = [e \in Entries |-> 0]
  /\ eng = [e \in Entries |-> "none"]
  /\ hung = {}
  /\ measured = [e \in Entries |-> FALSE]
  /\ robbed = {}
  /\ lock = [m \in Models |-> None]
  /\ pc = [l \in Loads |-> "idle"]
  /\ target = [l \in Loads |-> None]
  /\ phase = [l \in Loads |-> "first"]
  /\ at = [l \in Loads |-> 0]
  /\ excl = [l \in Loads |-> {}]
  /\ rule = [l \in Loads |-> 1]
  /\ todo = [l \in Loads |-> {}]
  /\ victim = [l \in Loads |-> None]
  /\ live = [l \in Loads |-> FALSE]
  /\ cpu = [l \in Loads |-> {}]

-----------------------------------------------------------------------------
(* Memory *)

\* What an engine holds: sleep level 1 leaves the KV cache on the GPU, level 2
\* nothing, and an engine that starts allocates when it comes up.
Holds(e, s) == CASE s = "up" -> Full[e]
                 [] s = "sleep1" -> Full[e] - Weights[e]
                 [] OTHER -> 0
Held(g) == MapThenSumSet(LAMBDA e : Holds(e, eng[e]), {e \in Entries : grp[e] = g})

Measured == [g \in Groups |-> Total[g] - Held(g)]

\* Pinned loads that have just subtracted their reservation from measuredFreeMB.
Reserving == {l \in Loads : pc[l] = "launch" /\ Pin[target[l]] # 0}

\* Every reading of measuredFreeMB follows a refreshMemory of the reader, which
\* overwrites it with nvidia-smi's figures.  A reservation made before is lost; one
\* made between the two is seen.
Readings(figures) ==
  {[g \in Groups |-> figures[g]
      - MapThenSumSet(LAMBDA l : Allocation[target[l]], {l \in S : at[l] = g})]
     : S \in SUBSET Reserving}

\* The physical limit: an engine that finds no room does not come up.
HasRoom(e) ==
  grp[e] # 0 => Held(grp[e]) - Holds(e, eng[e]) + Full[e] <= Total[grp[e]]

\* The VRAM assignGroup looks for: measured, configured, or 85 % of the smallest
\* group; a pinned model's is what the configuration says.
SmallestTotal == CHOOSE t \in {Total[g] : g \in Groups} : \A g \in Groups : t <= Total[g]
Needed(e) ==
  IF Pin[e] # 0 \/ (~measured[e] /\ Allocation[e] > 0) THEN Allocation[e]
  ELSE IF measured[e] THEN Full[e] ELSE (SmallestTotal * 85) \div 100

\* The key the lists are sorted by.
SortKey(r, e) == IF ~measured[e] THEN 0 ELSE IF r = 3 THEN Weights[e] ELSE Full[e]

-----------------------------------------------------------------------------
(* A load: from the claim to the chosen group *)

Moves(l, from, to) == pc[l] = from /\ pc' = [pc EXCEPT ![l] = to]

\* The deferred unlock.
UnlockForgotten(l) == UNCHANGED lock
Unlock(l) == lock' = [m \in Models |-> IF lock[m] = l THEN None ELSE lock[m]]

\* The locals of a visit are gone.
LeavesVisit(l) ==
  /\ victim' = [victim EXCEPT ![l] = None] /\ live' = [live EXCEPT ![l] = FALSE]
  /\ cpu' = [cpu EXCEPT ![l] = {}]

\* The loops' locals are gone; the group stays.
LeavesLoop(l) ==
  /\ phase' = [phase EXCEPT ![l] = "first"] /\ excl' = [excl EXCEPT ![l] = {}]
  /\ rule' = [rule EXCEPT ![l] = 1] /\ todo' = [todo EXCEPT ![l] = {}]
  /\ LeavesVisit(l)

\* The goroutine returns, its locals are gone.
Ends(l, from) ==
  /\ Moves(l, from, "idle")
  /\ target' = [target EXCEPT ![l] = None] /\ at' = [at EXCEPT ![l] = 0]
  /\ LeavesLoop(l) /\ Unlock(l)

\* handleRequest claims the entry and calls assignGroup.
Claim(l, e) ==
  /\ state[e] = "UNLOADED" /\ (e \in robbed => ReclaimRobbed)
  /\ Moves(l, "idle", IF Pin[e] # 0 THEN "pinned" ELSE "lock")
  /\ state' = [state EXCEPT ![e] = "LOADING"]
  /\ target' = [target EXCEPT ![l] = e]
  /\ at' = [at EXCEPT ![l] = Pin[e]]
  /\ phase' = [phase EXCEPT ![l] = IF Pin[e] # 0 THEN "pinned" ELSE "first"]
  /\ UNCHANGED <<grp, eng, hung, measured, robbed, lock, excl, rule, todo, visit>>

\* Replicas take their model's assignMu, then read their siblings' groups.
AssignMuIgnored(l) == TRUE
AssignMuFree(l) == Replicated(target[l]) => lock[ModelOf[target[l]]] = None

Lock(l) ==
  LET e == target[l] IN
  /\ Moves(l, "lock", "group") /\ AssignMuFree(l)
  /\ lock' = [m \in Models |-> IF Replicated(e) /\ m = ModelOf[e] THEN l ELSE lock[m]]
  /\ excl' = [excl EXCEPT ![l] = {grp[f] : f \in Siblings(e)} \ {0}]
  /\ at' = [at EXCEPT ![l] = 1]
  /\ UNCHANGED <<entries, target, phase, rule, todo, visit>>

GroupHasOtherModels(g, e) == \E f \in Entries \ {e} : grp[f] = g

\* The groups that freeMemoryRules may be run on: the first pass asks for other
\* models there, the second does not.
CandidateWithSiblings(l, g) == Total[g] >= Needed(target[l])
Candidate(l, g) == g \notin excl[l] /\ Total[g] >= Needed(target[l])

TryGroup(l) ==
  LET g == at[l] IN
  /\ g \in Groups
  /\ IF Candidate(l, g) /\ (phase[l] = "first" => GroupHasOtherModels(g, target[l]))
       THEN Moves(l, "group", "list") /\ UNCHANGED at
       ELSE Moves(l, "group", "group") /\ at' = [at EXCEPT ![l] = g + 1]
  /\ UNCHANGED <<entries, lock, target, phase, excl, rule, todo, visit>>

\* pickGroup: of the groups with enough free VRAM, the first of the smallest.
Fitting(l, free) == {g \in Groups \ excl[l] : free[g] >= Needed(target[l])}
Best(S, g) == g \in S /\ \A h \in S : Total[g] < Total[h] \/ (Total[g] = Total[h] /\ g <= h)

PickGroup(l) == \E free \in Readings(Measured) :
  /\ phase[l] = "first" /\ at[l] = NumGroups + 1
  /\ \/ /\ Fitting(l, free) = {} /\ Moves(l, "group", "group")
        /\ at' = [at EXCEPT ![l] = 1] /\ phase' = [phase EXCEPT ![l] = "retry"]
     \/ /\ Moves(l, "group", "record") /\ UNCHANGED phase
        /\ \E g \in Groups : Best(Fitting(l, free), g) /\ at' = [at EXCEPT ![l] = g]
  /\ UNCHANGED <<entries, lock, target, excl, rule, todo, visit>>

\* The second pass has failed on every group: the load fails.
GiveUpForgotten(l) ==
  /\ phase[l] = "retry" /\ at[l] = NumGroups + 1 /\ Ends(l, "group")
  /\ UNCHANGED entries
GiveUp(l) ==
  /\ phase[l] = "retry" /\ at[l] = NumGroups + 1 /\ Ends(l, "group")
  /\ state' = [state EXCEPT ![target[l]] = "UNLOADED"]
  /\ UNCHANGED <<grp, eng, hung, measured, robbed>>

\* The group is recorded, then assignMu is released.
Record(l) ==
  /\ Moves(l, "record", "launch")
  /\ grp' = [grp EXCEPT ![target[l]] = at[l]]
  /\ Unlock(l) /\ LeavesLoop(l)
  /\ UNCHANGED <<state, eng, hung, measured, robbed, target, at>>

\* A pinned model evicts only if its group is short of room, and goes on whatever
\* freeMemoryRules returns.
CheckPinned(l) == \E free \in Readings(Measured) :
  LET e == target[l] IN
  /\ Moves(l, "pinned", IF GroupHasOtherModels(at[l], e) /\ free[at[l]] < Allocation[e]
                          THEN "list" ELSE "reserve")
  /\ UNCHANGED <<entries, lock, target, loop>>

\* The reservation is made (see Readings); the group is not recorded before the
\* engine has been launched.
Reserve(l) ==
  /\ Moves(l, "reserve", "launch")
  /\ LeavesLoop(l)
  /\ UNCHANGED <<entries, lock, target, at>>

-----------------------------------------------------------------------------
(* freeMemoryRules on the group at[l] *)

\* It returns to whoever called it.
ReturnsTo(l, enough) ==
  CASE phase[l] = "pinned" -> "reserve"
    [] phase[l] = "retry" /\ enough -> "record"
    [] OTHER -> "group"

Returns(l, from, enough) ==
  LET to == ReturnsTo(l, enough) IN
  /\ Moves(l, from, to)
  /\ at' = [at EXCEPT ![l] = IF to = "group" THEN @ + 1 ELSE @]
  /\ rule' = [rule EXCEPT ![l] = 1] /\ todo' = [todo EXCEPT ![l] = {}]

\* Enough is free; or the next listed entry, the next rule, or the end.
LastRuleOffByOne == 5
LastRule == 4
Continues(l, from, enough, rest) ==
  /\ \/ (enough \/ (rest = {} /\ rule[l] = LastRule)) /\ Returns(l, from, enough)
     \/ /\ ~enough /\ rest = {} /\ rule[l] # LastRule
        /\ Moves(l, from, "list") /\ UNCHANGED at
        /\ rule' = [rule EXCEPT ![l] = @ + 1] /\ todo' = [todo EXCEPT ![l] = {}]
     \/ /\ ~enough /\ rest # {}
        /\ Moves(l, from, "visit") /\ todo' = [todo EXCEPT ![l] = rest]
        /\ UNCHANGED <<at, rule>>
  /\ LeavesVisit(l)
  /\ UNCHANGED <<lock, target, phase, excl>>

Wanted(r) == CASE r = 1 -> "ACTIVE" [] r = 3 -> "SLEEP1" [] OTHER -> "SLEEP2"

\* activeModels lists them all, idleModels those without counted requests.
List(l) ==
  LET found == {e \in Entries : state[e] = Wanted(rule[l])} IN
  /\ \E listed \in IF rule[l] = 1 THEN {found} ELSE SUBSET found :
       Continues(l, "list", FALSE, listed)
  /\ UNCHANGED entries

\* The next listed entry, smallest first.
Visits(l, e) ==
  /\ pc[l] = "visit" /\ e \in todo[l]
  /\ \A f \in todo[l] : SortKey(rule[l], e) <= SortKey(rule[l], f)

\* The visited entry is left alone: it is on another group or, rule 1, it is a busy
\* llama.cpp model, or CPU RAM is short and freeCPURam finds nobody.
PassOver(l, e) ==
  /\ Visits(l, e)
  /\ grp[e] # at[l] \/ rule[l] = 1
  /\ Continues(l, "visit", FALSE, todo[l] \ {e})
  /\ UNCHANGED entries

\* Rules 1 and 3 read the entry's process.  Rule 1 may call freeCPURam first, which
\* lists SLEEP1 models of any group: cpu has those it will come to, until it finds
\* that enough CPU RAM is free.
VisitToSleep(l, e) ==
  /\ Visits(l, e) /\ grp[e] = at[l]
  /\ rule[l] \in {1, 3} /\ e \notin LlamaCpp
  /\ victim' = [victim EXCEPT ![l] = e]
  /\ live' = [live EXCEPT ![l] = eng[e] # "none"]
  /\ \E listed \in IF rule[l] = 1 THEN SUBSET {d \in Entries : state[d] = "SLEEP1"} ELSE {{}} :
       /\ cpu' = [cpu EXCEPT ![l] = listed]
       /\ Moves(l, "visit", IF listed = {} THEN "sleep" ELSE "demote")
  /\ UNCHANGED <<entries, lock, target, phase, at, excl, rule, todo>>

\* Whether the group has enough free VRAM by the figures after the visit.
Enough(l, free) == free[at[l]] >= Needed(target[l])

\* The handler panics on a nil process; the deferred unlock runs, nothing else.
Panics(l, from) ==
  Moves(l, from, "panicked") /\ LeavesLoop(l) /\ Unlock(l) /\ UNCHANGED <<target, at>>

\* An engine that can be put to sleep, and one whose call comes back.
Serves(e) == eng[e] \in {"up", "sleep1", "sleep2"}
Answers(e) == e \notin hung

\* freeCPURam comes to its next listed entry, smallest first.
Demotes(l, d) ==
  /\ pc[l] = "demote" /\ d \in cpu[l]
  /\ \A f \in cpu[l] : SortKey(3, d) <= SortKey(3, f)

\* After the last, rule 1 goes on to its own entry, or passes over it because CPU RAM
\* is still short.
DemoteGoesOn(l, d) ==
  \/ /\ Moves(l, "demote", IF cpu[l] = {d} THEN "sleep" ELSE "demote")
     /\ cpu' = [cpu EXCEPT ![l] = @ \ {d}]
     /\ UNCHANGED <<lock, target, phase, at, excl, rule, todo, victim, live>>
  \/ cpu[l] = {d} /\ Continues(l, "demote", FALSE, todo[l] \ {victim[l]})

\* SLEEP2 is written without looking at the entry again; or the call fails.
Demote(l, d) ==
  /\ Demotes(l, d) /\ Serves(d) /\ Answers(d)
  /\ state' = [state EXCEPT ![d] = "SLEEP2"]
  /\ eng' = [eng EXCEPT ![d] = "sleep2"]
  /\ DemoteGoesOn(l, d)
  /\ UNCHANGED <<grp, hung, measured, robbed>>

DemoteFails(l, d) ==
  /\ Demotes(l, d) /\ eng[d] # "none" /\ Answers(d)
  /\ DemoteGoesOn(l, d)
  /\ UNCHANGED entries

DemoteNil(l, d) ==
  Demotes(l, d) /\ eng[d] = "none" /\ Panics(l, "demote") /\ UNCHANGED entries

\* sleepModel of rules 1 and 3, with the process that was read: the state is written
\* without looking at the entry again.
Sleep(l) ==
  LET e == victim[l] IN
  /\ pc[l] = "sleep" /\ live[l] /\ Serves(e) /\ Answers(e)
  /\ state' = [state EXCEPT ![e] = IF rule[l] = 1 THEN "SLEEP1" ELSE "SLEEP2"]
  /\ eng' = [eng EXCEPT ![e] = IF rule[l] = 3 THEN "sleep2" ELSE IF @ = "up" THEN "sleep1" ELSE @]
  /\ UNCHANGED <<grp, hung, measured, robbed>>
  /\ \E free \in Readings(Measured') :
       Continues(l, "sleep", Enough(l, free), todo[l] \ {e})

SleepFails(l) ==
  /\ pc[l] = "sleep" /\ live[l] /\ Answers(victim[l])
  /\ Continues(l, "sleep", FALSE, todo[l] \ {victim[l]})
  /\ UNCHANGED entries

\* sleepModel(nil): the entry was released since the list was made.
SleepNil(l) == ~live[l] /\ Panics(l, "sleep") /\ UNCHANGED entries

\* Rules 2 and 4, and rule 1 at an idle llama.cpp model: the entry is released
\* whatever its state is by now, and its process is killed.  waitVRAMStable waits
\* for the VRAM to come back, or gives up before it does.
VisitToKill(l, e) ==
  /\ Visits(l, e) /\ grp[e] = at[l]
  /\ rule[l] \in {2, 4} \/ (rule[l] = 1 /\ e \in LlamaCpp)
  /\ state' = [state EXCEPT ![e] = "UNLOADED"]
  /\ grp' = [grp EXCEPT ![e] = 0]
  /\ eng' = [eng EXCEPT ![e] = "none"] /\ hung' = hung \ {e}
  /\ robbed' = IF state[e] = "LOADING" THEN robbed \union {e} ELSE robbed
  /\ UNCHANGED measured
  /\ IF eng[e] = "none"
       THEN Panics(l, "visit")
       ELSE \E free \in Readings(Measured) \union Readings(Measured') :
              Continues(l, "visit", Enough(l, free), todo[l] \ {e})

Visit(l) ==
  \/ \E e \in Entries : PassOver(l, e) \/ VisitToSleep(l, e) \/ VisitToKill(l, e)
  \/ \E d \in Entries : Demote(l, d) \/ DemoteFails(l, d) \/ DemoteNil(l, d)
  \/ Sleep(l) \/ SleepFails(l) \/ SleepNil(l)

-----------------------------------------------------------------------------
(* A load: the engine *)

\* Launched and registered.  An engine that answers at the socket prevents it.
Launch(l) ==
  LET e == target[l] IN
  /\ Moves(l, "launch", "health")
  /\ eng[e] \in {"none", "starting"}
  /\ eng' = [eng EXCEPT ![e] = "starting"]
  /\ grp' = [grp EXCEPT ![e] = at[l]]
  /\ measured' = [measured EXCEPT ![e] = @ \/ e \in LlamaCpp]
  /\ at' = [at EXCEPT ![l] = 0]
  /\ UNCHANGED <<state, hung, robbed, lock, target, phase, excl, rule, todo, visit>>

LaunchFails(l) ==
  LET e == target[l] IN
  /\ Ends(l, "launch")
  /\ state' = [state EXCEPT ![e] = "UNLOADED"] /\ grp' = [grp EXCEPT ![e] = 0]
  /\ UNCHANGED <<eng, hung, measured, robbed>>

\* GET /health answers 200; vLLM's log has shown its sizes by then, or never will.
HealthOk(l) ==
  LET e == target[l] IN
  /\ Ends(l, "health")
  /\ Answers(e) /\ eng[e] # "none" /\ (eng[e] = "starting" => HasRoom(e))
  /\ eng' = [eng EXCEPT ![e] = IF @ = "starting" THEN "up" ELSE @]
  /\ measured' \in {measured, [measured EXCEPT ![e] = TRUE]}
  /\ state' = [state EXCEPT ![e] = "ACTIVE"]
  /\ UNCHANGED <<grp, hung, robbed>>

\* The exit of the process, or the deadline, is seen between two calls.
HealthFails(l) ==
  LET e == target[l] IN
  /\ Ends(l, "health") /\ Answers(e)
  /\ state' = [state EXCEPT ![e] = "UNLOADED"] /\ grp' = [grp EXCEPT ![e] = 0]
  /\ eng' = [eng EXCEPT ![e] = "none"]
  /\ UNCHANGED <<hung, measured, robbed>>

\* The steps of a load once it holds assignMu or needs none.
Load(l) ==
  \/ TryGroup(l) \/ PickGroup(l) \/ GiveUp(l) \/ Record(l)
  \/ CheckPinned(l) \/ Reserve(l)
  \/ List(l) \/ Visit(l)
  \/ Launch(l) \/ LaunchFails(l) \/ HealthOk(l) \/ HealthFails(l)

-----------------------------------------------------------------------------
(* What else happens to an entry, in the steps of ModelEntry *)

Others == UNCHANGED <<measured, robbed, lock, pc, target, loop>>

\* Its engine, in whatever state, goes on accepting calls and answers none.
Hangs(e) ==
  /\ e \in MayHang \ hung /\ eng[e] # "none"
  /\ hung' = hung \union {e}
  /\ UNCHANGED <<state, grp, eng>> /\ Others

\* The TTL puts it to sleep.
FallsAsleep(e) ==
  /\ e \notin LlamaCpp /\ Answers(e) /\ eng[e] \in {"up", "sleep1"}
  /\ \/ state[e] = "ACTIVE" /\ state' = [state EXCEPT ![e] = "SLEEP1"]
        /\ eng' = [eng EXCEPT ![e] = "sleep1"]
     \/ state[e] \in {"ACTIVE", "SLEEP1"} /\ state' = [state EXCEPT ![e] = "SLEEP2"]
        /\ eng' = [eng EXCEPT ![e] = "sleep2"]
  /\ UNCHANGED <<grp, hung>> /\ Others

\* A request wakes it: no check of free VRAM, the engine finds room or does not.
WakesUp(e) ==
  /\ state[e] \in {"SLEEP1", "SLEEP2"} /\ Serves(e) /\ Answers(e) /\ HasRoom(e)
  /\ state' = [state EXCEPT ![e] = "ACTIVE"]
  /\ eng' = [eng EXCEPT ![e] = "up"]
  /\ UNCHANGED <<grp, hung>> /\ Others

\* The last TTL or a crash unloads it.
Unloads(e) ==
  /\ state[e] \in Serving
  /\ state' = [state EXCEPT ![e] = "UNLOADED"]
  /\ grp' = [grp EXCEPT ![e] = 0]
  /\ eng' = [eng EXCEPT ![e] = "none"] /\ hung' = hung \ {e}
  /\ Others

Next ==
  \/ \E l \in Loads : (\E e \in Entries : Claim(l, e)) \/ Lock(l) \/ Load(l)
  \/ \E e \in Entries : FallsAsleep(e) \/ WakesUp(e) \/ Unloads(e) \/ Hangs(e)

Spec == Init /\ [][Next]_vars

\* Loads are scheduled, health polls that are answered end, and a sync.Mutex is handed
\* to a waiter in the end (its starvation mode).  A call that a hung engine has taken
\* fails when that engine ends, even if the next one hangs as well: hence SF.
Fairness == \A l \in Loads : SF_vars(Lock(l) \/ Load(l))

FairSpec == Spec /\ Fairness

-----------------------------------------------------------------------------
(* Properties *)

\* "A replica never lands on a sibling's group" (siblingGroups), however their
\* loads interleave and whatever is evicted for them; but for an entry that an
\* eviction has released under its loader, which is recorded again later.
ReplicasApart ==
  \A e \in Entries : \A f \in Siblings(e) :
    (grp[e] # 0 /\ grp[e] = grp[f]) => {e, f} \intersect robbed # {}

\* assignMu is held only by a load of one of the model's replicas that is choosing its
\* group: whichever way it leaves assignGroup, evicting, failing or panicking, it has
\* let go of it.  A load that waits holds none, so nobody waits for one that waits.
AssignMuHeldToAssign ==
  \A m \in Models : lock[m] # None =>
    LET l == lock[m] IN
    pc[l] \in Assigning /\ Replicated(target[l]) /\ ModelOf[target[l]] = m

\* A LOADING entry has a load that will end it, or had one that panicked: no error
\* path and no eviction leaves an entry claimed by nobody.
LoadingHasLoad ==
  \A e \in Entries : state[e] = "LOADING" =>
    \E l \in Loads : target[l] = e /\ pc[l] \in Loading \union {"panicked"}

\* The four rules at work for a replica leave its siblings alone, whatever lists they
\* work through and whoever else loads: groups where a sibling lives are skipped, and
\* none comes to a group in between (assignGroup, siblingGroups).
SiblingsSpared ==
  [][\A l \in Loads : (pc[l] \in {"visit", "sleep"} /\ todo'[l] # todo[l]) =>
       \A f \in Siblings(target[l]) \ robbed : state'[f] = state[f]]_vars

\* The same promise in the comment of assignGroup: replicas "must never be evicted to
\* make room for one another".  Nor by freeCPURam, when they are in use.
ActiveSiblingsSpared ==
  [][\A l \in Loads : (pc[l] = "demote" /\ cpu'[l] # cpu[l]) =>
       \A f \in Siblings(target[l]) : state[f] = "ACTIVE" => state'[f] = "ACTIVE"]_vars

\* A load waits for the answer of an engine that never gives one.
Blocked(l) ==
  \/ pc[l] = "health" /\ ~Answers(target[l])
  \/ pc[l] = "sleep" /\ live[l] /\ ~Answers(victim[l])
  \/ \E d \in Entries : Demotes(l, d) /\ eng[d] # "none" /\ ~Answers(d)

\* A load that evicts or waits for assignMu comes to its end, in ACTIVE, in UNLOADED or
\* in a panic, as long as no load is blocked by a hung engine.
LoadsEnd ==
  \A l \in Loads :
    <>[](pc[l] \in Loading) => <>[](\E k \in Loads : Blocked(k))

\* documents/plan_vllm_orchestrator.md: "Immediately reserve ... to prevent
\* double-booking during startup".  The models that start or run on a group need
\* no more than the group has.
NoDoubleBooking ==
  \A g \in Groups :
    MapThenSumSet(Needed, {e \in Entries : grp[e] = g /\ state[e] \in {"LOADING", "ACTIVE"}})
      <= Total[g]
=============================================================================
