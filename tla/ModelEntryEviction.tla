------------------------- MODULE ModelEntryEviction -------------------------
(***************************************************************************)
(* ModelEntry together with the loads of other models that need its GPU:   *)
(* each evictor is a goroutine inside freeMemoryRules (or freeCPURam) of   *)
(* scheduler.go, and what is modelled of it is what it does to this entry. *)
(*                                                                         *)
(* The rules work on lists: idleModels or activeModels reads every entry's *)
(* state first, and the entries are then visited one by one, each visit    *)
(* with calls to engines of up to half a minute.  By the time this entry   *)
(* is visited, what the list said of it may be long past.                  *)
(***************************************************************************)
EXTENDS ModelEntry

CONSTANT Evictors  \* calls of freeMemoryRules, by goroutines loading other models

VARIABLES
  rule,   \* the rule an evictor applies: "rule1" .. "rule4", or "cpu"
  epc,    \* where it is with this entry
  eproc   \* its local variable proc

evictor == <<rule, epc, eproc>>
allVars == <<vars, evictor>>

Rules == {"rule1", "cpu", "rule2", "rule3", "rule4"}
EvictorPCs == {"list", "visit", "post", "poll", "done", "kill", "signal", "killWait",
               "panic", "ended"}

EvictorTypeOK ==
  /\ TypeOK
  /\ rule \in [Evictors -> Rules]
  /\ epc \in [Evictors -> EvictorPCs]
  /\ eproc \in [Evictors -> Procs \union {NoProc}]

\* assignGroup of another model calls freeMemoryRules, at any time; or rule 1, at
\* another entry, calls freeCPURam, which looks at the entries of every group.
EvictionInit ==
  /\ Init
  /\ rule \in [Evictors -> {"rule1", "cpu"}]
  /\ epc = [e \in Evictors |-> "list"]
  /\ eproc = [e \in Evictors |-> NoProc]

-----------------------------------------------------------------------------

EvictorMoves(e, from, to) ==
  /\ epc[e] = from
  /\ epc' = [epc EXCEPT ![e] = to]
  /\ UNCHANGED <<pairs, handler, ttl, health>>

\* sleepModel(nil) or killProcess(nil): a nil dereference, and the goroutine's end.
Panics(e, from) == EvictorMoves(e, from, "panic") /\ rule' = [rule EXCEPT ![e] = "rule1"]

\* What a rule looks for, and what state it writes after the sleep call.
Wanted(name) == CASE name = "rule1" -> "ACTIVE"
                  [] name \in {"cpu", "rule3"} -> "SLEEP1"
                  [] name \in {"rule2", "rule4"} -> "SLEEP2"
Written(name) == IF name = "rule1" THEN "SLEEP1" ELSE "SLEEP2"

\* idleModels counts the requests, activeModels (rule 1) does not.
ListsEntry(name) ==
  state = Wanted(name) /\ (name # "rule1" => activeRequests = 0)

\* Where freeMemoryRules goes when it is done with this entry under a rule:
\* back to its caller if enough is free, else to the next rule's list.
NextRule(name) == CASE name = "rule1" -> "rule2" [] name = "rule2" -> "rule3"
                    [] OTHER -> "rule4"

LeavesEntry(e, from, enough) ==
  /\ IF enough \/ rule[e] \in {"cpu", "rule4"}
       THEN EvictorMoves(e, from, "ended") /\ rule' = [rule EXCEPT ![e] = "rule1"]
       ELSE /\ EvictorMoves(e, from, "list")
            /\ rule' = [rule EXCEPT ![e] = NextRule(rule[e])]
  /\ eproc' = [eproc EXCEPT ![e] = NoProc]

List(e) ==
  /\ \/ ListsEntry(rule[e]) /\ EvictorMoves(e, "list", "visit") /\ UNCHANGED <<rule, eproc>>
     \/ ~ListsEntry(rule[e]) /\ LeavesEntry(e, "list", FALSE)
  /\ UNCHANGED <<entry, world>>

\* The entry is passed over: it has no group or another one, it is a busy
\* llama.cpp model, or CPU RAM is short, or enough of it is free already.
PassOver(e) == LeavesEntry(e, "visit", FALSE) /\ UNCHANGED <<entry, world>>

\* Rules 1 and 3 and freeCPURam read the process and put it to sleep.  The last
\* does not ask for the group.
VisitToSleep(e) ==
  /\ ~LlamaCpp /\ rule[e] \in {"rule1", "rule3", "cpu"}
  /\ rule[e] = "cpu" \/ assigned
  /\ IF proc # NoProc
       THEN EvictorMoves(e, "visit", "post") /\ UNCHANGED rule
       ELSE Panics(e, "visit")
  /\ eproc' = [eproc EXCEPT ![e] = proc]
  /\ UNCHANGED <<entry, world>>

EvictorSleepPost(e) == \E q \in Answering(eproc[e]) :
  /\ IF q # NoProc
       THEN EvictorMoves(e, "post", "poll") /\ UNCHANGED <<rule, eproc>>
       ELSE LeavesEntry(e, "post", FALSE)
  /\ asleep' = [p \in Procs |-> IF p = q THEN TRUE ELSE asleep[p]]
  /\ UNCHANGED <<entry, engine, hung, socket>>

EvictorSleepPoll(e) == \E q \in Answering(eproc[e]) :
  /\ IF q # NoProc /\ asleep[q]
       THEN EvictorMoves(e, "poll", "done") /\ UNCHANGED <<rule, eproc>>
       ELSE LeavesEntry(e, "poll", FALSE)
  /\ UNCHANGED <<entry, world>>

\* The state is written without looking at it or at the process again.
EvictorSleepDone(e) ==
  /\ \E enough \in BOOLEAN : LeavesEntry(e, "done", enough)
  /\ state' = Written(rule[e])
  /\ UNCHANGED <<proc, assigned, activeRequests, queue, idle, world>>

\* Rules 2 and 4 release the entry in the section that reads its process ...
VisitToKill(e) ==
  /\ rule[e] \in {"rule2", "rule4"} /\ assigned
  /\ EvictorMoves(e, "visit", "signal")
  /\ eproc' = [eproc EXCEPT ![e] = proc]
  /\ MarkUnloaded
  /\ UNCHANGED <<rule, world>>

\* Rule 1 at an idle llama.cpp model: killAndUnload, with its guard.  When it finds
\* another process it does nothing, and the free VRAM is looked at all the same.
VisitToUnload(e) ==
  /\ LlamaCpp /\ rule[e] = "rule1" /\ assigned /\ activeRequests <= 0
  /\ EvictorMoves(e, "visit", "kill")
  /\ eproc' = [eproc EXCEPT ![e] = proc]
  /\ UNCHANGED <<entry, world, rule>>

EvictorKill(e) ==
  /\ StillCurrent(eproc[e])
  /\ EvictorMoves(e, "kill", "signal")
  /\ MarkUnloaded
  /\ UNCHANGED <<rule, eproc, world>>

EvictorKillSkipped(e) ==
  /\ ~StillCurrent(eproc[e])
  /\ \E enough \in BOOLEAN : LeavesEntry(e, "kill", enough)
  /\ UNCHANGED <<entry, world>>

\* ... and signal the process afterwards; killProcess(nil) is a nil dereference.
EvictorSignal(e) ==
  /\ IF eproc[e] # NoProc
       THEN EvictorMoves(e, "signal", "killWait") /\ UNCHANGED rule
       ELSE Panics(e, "signal")
  /\ engine' = [p \in Procs |-> IF p = eproc[e] THEN Signalled(p) ELSE engine[p]]
  /\ UNCHANGED <<entry, eproc, asleep, hung, socket>>

\* killProcess returns, and waitVRAMStable and the check of free VRAM follow.
EvictorKilled(e) ==
  /\ \E enough \in BOOLEAN : LeavesEntry(e, "killWait", enough)
  /\ engine[eproc[e]] = "dead"
  /\ socket' = NoProc
  /\ UNCHANGED <<entry, engine, asleep, hung>>

Evict(e) ==
  \/ List(e) \/ PassOver(e)
  \/ VisitToSleep(e) \/ EvictorSleepPost(e) \/ EvictorSleepPoll(e) \/ EvictorSleepDone(e)
  \/ VisitToKill(e) \/ VisitToUnload(e) \/ EvictorKill(e) \/ EvictorKillSkipped(e)
  \/ EvictorSignal(e) \/ EvictorKilled(e)

EvictionNext == (Next /\ UNCHANGED evictor) \/ \E e \in Evictors : Evict(e)

EvictionSpec == EvictionInit /\ [][EvictionNext]_allVars

\* Nothing is assumed of the evictors: each may stop anywhere.
FairEvictionSpec == EvictionSpec /\ Fairness

-----------------------------------------------------------------------------
(* Properties *)

\* Whatever the evictors write over it, an entry that is LOADING is being loaded, or its
\* load has panicked: the claim, and the exits of a load, are written by nobody else.
LoadingIsClaimed == state = "LOADING" => \E r \in Requests : Claimed(r)

\* documents/plan_vllm_orchestrator.md: "Rule 2 never touches models with
\* in-flight requests".  An entry that rule 2 takes down has none counted.
RuleTwoSparesInFlight ==
  [][\A e \in Evictors :
       (epc[e] = "visit" /\ epc'[e] = "signal" /\ rule[e] \in {"rule2", "rule4"}) =>
         activeRequests <= 0]_allVars
=============================================================================
