---------------------- MODULE ModelEntryEvictionProofs ----------------------
(***************************************************************************)
(* Proofs about ModelEntryEviction: what of an entry no evictor disturbs,  *)
(* for every number of evictors, requests and processes.                   *)
(*                                                                         *)
(* Evictors write the state at any moment, so OneLoader and                *)
(* ProcessMatchesState are lost.  What is left rests on what they do not   *)
(* do: they touch no queue, no request and no handler, and they never      *)
(* write LOADING.                                                          *)
(***************************************************************************)
EXTENDS ModelEntryEviction, ModelEntryProofs

\* What an evictor leaves alone.
Bystander == UNCHANGED <<pairs, handler, ttl, health, queue, activeRequests, idle>>

\* An evictor's step moves nobody but itself, keeps its own types, and leaves the
\* entry as it was or in a state other than LOADING.
LEMMA EvictStep ==
  ASSUME EvictorTypeOK, NEW e \in Evictors, Evict(e)
  PROVE  /\ Bystander
         /\ state' = state \/ state' \in {"UNLOADED", "SLEEP1", "SLEEP2"}
         /\ proc' \in {proc, NoProc} /\ assigned' \in {assigned, FALSE}
         /\ rule' \in [Evictors -> Rules] /\ epc' \in [Evictors -> EvictorPCs]
         /\ eproc' \in [Evictors -> Procs \union {NoProc}]
         /\ engine' \in [Procs -> EngineStates] /\ asleep' \in [Procs -> BOOLEAN]
         /\ hung' = hung /\ socket' \in {socket, NoProc}
<1> DEFINE Kept == UNCHANGED <<entry, world>>
           Own == /\ rule' \in [Evictors -> Rules] /\ epc' \in [Evictors -> EvictorPCs]
                  /\ eproc' \in [Evictors -> Procs \union {NoProc}]
                  /\ UNCHANGED <<pairs, handler, ttl, health>>
<1> USE DEF EvictorTypeOK, TypeOK, entry, world, Bystander
<1>1. ASSUME NEW from \in EvictorPCs, NEW enough \in BOOLEAN, LeavesEntry(e, from, enough)
      PROVE  Own
  <2>1. \E to \in {"ended", "list"} : EvictorMoves(e, from, to)
    BY <1>1 DEF LeavesEntry
  <2>2. epc' \in [Evictors -> EvictorPCs] /\ UNCHANGED <<pairs, handler, ttl, health>>
    BY <2>1 DEF EvictorMoves, EvictorPCs
  <2>3. eproc' = [eproc EXCEPT ![e] = NoProc]
    BY <1>1, Zenon DEF LeavesEntry
  <2>4. \E name \in Rules : rule' = [rule EXCEPT ![e] = name]
    BY <1>1 DEF LeavesEntry, NextRule, Rules
  <2> QED BY <2>2, <2>3, <2>4
<1>2. ASSUME NEW from \in EvictorPCs, Panics(e, from) PROVE
        /\ rule' \in [Evictors -> Rules] /\ epc' \in [Evictors -> EvictorPCs]
        /\ UNCHANGED <<pairs, handler, ttl, health>>
  BY <1>2 DEF Panics, EvictorMoves, Rules, EvictorPCs
<1>3. ASSUME NEW from \in EvictorPCs, NEW to \in EvictorPCs, EvictorMoves(e, from, to)
      PROVE  epc' \in [Evictors -> EvictorPCs] /\ UNCHANGED <<pairs, handler, ttl, health>>
  BY <1>3 DEF EvictorMoves
<1>4. \A p \in Procs : Signalled(p) \in EngineStates
  BY DEF Signalled, EngineStates
<1>5. {"list", "visit", "post", "poll", "done", "kill", "signal", "killWait", "panic", "ended"}
        = EvictorPCs
  BY DEF EvictorPCs
<1>6. CASE List(e)
  <2>1. Own
    BY <1>1, <1>3, <1>5, <1>6 DEF List
  <2> QED BY <1>6, <2>1 DEF List
<1>7. CASE PassOver(e)
  <2>1. Own
    BY <1>1, <1>5, <1>7 DEF PassOver
  <2> QED BY <1>7, <2>1 DEF PassOver
<1>8. CASE VisitToSleep(e)
  <2>1. Own
    BY <1>2, <1>3, <1>5, <1>8 DEF VisitToSleep
  <2> QED BY <1>8, <2>1 DEF VisitToSleep
<1>9. CASE EvictorSleepPost(e)
  <2>1. PICK q \in Answering(eproc[e]) :
          /\ IF q # NoProc
               THEN EvictorMoves(e, "post", "poll") /\ UNCHANGED <<rule, eproc>>
               ELSE LeavesEntry(e, "post", FALSE)
          /\ asleep' = [p \in Procs |-> IF p = q THEN TRUE ELSE asleep[p]]
    BY <1>9, Zenon DEF EvictorSleepPost
  <2>2. asleep' \in [Procs -> BOOLEAN]
    BY <2>1, Zenon
  <2>3. Own
    BY <1>1, <1>3, <1>5, <2>1
  <2>4. UNCHANGED <<entry, engine, hung, socket>>
    BY <1>9 DEF EvictorSleepPost
  <2> QED BY <2>2, <2>3, <2>4
<1>10. CASE EvictorSleepPoll(e)
  <2>1. Own
    BY <1>1, <1>3, <1>5, <1>10 DEF EvictorSleepPoll
  <2> QED BY <1>10, <2>1 DEF EvictorSleepPoll
<1>11. CASE EvictorSleepDone(e)
  <2>1. Own
    BY <1>1, <1>5, <1>11 DEF EvictorSleepDone
  <2> QED BY <1>11, <2>1 DEF EvictorSleepDone, Written
<1>12. CASE VisitToKill(e)
  <2>1. Own
    BY <1>3, <1>5, <1>12 DEF VisitToKill
  <2> QED BY <1>12, <2>1 DEF VisitToKill, MarkUnloaded
<1>13. CASE VisitToUnload(e)
  <2>1. Own
    BY <1>3, <1>5, <1>13 DEF VisitToUnload
  <2> QED BY <1>13, <2>1 DEF VisitToUnload
<1>14. CASE EvictorKill(e)
  <2>1. Own
    BY <1>3, <1>5, <1>14 DEF EvictorKill
  <2> QED BY <1>14, <2>1 DEF EvictorKill, MarkUnloaded
<1>15. CASE EvictorKilled(e)
  <2>1. Own
    BY <1>1, <1>5, <1>15 DEF EvictorKilled
  <2> QED BY <1>15, <2>1 DEF EvictorKilled
<1>16. CASE EvictorKillSkipped(e)
  <2>1. Own
    BY <1>1, <1>5, <1>16 DEF EvictorKillSkipped
  <2> QED BY <1>16, <2>1 DEF EvictorKillSkipped
<1>17. CASE EvictorSignal(e)
  <2>1. Own
    BY <1>2, <1>3, <1>5, <1>17 DEF EvictorSignal
  <2>2. engine' \in [Procs -> EngineStates]
    BY <1>4, <1>17 DEF EvictorSignal
  <2> QED BY <1>17, <2>1, <2>2 DEF EvictorSignal
<1> QED
  BY <1>6, <1>7, <1>8, <1>9, <1>10, <1>11, <1>12, <1>13, <1>14, <1>15, <1>16, <1>17 DEF Evict

\* Types and the watchers' limit, and the queue, under any step.
LEMMA EvictionTypeStep ==
  EvictorTypeOK /\ FailsBelowLimit /\ [EvictionNext]_allVars => EvictorTypeOK' /\ FailsBelowLimit'
<1> SUFFICES ASSUME EvictorTypeOK, FailsBelowLimit, [EvictionNext]_allVars
             PROVE  EvictorTypeOK' /\ FailsBelowLimit'
  OBVIOUS
<1>1. ASSUME [Next]_vars, UNCHANGED evictor PROVE EvictorTypeOK' /\ FailsBelowLimit'
  BY <1>1, TypeStep DEF EvictorTypeOK, evictor
<1>2. ASSUME NEW e \in Evictors, Evict(e) PROVE EvictorTypeOK' /\ FailsBelowLimit'
  BY <1>2, EvictStep DEF EvictorTypeOK, TypeOK, FailsBelowLimit, Bystander, pairs, handler, ttl,
     health, States, Sleeping, Serving
<1> QED BY <1>1, <1>2 DEF EvictionNext, allVars

\* Evictors, too, keep their types: each rule, its point in the code, its process.
THEOREM EvictionTypeCorrect == EvictionSpec => []EvictorTypeOK
<1>1. EvictionInit => EvictorTypeOK /\ FailsBelowLimit
  BY TypeInit DEF EvictionInit, EvictorTypeOK, Rules, EvictorPCs
<1> QED BY <1>1, EvictionTypeStep, PTL DEF EvictionSpec

\* Nor do they disturb what the queue rests on.
LEMMA EvictionQueueInv == EvictionSpec => []QueueInv
<1>1. EvictionInit => QueueInv
  BY DEF EvictionInit, Init, QueueInv
<1>2. EvictorTypeOK /\ QueueInv /\ [EvictionNext]_allVars => QueueInv'
  <2> SUFFICES ASSUME EvictorTypeOK, QueueInv, [EvictionNext]_allVars PROVE QueueInv'
    OBVIOUS
  <2>1. ASSUME [Next]_vars PROVE QueueInv'
    BY <2>1, QueueStep DEF EvictorTypeOK
  <2>2. ASSUME NEW e \in Evictors, Evict(e) PROVE QueueInv'
    <3>1. UNCHANGED <<pairs, handler, queue>>
      BY <2>2, EvictStep, Zenon DEF Bystander
    <3>2. UNCHANGED <<reply, answer, hpc, queue>>
      BY <3>1, Zenon DEF pairs, handler
    <3> QED BY <3>2 DEF QueueInv
  <2> QED BY <2>1, <2>2 DEF EvictionNext, allVars
<1> QED BY <1>1, <1>2, EvictionTypeCorrect, PTL DEF EvictionSpec

\* Evictors do not disturb the queue: a queued request is in it once, and its done
\* channel is open, whatever is done to the entry.
THEOREM EvictionQueueCorrect == EvictionSpec => []QueuedOnceAndOpen
<1>1. QueueInv => QueuedOnceAndOpen
  BY DEF QueueInv, QueuedOnceAndOpen
<1> QED BY <1>1, EvictionQueueInv, PTL

\* Evictors answer nobody: a request gets one answer at most, whatever becomes of the
\* entry while it waits, is forwarded or is rejected.
THEOREM EvictionAnswerCorrect == EvictionSpec => AnsweredOnce
<1>1. EvictorTypeOK /\ QueueInv /\ [EvictionNext]_allVars => [AnswersOnce]_vars
  <2> SUFFICES ASSUME EvictorTypeOK, QueueInv, [EvictionNext]_allVars PROVE [AnswersOnce]_vars
    OBVIOUS
  <2>1. ASSUME [Next]_vars PROVE AnswersOnce
    BY <2>1, AnswerStep DEF EvictorTypeOK
  <2>2. ASSUME NEW e \in Evictors, Evict(e) PROVE AnswersOnce
    <3>1. UNCHANGED pairs
      BY <2>2, EvictStep, Zenon DEF Bystander
    <3> QED BY <3>1 DEF pairs, AnswersOnce
  <2> QED BY <2>1, <2>2 DEF EvictionNext, allVars
<1> QED BY <1>1, EvictionTypeCorrect, EvictionQueueInv, PTL DEF EvictionSpec, AnsweredOnce, AnswersOnce

\* A goroutine that enters LOADING has claimed the entry, and gives up its claim only as
\* it leaves LOADING.
LEMMA LoaderStep == TypeOK /\ LoadingIsClaimed /\ [Next]_vars => LoadingIsClaimed'
<1> SUFFICES ASSUME TypeOK, LoadingIsClaimed, [Next]_vars, state' = "LOADING"
             PROVE  \E r \in Requests : Claimed(r)'
  BY DEF LoadingIsClaimed
<1> USE DEF TypeOK, Claimed, Loading, LoaderPCs, entry, pairs, handler, ttl, health, world
<1> DEFINE GoesOn == state = "LOADING" /\ \A r \in Requests : Claimed(r) => Claimed(r)'
<1>1. GoesOn => \E r \in Requests : Claimed(r)'
  BY DEF LoadingIsClaimed
<1>2. ASSUME NEW r \in Requests, Claim(r) PROVE \E s \in Requests : Claimed(s)'
  <2>1. CASE Claimable
    BY <1>2, <2>1 DEF Claim, Moves
  <2>2. CASE ~Claimable
    BY <1>1, <1>2, <2>2 DEF Claim, Moves
  <2> QED BY <2>1, <2>2
<1>3. ASSUME NEW r \in Requests,
             \/ Arrive(r) \/ Enqueue(r) \/ QueueFull(r) \/ Dispatch(r)
             \/ Wake(r) \/ WakePost(r) \/ WakePoll(r) \/ WakeDone(r)
      PROVE  GoesOn
  BY <1>3 DEF Arrive, Enqueue, QueueFull, Dispatch, Wake, WakePost, WakePoll, WakeDone, Steps, Moves
<1>4. ASSUME NEW r \in Requests,
             \/ AssignSucceeds(r) \/ AssignPanics(r) \/ Launch(r) \/ LaunchFails(r) \/ Register(r)
             \/ HealthOk(r) \/ HealthExited(r) \/ HealthTimesOut(r) \/ HealthKilled(r)
      PROVE  GoesOn
  BY <1>4 DEF AssignSucceeds, AssignPanics, Launch, LaunchFails, Register, HealthOk, HealthExited,
     HealthTimesOut, HealthKilled, Steps, Moves
<1>5. ASSUME NEW r \in Requests,
             AssignFails(r) \/ LaunchReset(r) \/ HealthReset(r) \/ Activate(r)
      PROVE  FALSE
  BY <1>5 DEF AssignFails, LaunchReset, HealthReset, Activate, MarkUnloaded
<1>6. ASSUME NEW r \in Requests,
             \/ Waiting(r) \/ Drain(r) \/ Released(r) \/ ClientGone(r)
             \/ Forward(r) \/ ForwardAborts(r) \/ Complete(r)
      PROVE  GoesOn
  BY <1>6 DEF Waiting, Drain, PopGranted, PopRejected, Released, ClientGone, Forward,
     ForwardAborts, Complete, Steps, Moves
<1>7. ASSUME TTL PROVE GoesOn
  BY <1>7 DEF TTL, TTLTick, TTLRecheck, TTLSleepPost, TTLSleepPoll, TTLSleepDone, SleepTarget,
     TTLKill, MarkUnloaded, TTLKillSkipped, TTLSignal, TTLKilled, TTLMoves, TTLReturns
<1>8. ASSUME NEW p \in Procs, Watch(p) PROVE GoesOn
  BY <1>8 DEF Watch, WatchWakes, WatchProbes, OnExit, MarkUnloaded, OnExitSkipped, WatchDrains,
     PopRejected, WatchMoves
<1>9. ASSUME World PROVE GoesOn
  BY <1>9 DEF World, TimePasses, EngineListens, EngineCloses, EngineExits, EngineCrashes,
     EngineHangs, EngineMoves
<1>10. CASE UNCHANGED vars
  BY <1>1, <1>10 DEF vars
<1> QED
  BY <1>1, <1>2, <1>3, <1>4, <1>5, <1>6, <1>7, <1>8, <1>9, <1>10 DEF Next, Handle

\* However evictors write over it, an entry that is LOADING is being loaded, or its load
\* has panicked.
THEOREM EvictionLoadingClaimed == EvictionSpec => []LoadingIsClaimed
<1>1. EvictionInit => LoadingIsClaimed
  BY DEF EvictionInit, Init, LoadingIsClaimed
<1>2. EvictorTypeOK /\ LoadingIsClaimed /\ [EvictionNext]_allVars => LoadingIsClaimed'
  <2> SUFFICES ASSUME EvictorTypeOK, LoadingIsClaimed, [EvictionNext]_allVars
               PROVE  LoadingIsClaimed'
    OBVIOUS
  <2>1. ASSUME [Next]_vars PROVE LoadingIsClaimed'
    BY <2>1, LoaderStep DEF EvictorTypeOK
  <2>2. ASSUME NEW e \in Evictors, Evict(e) PROVE LoadingIsClaimed'
    BY <2>2, EvictStep DEF LoadingIsClaimed, Claimed, Loading, Bystander, handler
  <2> QED BY <2>1, <2>2 DEF EvictionNext, allVars
<1> QED BY <1>1, <1>2, EvictionTypeCorrect, PTL DEF EvictionSpec
=============================================================================
