-------------------------- MODULE ModelEntryProofs --------------------------
(***************************************************************************)
(* Proofs about ModelEntry, for every set of requests and processes, every *)
(* queue depth and every number of failed health checks.                   *)
(*                                                                         *)
(* The argument: a process is launched once, so a process that a goroutine *)
(* remembers from an earlier life of the entry is never the one a later    *)
(* loader holds.  Every late update compares the two, and so none of them  *)
(* disturbs a load.  The one goroutine that reads the process again, the   *)
(* waker, finds nobody listening while the loader's engine starts: this is *)
(* the assumption SlowStart.                                               *)
(***************************************************************************)
EXTENDS ModelEntry, TLAPS

\* A claimer before (or without) and after it has a process of its own.
Launching == {"assign", "launch", "launchFailed", "register", "panicked"}
Owning == {"register", "health", "healthKill", "healthReset", "activate"}

\* What a loader holds: nothing is registered before Register, and then it is
\* the loader's own process.
LoaderProcess ==
  \A r \in Requests :
    /\ hpc[r] \in Launching => proc = NoProc
    /\ hpc[r] = "assign" => ~assigned
    /\ hpc[r] \in Owning => hproc[r] \in Procs
    /\ hpc[r] \in Owning \ {"register"} => proc = hproc[r]

\* Wakers and the TTL goroutine hold a process when they act on one.
Remembered ==
  /\ \A s \in Requests :
       hpc[s] \in {"wakePost", "wakePoll", "wakeDone"} => hproc[s] \in Procs
  /\ tpc = "recheck" => tstate \in Serving
  /\ tpc \in {"kill", "signal"} => tproc \in Procs
  /\ tpc \in {"sleepPost", "sleepPoll", "sleepDone"} => ~LlamaCpp

\* A process that was not launched is known to nobody.
UnbornUnknown ==
  \A p \in Procs : engine[p] = "unborn" =>
    /\ proc # p /\ tproc # p /\ socket # p /\ watch[p] = "none"
    /\ \A r \in Requests : hproc[r] # p

\* Nobody else acts on the process of a loader; who would wake the entry finds
\* nobody listening, and the loader's engine was never up.
LoaderAlone ==
  \A r \in Requests : hpc[r] \in Owning =>
    /\ watch[hproc[r]] = "none"
    /\ tpc \in {"kill", "signal"} => tproc # hproc[r]
    /\ \A s \in Requests :
         /\ hpc[s] \in {"wakePoll", "wakeDone"} => hproc[s] # hproc[r]
         /\ hpc[s] \in {"wake", "wakePost"} =>
              Listener = NoProc /\ engine[hproc[r]] \notin {"up", "term"}

\* The inductive invariant.
EntryCore ==
  /\ OneLoader /\ ProcessMatchesState /\ NeverPanics
  /\ LoaderProcess /\ Remembered /\ UnbornUnknown /\ LoaderAlone

\* A watcher goes on only below the limit.
FailsBelowLimit ==
  \A p \in Procs : watch[p] \in {"wait", "probe"} => fails[p] < MaxFails

\* What is known of a queued request, and of one that is not yet in the queue or
\* is past it.
QueueInv ==
  /\ \A i, j \in 1..Len(queue) : queue[i] = queue[j] => i = j
  /\ \A i \in 1..Len(queue) :
       /\ reply[queue[i]] = "open" /\ answer[queue[i]] = "none"
       /\ hpc[queue[i]] \notin {"arrive", "enqueue", "forward", "complete"}
  /\ \A r \in Requests :
       /\ hpc[r] \in {"arrive", "enqueue"} => reply[r] = "open" /\ answer[r] = "none"
       /\ hpc[r] \in {"forward", "complete"} => reply[r] = "granted"
       /\ reply[r] = "granted" /\ hpc[r] \notin {"complete", "ended"} => answer[r] = "none"

\* What is known of the engines: only the loader's own is starting, so that who
\* answers while it loads is that one, and a process that is watched has started.
EngineInv ==
  /\ \A p \in Procs : engine[p] = "starting" =>
       \E r \in Requests : hpc[r] \in {"register", "health"} /\ hproc[r] = p
  /\ \A r \in Requests :
       /\ hpc[r] \in Owning => Listener \in {NoProc, hproc[r]}
       /\ hpc[r] = "activate" => engine[hproc[r]] \notin {"unborn", "starting"}
  /\ \A p \in Procs :
       /\ watch[p] # "none" => engine[p] \notin {"unborn", "starting"}
       /\ watch[p] = "exit" => Listener # p

\* The actions of the two action properties.
AnswersOnce == \A r \in Requests : answer[r] # "none" => answer'[r] = answer[r]
UnloadsWhenDown ==
  \A p \in Procs : (state \in Serving /\ proc = p /\ state' = "UNLOADED") =>
    \/ engine[p] # "up" \/ Listener # p
    \/ tpc' = "signal" /\ tproc' = p

\* What is received from the queue is a request.
LEMMA PopTypes ==
  ASSUME TypeOK, queue # <<>>
  PROVE  Head(queue) \in Requests /\ Tail(queue) \in Seq(Requests)
BY DEF TypeOK

\* Every step keeps the types, and the counters of the watchers below the limit.
LEMMA TypeStep == TypeOK /\ FailsBelowLimit /\ [Next]_vars => TypeOK' /\ FailsBelowLimit'
<1> SUFFICES ASSUME TypeOK, FailsBelowLimit, [Next]_vars PROVE TypeOK' /\ FailsBelowLimit'
  OBVIOUS
<1> USE QueueDepthAssumption, MaxIdleAssumption, MaxFailsAssumption
    DEF TypeOK, FailsBelowLimit, States, Sleeping, Serving, LoaderPCs, WakerPCs, HandlerPCs,
        TTLPCs, WatchPCs, EngineStates, entry, pairs, handler, ttl, health, world
<1>1. ASSUME NEW r \in Requests, Arrive(r) PROVE TypeOK' /\ FailsBelowLimit'
  BY <1>1 DEF Arrive, Moves
<1>2. ASSUME NEW r \in Requests, Enqueue(r) PROVE TypeOK' /\ FailsBelowLimit'
  BY <1>2 DEF Enqueue, Moves
<1>3. ASSUME NEW r \in Requests, QueueFull(r) PROVE TypeOK' /\ FailsBelowLimit'
  BY <1>3 DEF QueueFull, Moves
<1>4. ASSUME NEW r \in Requests, Dispatch(r) PROVE TypeOK' /\ FailsBelowLimit'
  BY <1>4 DEF Dispatch, Steps, Moves
<1>5. ASSUME NEW r \in Requests, Wake(r) PROVE TypeOK' /\ FailsBelowLimit'
  BY <1>5 DEF Wake, Moves
<1>6. ASSUME NEW r \in Requests, WakePost(r) PROVE TypeOK' /\ FailsBelowLimit'
  <2>1. asleep' \in [Procs -> BOOLEAN]
    <3>1. PICK q \in Answering(hproc[r]) :
            asleep' = [p \in Procs |-> IF p = q THEN FALSE ELSE asleep[p]]
      BY <1>6, Zenon DEF WakePost
    <3> QED BY <3>1, Zenon
  <2>2. hpc' \in [Requests -> HandlerPCs]
    BY <1>6 DEF WakePost, Moves
  <2>3. UNCHANGED <<entry, pairs, hproc, engine, hung, socket, ttl, health>>
    BY <1>6 DEF WakePost, Moves
  <2> QED BY <2>1, <2>2, <2>3
<1>7. ASSUME NEW r \in Requests, WakePoll(r) PROVE TypeOK' /\ FailsBelowLimit'
  BY <1>7 DEF WakePoll, Steps, Moves
<1>8. ASSUME NEW r \in Requests, WakeDone(r) PROVE TypeOK' /\ FailsBelowLimit'
  BY <1>8 DEF WakeDone, Moves
<1>9. ASSUME NEW r \in Requests, Claim(r) PROVE TypeOK' /\ FailsBelowLimit'
  BY <1>9 DEF Claim, Moves, Claimable
<1>10. ASSUME NEW r \in Requests, AssignSucceeds(r) PROVE TypeOK' /\ FailsBelowLimit'
  <2>1. assigned' \in BOOLEAN
    BY <1>10, Zenon DEF AssignSucceeds
  <2> QED BY <1>10, <2>1 DEF AssignSucceeds, Moves
<1>11. ASSUME NEW r \in Requests, AssignFails(r) PROVE TypeOK' /\ FailsBelowLimit'
  BY <1>11 DEF AssignFails, Moves
<1>12. ASSUME NEW r \in Requests, Launch(r) PROVE TypeOK' /\ FailsBelowLimit'
  BY <1>12 DEF Launch, Moves
<1>13. ASSUME NEW r \in Requests, LaunchFails(r) PROVE TypeOK' /\ FailsBelowLimit'
  BY <1>13 DEF LaunchFails, Moves
<1>14. ASSUME NEW r \in Requests, LaunchReset(r) PROVE TypeOK' /\ FailsBelowLimit'
  BY <1>14 DEF LaunchReset, Moves
<1>15. ASSUME NEW r \in Requests, Register(r) PROVE TypeOK' /\ FailsBelowLimit'
  BY <1>15 DEF Register, Moves
<1>16. ASSUME NEW r \in Requests, HealthOk(r) PROVE TypeOK' /\ FailsBelowLimit'
  BY <1>16 DEF HealthOk, Steps, Moves
<1>17. ASSUME NEW r \in Requests, HealthExited(r) PROVE TypeOK' /\ FailsBelowLimit'
  BY <1>17 DEF HealthExited, Steps, Moves
<1>18. ASSUME NEW r \in Requests, HealthTimesOut(r) PROVE TypeOK' /\ FailsBelowLimit'
  <2>1. engine' \in [Procs -> EngineStates]
    <3>1. \A p \in Procs : Signalled(p) \in EngineStates
      BY DEF Signalled
    <3> QED BY <1>18, <3>1 DEF HealthTimesOut
  <2> QED BY <1>18, <2>1 DEF HealthTimesOut, Moves
<1>19. ASSUME NEW r \in Requests, HealthKilled(r) PROVE TypeOK' /\ FailsBelowLimit'
  BY <1>19 DEF HealthKilled, Moves
<1>20. ASSUME NEW r \in Requests, HealthReset(r) PROVE TypeOK' /\ FailsBelowLimit'
  BY <1>20 DEF HealthReset, Moves, MarkUnloaded
<1>21. ASSUME NEW r \in Requests, Activate(r) PROVE TypeOK' /\ FailsBelowLimit'
  <2>1. /\ watch' = [watch EXCEPT ![hproc[r]] = "wait"]
        /\ fails' = [fails EXCEPT ![hproc[r]] = 0]
    BY <1>21 DEF Activate
  <2>2. watch' \in [Procs -> WatchPCs]
    BY <2>1
  <2>3. fails' \in [Procs -> 0..MaxFails]
    <3>1. 0 \in 0..MaxFails
      OBVIOUS
    <3> QED BY <2>1, <3>1, Zenon
  <2>4. FailsBelowLimit'
    BY <1>21 DEF Activate
  <2>5. hpc' \in [Requests -> HandlerPCs] /\ state' \in States /\ idle' \in 0..MaxIdle
    BY <1>21 DEF Activate
  <2>6. UNCHANGED <<proc, assigned, activeRequests, queue, pairs, hproc, ttl, world>>
    BY <1>21 DEF Activate
  <2> QED BY <2>2, <2>3, <2>4, <2>5, <2>6
<1>22. ASSUME NEW r \in Requests, Waiting(r) PROVE TypeOK' /\ FailsBelowLimit'
  <2> PICK to \in {"drain", "drain503"} : Steps(r, "waiting", to)
    BY <1>22 DEF Waiting
  <2> QED BY DEF Steps, Moves
<1>23. ASSUME NEW r \in Requests, Drain(r) PROVE TypeOK' /\ FailsBelowLimit'
  <2>1. CASE PopGranted /\ UNCHANGED <<handler, ttl, health, world>>
    BY <2>1, PopTypes DEF PopGranted
  <2>2. CASE PopRejected /\ UNCHANGED <<handler, ttl, health, world>>
    BY <2>2, PopTypes DEF PopRejected
  <2>3. CASE /\ \E pc \in {"drain", "drain503"} : Moves(r, pc, "await")
             /\ hproc' = [hproc EXCEPT ![r] = NoProc] /\ UNCHANGED <<entry, pairs, world>>
    BY <2>3 DEF Moves
  <2> QED BY <1>23, <2>1, <2>2, <2>3 DEF Drain
<1>24. ASSUME NEW r \in Requests, Released(r) PROVE TypeOK' /\ FailsBelowLimit'
  BY <1>24 DEF Released, Steps, Moves
<1>25. ASSUME NEW r \in Requests, ClientGone(r) PROVE TypeOK' /\ FailsBelowLimit'
  BY <1>25 DEF ClientGone, Steps, Moves
<1>26. ASSUME NEW r \in Requests, Forward(r) PROVE TypeOK' /\ FailsBelowLimit'
  BY <1>26 DEF Forward, Moves
<1>27. ASSUME NEW r \in Requests, ForwardAborts(r) PROVE TypeOK' /\ FailsBelowLimit'
  BY <1>27 DEF ForwardAborts, Moves
<1>28. ASSUME NEW r \in Requests, Complete(r) PROVE TypeOK' /\ FailsBelowLimit'
  BY <1>28 DEF Complete, Moves
<1>29. ASSUME TTLTick PROVE TypeOK' /\ FailsBelowLimit'
  BY <1>29 DEF TTLTick, TTLMoves
<1>30. ASSUME TTLRecheck PROVE TypeOK' /\ FailsBelowLimit'
  BY <1>30 DEF TTLRecheck, TTLMoves, TTLReturns, TTLKills
<1>31. ASSUME TTLSleepPost PROVE TypeOK' /\ FailsBelowLimit'
  <2>1. asleep' \in [Procs -> BOOLEAN]
    <3>1. PICK q \in Answering(tproc) :
            asleep' = [p \in Procs |-> IF p = q THEN TRUE ELSE asleep[p]]
      BY <1>31, Zenon DEF TTLSleepPost
    <3> QED BY <3>1, Zenon
  <2>2. UNCHANGED <<entry, pairs, handler, engine, hung, socket, health>>
    BY <1>31 DEF TTLSleepPost, TTLMoves, TTLReturns
  <2>3. \/ TTLMoves("sleepPost", "sleepPoll") /\ UNCHANGED <<tstate, tproc, tlevel>>
        \/ TTLReturns("sleepPost")
    BY <1>31, Zenon DEF TTLSleepPost
  <2> QED BY <2>1, <2>2, <2>3 DEF TTLMoves, TTLReturns
<1>32. ASSUME TTLSleepPoll PROVE TypeOK' /\ FailsBelowLimit'
  BY <1>32 DEF TTLSleepPoll, TTLMoves, TTLReturns
<1>33. ASSUME TTLSleepDone PROVE TypeOK' /\ FailsBelowLimit'
  BY <1>33 DEF TTLSleepDone, TTLMoves, TTLReturns, SleepTarget
<1>34. ASSUME TTLKill PROVE TypeOK' /\ FailsBelowLimit'
  BY <1>34 DEF TTLKill, TTLMoves, MarkUnloaded
<1>35. ASSUME TTLKillSkipped PROVE TypeOK' /\ FailsBelowLimit'
  BY <1>35 DEF TTLKillSkipped, TTLMoves, TTLReturns
<1>36. ASSUME TTLKilled PROVE TypeOK' /\ FailsBelowLimit'
  BY <1>36 DEF TTLKilled, TTLMoves, TTLReturns
<1>37. ASSUME NEW p \in Procs, WatchWakes(p) PROVE TypeOK' /\ FailsBelowLimit'
  <2>1. fails' = fails \/ fails' = [fails EXCEPT ![p] = 0]
    BY <1>37 DEF WatchWakes
  <2>2. PICK to \in {"probe", "done"} : watch' = [watch EXCEPT ![p] = to] /\ watch[p] = "wait"
    BY <1>37 DEF WatchWakes, WatchMoves
  <2>3. UNCHANGED <<entry, pairs, handler, ttl, world>>
    BY <1>37 DEF WatchWakes, WatchMoves
  <2>4. watch' \in [Procs -> WatchPCs]
    BY <2>2
  <2>6. fails' \in [Procs -> 0..MaxFails]
    <3>1. 0 \in 0..MaxFails
      OBVIOUS
    <3> QED BY <2>1, <3>1, Zenon
  <2>5. FailsBelowLimit'
    BY <2>1, <2>2
  <2> QED BY <2>3, <2>4, <2>5, <2>6
<1>38. ASSUME NEW p \in Procs, WatchProbes(p) PROVE TypeOK' /\ FailsBelowLimit'
  BY <1>38 DEF WatchProbes, WatchMoves, TooManyFails
<1>39. ASSUME NEW p \in Procs, OnExit(p) PROVE TypeOK' /\ FailsBelowLimit'
  <2>1. fails' = [fails EXCEPT ![p] = 0] /\ watch' = [watch EXCEPT ![p] = "drain503"]
    BY <1>39 DEF OnExit, WatchMoves
  <2>2. FailsBelowLimit'
    BY <2>1
  <2>3. fails' \in [Procs -> 0..MaxFails] /\ watch' \in [Procs -> WatchPCs]
    BY <2>1
  <2>4. state' \in States /\ proc' \in Procs \union {NoProc} /\ assigned' \in BOOLEAN
    BY <1>39 DEF OnExit, MarkUnloaded
  <2>5. UNCHANGED <<activeRequests, queue, idle, pairs, handler, ttl, world>>
    BY <1>39 DEF OnExit, WatchMoves, MarkUnloaded
  <2> QED BY <2>2, <2>3, <2>4, <2>5
<1>40. ASSUME NEW p \in Procs, OnExitSkipped(p) PROVE TypeOK' /\ FailsBelowLimit'
  BY <1>40 DEF OnExitSkipped, WatchMoves
<1>41. ASSUME NEW p \in Procs, WatchDrains(p) PROVE TypeOK' /\ FailsBelowLimit'
  <2>1. CASE PopRejected /\ UNCHANGED <<handler, ttl, health, world>>
    BY <2>1, PopTypes DEF PopRejected
  <2>2. CASE WatchMoves(p, "drain503", "done") /\ UNCHANGED <<entry, pairs, fails>>
    BY <2>2 DEF WatchMoves
  <2> QED BY <1>41, <2>1, <2>2 DEF WatchDrains
<1>42. ASSUME NEW p \in Procs, EngineListens(p) PROVE TypeOK' /\ FailsBelowLimit'
  BY <1>42 DEF EngineListens, EngineMoves
<1>43. ASSUME NEW p \in Procs, EngineCloses(p) PROVE TypeOK' /\ FailsBelowLimit'
  BY <1>43 DEF EngineCloses, EngineMoves
<1>44. ASSUME NEW p \in Procs, EngineExits(p) PROVE TypeOK' /\ FailsBelowLimit'
  BY <1>44 DEF EngineExits, EngineMoves
<1>45. ASSUME NEW p \in Procs, EngineCrashes(p) PROVE TypeOK' /\ FailsBelowLimit'
  BY <1>45 DEF EngineCrashes, EngineMoves
<1>46. ASSUME TimePasses PROVE TypeOK' /\ FailsBelowLimit'
  BY <1>46 DEF TimePasses
<1>47. ASSUME UNCHANGED vars PROVE TypeOK' /\ FailsBelowLimit'
  BY <1>47 DEF vars
<1>48. ASSUME NEW r \in Requests, AssignPanics(r) PROVE TypeOK' /\ FailsBelowLimit'
  BY <1>48 DEF AssignPanics, Steps, Moves
<1>49. ASSUME TTLSignal PROVE TypeOK' /\ FailsBelowLimit'
  BY <1>49 DEF TTLSignal, TTLMoves, Signalled
<1>50. ASSUME NEW p \in Procs, EngineHangs(p) PROVE TypeOK' /\ FailsBelowLimit'
  BY <1>50 DEF EngineHangs
<1> QED
  BY <1>1, <1>2, <1>3, <1>4, <1>5, <1>6, <1>7, <1>8, <1>9, <1>10, <1>11,
       <1>12, <1>13, <1>14, <1>15, <1>16, <1>17, <1>18, <1>19, <1>20, <1>21,
       <1>22, <1>23, <1>24, <1>25, <1>26, <1>27, <1>28, <1>29, <1>30, <1>31,
       <1>32, <1>33, <1>34, <1>35, <1>36, <1>37, <1>38, <1>39, <1>40, <1>41,
       <1>42, <1>43, <1>44, <1>45, <1>46, <1>47, <1>48, <1>49, <1>50
  DEF Next, Handle, TTL, Watch, World

\* The types hold at the start.
LEMMA TypeInit == Init => TypeOK /\ FailsBelowLimit
<1> SUFFICES ASSUME Init PROVE TypeOK /\ FailsBelowLimit
  OBVIOUS
<1>1. asleep \in [Procs -> BOOLEAN] /\ assigned \in BOOLEAN
  BY Zenon DEF Init
<1>2. FailsBelowLimit
  BY DEF Init, FailsBelowLimit
<1>3. queue \in Seq(Requests) /\ fails \in [Procs -> 0..MaxFails] /\ idle \in 0..MaxIdle
  BY MaxIdleAssumption, MaxFailsAssumption DEF Init
<1>4. hpc \in [Requests -> HandlerPCs] /\ watch \in [Procs -> WatchPCs]
      /\ engine \in [Procs -> EngineStates] /\ hproc \in [Requests -> Procs \union {NoProc}]
      /\ reply \in [Requests -> {"open", "granted", "rejected"}]
      /\ answer \in [Requests -> {"none", "proxied", "503"}]
  BY DEF Init, HandlerPCs, WatchPCs, EngineStates
<1> QED BY <1>1, <1>2, <1>3, <1>4 DEF Init, TypeOK, States, TTLPCs

\* Every variable stays in its type: in particular no watcher goes on after its
\* limit of failed checks.
THEOREM TypeCorrect == Spec => []TypeOK
BY TypeInit, TypeStep, PTL DEF Spec

\* What is left of the queue when one request is received from it.
LEMMA TailItems ==
  ASSUME TypeOK, queue # <<>>
  PROVE  /\ 1 \in 1..Len(queue) /\ Head(queue) = queue[1]
         /\ Len(Tail(queue)) = Len(queue) - 1
         /\ \A i \in 1..Len(Tail(queue)) :
              i + 1 \in 1..Len(queue) /\ Tail(queue)[i] = queue[i + 1]
BY DEF TypeOK

\* Receiving a request closes its done channel, and no other's.
LEMMA PopStep ==
  ASSUME TypeOK, QueueInv, PopGranted \/ PopRejected, UNCHANGED hpc
  PROVE  QueueInv'
<1>1. queue # <<>> /\ queue' = Tail(queue)
  BY DEF PopGranted, PopRejected
<1>2. /\ \A r \in Requests : r # queue[1] => reply'[r] = reply[r] /\ answer'[r] = answer[r]
      /\ reply'[queue[1]] \in {"granted", "rejected"}
  BY <1>1, TailItems DEF PopGranted, PopRejected, TypeOK
<1>3. \A i \in 1..Len(queue') : /\ i + 1 \in 1..Len(queue) /\ queue'[i] = queue[i + 1]
                                /\ queue[i + 1] # queue[1] /\ queue[i + 1] \in Requests
  BY <1>1, TailItems DEF QueueInv, TypeOK
<1>4. \A i, j \in 1..Len(queue') : queue'[i] = queue'[j] => i = j
  BY <1>3 DEF QueueInv
<1>5. \A i \in 1..Len(queue') :
        /\ reply'[queue'[i]] = "open" /\ answer'[queue'[i]] = "none"
        /\ hpc'[queue'[i]] \notin {"arrive", "enqueue", "forward", "complete"}
  BY <1>2, <1>3 DEF QueueInv
<1>6. \A r \in Requests :
        /\ hpc'[r] \in {"arrive", "enqueue"} => reply'[r] = "open" /\ answer'[r] = "none"
        /\ hpc'[r] \in {"forward", "complete"} => reply'[r] = "granted"
        /\ reply'[r] = "granted" /\ hpc'[r] \notin {"complete", "ended"} => answer'[r] = "none"
  BY <1>1, <1>2, TailItems DEF QueueInv, PopGranted, PopRejected, TypeOK
<1> QED BY <1>4, <1>5, <1>6 DEF QueueInv

\* Every step keeps each queued request single and unanswered.
LEMMA QueueStep == TypeOK /\ QueueInv /\ [Next]_vars => QueueInv'
<1> SUFFICES ASSUME TypeOK, QueueInv, [Next]_vars PROVE QueueInv'
  OBVIOUS
<1> USE NoProcAssumption, QueueDepthAssumption
    DEF TypeOK, QueueInv, entry, pairs, handler, ttl, health, world
<1>1. ASSUME NEW r \in Requests, Arrive(r) PROVE QueueInv'
  BY <1>1 DEF Arrive, Moves
<1>2. ASSUME NEW r \in Requests, Enqueue(r) PROVE QueueInv'
  BY <1>2 DEF Enqueue, Moves
<1>3. ASSUME NEW r \in Requests, QueueFull(r) PROVE QueueInv'
  BY <1>3 DEF QueueFull, Moves
<1>4. ASSUME NEW r \in Requests, Dispatch(r) PROVE QueueInv'
  <2>1. /\ hpc[r] = "dispatch" /\ UNCHANGED <<ttl, health, entry, pairs, hproc, world>>
        /\ \E to \in {"drain", "wake", "waiting", "claim"} : hpc' = [hpc EXCEPT ![r] = to]
    BY <1>4 DEF Dispatch, Steps, Moves, States, Sleeping
  <2> QED BY <2>1
<1>5. ASSUME NEW r \in Requests, Wake(r) PROVE QueueInv'
  BY <1>5 DEF Wake, Moves
<1>6. ASSUME NEW r \in Requests, WakePost(r) PROVE QueueInv'
  BY <1>6 DEF WakePost, Moves
<1>7. ASSUME NEW r \in Requests, WakePoll(r) PROVE QueueInv'
  BY <1>7 DEF WakePoll, Steps, Moves
<1>8. ASSUME NEW r \in Requests, WakeDone(r) PROVE QueueInv'
  BY <1>8 DEF WakeDone, Moves
<1>9. ASSUME NEW r \in Requests, Claim(r) PROVE QueueInv'
  BY <1>9 DEF Claim, Moves, Claimable
<1>10. ASSUME NEW r \in Requests, AssignSucceeds(r) PROVE QueueInv'
  BY <1>10 DEF AssignSucceeds, Moves
<1>11. ASSUME NEW r \in Requests, AssignFails(r) PROVE QueueInv'
  BY <1>11 DEF AssignFails, Moves
<1>12. ASSUME NEW r \in Requests, Launch(r) PROVE QueueInv'
  BY <1>12 DEF Launch, Moves
<1>13. ASSUME NEW r \in Requests, LaunchFails(r) PROVE QueueInv'
  BY <1>13 DEF LaunchFails, Moves
<1>14. ASSUME NEW r \in Requests, LaunchReset(r) PROVE QueueInv'
  BY <1>14 DEF LaunchReset, Moves
<1>15. ASSUME NEW r \in Requests, Register(r) PROVE QueueInv'
  BY <1>15 DEF Register, Moves
<1>16. ASSUME NEW r \in Requests, HealthOk(r) PROVE QueueInv'
  BY <1>16 DEF HealthOk, Steps, Moves
<1>17. ASSUME NEW r \in Requests, HealthExited(r) PROVE QueueInv'
  BY <1>17 DEF HealthExited, Steps, Moves
<1>18. ASSUME NEW r \in Requests, HealthTimesOut(r) PROVE QueueInv'
  BY <1>18 DEF HealthTimesOut, Moves, Signalled
<1>19. ASSUME NEW r \in Requests, HealthKilled(r) PROVE QueueInv'
  BY <1>19 DEF HealthKilled, Moves
<1>20. ASSUME NEW r \in Requests, HealthReset(r) PROVE QueueInv'
  BY <1>20 DEF HealthReset, Moves, MarkUnloaded
<1>21. ASSUME NEW r \in Requests, Activate(r) PROVE QueueInv'
  BY <1>21 DEF Activate
<1>22. ASSUME NEW r \in Requests, Waiting(r) PROVE QueueInv'
  <2> PICK to \in {"drain", "drain503"} : Steps(r, "waiting", to)
    BY <1>22 DEF Waiting
  <2> QED BY DEF Steps, Moves
<1>23. ASSUME NEW r \in Requests, Drain(r) PROVE QueueInv'
  <2>1. CASE (PopGranted \/ PopRejected) /\ UNCHANGED hpc
    BY <2>1, PopStep
  <2>2. CASE /\ \E pc \in {"drain", "drain503"} : Moves(r, pc, "await")
             /\ UNCHANGED <<entry, pairs>>
    BY <2>2 DEF Moves
  <2> QED BY <1>23, <2>1, <2>2 DEF Drain
<1>24. ASSUME NEW r \in Requests, Released(r) PROVE QueueInv'
  BY <1>24 DEF Released, Steps, Moves
<1>25. ASSUME NEW r \in Requests, ClientGone(r) PROVE QueueInv'
  BY <1>25 DEF ClientGone, Steps, Moves
<1>26. ASSUME NEW r \in Requests, Forward(r) PROVE QueueInv'
  BY <1>26 DEF Forward, Moves
<1>27. ASSUME NEW r \in Requests, ForwardAborts(r) PROVE QueueInv'
  BY <1>27 DEF ForwardAborts, Moves
<1>28. ASSUME NEW r \in Requests, Complete(r) PROVE QueueInv'
  BY <1>28 DEF Complete, Moves
<1>29. ASSUME TTLTick PROVE QueueInv'
  BY <1>29 DEF TTLTick, TTLMoves
<1>30. ASSUME TTLRecheck PROVE QueueInv'
  BY <1>30 DEF TTLRecheck, TTLMoves, TTLReturns, TTLKills
<1>31. ASSUME TTLSleepPost PROVE QueueInv'
  BY <1>31 DEF TTLSleepPost, TTLMoves, TTLReturns
<1>32. ASSUME TTLSleepPoll PROVE QueueInv'
  BY <1>32 DEF TTLSleepPoll, TTLMoves, TTLReturns
<1>33. ASSUME TTLSleepDone PROVE QueueInv'
  BY <1>33 DEF TTLSleepDone, TTLMoves, TTLReturns, SleepTarget
<1>34. ASSUME TTLKill PROVE QueueInv'
  BY <1>34 DEF TTLKill, TTLMoves, MarkUnloaded
<1>35. ASSUME TTLKillSkipped PROVE QueueInv'
  BY <1>35 DEF TTLKillSkipped, TTLMoves, TTLReturns
<1>36. ASSUME TTLKilled PROVE QueueInv'
  BY <1>36 DEF TTLKilled, TTLMoves, TTLReturns
<1>37. ASSUME NEW p \in Procs, WatchWakes(p) PROVE QueueInv'
  BY <1>37 DEF WatchWakes, WatchMoves
<1>38. ASSUME NEW p \in Procs, WatchProbes(p) PROVE QueueInv'
  BY <1>38 DEF WatchProbes, WatchMoves, TooManyFails
<1>39. ASSUME NEW p \in Procs, OnExit(p) PROVE QueueInv'
  BY <1>39 DEF OnExit, WatchMoves, MarkUnloaded
<1>40. ASSUME NEW p \in Procs, OnExitSkipped(p) PROVE QueueInv'
  BY <1>40 DEF OnExitSkipped, WatchMoves
<1>41. ASSUME NEW p \in Procs, WatchDrains(p) PROVE QueueInv'
  <2>1. CASE PopRejected /\ UNCHANGED hpc
    BY <2>1, PopStep
  <2>2. CASE UNCHANGED <<handler, entry, pairs>>
    BY <2>2
  <2> QED BY <1>41, <2>1, <2>2 DEF WatchDrains, WatchMoves
<1>42. ASSUME NEW p \in Procs, EngineListens(p) PROVE QueueInv'
  BY <1>42 DEF EngineListens, EngineMoves
<1>43. ASSUME NEW p \in Procs, EngineCloses(p) PROVE QueueInv'
  BY <1>43 DEF EngineCloses, EngineMoves
<1>44. ASSUME NEW p \in Procs, EngineExits(p) PROVE QueueInv'
  BY <1>44 DEF EngineExits, EngineMoves
<1>45. ASSUME NEW p \in Procs, EngineCrashes(p) PROVE QueueInv'
  BY <1>45 DEF EngineCrashes, EngineMoves
<1>46. ASSUME TimePasses PROVE QueueInv'
  BY <1>46 DEF TimePasses
<1>47. ASSUME UNCHANGED vars PROVE QueueInv'
  BY <1>47 DEF vars
<1>48. ASSUME NEW r \in Requests, AssignPanics(r) PROVE QueueInv'
  BY <1>48 DEF AssignPanics, Steps, Moves
<1>49. ASSUME TTLSignal PROVE QueueInv'
  BY <1>49 DEF TTLSignal, TTLMoves, Signalled
<1>50. ASSUME NEW p \in Procs, EngineHangs(p) PROVE QueueInv'
  BY <1>50 DEF EngineHangs
<1> QED
  BY <1>1, <1>2, <1>3, <1>4, <1>5, <1>6, <1>7, <1>8, <1>9, <1>10, <1>11,
       <1>12, <1>13, <1>14, <1>15, <1>16, <1>17, <1>18, <1>19, <1>20, <1>21,
       <1>22, <1>23, <1>24, <1>25, <1>26, <1>27, <1>28, <1>29, <1>30, <1>31,
       <1>32, <1>33, <1>34, <1>35, <1>36, <1>37, <1>38, <1>39, <1>40, <1>41,
       <1>42, <1>43, <1>44, <1>45, <1>46, <1>47, <1>48, <1>49, <1>50
  DEF Next, Handle, TTL, Watch, World

\* A queued request is queued once, and its done channel is open: no two drainers
\* close it twice.
THEOREM QueueCorrect == Spec => []QueuedOnceAndOpen
<1>1. Init => QueueInv
  BY DEF Init, QueueInv
<1>2. QueueInv => QueuedOnceAndOpen
  BY DEF QueueInv, QueuedOnceAndOpen
<1> QED BY <1>1, <1>2, QueueStep, TypeCorrect, PTL DEF Spec

\* Whoever writes an answer finds none written.
LEMMA AnswerStep == TypeOK /\ QueueInv /\ [Next]_vars => AnswersOnce
<1> SUFFICES ASSUME TypeOK, QueueInv, [Next]_vars PROVE AnswersOnce
  OBVIOUS
<1> USE DEF AnswersOnce, TypeOK, QueueInv, entry, pairs, handler, ttl, health, world
<1>1. ASSUME NEW r \in Requests,
            \/ Arrive(r) \/ Enqueue(r) \/ Dispatch(r)
            \/ Wake(r) \/ WakePost(r) \/ WakePoll(r)
            \/ WakeDone(r) \/ Claim(r) \/ AssignSucceeds(r)
     PROVE  UNCHANGED answer
  BY <1>1 DEF Arrive, Moves, Enqueue, Dispatch, Steps, Wake, WakePost, WakePoll, WakeDone, Claim,
     Claimable, AssignSucceeds
<1>2. ASSUME NEW r \in Requests,
            \/ AssignFails(r) \/ AssignPanics(r) \/ Launch(r) \/ LaunchFails(r)
            \/ LaunchReset(r) \/ Register(r) \/ HealthOk(r)
            \/ HealthExited(r) \/ HealthTimesOut(r) \/ HealthKilled(r)
     PROVE  UNCHANGED answer
  BY <1>2 DEF AssignFails, AssignPanics, Moves, Launch, LaunchFails, LaunchReset, Register,
     HealthOk, Steps, HealthExited, HealthTimesOut, Signalled, HealthKilled
<1>3. ASSUME NEW r \in Requests,
            \/ HealthReset(r) \/ Activate(r) \/ Waiting(r)
            \/ Released(r) \/ ClientGone(r) \/ Complete(r)
     PROVE  UNCHANGED answer
  BY <1>3 DEF HealthReset, Moves, MarkUnloaded, Activate, Waiting, Steps, Released,
     ClientGone, Complete
<1>4. ASSUME NEW r \in Requests, QueueFull(r) PROVE AnswersOnce
  BY <1>4 DEF QueueFull, Moves
<1>5. ASSUME NEW r \in Requests, Drain(r) PROVE AnswersOnce
  <2>1. UNCHANGED answer \/ PopRejected
    BY <1>5 DEF Drain, PopGranted, Moves
  <2> QED BY <2>1, TailItems DEF PopRejected
<1>6. ASSUME NEW r \in Requests, Forward(r) PROVE AnswersOnce
  BY <1>6 DEF Forward, Moves
<1>7. ASSUME NEW r \in Requests, ForwardAborts(r) PROVE AnswersOnce
  BY <1>7 DEF ForwardAborts, Moves
<1>8. ASSUME TTLTick \/ TTLRecheck \/ TTLSleepPost
            \/ TTLSleepPoll \/ TTLSleepDone \/ TTLKill
            \/ TTLKillSkipped \/ TTLSignal \/ TTLKilled
     PROVE  UNCHANGED answer
  BY <1>8 DEF TTLTick, TTLMoves, TTLRecheck, TTLReturns, TTLKills, TTLSleepPost, TTLSleepPoll,
     TTLSleepDone, SleepTarget, TTLKill, MarkUnloaded, TTLSignal, TTLKillSkipped, TTLKilled
<1>9. ASSUME NEW p \in Procs,
            \/ WatchWakes(p) \/ WatchProbes(p) \/ OnExit(p)
            \/ OnExitSkipped(p)
     PROVE  UNCHANGED answer
  BY <1>9 DEF WatchWakes, WatchMoves, WatchProbes, TooManyFails, OnExit, MarkUnloaded, OnExitSkipped
<1>10. ASSUME NEW p \in Procs, WatchDrains(p) PROVE AnswersOnce
  <2>1. UNCHANGED answer \/ PopRejected
    BY <1>10 DEF WatchDrains
  <2> QED BY <2>1, TailItems DEF PopRejected
<1>11. ASSUME NEW p \in Procs,
            \/ EngineListens(p) \/ EngineCloses(p) \/ EngineExits(p)
            \/ EngineCrashes(p) \/ EngineHangs(p)
     PROVE  UNCHANGED answer
  BY <1>11 DEF EngineListens, EngineMoves, EngineCloses, EngineExits, EngineCrashes,
     EngineHangs
<1>12. CASE TimePasses \/ UNCHANGED vars
  BY <1>12 DEF TimePasses, vars
<1>13. UNCHANGED answer => AnswersOnce
  OBVIOUS
<1> HIDE DEF AnswersOnce, TypeOK, QueueInv, entry, pairs, handler, ttl, health, world
<1> QED
  BY <1>1, <1>2, <1>3, <1>4, <1>5, <1>6, <1>7, <1>8, <1>9, <1>10, <1>11, <1>12, <1>13
  DEF Next, Handle, TTL, Watch, World

\* No request is answered twice.
THEOREM AnswerCorrect == Spec => AnsweredOnce
<1>1. Init => QueueInv
  BY DEF Init, QueueInv
<1>2. TypeOK /\ QueueInv /\ [Next]_vars => [AnswersOnce]_vars
  BY AnswerStep
<1> QED BY <1>1, <1>2, QueueStep, TypeCorrect, PTL DEF Spec, AnsweredOnce, AnswersOnce

\* Every step keeps the invariant.
LEMMA EntryStep == TypeOK /\ EntryCore /\ SlowStart /\ [Next]_vars => EntryCore'
<1> SUFFICES ASSUME TypeOK, EntryCore, SlowStart, [Next]_vars PROVE EntryCore'
  OBVIOUS
<1> USE NoProcAssumption
    DEF TypeOK, EntryCore, OneLoader, Claimed, Loading, LoaderPCs, ProcessMatchesState, NeverPanics,
        LoaderProcess, Remembered, UnbornUnknown, LoaderAlone, Launching, Owning, Serving,
        Sleeping, Accepts, Answering, Listener, StillCurrent, entry, pairs, handler, ttl,
        health, world
<1>1. ASSUME NEW r \in Requests, Arrive(r) PROVE EntryCore'
  BY <1>1 DEF Arrive, Moves
<1>2. ASSUME NEW r \in Requests, Enqueue(r) PROVE EntryCore'
  BY <1>2 DEF Enqueue, Moves
<1>3. ASSUME NEW r \in Requests, QueueFull(r) PROVE EntryCore'
  BY <1>3 DEF QueueFull, Moves
<1>4. ASSUME NEW r \in Requests, Dispatch(r) PROVE EntryCore'
  <2>1. /\ hpc[r] = "dispatch" /\ UNCHANGED <<ttl, health, entry, pairs, hproc, world>>
        /\ \E to \in {"drain", "wake", "waiting", "claim"} :
             /\ hpc' = [hpc EXCEPT ![r] = to]
             /\ to = "wake" => state \in Sleeping
    BY <1>4 DEF Dispatch, Steps, Moves, States
  <2> QED BY <2>1
<1>5. ASSUME NEW r \in Requests, Wake(r) PROVE EntryCore'
  BY <1>5 DEF Wake, Moves
<1>6. ASSUME NEW r \in Requests, WakePost(r) PROVE EntryCore'
  BY <1>6 DEF WakePost, Moves
<1>7. ASSUME NEW r \in Requests, WakePoll(r) PROVE EntryCore'
  BY <1>7 DEF WakePoll, Steps, Moves
<1>8. ASSUME NEW r \in Requests, WakeDone(r) PROVE EntryCore'
  BY <1>8 DEF WakeDone, Moves
<1>9. ASSUME NEW r \in Requests, Claim(r) PROVE EntryCore'
  BY <1>9 DEF Claim, Moves, Claimable
<1>10. ASSUME NEW r \in Requests, AssignSucceeds(r) PROVE EntryCore'
  BY <1>10 DEF AssignSucceeds, Moves
<1>11. ASSUME NEW r \in Requests, AssignFails(r) PROVE EntryCore'
  BY <1>11 DEF AssignFails, Moves
<1>12. ASSUME NEW r \in Requests, Launch(r) PROVE EntryCore'
  BY <1>12 DEF Launch, Moves
<1>13. ASSUME NEW r \in Requests, LaunchFails(r) PROVE EntryCore'
  BY <1>13 DEF LaunchFails, Moves
<1>14. ASSUME NEW r \in Requests, LaunchReset(r) PROVE EntryCore'
  BY <1>14 DEF LaunchReset, Moves
<1>15. ASSUME NEW r \in Requests, Register(r) PROVE EntryCore'
  BY <1>15 DEF Register, Moves
<1>16. ASSUME NEW r \in Requests, HealthOk(r) PROVE EntryCore'
  BY <1>16 DEF HealthOk, Steps, Moves
<1>17. ASSUME NEW r \in Requests, HealthExited(r) PROVE EntryCore'
  BY <1>17 DEF HealthExited, Steps, Moves
<1>18. ASSUME NEW r \in Requests, HealthTimesOut(r) PROVE EntryCore'
  BY <1>18 DEF HealthTimesOut, Moves, Signalled
<1>19. ASSUME NEW r \in Requests, HealthKilled(r) PROVE EntryCore'
  BY <1>19 DEF HealthKilled, Moves
<1>20. ASSUME NEW r \in Requests, HealthReset(r) PROVE EntryCore'
  BY <1>20 DEF HealthReset, Moves, MarkUnloaded
<1>21. ASSUME NEW r \in Requests, Activate(r) PROVE EntryCore'
  BY <1>21 DEF Activate
<1>22. ASSUME NEW r \in Requests, Waiting(r) PROVE EntryCore'
  BY <1>22 DEF Waiting, Steps, Moves
<1>23. ASSUME NEW r \in Requests, Drain(r) PROVE EntryCore'
  <2>1. \/ UNCHANGED <<state, proc, assigned, handler, ttl, health, world>>
        \/ /\ \E pc \in {"drain", "drain503"} : Moves(r, pc, "await")
           /\ hproc' = [hproc EXCEPT ![r] = NoProc] /\ UNCHANGED <<entry, pairs, world>>
    BY <1>23 DEF Drain, PopGranted, PopRejected
  <2>2. CASE UNCHANGED <<state, proc, assigned, handler, ttl, health, world>>
    BY <2>2
  <2>3. CASE /\ \E pc \in {"drain", "drain503"} : Moves(r, pc, "await")
             /\ hproc' = [hproc EXCEPT ![r] = NoProc] /\ UNCHANGED <<entry, pairs, world>>
    <3>1. /\ hpc[r] \in {"drain", "drain503"} /\ hpc' = [hpc EXCEPT ![r] = "await"]
          /\ hproc' = [hproc EXCEPT ![r] = NoProc]
          /\ UNCHANGED <<entry, pairs, world, ttl, health>>
      BY <2>3 DEF Moves
    <3>2. OneLoader' /\ ProcessMatchesState' /\ NeverPanics' /\ LoaderProcess'
      BY <3>1
    <3>3. Remembered' /\ UnbornUnknown'
      BY <3>1
    <3>4. LoaderAlone'
      BY <3>1
    <3> QED BY <3>2, <3>3, <3>4
  <2> QED BY <2>1, <2>2, <2>3
<1>24. ASSUME NEW r \in Requests, Released(r) PROVE EntryCore'
  BY <1>24 DEF Released, Steps, Moves
<1>25. ASSUME NEW r \in Requests, ClientGone(r) PROVE EntryCore'
  BY <1>25 DEF ClientGone, Steps, Moves
<1>26. ASSUME NEW r \in Requests, Forward(r) PROVE EntryCore'
  BY <1>26 DEF Forward, Moves
<1>27. ASSUME NEW r \in Requests, ForwardAborts(r) PROVE EntryCore'
  BY <1>27 DEF ForwardAborts, Moves
<1>28. ASSUME NEW r \in Requests, Complete(r) PROVE EntryCore'
  BY <1>28 DEF Complete, Moves
<1>29. ASSUME TTLTick PROVE EntryCore'
  BY <1>29 DEF TTLTick, TTLMoves
<1>30. ASSUME TTLRecheck PROVE EntryCore'
  BY <1>30 DEF TTLRecheck, TTLMoves, TTLReturns, TTLKills
<1>31. ASSUME TTLSleepPost PROVE EntryCore'
  BY <1>31 DEF TTLSleepPost, TTLMoves, TTLReturns
<1>32. ASSUME TTLSleepPoll PROVE EntryCore'
  BY <1>32 DEF TTLSleepPoll, TTLMoves, TTLReturns
<1>33. ASSUME TTLSleepDone PROVE EntryCore'
  BY <1>33 DEF TTLSleepDone, TTLMoves, TTLReturns, SleepTarget
<1>34. ASSUME TTLKill PROVE EntryCore'
  BY <1>34 DEF TTLKill, TTLMoves, MarkUnloaded
<1>35. ASSUME TTLKillSkipped PROVE EntryCore'
  BY <1>35 DEF TTLKillSkipped, TTLMoves, TTLReturns
<1>36. ASSUME TTLKilled PROVE EntryCore'
  BY <1>36 DEF TTLKilled, TTLMoves, TTLReturns
<1>37. ASSUME NEW p \in Procs, WatchWakes(p) PROVE EntryCore'
  BY <1>37 DEF WatchWakes, WatchMoves
<1>38. ASSUME NEW p \in Procs, WatchProbes(p) PROVE EntryCore'
  BY <1>38 DEF WatchProbes, WatchMoves, TooManyFails
<1>39. ASSUME NEW p \in Procs, OnExit(p) PROVE EntryCore'
  BY <1>39 DEF OnExit, WatchMoves, MarkUnloaded
<1>40. ASSUME NEW p \in Procs, OnExitSkipped(p) PROVE EntryCore'
  BY <1>40 DEF OnExitSkipped, WatchMoves
<1>41. ASSUME NEW p \in Procs, WatchDrains(p) PROVE EntryCore'
  <2>1. CASE PopRejected /\ UNCHANGED <<handler, ttl, health, world>>
    BY <2>1 DEF PopRejected
  <2>2. CASE WatchMoves(p, "drain503", "done") /\ UNCHANGED <<entry, pairs, fails>>
    BY <2>2 DEF WatchMoves
  <2> QED BY <1>41, <2>1, <2>2 DEF WatchDrains
<1>42. ASSUME NEW p \in Procs, EngineListens(p) PROVE EntryCore'
  BY <1>42 DEF EngineListens, EngineMoves
<1>43. ASSUME NEW p \in Procs, EngineCloses(p) PROVE EntryCore'
  BY <1>43 DEF EngineCloses, EngineMoves
<1>44. ASSUME NEW p \in Procs, EngineExits(p) PROVE EntryCore'
  BY <1>44 DEF EngineExits, EngineMoves
<1>45. ASSUME NEW p \in Procs, EngineCrashes(p) PROVE EntryCore'
  BY <1>45 DEF EngineCrashes, EngineMoves
<1>46. ASSUME TimePasses PROVE EntryCore'
  BY <1>46 DEF TimePasses
<1>47. ASSUME UNCHANGED vars PROVE EntryCore'
  BY <1>47 DEF vars
<1>48. ASSUME NEW r \in Requests, AssignPanics(r) PROVE EntryCore'
  BY <1>48 DEF AssignPanics, Steps, Moves
<1>49. ASSUME TTLSignal PROVE EntryCore'
  BY <1>49 DEF TTLSignal, TTLMoves, Signalled
<1>50. ASSUME NEW p \in Procs, EngineHangs(p) PROVE EntryCore'
  <2>1. UNCHANGED <<entry, handler, ttl, watch, engine, socket>>
    BY <1>50 DEF EngineHangs
  <2> QED BY <2>1
<1> QED
  BY <1>1, <1>2, <1>3, <1>4, <1>5, <1>6, <1>7, <1>8, <1>9, <1>10, <1>11,
       <1>12, <1>13, <1>14, <1>15, <1>16, <1>17, <1>18, <1>19, <1>20, <1>21,
       <1>22, <1>23, <1>24, <1>25, <1>26, <1>27, <1>28, <1>29, <1>30, <1>31,
       <1>32, <1>33, <1>34, <1>35, <1>36, <1>37, <1>38, <1>39, <1>40, <1>41,
       <1>42, <1>43, <1>44, <1>45, <1>46, <1>47, <1>48, <1>49, <1>50
  DEF Next, Handle, TTL, Watch, World

\* The invariant holds, if engines start as slowly as SlowStart says.
THEOREM EntryInvariant == ASSUME SlowStart PROVE Spec => []EntryCore
<1>1. Init => EntryCore
  BY NoProcAssumption DEF Init, EntryCore, OneLoader, Claimed, Loading, LoaderPCs,
     ProcessMatchesState, NeverPanics, LoaderProcess, Remembered, UnbornUnknown, LoaderAlone,
     Launching, Owning, Serving, Sleeping
<1>2. TypeOK /\ EntryCore /\ [Next]_vars => EntryCore'
  BY EntryStep
<1> QED BY <1>1, <1>2, TypeCorrect, PTL DEF Spec

\* At most one handler loads the model, and a model that is LOADING is being loaded.
THEOREM OneLoaderCorrect == ASSUME SlowStart PROVE Spec => []OneLoader
BY EntryInvariant, PTL DEF EntryCore

\* The process and the group of an entry agree with its state.
THEOREM ProcessCorrect == ASSUME SlowStart PROVE Spec => []ProcessMatchesState
BY EntryInvariant, PTL DEF EntryCore

\* The TTL goroutine never kills a nil process.
THEOREM PanicFree == ASSUME SlowStart PROVE Spec => []NeverPanics
BY EntryInvariant, PTL DEF EntryCore

\* A handler that is not loading, and does not begin to, disturbs no engine.
LEMMA BystanderStep ==
  ASSUME TypeOK, EngineInv, NEW r \in Requests, hpc[r] \notin Owning,
         \E to \in HandlerPCs \ Owning : hpc' = [hpc EXCEPT ![r] = to],
         hproc' = hproc \/ hproc' = [hproc EXCEPT ![r] = NoProc], UNCHANGED <<watch, world>>
  PROVE  EngineInv'
<1> USE DEF TypeOK, EngineInv, Owning
<1>1. PICK to \in HandlerPCs \ Owning : hpc' = [hpc EXCEPT ![r] = to]
  OBVIOUS
<1>2. Listener' = Listener
  BY DEF Accepts, Listener, world
<1>3. \A s \in Requests : hpc'[s] \in Owning => s # r /\ hpc'[s] = hpc[s] /\ hproc'[s] = hproc[s]
  BY <1>1
<1>4. \A p \in Procs : engine'[p] = "starting" =>
        \E s \in Requests : hpc'[s] \in {"register", "health"} /\ hproc'[s] = p
  <2> SUFFICES ASSUME NEW p \in Procs, engine[p] = "starting"
               PROVE  \E s \in Requests : hpc'[s] \in {"register", "health"} /\ hproc'[s] = p
    BY DEF world
  <2>1. PICK s \in Requests : hpc[s] \in {"register", "health"} /\ hproc[s] = p
    OBVIOUS
  <2> QED BY <2>1, <1>1
<1>5. \A s \in Requests :
        /\ hpc'[s] \in Owning => Listener' \in {NoProc, hproc'[s]}
        /\ hpc'[s] = "activate" => engine'[hproc'[s]] \notin {"unborn", "starting"}
  BY <1>2, <1>3 DEF world
<1> QED BY <1>2, <1>4, <1>5 DEF world

\* Every step keeps what is known of the engines.
LEMMA EngineStep == TypeOK /\ EntryCore /\ EngineInv /\ [Next]_vars => EngineInv'
<1> SUFFICES ASSUME TypeOK, EntryCore, EngineInv, [Next]_vars PROVE EngineInv'
  OBVIOUS
<1> USE NoProcAssumption, MaxFailsAssumption
    DEF TypeOK, EngineInv, EntryCore, OneLoader, Claimed, Loading, LoaderPCs, LoaderProcess,
        UnbornUnknown, LoaderAlone, Owning, Accepts, Answering, Listener, StillCurrent,
        entry, pairs, handler, ttl, health, world
<1>1. ASSUME NEW r \in Requests, Arrive(r) PROVE EngineInv'
  BY <1>1 DEF Arrive, Moves
<1>2. ASSUME NEW r \in Requests, Enqueue(r) PROVE EngineInv'
  <2>1. hpc[r] \notin Owning /\ UNCHANGED <<hproc, watch, world>>
    BY <1>2 DEF Enqueue, Moves
  <2>2. \E to \in HandlerPCs \ Owning : hpc' = [hpc EXCEPT ![r] = to]
    BY <1>2 DEF Enqueue, Moves, HandlerPCs
  <2> QED BY <2>1, <2>2, BystanderStep
<1>3. ASSUME NEW r \in Requests, QueueFull(r) PROVE EngineInv'
  <2>1. hpc[r] \notin Owning /\ UNCHANGED <<hproc, watch, world>>
    BY <1>3 DEF QueueFull, Moves
  <2>2. \E to \in HandlerPCs \ Owning : hpc' = [hpc EXCEPT ![r] = to]
    BY <1>3 DEF QueueFull, Moves, HandlerPCs
  <2> QED BY <2>1, <2>2, BystanderStep
<1>4. ASSUME NEW r \in Requests, Dispatch(r) PROVE EngineInv'
  <2>1. hpc[r] \notin Owning /\ UNCHANGED <<hproc, watch, world>>
    BY <1>4 DEF Dispatch, Steps, Moves
  <2>2. \E to \in HandlerPCs \ Owning : hpc' = [hpc EXCEPT ![r] = to]
    BY <1>4 DEF Dispatch, Steps, Moves, States, Sleeping, WakerPCs, HandlerPCs
  <2> QED BY <2>1, <2>2, BystanderStep
<1>5. ASSUME NEW r \in Requests, Wake(r) PROVE EngineInv'
  BY <1>5 DEF Wake, Moves
<1>6. ASSUME NEW r \in Requests, WakePost(r) PROVE EngineInv'
  BY <1>6 DEF WakePost, Moves
<1>7. ASSUME NEW r \in Requests, WakePoll(r) PROVE EngineInv'
  BY <1>7 DEF WakePoll, Steps, Moves
<1>8. ASSUME NEW r \in Requests, WakeDone(r) PROVE EngineInv'
  BY <1>8 DEF WakeDone, Moves
<1>9. ASSUME NEW r \in Requests, Claim(r) PROVE EngineInv'
  BY <1>9 DEF Claim, Moves, Claimable
<1>10. ASSUME NEW r \in Requests, AssignSucceeds(r) PROVE EngineInv'
  BY <1>10 DEF AssignSucceeds, Moves
<1>11. ASSUME NEW r \in Requests, AssignFails(r) PROVE EngineInv'
  BY <1>11 DEF AssignFails, Moves
<1>12. ASSUME NEW r \in Requests, Launch(r) PROVE EngineInv'
  BY <1>12 DEF Launch, Moves
<1>13. ASSUME NEW r \in Requests, LaunchFails(r) PROVE EngineInv'
  BY <1>13 DEF LaunchFails, Moves
<1>14. ASSUME NEW r \in Requests, LaunchReset(r) PROVE EngineInv'
  BY <1>14 DEF LaunchReset, Moves
<1>15. ASSUME NEW r \in Requests, Register(r) PROVE EngineInv'
  BY <1>15 DEF Register, Moves
<1>16. ASSUME NEW r \in Requests, HealthOk(r) PROVE EngineInv'
  BY <1>16 DEF HealthOk, Steps, Moves
<1>17. ASSUME NEW r \in Requests, HealthExited(r) PROVE EngineInv'
  BY <1>17 DEF HealthExited, Steps, Moves
<1>18. ASSUME NEW r \in Requests, HealthTimesOut(r) PROVE EngineInv'
  BY <1>18 DEF HealthTimesOut, Moves, Signalled
<1>19. ASSUME NEW r \in Requests, HealthKilled(r) PROVE EngineInv'
  BY <1>19 DEF HealthKilled, Moves
<1>20. ASSUME NEW r \in Requests, HealthReset(r) PROVE EngineInv'
  <2>1. hpc[r] = "healthReset" /\ UNCHANGED <<hproc, watch, world>>
    BY <1>20 DEF HealthReset, Moves
  <2>2. hpc' = [hpc EXCEPT ![r] = "drain503"] /\ "drain503" \notin Owning
    BY <1>20 DEF HealthReset, Moves
  <2>3. Listener' = Listener
    BY <2>1
  <2>4. \A s \in Requests : hpc'[s] \in Owning => s # r /\ hpc'[s] = hpc[s]
    BY <2>2
  <2>5. \A p \in Procs : engine'[p] = "starting" =>
          \E s \in Requests : hpc'[s] \in {"register", "health"} /\ hproc'[s] = p
    <3> SUFFICES ASSUME NEW p \in Procs, engine[p] = "starting"
                 PROVE  \E s \in Requests : hpc'[s] \in {"register", "health"} /\ hproc'[s] = p
      BY <2>1
    <3>1. PICK s \in Requests : hpc[s] \in {"register", "health"} /\ hproc[s] = p
      OBVIOUS
    <3>2. s # r
      BY <2>1, <3>1
    <3> QED BY <2>1, <2>2, <3>1, <3>2
  <2> HIDE DEF Listener
  <2> QED BY <2>1, <2>3, <2>4, <2>5
<1>21. ASSUME NEW r \in Requests, Activate(r) PROVE EngineInv'
  BY <1>21 DEF Activate
<1>22. ASSUME NEW r \in Requests, Waiting(r) PROVE EngineInv'
  BY <1>22 DEF Waiting, Steps, Moves
<1>23. ASSUME NEW r \in Requests, Drain(r) PROVE EngineInv'
  <2>1. CASE UNCHANGED <<handler, health, world>>
    BY <2>1
  <2>2. CASE /\ \E pc \in {"drain", "drain503"} : Moves(r, pc, "await")
             /\ hproc' = [hproc EXCEPT ![r] = NoProc] /\ UNCHANGED world
    <3>1. /\ hpc[r] \notin Owning /\ UNCHANGED <<watch, world>>
          /\ "await" \in HandlerPCs \ Owning /\ hpc' = [hpc EXCEPT ![r] = "await"]
      BY <2>2 DEF Moves, HandlerPCs
    <3> QED BY <2>2, <3>1, BystanderStep
  <2> QED BY <1>23, <2>1, <2>2 DEF Drain
<1>24. ASSUME NEW r \in Requests, Released(r) PROVE EngineInv'
  <2>1. hpc[r] \notin Owning /\ UNCHANGED <<hproc, watch, world>>
    BY <1>24 DEF Released, Steps, Moves
  <2>2. \E to \in HandlerPCs \ Owning : hpc' = [hpc EXCEPT ![r] = to]
    BY <1>24 DEF Released, Steps, Moves, HandlerPCs
  <2> QED BY <2>1, <2>2, BystanderStep
<1>25. ASSUME NEW r \in Requests, ClientGone(r) PROVE EngineInv'
  <2>1. hpc[r] \notin Owning /\ UNCHANGED <<hproc, watch, world>>
    BY <1>25 DEF ClientGone, Steps, Moves
  <2>2. \E to \in HandlerPCs \ Owning : hpc' = [hpc EXCEPT ![r] = to]
    BY <1>25 DEF ClientGone, Steps, Moves, HandlerPCs
  <2> QED BY <2>1, <2>2, BystanderStep
<1>26. ASSUME NEW r \in Requests, Forward(r) PROVE EngineInv'
  <2>1. hpc[r] \notin Owning /\ UNCHANGED <<hproc, watch, world>>
    BY <1>26 DEF Forward, Moves
  <2>2. \E to \in HandlerPCs \ Owning : hpc' = [hpc EXCEPT ![r] = to]
    BY <1>26 DEF Forward, Moves, HandlerPCs
  <2> QED BY <2>1, <2>2, BystanderStep
<1>27. ASSUME NEW r \in Requests, ForwardAborts(r) PROVE EngineInv'
  <2>1. hpc[r] \notin Owning /\ UNCHANGED <<hproc, watch, world>>
    BY <1>27 DEF ForwardAborts, Moves
  <2>2. \E to \in HandlerPCs \ Owning : hpc' = [hpc EXCEPT ![r] = to]
    BY <1>27 DEF ForwardAborts, Moves, HandlerPCs
  <2> QED BY <2>1, <2>2, BystanderStep
<1>28. ASSUME NEW r \in Requests, Complete(r) PROVE EngineInv'
  <2>1. hpc[r] \notin Owning /\ UNCHANGED <<hproc, watch, world>>
    BY <1>28 DEF Complete, Moves
  <2>2. \E to \in HandlerPCs \ Owning : hpc' = [hpc EXCEPT ![r] = to]
    BY <1>28 DEF Complete, Moves, HandlerPCs
  <2> QED BY <2>1, <2>2, BystanderStep
<1>29. ASSUME TTLTick PROVE EngineInv'
  BY <1>29 DEF TTLTick, TTLMoves
<1>30. ASSUME TTLRecheck PROVE EngineInv'
  BY <1>30 DEF TTLRecheck, TTLMoves, TTLReturns, TTLKills
<1>31. ASSUME TTLSleepPost PROVE EngineInv'
  BY <1>31 DEF TTLSleepPost, TTLMoves, TTLReturns
<1>32. ASSUME TTLSleepPoll PROVE EngineInv'
  BY <1>32 DEF TTLSleepPoll, TTLMoves, TTLReturns
<1>33. ASSUME TTLSleepDone PROVE EngineInv'
  BY <1>33 DEF TTLSleepDone, TTLMoves, TTLReturns, SleepTarget
<1>34. ASSUME TTLKill PROVE EngineInv'
  BY <1>34 DEF TTLKill, TTLMoves, MarkUnloaded
<1>35. ASSUME TTLKillSkipped PROVE EngineInv'
  BY <1>35 DEF TTLKillSkipped, TTLMoves, TTLReturns
<1>36. ASSUME TTLKilled PROVE EngineInv'
  BY <1>36 DEF TTLKilled, TTLMoves, TTLReturns
<1>37. ASSUME NEW p \in Procs, WatchWakes(p) PROVE EngineInv'
  BY <1>37 DEF WatchWakes, WatchMoves
<1>38. ASSUME NEW p \in Procs, WatchProbes(p) PROVE EngineInv'
  BY <1>38 DEF WatchProbes, WatchMoves, TooManyFails
<1>39. ASSUME NEW p \in Procs, OnExit(p) PROVE EngineInv'
  BY <1>39 DEF OnExit, WatchMoves, MarkUnloaded
<1>40. ASSUME NEW p \in Procs, OnExitSkipped(p) PROVE EngineInv'
  BY <1>40 DEF OnExitSkipped, WatchMoves
<1>41. ASSUME NEW p \in Procs, WatchDrains(p) PROVE EngineInv'
  BY <1>41 DEF WatchDrains, WatchMoves, PopRejected
<1>42. ASSUME NEW p \in Procs, EngineListens(p) PROVE EngineInv'
  <2>1. /\ engine[p] = "starting" /\ engine' = [engine EXCEPT ![p] = "up"]
        /\ socket = NoProc /\ socket' = p /\ UNCHANGED <<handler, health>>
    BY <1>42 DEF EngineListens, EngineMoves
  <2>2. Listener' = p
    BY <2>1
  <2>3. \A q \in Procs : engine'[q] = "starting" =>
          \E r \in Requests : hpc'[r] \in {"register", "health"} /\ hproc'[r] = q
    BY <2>1
  <2>4. \A r \in Requests :
          /\ hpc'[r] \in Owning => Listener' \in {NoProc, hproc'[r]}
          /\ hpc'[r] = "activate" => engine'[hproc'[r]] \notin {"unborn", "starting"}
    <3> SUFFICES ASSUME NEW r \in Requests
                 PROVE  /\ hpc[r] \in Owning => p = hproc[r]
                        /\ hpc[r] = "activate" => engine'[hproc[r]] \notin {"unborn", "starting"}
      BY <2>1, <2>2
    <3>1. PICK s \in Requests : hpc[s] \in {"register", "health"} /\ hproc[s] = p
      BY <2>1
    <3>2. hpc[r] \in Owning => r = s
      BY <3>1
    <3> QED BY <2>1, <3>1, <3>2
  <2>5. \A q \in Procs : /\ watch'[q] # "none" => engine'[q] \notin {"unborn", "starting"}
                         /\ watch'[q] = "exit" => Listener' # q
    BY <2>1, <2>2
  <2> HIDE DEF Listener
  <2> QED BY <2>3, <2>4, <2>5
<1>43. ASSUME NEW p \in Procs, EngineCloses(p) PROVE EngineInv'
  BY <1>43 DEF EngineCloses, EngineMoves
<1>44. ASSUME NEW p \in Procs, EngineExits(p) PROVE EngineInv'
  BY <1>44 DEF EngineExits, EngineMoves
<1>45. ASSUME NEW p \in Procs, EngineCrashes(p) PROVE EngineInv'
  BY <1>45 DEF EngineCrashes, EngineMoves
<1>46. ASSUME TimePasses PROVE EngineInv'
  BY <1>46 DEF TimePasses
<1>47. ASSUME UNCHANGED vars PROVE EngineInv'
  BY <1>47 DEF vars
<1>48. ASSUME NEW r \in Requests, AssignPanics(r) PROVE EngineInv'
  <2>1. hpc[r] \notin Owning /\ UNCHANGED <<hproc, watch, world>>
    BY <1>48 DEF AssignPanics, Steps, Moves
  <2>2. \E to \in HandlerPCs \ Owning : hpc' = [hpc EXCEPT ![r] = to]
    BY <1>48 DEF AssignPanics, Steps, Moves, HandlerPCs
  <2> QED BY <2>1, <2>2, BystanderStep
<1>49. ASSUME TTLSignal PROVE EngineInv'
  BY <1>49 DEF TTLSignal, TTLMoves, Signalled
<1>50. ASSUME NEW p \in Procs, EngineHangs(p) PROVE EngineInv'
  BY <1>50 DEF EngineHangs
<1> QED
  BY <1>1, <1>2, <1>3, <1>4, <1>5, <1>6, <1>7, <1>8, <1>9, <1>10, <1>11,
       <1>12, <1>13, <1>14, <1>15, <1>16, <1>17, <1>18, <1>19, <1>20, <1>21,
       <1>22, <1>23, <1>24, <1>25, <1>26, <1>27, <1>28, <1>29, <1>30, <1>31,
       <1>32, <1>33, <1>34, <1>35, <1>36, <1>37, <1>38, <1>39, <1>40, <1>41,
       <1>42, <1>43, <1>44, <1>45, <1>46, <1>47, <1>48, <1>49, <1>50
  DEF Next, Handle, TTL, Watch, World

\* A step that unloads a serving model is a kill, or a report about a process that
\* does not answer.
LEMMA DownStep ==
  TypeOK /\ EntryCore /\ EngineInv /\ [Next]_vars => UnloadsWhenDown
<1> SUFFICES ASSUME TypeOK, EntryCore, EngineInv, [Next]_vars PROVE UnloadsWhenDown
  OBVIOUS
<1> USE DEF UnloadsWhenDown, TypeOK, EntryCore, OneLoader, Claimed, Loading, LoaderPCs, Serving,
        Sleeping, entry, pairs, handler, ttl, health, world
<1>1. ASSUME NEW r \in Requests,
            \/ Arrive(r) \/ Enqueue(r) \/ QueueFull(r)
            \/ Dispatch(r) \/ Wake(r) \/ WakePost(r)
            \/ WakePoll(r) \/ AssignSucceeds(r) \/ AssignPanics(r) \/ Launch(r)
     PROVE  UNCHANGED state
  BY <1>1 DEF Arrive, Moves, Enqueue, QueueFull, Dispatch, Steps, Wake, WakePost, WakePoll,
     AssignSucceeds, AssignPanics, Launch
<1>2. ASSUME NEW r \in Requests,
            \/ LaunchFails(r) \/ Register(r) \/ HealthOk(r)
            \/ HealthExited(r) \/ HealthTimesOut(r) \/ HealthKilled(r)
            \/ Waiting(r) \/ Drain(r) \/ Released(r)
     PROVE  UNCHANGED state
  BY <1>2 DEF LaunchFails, Moves, Register, HealthOk, Steps, HealthExited, HealthTimesOut,
     Signalled, HealthKilled, Waiting, Drain, PopGranted, PopRejected, Released
<1>3. ASSUME NEW r \in Requests,
            \/ ClientGone(r) \/ Forward(r) \/ ForwardAborts(r)
            \/ Complete(r)
     PROVE  UNCHANGED state
  BY <1>3 DEF ClientGone, Steps, Moves, Forward, ForwardAborts, Complete
<1>4. ASSUME NEW r \in Requests, WakeDone(r) PROVE UnloadsWhenDown
  BY <1>4 DEF WakeDone, Moves
<1>5. ASSUME NEW r \in Requests, Claim(r) PROVE UnloadsWhenDown
  BY <1>5 DEF Claim, Moves, Claimable, Claimable
<1>6. ASSUME NEW r \in Requests, AssignFails(r) PROVE UnloadsWhenDown
  BY <1>6 DEF AssignFails, Moves
<1>7. ASSUME NEW r \in Requests, LaunchReset(r) PROVE UnloadsWhenDown
  BY <1>7 DEF LaunchReset, Moves
<1>8. ASSUME NEW r \in Requests, HealthReset(r) PROVE UnloadsWhenDown
  BY <1>8 DEF HealthReset, Moves, MarkUnloaded
<1>9. ASSUME NEW r \in Requests, Activate(r) PROVE UnloadsWhenDown
  BY <1>9 DEF Activate
<1>10. ASSUME TTLTick \/ TTLRecheck \/ TTLSleepPost
            \/ TTLSleepPoll \/ TTLKillSkipped \/ TTLSignal \/ TTLKilled
     PROVE  UNCHANGED state
  BY <1>10 DEF TTLTick, TTLMoves, TTLRecheck, TTLReturns, TTLKills, TTLSleepPost, TTLSleepPoll,
     TTLKillSkipped, TTLSignal, TTLKilled
<1>11. ASSUME TTLSleepDone PROVE UnloadsWhenDown
  BY <1>11 DEF TTLSleepDone, TTLMoves, TTLReturns, SleepTarget
<1>12. ASSUME TTLKill PROVE UnloadsWhenDown
  BY <1>12 DEF TTLKill, TTLMoves, MarkUnloaded, StillCurrent
<1>13. ASSUME NEW p \in Procs,
            \/ WatchWakes(p) \/ WatchProbes(p) \/ OnExitSkipped(p)
            \/ WatchDrains(p)
     PROVE  UNCHANGED state
  BY <1>13 DEF WatchWakes, WatchMoves, WatchProbes, TooManyFails, OnExitSkipped, WatchDrains,
     PopRejected
<1>14. ASSUME NEW p \in Procs, OnExit(p) PROVE UnloadsWhenDown
  BY <1>14 DEF OnExit, WatchMoves, MarkUnloaded, StillCurrent, EngineInv
<1>15. ASSUME NEW p \in Procs,
            \/ EngineListens(p) \/ EngineCloses(p) \/ EngineExits(p)
            \/ EngineCrashes(p) \/ EngineHangs(p)
     PROVE  UNCHANGED state
  BY <1>15 DEF EngineListens, EngineMoves, EngineCloses, EngineExits, EngineCrashes,
     EngineHangs
<1>16. CASE TimePasses \/ UNCHANGED vars
  BY <1>16 DEF TimePasses, vars
<1>17. UNCHANGED state => UnloadsWhenDown
  OBVIOUS
<1> HIDE DEF UnloadsWhenDown, TypeOK, EntryCore, OneLoader, Claimed, Loading, LoaderPCs, Serving,
        Sleeping, entry, pairs, handler, ttl, health, world
<1> QED
  BY <1>1, <1>2, <1>3, <1>4, <1>5, <1>6, <1>7, <1>8, <1>9, <1>10, <1>11, <1>12, <1>13, <1>14,
     <1>15, <1>16, <1>17
  DEF Next, Handle, TTL, Watch, World

\* A serving model is unloaded only if its process can no longer be reached, or by the
\* TTL goroutine, which stops this very process next.
THEOREM UnloadedCorrect == ASSUME SlowStart PROVE Spec => UnloadedOnlyWhenDown
<1>1. Init => EngineInv
  BY NoProcAssumption DEF Init, EngineInv, Owning, Accepts, Listener
<1>2. TypeOK /\ EntryCore /\ EngineInv /\ [Next]_vars => [UnloadsWhenDown]_vars
  BY DownStep
<1> QED BY <1>1, <1>2, EngineStep, TypeCorrect, EntryInvariant, PTL
  DEF Spec, UnloadedOnlyWhenDown, UnloadsWhenDown

\* Every step of the entry is a step of the lifecycle, or leaves it where it is.
LEMMA LifecycleStep ==
  TypeOK /\ EntryCore /\ [Next]_vars => [Lifecycle!Next]_(Lifecycle!lvars)
<1> SUFFICES ASSUME TypeOK, EntryCore, [Next]_vars PROVE [Lifecycle!Next]_(Lifecycle!lvars)
  OBVIOUS
<1> USE NoProcAssumption
    DEF TypeOK, EntryCore, OneLoader, Claimed, Loading, LoaderPCs, ProcessMatchesState,
        LoaderProcess, Remembered, LoaderAlone, Launching, Owning, StillCurrent, States,
        Serving, Sleeping, entry, pairs, handler, ttl, health, world,
        Lifecycle!Next, Lifecycle!lvars, Lifecycle!StartLoad, Lifecycle!Attach, Lifecycle!Ready,
        Lifecycle!GiveUp, Lifecycle!Sleep, Lifecycle!WakeUp, Lifecycle!Stop
<1>1. ASSUME NEW r \in Requests, Arrive(r) PROVE [Lifecycle!Next]_(Lifecycle!lvars)
  BY <1>1 DEF Arrive, Moves
<1>2. ASSUME NEW r \in Requests, Enqueue(r) PROVE [Lifecycle!Next]_(Lifecycle!lvars)
  BY <1>2 DEF Enqueue, Moves
<1>3. ASSUME NEW r \in Requests, QueueFull(r) PROVE [Lifecycle!Next]_(Lifecycle!lvars)
  BY <1>3 DEF QueueFull, Moves
<1>4. ASSUME NEW r \in Requests, Dispatch(r) PROVE [Lifecycle!Next]_(Lifecycle!lvars)
  BY <1>4 DEF Dispatch, Steps, Moves
<1>5. ASSUME NEW r \in Requests, Wake(r) PROVE [Lifecycle!Next]_(Lifecycle!lvars)
  BY <1>5 DEF Wake, Moves
<1>6. ASSUME NEW r \in Requests, WakePost(r) PROVE [Lifecycle!Next]_(Lifecycle!lvars)
  BY <1>6 DEF WakePost, Moves
<1>7. ASSUME NEW r \in Requests, WakePoll(r) PROVE [Lifecycle!Next]_(Lifecycle!lvars)
  BY <1>7 DEF WakePoll, Steps, Moves
<1>8. ASSUME NEW r \in Requests, WakeDone(r) PROVE [Lifecycle!Next]_(Lifecycle!lvars)
  BY <1>8 DEF WakeDone, Moves
<1>9. ASSUME NEW r \in Requests, Claim(r) PROVE [Lifecycle!Next]_(Lifecycle!lvars)
  BY <1>9 DEF Claim, Moves, Claimable
<1>10. ASSUME NEW r \in Requests, AssignSucceeds(r) PROVE [Lifecycle!Next]_(Lifecycle!lvars)
  BY <1>10 DEF AssignSucceeds, Moves
<1>11. ASSUME NEW r \in Requests, AssignFails(r) PROVE [Lifecycle!Next]_(Lifecycle!lvars)
  BY <1>11 DEF AssignFails, Moves
<1>12. ASSUME NEW r \in Requests, Launch(r) PROVE [Lifecycle!Next]_(Lifecycle!lvars)
  BY <1>12 DEF Launch, Moves
<1>13. ASSUME NEW r \in Requests, LaunchFails(r) PROVE [Lifecycle!Next]_(Lifecycle!lvars)
  BY <1>13 DEF LaunchFails, Moves
<1>14. ASSUME NEW r \in Requests, LaunchReset(r) PROVE [Lifecycle!Next]_(Lifecycle!lvars)
  BY <1>14 DEF LaunchReset, Moves
<1>15. ASSUME NEW r \in Requests, Register(r) PROVE [Lifecycle!Next]_(Lifecycle!lvars)
  BY <1>15 DEF Register, Moves
<1>16. ASSUME NEW r \in Requests, HealthOk(r) PROVE [Lifecycle!Next]_(Lifecycle!lvars)
  BY <1>16 DEF HealthOk, Steps, Moves
<1>17. ASSUME NEW r \in Requests, HealthExited(r) PROVE [Lifecycle!Next]_(Lifecycle!lvars)
  BY <1>17 DEF HealthExited, Steps, Moves
<1>18. ASSUME NEW r \in Requests, HealthTimesOut(r) PROVE [Lifecycle!Next]_(Lifecycle!lvars)
  BY <1>18 DEF HealthTimesOut, Moves, Signalled
<1>19. ASSUME NEW r \in Requests, HealthKilled(r) PROVE [Lifecycle!Next]_(Lifecycle!lvars)
  BY <1>19 DEF HealthKilled, Moves
<1>20. ASSUME NEW r \in Requests, HealthReset(r) PROVE [Lifecycle!Next]_(Lifecycle!lvars)
  BY <1>20 DEF HealthReset, Moves, MarkUnloaded
<1>21. ASSUME NEW r \in Requests, Activate(r) PROVE [Lifecycle!Next]_(Lifecycle!lvars)
  BY <1>21 DEF Activate
<1>22. ASSUME NEW r \in Requests, Waiting(r) PROVE [Lifecycle!Next]_(Lifecycle!lvars)
  BY <1>22 DEF Waiting, Steps, Moves
<1>23. ASSUME NEW r \in Requests, Drain(r) PROVE [Lifecycle!Next]_(Lifecycle!lvars)
  BY <1>23 DEF Drain, Moves, PopGranted, PopRejected
<1>24. ASSUME NEW r \in Requests, Released(r) PROVE [Lifecycle!Next]_(Lifecycle!lvars)
  BY <1>24 DEF Released, Steps, Moves
<1>25. ASSUME NEW r \in Requests, ClientGone(r) PROVE [Lifecycle!Next]_(Lifecycle!lvars)
  BY <1>25 DEF ClientGone, Steps, Moves
<1>26. ASSUME NEW r \in Requests, Forward(r) PROVE [Lifecycle!Next]_(Lifecycle!lvars)
  BY <1>26 DEF Forward, Moves
<1>27. ASSUME NEW r \in Requests, ForwardAborts(r) PROVE [Lifecycle!Next]_(Lifecycle!lvars)
  BY <1>27 DEF ForwardAborts, Moves
<1>28. ASSUME NEW r \in Requests, Complete(r) PROVE [Lifecycle!Next]_(Lifecycle!lvars)
  BY <1>28 DEF Complete, Moves
<1>29. ASSUME TTLTick PROVE [Lifecycle!Next]_(Lifecycle!lvars)
  BY <1>29 DEF TTLTick, TTLMoves
<1>30. ASSUME TTLRecheck PROVE [Lifecycle!Next]_(Lifecycle!lvars)
  BY <1>30 DEF TTLRecheck, TTLMoves, TTLReturns, TTLKills
<1>31. ASSUME TTLSleepPost PROVE [Lifecycle!Next]_(Lifecycle!lvars)
  BY <1>31 DEF TTLSleepPost, TTLMoves, TTLReturns
<1>32. ASSUME TTLSleepPoll PROVE [Lifecycle!Next]_(Lifecycle!lvars)
  BY <1>32 DEF TTLSleepPoll, TTLMoves, TTLReturns
<1>33. ASSUME TTLSleepDone PROVE [Lifecycle!Next]_(Lifecycle!lvars)
  BY <1>33 DEF TTLSleepDone, TTLMoves, TTLReturns, SleepTarget
<1>34. ASSUME TTLKill PROVE [Lifecycle!Next]_(Lifecycle!lvars)
  BY <1>34 DEF TTLKill, TTLMoves, MarkUnloaded
<1>35. ASSUME TTLKillSkipped PROVE [Lifecycle!Next]_(Lifecycle!lvars)
  BY <1>35 DEF TTLKillSkipped, TTLMoves, TTLReturns
<1>36. ASSUME TTLKilled PROVE [Lifecycle!Next]_(Lifecycle!lvars)
  BY <1>36 DEF TTLKilled, TTLMoves, TTLReturns
<1>37. ASSUME NEW p \in Procs, WatchWakes(p) PROVE [Lifecycle!Next]_(Lifecycle!lvars)
  BY <1>37 DEF WatchWakes, WatchMoves
<1>38. ASSUME NEW p \in Procs, WatchProbes(p) PROVE [Lifecycle!Next]_(Lifecycle!lvars)
  BY <1>38 DEF WatchProbes, WatchMoves, TooManyFails
<1>39. ASSUME NEW p \in Procs, OnExit(p) PROVE [Lifecycle!Next]_(Lifecycle!lvars)
  BY <1>39 DEF OnExit, WatchMoves, MarkUnloaded
<1>40. ASSUME NEW p \in Procs, OnExitSkipped(p) PROVE [Lifecycle!Next]_(Lifecycle!lvars)
  BY <1>40 DEF OnExitSkipped, WatchMoves
<1>41. ASSUME NEW p \in Procs, WatchDrains(p) PROVE [Lifecycle!Next]_(Lifecycle!lvars)
  BY <1>41 DEF WatchDrains, WatchMoves, PopRejected
<1>42. ASSUME NEW p \in Procs, EngineListens(p) PROVE [Lifecycle!Next]_(Lifecycle!lvars)
  BY <1>42 DEF EngineListens, EngineMoves
<1>43. ASSUME NEW p \in Procs, EngineCloses(p) PROVE [Lifecycle!Next]_(Lifecycle!lvars)
  BY <1>43 DEF EngineCloses, EngineMoves
<1>44. ASSUME NEW p \in Procs, EngineExits(p) PROVE [Lifecycle!Next]_(Lifecycle!lvars)
  BY <1>44 DEF EngineExits, EngineMoves
<1>45. ASSUME NEW p \in Procs, EngineCrashes(p) PROVE [Lifecycle!Next]_(Lifecycle!lvars)
  BY <1>45 DEF EngineCrashes, EngineMoves
<1>46. ASSUME TimePasses PROVE [Lifecycle!Next]_(Lifecycle!lvars)
  BY <1>46 DEF TimePasses
<1>47. ASSUME UNCHANGED vars PROVE [Lifecycle!Next]_(Lifecycle!lvars)
  BY <1>47 DEF vars
<1>48. ASSUME NEW r \in Requests, AssignPanics(r) PROVE [Lifecycle!Next]_(Lifecycle!lvars)
  BY <1>48 DEF AssignPanics, Steps, Moves
<1>49. ASSUME TTLSignal PROVE [Lifecycle!Next]_(Lifecycle!lvars)
  BY <1>49 DEF TTLSignal, TTLMoves, Signalled
<1>50. ASSUME NEW p \in Procs, EngineHangs(p) PROVE [Lifecycle!Next]_(Lifecycle!lvars)
  BY <1>50 DEF EngineHangs
<1> QED
  BY <1>1, <1>2, <1>3, <1>4, <1>5, <1>6, <1>7, <1>8, <1>9, <1>10, <1>11,
       <1>12, <1>13, <1>14, <1>15, <1>16, <1>17, <1>18, <1>19, <1>20, <1>21,
       <1>22, <1>23, <1>24, <1>25, <1>26, <1>27, <1>28, <1>29, <1>30, <1>31,
       <1>32, <1>33, <1>34, <1>35, <1>36, <1>37, <1>38, <1>39, <1>40, <1>41,
       <1>42, <1>43, <1>44, <1>45, <1>46, <1>47, <1>48, <1>49, <1>50
  DEF Next, Handle, TTL, Watch, World

\* The entry implements the lifecycle that the README documents.
THEOREM EntryFollowsLifecycle == ASSUME SlowStart PROVE Spec => FollowsLifecycle
<1>1. Init => Lifecycle!Init
  BY DEF Init, Lifecycle!Init
<1> QED
  BY <1>1, LifecycleStep, TypeCorrect, EntryInvariant, PTL
  DEF Spec, FollowsLifecycle, Lifecycle!Spec
=============================================================================
