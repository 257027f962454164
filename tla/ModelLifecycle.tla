--------------------------- MODULE ModelLifecycle ---------------------------
(***************************************************************************)
(* What the README promises of one model ("Model Lifecycle"): its states,  *)
(* which step leads from one to another, and whether the entry holds a     *)
(* process in each.  CanSleep is FALSE for llama.cpp models, which have no *)
(* sleep states.                                                           *)
(***************************************************************************)
CONSTANT CanSleep
VARIABLES st, running

lvars == <<st, running>>

Init == st = "UNLOADED" /\ running = FALSE

\* A request starts the load.
StartLoad == st = "UNLOADED" /\ st' = "LOADING" /\ UNCHANGED running

\* The process is started, and becomes ready, or the load is given up.
Attach == st = "LOADING" /\ ~running /\ running' = TRUE /\ UNCHANGED st
Ready == st = "LOADING" /\ running /\ st' = "ACTIVE" /\ UNCHANGED running
GiveUp == st = "LOADING" /\ st' = "UNLOADED" /\ running' = FALSE

\* An idle model goes to sleep, and deeper, and wakes on a request.
Sleep ==
  /\ CanSleep
  /\ \/ st = "ACTIVE" /\ st' \in {"SLEEP1", "SLEEP2"}
     \/ st = "SLEEP1" /\ st' = "SLEEP2"
  /\ UNCHANGED running
WakeUp == st \in {"SLEEP1", "SLEEP2"} /\ st' = "ACTIVE" /\ UNCHANGED running

\* The process is terminated, or crashed.
Stop == st \in {"ACTIVE", "SLEEP1", "SLEEP2"} /\ st' = "UNLOADED" /\ running' = FALSE

Next == StartLoad \/ Attach \/ Ready \/ GiveUp \/ Sleep \/ WakeUp \/ Stop

Spec == Init /\ [][Next]_lvars
=============================================================================
