--------------------- MODULE OrchestratorServingProofs ---------------------
(***************************************************************************)
(* The configuration and the life of the orchestrator together.            *)
(* OwnEngineAnswers leaves out entries that share a socket path; when no   *)
(* two names in the file can be confused, there are none.                  *)
(***************************************************************************)
EXTENDS OrchestratorProofs, OrchestratorTypeProofs

\* No two models' files could have one name: their sanitized names differ, and none
\* ends like a replica of the other.
NamesToldApart(c) ==
  \A e, f \in Range(EntriesOf(c)) : e.model # f.model => ~Confusable(c, e, f)

\* OwnEngineAnswers, with a condition on the file in place of its exception for
\* entries of one path.
EachOwnEngineAnswers ==
  NamesToldApart(cfg) => \A e \in Entries : \A h \in Listeners(Path(e)) :
    state[e] = "ACTIVE" => h = proc[e] \/ proc[e] = None \/ h \in rivals[e]

\* Each entry has a path of its own.
LEMMA OwnPaths ==
  ASSUME NamesToldApart(cfg), TypeInv, NEW e \in Entries, NEW f \in Entries, Path(e) = Path(f)
  PROVE  e = f
<1> DEFINE E == EntriesOf(cfg)
<1>1. models = Built /\ cfg \in Configurations /\ ValidConfig(cfg)
  BY DEF TypeInv, MainOK, Entries
<1>2. cfg \in ConfigFile /\ cfg.models # << >> /\ e \in DOMAIN E /\ f \in DOMAIN E
  BY <1>1, BuiltIs DEF Entries
<1>3. SocketPath(cfg, E[e]) = SocketPath(cfg, E[f])
  BY <1>1, <1>2 DEF Path, Built
<1>4. /\ E[e] \in Range(E) /\ E[f] \in Range(E)
      /\ E[e].model \in DOMAIN cfg.models /\ E[f].model \in DOMAIN cfg.models
  BY <1>2, EntriesExact DEF Range
<1>5. E[e].model = E[f].model /\ E[e].replica = E[f].replica => e = f
  BY <1>2, EntriesExact
<1>6. ASSUME E[e].model = E[f].model, ToString(E[e].replica) = ToString(E[f].replica)
      PROVE  E[e].replica = E[f].replica
  <2> DEFINE m == cfg.models[E[e].model]
  <2>1. m \in Range(cfg.models)
    BY <1>4 DEF Range
  <2>2. E[e].replica \in 0..(ReplicasOf(m) - 1) /\ E[f].replica \in 0..(ReplicasOf(m) - 1)
    BY <1>2, <1>6, EntriesExact
  <2> QED BY <1>1, <1>6, <2>1, <2>2, NumeralsAssumption
<1> HIDE DEF E
<1>7. CASE E[e] = E[f]
  BY <1>5, <1>7
<1>8. CASE E[e] # E[f]
  <2>1. E[e].model # E[f].model /\ Confusable(cfg, E[e], E[f])
    BY <1>2, <1>3, <1>4, <1>6, <1>8, PathsConfused DEF E
  <2> QED BY <1>1, <1>4, <2>1 DEF NamesToldApart, E
<1> QED BY <1>7, <1>8

\* Where the file tells names apart, no request for a model is answered by an engine of
\* another model or replica, whatever crashes and restarts there have been; but for a
\* process that was launched for the path earlier, and had yet to bind it when this load
\* found the path free, or freed it.
THEOREM EveryOwnEngineCorrect == Spec => []EachOwnEngineAnswers
<1>1. TypeInv /\ OwnEngineAnswers => EachOwnEngineAnswers
  BY OwnPaths DEF OwnEngineAnswers, EachOwnEngineAnswers
<1> QED BY <1>1, TypeInvariance, OwnEngineCorrect, PTL
=============================================================================
