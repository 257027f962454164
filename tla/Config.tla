------------------------------- MODULE Config -------------------------------
(***************************************************************************)
(* The configuration: what validateConfig and initMemory accept, and what  *)
(* newOrchestrator builds of it.  A configuration c is a record with       *)
(*   listen, queueDepth, ttl       the global settings                     *)
(*   groups   <<[id, gpus], ...>>  gpu_groups                              *)
(*   models   <<[name, aliases, engine, startup, pin, tp, replicas, ttl,   *)
(*               gguf, foreign], ...>>   models                            *)
(*   dirs     [vllm |-> ..., llama_cpp |-> ...]   socket directories       *)
(*   modelDir                      llama_cpp_model_dir                     *)
(*   writable, ggufs               what the file system holds              *)
(* ttl is a record of active, inactive and unused, 0 if not set; foreign   *)
(* tells whether fields of the other engine are set.  A name is the        *)
(* sequence of its characters, "" stands for a setting that is left out.   *)
(***************************************************************************)
EXTENDS Integers, Sequences, FiniteSets, SequencesExt

VLLM == "vllm"
LlamaCppEngine == "llama_cpp"
EngineOf(m) == IF m.engine = LlamaCppEngine THEN LlamaCppEngine ELSE VLLM

\* A model's own TTL takes precedence when it is set.
Effective(own, global) == IF own > 0 THEN own ELSE global
EffectiveTTL(c, m) ==
  [k \in {"active", "inactive", "unused"} |-> Effective(m.ttl[k], c.ttl[k])]

Increasing(ttl) == ttl.active < ttl.inactive /\ ttl.inactive < ttl.unused

\* The structs that the file is read into: every value of their types can be in it.
Durations == [active : Int, inactive : Int, unused : Int]
GPUGroup == [id : STRING, gpus : Seq(Int)]
ModelConfig ==
  [name : Seq(STRING), aliases : Seq(Seq(STRING)), engine : STRING, startup : BOOLEAN,
   pin : STRING, tp : Int, replicas : Int, ttl : Durations, gguf : STRING, foreign : BOOLEAN]
ConfigFile ==
  [listen : BOOLEAN, queueDepth : Int, ttl : Durations,
   groups : Seq(GPUGroup), models : Seq(ModelConfig),
   dirs : [vllm : STRING, llama_cpp : STRING], modelDir : STRING,
   writable : SUBSET STRING, ggufs : SUBSET STRING]

-----------------------------------------------------------------------------
(* validateConfig *)

GroupIds(c) == {g.id : g \in Range(c.groups)}

\* groupGpuCount: the last group of an id wins.
GpuCount(c, id) ==
  Len(c.groups[CHOOSE i \in DOMAIN c.groups :
        /\ c.groups[i].id = id
        /\ \A j \in DOMAIN c.groups : c.groups[j].id = id => j <= i].gpus)

Devices(c) == FlattenSeq([i \in DOMAIN c.groups |-> c.groups[i].gpus])

\* No device is in two groups, or twice in one.
GroupsValid(c) ==
  /\ c.groups # <<>>
  /\ \A g \in Range(c.groups) : g.id # "" /\ g.gpus # <<>>
  /\ IsInjective(Devices(c))

\* What is entered into the map of names, in its order.
Declared(m) == <<m.name>> \o m.aliases

\* All names and aliases are different.  (The variant before it is a mutant that
\* looks only at the names.)
NamesValidIgnoringAliases(c) ==
  /\ \A m \in Range(c.models) : m.name # <<>>
  /\ IsInjective([i \in DOMAIN c.models |-> c.models[i].name])
NamesValid(c) ==
  /\ \A m \in Range(c.models) : m.name # <<>>
  /\ IsInjective(FlattenSeq([i \in DOMAIN c.models |-> Declared(c.models[i])]))

\* Replicas cannot be pinned.
PlacementValid(c, m) ==
  /\ m.pin # "" => m.pin \in GroupIds(c)
  /\ m.tp >= 0 /\ m.replicas >= 0
  /\ m.replicas > 1 => m.pin = ""

\* Fields of the one engine and of the other.  (The variant before it is a mutant that
\* compares a pinned model with the largest group.)
EngineValidAnyGroup(c, m) ==
  CASE m.engine = LlamaCppEngine -> m.gguf # "" /\ ~m.foreign /\ m.tp = 0
    [] m.engine \in {"", VLLM} ->
         /\ m.gguf = "" /\ ~m.foreign
         /\ m.tp > 0 => \E g \in Range(c.groups) : m.tp <= Len(g.gpus)
    [] OTHER -> FALSE
EngineValid(c, m) ==
  CASE m.engine = LlamaCppEngine -> m.gguf # "" /\ ~m.foreign /\ m.tp = 0
    [] m.engine \in {"", VLLM} ->
         /\ m.gguf = "" /\ ~m.foreign
         /\ m.tp > 0 => IF m.pin # "" THEN m.tp <= GpuCount(c, m.pin)
                        ELSE \E g \in Range(c.groups) : m.tp <= Len(g.gpus)
    [] OTHER -> FALSE

\* The socket directories that are in use can be written; the GGUF files exist.
FilesValid(c) ==
  \A m \in Range(c.models) :
    /\ c.dirs[EngineOf(m)] # "" /\ c.dirs[EngineOf(m)] \in c.writable
    /\ EngineOf(m) = LlamaCppEngine => c.modelDir # "" /\ m.gguf \in c.ggufs

ValidConfig(c) ==
  /\ c.listen /\ c.queueDepth > 0
  /\ c.ttl.active > 0 /\ Increasing(c.ttl)
  /\ c.models # <<>>
  /\ GroupsValid(c) /\ NamesValid(c)
  /\ \A m \in Range(c.models) :
       PlacementValid(c, m) /\ Increasing(EffectiveTTL(c, m)) /\ EngineValid(c, m)
  /\ FilesValid(c)

\* assignGroup: a pin leads to the first group of its id.
FirstGroup(c, id) ==
  CHOOSE i \in DOMAIN c.groups :
    /\ c.groups[i].id = id
    /\ \A j \in DOMAIN c.groups : c.groups[j].id = id => i <= j

\* initMemory: nvidia-smi knows every configured device.
DevicesExist(c, present) == Range(Devices(c)) \subseteq present

-----------------------------------------------------------------------------
(* newOrchestrator *)

\* sanitizeModelName: characters outside [a-zA-Z0-9_.-] become _.
Kept ==
  { "a", "b", "c", "d", "e", "f", "g", "h", "i", "j", "k", "l", "m", "n", "o", "p", "q", "r",
    "s", "t", "u", "v", "w", "x", "y", "z", "A", "B", "C", "D", "E", "F", "G", "H", "I", "J",
    "K", "L", "M", "N", "O", "P", "Q", "R", "S", "T", "U", "V", "W", "X", "Y", "Z", "0", "1",
    "2", "3", "4", "5", "6", "7", "8", "9", "_", ".", "-" }
Sanitize(name) == [i \in DOMAIN name |-> IF name[i] \in Kept THEN name[i] ELSE "_"]

ReplicasOf(m) == IF m.replicas <= 0 THEN 1 ELSE m.replicas

\* o.models: the replicas of each model in turn.
EntriesOf(c) ==
  FlattenSeq([k \in DOMAIN c.models |->
    [i \in 1..ReplicasOf(c.models[k]) |-> [model |-> k, replica |-> i - 1]]])

\* The path of a replica's socket: a directory and a name.  (The variant before it is
\* a mutant in which replicas are not told apart.)
SocketPathWithoutReplica(c, e) ==
  LET m == c.models[e.model] IN << c.dirs[EngineOf(m)], Sanitize(m.name) >>
SocketPath(c, e) ==
  LET m == c.models[e.model] IN
  << c.dirs[EngineOf(m)],
     Sanitize(m.name) \o (IF ReplicasOf(m) > 1 THEN <<"-", ToString(e.replica)>> ELSE <<>>) >>

\* modelByName: the last model that enters a name wins.
ByName(c, name) ==
  CHOOSE k \in DOMAIN c.models :
    /\ name \in Range(Declared(c.models[k]))
    /\ \A j \in DOMAIN c.models : name \in Range(Declared(c.models[j])) => j <= k

Known(c) == UNION {Range(Declared(m)) : m \in Range(c.models)}
=============================================================================
