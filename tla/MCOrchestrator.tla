--------------------------- MODULE MCOrchestrator ---------------------------
(* Configurations for TLC: a sound base, and one that differs in each respect *)
(* that validateConfig looks at.                                              *)
EXTENDS Orchestrator

NoTTL == [active |-> 0, inactive |-> 0, unused |-> 0]
Model(name) ==
  [name |-> name, aliases |-> <<>>, engine |-> "", startup |-> FALSE, pin |-> "", tp |-> 0,
   replicas |-> 0, ttl |-> NoTTL, gguf |-> "", foreign |-> FALSE]
Gguf(name) == [Model(name) EXCEPT !.engine = "llama_cpp", !.gguf = "file"]

Configured(ms) ==
  [listen |-> TRUE, queueDepth |-> 1, ttl |-> [active |-> 1, inactive |-> 3, unused |-> 5],
   groups |-> <<[id |-> "g0", gpus |-> <<0, 1>>], [id |-> "g1", gpus |-> <<2>>]>>,
   models |-> ms,
   dirs |-> [vllm |-> "run", llama_cpp |-> "run"], modelDir |-> "models",
   writable |-> {"run"}, ggufs |-> {"file"}]

a == Model(<<"a">>)
b == Model(<<"b">>)

\* What is followed beyond its validation: a vLLM model with an alias that is loaded at
\* startup beside a llama.cpp model, and two replicas of a llama.cpp model.
MCExplored ==
  { Configured(<<[a EXCEPT !.startup = TRUE, !.aliases = <<<<"x">>>>], Gguf(<<"b">>)>>),
    Configured(<<[Gguf(<<"b">>) EXCEPT !.replicas = 2]>>) }

Changed ==
  LET base == Configured(<<a, b>>) IN
  { [base EXCEPT !.listen = FALSE], [base EXCEPT !.queueDepth = 0],
    [base EXCEPT !.models = <<>>], [base EXCEPT !.groups = <<>>],
    [base EXCEPT !.writable = {}],
    [base EXCEPT !.groups[1].id = ""], [base EXCEPT !.groups[1].gpus = <<>>],
    [base EXCEPT !.groups[1].id = "g1"],
    [base EXCEPT !.groups[1].gpus = <<1, 1>>], [base EXCEPT !.groups[2].gpus = <<1>>],
    [base EXCEPT !.groups[2].gpus = <<9>>],
    [base EXCEPT !.models[2] = Gguf(<<"b">>), !.modelDir = ""] }
  \union { [Configured(<<[a EXCEPT !.pin = "g0", !.tp = t]>>) EXCEPT
              !.groups = <<[id |-> "g0", gpus |-> <<2>>], [id |-> "g0", gpus |-> <<0, 1>>]>>] :
            t \in 0..3 }
  \union { [base EXCEPT !.ttl = t] : t \in [{"active", "inactive", "unused"} -> {0, 1, 2}] }

OfOneModel ==
  { [a EXCEPT !.pin = p, !.tp = t, !.replicas = r] :
      p \in {"", "g0", "g1", "g2"}, t \in -1..3, r \in -1..3 }
  \union { [a EXCEPT !.ttl.active = x, !.ttl.inactive = y] : x \in {0, 2, 4}, y \in {0, 1, 6} }
  \union { [Gguf(<<"a">>) EXCEPT !.tp = t, !.replicas = r, !.foreign = f, !.gguf = name] :
             t \in {0, 1}, r \in {0, 2}, f \in BOOLEAN, name \in {"", "file", "other"} }
  \union { [a EXCEPT !.engine = "other"], [a EXCEPT !.gguf = "file"], [a EXCEPT !.foreign = TRUE],
           Model(<<>>) }

Names == {<<"a">>, <<"b">>, <<"a", "-", "0">>, <<"a", "/", "b">>, <<"a", "@", "b">>,
          <<"a", "_", "b">>}
OfTwoModels ==
  { <<[Model(n) EXCEPT !.replicas = r, !.aliases = x], [Model(k) EXCEPT !.aliases = y]>> :
      n \in {<<"a">>, <<"a", "/", "b">>}, k \in Names, r \in {1, 2},
      x \in {<<>>, <<<<"b">>>>}, y \in {<<>>, <<<<"a">>>>, <<<<"b">>>>, <<<<"x">>, <<"x">>>>} }

MCConfigurations ==
  MCExplored \union Changed
  \union { Configured(<<m>>) : m \in OfOneModel } \union { Configured(ms) : ms \in OfTwoModels }
=============================================================================
