------------------------- MODULE MCStructuredAnswers -------------------------
(* Two windows; two rows of facts that share one, with a fact that has no  *)
(* evidence; a judge that may quote nothing for its verdict.               *)
EXTENDS StructuredAnswers, TLC

MCQuotesIn == ("k1" :> {"q1"}) @@ ("k2" :> {"q2"})

MCEvidence == ("f1" :> <<"k1">>) @@ ("f2" :> <<"k2", "k1">>) @@ ("f3" :> <<>>)

MCRows == [build |-> <<<<"w1">>, <<"w2">>>>, verify |-> <<<<"f1", "f2">>, <<"f3", "f2">>>>]

Verdict(verdict, quotes) == [verdict |-> verdict, quotes |-> quotes]

MCData ==
  [build  |-> {"extraction", "malformed"},
   verify |-> {Verdict("SUPPORTED", <<"q1">>), Verdict("CONTRADICTED", <<"q1", "q2">>),
               Verdict("NOT_MENTIONED", <<>>), Verdict("SUPPORTED", <<>>)}]

MCRawLabel == {"contradiction", "entailment", "neutral", "LABEL_0"}

MCAlias == ("contradiction" :> "CONTRADICTION") @@ ("entailment" :> "ENTAILMENT")
             @@ ("neutral" :> "NEUTRAL")

LLM(task, config, schema_version, provider) ==
  [task |-> task, config |-> config, schema_version |-> schema_version,
   provider |-> provider, verifier |-> "llm", id2label |-> <<>>]

CrossEncoder(classes) ==
  [task |-> "verify", config |-> "c1", schema_version |-> "v1", provider |-> "none",
   verifier |-> "cross_encoder", id2label |-> classes]

MCSessions ==
  {LLM("build", "c1", "v1", "gemini"), LLM("build", "c1", "v2", "gemini"),
   LLM("build", "c1", "v1", "none"),
   LLM("verify", "c1", "v1", "openai"), LLM("verify", "c2", "v1", "openai"),
   CrossEncoder(<<"entailment", "contradiction">>),
   CrossEncoder(<<"LABEL_0", "entailment", "neutral">>)}

MCMaxRetries == [gemini |-> 1, openai |-> 0]
=============================================================================
