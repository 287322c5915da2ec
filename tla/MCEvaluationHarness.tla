------------------------- MODULE MCEvaluationHarness -------------------------
EXTENDS EvaluationHarness

(* Two examples with gold chunks and one with none. *)
MCExamples ==
  <<[example_id |-> "e1", expected_verdict |-> "CONTRADICTORY", gold |-> {1, 3}],
    [example_id |-> "e2", expected_verdict |-> "CONSISTENT", gold |-> {2}],
    [example_id |-> "e3", expected_verdict |-> "CONSISTENT", gold |-> {}]>>

Full == [name |-> "full", settings |-> "all"]
NoBM25 == [name |-> "no_bm25", settings |-> "semantic"]
Renamed == [name |-> "baseline", settings |-> "all"]

MCVariantLists == {<<NoBM25, Full>>, <<Full, Renamed>>, <<NoBM25>>}

Fused(c, k, s) == [atomic_claim_id |-> c, chunk_id |-> k, rrf_score |-> s]

(* A chunk fused for two claims, a tie, a gold chunk below another chunk,  *)
(* and a run that cites nothing.                                           *)
MCLedgerBody ==
  {[verdict |-> "CONTRADICTORY", cited |-> <<1, 1>>,
    fused_evidence |-> {Fused("c1", 1, 2), Fused("c2", 1, 1), Fused("c2", 2, 1)}],
   [verdict |-> "CONSISTENT", cited |-> <<2>>,
    fused_evidence |-> {Fused("c1", 2, 2), Fused("c1", 3, 2)}],
   [verdict |-> "INSUFFICIENT_EVIDENCE", cited |-> <<>>,
    fused_evidence |-> {Fused("c1", 2, 1)}]}
=============================================================================
