-------------------------- MODULE FactVerification --------------------------
(***************************************************************************)
(* How an answer about one fact becomes records the rule engine reads: the *)
(* LLM judge's verdict on a whole evidence set (LLMFactVerifier) and the   *)
(* cross-encoder's label of each evidence record, both as FactVerification *)
(* and then as NLIResult (reasoning/fact_verification, reasoning/nli).     *)
(*                                                                         *)
(* An evidence record is a chunk id; a quote is an exact substring of the  *)
(* texts of the chunks that QuotesIn names.                                *)
(***************************************************************************)
EXTENDS Naturals, Sequences, SequencesExt

CONSTANTS
  Rejected,      \* the answer was not usable: ValueError
  QuotesIn,      \* chunk -> the quotes its text contains
  RawLabel,      \* the class names a cross-encoder checkpoint may use
  Alias          \* _LABEL_ALIASES, for the class names it knows

FactLabel == {"SUPPORTED", "CONTRADICTED", "NOT_MENTIONED"}
NLILabel == {"ENTAILMENT", "CONTRADICTION", "NEUTRAL"}

(* The aliases name NLI labels, and are none of the judge's own words. *)
ASSUME AliasAssumption ==
  /\ DOMAIN Alias \subseteq RawLabel
  /\ Alias \in [DOMAIN Alias -> NLILabel]
  /\ DOMAIN Alias \intersect FactLabel = {}

(* _FACT_VERIFICATION_LABEL_TO_NLI_LABEL *)
ToNLILabel ==
  [l \in FactLabel |-> CASE l = "SUPPORTED"     -> "ENTAILMENT"
                         [] l = "CONTRADICTED"  -> "CONTRADICTION"
                         [] l = "NOT_MENTIONED" -> "NEUTRAL"]

(* _NLI_LABEL_TO_FACT_VERIFICATION_LABEL, which another module keeps. *)
ToFactLabel ==
  [l \in NLILabel |-> CASE l = "ENTAILMENT"    -> "SUPPORTED"
                        [] l = "CONTRADICTION" -> "CONTRADICTED"
                        [] l = "NEUTRAL"       -> "NOT_MENTIONED"]

-----------------------------------------------------------------------------
(* llm_verifier.py *)

Holders(quote, evidence) == {i \in DOMAIN evidence : quote \in QuotesIn[evidence[i]]}

(* The record that holds the first quote, or the first record. *)
AnchorChunk(quotes, evidence) ==
  IF quotes = <<>> THEN evidence[1]
  ELSE evidence[CHOOSE i \in Holders(quotes[1], evidence) :
                  \A j \in Holders(quotes[1], evidence) : i <= j]

(* Mutant: one quote that is found is enough. *)
SomeQuoteHeld(raw, evidence) ==
  /\ raw.verdict \in {"SUPPORTED", "CONTRADICTED"} => raw.quotes # <<>>
  /\ raw.quotes # <<>> => \E q \in ToSet(raw.quotes) : Holders(q, evidence) # {}

(* A verdict on the claim needs a quote, and every quote, whatever the     *)
(* verdict, has to stand in some record.                                   *)
Verified(raw, evidence) ==
  /\ raw.verdict \in {"SUPPORTED", "CONTRADICTED"} => raw.quotes # <<>>
  /\ \A q \in ToSet(raw.quotes) : Holders(q, evidence) # {}

(* parse_fact_verdict, _to_fact_verification: Rejected, or one record for  *)
(* the whole set.                                                          *)
FactOf(raw, claim, evidence) ==
  IF raw = Rejected \/ ~Verified(raw, evidence) THEN Rejected
  ELSE [atomic_claim_id   |-> claim,
        evidence_chunk_id |-> AnchorChunk(raw.quotes, evidence),
        label             |-> raw.verdict,
        quotes            |-> raw.quotes,
        said              |-> raw.verdict]

(* to_nli_results, for one record; "said" is not in the code: it is what    *)
(* the judge answered.                                                     *)
NLIResultOf(fact) ==
  [atomic_claim_id   |-> fact.atomic_claim_id,
   evidence_chunk_id |-> fact.evidence_chunk_id,
   label             |-> ToNLILabel[fact.label],
   premise           |-> fact.quotes,
   said              |-> fact.said]

-----------------------------------------------------------------------------
(* nli/model.py, service.py *)

(* _build_label_map: raises unless every class name is known. *)
_build_label_map(id2label) == [i \in DOMAIN id2label |-> Alias[id2label[i]]]

LabelsKnown(id2label) == Range(id2label) \subseteq DOMAIN Alias

(* CrossEncoderFactVerifier.verify and to_nli_results: one record per      *)
(* evidence record, quoting it whole.                                      *)
CrossEncoded(claim, evidence, classes, id2label) ==
  [i \in DOMAIN evidence |->
     NLIResultOf([atomic_claim_id   |-> claim,
                  evidence_chunk_id |-> evidence[i],
                  label  |-> ToFactLabel[_build_label_map(id2label)[classes[i]]],
                  quotes |-> <<evidence[i]>>,
                  said   |-> id2label[classes[i]]])]
=============================================================================
