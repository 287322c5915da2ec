--------------------------- MODULE VerdictService ---------------------------
(***************************************************************************)
(* What a verification run promises its caller, with no word on how: the   *)
(* claim is split, findings about its parts are gathered once, and the run *)
(* either answers with a verdict those findings justify or fails without   *)
(* one.                                                                    *)
(*                                                                         *)
(* Justified restates the verdict rules the documentation gives, from the  *)
(* findings alone; it shares nothing with the rule engine's definitions.   *)
(***************************************************************************)
EXTENDS Integers

CONSTANTS
  Claim, Chunk, Score,
  NoAnswer,   \* the caller has no verdict yet, or the run failed
  policy      \* the RuleEngineConfig the verdict is to be judged by

VARIABLES claims, findings, answer, status

vars == <<claims, findings, answer, status>>

Finding(parts) ==
  [atomic_claim_id : parts, evidence_chunk_id : Chunk,
   label : {"ENTAILMENT", "CONTRADICTION", "NEUTRAL"}, score : Score]

Contradicted ==
  \E f \in findings : /\ f.label = "CONTRADICTION"
                      /\ f.score >= policy.contradiction_threshold

Entailed(c) ==
  \E f \in findings : /\ f.atomic_claim_id = c
                      /\ f.label = "ENTAILMENT"
                      /\ f.score >= policy.entailment_threshold

Strict == policy.consistency_requires_entailment

Justified(v) ==
  \/ v = "CONTRADICTORY" /\ Contradicted
  \/ /\ v = "INSUFFICIENT_EVIDENCE"
     /\ ~Contradicted /\ Strict /\ \E c \in claims : ~Entailed(c)
  \/ /\ v = "CONSISTENT"
     /\ ~Contradicted /\ (Strict => \A c \in claims : Entailed(c))

Init ==
  /\ claims = {} /\ findings = {}
  /\ answer = NoAnswer /\ status = "open"

Split ==
  /\ status = "open" /\ claims = {}
  /\ claims' \in (SUBSET Claim) \ {{}}
  /\ UNCHANGED <<findings, answer, status>>

Investigate ==
  /\ status = "open" /\ claims # {} /\ findings = {}
  /\ findings' \in SUBSET Finding(claims)
  /\ UNCHANGED <<claims, answer, status>>

Answer ==
  /\ status = "open" /\ claims # {}
  /\ Justified(answer')
  /\ status' = "answered"
  /\ UNCHANGED <<claims, findings>>

Fail ==
  /\ status = "open"
  /\ status' = "failed"
  /\ UNCHANGED <<claims, findings, answer>>

Next == Split \/ Investigate \/ Answer \/ Fail

Spec == Init /\ [][Next]_vars
=============================================================================
