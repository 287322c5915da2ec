-------------------------- MODULE MCEvidenceLedger --------------------------
(* The ledger with a bounded log.  Every batch method logs one event, so a *)
(* bound on the events bounds the number of calls.                         *)
EXTENDS EvidenceLedger, Functions, TLC

CONSTANTS
  MaxEvents,   \* bound on the events of one stage
  MaxTotal     \* bound on the events of the whole log

TotalEvents(log) == FoldFunction(+, 0, log)

Bounded ==
  /\ \A stage \in PipelineStage : ledger'.ledger_log[stage] <= MaxEvents
  /\ TotalEvents(ledger'.ledger_log) <= MaxTotal

MCNext == DriverNext /\ Bounded

MCSpec == Init /\ [][MCNext]_vars

Symmetry == Permutations(Claim)
=============================================================================
