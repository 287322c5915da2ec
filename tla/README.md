# TLA+ models and proofs for LNCVS

LNCVS, the Long-Narrative Consistency Verification System, decides whether a
claim about a novel is CONSISTENT with its text, CONTRADICTORY, or has
INSUFFICIENT_EVIDENCE. This directory holds TLA+ models of the program, the
TLC configurations that check them, and TLAPS proofs. Paths below are relative
to the repository root.

## 1. The system

| component | state it keeps | operations | talks to |
|---|---|---|---|
| Evidence ledger (`src/lncvs/ledger`, `schemas/ledger.py`) | one `EvidenceLedger` per claim: claims, questions, queries, retrieved and fused evidence, NLI results, trace, audit log, verdict | `record_*` (validated, write-once batches), `add_*` (unvalidated), `set_final_verdict`, `log_event` | mutated in place by every pipeline stage |
| Rule engine (`src/lncvs/rules`) | none | `classify`, `ThresholdRuleEngine.evaluate` | reads the ledger |
| Orchestration graph (`src/lncvs/orchestration`) | graph channels (ledger, control), a mutable `RunContext` | seven nodes behind an error boundary, an error sink, `run` | every service below |
| Imperative runner (`evaluation/runner.py`) | call-stack locals | `PipelineRunner.run` | the same services, no graph |
| Decomposition, questions (`reasoning/decomposition`, `reasoning/questions`) | none | prompt, complete, parse with bounds | LLM client |
| Retrieval (`retrieval`), fusion (`fusion`, `orchestration/fusion_baselines.py`) | none | build queries, retrieve per query and backend, stamp, rank, truncate | indices, graph retriever |
| NLI and fact verification (`reasoning/nli`, `reasoning/fact_verification`) | caches | one judgement per (claim, chunk) | cross-encoder, LLM |
| LLM clients and caches (`llm`) | an in-memory dictionary and its JSON-lines file | get, put, complete with bounded retries | provider |
| Studies (`scripts/evaluate_*.py`, `decompose_dataset.py`, `sweep_thresholds.py`) | checkpoint files, one per condition | run rows, skip checkpointed rows, append, re-judge | everything above |
| Provenance resolution (`graph/provenance`) | none | match quotes in a window, map spans to chunks, accept or quarantine a fact | graph construction |
| Entity resolution (`graph/entity_resolution`) | a union-find forest over the mentions of a novel | name keys, ambiguity, union, canonical records, local id to entity id | graph construction |
| Graph construction (`graph/construction`, `graph/builder.py`) | the facts collected so far, then a `ConstructedGraph` and an `EntityGraph` | extract window by window, resolve, build, load | structured LLM client, provenance and entity resolution |
| Graph retrieval (`graph/traversal.py`, `index.py`, `retriever.py`) | the loaded index | entry entities, decayed scoring, ranking | retrieval |
| Segmentation, chunking (`graph/segmentation.py`, `chunking`) | none | split by chapters, windows, chunks; span overlap | graph construction, indexing |
| Evaluation harness, metrics, reporting (`evaluation/service.py`, `metrics`, `reporting.py`) | reports of the variants evaluated so far; report and ledger files | evaluate a variant, run an ablation, save | either driver |
| Ingestion, indexing | files, external indices | load, clean, embed, search | - |

What makes each part correct:

- **Ledger**: every judgement rests on evidence fused, retrieved and queried for
  a recorded claim; what was validated against never changes afterwards;
  nothing is withdrawn; the audit log accounts for what was recorded.
- **Rules**: contradiction before missing support, thresholds inclusive and not
  confused, trace and verdict in agreement, both copies of the rules equal.
- **Orchestration**: evidence serves the claim it is stamped with; the ablation
  variant is honoured; a failure is recorded, leaves the partial ledger and
  never a verdict; every run ends.
- **Studies**: across crashes and restarts, rows are recorded once and in order,
  completions are paid for once, the two conditions judge the same
  decomposition, the report equals the file.
- **Entity resolution**: the components do not depend on the order keys are
  taken in; a bare surname does not merge a family; generic words bridge
  nothing; people who agree on a name are one.
- **Graph construction**: nothing in the graph rests on the extractor's word
  alone; nothing found is lost or turned round; a failing window costs itself.
- **Segmentation, chunking, provenance**: windows fit the model and overlap, so
  no short passage is cut in every window; a located quote is where it is said
  to be, is the first that reads so, or agrees better than every other run.
- **Graph retrieval, fusion**: a name in the text can be reached, a chunk's
  score is a function of distance, edge weight and how often an entity is told
  in it, and a chunk the retrievers agree on is not passed by one that fewer
  found.
- **Fact verification**: no judgement cites words its evidence does not hold, and
  no label is read by its position.
- **Structured cache**: a finished session is what its cache replays, but for the
  rows a failed write touched; an answer
  never crosses configurations, schema versions or prompts.
- **Harness**: what a saved report points to is on disk, contributions are
  measured against the full variant, the figures of a report add up.
- **The two drivers** build the same ledger from the same outcomes.

What is hard here: the ledger is mutated in place by stages that may fail half
way; a verdict is justified by a chain of lists of which each was validated
against the one before; runs and builds are resumed after crashes from
append-only files, under a verifier, provider or schema that may have changed;
completions are cached before they are parsed; the rules and the pipeline each
exist in two copies; provider calls are retried; an answer may reach memory and
not the file; extraction windows fail one by one; names are ambiguous, and a
single wrong union is transitive; Python iterates over sets of strings in an
order that changes from process to process; offsets pass through four coordinate
systems and windows are moved to paragraph breaks.

## 2. Modules and the code they model

| module | models | composes |
|---|---|---|
| `RuleEngine` | `rules/classification.py`, `rules/threshold_engine.py` as operators | - |
| `ThresholdSweep` | re-judging a checkpointed row: `run_threshold_sweep` and `verdict_for_row` | `RuleEngine` |
| `LedgerService` | the methods of `ledger/service.py`: what each validates (`May...`), writes and logs | `RuleEngine` (record types) |
| `EvidenceLedger` | one ledger under any sequence of calls | `LedgerService` |
| `VerdictService` | abstract: what a run promises its caller | - |
| `VerificationPipeline` | one `LangGraphPipeline.run`: seven nodes, error boundary, sink, end | `LedgerService`, `RuleEngine`; refines `VerdictService` |
| `ImperativeRunner` | `PipelineRunner.run` beside the graph, on the same outcomes | `VerificationPipeline` |
| `JsonlFile` | an append-only JSON-lines file with torn writes | - |
| `ResumableEvaluation` | the graph-impact study: verifier modes, caches, checkpoints, retries, crashes, restarts | `JsonlFile` |
| `FactVerification` | `reasoning/fact_verification`, the label map of `reasoning/nli/model.py`, as operators | - |
| `StructuredAnswers` | sessions over `llm/structured_cache.py`, both structured clients, extraction and fact verification as their consumers | `JsonlFile`, `FactVerification` |
| `EvaluationHarness` | `evaluate_variant`, `run_ablation`, the metrics and the files | any `LedgerProducer` |
| `EntityResolution` | `compute_components`, `merge_component`, `resolve_entities` | - |
| `GraphConstruction` | `build_graph_for_novel`, provenance resolution, `build_graph`, `from_records` | any result of entity resolution |
| `TextWindows` | `graph/segmentation.py`, `chunking`, `graph/provenance` down to characters and offsets | - |
| `RankFusion` | `fusion/rrf.py` as operators | - |
| `GraphRetrieval` | `graph/extraction.py`, `builder.py`, `index.py`, `traversal.py`, `retriever.py`, and the fusion of what they find | `TextWindows`, `RankFusion` |

`MC...` modules give the constants of a run. Definitions commented `Mutant:` are
not part of a model: each is a plausible bug in one mapped definition, kept
beside it to show that the properties notice.

Operators, fields and actions keep the source's names. Ids that the code makes
by hashing (claims, queries, entities, events, cache keys, run ids) are the
tuple that is hashed, so two ids are equal exactly when their inputs are. NLI
scores are natural numbers: only comparisons with thresholds matter. Texts,
prompts and log messages do not appear, except in `TextWindows`, where a text is
its words with their characters and offsets, for matches and chunks begin inside
words; a completion is one of a few values, some of which the parser rejects.

**RuleEngine / ThresholdSweep.** `Status` is the per-claim branch of
`classify`, `Evaluate` the three rules. The state of a sweep is the row, the
configuration just used and the verdict it gave; one action, `Reevaluate`, puts
any other configuration in force. Two successive states compare two
configurations on one row, which is what the action properties are about.

**EvidenceLedger.** The state is one ledger record whose lists are sets and
whose log is the number of events per stage. One action per public method.
`DriverNext` has the batch methods the pipeline uses, called with any arguments
in any order; `Next` adds the single-record methods, which validate nothing and
which no driver calls. The run takes `DriverNext`; `Next` is covered by the
proofs of `TypeCorrect` and `NothingIsWithdrawn`.

**VerificationPipeline.** One action per node. What comes from outside (a
completion, retrieved chunks, labels) is any value the parsers let through; each
call that can raise may raise, after the writes before it. `control` and
`ledger` are the graph's channels, `run_context` the retrievers built so far.

**ImperativeRunner.** Each node's outcome (`DecomposeInto(claims)`,
`RetrieveInto(returned)`, ...) is given to the matching stage of the runner,
which keeps claims and questions in locals where the graph reads them from the
ledger channel and has no error boundary: a failure leaves `run` with the ledger.

**ResumableEvaluation.** Files survive a crash; the loaded cache (`store`), the
set of done rows (`loaded`), the loop variables and the results do not. A crash
may cut the line being written at any point; the next append then lands on the
torn line. Provider errors, failing writes, rejected completions and bounded
retries are actions of their own, and the conditions run in order over the same
rows. A process is started in either verifier mode, and each (mode, condition)
has the checkpoint that `checkpoint_path` names; the decomposition cache is
shared.

**FactVerification / StructuredAnswers.** A session is a process started for one
task (building a graph or verifying claims) under one configuration, schema
version, provider and verifier. It goes through rows of prompts: consult the
cache, ask with retries, `Put`, `Judge`. A provider may answer with any data,
refuse, be cut short, or fail; `none` is the client that makes no calls.
`Parsed` is what the consumer makes of an answer: an extraction the schema
accepts, or a verdict whose every quote is found in the evidence. A completion
remembers what it was asked under, which is what `OwnAnswersOnly` compares.
`Put` updates the dictionary and then writes the file. The write may fail, with
nothing, a part or all of the line on disk (`CutShort`): `RaiseError` ends a
build, and closes the row of a study, which goes on with the answer in memory
(`Unsaved` marks the row).
`SessionsAreReplayable` makes the rows again from the file (`RecordsMade`), for a
file that can still be loaded. Its exceptions are the code's. Two rows of claims
may ask the same of the same evidence, so a row that failed may find its answer in
the file once a later row got one (`AskedAgain`). A row whose own answer could not
be written has failed, whatever is on disk. A later row with the same prompt is
judged by the answer that only the process has (`JudgedFromMemory`), and a replay
has nothing for it. Windows never share a prompt, which names their place in the
novel.

**EvaluationHarness.** One action per example, per finished variant and per
finished ablation; `ExampleFails` is a runner that raises or returns no verdict
and loses the call, `Crash` any death between or inside the two kinds of file
write. Ratios are pairs of numbers. A run repeated with the same inputs gives the
same ledger (`produced`); a different pipeline configuration need not.

**EntityResolution.** Names are sequences of tokens after `norm_name`; titles,
particles and the like are constants. `leader` is the root of a mention,
`plain` and `contested` the links still to be applied. Links are applied in any
order, which covers every dictionary and set order of Python.

**GraphConstruction.** A quote of a fact is the set of spans it resolves to,
empty when it is not found in the window. Windows are extracted in order, each
succeeding, failing with a `ValueError` (skipped) or raising anything else (no
graph). `ResolveEntities` is any grouping of the mentions, `BuildGraph` both
halves of `build_graph`, `LoadGraph` the traversal view.

**TextWindows.** Windows are pairs of token counts, chunks and spans pairs of
character offsets, and `text.at` translates; `WordEnd` is where a word ends and
its white space begins. A text has the headings that each pattern finds, as
ascending lists of the tokens they follow. `TakeWindow` is one round of
`_compute_window_boundaries`, `TakeChunk` one of `chunk_document`, `LocateQuote`
one call of `resolve_quote` with the mapping of its span to chunks. A word is a
sequence of characters, and `canonicalize_with_offsets` gives the canonical
characters of a word, each with the offset of the raw one that produced it: a smart
quote becomes one character, an ellipsis three of one offset. The exact tier finds
the quote at any character (`Places`, `ReadsAt`), inside words too; the fuzzy tier
compares runs of whole words. Since `canonicalize` makes every stretch of white space
one space, a canonical text is a sequence of canonical words, and a space of the
quote matches only between two of them. One simplification is named: the encoder
gives the tokens that lie in a substring. `ProseAssumption` says that the overlap
is longer than a snap reaches.

**RankFusion / GraphRetrieval.** The graph is built from the chunks or loaded.
`extract_mentions` sees what a chunk shows (`ShownOf`): a first and a last word may
be cut anywhere. `NamesOf` finds the capitalised words in what is shown of a word,
between word boundaries, and drops a stop word only if all of it is there, so "The"
cut to "T" is a name and is joined to the one before it (`Runs`). `NamesAreReachable`
therefore asks that the name fit the overlap together with such neighbours
(`Context`).
`Entities` and `Relations` are what the calls of `upsert_entity` and
`upsert_relation` over all chunks add up to, whatever their order; a built entity
has one provenance entry for each chunk. A loaded one may have several, one for
each of its spans, so `nodes` counts the entries of every entity in every chunk, and
`Contribution` adds the weight for each. Entry entities are looked up by name
(`_name_to_id`), where two loaded entities of one name leave the later one.
`Expand` is one hop of `score_chunks`, `Answer` the ranking, `Fuse` what
`run_claim` fuses: three lists for the one query of a claim. A record of evidence
carries its query, as the code's does, but the evidence of several queries, which
`retrieval/orchestrator.py` gathers when a claim has probe questions, is not
fused here. Traversal scores are whole multiples of `1/Unit` and fusion
scores of `1/ScoreUnit`, so sums are exact; the rounding of Python floats is not
modelled. Entity ids are hashes, so `sorted()` may give entities any order, and
the edge an entity is found by may be any last edge of a shortest way to it:
`Ways` has their weights, `LeastGains` and `MostGains` what a chunk can gain
from them at each distance.

## 3. Runs

Each property has a mutant of the modelled code that violates it in the same run.

| run | shows | bounds and why they are enough |
|---|---|---|
| `threshold_sweep` | contradiction dominates, the copies agree, the threshold is monotone | 2 claims, 2 chunks, 3 scores: a claim with both labels beside an unresolved one, scores below, at and above each threshold; the same is proved for all sizes |
| `evidence_ledger` | evidence chain, audit trail, frozen upstream, nothing withdrawn | `MaxEvents` = 2 calls per stage, `MaxTotal` = 8 in all: every batch once and repeated; two claims so that evidence can cross, two verdicts; proved for all sizes |
| `pipeline` | chain and variant, trace, partial ledger of a failure, agreement of the drivers, refinement, termination | 2 claims, 2 chunks, 1 question, 2 sources, every node failing, strict policy |
| `pipeline_boundary` | finding 1 | 1 claim, lenient policy |
| `resumable` | recording once, paying once, comparable conditions, no other verifier's rows, report equals file, each process ends | 2 rows, 2 conditions, 2 modes, 2 good and 1 bad completion, 1 retry, `MaxProcesses` = 2: a crash anywhere and a restart in either mode |
| `resumable_crash` | finding 2 | the same with `MaxProcesses` = 3: append on the torn line, then load |
| `entity_resolution` | exact components, Clause B, generic names, agreement | every choice of 4 mentions out of 9 facts: two ambiguous surnames shared by a couple, a bridge through an alias, a full name, generic names |
| `resolution_generic` | finding 3 | 2 mentions out of 12 facts |
| `graph_construction` | grounding, completeness, direction, edges | 2 windows, 6 extractions with dangling, unfound, repeated, reversed and parallel facts, 2 entity ids |
| `harness` | saved reports, contributions, metrics | 3 examples (one without gold chunks), 3 ledger bodies with ties and repeats, 3 lists of variants (full last, two of one setting, none full), `MaxSessions` = 2: a session over the files of another |
| `structured_answers` | replay, separation of answers, citations | 2 windows, 2 rows of 3 claims (one in both rows, one without evidence, one quoted from two chunks), 2 configurations, 2 schema versions, 3 clients, a checkpoint with known and one with unknown labels, `MaxSessions` = 3: write, fail, tear or change, read |
| `graph_retrieval` | windows, passages, evidence, names, scores, fusion | texts of 18 words with up to two paragraph breaks; windows of 8 and 10 tokens, overlap 5, chunks of 16 characters overlapping by 10: the constants keep the order of the code's (window > overlap > snap) at a hundredth of the size; `rrf_k` = 60 as in the code; a loaded graph with two ways to an entity and one entity too far; two entities of one name, and chunks an entity has twice or three times; lists that agree with the graph, with each other, with nobody. The texts have a stop word after a name which some chunk cuts, a quote ("he saw") that also stands inside other words ("she saw") before it stands by itself, one that begins at the last dot of an ellipsis, and smart quotes round a name |

Deadlock is not checked where the program stops by itself (a finished run, a
full log bound, no process left to start).

**Fairness.** `pipeline` assumes weak fairness of the next step of the two
drivers: a run is one synchronous call on one thread, so a node that can run
does run. `resumable` assumes weak fairness of the work of a running process
only; a restart after a crash is nobody's obligation, so the liveness property
says that each process ends, not that the study is finished.

**Abstract specification.** `VerdictService` says that a claim is split, that
findings are gathered once, and that the run answers with a verdict those
findings justify or fails without one. It defines "justified" from the findings
alone. `ImplementsVerdictService` maps it on the ledger: the answer becomes
visible when `run()` returns. With `GraphAndRunnerAgree` it speaks for the
imperative runner too.

**How the properties compose.** `EvidenceIsWhereQuoted` says what the spans are
that `GraphConstruction` takes as given, `GraphGrounded` what the loaded graphs
of `GraphRetrieval` rest on; `ComponentsAreExact` restricts the groupings that
`GraphConstruction` lets be anything. `JudgementsCiteEvidence` and
`EvidenceChain` are two halves of one promise: the record cites a chunk that
holds the quote, and the chunk was retrieved for the claim.

## 4. Proofs

Every safety property that a run checks is proved for all values of the
constants, except those listed at the end of this section. A module of proofs
goes with each state machine that has theorems; what is proved about it is
listed with the inductive invariant it needs, because almost none of the
properties is inductive by itself.

- `EvaluationProofs`, first part. `SweepInv`: the verdict is the engine's answer for the
  row and configuration in force. From it `ContradictionAlwaysDominates`,
  `StrictSweepMatches` and the action property `RaisingNeverCondemns`, and three
  theorems no run lists: that trace and verdict agree under every configuration,
  and what the consistency policy may change. It begins, as `VerificationPipelineProofs`
  does, with lemmas on the rules as operators (`StatusMeaning`, `EvaluateMeaning`,
  `StatusesPartition`, `TracedClaims`): what a status, a verdict and a traced
  record say about the results they are computed from, for any results. Assumed:
  scores are natural numbers.
- `EvidenceLedgerProofs`. `TypeCorrect` (every public method). `EvidenceChainHolds`:
  each link is inductive by itself, because a batch is validated against the
  list before it and extends a list that is still empty. `UpstreamStaysFrozen`
  needs more than the chain: that recorded claims imply a claim id
  (`ClaimsAreFinal`), for the guard of `record_atomic_claims` reads the id and
  not the list. `AuditTrailHolds` uses exact counts for the stages of the two
  scalars. `NothingIsWithdrawn` covers the unvalidated methods too. Assumed:
  `None` is no claim, query, verdict or parent id.
- `VerificationPipelineProofs`. `PipelineInv` has the types, what each node finds
  in the ledger (`Reached`: nothing of the stages after it), what routing and the
  boundary leave in the control channel (`Routed`), what a recorded error says of
  the ledger (`Recorded`), and where questions, queries and judgements may come
  from (`Sourced`). `PartialLedgerOfFailure` is about the end of a run and needs
  `Recorded`, which speaks of every state after the failure.
  `PipelineImplementsService` is the refinement step by step: of the node that
  decomposes, of the one that judges and of the end of `run()` each maps to an
  action of `VerdictService`, every other step to a stutter (`HiddenStep`), and a
  failure to the service's failure. `RunnerInv` relates the runner's locals to
  the graph's channels node by node; `GraphAndRunnerAlwaysAgree` follows, and
  `RunnerKeepsGraphProperties` says that the composition keeps what holds of the
  graph alone.
- `ResumableEvaluationProofs`. `StudyInv`, for any number of rows, modes,
  processes and crashes. That the lines before the first malformed one are the
  rows in order (`InOrder`) is not inductive: a file that lost only its last
  newline loads, the next append spoils the line it lands on, and the process
  goes on writing behind it. Rows may then lie behind a malformed line, and
  what keeps them from coming twice is that all keys of a file differ
  (`DistinctKeys`) and are loaded or passed (`Accounted`). `InStep` says where
  the loop is in the file, and gives `EachRowRecordedOnce` and, with `Reported`,
  `ReportAlwaysMatches`. `ConditionsAreComparable` rests on a history no variable
  keeps: the second condition of a mode starts when the first has a record of
  every row (`SecondAfterFirst`), and a row that has a verdict in the first was
  judged on the completion the cache has, as long as it can be read (`Grounded`).
  Assumed: rows and conditions are listed once, and there are exactly two
  conditions, as in `main` (`scripts/evaluate_with_graph.py:523-530`). The last
  assumption is needed. A completion whose cache write fails is used by the next
  condition from memory; with a third condition after a crash, the row would be
  asked for again and judged on another decomposition, and TLC finds that run.
- `StructuredAnswersProofs`. `AnswersInv`: every record of a cache file and of
  the store was made under the configuration and the schema version in its key
  (`OwnCaches`, `OwnStore`), torn lines included, and so was the completion in
  hand (`AtHand`); every judgement kept cites its claim's evidence (`Citing`).
  `OwnAnswersAlways` and `JudgementsAlwaysCite` follow, for any rows, evidence,
  answers, class names, sessions and crashes. `FactCites` and
  `CrossEncodedCites` show what the verifier's operators return.
  `SessionsAlwaysReplay` needs a second invariant, `ReplayInv`: as long as the
  file loads, what it says is in the store, and what else the store has was lost
  by a row behind whose write failed and before which no row had the answer
  (`SavedOrLost`, `LostIn`; `WrittenContents`: a line written whole adds its
  entry, a line after a torn one makes the file unreadable); the store makes of
  every row behind what was made of it, or the row failed (`RowRemade`), and of
  the row the cursor is in its records so far; and a prompt is asked only when
  the store has no answer. What the file replays can then differ from what the
  store makes only in a row with a lost prompt. `RecordsMade` is a recursive
  function; `RecordsUnfold` shows by the least counterexample that there is one,
  and `FiledForRow` that a new answer changes no row but a rejected one that has
  its prompt. Assumed: rows have prompts, judges answer with a verdict and a
  sequence of quotes, records are not mistaken for a failure, and the aliases of
  `reasoning/nli/model.py` name NLI labels and none of the judge's own words.
- `EntityResolutionProofs`. `UnionInv`: the forest is well formed (roots lead
  themselves and come first), applied links are merged, pending links are among
  the links of the corpus, and only linked mentions are merged. `ComponentsExact`
  alone is not inductive: it says nothing while links are pending.
  `GenericAlone`, `AgreeingMerge` and `ContrastNeedsAnotherKey` come from the
  same invariant by a study of the links (`LinkOfKey`, `KeyOfMention`): which
  mentions share a link, and that a weak key with two tags in play is contested
  (`TwoTagsContest`) so that a group it links agrees on a tag or is corroborated.
  Assumed: the number of mentions is a natural number, and the qualifier tags of
  the corpus are among those in play.
- `GraphConstructionProofs`. `GraphInv`: every collected fact has evidence of a
  window of the novel (`Collected`), nothing is built before its turn (`InTurn`),
  every reference leads to an entity that was found (`References`), relations end
  at entities (`RelationEnds`), and the four properties, which are settled by
  `BuildGraph` and `LoadGraph` for any grouping of the mentions. Assumed: `None`
  is no entity id, a relation's type is one of the enumeration, local ids are
  numbers, and no relation fact is an event fact.
- `EvaluationProofs`, second part. `HarnessInv`, over any number of calls in one
  directory. A saved report can be undone by a later call that writes the same
  ledger file, so `SavedReportsAreBacked` is not inductive: what keeps it is that
  a path ends with the fingerprint of the ledger written to it (`OwnLedgers`), so
  a file written again is either cut short or the same, and that every result of
  a running call that persists has its file begun already (`InOrder`, `Backed`,
  `Saved`). `DeltasCompareWithFull` needs that a running call has compared nothing
  yet and has evaluated a prefix of its variants (`InCall`), and that every
  accuracy is the share of examples without an error (`AllScored`). Assumed: the
  dataset and the lists of variants are lists, the dataset has an example and
  every example an expected verdict.
- `EvaluationProofs`, third part. `MetricsInv`: what the runner has answered are
  ledgers, every result so far is measured (`Measured`: its shares lie between
  zero and one and its recall grows with the cutoff), and every report in memory
  adds up. `MetricsAlwaysAddUp` follows; the work is in the operators.
  `SubsetInduction` is an induction over finite sets by the smallest
  counterexample, from which a fold is what its recursion says (`FoldExists`,
  `SumUnfolds`, `PlusUnfolds`). `CellsOfPairs` counts the pairs by their cells;
  `MeanMeaning` puts a mean of shares, added as fractions over changing
  denominators, between the least and the greatest of them; `RankedOnce` shows
  that sorting by score and id gives every chunk one place, because of two chunks
  one is always ahead of the other (`AheadIsOrder`, `PlacesAreTaken`), so hits at
  a cutoff are bounded by the gold chunks and grow with the cutoff
  (`HitsBounded`). Assumed: a ledger has a verdict and finitely many fused
  records, chunk ids and scores are numbers (`LedgerAssumption`); gold is finite,
  and there is a cutoff if any example has gold, for `RetrievalMetrics` is
  refused without one; no metrics and no ratio is `None`.

- `GraphRetrievalProofs`, in four parts.
  *Text.* `TextInv` says where the cursor of `_compute_window_boundaries` may be
  (`CursorInv`: in the middle of a chapter only after a window that was meant to
  have the full budget, whose start it remembers), that windows stay in their
  chapter and their budget and move on (`WindowsInv`), that no window number is in
  use twice (`NumberedApart`), that what is short and begins before the place of
  the next window is whole in some window (`CoverInv`), and where chunks lie
  (`ChunksInv`). `WindowsStayWithinBudget` and `NothingIsSeenInHalves` follow.
  The second is not inductive: a window that snapped backward may end before
  what the next one must still cover, and only the start of the next window,
  which is an overlap before the *unsnapped* end, says that the two meet.
  *Evidence.* `LocatedInv` says that what was located came from `resolve_quote`
  on a window. `CanonMeaning` says of the recursive `canonicalize_with_offsets` that
  a word has canonical characters and that their offsets lie in the word, in order,
  the first at its beginning and the last at its end; `FirstPlace` that of the places
  of a window one is first; `MatchMeaning` what each tier returns. `ReadingShifts` and
  `ReadingsOfWindow` carry a reading from the window to the narrative and back, and
  `MatchLies` gives the offsets of its first and last character. `ClippedCovers`
  shows that the clipped spans of overlapping chunks are together the span, because
  chunks leave no gap. `EvidenceLiesWhereQuoted` follows.
  *Queries.* `GraphInv`, `SearchInv` and `FusionInv` are what the graph, a search
  and a fusion are made of. `NamesAreEntities` rests on two facts: that a
  passage no longer than the overlap is whole in some chunk (`ChunksOverlap`), and
  that a chunk with all of a name and its context shows the same run of names
  there (`RunIsShown`): every part of the name is shown (`PartsAreShown`) and
  nothing is joined at either end, because a word beside it is out of sight, whole,
  or cut in a way that leaves no name next to it (`NothingJoinsBefore`,
  `NothingJoinsAfter`).
  `ScoresAreByDistance` needs `ReachInv`: after h hops what is visited is what is
  within h edges of the query, the frontier is what is at h edges exactly, and
  the score of every chunk lies between the least and the most it can gain up to
  there; when a hop discovers nothing, no later one would (`WithinStops`), so the
  search may stop early. `WithinMeaning` justifies the recursive definition of
  distance by the ways of each length, for no step of a traversal mentions them.
  *Fusion.* `AgreementIsRewarded` is a statement about `fuse_evidence` for any
  three rankings: `ScoreIsShares` says that a score is the sum of the worth of a
  chunk's places, `AgreementPays` that one place more outweighs any ranks
  (`DampingAssumption`), `BestFirstMeaning` what the sorted cut-off list holds.
  All of it stands on lemmas about sums: a sum of natural numbers counts its
  units (`SumCounts`), so sums inherit what is known of cardinalities, and what
  would be an induction over the summands is an argument about the smallest
  counterexample.
  Assumed: the validators of the configuration classes; that a text is not empty
  and its words are followed by white space; `ProseAssumption`; that quotes and
  queries have words; that every character is compared as at least one
  (`CanonAssumption`), and capitals are letters and letters word characters
  (`LettersAssumption`); that every score is a whole number of units; that
  `rrf_k + 3 > 2 * top_k` (60 and 10 in the code); that a loaded graph is finite,
  with whole weights, an entry for every chunk it names, and names that lead to its
  entities (`GivenAssumption`); and that a retriever returns at most `top_k` chunks,
  each once.

Some theorems state what no run lists as a property, because the proof says more
than an instance could: the type invariants, that roots are least and merges
final, and the inductive invariants themselves, which are theorems of their own.

Model-checked only:

- `Termination` and `EachProcessEnds`: liveness under fairness is out of the
  prover's reach.

## 5. Findings

1. `NeverCrashes` (run `pipeline_boundary`). The error boundary builds
   `StageError(message=str(exc))`; the schema demands a non-empty message, so an
   exception without text escapes the boundary and the run crashes.
2. `CrashLosesNothing`. A line cut short by a crash makes `json.loads` reject
   the whole file at the next start, with every record in it.
3. `GenericMentionsStayApart`. Components named "he" are kept apart by the
   union step and then get the same entity id, a hash of name and type, so every
   reference to either is a reference to one entity.

Observed while modelling, without a run:

- A completion is cached before it is parsed (`llm/cache.py:111-120`,
  `llm/structured_cache.py:115-116`), so a rejected one is replayed and rejected
  again, without a call, until the cache file is edited;
  `scripts/evaluate_with_graph.py:485` counts on a fresh call for such rows.
- `ConditionsComparable` holds within one verifier mode only. A completion whose
  cache write fails stays in memory: the row that asked for it fails, the next
  condition of the same process uses it, and a later process or mode asks again
  and may get another decomposition.
- Checkpoints are named by verifier mode, not by `rule_config` or the LLM
  provider of the verifier, so a change of thresholds, policy or provider replays
  rows judged under the old ones. Rows that failed for a transient reason are
  checkpointed as failed and, by design, never retried.
- The run id of a report hashes the dataset, the variant's switches and the
  evaluation configuration (`evaluation/service.py:123-127`); the provenance
  fields for the pipeline's configuration (`schemas/evaluation.py:223`) are left
  at their defaults. A session with other thresholds overwrites the report of the
  earlier one, and so do two variants of one setting.
- The docstrings of `segmentation.py` (131, 262) promise windows without gaps.
  Snapping an end back by more than the overlap would leave one; prose rules that
  out (`ProseAssumption`), text of mostly one-character tokens does not.
- `neighbor_relations` sorts by (subject, object) where its docstring
  (`builder.py:163`) says by the neighbour's id; a pair has one edge, so no score
  depends on it. What does depend on ids, which are hashes, is which of two
  entities of one hop discovers a third: `ScoresFollowDistance` asks for the
  weight of some edge of a shortest way.
- `add_reasoning_step` (`ledger/service.py:327`) logs no event, although the
  module's docstring says every mutation method does. The audit properties are
  stated for the methods the drivers call.
- `verdict_for_row` (`scripts/sweep_thresholds.py:27`) takes no consistency
  policy and so differs from the engine under the lenient policy.
  `SweepMatchesStrictEngine` is stated for the strict one, where both agree.
- `from_records` replaces the node of an id two components share, and with it
  the provenance of one of them. `GraphConstruction` lets either record stay.
- A claim's row that failed for want of an answer is mended in the cache when a
  later row asks the same of the same evidence: a run from the cache alone then
  judges both (`SessionsAreReplayable` and its exception `AskedAgain`).
- An answer whose file write fails stays in memory
  (`llm/structured_cache.py:83-87`): the row that asked for it is recorded as failed,
  a later row with the same prompt is judged by it, and a replay from the file
  may have an answer for neither.
- An exact match is any substring of the canonical window
  (`graph/provenance/matching.py:109`), so the evidence of "he said" may lie inside
  "she said" if that comes first. `EvidenceIsWhereQuoted` asks for the first
  reading, as the code does, and not for the boundaries of words.
- The names of a chunk are found in the letters it shows
  (`graph/extraction.py:60`). A capitalised stop word cut at the end of a chunk
  becomes part of the name before it, and the chunk does not have the name itself;
  `NamesAreReachable` excepts names that do not fit the overlap with such a word.
- An empty list of cutoffs is a legal configuration (`evaluation/config.py:32`),
  but the metrics of an example with gold chunks are then refused, for
  `RetrievalMetrics` wants at least one (`schemas/evaluation.py:136`).
- A name key that is itself ambiguous but different from the one in question
  counts as corroboration in Clause B (`merge.py:280`).

## 6. Plan

Done, in order of importance:

1. `RuleEngine`, `ThresholdSweep`.
2. `LedgerService`, `EvidenceLedger`.
3. `VerdictService`, `VerificationPipeline` and the refinement; `ImperativeRunner`.
4. `JsonlFile`, `ResumableEvaluation` with verifier modes.
5. `EntityResolution`, `GraphConstruction`.
6. `FactVerification`, `StructuredAnswers`.
7. `EvaluationHarness`.
8. `TextWindows`, `RankFusion`, `GraphRetrieval`.
9. The proofs of section 4, component by component.

Every invariant and every action property that a run checks is now a theorem. A
session of the study that changes `rule_config` is left out: it would need the
intended naming of checkpoints, which no document states.

## 7. Not modelled

Embedding and lexical indices, the cross-encoder and the language models are
outside the repository: any answer of the right shape may come back. The
in-memory caches around them are dictionaries of one process. Ingestion and
cleaning are pure text I/O. Prompts, JSON repair, response decoding and the
wording of claims and queries are data that no property tells apart. Latencies
are clock readings. The closing reports of the studies, and the validation,
audit, prototype, threshold-analysis, diagnosis, demo and smoke-test scripts
(`validate_*.py`, `audit_*.py`, `proto_*.py`, `analyze_thresholds.py`,
`diagnose_*.py`, `verify_facts_demo.py`, `smoke_test_h4_final.py`) print tables
over finished results or repeat on a sample the calls of the modelled drivers;
`decompose_dataset.py` fills the decomposition cache through the client that
`ResumableEvaluation` models. `run_dataset` (`scripts/evaluate_dataset.py`) is
the same checkpointed loop as `run_condition`.
