-------------------------- MODULE StructuredAnswers --------------------------
(***************************************************************************)
(* The two uses of structured completions and the cache they go through:   *)
(* building a novel's graph asks for the extraction of each window, and    *)
(* verifying a claim asks for a verdict on each of its facts.  Both call   *)
(* CachingStructuredLLMClient over a JsonlStructuredLLMCache file that     *)
(* outlives the process, which may die at any step and be started again    *)
(* with another configuration or schema version.                           *)
(*                                                                         *)
(* A session goes through the rows of its task, and through the prompts of *)
(* each row.  A completion remembers what it was asked under.              *)
(***************************************************************************)
EXTENDS JsonlFile, FactVerification

CONSTANTS
  None,
  Unsaved,        \* what comes of a row whose answer could not be written
  Sessions,       \* what a process may be started for: [task, config,
                  \*   schema_version, provider, verifier, id2label]
  Rows,           \* task -> the rows, each a sequence of prompts
  Data,           \* task -> what a provider may answer with
  ValidExtraction,\* the data WindowExtraction accepts
  Evidence,       \* fact prompt -> its claim's evidence set, best first
  MaxRetries,     \* provider -> retries on a transient error
  MaxSessions     \* bound on how many processes are started

(* What a task may keep of its answers.                                    *)
Kept(task) ==
  LET asked == {p \in DOMAIN Evidence : Evidence[p] # <<>>}
      given == {FactOf(raw, p, Evidence[p]) : raw \in Data["verify"], p \in asked}
  IN  IF task = "build" THEN ValidExtraction
      ELSE {NLIResultOf(fact) : fact \in given \ {Rejected}}

(* A row that failed has no records. *)
Failures == {Rejected, Unsaved}

(* No records are the same as a failure.  A row has a prompt; a fact to    *)
(* verify has its claim's evidence, and a judge answers with a verdict and *)
(* its quotes, or nothing usable.                                          *)
ASSUME AnswersAssumption ==
  /\ Rejected # Unsaved
  /\ \A task \in DOMAIN Rows : Failures \intersect Seq(Kept(task)) = {}
  /\ DOMAIN Rows = {"build", "verify"}
  /\ \A s \in Sessions : s.task \in DOMAIN Rows
  /\ \A task \in DOMAIN Rows :
       /\ Rows[task] \in Seq(ToSet(Rows[task]))
       /\ \A prompts \in ToSet(Rows[task]) :
            prompts \in Seq(ToSet(prompts)) /\ prompts # <<>>
  /\ \A prompts \in ToSet(Rows["verify"]) : ToSet(prompts) \subseteq DOMAIN Evidence
  /\ \A p \in DOMAIN Evidence : Evidence[p] \in Seq(ToSet(Evidence[p]))
  /\ \A raw \in Data["verify"] \ {Rejected} :
       raw.verdict \in FactLabel /\ raw.quotes \in Seq(ToSet(raw.quotes))

VARIABLES
  cache,     \* the cache file of each task
  process,   \* "down", "up", "done", "aborted" by an error, "refused" by the file
  session,
  started,   \* processes started so far
  store,     \* JsonlStructuredLLMCache._store
  row, step, \* the row and the prompt in it
  phase,     \* "next", "ask", "put", "judge"
  attempt,   \* transient errors so far
  inhand,    \* the completion just made or found, None if there is none
  facts,     \* the row's records so far
  outcomes   \* of the rows behind: their records, or a failure

memory == <<store, row, step, phase, attempt, inhand, facts, outcomes>>
vars == <<cache, process, session, started, memory>>

-----------------------------------------------------------------------------
(* Mutant: the schema version is left out of the key. *)
KeyOfConfig(s, prompt) == <<s.config, prompt>>

(* CachingStructuredLLMClient._cache_key *)
_cache_key(s, prompt) == <<s.config, s.schema_version, prompt>>

Prompts == Rows[session.task]
Prompt == Prompts[row][step]
Key == _cache_key(session, Prompt)

(* What a consumer makes of a completion: the records, or Rejected. *)
Parsed(task, completion, prompt) ==
  IF task = "build"
  THEN IF completion.data \in ValidExtraction THEN <<completion.data>> ELSE Rejected
  ELSE LET fact == FactOf(completion.data, prompt, Evidence[prompt])
       IN  IF fact = Rejected THEN Rejected ELSE <<NLIResultOf(fact)>>

(* An empty evidence set is judged without a call. *)
Unasked(s, prompt) == s.task = "verify" /\ Evidence[prompt] = <<>>

FreshMemory(cached) ==
  /\ store' = cached
  /\ row' = 1 /\ step' = 1 /\ phase' = "next"
  /\ attempt' = 0 /\ inhand' = None /\ facts' = <<>> /\ outcomes' = <<>>

Init ==
  /\ cache = [task \in DOMAIN Rows |-> EmptyFile]
  /\ process = "down" /\ session = None /\ started = 0
  /\ store = <<>> /\ row = 1 /\ step = 1 /\ phase = "next"
  /\ attempt = 0 /\ inhand = None /\ facts = <<>> /\ outcomes = <<>>

Up(p) == process = "up" /\ phase = p

(* A process for s, when its cross-encoder, if it is to load one, names    *)
(* its classes in words that are known.  An LLM session loads the cache    *)
(* file whole, or refuses it.                                              *)
Start(s) ==
  /\ process # "up" /\ started < MaxSessions
  /\ started' = started + 1
  /\ session' = s
  /\ IF s.verifier = "cross_encoder"
     THEN /\ process' = IF LabelsKnown(s.id2label) THEN "up" ELSE "aborted"
          /\ FreshMemory(<<>>)
     ELSE IF Loadable(cache[s.task])
     THEN process' = "up" /\ FreshMemory(Contents(cache[s.task]))
     ELSE process' = "refused" /\ FreshMemory(<<>>)
  /\ UNCHANGED cache

(* The row is left behind with what came of it. *)
CloseRow(outcome) ==
  /\ outcomes' = Append(outcomes, outcome)
  /\ row' = row + 1 /\ step' = 1 /\ phase' = "next" /\ facts' = <<>>
  /\ inhand' = None /\ attempt' = 0

(* The records of one prompt; the row is closed after its last. *)
Record(records) ==
  IF step = Len(Prompts[row]) THEN CloseRow(facts \o records)
  ELSE /\ facts' = facts \o records
       /\ step' = step + 1 /\ phase' = "next" /\ inhand' = None /\ attempt' = 0
       /\ UNCHANGED <<row, outcomes>>

(* ValueError: the construction skips the window, run_condition records    *)
(* the row as failed.  Any other error ends a construction, but only the   *)
(* row of a study, which goes on with what it holds.                       *)
RaiseValueError == CloseRow(Rejected) /\ UNCHANGED <<process, store>>

RaiseError(outcome, held) ==
  IF session.task = "build"
  THEN process' = "aborted" /\ FreshMemory(<<>>)
  ELSE CloseRow(outcome) /\ store' = held /\ UNCHANGED process

-----------------------------------------------------------------------------
(* A claim without evidence has no records. *)
PassUnasked ==
  /\ Up("next") /\ row <= Len(Prompts)
  /\ session.verifier = "llm" /\ Unasked(session, Prompt)
  /\ Record(<<>>)
  /\ UNCHANGED <<cache, process, session, started, store>>

(* The cross-encoder judges each record; no structured call is made. *)
CrossEncode ==
  /\ Up("next") /\ row <= Len(Prompts)
  /\ session.verifier = "cross_encoder"
  /\ \E classes \in [DOMAIN Evidence[Prompt] -> DOMAIN session.id2label] :
       Record(CrossEncoded(Prompt, Evidence[Prompt], classes, session.id2label))
  /\ UNCHANGED <<cache, process, session, started, store>>

(* complete_structured() up to the call it may save. *)
ConsultCache ==
  /\ Up("next") /\ row <= Len(Prompts)
  /\ session.verifier = "llm" /\ ~Unasked(session, Prompt)
  /\ IF Key \in DOMAIN store
     THEN phase' = "judge" /\ inhand' = store[Key]
     ELSE phase' = "ask" /\ UNCHANGED inhand
  /\ UNCHANGED <<cache, process, session, started, store, row, step, attempt, facts, outcomes>>

(* One attempt at the provider.  Without content, cut short, or not JSON:  *)
(* ValueError, and so does the client that makes no calls.                 *)
Answered ==
  /\ Up("ask") /\ session.provider # "none"
  /\ \E data \in Data[session.task] :
       inhand' = [data |-> data, model_fingerprint |-> session.config,
                  asked_under |-> session.schema_version]
  /\ phase' = "put"
  /\ UNCHANGED <<cache, process, session, started, store, row, step, attempt, facts, outcomes>>

Retry ==
  /\ Up("ask") /\ session.provider # "none"
  /\ attempt < MaxRetries[session.provider]
  /\ attempt' = attempt + 1
  /\ UNCHANGED <<cache, process, session, started, store, row, step, phase, inhand, facts, outcomes>>

Unusable ==
  /\ Up("ask")
  /\ RaiseValueError
  /\ UNCHANGED <<cache, session, started>>

CallFails ==
  /\ Up("ask") /\ session.provider # "none"
  /\ RaiseError(Rejected, store)
  /\ UNCHANGED <<cache, session, started>>

Filed(held, key, value) ==
  [k \in DOMAIN held \union {key} |-> IF k = key THEN value ELSE held[k]]

(* Mutant: the file is written when the process ends. *)
PutInMemory ==
  /\ Up("put")
  /\ store' = Filed(store, Key, inhand)
  /\ phase' = "judge"
  /\ UNCHANGED <<cache, process, session, started, row, step, attempt, inhand, facts, outcomes>>

(* JsonlStructuredLLMCache.put(), before the answer is looked at: the      *)
(* dictionary first, then the file, whose write may raise.                 *)
Put ==
  /\ Up("put")
  /\ LET line == [key |-> Key, value |-> inhand]
     IN  \/ /\ cache' = [cache EXCEPT ![session.task] = Written(@, line)]
            /\ store' = Filed(store, Key, inhand)
            /\ phase' = "judge"
            /\ UNCHANGED <<process, row, step, attempt, inhand, facts, outcomes>>
         \/ /\ \E file \in CutShort(cache[session.task], line) :
                 cache' = [cache EXCEPT ![session.task] = file]
            /\ RaiseError(Unsaved, Filed(store, Key, inhand))
  /\ UNCHANGED <<session, started>>

(* parse_window_extraction, or parse_fact_verdict and what follows it. *)
Judge ==
  /\ Up("judge")
  /\ LET records == Parsed(session.task, inhand, Prompt)
     IN  IF records = Rejected THEN CloseRow(Rejected) ELSE Record(records)
  /\ UNCHANGED <<cache, process, session, started, store>>

Finish ==
  /\ Up("next") /\ row > Len(Prompts)
  /\ process' = "done"
  /\ UNCHANGED <<cache, session, started, memory>>

(* Between any two steps, or within the write. *)
Crash ==
  /\ process = "up"
  /\ process' = "down" /\ FreshMemory(<<>>)
  /\ \/ UNCHANGED cache
     \/ /\ phase = "put"
        /\ \E file \in CutShort(cache[session.task], [key |-> Key, value |-> inhand]) :
             cache' = [cache EXCEPT ![session.task] = file]
  /\ UNCHANGED <<session, started>>

Next ==
  \/ \E s \in Sessions : Start(s)
  \/ PassUnasked \/ CrossEncode \/ ConsultCache
  \/ Answered \/ Retry \/ Unusable \/ CallFails
  \/ Put \/ Judge \/ Finish
  \/ Crash

Spec == Init /\ [][Next]_vars

-----------------------------------------------------------------------------
(* What the completions held make of one prompt, and of the first n of a   *)
(* row: Rejected from the first that is missing or was rejected.           *)
Made(held, s, p) ==
  IF Unasked(s, p) THEN <<>>
  ELSE IF _cache_key(s, p) \notin DOMAIN held THEN Rejected
  ELSE Parsed(s.task, held[_cache_key(s, p)], p)

RecordsMade(held, s, prompts) ==
  LET first[n \in 0..Len(prompts)] ==
        IF n = 0 THEN <<>>
        ELSE IF Rejected \in {first[n - 1], Made(held, s, prompts[n])} THEN Rejected
        ELSE first[n - 1] \o Made(held, s, prompts[n])
  IN  first

(* What the cache file alone makes of a row. *)
Replay(s, prompts) == RecordsMade(Contents(cache[s.task]), s, prompts)[Len(prompts)]

(* Two claims may ask the same of the same evidence; two windows never do, *)
(* a window's prompt says where in the novel it is.                        *)
AskedAgain(i) ==
  \E j \in (i + 1)..Len(Prompts) : ToSet(Prompts[i]) \intersect ToSet(Prompts[j]) # {}

(* A prompt of row i that a row before it lost when the write of its       *)
(* answer failed: the process still has the answer, the file has not.      *)
JudgedFromMemory(i) ==
  \E j \in 1..(i - 1) :
    /\ outcomes[j] = Unsaved
    /\ \E p \in ToSet(Prompts[i]) \intersect ToSet(Prompts[j]) :
         _cache_key(session, p) \in DOMAIN store \ DOMAIN Contents(cache[session.task])

(* A session is its cache: what a finished build or study made of each     *)
(* row, skipped windows and failed rows included, is what a later cache-   *)
(* only run will make of it ("reproducing the original graph exactly"),    *)
(* whatever crashes, rejections, failed writes and other configurations    *)
(* came before.  The exceptions are those of the code: a row that failed   *)
(* when a later one got an answer to the same prompt; a row whose own      *)
(* answer could not be written; a row after it, judged by that answer,     *)
(* which only the process had; and a file that a write cut short has made  *)
(* unreadable, which the next session refuses whole.                       *)
SessionsAreReplayable ==
  (process = "done" /\ session.verifier = "llm" /\ Loadable(cache[session.task])) =>
    \A i \in DOMAIN outcomes :
      \/ outcomes[i] = Replay(session, Prompts[i])
      \/ outcomes[i] = Rejected /\ AskedAgain(i)
      \/ outcomes[i] = Unsaved
      \/ JudgedFromMemory(i)

(* No completion made under another model configuration or schema version  *)
(* is ever read back, even from a shared cache file.                       *)
OwnAnswersOnly ==
  (process = "up" /\ inhand # None) =>
    /\ inhand.model_fingerprint = session.config
    /\ inhand.asked_under = session.schema_version

(* The records of the rows a study is through with or in the middle of *)
Judged ==
  (UNION {ToSet(outcomes[i]) : i \in {j \in DOMAIN outcomes : outcomes[j] \notin Failures}})
    \union ToSet(facts)

(* No judgement rests on a citation nobody made: a record that supports or *)
(* contradicts a claim quotes the claim's own evidence, every quote in it  *)
(* is in that evidence, the chunk it names holds its first quote, and its  *)
(* label means what the judge, LLM or cross-encoder, said of the pair.     *)
JudgementsCiteEvidence ==
  (session # None /\ session.task = "verify") =>
    \A r \in Judged :
      LET evidence == Evidence[r.atomic_claim_id]
          held(k) == QuotesIn[k] \union {k}
      IN  /\ r.evidence_chunk_id \in ToSet(evidence)
          /\ r.label = IF r.said \in FactLabel
                       THEN (CASE r.said = "SUPPORTED" -> "ENTAILMENT"
                               [] r.said = "CONTRADICTED" -> "CONTRADICTION"
                               [] OTHER -> "NEUTRAL")
                       ELSE Alias[r.said]
          /\ r.label # "NEUTRAL" => r.premise # <<>>
          /\ r.premise # <<>> => r.premise[1] \in held(r.evidence_chunk_id)
          /\ \A q \in ToSet(r.premise) : \E k \in ToSet(evidence) : q \in held(k)
=============================================================================
