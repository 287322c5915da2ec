------------------------- MODULE ResumableEvaluation -------------------------
(***************************************************************************)
(* An evaluation study that can be killed and started again: the process   *)
(* of scripts/evaluate_with_graph.py runs every row under each condition,  *)
(* one checkpoint file per verifier mode and condition, and asks the       *)
(* decomposition model through CachingLLMClient over a JsonlLLMCache file. *)
(* The mode is edited between two runs, never within one.                  *)
(*                                                                         *)
(* The rows of a study have distinct ids and distinct claims, so a row     *)
(* stands for its prompt and its cache key.  What follows decomposition is *)
(* deterministic given the verifier, so an outcome that is not Failed is   *)
(* named by the completion it was derived from and the verifier's mode.    *)
(***************************************************************************)
EXTENDS JsonlFile

CONSTANTS
  None,
  rows,         \* the rows of the data set, in file order
  Condition,    \* the conditions of the study, in the order they are run
  Mode,         \* what VERIFIER_MODE may be set to
  Completion,   \* what the model may answer to a prompt
  Parsable,     \* the completions the decomposition parser accepts
  Failed,       \* the outcome of a row whose execution raised
  MaxRetries,   \* _MAX_RETRIES of the provider client
  MaxProcesses  \* how often the study may be started: a bound of the model

(* main() runs each row under two conditions, without the graph and with   *)
(* it, and appends each to a file of its own.                              *)
ASSUME StudyAssumption ==
  /\ rows \in Seq(ToSet(rows)) /\ IsInjective(rows)
  /\ Condition \in Seq(ToSet(Condition)) /\ IsInjective(Condition)
  /\ Len(Condition) = 2
  /\ Parsable \subseteq Completion
  /\ {None, Failed} \intersect Completion = {}
  /\ None \notin Mode
  /\ Malformed \notin
       [key : ToSet(rows),
        value : Completion \union (Parsable \X Mode) \union {Failed}]
  /\ MaxRetries \in Nat
  /\ MaxProcesses \in Nat

VARIABLES
  checkpoint,   \* [mode, condition -> file]: survives the process
  cache,        \* the completion cache file: survives the process
  process,      \* "down", "up", "finished", or "refused" by a file
  started,      \* how many processes there have been
  mode,         \* VERIFIER_MODE of the process
  condition,    \* index of the condition being run
  next_row,     \* index of the row being run
  phase,        \* what the process does next with that row
  loaded,       \* the checkpoint dictionary read when the condition began
  store,        \* JsonlLLMCache._store
  attempt,      \* provider calls made for this prompt that failed
  inhand,       \* the completion or the outcome about to be written
  results       \* [condition -> list of records] returned by run_condition

files  == <<checkpoint, cache>>
memory == <<mode, condition, next_row, phase, loaded, store, attempt, inhand, results>>
vars   == <<files, process, started, memory>>

Rows == ToSet(rows)
Conditions == ToSet(Condition)
Paths == Mode \X Conditions
Nothing == [key \in {} |-> None]

Record(value) == [key : Rows, value : value]

File(value) ==
  {f \in [lines : Seq(Record(value) \union {Malformed}), ended : BOOLEAN] :
     f.ended \/ f.lines # <<>>}

(* What a row came to: a verdict, named by the completion and the mode it  *)
(* was derived with, or the row's failure.                                 *)
Outcome == (Parsable \X Mode) \union {Failed}

TypeOK ==
  /\ checkpoint \in [Paths -> File(Outcome)]
  /\ cache \in File(Completion)
  /\ process \in {"down", "up", "finished", "refused"}
  /\ started \in 0..MaxProcesses
  /\ mode \in Mode \union {None} /\ (process = "up" => mode # None)
  /\ condition \in 1..Len(Condition)
  /\ next_row \in 1..(Len(rows) + 1)
  /\ phase \in {"open", "loop", "ask", "put", "append"}
  /\ DOMAIN loaded \subseteq Rows /\ loaded \in [DOMAIN loaded -> Outcome]
  /\ DOMAIN store \subseteq Rows /\ store \in [DOMAIN store -> Completion]
  /\ attempt \in 0..MaxRetries
  /\ inhand \in CASE phase = "put" -> Completion
                  [] phase = "append" -> Outcome
                  [] OTHER -> {None}
  /\ results \in [Conditions -> Seq(Record(Outcome))]
  /\ \A c \in Conditions : Len(results[c]) <= Len(rows)

NoResults == [c \in Conditions |-> <<>>]

Init ==
  /\ checkpoint = [path \in Paths |-> EmptyFile]
  /\ cache = EmptyFile
  /\ process = "down" /\ started = 0 /\ mode = None
  /\ condition = 1 /\ next_row = 1 /\ phase = "open"
  /\ loaded = Nothing /\ store = Nothing
  /\ attempt = 0 /\ inhand = None /\ results = NoResults

(* The memory a process starts with; a dead process is given the same. *)
FreshMemory(cached) ==
  /\ condition' = 1 /\ next_row' = 1 /\ phase' = "open"
  /\ loaded' = Nothing /\ store' = cached
  /\ attempt' = 0 /\ inhand' = None /\ results' = NoResults

Current == Condition[condition]
Row == rows[next_row]

(* Mutant: file names without the checkpoint suffix. *)
path_without_mode == <<CHOOSE m \in Mode : TRUE, Current>>

checkpoint_path == <<mode, Current>>

Up(p) == process = "up" /\ phase = p

-----------------------------------------------------------------------------
(* Mutant: the file is not read back. *)
StartCold ==
  /\ process # "up" /\ started < MaxProcesses
  /\ started' = started + 1
  /\ process' = "up" /\ mode' \in Mode /\ FreshMemory(Nothing)
  /\ UNCHANGED files

(* main(): the cache is loaded before any row is run. *)
Start ==
  /\ process # "up" /\ started < MaxProcesses
  /\ started' = started + 1
  /\ IF Loadable(cache)
     THEN process' = "up" /\ mode' \in Mode /\ FreshMemory(Contents(cache))
     ELSE process' = "refused" /\ mode' = None /\ FreshMemory(Nothing)
  /\ UNCHANGED files

(* run_condition() begins: load_checkpoint(). *)
OpenCheckpoint ==
  /\ Up("open")
  /\ IF Loadable(checkpoint[checkpoint_path])
     THEN /\ loaded' = Contents(checkpoint[checkpoint_path])
          /\ phase' = "loop"
          /\ UNCHANGED <<process, mode, condition, next_row, store, attempt, inhand, results>>
     ELSE process' = "refused" /\ mode' = None /\ FreshMemory(Nothing)
  /\ UNCHANGED <<files, started>>

Report(outcome) ==
  /\ results' = [results EXCEPT ![Current] =
                   Append(@, [key |-> Row, value |-> outcome])]
  /\ next_row' = next_row + 1

(* Mutant: continue without results.append. *)
SkipUnreported ==
  /\ Up("loop") /\ next_row <= Len(rows)
  /\ Row \in DOMAIN loaded
  /\ next_row' = next_row + 1
  /\ UNCHANGED <<files, process, started, mode, condition, phase, loaded, store, attempt, inhand, results>>

SkipRow ==
  /\ Up("loop") /\ next_row <= Len(rows)
  /\ Row \in DOMAIN loaded
  /\ Report(loaded[Row])
  /\ UNCHANGED <<files, process, started, mode, condition, phase, loaded, store, attempt, inhand>>

(* What run_claim makes of a completion: the parser rejects it, a later    *)
(* stage raises, or there is a verdict.                                    *)
Outcomes(completion) ==
  IF completion \in Parsable THEN {<<completion, mode>>, Failed} ELSE {Failed}

Finish(outcome) == phase' = "append" /\ inhand' = outcome

(* Mutant: the checkpoint is not consulted. *)
ConsultCacheOnly ==
  /\ Up("loop") /\ next_row <= Len(rows)
  /\ IF Row \in DOMAIN store
     THEN \E outcome \in Outcomes(store[Row]) : Finish(outcome)
     ELSE phase' = "ask" /\ UNCHANGED inhand
  /\ UNCHANGED <<files, process, started, mode, condition, next_row, loaded, store, attempt, results>>

(* CachingLLMClient.complete() up to the call it may save. *)
ConsultCache ==
  /\ Up("loop") /\ next_row <= Len(rows)
  /\ Row \notin DOMAIN loaded
  /\ IF Row \in DOMAIN store
     THEN \E outcome \in Outcomes(store[Row]) : Finish(outcome)
     ELSE phase' = "ask" /\ UNCHANGED inhand
  /\ UNCHANGED <<files, process, started, mode, condition, next_row, loaded, store, attempt, results>>

(* Mutants: one attempt too many, and no limit. *)
AskOnceMore ==
  /\ Up("ask")
  /\ \/ /\ attempt <= MaxRetries
        /\ attempt' = attempt + 1
        /\ UNCHANGED <<phase, inhand>>
     \/ Finish(Failed) /\ attempt' = 0
  /\ UNCHANGED <<files, process, started, mode, condition, next_row, loaded, store, results>>

AskForEver ==
  /\ Up("ask")
  /\ attempt' = (attempt + 1) % (MaxRetries + 1)
  /\ UNCHANGED <<files, process, started, mode, condition, next_row, phase, loaded, store, inhand, results>>

(* One attempt of GeminiLLMClient.complete(): an answer, an error worth    *)
(* another attempt, or an error that is raised and fails the row.          *)
Ask ==
  /\ Up("ask")
  /\ \/ \E completion \in Completion :
          phase' = "put" /\ inhand' = completion /\ attempt' = 0
     \/ /\ attempt < MaxRetries
        /\ attempt' = attempt + 1
        /\ UNCHANGED <<phase, inhand>>
     \/ Finish(Failed) /\ attempt' = 0
  /\ UNCHANGED <<files, process, started, mode, condition, next_row, loaded, store, results>>

(* Mutant: the completion is kept in memory only. *)
PutInMemory ==
  /\ Up("put")
  /\ store' = [key \in DOMAIN store \union {Row} |->
                 IF key = Row THEN inhand ELSE store[key]]
  /\ \E outcome \in Outcomes(inhand) : Finish(outcome)
  /\ UNCHANGED <<files, process, started, mode, condition, next_row, loaded, attempt, results>>

(* JsonlLLMCache.put(): the dictionary first, then the file, whose write   *)
(* may raise and fail the row.                                             *)
PutCompletion ==
  /\ Up("put")
  /\ store' = [key \in DOMAIN store \union {Row} |->
                 IF key = Row THEN inhand ELSE store[key]]
  /\ LET line == [key |-> Row, value |-> inhand]
     IN  \/ /\ cache' = Written(cache, line)
            /\ \E outcome \in Outcomes(inhand) : Finish(outcome)
         \/ cache' \in CutShort(cache, line) /\ Finish(Failed)
  /\ UNCHANGED <<checkpoint, process, started, mode, condition, next_row, loaded, attempt, results>>

(* append_checkpoint(), the one call of the loop no except clause guards.  *)
AppendCheckpoint ==
  /\ Up("append")
  /\ checkpoint' = [checkpoint EXCEPT ![checkpoint_path] =
                      Written(@, [key |-> Row, value |-> inhand])]
  /\ Report(inhand)
  /\ phase' = "loop" /\ inhand' = None
  /\ UNCHANGED <<cache, process, started, mode, condition, loaded, store, attempt>>

EndCondition ==
  /\ Up("loop") /\ next_row > Len(rows)
  /\ IF condition = Len(Condition)
     THEN process' = "finished" /\ UNCHANGED <<condition, next_row, phase, loaded>>
     ELSE /\ condition' = condition + 1 /\ next_row' = 1
          /\ phase' = "open" /\ loaded' = Nothing
          /\ UNCHANGED process
  /\ UNCHANGED <<files, started, mode, store, attempt, inhand, results>>

(* The process dies: between two steps, or within a write, by a signal or, *)
(* in append_checkpoint(), by the write's own error.                       *)
Crash ==
  /\ process = "up"
  /\ process' = "down" /\ mode' = None /\ FreshMemory(Nothing)
  /\ UNCHANGED started
  /\ LET line == [key |-> Row, value |-> inhand]
     IN  \/ UNCHANGED files
         \/ /\ phase = "put"
            /\ cache' \in CutShort(cache, line)
            /\ UNCHANGED checkpoint
         \/ /\ phase = "append"
            /\ \E file \in CutShort(checkpoint[checkpoint_path], line) :
                 checkpoint' = [checkpoint EXCEPT ![checkpoint_path] = file]
            /\ UNCHANGED cache

Work ==
  \/ OpenCheckpoint \/ SkipRow \/ ConsultCache \/ Ask \/ PutCompletion
  \/ AppendCheckpoint \/ EndCondition

Next == Start \/ Work \/ Crash

Spec == Init /\ [][Next]_vars

(* A running process takes its next step; nobody is obliged to restart it. *)
FairSpec == Spec /\ WF_vars(Work)

-----------------------------------------------------------------------------
(* However often the process dies, no row is evaluated twice under one     *)
(* mode and condition: a checkpoint never holds two records of a row, and  *)
(* it lists the rows in order.                                             *)
EachRowRecordedOnce ==
  \A path \in Paths :
    LET lines == checkpoint[path].lines
    IN  \A i \in DOMAIN lines :
          Malformed \notin ToSet(SubSeq(lines, 1, i)) => lines[i].key = rows[i]

(* A completion that reached the cache file is never paid for again, by    *)
(* this process or by a later one, whatever its verifier.                  *)
PaidCompletionsAreReused ==
  phase \in {"ask", "put"} => \A r \in RecordsOf(cache) : r.key # Row

(* The two conditions of the study are comparable: when a row has a verdict*)
(* in both, both verdicts come from the same decomposition of its claim,   *)
(* even when one was made before a crash and the other after it.           *)
ConditionsComparable ==
  \A m \in Mode : \A c, d \in Conditions :
    \A r \in RecordsOf(checkpoint[<<m, c>>]), s \in RecordsOf(checkpoint[<<m, d>>]) :
      r.key = s.key /\ Failed \notin {r.value, s.value} => r.value = s.value

(* A process reports only verdicts of the verifier it was started with: a  *)
(* study whose VERIFIER_MODE was changed and that is started again does    *)
(* not replay the rows another verifier judged.                            *)
OwnVerifierOnly ==
  \A c \in Conditions : \A i \in DOMAIN results[c] :
    results[c][i].value # Failed => results[c][i].value[2] = mode

(* A finished study reports every row once and in order, and, for every    *)
(* checkpoint still readable, exactly what the file says: the metrics and  *)
(* a later re-analysis of the file see the same data.                      *)
ReportMatchesCheckpoint ==
  process = "finished" =>
    \A c \in Conditions :
      /\ Len(results[c]) = Len(rows)
      /\ \A i \in DOMAIN rows : results[c][i].key = rows[i]
      /\ LET file == checkpoint[<<mode, c>>]
         IN  Loadable(file) => results[c] = file.lines

(* A process does not run for ever: the retries of the provider client are *)
(* bounded and every row is left behind.                                   *)
EachProcessEnds == process = "up" ~> process # "up"

(* What the docstrings of JsonlLLMCache and run_dataset say: a crash part  *)
(* of the way through never loses the completions paid for or the rows     *)
(* done, because each was appended at once.                                *)
CrashLosesNothing ==
  \A file \in {cache} \union {checkpoint[path] : path \in Paths} :
    RecordsOf(file) # {} => Loadable(file)
=============================================================================
