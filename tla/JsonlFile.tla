------------------------------ MODULE JsonlFile ------------------------------
(***************************************************************************)
(* The append-only JSON-lines files behind the evaluation checkpoints and  *)
(* the persistent completion caches: one record [key, value] per line,     *)
(* loaded whole, appended to in text mode, never repaired.                 *)
(*                                                                         *)
(* A file is its lines and whether the last one ends with a newline.  A    *)
(* write that is cut short may have reached the file in part: nothing, a   *)
(* part of the record, or all of it but the newline.  Whatever is appended *)
(* next lands on the same line.                                            *)
(***************************************************************************)
EXTENDS Naturals, Sequences, SequencesExt

CONSTANT Malformed   \* a line json.loads rejects

EmptyFile == [lines |-> <<>>, ended |-> TRUE]

(* open("a"): the text that becomes the last line of the file. *)
LastLineWith(file, text) ==
  IF file.ended THEN Append(file.lines, text)
  ELSE [file.lines EXCEPT ![Len(file.lines)] = Malformed]

Written(file, record) ==
  [lines |-> LastLineWith(file, record), ended |-> TRUE]

CutShort(file, record) ==
  {file} \union
  {[lines |-> LastLineWith(file, text), ended |-> FALSE] :
     text \in {record, Malformed}}

(* The loader raises at the first line it cannot parse. *)
Loadable(file) == Malformed \notin ToSet(file.lines)

RecordsOf(file) == ToSet(file.lines) \ {Malformed}

(* The dictionary the loader builds: the last line of a key wins. *)
Loaded(file) ==
  [key \in {r.key : r \in RecordsOf(file)} |->
     SelectLastInSeq(file.lines, LAMBDA r : r.key = key)]

Contents(file) ==
  LET at == Loaded(file) IN [key \in DOMAIN at |-> file.lines[at[key]].value]
=============================================================================
