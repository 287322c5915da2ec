----------------------- MODULE ResumableEvaluationProofs -----------------------
(***************************************************************************)
(* Proofs about ResumableEvaluation, for every list of rows, every set of  *)
(* modes and completions, any number of processes and crashes anywhere.    *)
(*                                                                         *)
(* The invariant has four parts: the types and which phase goes with which *)
(* memory (Shaped); how far the loop is into the checkpoint file it reads  *)
(* and extends (InOrder, DistinctKeys, Accounted, InStep); what has been   *)
(* reported (OfItsMode, LoadedOfMode, Reported); and where the completions *)
(* behind the verdicts come from (Cached, Grounded, SecondAfterFirst,      *)
(* SameCompletion).                                                        *)
(***************************************************************************)
EXTENDS ResumableEvaluation, WellFoundedInduction, TLAPS

(* The file the current condition is run against. *)
Here == checkpoint[checkpoint_path]

First == Condition[1]
Second == Condition[2]

Count(file) == Len(file.lines)

Busy == process = "up" /\ phase # "open"

(* Which phase goes with which memory. *)
Shaped ==
  /\ process \in {"down", "refused"} =>
       mode = None /\ phase = "open" /\ results = NoResults
  /\ process = "finished" =>
       /\ condition = 2 /\ next_row = Len(rows) + 1
       /\ phase = "loop" /\ mode \in Mode
  /\ phase = "open" => next_row = 1
  /\ phase \in {"ask", "put", "append"} =>
       process = "up" /\ next_row <= Len(rows) /\ Row \notin DOMAIN loaded
  /\ phase = "append" => inhand = Failed \/ inhand[2] = mode

(* The lines of a checkpoint before its first malformed one are the rows of*)
(* the study, from the first on.                                           *)
Ordered(file) ==
  \A i \in 1..Count(file) :
    (\A j \in 1..i : file.lines[j] # Malformed) =>
      i <= Len(rows) /\ file.lines[i].key = rows[i]

(* A row has one record in a checkpoint, even behind a malformed line: the *)
(* rows the file has are those loaded from it and those passed since.      *)
DistinctKeys ==
  \A path \in Paths :
    LET lines == checkpoint[path].lines
    IN  \A i, j \in 1..Count(checkpoint[path]) :
          lines[i] # Malformed /\ lines[j] # Malformed /\ lines[i].key = lines[j].key
            => i = j
Accounted ==
  Busy => \A r \in RecordsOf(Here) :
            \/ r.key \in DOMAIN loaded
            \/ \E i \in 1..(next_row - 1) : r.key = rows[i]

(* A checkpoint holds verdicts of the mode it is named for. *)
OfItsMode ==
  \A path \in Paths : \A r \in RecordsOf(checkpoint[path]) :
    r.value # Failed => r.value[2] = path[1]

(* The loop is either inside what it loaded or just behind the last line.  *)
InStep ==
  Busy /\ Loadable(Here) =>
    /\ next_row - 1 <= Count(Here)
    /\ \A i \in next_row..Len(rows) : rows[i] \in DOMAIN loaded <=> i <= Count(Here)
    /\ \A i \in next_row..Count(Here) : loaded[rows[i]] = Here.lines[i].value
LoadedOfMode ==
  process = "up" =>
    \A r \in DOMAIN loaded : loaded[r] # Failed => loaded[r][2] = mode

(* What has been reported of a condition: the first n rows, in order, and  *)
(* as the file has them unless it has become unreadable.                   *)
Agrees(c, n) ==
  /\ Len(results[c]) = n
  /\ \A i \in 1..n : results[c][i].key = rows[i]
  /\ LET file == checkpoint[<<mode, c>>]
     IN  Loadable(file) => /\ n <= Count(file)
                           /\ \A i \in 1..n : results[c][i] = file.lines[i]
Reported ==
  /\ process \in {"up", "finished"} =>
       /\ Agrees(Current, next_row - 1)
       /\ condition = 2 => Agrees(First, Len(rows))
       /\ condition = 1 => results[Second] = <<>>
  /\ \A c \in Conditions : \A i \in DOMAIN results[c] :
       results[c][i].value # Failed => results[c][i].value[2] = mode

(* The store holds every completion the cache file has, and a row is asked *)
(* for only when it holds none.                                            *)
Cached ==
  process = "up" =>
    /\ \A r \in RecordsOf(cache) : r.key \in DOMAIN store
    /\ phase \in {"ask", "put"} => Row \notin DOMAIN store

(* The completion of a row: in the cache file while that can be read, and  *)
(* in the store of a running process.                                      *)
FromCache(row, completion) ==
  Loadable(cache) => /\ row \in {r.key : r \in RecordsOf(cache)}
                     /\ Contents(cache)[row] = completion
FromStore(row, completion) ==
  process = "up" => row \in DOMAIN store /\ store[row] = completion

(* Verdicts of the first condition rest on completions that were saved: in *)
(* the files, in the memory of the process, and for the row at hand.       *)
SavedVerdicts ==
  \A m \in Mode : \A r \in RecordsOf(checkpoint[<<m, First>>]) :
    r.value # Failed => FromCache(r.key, r.value[1])
KnownVerdicts ==
  \A m \in Mode : \A r \in RecordsOf(checkpoint[<<m, First>>]) :
    r.value # Failed => FromStore(r.key, r.value[1])
VerdictAtHand ==
  phase = "append" /\ inhand # Failed =>
    /\ FromStore(Row, inhand[1])
    /\ condition = 1 => FromCache(Row, inhand[1])

(* While the first condition runs, the store holds nothing for the rows to *)
(* come that the file does not: a completion whose saving failed belongs   *)
(* to a row that is left behind as failed.                                 *)
StoreIsSaved ==
  process = "up" /\ condition = 1 =>
    \A i \in next_row..Len(rows) :
      rows[i] \in DOMAIN store =>
        (i = next_row /\ phase = "append") \/ FromCache(rows[i], store[rows[i]])

Grounded == SavedVerdicts /\ KnownVerdicts /\ VerdictAtHand /\ StoreIsSaved

(* A verdict of the second condition comes after the whole of the first,   *)
(* and from the same completion.                                           *)
Complete(file) == Loadable(file) => Count(file) = Len(rows)

SecondAfterFirst ==
  \A m \in Mode :
    checkpoint[<<m, Second>>].lines # <<>> =>
      /\ Complete(checkpoint[<<m, First>>])
      /\ mode = m /\ condition = 1 /\ Busy => Loadable(checkpoint[<<m, First>>])

SameCompletion ==
  \A m \in Mode :
    \A r \in RecordsOf(checkpoint[<<m, First>>]),
       s \in RecordsOf(checkpoint[<<m, Second>>]) :
      r.key = s.key /\ r.value # Failed /\ s.value # Failed => r.value = s.value

InOrder == \A path \in Paths : Ordered(checkpoint[path])

StudyInv ==
  /\ TypeOK /\ Shaped /\ InOrder /\ DistinctKeys /\ OfItsMode /\ LoadedOfMode
  /\ Accounted /\ InStep /\ Reported /\ Cached /\ Grounded /\ SecondAfterFirst /\ SameCompletion
-----------------------------------------------------------------------------
(* Files of records.  Malformed is not one of them.                        *)

(* The greatest of an interval's members.                                  *)
LEMMA MaxOfInterval ==
  ASSUME NEW n \in Nat, NEW I \in SUBSET (1..n), I # {}
  PROVE  Max(I) \in I /\ \A x \in I : Max(I) >= x
  <1> DEFINE D == {n - i : i \in I}
  <1>1. D \subseteq Nat /\ D # {}
    <2>1. PICK i : i \in I
      OBVIOUS
    <2>2. n - i \in D
      BY <2>1
    <2> QED
      BY <2>2
  <1>2. PICK d \in D : \A y \in D : ~ <<y, d>> \in OpToRel(<, Nat)
    BY <1>1, NatLessThanWellFounded, WFMin, Zenon
  <1>3. \A y \in D : ~ y < d
    <2>1. \A y, z \in Nat : y < z => <<y, z>> \in OpToRel(<, Nat)
      BY Zenon DEF OpToRel
    <2> QED
      BY <1>1, <1>2, <2>1
  <1>4. PICK i \in I : d = n - i
    OBVIOUS
  <1>5. \A x \in I : i >= x
    <2> SUFFICES ASSUME NEW x \in I PROVE i >= x
      OBVIOUS
    <2>1. n - x \in D
      OBVIOUS
    <2>2. ~ (n - x < d)
      BY <1>3, <2>1
    <2> HIDE DEF D
    <2> QED
      BY <1>4, <2>2
  <1> QED
    BY <1>5 DEF Max

(* Records are none of the lines the parser rejects.                       *)
LEMMA MalformedIsNoRecord ==
  Malformed \notin Record(Outcome) /\ Malformed \notin Record(Completion)
  BY StudyAssumption DEF Record, Outcome, Rows

(* The lines of a file, its records, and when it can be loaded.            *)
LEMMA Lines ==
  ASSUME NEW value, NEW file \in File(value)
  PROVE  /\ file.lines \in Seq(Record(value) \union {Malformed})
         /\ Count(file) \in Nat /\ DOMAIN file.lines = 1..Count(file)
         /\ file.ended \in BOOLEAN
         /\ file.ended \/ Count(file) > 0
         /\ \A i \in 1..Count(file) : file.lines[i] \in Record(value) \union {Malformed}
         /\ \A r : r \in RecordsOf(file) <=>
              r # Malformed /\ \E i \in 1..Count(file) : r = file.lines[i]
         /\ Loadable(file) <=> \A i \in 1..Count(file) : file.lines[i] # Malformed
         /\ RecordsOf(file) \subseteq Record(value)
  <1>1. /\ file.lines \in Seq(Record(value) \union {Malformed})
        /\ file.ended \in BOOLEAN
        /\ file.ended \/ file.lines # <<>>
    BY DEF File
  <1>2. Count(file) \in Nat /\ DOMAIN file.lines = 1..Count(file)
    BY <1>1 DEF Count
  <1>3. \A i \in 1..Count(file) : file.lines[i] \in Record(value) \union {Malformed}
    BY <1>1, <1>2
  <1>4. file.ended \/ Count(file) > 0
    BY <1>1 DEF Count
  <1> QED
    BY <1>1, <1>2, <1>3, <1>4 DEF RecordsOf, Loadable, ToSet

(* What an append leaves behind, finished or cut short: nothing new, the   *)
(* record after a sound last line, or a malformed last line.               *)
LEMMA Appended ==
  ASSUME NEW value, Malformed \notin Record(value),
         NEW file \in File(value), NEW record \in Record(value),
         NEW new \in {Written(file, record)} \union CutShort(file, record)
  PROVE  /\ new \in File(value)
         /\ \A i \in 1..Count(new) :
              new.lines[i] # Malformed =>
                \/ i \in 1..Count(file) /\ new.lines[i] = file.lines[i]
                \/ i = Count(file) + 1 /\ new.lines[i] = record
         /\ RecordsOf(new) \subseteq RecordsOf(file) \union {record}
         /\ Loadable(new) => /\ Loadable(file)
                             /\ new = file \/ new.lines = Append(file.lines, record)
         /\ new.lines = <<>> => new = file
         /\ new = Written(file, record) /\ Loadable(new) =>
              new.lines = Append(file.lines, record)
  <1> DEFINE L == Record(value) \union {Malformed}
             n == Count(file)
  <1>1. /\ file.lines \in Seq(L) /\ n \in Nat /\ n = Len(file.lines)
        /\ file.ended \in BOOLEAN /\ (file.ended \/ n > 0)
        /\ \A i \in 1..n : file.lines[i] \in L
    BY Lines, Zenon DEF Count
  <1> SUFFICES ASSUME new # file
               PROVE  /\ new \in File(value)
                      /\ \A i \in 1..Count(new) :
                           new.lines[i] # Malformed =>
                             \/ i \in 1..n /\ new.lines[i] = file.lines[i]
                             \/ i = n + 1 /\ new.lines[i] = record
                      /\ Loadable(new) => /\ Loadable(file)
                                          /\ new.lines = Append(file.lines, record)
                      /\ new.lines # <<>>
                      /\ RecordsOf(new) \subseteq RecordsOf(file) \union {record}
    <2>1. CASE new # file
      BY <2>1
    <2>2. CASE new = file
      <3>1. Written(file, record) = file /\ Loadable(file) =>
              file.lines = Append(file.lines, record)
        <4> SUFFICES ASSUME Written(file, record) = file, Loadable(file)
                     PROVE  file.lines = Append(file.lines, record)
          OBVIOUS
        <4>1. file.ended /\ file.lines = LastLineWith(file, record)
          BY DEF Written
        <4> QED
          BY <4>1 DEF LastLineWith
      <3> QED
        BY <1>1, <2>2, <3>1
    <2> QED
      BY <2>1, <2>2
  <1>2. PICK text \in {record, Malformed}, ended \in BOOLEAN :
          new = [lines |-> LastLineWith(file, text), ended |-> ended]
    BY DEF Written, CutShort
  <1>3. CASE file.ended
    <2>1. new.lines = Append(file.lines, text)
      BY <1>2, <1>3 DEF LastLineWith
    <2>2. /\ new.lines \in Seq(L) /\ Count(new) = n + 1
          /\ \A i \in 1..n : new.lines[i] = file.lines[i]
          /\ new.lines[n + 1] = text
      BY <1>1, <2>1 DEF Count
    <2>3. new \in File(value)
      BY <1>2, <2>2, <1>1 DEF File, Count
    <2>4. Loadable(new) => Loadable(file) /\ text = record
      <3>1. Loadable(new) <=> \A i \in 1..Count(new) : new.lines[i] # Malformed
        BY <2>3, Lines, Zenon
      <3>2. Loadable(file) <=> \A i \in 1..Count(file) : file.lines[i] # Malformed
        BY Lines, Zenon
      <3> QED
        BY <1>1, <2>2, <3>1, <3>2
    <2>5. RecordsOf(new) \subseteq RecordsOf(file) \union {record}
      <3>1. \A r \in RecordsOf(new) :
              r # Malformed /\ \E i \in 1..Count(new) : r = new.lines[i]
        BY <2>2 DEF RecordsOf, ToSet, Count
      <3>2. \A r : r # Malformed /\ (\E i \in 1..n : r = file.lines[i]) =>
              r \in RecordsOf(file)
        BY Lines, Zenon
      <3> QED
        BY <1>1, <2>2, <3>1, <3>2
    <2>6. new.lines # <<>>
      BY <1>1, <2>2 DEF Count
    <2> QED
      BY <1>1, <1>2, <2>1, <2>2, <2>3, <2>4, <2>5, <2>6
  <1>4. CASE ~ file.ended
    <2>1. new.lines = [file.lines EXCEPT ![n] = Malformed] /\ n \in 1..n
      BY <1>1, <1>2, <1>4 DEF LastLineWith
    <2>2. /\ new.lines \in Seq(L) /\ Count(new) = n
          /\ \A i \in 1..n : i # n => new.lines[i] = file.lines[i]
          /\ new.lines[n] = Malformed
      BY <1>1, <2>1 DEF Count
    <2>3. new \in File(value)
      BY <1>2, <2>1, <2>2, <1>1 DEF File, Count
    <2>4. ~ Loadable(new)
      <3>1. Loadable(new) <=> \A i \in 1..Count(new) : new.lines[i] # Malformed
        BY <2>3, Lines, Zenon
      <3> QED
        BY <2>1, <2>2, <3>1
    <2>5. RecordsOf(new) \subseteq RecordsOf(file) \union {record}
      <3>1. \A r \in RecordsOf(new) :
              r # Malformed /\ \E i \in 1..Count(new) : r = new.lines[i]
        BY <2>2 DEF RecordsOf, ToSet, Count
      <3>2. \A r : r # Malformed /\ (\E i \in 1..n : r = file.lines[i]) =>
              r \in RecordsOf(file)
        BY Lines, Zenon
      <3> QED
        BY <1>1, <2>2, <3>1, <3>2
    <2>6. new.lines # <<>>
      BY <1>1, <2>1, <2>2 DEF Count
    <2> QED
      BY <1>1, <1>2, <2>1, <2>2, <2>3, <2>4, <2>5, <2>6
  <1> QED
    BY <1>1, <1>3, <1>4

(* What a loaded file says of a key is what its last line of it says.      *)
LEMMA ContentsOfLoadable ==
  ASSUME NEW value, Malformed \notin Record(value),
         NEW file \in File(value), Loadable(file)
  PROVE  /\ DOMAIN Contents(file) = {r.key : r \in RecordsOf(file)}
         /\ DOMAIN Contents(file) \subseteq Rows
         /\ Contents(file) \in [DOMAIN Contents(file) -> value]
         /\ \A key \in DOMAIN Contents(file) : \E i \in 1..Count(file) :
              /\ file.lines[i].key = key
              /\ Contents(file)[key] = file.lines[i].value
              /\ \A j \in 1..Count(file) : j > i => file.lines[j].key # key
  <1> DEFINE Keys == {r.key : r \in RecordsOf(file)}
             I(key) == {i \in 1..Len(file.lines) : file.lines[i].key = key}
  <1>1. /\ Count(file) \in Nat /\ Count(file) = Len(file.lines)
        /\ \A i \in 1..Count(file) : file.lines[i] \in Record(value)
        /\ \A r : r \in RecordsOf(file) <=>
              r # Malformed /\ \E i \in 1..Count(file) : r = file.lines[i]
        /\ RecordsOf(file) \subseteq Record(value)
    <2>1. Count(file) = Len(file.lines)
      BY DEF Count
    <2>2. \A i \in 1..Count(file) : /\ file.lines[i] \in Record(value) \union {Malformed}
                                    /\ file.lines[i] # Malformed
      BY Lines, Zenon
    <2> QED
      BY <2>1, <2>2, Lines
  <1>2. /\ DOMAIN Loaded(file) = Keys
        /\ \A key \in Keys : Loaded(file)[key] =
             SelectLastInSeq(file.lines, LAMBDA r : r.key = key)
    BY DEF Loaded
  <1>3. \A key \in Keys : I(key) # {}
    BY <1>1
  <1>4. \A key \in Keys : Loaded(file)[key] = Max(I(key))
    BY <1>2, <1>3 DEF SelectLastInSeq
  <1>5. \A key \in Keys : Max(I(key)) \in I(key) /\ \A x \in I(key) : Max(I(key)) >= x
    <2> SUFFICES ASSUME NEW key \in Keys
                 PROVE  Max(I(key)) \in I(key) /\ \A x \in I(key) : Max(I(key)) >= x
      OBVIOUS
    <2>1. I(key) \in SUBSET (1..Count(file)) /\ I(key) # {}
      BY <1>1, <1>3
    <2> QED
      BY <1>1, <2>1, MaxOfInterval
  <1>6. /\ DOMAIN Contents(file) = Keys
        /\ \A key \in Keys : Contents(file)[key] = file.lines[Max(I(key))].value
    BY <1>2, <1>4 DEF Contents
  <1>7. \A key \in Keys : \E i \in 1..Count(file) :
          /\ file.lines[i].key = key
          /\ Contents(file)[key] = file.lines[i].value
          /\ \A j \in 1..Count(file) : j > i => file.lines[j].key # key
    <2> SUFFICES ASSUME NEW key \in Keys
                 PROVE  \E i \in 1..Count(file) :
                          /\ file.lines[i].key = key
                          /\ Contents(file)[key] = file.lines[i].value
                          /\ \A j \in 1..Count(file) : j > i => file.lines[j].key # key
      OBVIOUS
    <2> DEFINE i == Max(I(key))
    <2>1. i \in 1..Count(file) /\ file.lines[i].key = key
      BY <1>1, <1>5
    <2>2. \A j \in 1..Count(file) : j > i => file.lines[j].key # key
      <3> SUFFICES ASSUME NEW j \in 1..Count(file), j > i, file.lines[j].key = key
                   PROVE  FALSE
        OBVIOUS
      <3>1. j \in I(key)
        BY <1>1
      <3>2. i >= j
        BY <1>5, <3>1
      <3> QED
        BY <1>1, <2>1, <3>2
    <2> QED
      BY <1>6, <2>1, <2>2
  <1>8. Keys \subseteq Rows
    BY <1>1 DEF Record
  <1>9. \A key \in Keys : Contents(file)[key] \in value
    <2> SUFFICES ASSUME NEW key \in Keys PROVE Contents(file)[key] \in value
      OBVIOUS
    <2>1. PICK i \in 1..Count(file) : Contents(file)[key] = file.lines[i].value
      BY <1>7
    <2>2. file.lines[i] \in Record(value)
      BY <1>1
    <2> QED
      BY <2>1, <2>2 DEF Record
  <1>10. Contents(file) = [key \in DOMAIN Contents(file) |-> Contents(file)[key]]
    BY DEF Contents
  <1> QED
    BY <1>6, <1>7, <1>8, <1>9, <1>10

(* An append does not change what the file says of another key, and what   *)
(* it says of the record's key is the record, if it can still be loaded.   *)
LEMMA ContentsOfAppended ==
  ASSUME NEW value, Malformed \notin Record(value),
         NEW file \in File(value), NEW record \in Record(value),
         NEW new \in {Written(file, record)} \union CutShort(file, record),
         Loadable(new)
  PROVE  /\ \A key \in DOMAIN Contents(file) :
              key # record.key => /\ key \in DOMAIN Contents(new)
                                  /\ Contents(new)[key] = Contents(file)[key]
         /\ new = Written(file, record) =>
              /\ record.key \in DOMAIN Contents(new)
              /\ Contents(new)[record.key] = record.value
  <1> DEFINE n == Count(file)
  <1>1. /\ new \in File(value) /\ Loadable(file)
        /\ new = file \/ new.lines = Append(file.lines, record)
        /\ new = Written(file, record) => new.lines = Append(file.lines, record)
    BY Appended
  <1> SUFFICES ASSUME new.lines = Append(file.lines, record)
               PROVE  /\ \A key \in DOMAIN Contents(file) :
                           key # record.key => /\ key \in DOMAIN Contents(new)
                                               /\ Contents(new)[key] = Contents(file)[key]
                      /\ record.key \in DOMAIN Contents(new)
                      /\ Contents(new)[record.key] = record.value
    BY <1>1
  <1>2. /\ n \in Nat /\ n = Len(file.lines)
        /\ file.lines \in Seq(Record(value) \union {Malformed})
        /\ \A i \in 1..n : file.lines[i] # Malformed
    BY <1>1, Lines, Zenon DEF Count
  <1>3. /\ Count(new) = n + 1 /\ new.lines[n + 1] = record
        /\ \A i \in 1..n : new.lines[i] = file.lines[i]
    BY <1>2 DEF Count
  <1>4. /\ DOMAIN Contents(file) = {r.key : r \in RecordsOf(file)}
        /\ \A key \in DOMAIN Contents(file) : \E i \in 1..n :
              /\ file.lines[i].key = key
              /\ Contents(file)[key] = file.lines[i].value
              /\ \A j \in 1..n : j > i => file.lines[j].key # key
    BY <1>1, ContentsOfLoadable, Zenon
  <1>5. /\ DOMAIN Contents(new) = {r.key : r \in RecordsOf(new)}
        /\ \A key \in DOMAIN Contents(new) : \E i \in 1..Count(new) :
              /\ new.lines[i].key = key
              /\ Contents(new)[key] = new.lines[i].value
              /\ \A j \in 1..Count(new) : j > i => new.lines[j].key # key
    BY <1>1, ContentsOfLoadable, Zenon
  <1>6. \A i \in 1..Count(new) : new.lines[i] \in RecordsOf(new)
    BY <1>1, Lines, Zenon
  <1>7. record.key \in DOMAIN Contents(new) /\ Contents(new)[record.key] = record.value
    <2>1. record.key \in DOMAIN Contents(new)
      BY <1>2, <1>3, <1>5, <1>6
    <2>2. PICK i \in 1..Count(new) :
              /\ new.lines[i].key = record.key
              /\ Contents(new)[record.key] = new.lines[i].value
              /\ \A j \in 1..Count(new) : j > i => new.lines[j].key # record.key
      BY <1>5, <2>1
    <2>3. i = n + 1
      BY <1>2, <1>3, <2>2
    <2> QED
      BY <1>3, <2>1, <2>2, <2>3
  <1>8. ASSUME NEW key \in DOMAIN Contents(file), key # record.key
        PROVE  key \in DOMAIN Contents(new) /\ Contents(new)[key] = Contents(file)[key]
    <2>1. PICK i \in 1..n :
              /\ file.lines[i].key = key
              /\ Contents(file)[key] = file.lines[i].value
              /\ \A j \in 1..n : j > i => file.lines[j].key # key
      BY <1>4, <1>8
    <2>2. key \in DOMAIN Contents(new)
      BY <1>2, <1>3, <1>5, <1>6, <2>1
    <2>3. PICK k \in 1..Count(new) :
              /\ new.lines[k].key = key
              /\ Contents(new)[key] = new.lines[k].value
              /\ \A j \in 1..Count(new) : j > k => new.lines[j].key # key
      BY <1>5, <2>2
    <2>4. k \in 1..n
      BY <1>2, <1>3, <1>8, <2>3
    <2>5. k = i
      <3>1. ~ k > i
        BY <1>3, <2>1, <2>3, <2>4
      <3>2. ~ i > k
        BY <1>2, <1>3, <2>1, <2>3, <2>4
      <3> QED
        BY <1>2, <2>4, <3>1, <3>2
    <2> QED
      BY <1>3, <2>1, <2>2, <2>3, <2>5
  <1> QED
    BY <1>7, <1>8
-----------------------------------------------------------------------------
(* The study: its two conditions and its rows are each told apart.         *)
LEMMA StudyFacts ==
  /\ Len(rows) \in Nat
  /\ \A i \in 1..Len(rows) : rows[i] \in Rows
  /\ \A i, j \in 1..Len(rows) : rows[i] = rows[j] => i = j
  /\ First \in Conditions /\ Second \in Conditions /\ First # Second
  /\ \A c \in Conditions : c = First \/ c = Second
  /\ \A m \in Mode : \A c \in Conditions : <<m, c>> \in Paths
  <1>1. /\ Len(rows) \in Nat
        /\ \A i \in 1..Len(rows) : rows[i] \in Rows
        /\ \A i, j \in 1..Len(rows) : rows[i] = rows[j] => i = j
    <2>1. rows \in Seq(Rows)
      BY StudyAssumption DEF Rows
    <2>2. \A i, j \in DOMAIN rows : rows[i] = rows[j] => i = j
      BY StudyAssumption DEF IsInjective
    <2> QED
      BY <2>1, <2>2
  <1>2. Condition \in Seq(Conditions) /\ DOMAIN Condition = {1, 2}
    BY StudyAssumption DEF Conditions
  <1>3. First \in Conditions /\ Second \in Conditions
    BY <1>2 DEF First, Second
  <1>4. First # Second
    BY <1>2, StudyAssumption DEF First, Second, IsInjective
  <1>5. \A c \in Conditions : c = First \/ c = Second
    BY <1>2 DEF First, Second, Conditions, ToSet
  <1>6. \A m \in Mode : \A c \in Conditions : <<m, c>> \in Paths
    BY DEF Paths
  <1> QED
    BY <1>1, <1>3, <1>4, <1>5, <1>6

(* Where a running process is.                                             *)
LEMMA Position ==
  ASSUME StudyInv
  PROVE  /\ condition \in {1, 2} /\ Current \in Conditions
         /\ condition = 1 => Current = First
         /\ condition = 2 => Current = Second
         /\ next_row \in Nat /\ next_row >= 1 /\ next_row <= Len(rows) + 1
         /\ process \in {"up", "finished"} =>
              /\ mode \in Mode
              /\ checkpoint_path \in Paths /\ Here \in File(Outcome)
              /\ checkpoint_path = <<mode, Current>>
         /\ phase = "put" => inhand \in Completion
         /\ phase = "append" => inhand \in Outcome
         /\ next_row <= Len(rows) => next_row \in 1..Len(rows) /\ Row \in Rows
  <1>1. TypeOK /\ Shaped
    BY DEF StudyInv
  <1>2. condition \in {1, 2} /\ next_row \in 1..(Len(rows) + 1)
    BY <1>1, StudyAssumption DEF TypeOK
  <1>3. Current \in Conditions /\ (condition = 1 => Current = First)
          /\ (condition = 2 => Current = Second)
    BY <1>2, StudyFacts DEF Current, First, Second
  <1>4. next_row \in Nat /\ next_row >= 1 /\ next_row <= Len(rows) + 1
    BY <1>2, StudyFacts
  <1>5. process \in {"up", "finished"} => mode \in Mode
    BY <1>1 DEF TypeOK, Shaped
  <1>6. process \in {"up", "finished"} =>
              /\ checkpoint_path \in Paths /\ Here \in File(Outcome)
              /\ checkpoint_path = <<mode, Current>>
    BY <1>1, <1>3, <1>5, StudyFacts DEF TypeOK, checkpoint_path, Here
  <1>7. /\ phase = "put" => inhand \in Completion
        /\ phase = "append" => inhand \in Outcome
    BY <1>1 DEF TypeOK
  <1>8. next_row <= Len(rows) => next_row \in 1..Len(rows) /\ Row \in Rows
    BY <1>4, StudyFacts DEF Row
  <1> QED
    BY <1>2, <1>3, <1>4, <1>5, <1>6, <1>7, <1>8

(* The row about to be recorded is the one after the last line, unless the *)
(* file has become unreadable.                                             *)
LEMMA NextLine ==
  ASSUME StudyInv, process = "up", phase \in {"ask", "put", "append"}
  PROVE  /\ next_row \in 1..Len(rows) /\ Row \in Rows
         /\ Loadable(Here) => next_row = Count(Here) + 1
  <1>1. next_row \in 1..Len(rows) /\ Row \in Rows /\ Row \notin DOMAIN loaded
    BY Position DEF StudyInv, Shaped
  <1>2. Count(Here) \in Nat
    BY Position, Lines, Zenon
  <1>3. Loadable(Here) =>
          /\ next_row - 1 <= Count(Here)
          /\ \A i \in next_row..Len(rows) : rows[i] \in DOMAIN loaded <=> i <= Count(Here)
    BY DEF StudyInv, InStep, Busy
  <1>4. Loadable(Here) => ~ next_row <= Count(Here)
    BY <1>1, <1>3, StudyFacts DEF Row
  <1> QED
    BY <1>1, <1>2, <1>3, <1>4, StudyFacts

(* A record, or a part of one, reaches the checkpoint of the condition.    *)
LEMMA CheckpointExtended ==
  ASSUME StudyInv, Up("append"),
         NEW file \in {Written(Here, [key |-> Row, value |-> inhand])}
                        \union CutShort(Here, [key |-> Row, value |-> inhand]),
         checkpoint' = [checkpoint EXCEPT ![checkpoint_path] = file],
         cache' = cache
  PROVE  /\ checkpoint' \in [Paths -> File(Outcome)]
         /\ InOrder' /\ DistinctKeys' /\ OfItsMode' /\ SavedVerdicts' /\ SameCompletion'
         /\ \A m \in Mode : checkpoint'[<<m, Second>>].lines # <<>> =>
              /\ Complete(checkpoint'[<<m, First>>])
              /\ mode = m => condition = 2 \/ file = Here
  <1> DEFINE record == [key |-> Row, value |-> inhand]
             old(m, c) == checkpoint[<<m, c>>]
  <1>1. /\ process = "up" /\ phase = "append" /\ mode \in Mode
        /\ Here \in File(Outcome) /\ checkpoint \in [Paths -> File(Outcome)]
        /\ checkpoint_path \in Paths /\ checkpoint_path = <<mode, Current>>
        /\ Here = checkpoint[checkpoint_path]
        /\ inhand \in Outcome /\ Current \in Conditions
        /\ inhand = Failed \/ inhand[2] = mode
    BY Position DEF Up, StudyInv, TypeOK, Shaped, Here
  <1>2. next_row \in 1..Len(rows) /\ Row \in Rows
          /\ (Loadable(Here) => next_row = Count(Here) + 1)
    BY <1>1, NextLine
  <1>3. record \in Record(Outcome) /\ record.key = Row /\ record.value = inhand
    BY <1>1, <1>2 DEF Record
  <1>4. /\ file \in File(Outcome)
        /\ \A i \in 1..Count(file) :
             file.lines[i] # Malformed =>
               \/ i \in 1..Count(Here) /\ file.lines[i] = Here.lines[i]
               \/ i = Count(Here) + 1 /\ file.lines[i] = record
        /\ RecordsOf(file) \subseteq RecordsOf(Here) \union {record}
        /\ Loadable(file) => Loadable(Here)
    BY <1>1, <1>3, MalformedIsNoRecord, Appended
  <1>5. /\ checkpoint' \in [Paths -> File(Outcome)]
        /\ checkpoint'[checkpoint_path] = file
        /\ \A path \in Paths : path # checkpoint_path => checkpoint'[path] = checkpoint[path]
    BY <1>1, <1>4
  <1>6. \A path \in Paths : RecordsOf(checkpoint'[path]) \subseteq
          RecordsOf(checkpoint[path]) \union
            (IF path = checkpoint_path THEN {record} ELSE {})
    BY <1>1, <1>4, <1>5
  <1>7. InOrder'
    <2>1. \A path \in Paths : Ordered(checkpoint[path])
      BY DEF StudyInv, InOrder
    <2>2. Ordered(file)
      <3> SUFFICES ASSUME NEW i \in 1..Count(file),
                          \A j \in 1..i : file.lines[j] # Malformed
                   PROVE  i <= Len(rows) /\ file.lines[i].key = rows[i]
        BY DEF Ordered
      <3>1. Count(file) \in Nat /\ Count(Here) \in Nat
        BY <1>1, <1>4, Lines, Zenon
      <3>2. \A j \in 1..i : \/ j \in 1..Count(Here) /\ file.lines[j] = Here.lines[j]
                            \/ j = Count(Here) + 1 /\ file.lines[j] = record
        BY <1>4, <3>1
      <3>3. CASE i \in 1..Count(Here)
        <4>1. \A j \in 1..i : Here.lines[j] # Malformed
          BY <3>1, <3>2, <3>3
        <4> QED
          BY <1>1, <2>1, <3>1, <3>2, <3>3, <4>1 DEF Ordered
      <3>4. CASE i = Count(Here) + 1
        <4>1. \A j \in 1..Count(Here) : Here.lines[j] # Malformed
          BY <3>1, <3>2, <3>4
        <4>2. Loadable(Here)
          BY <1>1, <4>1, Lines, Zenon
        <4>3. i = next_row /\ file.lines[i] = record
          BY <1>2, <3>1, <3>2, <3>4, <4>2
        <4> QED
          BY <1>2, <1>3, <4>3 DEF Row
      <3> QED
        BY <3>1, <3>2, <3>3, <3>4
    <2> QED
      BY <1>5, <2>1, <2>2 DEF InOrder
  <1>8. OfItsMode'
    <2>1. \A path \in Paths : \A r \in RecordsOf(checkpoint[path]) :
            r.value # Failed => r.value[2] = path[1]
      BY DEF StudyInv, OfItsMode
    <2>2. record.value # Failed => record.value[2] = checkpoint_path[1]
      BY <1>1, <1>3
    <2> QED
      BY <1>6, <2>1, <2>2 DEF OfItsMode
  <1>9. SavedVerdicts'
    <2> SUFFICES ASSUME NEW m \in Mode, NEW r \in RecordsOf(checkpoint'[<<m, First>>]),
                        r.value # Failed
                 PROVE  FromCache(r.key, r.value[1])'
      BY DEF SavedVerdicts
    <2>1. FromCache(r.key, r.value[1])' <=> FromCache(r.key, r.value[1])
      BY DEF FromCache
    <2>2. CASE r \in RecordsOf(checkpoint[<<m, First>>])
      BY <2>1, <2>2 DEF StudyInv, Grounded, SavedVerdicts
    <2>3. CASE r \notin RecordsOf(checkpoint[<<m, First>>])
      <3>1. <<m, First>> = checkpoint_path /\ r = record
        BY <1>6, <2>3, StudyFacts
      <3>2. condition = 1
        BY <1>1, <3>1, Position, StudyFacts
      <3>3. FromCache(Row, inhand[1])
        BY <1>1, <1>3, <3>1, <3>2 DEF StudyInv, Grounded, VerdictAtHand
      <3> QED
        BY <1>3, <2>1, <3>1, <3>3
    <2> QED
      BY <2>2, <2>3
  <1>10. ASSUME condition = 1
         PROVE  old(mode, Second).lines = <<>>
    <2> SUFFICES ASSUME old(mode, Second).lines # <<>> PROVE FALSE
      OBVIOUS
    <2>1. Loadable(old(mode, First)) /\ Complete(old(mode, First))
      BY <1>1, <1>10 DEF StudyInv, SecondAfterFirst, Busy
    <2>2. Here = old(mode, First)
      BY <1>1, <1>10, Position
    <2>3. Count(Here) = Len(rows)
      BY <2>1, <2>2 DEF Complete
    <2> QED
      BY <1>2, <2>1, <2>2, <2>3, StudyFacts
  <1>11. \A m \in Mode : checkpoint'[<<m, Second>>].lines # <<>> =>
              /\ Complete(checkpoint'[<<m, First>>])
              /\ mode = m => condition = 2 \/ file = Here
    <2> SUFFICES ASSUME NEW m \in Mode, checkpoint'[<<m, Second>>].lines # <<>>
                 PROVE  /\ Complete(checkpoint'[<<m, First>>])
                        /\ mode = m => condition = 2 \/ file = Here
      OBVIOUS
    <2>0. <<m, First>> \in Paths /\ <<m, Second>> \in Paths
      BY StudyFacts
    <2>1. CASE mode # m
      BY <1>1, <1>5, <2>0, <2>1 DEF StudyInv, SecondAfterFirst
    <2>2. CASE mode = m /\ condition = 1
      BY <1>1, <1>5, <1>10, <2>0, <2>2, Position, StudyFacts
    <2>3. CASE mode = m /\ condition = 2
      <3>1. checkpoint'[<<m, First>>] = checkpoint[<<m, First>>]
        BY <1>1, <1>5, <2>0, <2>3, Position, StudyFacts
      <3> DEFINE f == checkpoint[<<m, First>>]
      <3>2. Loadable(f) => Len(rows) <= Count(f)
        BY <1>1, <2>3 DEF StudyInv, Reported, Agrees
      <3>3. f \in File(Outcome) /\ Ordered(f)
        BY <1>1, <2>0 DEF StudyInv, InOrder
      <3>4. Count(f) \in Nat /\ (Loadable(f) <=> \A i \in 1..Count(f) : f.lines[i] # Malformed)
        BY <3>3, Lines, Zenon
      <3>5. Loadable(f) => Count(f) <= Len(rows)
        BY <3>3, <3>4, StudyFacts DEF Ordered
      <3>6. Complete(f)
        BY <3>2, <3>4, <3>5, StudyFacts DEF Complete
      <3> QED
        BY <2>3, <3>1, <3>6
    <2> QED
      BY <2>1, <2>2, <2>3, Position
  <1>12. SameCompletion'
    <2> SUFFICES ASSUME NEW m \in Mode,
                        NEW r \in RecordsOf(checkpoint'[<<m, First>>]),
                        NEW s \in RecordsOf(checkpoint'[<<m, Second>>]),
                        r.key = s.key, r.value # Failed, s.value # Failed
                 PROVE  r.value = s.value
      BY DEF SameCompletion
    <2>0. <<m, First>> \in Paths /\ <<m, Second>> \in Paths
            /\ <<m, First>> # <<m, Second>>
      BY StudyFacts
    <2>1. CASE /\ r \in RecordsOf(checkpoint[<<m, First>>])
               /\ s \in RecordsOf(checkpoint[<<m, Second>>])
      BY <2>1 DEF StudyInv, SameCompletion
    <2>2. CASE r \notin RecordsOf(checkpoint[<<m, First>>])
      <3>1. <<m, First>> = checkpoint_path
        BY <1>6, <2>0, <2>2
      <3>2. m = mode /\ condition = 1
        BY <1>1, <3>1, Position, StudyFacts
      <3>3. checkpoint'[<<m, Second>>].lines = <<>>
        BY <1>5, <1>10, <2>0, <3>1, <3>2
      <3> QED
        BY <3>3 DEF RecordsOf, ToSet
    <2>3. CASE /\ r \in RecordsOf(checkpoint[<<m, First>>])
               /\ s \notin RecordsOf(checkpoint[<<m, Second>>])
      <3>1. <<m, Second>> = checkpoint_path /\ s = record
        BY <1>6, <2>0, <2>3
      <3>2. m = mode
        BY <1>1, <3>1
      <3>3. s.key = Row /\ s.value = inhand
        BY <1>3, <3>1
      <3>4. FromStore(r.key, r.value[1]) /\ FromStore(Row, inhand[1])
        BY <1>1, <2>3, <3>3 DEF StudyInv, Grounded, KnownVerdicts, VerdictAtHand
      <3>5. r.value[1] = inhand[1]
        BY <1>1, <3>3, <3>4 DEF FromStore
      <3>6. r.value[2] = mode /\ inhand[2] = mode
        <4>1. r.value[2] = <<m, First>>[1]
          BY <2>0, <2>3 DEF StudyInv, OfItsMode
        <4> QED
          BY <1>1, <3>2, <3>3, <4>1
      <3>7. r.value \in Parsable \X Mode /\ inhand \in Parsable \X Mode
        <4>1. r \in Record(Outcome)
          BY <1>1, <2>0, <2>3, Lines
        <4> QED
          BY <1>1, <3>3, <4>1 DEF Record, Outcome
      <3>8. r.value = inhand
        BY <3>5, <3>6, <3>7
      <3> QED
        BY <3>3, <3>8
    <2> QED
      BY <2>1, <2>2, <2>3
  <1>13. DistinctKeys'
    <2>1. \A path \in Paths : path # checkpoint_path =>
            LET lines == checkpoint'[path].lines
            IN  \A i, j \in 1..Count(checkpoint'[path]) :
                  lines[i] # Malformed /\ lines[j] # Malformed /\ lines[i].key = lines[j].key
                    => i = j
      BY <1>5 DEF StudyInv, DistinctKeys
    <2>2. \A i, j \in 1..Count(file) :
            file.lines[i] # Malformed /\ file.lines[j] # Malformed
              /\ file.lines[i].key = file.lines[j].key => i = j
      <3>1. \A i, j \in 1..Count(Here) :
              Here.lines[i] # Malformed /\ Here.lines[j] # Malformed
                /\ Here.lines[i].key = Here.lines[j].key => i = j
        BY <1>1 DEF StudyInv, DistinctKeys
      <3>2. \A i \in 1..Count(Here) : Here.lines[i] # Malformed => Here.lines[i].key # Row
        <4> SUFFICES ASSUME NEW i \in 1..Count(Here), Here.lines[i] # Malformed,
                            Here.lines[i].key = Row
                     PROVE  FALSE
          OBVIOUS
        <4>1. Here.lines[i] \in RecordsOf(Here)
          BY <1>1, Lines
        <4>2. Row \notin DOMAIN loaded /\ Busy
          BY <1>1 DEF StudyInv, Shaped, Busy
        <4>3. PICK k \in 1..(next_row - 1) : Row = rows[k]
          BY <4>1, <4>2 DEF StudyInv, Accounted
        <4> QED
          BY <1>2, <4>3, StudyFacts DEF Row
      <3> QED
        BY <1>3, <1>4, <3>1, <3>2
    <2> QED
      BY <1>5, <2>1, <2>2 DEF DistinctKeys
  <1> QED
    BY <1>5, <1>7, <1>8, <1>9, <1>11, <1>12, <1>13

(* A completion, or a part of one, reaches the cache file: what the file   *)
(* says of the other rows stays, and no verdict of this row rests on it.   *)
LEMMA CacheExtended ==
  ASSUME StudyInv, Up("put"),
         cache' \in {Written(cache, [key |-> Row, value |-> inhand])}
                      \union CutShort(cache, [key |-> Row, value |-> inhand]),
         checkpoint' = checkpoint
  PROVE  /\ cache' \in File(Completion)
         /\ \A r \in RecordsOf(cache') : r.key = Row \/ r \in RecordsOf(cache)
         /\ \A row, completion : row # Row /\ FromCache(row, completion) =>
              FromCache(row, completion)'
         /\ \A row, completion :
              /\ cache' = Written(cache, [key |-> Row, value |-> inhand])
              /\ row = Row /\ completion = inhand
              => FromCache(row, completion)'
         /\ SavedVerdicts'
  <1> DEFINE record == [key |-> Row, value |-> inhand]
  <1>1. /\ process = "up" /\ phase = "put" /\ cache \in File(Completion)
        /\ Row \in Rows /\ inhand \in Completion /\ Row \notin DOMAIN store
    BY Position, NextLine DEF Up, StudyInv, TypeOK, Cached
  <1>2. record \in Record(Completion) /\ record.key = Row /\ record.value = inhand
    BY <1>1 DEF Record
  <1>3. /\ cache' \in File(Completion)
        /\ RecordsOf(cache') \subseteq RecordsOf(cache) \union {record}
        /\ Loadable(cache') => Loadable(cache)
    BY <1>1, <1>2, MalformedIsNoRecord, Appended
  <1>4. Loadable(cache') =>
          /\ \A key \in DOMAIN Contents(cache) :
               key # Row => /\ key \in DOMAIN Contents(cache')
                            /\ Contents(cache')[key] = Contents(cache)[key]
          /\ cache' = Written(cache, record) =>
               Row \in DOMAIN Contents(cache') /\ Contents(cache')[Row] = inhand
    BY <1>1, <1>2, MalformedIsNoRecord, ContentsOfAppended
  <1>5. Loadable(cache') =>
          /\ DOMAIN Contents(cache) = {r.key : r \in RecordsOf(cache)}
          /\ DOMAIN Contents(cache') = {r.key : r \in RecordsOf(cache')}
    BY <1>1, <1>3, MalformedIsNoRecord, ContentsOfLoadable, Zenon
  <1>6. \A row, completion : row # Row /\ FromCache(row, completion) =>
              FromCache(row, completion)'
    <2> SUFFICES ASSUME NEW row, NEW completion,
                        row # Row, FromCache(row, completion), Loadable(cache')
                 PROVE  /\ row \in {r.key : r \in RecordsOf(cache')}
                        /\ Contents(cache')[row] = completion
      BY DEF FromCache
    <2>1. /\ row \in {r.key : r \in RecordsOf(cache)}
          /\ Contents(cache)[row] = completion
      BY <1>3 DEF FromCache
    <2> QED
      BY <1>4, <1>5, <2>1
  <1>7. \A row, completion :
          /\ cache' = Written(cache, record)
          /\ row = Row /\ completion = inhand
          => FromCache(row, completion)'
    BY <1>4, <1>5 DEF FromCache
  <1>8. SavedVerdicts'
    <2> SUFFICES ASSUME NEW m \in Mode, NEW r \in RecordsOf(checkpoint[<<m, First>>]),
                        r.value # Failed
                 PROVE  FromCache(r.key, r.value[1])'
      BY DEF SavedVerdicts
    <2>1. FromStore(r.key, r.value[1]) /\ FromCache(r.key, r.value[1])
      BY DEF StudyInv, Grounded, KnownVerdicts, SavedVerdicts
    <2>2. r.key # Row
      BY <1>1, <2>1 DEF FromStore
    <2> QED
      BY <1>6, <2>1, <2>2
  <1> QED
    BY <1>2, <1>3, <1>6, <1>7, <1>8
-----------------------------------------------------------------------------
(* One step per action.  A process that ends without finishing leaves the  *)
(* invariant to the files.                                                 *)
LEMMA Stopped ==
  ASSUME process' \in {"down", "refused"}, mode' = None, FreshMemory(Nothing),
         started' \in 0..MaxProcesses,
         checkpoint' \in [Paths -> File(Outcome)], cache' \in File(Completion),
         InOrder', DistinctKeys', OfItsMode', SavedVerdicts', SameCompletion',
         \A m \in Mode : checkpoint'[<<m, Second>>].lines # <<>> =>
           Complete(checkpoint'[<<m, First>>])
  PROVE  StudyInv'
  <1>1. /\ condition' = 1 /\ next_row' = 1 /\ phase' = "open" /\ loaded' = Nothing
        /\ store' = Nothing /\ attempt' = 0 /\ inhand' = None /\ results' = NoResults
        /\ process' # "up" /\ process' # "finished" /\ ~ Busy'
    BY DEF FreshMemory, Busy
  <1>2. NoResults \in [Conditions -> Seq(Record(Outcome))]
          /\ \A c \in Conditions : NoResults[c] = <<>>
    BY DEF NoResults
  <1>3. TypeOK'
    BY <1>1, <1>2, StudyAssumption, StudyFacts DEF TypeOK, Nothing
  <1>4. Shaped'
    BY <1>1 DEF Shaped
  <1>5. /\ LoadedOfMode' /\ Accounted' /\ InStep' /\ Cached'
        /\ KnownVerdicts' /\ VerdictAtHand' /\ StoreIsSaved'
    BY <1>1 DEF LoadedOfMode, Accounted, InStep, Cached, KnownVerdicts, FromStore, VerdictAtHand, StoreIsSaved
  <1>6. Reported'
    BY <1>1, <1>2 DEF Reported
  <1>7. SecondAfterFirst'
    BY <1>1 DEF SecondAfterFirst
  <1> QED
    BY <1>3, <1>4, <1>5, <1>6, <1>7 DEF StudyInv, Grounded

(* A fresh study.                                                          *)
LEMMA Fresh == Init => StudyInv
  <1> SUFFICES ASSUME Init PROVE StudyInv
    OBVIOUS
  <1>1. /\ checkpoint = [path \in Paths |-> EmptyFile] /\ cache = EmptyFile
        /\ process = "down" /\ started = 0 /\ mode = None
        /\ condition = 1 /\ next_row = 1 /\ phase = "open"
        /\ loaded = Nothing /\ store = Nothing
        /\ attempt = 0 /\ inhand = None /\ results = NoResults
    BY DEF Init
  <1>2. /\ EmptyFile \in File(Outcome) /\ EmptyFile \in File(Completion)
        /\ RecordsOf(EmptyFile) = {} /\ EmptyFile.lines = <<>> /\ Count(EmptyFile) = 0
    BY DEF EmptyFile, File, RecordsOf, ToSet, Count
  <1>3. NoResults \in [Conditions -> Seq(Record(Outcome))]
          /\ \A c \in Conditions : NoResults[c] = <<>>
    BY DEF NoResults
  <1>4. \A m \in Mode : \A c \in Conditions : checkpoint[<<m, c>>] = EmptyFile
    BY <1>1, StudyFacts
  <1>5. TypeOK
    BY <1>1, <1>2, <1>3, StudyAssumption, StudyFacts DEF TypeOK, Nothing
  <1>6. Shaped /\ LoadedOfMode /\ Accounted /\ InStep /\ Cached /\ KnownVerdicts /\ VerdictAtHand /\ StoreIsSaved
    BY <1>1 DEF Shaped, LoadedOfMode, Accounted, InStep, Busy, Cached, KnownVerdicts, FromStore,
                VerdictAtHand, StoreIsSaved
  <1>7. InOrder /\ DistinctKeys /\ OfItsMode
    BY <1>1, <1>2 DEF InOrder, Ordered, DistinctKeys, OfItsMode
  <1>8. SavedVerdicts /\ SecondAfterFirst /\ SameCompletion
    BY <1>2, <1>4, StudyFacts DEF SavedVerdicts, SecondAfterFirst, SameCompletion
  <1>9. Reported
    BY <1>1, <1>3 DEF Reported
  <1> QED
    BY <1>5, <1>6, <1>7, <1>8, <1>9 DEF StudyInv, Grounded

(* Start: what the store holds is what the cache file says.                *)
LEMMA StartKeeps == StudyInv /\ Start => StudyInv'
  <1> SUFFICES ASSUME StudyInv, Start PROVE StudyInv'
    OBVIOUS
  <1>1. /\ process # "up" /\ started' \in 0..MaxProcesses
        /\ checkpoint' = checkpoint /\ cache' = cache
        /\ checkpoint \in [Paths -> File(Outcome)] /\ cache \in File(Completion)
    BY StudyAssumption DEF Start, files, StudyInv, TypeOK
  <1>2. InOrder' /\ DistinctKeys' /\ OfItsMode' /\ SavedVerdicts' /\ SameCompletion'
    BY <1>1 DEF StudyInv, InOrder, DistinctKeys, OfItsMode, Grounded, SavedVerdicts, FromCache, SameCompletion
  <1>3. \A m \in Mode : checkpoint'[<<m, Second>>].lines # <<>> =>
           Complete(checkpoint'[<<m, First>>])
    BY <1>1 DEF StudyInv, SecondAfterFirst
  <1>4. CASE ~ Loadable(cache)
    BY <1>1, <1>2, <1>3, <1>4, Stopped DEF Start
  <1>5. CASE Loadable(cache)
    <2>1. /\ process' = "up" /\ mode' \in Mode /\ condition' = 1 /\ next_row' = 1
          /\ phase' = "open" /\ loaded' = Nothing /\ store' = Contents(cache)
          /\ attempt' = 0 /\ inhand' = None /\ results' = NoResults /\ ~ Busy'
      BY <1>5 DEF Start, FreshMemory, Busy
    <2>2. /\ DOMAIN Contents(cache) = {r.key : r \in RecordsOf(cache)}
          /\ DOMAIN Contents(cache) \subseteq Rows
          /\ Contents(cache) \in [DOMAIN Contents(cache) -> Completion]
      BY <1>1, <1>5, MalformedIsNoRecord, ContentsOfLoadable, Zenon
    <2>3. NoResults \in [Conditions -> Seq(Record(Outcome))]
            /\ \A c \in Conditions : NoResults[c] = <<>>
      BY DEF NoResults
    <2>4. TypeOK'
      BY <1>1, <2>1, <2>2, <2>3, StudyAssumption, StudyFacts DEF TypeOK, Nothing
    <2>5. Shaped' /\ LoadedOfMode' /\ Accounted' /\ InStep' /\ VerdictAtHand'
      BY <2>1 DEF Shaped, LoadedOfMode, Accounted, Nothing, InStep, VerdictAtHand
    <2>6. Reported'
      <3>1. Current' = First
        BY <2>1 DEF Current, First
      <3>2. \A c \in Conditions : Agrees(c, 0)'
        <4> SUFFICES ASSUME NEW c \in Conditions PROVE Agrees(c, 0)'
          OBVIOUS
        <4>1. checkpoint'[<<mode', c>>] \in File(Outcome)
          BY <1>1, <2>1, StudyFacts
        <4>2. Count(checkpoint'[<<mode', c>>]) \in Nat
          BY <4>1, Lines, Zenon
        <4> QED
          BY <2>1, <2>3, <4>2 DEF Agrees
      <3>3. Agrees(Current, next_row - 1)'
        <4>1. First \in Conditions /\ next_row' - 1 = 0
          BY <2>1, StudyFacts
        <4> QED
          BY <3>1, <3>2, <4>1 DEF Agrees
      <3> QED
        BY <2>1, <2>3, <3>3, StudyFacts DEF Reported
    <2>7. Cached'
      BY <1>1, <2>1, <2>2 DEF Cached
    <2>8. KnownVerdicts'
      BY <1>1, <1>5, <2>1, <2>2 DEF StudyInv, Grounded, SavedVerdicts, KnownVerdicts, FromCache, FromStore
    <2>9. StoreIsSaved'
      BY <1>1, <1>5, <2>1, <2>2 DEF StoreIsSaved, FromCache
    <2>10. SecondAfterFirst'
      BY <1>3, <2>1 DEF SecondAfterFirst
    <2> QED
      BY <1>2, <2>4, <2>5, <2>6, <2>7, <2>8, <2>9, <2>10 DEF StudyInv, Grounded
  <1> QED
    BY <1>4, <1>5

(* OpenCheckpoint: what is loaded is what the checkpoint of this mode and  *)
(* condition holds, row by row.                                            *)
LEMMA OpenKeeps == StudyInv /\ OpenCheckpoint => StudyInv'
  <1> SUFFICES ASSUME StudyInv, OpenCheckpoint PROVE StudyInv'
    OBVIOUS
  <1>1. /\ process = "up" /\ phase = "open" /\ next_row = 1
        /\ checkpoint' = checkpoint /\ cache' = cache /\ started' = started
        /\ checkpoint \in [Paths -> File(Outcome)] /\ cache \in File(Completion)
        /\ started \in 0..MaxProcesses
    BY DEF OpenCheckpoint, Up, files, StudyInv, TypeOK, Shaped
  <1>2. InOrder' /\ DistinctKeys' /\ OfItsMode' /\ SavedVerdicts' /\ SameCompletion'
    BY <1>1 DEF StudyInv, InOrder, DistinctKeys, OfItsMode, Grounded, SavedVerdicts, FromCache, SameCompletion
  <1>3. \A m \in Mode : checkpoint'[<<m, Second>>].lines # <<>> =>
           Complete(checkpoint'[<<m, First>>])
    BY <1>1 DEF StudyInv, SecondAfterFirst
  <1>4. CASE ~ Loadable(Here)
    <2>1. process' = "refused" /\ mode' = None /\ FreshMemory(Nothing)
      BY <1>4 DEF OpenCheckpoint, Here
    <2> QED
      BY <1>1, <1>2, <1>3, <2>1, Stopped
  <1>5. CASE Loadable(Here)
    <2>1. /\ loaded' = Contents(Here) /\ phase' = "loop"
          /\ process' = process /\ mode' = mode /\ condition' = condition
          /\ next_row' = next_row /\ store' = store /\ attempt' = attempt
          /\ inhand' = inhand /\ results' = results
      BY <1>5 DEF OpenCheckpoint, Here
    <2>2. /\ mode \in Mode /\ checkpoint_path \in Paths /\ Here \in File(Outcome)
          /\ checkpoint_path = <<mode, Current>>
          /\ Current' = Current /\ Here' = Here
      BY <1>1, <2>1, Position DEF Current, Here, checkpoint_path
    <2>3. /\ Count(Here) \in Nat
          /\ \A i \in 1..Count(Here) : Here.lines[i] # Malformed
          /\ \A r : r \in RecordsOf(Here) <=>
               r # Malformed /\ \E i \in 1..Count(Here) : r = Here.lines[i]
      BY <1>5, <2>2, Lines, Zenon
    <2>4. /\ DOMAIN loaded' = {r.key : r \in RecordsOf(Here)}
          /\ DOMAIN loaded' \subseteq Rows
          /\ loaded' \in [DOMAIN loaded' -> Outcome]
          /\ \A key \in DOMAIN loaded' : \E i \in 1..Count(Here) :
               /\ Here.lines[i].key = key /\ loaded'[key] = Here.lines[i].value
      <3>1. /\ DOMAIN Contents(Here) = {r.key : r \in RecordsOf(Here)}
            /\ DOMAIN Contents(Here) \subseteq Rows
            /\ Contents(Here) \in [DOMAIN Contents(Here) -> Outcome]
            /\ \A key \in DOMAIN Contents(Here) : \E i \in 1..Count(Here) :
                 /\ Here.lines[i].key = key
                 /\ Contents(Here)[key] = Here.lines[i].value
                 /\ \A j \in 1..Count(Here) : j > i => Here.lines[j].key # key
        BY <1>5, <2>2, MalformedIsNoRecord, ContentsOfLoadable, Zenon
      <3> QED
        BY <2>1, <3>1
    <2>5. \A i \in 1..Count(Here) : i <= Len(rows) /\ Here.lines[i].key = rows[i]
      <3>1. Ordered(Here)
        BY <2>2 DEF StudyInv, InOrder, Here
      <3> QED
        BY <2>3, <3>1 DEF Ordered
    <2>6. \A i \in 1..Count(Here) : rows[i] \in DOMAIN loaded'
                                      /\ loaded'[rows[i]] = Here.lines[i].value
      <3> SUFFICES ASSUME NEW i \in 1..Count(Here)
                   PROVE  rows[i] \in DOMAIN loaded' /\ loaded'[rows[i]] = Here.lines[i].value
        OBVIOUS
      <3>1. rows[i] \in DOMAIN loaded'
        BY <2>3, <2>4, <2>5
      <3>2. PICK j \in 1..Count(Here) :
              Here.lines[j].key = rows[i] /\ loaded'[rows[i]] = Here.lines[j].value
        BY <2>4, <3>1
      <3>3. j = i
        BY <2>3, <2>5, <3>2, StudyFacts
      <3> QED
        BY <3>1, <3>2, <3>3
    <2>7. \A i \in 1..Len(rows) : rows[i] \in DOMAIN loaded' => i <= Count(Here)
      BY <2>3, <2>4, <2>5, StudyFacts
    <2>8. InStep'
      BY <1>1, <2>1, <2>2, <2>3, <2>5, <2>6, <2>7, StudyFacts DEF InStep
    <2>9. TypeOK'
      BY <1>1, <2>1, <2>4 DEF StudyInv, TypeOK
    <2>10. Shaped'
      BY <1>1, <2>1 DEF StudyInv, Shaped
    <2>11. LoadedOfMode'
      <3>1. \A i \in 1..Count(Here) : Here.lines[i] \in RecordsOf(Here)
        BY <2>3
      <3>2. \A r \in RecordsOf(Here) : r.value # Failed => r.value[2] = mode
        BY <2>2 DEF StudyInv, OfItsMode, Here
      <3> QED
        BY <2>1, <2>4, <3>1, <3>2 DEF LoadedOfMode
    <2>12. Reported'
      BY <1>1, <2>1, <2>2 DEF StudyInv, Reported, Agrees
    <2>13. Cached' /\ KnownVerdicts' /\ VerdictAtHand' /\ StoreIsSaved'
      BY <1>1, <2>1 DEF StudyInv, Grounded, Cached, KnownVerdicts, FromStore,
                        VerdictAtHand, StoreIsSaved, FromCache
    <2>14. SecondAfterFirst'
      BY <1>1, <1>3, <1>5, <2>1, <2>2, Position DEF SecondAfterFirst, Here
    <2>15. Accounted'
      BY <2>1, <2>2, <2>4 DEF Accounted
    <2> QED
      BY <1>2, <2>8, <2>9, <2>10, <2>11, <2>12, <2>13, <2>14, <2>15 DEF StudyInv, Grounded
  <1> QED
    BY <1>4, <1>5

(* A row is reported as the file of the condition has it.                  *)
LEMMA RowReported ==
  ASSUME StudyInv, process = "up", next_row <= Len(rows),
         NEW outcome \in Outcome, Report(outcome),
         outcome # Failed => outcome[2] = mode,
         process' = process, mode' = mode, condition' = condition,
         condition = 2 =>
           checkpoint'[<<mode, First>>] = checkpoint[<<mode, First>>],
         Loadable(Here') =>
           /\ Loadable(Here) /\ Count(Here') \in Nat /\ next_row <= Count(Here')
           /\ \A i \in 1..(next_row - 1) : Here'.lines[i] = Here.lines[i]
           /\ Here'.lines[next_row] = [key |-> Row, value |-> outcome]
  PROVE  /\ results' \in [Conditions -> Seq(Record(Outcome))]
         /\ \A c \in Conditions : Len(results'[c]) <= Len(rows)
         /\ Reported'
  <1> DEFINE record == [key |-> Row, value |-> outcome]
  <1>1. /\ results \in [Conditions -> Seq(Record(Outcome))]
        /\ Current \in Conditions /\ next_row \in 1..Len(rows) /\ Row \in Rows
        /\ condition \in {1, 2} /\ mode \in Mode
        /\ condition = 1 => Current = First
        /\ condition = 2 => Current = Second
        /\ checkpoint_path = <<mode, Current>>
    BY Position DEF StudyInv, TypeOK
  <1>2. /\ Agrees(Current, next_row - 1)
        /\ condition = 2 => Agrees(First, Len(rows))
        /\ condition = 1 => results[Second] = <<>>
        /\ \A c \in Conditions : \A i \in DOMAIN results[c] :
             results[c][i].value # Failed => results[c][i].value[2] = mode
    BY DEF StudyInv, Reported
  <1>3. record \in Record(Outcome) /\ record.key = rows[next_row] /\ record.value = outcome
    BY <1>1 DEF Record, Row
  <1>4. Len(results[Current]) = next_row - 1 /\ next_row - 1 \in Nat
    BY <1>1, <1>2, StudyFacts DEF Agrees
  <1>5. /\ results' \in [Conditions -> Seq(Record(Outcome))]
        /\ \A c \in Conditions : c # Current => results'[c] = results[c]
        /\ results'[Current] \in Seq(Record(Outcome))
        /\ Len(results'[Current]) = next_row
        /\ \A i \in 1..(next_row - 1) : results'[Current][i] = results[Current][i]
        /\ results'[Current][next_row] = record
        /\ next_row' = next_row + 1
    <2>1. results' = [results EXCEPT ![Current] = Append(@, record)] /\ next_row' = next_row + 1
      BY DEF Report
    <2>2. Append(results[Current], record) \in Seq(Record(Outcome))
      BY <1>1, <1>3
    <2>3. results'[Current] = Append(results[Current], record)
      BY <1>1, <2>1
    <2> QED
      BY <1>1, <1>3, <1>4, <2>1, <2>2, <2>3
  <1>6. \A c \in Conditions : Len(results'[c]) <= Len(rows)
    <2>1. \A c \in Conditions : Len(results[c]) <= Len(rows)
      BY DEF StudyInv, TypeOK
    <2> QED
      BY <1>1, <1>5, <2>1, StudyFacts
  <1>7. Current' = Current /\ checkpoint_path' = checkpoint_path
          /\ Here' = checkpoint'[<<mode, Current>>] /\ Here = checkpoint[<<mode, Current>>]
    BY <1>1 DEF Current, checkpoint_path, Here
  <1>8. Agrees(Current, next_row - 1)'
    <2>1. /\ \A i \in 1..(next_row - 1) : results[Current][i].key = rows[i]
          /\ Loadable(Here) => \A i \in 1..(next_row - 1) : results[Current][i] = Here.lines[i]
      BY <1>2, <1>7 DEF Agrees
    <2>2. \A i \in 1..next_row : results'[Current][i].key = rows[i]
      BY <1>1, <1>3, <1>5, <2>1
    <2>3. Loadable(Here') => \A i \in 1..next_row : results'[Current][i] = Here'.lines[i]
      BY <1>1, <1>5, <2>1
    <2>4. next_row' - 1 = next_row
      BY <1>1, <1>5
    <2>5. /\ Len(results'[Current]) = next_row' - 1
          /\ \A i \in 1..(next_row' - 1) : results'[Current][i].key = rows[i]
          /\ Loadable(Here') => /\ next_row' - 1 <= Count(Here')
                                /\ \A i \in 1..(next_row' - 1) :
                                     results'[Current][i] = Here'.lines[i]
      BY <1>5, <2>2, <2>3, <2>4
    <2> QED
      BY <1>7, <2>5 DEF Agrees
  <1>9. condition = 2 => Agrees(First, Len(rows))'
    <2> SUFFICES ASSUME condition = 2 PROVE Agrees(First, Len(rows))'
      OBVIOUS
    <2>1. /\ results'[First] = results[First]
          /\ checkpoint'[<<mode', First>>] = checkpoint[<<mode, First>>]
      BY <1>1, <1>5, StudyFacts
    <2>2. Agrees(First, Len(rows))
      BY <1>2
    <2> QED
      BY <2>1, <2>2 DEF Agrees
  <1>10. condition = 1 => results'[Second] = <<>>
    BY <1>1, <1>2, <1>5, StudyFacts
  <1>11. \A c \in Conditions : \A i \in DOMAIN results'[c] :
           results'[c][i].value # Failed => results'[c][i].value[2] = mode
    <2> SUFFICES ASSUME NEW c \in Conditions, NEW i \in DOMAIN results'[c],
                        results'[c][i].value # Failed
                 PROVE  results'[c][i].value[2] = mode
      OBVIOUS
    <2>1. CASE c # Current
      BY <1>2, <1>5, <2>1
    <2>2. CASE c = Current
      <3>1. i \in 1..next_row
        BY <1>5, <2>2
      <3>2. CASE i = next_row
        BY <1>3, <1>5, <2>2, <3>2
      <3>3. CASE i \in 1..(next_row - 1)
        <4>1. i \in DOMAIN results[Current] /\ results'[c][i] = results[Current][i]
          BY <1>1, <1>4, <1>5, <2>2, <3>3
        <4> QED
          BY <1>1, <1>2, <4>1
      <3> QED
        BY <1>1, <3>1, <3>2, <3>3
    <2> QED
      BY <2>1, <2>2
  <1> QED
    BY <1>5, <1>6, <1>8, <1>9, <1>10, <1>11 DEF Reported

(* SkipRow: the row has its line in the file already.                      *)
LEMMA SkipKeeps == StudyInv /\ SkipRow => StudyInv'
  <1> SUFFICES ASSUME StudyInv, SkipRow PROVE StudyInv'
    OBVIOUS
  <1>1. /\ process = "up" /\ phase = "loop" /\ next_row <= Len(rows)
        /\ Row \in DOMAIN loaded /\ Report(loaded[Row])
        /\ checkpoint' = checkpoint /\ cache' = cache /\ started' = started
        /\ process' = process /\ mode' = mode /\ condition' = condition
        /\ phase' = phase /\ loaded' = loaded /\ store' = store
        /\ attempt' = attempt /\ inhand' = inhand
        /\ next_row' = next_row + 1 /\ Busy
    BY DEF SkipRow, Up, files, Report, Busy
  <1>2. /\ next_row \in 1..Len(rows) /\ loaded[Row] \in Outcome
        /\ loaded[Row] # Failed => loaded[Row][2] = mode
        /\ mode \in Mode /\ Here \in File(Outcome) /\ Here' = Here
    BY <1>1, Position DEF StudyInv, TypeOK, LoadedOfMode, Here, checkpoint_path, Current
  <1>3. Loadable(Here) =>
          /\ Count(Here) \in Nat /\ next_row <= Count(Here)
          /\ Here.lines[next_row] = [key |-> Row, value |-> loaded[Row]]
    <2> SUFFICES ASSUME Loadable(Here)
                 PROVE  /\ Count(Here) \in Nat /\ next_row <= Count(Here)
                        /\ Here.lines[next_row] = [key |-> Row, value |-> loaded[Row]]
      OBVIOUS
    <2>1. /\ Count(Here) \in Nat
          /\ \A i \in 1..Count(Here) : Here.lines[i] \in Record(Outcome) \union {Malformed}
          /\ \A i \in 1..Count(Here) : Here.lines[i] # Malformed
      BY <1>2, Lines, Zenon
    <2>2. /\ next_row <= Count(Here)
          /\ loaded[Row] = Here.lines[next_row].value
      BY <1>1, <1>2, <2>1, StudyFacts DEF StudyInv, InStep, Row
    <2>3. Ordered(Here)
      BY <1>1, Position DEF StudyInv, InOrder, Here
    <2>4. next_row \in 1..Count(Here) /\ Here.lines[next_row].key = Row
      BY <1>2, <2>1, <2>2, <2>3, StudyFacts DEF Ordered, Row
    <2>5. Here.lines[next_row] \in Record(Outcome)
      BY <2>1, <2>4
    <2> QED
      BY <2>1, <2>2, <2>4, <2>5 DEF Record
  <1>4. /\ results' \in [Conditions -> Seq(Record(Outcome))]
        /\ \A c \in Conditions : Len(results'[c]) <= Len(rows)
        /\ Reported'
    <2>1. Loadable(Here') =>
            /\ Loadable(Here) /\ Count(Here') \in Nat /\ next_row <= Count(Here')
            /\ \A i \in 1..(next_row - 1) : Here'.lines[i] = Here.lines[i]
            /\ Here'.lines[next_row] = [key |-> Row, value |-> loaded[Row]]
      BY <1>2, <1>3
    <2>2. condition = 2 =>
            checkpoint'[<<mode, First>>] = checkpoint[<<mode, First>>]
      BY <1>1
    <2> QED
      BY <1>1, <1>2, <2>1, <2>2, RowReported, Zenon
  <1>5. TypeOK'
    BY <1>1, <1>2, <1>4, StudyFacts DEF StudyInv, TypeOK
  <1>6. Shaped'
    BY <1>1, <1>2 DEF StudyInv, Shaped
  <1>7. InOrder' /\ DistinctKeys' /\ OfItsMode' /\ SavedVerdicts' /\ SameCompletion' /\ LoadedOfMode'
    BY <1>1 DEF StudyInv, InOrder, DistinctKeys, OfItsMode, Grounded, SavedVerdicts, FromCache,
                SameCompletion, LoadedOfMode
  <1>8. InStep'
    BY <1>1, <1>2, <1>3, StudyFacts DEF StudyInv, InStep
  <1>9. Cached' /\ KnownVerdicts' /\ VerdictAtHand'
    BY <1>1 DEF StudyInv, Grounded, Cached, KnownVerdicts, FromStore, VerdictAtHand
  <1>10. StoreIsSaved'
    BY <1>1, <1>2, StudyFacts DEF StudyInv, Grounded, StoreIsSaved, FromCache
  <1>11. SecondAfterFirst'
    BY <1>1 DEF StudyInv, SecondAfterFirst, Busy
  <1>12. Accounted'
    <2>1. \A r \in RecordsOf(Here) :
            r.key \in DOMAIN loaded \/ \E i \in 1..(next_row - 1) : r.key = rows[i]
      BY <1>1 DEF StudyInv, Accounted
    <2>2. 1..(next_row - 1) \subseteq 1..(next_row' - 1)
      BY <1>1, <1>2, StudyFacts
    <2> QED
      BY <1>1, <1>2, <2>1, <2>2 DEF Accounted
  <1> QED
    BY <1>4, <1>5, <1>6, <1>7, <1>8, <1>9, <1>10, <1>11, <1>12 DEF StudyInv, Grounded

(* The steps between two files: the memory they share is left alone.       *)
LEMMA Unwritten ==
  ASSUME StudyInv, process = "up", phase \in {"loop", "ask"},
         phase' \in {"ask", "put", "append"}, next_row <= Len(rows),
         Row \notin DOMAIN loaded,
         checkpoint' = checkpoint, cache' = cache, started' = started,
         process' = process, mode' = mode, condition' = condition,
         next_row' = next_row, loaded' = loaded, store' = store, results' = results
  PROVE  /\ InOrder' /\ DistinctKeys' /\ OfItsMode' /\ SavedVerdicts' /\ SameCompletion' /\ LoadedOfMode'
         /\ Accounted' /\ InStep' /\ Reported' /\ KnownVerdicts' /\ StoreIsSaved' /\ SecondAfterFirst'
  <1>1. Busy /\ Busy' /\ Here' = Here /\ Current' = Current
    BY DEF Busy, Here, checkpoint_path, Current
  <1>2. InOrder' /\ DistinctKeys' /\ OfItsMode' /\ SavedVerdicts' /\ SameCompletion' /\ LoadedOfMode'
    BY DEF StudyInv, InOrder, DistinctKeys, OfItsMode, Grounded, SavedVerdicts, FromCache,
           SameCompletion, LoadedOfMode
  <1>3. InStep' /\ Accounted'
    BY <1>1 DEF StudyInv, InStep, Accounted
  <1>4. Reported'
    BY <1>1 DEF StudyInv, Reported, Agrees
  <1>5. KnownVerdicts' /\ SecondAfterFirst'
    BY <1>1 DEF StudyInv, Grounded, KnownVerdicts, FromStore, SecondAfterFirst
  <1>6. StoreIsSaved'
    BY DEF StudyInv, Grounded, StoreIsSaved, FromCache
  <1> QED
    BY <1>2, <1>3, <1>4, <1>5, <1>6

(* ConsultCache: what the store has for the row was saved when the row was *)
(* first decomposed.                                                       *)
LEMMA ConsultKeeps == StudyInv /\ ConsultCache => StudyInv'
  <1> SUFFICES ASSUME StudyInv, ConsultCache PROVE StudyInv'
    OBVIOUS
  <1>1. /\ process = "up" /\ phase = "loop" /\ next_row <= Len(rows)
        /\ Row \notin DOMAIN loaded
        /\ checkpoint' = checkpoint /\ cache' = cache /\ started' = started
        /\ process' = process /\ mode' = mode /\ condition' = condition
        /\ loaded' = loaded /\ store' = store
        /\ attempt' = attempt /\ next_row' = next_row /\ results' = results
        /\ Row' = Row
    BY DEF ConsultCache, Up, files, Row
  <1>2. mode \in Mode /\ next_row \in 1..Len(rows) /\ inhand = None
    BY <1>1, Position DEF StudyInv, TypeOK
  <1>3. \/ phase' = "ask" /\ inhand' = None /\ Row \notin DOMAIN store
        \/ /\ phase' = "append" /\ Row \in DOMAIN store
           /\ \/ inhand' = Failed
              \/ store[Row] \in Parsable /\ inhand' = <<store[Row], mode>>
    BY <1>2 DEF ConsultCache, Outcomes, Finish
  <1>4. inhand' \in CASE phase' = "put" -> Completion
                      [] phase' = "append" -> Outcome
                      [] OTHER -> {None}
    BY <1>2, <1>3 DEF Outcome
  <1>5. TypeOK'
    BY <1>1, <1>3, <1>4 DEF StudyInv, TypeOK
  <1>6. Shaped'
    BY <1>1, <1>3 DEF StudyInv, Shaped
  <1>7. Cached'
    BY <1>1, <1>3 DEF StudyInv, Cached
  <1>8. VerdictAtHand'
    <2> SUFFICES ASSUME phase' = "append", inhand' # Failed
                 PROVE  /\ FromStore(Row, store[Row])'
                        /\ condition = 1 => FromCache(Row, store[Row])
      BY <1>1, <1>3 DEF VerdictAtHand, FromCache, FromStore
    <2>1. Row \in DOMAIN store
      BY <1>3
    <2>2. condition = 1 => FromCache(Row, store[Row])
      BY <1>1, <1>2, <2>1, StudyFacts DEF StudyInv, Grounded, StoreIsSaved, Row
    <2> QED
      BY <1>1, <2>1, <2>2 DEF FromStore
  <1>9. /\ InOrder' /\ DistinctKeys' /\ OfItsMode' /\ SavedVerdicts' /\ SameCompletion' /\ LoadedOfMode'
        /\ Accounted' /\ InStep' /\ Reported' /\ KnownVerdicts' /\ StoreIsSaved' /\ SecondAfterFirst'
    BY <1>1, <1>3, Unwritten
  <1> QED
    BY <1>5, <1>6, <1>7, <1>8, <1>9 DEF StudyInv, Grounded

(* Ask: an answer, another attempt, or a failed row.                       *)
LEMMA AskKeeps == StudyInv /\ Ask => StudyInv'
  <1> SUFFICES ASSUME StudyInv, Ask PROVE StudyInv'
    OBVIOUS
  <1>1. /\ process = "up" /\ phase = "ask" /\ next_row <= Len(rows)
        /\ Row \notin DOMAIN loaded /\ Row \notin DOMAIN store
        /\ checkpoint' = checkpoint /\ cache' = cache /\ started' = started
        /\ process' = process /\ mode' = mode /\ condition' = condition
        /\ loaded' = loaded /\ store' = store
        /\ next_row' = next_row /\ results' = results /\ Row' = Row
    BY DEF Ask, Up, files, Row, StudyInv, Shaped, Cached
  <1>2. attempt \in 0..MaxRetries /\ MaxRetries \in Nat /\ inhand = None
    BY <1>1, StudyAssumption DEF StudyInv, TypeOK
  <1>3. /\ attempt' \in 0..MaxRetries
        /\ \/ phase' = "put" /\ inhand' \in Completion
           \/ phase' = "ask" /\ inhand' = None
           \/ phase' = "append" /\ inhand' = Failed
    BY <1>1, <1>2 DEF Ask, Finish
  <1>4. inhand' \in CASE phase' = "put" -> Completion
                      [] phase' = "append" -> Outcome
                      [] OTHER -> {None}
    BY <1>3 DEF Outcome
  <1>5. TypeOK'
    BY <1>1, <1>3, <1>4 DEF StudyInv, TypeOK
  <1>6. Shaped' /\ VerdictAtHand'
    BY <1>1, <1>3 DEF StudyInv, Shaped, VerdictAtHand
  <1>7. Cached'
    BY <1>1, <1>3 DEF StudyInv, Cached
  <1>8. /\ InOrder' /\ DistinctKeys' /\ OfItsMode' /\ SavedVerdicts' /\ SameCompletion' /\ LoadedOfMode'
        /\ Accounted' /\ InStep' /\ Reported' /\ KnownVerdicts' /\ StoreIsSaved' /\ SecondAfterFirst'
    BY <1>1, <1>3, Unwritten
  <1> QED
    BY <1>5, <1>6, <1>7, <1>8 DEF StudyInv, Grounded

(* PutCompletion: a completion that was saved backs the verdict made of it,*)
(* one that was not goes with a failed row.                                *)
LEMMA PutKeeps == StudyInv /\ PutCompletion => StudyInv'
  <1> SUFFICES ASSUME StudyInv, PutCompletion PROVE StudyInv'
    OBVIOUS
  <1> DEFINE line == [key |-> Row, value |-> inhand]
  <1>1. /\ process = "up" /\ phase = "put" /\ Up("put") /\ next_row <= Len(rows)
        /\ Row \notin DOMAIN loaded /\ Row \notin DOMAIN store
        /\ checkpoint' = checkpoint /\ started' = started
        /\ process' = process /\ mode' = mode /\ condition' = condition
        /\ loaded' = loaded /\ next_row' = next_row /\ results' = results
        /\ attempt' = attempt /\ Row' = Row
    BY DEF PutCompletion, Up, Row, StudyInv, Shaped, Cached
  <1>2. /\ mode \in Mode /\ inhand \in Completion
        /\ next_row \in 1..Len(rows) /\ Row \in Rows
    BY <1>1, Position
  <1>3. /\ store' = [key \in DOMAIN store \union {Row} |->
                       IF key = Row THEN inhand ELSE store[key]]
        /\ phase' = "append"
        /\ cache' \in {Written(cache, line)} \union CutShort(cache, line)
        /\ \/ inhand' = Failed
           \/ /\ inhand \in Parsable /\ inhand' = <<inhand, mode>>
              /\ cache' = Written(cache, line)
    BY DEF PutCompletion, Outcomes, Finish
  <1>4. /\ cache' \in File(Completion)
        /\ \A r \in RecordsOf(cache') : r.key = Row \/ r \in RecordsOf(cache)
        /\ \A row, completion : row # Row /\ FromCache(row, completion) =>
              FromCache(row, completion)'
        /\ \A row, completion :
              /\ cache' = Written(cache, line)
              /\ row = Row /\ completion = inhand
              => FromCache(row, completion)'
        /\ SavedVerdicts'
    BY <1>1, <1>3, CacheExtended
  <1>5. /\ DOMAIN store' = DOMAIN store \union {Row} /\ store'[Row] = inhand
        /\ \A key \in DOMAIN store : key # Row => store'[key] = store[key]
    BY <1>3
  <1>6. TypeOK'
    <2>1. DOMAIN store' \subseteq Rows /\ store' \in [DOMAIN store' -> Completion]
      BY <1>2, <1>3 DEF StudyInv, TypeOK
    <2>2. inhand' \in CASE phase' = "put" -> Completion
                        [] phase' = "append" -> Outcome
                        [] OTHER -> {None}
      BY <1>2, <1>3 DEF Outcome
    <2> QED
      BY <1>1, <1>3, <1>4, <2>1, <2>2 DEF StudyInv, TypeOK
  <1>7. Shaped'
    BY <1>1, <1>3 DEF StudyInv, Shaped
  <1>8. InOrder' /\ DistinctKeys' /\ OfItsMode' /\ SameCompletion' /\ LoadedOfMode'
    BY <1>1 DEF StudyInv, InOrder, DistinctKeys, OfItsMode, SameCompletion, LoadedOfMode
  <1>9. Busy /\ Here' = Here /\ Current' = Current
    BY <1>1 DEF Busy, Here, checkpoint_path, Current
  <1>10. InStep' /\ Accounted' /\ Reported' /\ SecondAfterFirst'
    BY <1>1, <1>9 DEF StudyInv, InStep, Accounted, Reported, Agrees, SecondAfterFirst
  <1>11. Cached'
    BY <1>1, <1>3, <1>4, <1>5 DEF StudyInv, Cached
  <1>12. KnownVerdicts'
    <2> SUFFICES ASSUME NEW m \in Mode, NEW r \in RecordsOf(checkpoint[<<m, First>>]),
                        r.value # Failed
                 PROVE  FromStore(r.key, r.value[1])'
      BY <1>1 DEF KnownVerdicts
    <2>1. r.key \in DOMAIN store /\ store[r.key] = r.value[1]
      BY <1>1 DEF StudyInv, Grounded, KnownVerdicts, FromStore
    <2> QED
      BY <1>1, <1>5, <2>1 DEF FromStore
  <1>13. VerdictAtHand'
    <2> SUFFICES ASSUME inhand' # Failed, NEW row, NEW completion,
                        row = Row', completion = inhand'[1]
                 PROVE  FromStore(row, completion)' /\ FromCache(row, completion)'
      BY DEF VerdictAtHand, FromStore, FromCache
    <2>1. row = Row /\ completion = inhand /\ cache' = Written(cache, line)
      BY <1>1, <1>3
    <2>2. FromStore(row, completion)'
      BY <1>5, <2>1 DEF FromStore
    <2> QED
      BY <1>4, <2>1, <2>2
  <1>14. StoreIsSaved'
    <2> SUFFICES ASSUME condition = 1, NEW i \in next_row..Len(rows),
                        rows[i] \in DOMAIN store', i # next_row
                 PROVE  FromCache(rows[i], store[rows[i]])'
      BY <1>1, <1>3 DEF StoreIsSaved
    <2>1. rows[i] # Row /\ rows[i] \in DOMAIN store
      BY <1>2, <1>5, StudyFacts DEF Row
    <2>2. FromCache(rows[i], store[rows[i]])
      BY <1>1, <2>1 DEF StudyInv, Grounded, StoreIsSaved
    <2>3. store'[rows[i]] = store[rows[i]]
      BY <1>5, <2>1
    <2> QED
      BY <1>4, <2>1, <2>2, <2>3
  <1> QED
    BY <1>4, <1>6, <1>7, <1>8, <1>10, <1>11, <1>12, <1>13, <1>14 DEF StudyInv, Grounded

(* AppendCheckpoint: the outcome becomes the next line of the file and the *)
(* next record of the report.                                              *)
LEMMA AppendKeeps == StudyInv /\ AppendCheckpoint => StudyInv'
  <1> SUFFICES ASSUME StudyInv, AppendCheckpoint PROVE StudyInv'
    OBVIOUS
  <1> DEFINE line == [key |-> Row, value |-> inhand]
             file == Written(Here, line)
  <1>1. /\ process = "up" /\ phase = "append" /\ Up("append") /\ next_row <= Len(rows)
        /\ Row \notin DOMAIN loaded
        /\ cache' = cache /\ started' = started
        /\ process' = process /\ mode' = mode /\ condition' = condition
        /\ loaded' = loaded /\ store' = store /\ attempt' = attempt
        /\ phase' = "loop" /\ inhand' = None
        /\ Report(inhand) /\ next_row' = next_row + 1
        /\ checkpoint' = [checkpoint EXCEPT ![checkpoint_path] = file]
    BY DEF AppendCheckpoint, Up, StudyInv, Shaped, Report, Here
  <1>2. /\ mode \in Mode /\ inhand \in Outcome /\ (inhand # Failed => inhand[2] = mode)
        /\ next_row \in 1..Len(rows) /\ Row \in Rows
        /\ Here \in File(Outcome) /\ checkpoint_path \in Paths
        /\ checkpoint_path = <<mode, Current>>
        /\ condition \in {1, 2}
        /\ condition = 2 => Current = Second
        /\ Loadable(Here) => next_row = Count(Here) + 1
    BY <1>1, Position, NextLine DEF StudyInv, Shaped
  <1>3. /\ checkpoint' \in [Paths -> File(Outcome)]
        /\ InOrder' /\ DistinctKeys' /\ OfItsMode' /\ SavedVerdicts' /\ SameCompletion'
        /\ \A m \in Mode : checkpoint'[<<m, Second>>].lines # <<>> =>
              /\ Complete(checkpoint'[<<m, First>>])
              /\ mode = m => condition = 2 \/ file = Here
    BY <1>1, CheckpointExtended
  <1>4. line \in Record(Outcome)
    BY <1>2 DEF Record
  <1>5. /\ file \in File(Outcome)
        /\ Loadable(file) => Loadable(Here) /\ file.lines = Append(Here.lines, line)
    BY <1>2, <1>4, MalformedIsNoRecord, Appended
  <1>6. Here' = file
    BY <1>1, <1>2 DEF Here, checkpoint_path, Current, StudyInv, TypeOK
  <1>7. Loadable(Here') =>
          /\ Loadable(Here) /\ next_row = Count(Here) + 1
          /\ Count(Here') = next_row
          /\ \A i \in 1..(next_row - 1) : Here'.lines[i] = Here.lines[i]
          /\ Here'.lines[next_row] = line
    <2>1. Here.lines \in Seq(Record(Outcome) \union {Malformed}) /\ Count(Here) = Len(Here.lines)
      BY <1>2, Lines, Zenon DEF Count
    <2> QED
      BY <1>2, <1>5, <1>6, <2>1 DEF Count
  <1>8. /\ results' \in [Conditions -> Seq(Record(Outcome))]
        /\ \A c \in Conditions : Len(results'[c]) <= Len(rows)
        /\ Reported'
    <2>1. Loadable(Here') =>
            /\ Loadable(Here) /\ Count(Here') \in Nat /\ next_row <= Count(Here')
            /\ \A i \in 1..(next_row - 1) : Here'.lines[i] = Here.lines[i]
            /\ Here'.lines[next_row] = [key |-> Row, value |-> inhand]
      BY <1>2, <1>7
    <2>2. condition = 2 =>
            checkpoint'[<<mode, First>>] = checkpoint[<<mode, First>>]
      BY <1>1, <1>2, StudyFacts DEF StudyInv, TypeOK
    <2> QED
      BY <1>1, <1>2, <2>1, <2>2, RowReported, Zenon
  <1>9. TypeOK'
    BY <1>1, <1>2, <1>3, <1>8, StudyFacts DEF StudyInv, TypeOK
  <1>10. Shaped'
    BY <1>1, <1>2 DEF StudyInv, Shaped
  <1>11. InStep'
    <2> SUFFICES ASSUME Loadable(Here')
                 PROVE  /\ next_row' - 1 <= Count(Here')
                        /\ \A i \in next_row'..Len(rows) :
                             rows[i] \in DOMAIN loaded' <=> i <= Count(Here')
                        /\ \A i \in next_row'..Count(Here') :
                             loaded'[rows[i]] = Here'.lines[i].value
      BY DEF InStep
    <2>1. \A i \in next_row..Len(rows) : rows[i] \in DOMAIN loaded <=> i <= Count(Here)
      BY <1>1, <1>7 DEF StudyInv, InStep, Busy
    <2>2. /\ next_row' = next_row + 1 /\ Count(Here') = next_row
          /\ Count(Here) = next_row - 1 /\ next_row \in Nat /\ next_row >= 1
          /\ Len(rows) \in Nat
      <3>1. Count(Here) \in Nat
        BY <1>2, Lines, Zenon
      <3> QED
        BY <1>1, <1>2, <1>7, <3>1, StudyFacts
    <2>3. \A i \in next_row'..Len(rows) :
            ~ i <= Count(Here') /\ ~ i <= Count(Here) /\ i \in next_row..Len(rows)
      BY <2>2
    <2>4. \A i \in next_row'..Len(rows) : rows[i] \notin DOMAIN loaded'
      BY <1>1, <2>1, <2>3
    <2>5. next_row' - 1 <= Count(Here') /\ next_row'..Count(Here') = {}
      BY <2>2
    <2> QED
      BY <2>3, <2>4, <2>5
  <1>12. LoadedOfMode' /\ Cached' /\ VerdictAtHand'
    BY <1>1 DEF StudyInv, LoadedOfMode, Cached, VerdictAtHand
  <1>13. KnownVerdicts'
    <2> SUFFICES ASSUME NEW m \in Mode, NEW r \in RecordsOf(checkpoint'[<<m, First>>]),
                        r.value # Failed
                 PROVE  FromStore(r.key, r.value[1])
      BY <1>1 DEF KnownVerdicts, FromStore
    <2>1. CASE r \in RecordsOf(checkpoint[<<m, First>>])
      BY <2>1 DEF StudyInv, Grounded, KnownVerdicts
    <2>2. CASE r \notin RecordsOf(checkpoint[<<m, First>>])
      <3>1. <<m, First>> \in Paths /\ checkpoint \in [Paths -> File(Outcome)]
        BY StudyFacts DEF StudyInv, TypeOK
      <3>2. <<m, First>> = checkpoint_path /\ r \in RecordsOf(file)
        BY <1>1, <2>2, <3>1
      <3>3. RecordsOf(file) \subseteq RecordsOf(Here) \union {line}
        BY <1>2, <1>4, MalformedIsNoRecord, Appended
      <3>4. r = line
        BY <2>2, <3>2, <3>3 DEF Here
      <3> QED
        BY <1>1, <3>4 DEF StudyInv, Grounded, VerdictAtHand
    <2> QED
      BY <2>1, <2>2
  <1>14. StoreIsSaved'
    BY <1>1, <1>2, StudyFacts DEF StudyInv, Grounded, StoreIsSaved, FromCache
  <1>15. SecondAfterFirst'
    <2> SUFFICES ASSUME NEW m \in Mode, checkpoint'[<<m, Second>>].lines # <<>>,
                        mode = m, condition = 1
                 PROVE  Loadable(checkpoint'[<<m, First>>])
      <3>1. \A m \in Mode : checkpoint'[<<m, Second>>].lines # <<>> =>
              Complete(checkpoint'[<<m, First>>])
        BY <1>3
      <3> QED
        BY <1>1, <3>1 DEF SecondAfterFirst, Complete, Loadable, Count
    <2>1. file = Here
      <3>1. condition = 2 \/ file = Here
        BY <1>3, Zenon
      <3> HIDE DEF file
      <3> QED
        BY <3>1
    <2>2. checkpoint' = checkpoint
      BY <1>1, <1>2, <2>1 DEF Here, StudyInv, TypeOK
    <2> QED
      BY <1>1, <2>2 DEF StudyInv, SecondAfterFirst, Busy
  <1>16. Accounted'
    <2>1. RecordsOf(file) \subseteq RecordsOf(Here) \union {line}
      BY <1>2, <1>4, MalformedIsNoRecord, Appended
    <2>2. \A r \in RecordsOf(Here) :
            r.key \in DOMAIN loaded \/ \E i \in 1..(next_row - 1) : r.key = rows[i]
      BY <1>1 DEF StudyInv, Accounted, Busy
    <2>3. line.key = rows[next_row] /\ next_row' - 1 = next_row
      BY <1>1, <1>2, StudyFacts DEF Row
    <2>4. ASSUME NEW r \in RecordsOf(file)
          PROVE  r.key \in DOMAIN loaded \/ \E i \in 1..next_row : r.key = rows[i]
      BY <1>2, <2>1, <2>2, <2>3, StudyFacts
    <2> QED
      BY <1>1, <1>6, <2>3, <2>4 DEF Accounted
  <1> QED
    BY <1>3, <1>8, <1>9, <1>10, <1>11, <1>12, <1>13, <1>14, <1>15,
       <1>16 DEF StudyInv, Grounded

(* EndCondition: the condition is reported whole before the next begins.   *)
LEMMA EndKeeps == StudyInv /\ EndCondition => StudyInv'
  <1> SUFFICES ASSUME StudyInv, EndCondition PROVE StudyInv'
    OBVIOUS
  <1>1. /\ process = "up" /\ phase = "loop" /\ next_row = Len(rows) + 1
        /\ checkpoint' = checkpoint /\ cache' = cache /\ started' = started
        /\ mode' = mode /\ store' = store /\ attempt' = attempt
        /\ inhand' = inhand /\ results' = results
        /\ mode \in Mode /\ condition \in {1, 2} /\ Busy
    BY Position, StudyFacts DEF EndCondition, Up, files, Busy
  <1>2. InOrder' /\ DistinctKeys' /\ OfItsMode' /\ SavedVerdicts' /\ SameCompletion'
    BY <1>1 DEF StudyInv, InOrder, DistinctKeys, OfItsMode, Grounded, SavedVerdicts, FromCache, SameCompletion
  <1>3. CASE condition = 2
    <2>1. /\ process' = "finished" /\ condition' = condition /\ next_row' = next_row
          /\ phase' = phase /\ loaded' = loaded
      BY <1>3, StudyAssumption DEF EndCondition
    <2>2. TypeOK' /\ Shaped'
      BY <1>1, <1>3, <2>1 DEF StudyInv, TypeOK, Shaped
    <2>3. LoadedOfMode' /\ Accounted' /\ InStep' /\ Cached' /\ KnownVerdicts' /\ VerdictAtHand' /\ StoreIsSaved'
      BY <1>1, <1>3, <2>1 DEF LoadedOfMode, Accounted, InStep, Busy, Cached, KnownVerdicts, FromStore,
                              VerdictAtHand, StoreIsSaved
    <2>4. Reported'
      BY <1>1, <2>1 DEF StudyInv, Reported, Agrees, Current
    <2>5. SecondAfterFirst'
      BY <1>1, <2>1 DEF StudyInv, SecondAfterFirst, Busy
    <2> QED
      BY <1>2, <2>2, <2>3, <2>4, <2>5 DEF StudyInv, Grounded
  <1>4. CASE condition = 1
    <2>1. /\ process' = process /\ condition' = 2 /\ next_row' = 1
          /\ phase' = "open" /\ loaded' = Nothing
      BY <1>4, StudyAssumption DEF EndCondition
    <2>2. TypeOK'
      BY <1>1, <2>1, StudyAssumption, StudyFacts DEF StudyInv, TypeOK, Nothing
    <2>3. Shaped' /\ Accounted' /\ InStep' /\ LoadedOfMode'
      BY <1>1, <2>1 DEF StudyInv, Shaped, Accounted, InStep, Busy, LoadedOfMode, Nothing
    <2>4. Cached' /\ KnownVerdicts' /\ VerdictAtHand' /\ StoreIsSaved'
      BY <1>1, <2>1 DEF StudyInv, Grounded, Cached, KnownVerdicts, FromStore,
                        VerdictAtHand, StoreIsSaved
    <2>5. Reported'
      <3>1. Agrees(First, Len(rows))'
        <4>1. Agrees(First, Len(rows))
          BY <1>1, <1>4, Position, StudyFacts DEF StudyInv, Reported
        <4> QED
          BY <1>1, <4>1 DEF Agrees
      <3>2. Current' = Second
        BY <2>1 DEF Current, Second
      <3>3. results[Second] = <<>>
        BY <1>1, <1>4 DEF StudyInv, Reported
      <3>4. Count(checkpoint[<<mode, Second>>]) \in Nat
        <4>1. checkpoint[<<mode, Second>>] \in File(Outcome)
          BY <1>1, StudyFacts DEF StudyInv, TypeOK
        <4> QED
          BY <4>1, Lines, Zenon
      <3>5. next_row' - 1 = 0
        BY <2>1
      <3>6. Agrees(Current, next_row - 1)'
        BY <1>1, <3>2, <3>3, <3>4, <3>5 DEF Agrees
      <3> QED
        BY <1>1, <2>1, <3>1, <3>6 DEF StudyInv, Reported
    <2>6. SecondAfterFirst'
      BY <1>1, <2>1 DEF StudyInv, SecondAfterFirst
    <2> QED
      BY <1>2, <2>2, <2>3, <2>4, <2>5, <2>6 DEF StudyInv, Grounded
  <1> QED
    BY <1>1, <1>3, <1>4

(* Crash: between two steps, or within one of the two writes.              *)
LEMMA CrashKeeps == StudyInv /\ Crash => StudyInv'
  <1> SUFFICES ASSUME StudyInv, Crash PROVE StudyInv'
    OBVIOUS
  <1> DEFINE line == [key |-> Row, value |-> inhand]
  <1>1. /\ process = "up" /\ process' \in {"down", "refused"} /\ mode' = None
        /\ FreshMemory(Nothing) /\ started' \in 0..MaxProcesses
        /\ checkpoint \in [Paths -> File(Outcome)] /\ cache \in File(Completion)
    BY DEF Crash, StudyInv, TypeOK
  <1>2. \/ checkpoint' = checkpoint /\ cache' = cache
        \/ /\ phase = "put" /\ checkpoint' = checkpoint
           /\ cache' \in CutShort(cache, line)
        \/ /\ phase = "append" /\ cache' = cache
           /\ \E file \in CutShort(Here, line) :
                checkpoint' = [checkpoint EXCEPT ![checkpoint_path] = file]
    BY DEF Crash, files, Here
  <1>3. CASE checkpoint' = checkpoint /\ cache' = cache
    <2>1. InOrder' /\ DistinctKeys' /\ OfItsMode' /\ SavedVerdicts' /\ SameCompletion'
      BY <1>3 DEF StudyInv, InOrder, DistinctKeys, OfItsMode, Grounded, SavedVerdicts, FromCache, SameCompletion
    <2>2. \A m \in Mode : checkpoint'[<<m, Second>>].lines # <<>> =>
            Complete(checkpoint'[<<m, First>>])
      BY <1>3 DEF StudyInv, SecondAfterFirst
    <2> QED
      BY <1>1, <1>3, <2>1, <2>2, Stopped
  <1>4. CASE /\ phase = "put" /\ checkpoint' = checkpoint
             /\ cache' \in CutShort(cache, line)
    <2>1. cache' \in File(Completion) /\ SavedVerdicts'
      BY <1>1, <1>4, CacheExtended DEF Up
    <2>2. InOrder' /\ DistinctKeys' /\ OfItsMode' /\ SameCompletion'
      BY <1>4 DEF StudyInv, InOrder, DistinctKeys, OfItsMode, SameCompletion
    <2>3. \A m \in Mode : checkpoint'[<<m, Second>>].lines # <<>> =>
            Complete(checkpoint'[<<m, First>>])
      BY <1>4 DEF StudyInv, SecondAfterFirst
    <2> QED
      BY <1>1, <1>4, <2>1, <2>2, <2>3, Stopped
  <1>5. CASE /\ phase = "append" /\ cache' = cache
             /\ \E file \in CutShort(Here, line) :
                  checkpoint' = [checkpoint EXCEPT ![checkpoint_path] = file]
    <2>1. PICK file \in CutShort(Here, line) :
            checkpoint' = [checkpoint EXCEPT ![checkpoint_path] = file]
      BY <1>5
    <2>2. /\ checkpoint' \in [Paths -> File(Outcome)]
          /\ InOrder' /\ DistinctKeys' /\ OfItsMode' /\ SavedVerdicts' /\ SameCompletion'
          /\ \A m \in Mode : checkpoint'[<<m, Second>>].lines # <<>> =>
               Complete(checkpoint'[<<m, First>>])
      BY <1>1, <1>5, <2>1, CheckpointExtended DEF Up
    <2> QED
      BY <1>1, <1>5, <2>2, Stopped
  <1> QED
    BY <1>2, <1>3, <1>4, <1>5

(* A step that leaves the study as it is.                                  *)
LEMMA StutterKeeps == StudyInv /\ UNCHANGED vars => StudyInv'
  <1> SUFFICES ASSUME StudyInv, UNCHANGED vars PROVE StudyInv'
    OBVIOUS
  <1>1. /\ checkpoint' = checkpoint /\ cache' = cache /\ process' = process
        /\ started' = started /\ mode' = mode /\ condition' = condition
        /\ next_row' = next_row /\ phase' = phase /\ loaded' = loaded /\ store' = store
        /\ attempt' = attempt /\ inhand' = inhand /\ results' = results
    BY DEF vars, files, memory
  <1>2. Current' = Current /\ Row' = Row /\ Here' = Here /\ Busy' = Busy
    BY <1>1 DEF Current, Row, Here, checkpoint_path, Busy
  <1>3. TypeOK'
    BY <1>1 DEF StudyInv, TypeOK
  <1>4. Shaped'
    BY <1>1, <1>2 DEF StudyInv, Shaped
  <1>5. InOrder' /\ DistinctKeys' /\ OfItsMode' /\ LoadedOfMode'
    BY <1>1 DEF StudyInv, InOrder, DistinctKeys, OfItsMode, LoadedOfMode
  <1>6. Accounted' /\ InStep'
    BY <1>1, <1>2 DEF StudyInv, Accounted, InStep
  <1>7. Reported'
    BY <1>1, <1>2 DEF StudyInv, Reported, Agrees
  <1>8. Cached'
    BY <1>1, <1>2 DEF StudyInv, Cached
  <1>9. SavedVerdicts' /\ KnownVerdicts' /\ SameCompletion'
    BY <1>1 DEF StudyInv, Grounded, SavedVerdicts, KnownVerdicts, FromCache, FromStore,
                SameCompletion
  <1>10. VerdictAtHand' /\ StoreIsSaved'
    BY <1>1, <1>2 DEF StudyInv, Grounded, VerdictAtHand, StoreIsSaved, FromCache, FromStore
  <1>11. SecondAfterFirst'
    BY <1>1, <1>2 DEF StudyInv, SecondAfterFirst
  <1> QED
    BY <1>3, <1>4, <1>5, <1>6, <1>7, <1>8, <1>9, <1>10, <1>11 DEF StudyInv, Grounded
-----------------------------------------------------------------------------
(* Two sequences of the same length and the same elements.                 *)
LEMMA SameSequence ==
  ASSUME NEW S, NEW T, NEW s \in Seq(S), NEW t \in Seq(T),
         Len(s) = Len(t), \A i \in 1..Len(s) : s[i] = t[i]
  PROVE  s = t
  <1>1. DOMAIN s = DOMAIN t /\ DOMAIN s = 1..Len(s)
    OBVIOUS
  <1>2. s = [i \in DOMAIN s |-> s[i]] /\ t = [i \in DOMAIN t |-> t[i]]
    OBVIOUS
  <1> QED
    BY <1>1, <1>2, Zenon

(* What every state of a study satisfies, whatever it has been through.    *)
THEOREM StudyInvariant == Spec => []StudyInv
  <1>1. Init => StudyInv
    BY Fresh
  <1>2. StudyInv /\ [Next]_vars => StudyInv'
    <2> SUFFICES ASSUME StudyInv, [Next]_vars PROVE StudyInv'
      OBVIOUS
    <2>1. CASE Start
      BY <2>1, StartKeeps
    <2>2. CASE OpenCheckpoint
      BY <2>2, OpenKeeps
    <2>3. CASE SkipRow
      BY <2>3, SkipKeeps
    <2>4. CASE ConsultCache
      BY <2>4, ConsultKeeps
    <2>5. CASE Ask
      BY <2>5, AskKeeps
    <2>6. CASE PutCompletion
      BY <2>6, PutKeeps
    <2>7. CASE AppendCheckpoint
      BY <2>7, AppendKeeps
    <2>8. CASE EndCondition
      BY <2>8, EndKeeps
    <2>9. CASE Crash
      BY <2>9, CrashKeeps
    <2>10. CASE UNCHANGED vars
      BY <2>10, StutterKeeps
    <2> QED
      BY <2>1, <2>2, <2>3, <2>4, <2>5, <2>6, <2>7, <2>8, <2>9, <2>10 DEF Next, Work
  <1> QED
    BY <1>1, <1>2, PTL DEF Spec

(* The variables keep their types.                                         *)
THEOREM StudyTypeCorrect == Spec => []TypeOK
  <1>1. StudyInv => TypeOK
    BY DEF StudyInv
  <1> QED
    BY <1>1, StudyInvariant, PTL

(* However often the process dies, no row is evaluated twice under one     *)
(* mode and condition: run_condition() and append_checkpoint().            *)
THEOREM EveryRowRecordedOnce == Spec => []EachRowRecordedOnce
  <1>1. StudyInv => EachRowRecordedOnce
    <2> SUFFICES ASSUME StudyInv, NEW path \in Paths,
                        NEW i \in DOMAIN checkpoint[path].lines,
                        Malformed \notin ToSet(SubSeq(checkpoint[path].lines, 1, i))
                 PROVE  checkpoint[path].lines[i].key = rows[i]
      BY DEF EachRowRecordedOnce
    <2> DEFINE file == checkpoint[path]
    <2>1. file \in File(Outcome) /\ Ordered(file)
      BY DEF StudyInv, TypeOK, InOrder
    <2>2. /\ Count(file) \in Nat /\ DOMAIN file.lines = 1..Count(file)
          /\ file.lines \in Seq(Record(Outcome) \union {Malformed})
      BY <2>1, Lines, Zenon
    <2>3. \A j \in 1..i : /\ j \in DOMAIN SubSeq(file.lines, 1, i)
                          /\ SubSeq(file.lines, 1, i)[j] = file.lines[j]
      BY <2>2
    <2>4. \A j \in 1..i : file.lines[j] # Malformed
      BY <2>3 DEF ToSet
    <2> QED
      BY <2>1, <2>2, <2>4 DEF Ordered
  <1> QED
    BY <1>1, StudyInvariant, PTL

(* A completion that reached the cache file is never paid for again:       *)
(* CachingLLMClient.complete() over JsonlLLMCache.                         *)
THEOREM CompletionsAreReused == Spec => []PaidCompletionsAreReused
  <1>1. StudyInv => PaidCompletionsAreReused
    BY DEF StudyInv, Shaped, Cached, PaidCompletionsAreReused
  <1> QED
    BY <1>1, StudyInvariant, PTL

(* The verdicts of a row under the two conditions rest on one              *)
(* decomposition, however many processes it took to make them.             *)
THEOREM ConditionsAreComparable == Spec => []ConditionsComparable
  <1>1. StudyInv => ConditionsComparable
    <2> SUFFICES ASSUME StudyInv, NEW m \in Mode, NEW c \in Conditions, NEW d \in Conditions,
                        NEW r \in RecordsOf(checkpoint[<<m, c>>]),
                        NEW s \in RecordsOf(checkpoint[<<m, d>>]),
                        r.key = s.key, Failed \notin {r.value, s.value}
                 PROVE  r.value = s.value
      BY DEF ConditionsComparable
    <2>1. CASE c # d
      BY <2>1, StudyFacts DEF StudyInv, SameCompletion
    <2>2. CASE c = d
      <3> DEFINE file == checkpoint[<<m, c>>]
      <3>1. file \in File(Outcome) /\ <<m, c>> \in Paths
        BY StudyFacts DEF StudyInv, TypeOK
      <3>2. \A i, j \in 1..Count(file) :
              file.lines[i] # Malformed /\ file.lines[j] # Malformed
                /\ file.lines[i].key = file.lines[j].key => i = j
        BY <3>1 DEF StudyInv, DistinctKeys
      <3>3. r \in RecordsOf(file) /\ s \in RecordsOf(file)
        BY <2>2
      <3>4. \A x \in RecordsOf(file) :
              x # Malformed /\ \E i \in 1..Count(file) : x = file.lines[i]
        BY <3>1 DEF RecordsOf, ToSet, File, Count
      <3>5. PICK i \in 1..Count(file) : r # Malformed /\ r = file.lines[i]
        BY <3>3, <3>4
      <3>6. PICK j \in 1..Count(file) : s # Malformed /\ s = file.lines[j]
        BY <3>3, <3>4
      <3>7. i = j
        BY <3>2, <3>5, <3>6
      <3> QED
        BY <3>5, <3>6, <3>7
    <2> QED
      BY <2>1, <2>2
  <1> QED
    BY <1>1, StudyInvariant, PTL

(* A process reports no verdict of another verifier.                       *)
THEOREM OwnVerifierAlways == Spec => []OwnVerifierOnly
  <1>1. StudyInv => OwnVerifierOnly
    BY DEF StudyInv, Reported, OwnVerifierOnly
  <1> QED
    BY <1>1, StudyInvariant, PTL

(* A finished study reports every row once, in order, as the files say.    *)
THEOREM ReportAlwaysMatches == Spec => []ReportMatchesCheckpoint
  <1>1. StudyInv => ReportMatchesCheckpoint
    <2> SUFFICES ASSUME StudyInv, process = "finished", NEW c \in Conditions
                 PROVE  /\ Len(results[c]) = Len(rows)
                        /\ \A i \in DOMAIN rows : results[c][i].key = rows[i]
                        /\ Loadable(checkpoint[<<mode, c>>]) =>
                             results[c] = checkpoint[<<mode, c>>].lines
      BY DEF ReportMatchesCheckpoint
    <2> DEFINE file == checkpoint[<<mode, c>>]
    <2>1. /\ condition = 2 /\ next_row = Len(rows) + 1 /\ mode \in Mode /\ Current = Second
      BY Position DEF StudyInv, Shaped
    <2>2. Agrees(c, Len(rows))
      BY <2>1, StudyFacts DEF StudyInv, Reported
    <2>3. /\ file \in File(Outcome) /\ Ordered(file)
          /\ results[c] \in Seq(Record(Outcome)) /\ DOMAIN rows = 1..Len(rows)
      BY <2>1, StudyFacts, StudyAssumption DEF StudyInv, TypeOK, InOrder
    <2>4. Loadable(file) => results[c] = file.lines
      <3> SUFFICES ASSUME Loadable(file) PROVE results[c] = file.lines
        OBVIOUS
      <3>1. /\ Count(file) \in Nat /\ Count(file) = Len(file.lines)
            /\ file.lines \in Seq(Record(Outcome) \union {Malformed})
            /\ \A i \in 1..Count(file) : file.lines[i] # Malformed
        BY <2>3, Lines, Zenon DEF Count
      <3>2. Len(rows) <= Count(file) /\ \A i \in 1..Len(rows) : results[c][i] = file.lines[i]
        BY <2>2 DEF Agrees
      <3>3. Count(file) <= Len(rows)
        <4>1. \A i \in 1..Count(file) : i <= Len(rows)
          <5> SUFFICES ASSUME NEW i \in 1..Count(file) PROVE i <= Len(rows)
            OBVIOUS
          <5>1. 1..i \subseteq 1..Count(file)
            BY <3>1
          <5>2. \A j \in 1..i : file.lines[j] # Malformed
            BY <3>1, <5>1
          <5> HIDE DEF file
          <5> QED
            BY <2>3, <5>2, Zenon DEF Ordered
        <4> QED
          BY <3>1, <4>1, StudyFacts
      <3>4. Len(results[c]) = Len(file.lines)
        BY <2>2, <3>1, <3>2, <3>3, StudyFacts DEF Agrees
      <3>5. \A i \in 1..Len(results[c]) : results[c][i] = file.lines[i]
        BY <3>1, <3>2, <3>3, <3>4, StudyFacts
      <3>6. results[c] \in Seq(Record(Outcome))
              /\ file.lines \in Seq(Record(Outcome) \union {Malformed})
        BY <2>3, <3>1
      <3> HIDE DEF file
      <3> QED
        BY <3>4, <3>5, <3>6, SameSequence, Zenon
    <2> QED
      BY <2>2, <2>3, <2>4 DEF Agrees
  <1> QED
    BY <1>1, StudyInvariant, PTL
=============================================================================
