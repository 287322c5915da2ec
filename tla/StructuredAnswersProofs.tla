----------------------- MODULE StructuredAnswersProofs -----------------------
(***************************************************************************)
(* Proofs about StructuredAnswers, for any rows, sessions, evidence and    *)
(* answers, any number of processes and crashes anywhere: a completion is  *)
(* never read back under another configuration or schema version, no       *)
(* judgement cites evidence its claim does not have, and the cache file of *)
(* a finished session replays it, but for the rows that a failed write or  *)
(* a late answer to the same prompt touched.                               *)
(***************************************************************************)
EXTENDS StructuredAnswers, WellFoundedInduction, TLAPS

(* A running process is one of a session, whose class names, if it loaded  *)
(* a cross-encoder, are known; its cursor is on a prompt or past the rows. *)
Running ==
  process = "up" =>
    /\ session \in Sessions
    /\ session.verifier = "cross_encoder" => LabelsKnown(session.id2label)
    /\ phase \in {"next", "ask", "put", "judge"}
    /\ row \in Nat \ {0}
    /\ row <= Len(Prompts) => step \in 1..Len(Prompts[row])
    /\ phase # "next" => row <= Len(Prompts)
    /\ phase # "next" /\ session.task = "verify" => Evidence[Prompt] # <<>>

(* A completion that task may get, made under a configuration and version. *)
MadeUnder(completion, task, config, schema_version) ==
  /\ completion.data \in Data[task]
  /\ completion.model_fingerprint = config
  /\ completion.asked_under = schema_version

(* Only a call and the cache put a completion in hand.                     *)
AtHand ==
  /\ phase \in {"next", "ask"} => inhand = None
  /\ phase \in {"put", "judge"} =>
       MadeUnder(inhand, session.task, session.config, session.schema_version)

(* What a cache file says of a key, and what the store does, was made      *)
(* under the configuration and the schema version of the key.              *)
OwnFile(file, task) ==
  /\ file.lines \in Seq(ToSet(file.lines))
  /\ \A r \in RecordsOf(file) : MadeUnder(r.value, task, r.key[1], r.key[2])

OwnCaches ==
  /\ DOMAIN cache = DOMAIN Rows
  /\ \A task \in DOMAIN Rows : OwnFile(cache[task], task)

OwnStore ==
  \A key \in DOMAIN store : MadeUnder(store[key], session.task, key[1], key[2])

(* A record that cites its claim's evidence, as JudgementsCiteEvidence has *)
(* it.                                                                     *)
Held(k) == QuotesIn[k] \union {k}

Cites(r) ==
  /\ r.evidence_chunk_id \in ToSet(Evidence[r.atomic_claim_id])
  /\ r.label = IF r.said \in FactLabel
               THEN (CASE r.said = "SUPPORTED" -> "ENTAILMENT"
                       [] r.said = "CONTRADICTED" -> "CONTRADICTION"
                       [] OTHER -> "NEUTRAL")
               ELSE Alias[r.said]
  /\ r.label # "NEUTRAL" => r.premise # <<>>
  /\ r.premise # <<>> => r.premise[1] \in Held(r.evidence_chunk_id)
  /\ \A q \in ToSet(r.premise) : \E k \in ToSet(Evidence[r.atomic_claim_id]) : q \in Held(k)

CitingList(records) ==
  records \in Seq(ToSet(records)) /\ \A r \in ToSet(records) : Cites(r)

Citing ==
  session.task = "verify" =>
    /\ CitingList(facts)
    /\ outcomes \in Seq(ToSet(outcomes))
    /\ \A o \in ToSet(outcomes) : o \notin Failures => CitingList(o)

AnswersInv == Running /\ AtHand /\ OwnCaches /\ OwnStore /\ Citing
-----------------------------------------------------------------------------
(* Sequences.                                                              *)

(* A set of numbers that is not empty has a least one.                     *)
LEMMA LeastIndex ==
  ASSUME NEW S, S \subseteq Nat, S # {}
  PROVE  \E x \in S : \A y \in S : x <= y
  <1>1. PICK x \in S : \A y \in S : ~ <<y, x>> \in OpToRel(<, Nat)
    BY NatLessThanWellFounded, WFMin, Zenon
  <1>2. \A y, z \in Nat : y < z => <<y, z>> \in OpToRel(<, Nat)
    BY Zenon DEF OpToRel
  <1>3. \A y \in S : ~ y < x
    BY <1>1, <1>2, Zenon
  <1> QED
    BY <1>3

(* A set of numbers up to a bound that is not empty has its greatest.      *)
LEMMA GreatestIndex ==
  ASSUME NEW n \in Nat, NEW I, I \subseteq 1..n, I # {}
  PROVE  Max(I) \in I
  <1> DEFINE D == {n - i : i \in I}
  <1>1. D \subseteq Nat /\ D # {}
    <2>1. PICK i : i \in I
      OBVIOUS
    <2>2. n - i \in D
      BY <2>1
    <2> QED
      BY <2>2
  <1>2. PICK d \in D : \A y \in D : d <= y
    <2> HIDE DEF D
    <2> QED
      BY <1>1, LeastIndex
  <1>3. PICK i \in I : d = n - i
    OBVIOUS
  <1>4. \A x \in I : i >= x
    <2>1. \A x \in I : n - x \in D
      OBVIOUS
    <2> QED
      BY <1>2, <1>3, <2>1
  <1> QED
    BY <1>4 DEF Max

(* The members of a sequence.                                              *)
LEMMA Members ==
  ASSUME NEW s, s \in Seq(ToSet(s))
  PROVE  /\ Len(s) \in Nat /\ DOMAIN s = 1..Len(s)
         /\ \A x : x \in ToSet(s) <=> \E i \in 1..Len(s) : x = s[i]
  BY DEF ToSet

(* Appending adds one member.                                              *)
LEMMA AppendMember ==
  ASSUME NEW s, s \in Seq(ToSet(s)), NEW x
  PROVE  /\ Append(s, x) \in Seq(ToSet(Append(s, x)))
         /\ ToSet(Append(s, x)) = ToSet(s) \union {x}
  <1> DEFINE t == Append(s, x)
  <1>1. s \in Seq(ToSet(s) \union {x}) /\ t \in Seq(ToSet(s) \union {x})
    OBVIOUS
  <1>2. Len(t) = Len(s) + 1 /\ Len(s) \in Nat /\ DOMAIN t = 1..Len(t) /\ DOMAIN s = 1..Len(s)
    BY <1>1
  <1>3. (\A i \in 1..Len(s) : t[i] = s[i]) /\ t[Len(s) + 1] = x
    BY <1>1
  <1> HIDE DEF t
  <1>4. ToSet(t) = ToSet(s) \union {x}
    BY <1>2, <1>3 DEF ToSet
  <1> QED
    BY <1>1, <1>4 DEF t

(* Joining two sequences joins their members.                              *)
LEMMA JoinMembers ==
  ASSUME NEW s, s \in Seq(ToSet(s)), NEW t, t \in Seq(ToSet(t))
  PROVE  /\ s \o t \in Seq(ToSet(s \o t))
         /\ ToSet(s \o t) = ToSet(s) \union ToSet(t)
  <1> DEFINE u == s \o t
             L == ToSet(s) \union ToSet(t)
  <1>1. s \in Seq(L) /\ t \in Seq(L)
    OBVIOUS
  <1>2. /\ u \in Seq(L) /\ Len(u) = Len(s) + Len(t)
        /\ Len(s) \in Nat /\ Len(t) \in Nat
        /\ DOMAIN u = 1..Len(u) /\ DOMAIN s = 1..Len(s) /\ DOMAIN t = 1..Len(t)
    <2> HIDE DEF L
    <2> QED
      BY <1>1
  <1>3. /\ \A i \in 1..Len(s) : u[i] = s[i]
        /\ \A i \in 1..Len(t) : u[Len(s) + i] = t[i]
    <2> HIDE DEF L
    <2> QED
      BY <1>1
  <1> HIDE DEF u
  <1>4. ToSet(u) \subseteq L
    BY <1>2 DEF ToSet
  <1>5. ToSet(s) \subseteq ToSet(u)
    BY <1>2, <1>3 DEF ToSet
  <1>6. ToSet(t) \subseteq ToSet(u)
    <2> SUFFICES ASSUME NEW i \in 1..Len(t) PROVE t[i] \in ToSet(u)
      BY <1>2 DEF ToSet
    <2>1. Len(s) + i \in DOMAIN u
      BY <1>2
    <2> QED
      BY <1>3, <2>1 DEF ToSet
  <1>7. ToSet(u) = L
    BY <1>4, <1>5, <1>6
  <1> QED
    BY <1>2, <1>7 DEF u

-----------------------------------------------------------------------------
(* Files of records.                                                       *)

(* What an append leaves behind, finished or cut short, has no record but  *)
(* those it had and the one that was written.                              *)
LEMMA OwnAppend ==
  ASSUME NEW file, NEW task, OwnFile(file, task), NEW record,
         MadeUnder(record.value, task, record.key[1], record.key[2]),
         NEW new \in {Written(file, record)} \union CutShort(file, record)
  PROVE  OwnFile(new, task)
  <1>1. file.lines \in Seq(ToSet(file.lines))
    BY DEF OwnFile
  <1>2. CASE new = file
    BY <1>2
  <1>3. ASSUME NEW text \in {record, Malformed}, new.lines = LastLineWith(file, text)
        PROVE  /\ new.lines \in Seq(ToSet(new.lines))
               /\ ToSet(new.lines) \subseteq ToSet(file.lines) \union {text, Malformed}
    <2>1. CASE file.ended
      BY <1>1, <1>3, <2>1, AppendMember DEF LastLineWith
    <2>2. CASE ~file.ended
      <3>1. new.lines = [file.lines EXCEPT ![Len(file.lines)] = Malformed]
        BY <1>3, <2>2 DEF LastLineWith
      <3>2. /\ Len(file.lines) \in Nat /\ DOMAIN file.lines = 1..Len(file.lines)
            /\ DOMAIN new.lines = DOMAIN file.lines
            /\ \A i \in DOMAIN file.lines : new.lines[i] \in {file.lines[i], Malformed}
        BY <1>1, <3>1
      <3>3. new.lines \in [1..Len(file.lines) -> ToSet(new.lines)]
        BY <3>1, <3>2 DEF ToSet
      <3>4. new.lines \in Seq(ToSet(new.lines))
        BY <3>2, <3>3
      <3> QED
        BY <3>2, <3>4 DEF ToSet
    <2> QED
      BY <2>1, <2>2
  <1>4. CASE new # file
    <2>1. \E text \in {record, Malformed} : new.lines = LastLineWith(file, text)
      BY <1>4 DEF Written, CutShort
    <2> QED
      BY <1>3, <2>1 DEF OwnFile, RecordsOf
  <1> QED
    BY <1>2, <1>4

(* What a loaded file says of a key was said by a record of the key.       *)
LEMMA OwnContents ==
  ASSUME NEW file, NEW task, OwnFile(file, task), Loadable(file)
  PROVE  \A key \in DOMAIN Contents(file) :
           MadeUnder(Contents(file)[key], task, key[1], key[2])
  <1>1. DOMAIN Loaded(file) = {r.key : r \in RecordsOf(file)}
    BY DEF Loaded
  <1> SUFFICES ASSUME NEW key \in {r.key : r \in RecordsOf(file)}
               PROVE  MadeUnder(Contents(file)[key], task, key[1], key[2])
    BY <1>1 DEF Contents
  <1> DEFINE I == {i \in 1..Len(file.lines) : file.lines[i].key = key}
  <1>2. /\ Len(file.lines) \in Nat
        /\ \A x : x \in ToSet(file.lines) <=> \E i \in 1..Len(file.lines) : x = file.lines[i]
    BY Members DEF OwnFile
  <1>3. I # {} /\ I \subseteq 1..Len(file.lines)
    BY <1>2 DEF RecordsOf
  <1>4. Loaded(file)[key] = Max(I)
    BY <1>3, Zenon DEF Loaded, SelectLastInSeq
  <1>5. Contents(file)[key] = file.lines[Max(I)].value
    BY <1>1, <1>4 DEF Contents
  <1>6. Max(I) \in I
    <2> HIDE DEF I
    <2> QED
      BY <1>2, <1>3, GreatestIndex
  <1>7. file.lines[Max(I)] \in RecordsOf(file) /\ file.lines[Max(I)].key = key
    BY <1>2, <1>6 DEF RecordsOf, Loadable
  <1> QED
    BY <1>5, <1>7 DEF OwnFile

-----------------------------------------------------------------------------
(* Judgements.                                                             *)

(* _to_fact_verification: an answer that is verified becomes a record that *)
(* cites the evidence it was asked about.                                  *)
LEMMA FactCites ==
  ASSUME NEW p \in DOMAIN Evidence, Evidence[p] # <<>>, NEW raw \in Data["verify"],
         FactOf(raw, p, Evidence[p]) # Rejected
  PROVE  Cites(NLIResultOf(FactOf(raw, p, Evidence[p])))
  <1> DEFINE evidence == Evidence[p]
             anchor == AnchorChunk(raw.quotes, evidence)
             r == NLIResultOf(FactOf(raw, p, evidence))
  <1>1. raw # Rejected /\ Verified(raw, evidence)
    BY DEF FactOf
  <1>2. raw.verdict \in FactLabel /\ raw.quotes \in Seq(ToSet(raw.quotes))
    BY <1>1, AnswersAssumption
  <1>3. r = [atomic_claim_id |-> p, evidence_chunk_id |-> anchor,
             label |-> ToNLILabel[raw.verdict], premise |-> raw.quotes,
             said |-> raw.verdict]
    BY <1>1 DEF FactOf, NLIResultOf
  <1>4. evidence \in Seq(ToSet(evidence)) /\ evidence # <<>>
    BY AnswersAssumption
  <1>5. /\ Len(evidence) \in Nat /\ DOMAIN evidence = 1..Len(evidence)
        /\ \A x : x \in ToSet(evidence) <=> \E i \in 1..Len(evidence) : x = evidence[i]
        /\ 1 \in DOMAIN evidence
    BY <1>4, Members
  <1>6. \A q \in ToSet(raw.quotes) : \E i \in DOMAIN evidence : q \in QuotesIn[evidence[i]]
    BY <1>1 DEF Verified, Holders
  <1>7. anchor \in ToSet(evidence) /\ (raw.quotes # <<>> => raw.quotes[1] \in QuotesIn[anchor])
    <2>1. CASE raw.quotes = <<>>
      BY <2>1, <1>5 DEF AnchorChunk
    <2>2. CASE raw.quotes # <<>>
      <3> DEFINE H == Holders(raw.quotes[1], evidence)
      <3>1. raw.quotes[1] \in ToSet(raw.quotes)
        BY <1>2, <2>2, Members
      <3>2. H \subseteq Nat /\ H # {} /\ H \subseteq DOMAIN evidence
        BY <1>5, <1>6, <3>1 DEF Holders
      <3>3. anchor = evidence[CHOOSE i \in H : \A j \in H : i <= j]
        BY <2>2 DEF AnchorChunk
      <3>4. \A i \in H : raw.quotes[1] \in QuotesIn[evidence[i]]
        BY DEF Holders
      <3> HIDE DEF H, anchor
      <3>5. (CHOOSE i \in H : \A j \in H : i <= j) \in H
        BY <3>2, LeastIndex
      <3> QED
        BY <1>5, <3>2, <3>3, <3>4, <3>5
    <2> QED
      BY <2>1, <2>2
  <1>8. r.label = IF r.said \in FactLabel
                  THEN (CASE r.said = "SUPPORTED" -> "ENTAILMENT"
                          [] r.said = "CONTRADICTED" -> "CONTRADICTION"
                          [] OTHER -> "NEUTRAL")
                  ELSE Alias[r.said]
    BY <1>2, <1>3 DEF ToNLILabel, FactLabel
  <1>9. r.label # "NEUTRAL" => raw.quotes # <<>>
    BY <1>1, <1>2, <1>3 DEF ToNLILabel, FactLabel, Verified
  <1>10. /\ r.evidence_chunk_id = anchor /\ r.atomic_claim_id = p /\ r.premise = raw.quotes
    BY <1>3
  <1> HIDE DEF r, anchor
  <1>11. r.premise # <<>> => r.premise[1] \in Held(r.evidence_chunk_id)
    BY <1>7, <1>10 DEF Held
  <1>12. \A q \in ToSet(r.premise) : \E k \in ToSet(Evidence[r.atomic_claim_id]) : q \in Held(k)
    BY <1>5, <1>6, <1>10 DEF Held
  <1>13. r.evidence_chunk_id \in ToSet(Evidence[r.atomic_claim_id])
    BY <1>7, <1>10
  <1>14. Cites(r)
    BY <1>8, <1>9, <1>10, <1>11, <1>12, <1>13, Zenon DEF Cites
  <1> QED
    BY <1>14 DEF r

(* A list of one record.                                                   *)
LEMMA OneRecord ==
  ASSUME NEW r, Cites(r)
  PROVE  CitingList(<<r>>)
  <1>1. <<r>> \in Seq({r}) /\ ToSet(<<r>>) = {r}
    BY DEF ToSet
  <1> QED
    BY <1>1 DEF CitingList

(* to_nli_results of an LLM session.                                       *)
LEMMA ParsedCites ==
  ASSUME NEW p \in DOMAIN Evidence, Evidence[p] # <<>>, NEW completion,
         completion.data \in Data["verify"],
         Parsed("verify", completion, p) # Rejected
  PROVE  CitingList(Parsed("verify", completion, p))
  <1> DEFINE fact == FactOf(completion.data, p, Evidence[p])
  <1>1. fact # Rejected /\ Parsed("verify", completion, p) = <<NLIResultOf(fact)>>
    BY DEF Parsed
  <1>2. Cites(NLIResultOf(fact))
    BY <1>1, FactCites
  <1> QED
    BY <1>1, <1>2, OneRecord

(* CrossEncoderFactVerifier: each record quotes its own chunk, and the     *)
(* label it is given by way of the other enumeration is the one meant.     *)
LEMMA CrossEncodedCites ==
  ASSUME NEW p \in DOMAIN Evidence, NEW id2label, LabelsKnown(id2label),
         NEW classes \in [DOMAIN Evidence[p] -> DOMAIN id2label]
  PROVE  CitingList(CrossEncoded(p, Evidence[p], classes, id2label))
  <1> DEFINE evidence == Evidence[p]
             list == CrossEncoded(p, evidence, classes, id2label)
             word(i) == id2label[classes[i]]
  <1>1. /\ Len(evidence) \in Nat /\ DOMAIN evidence = 1..Len(evidence)
        /\ \A x : x \in ToSet(evidence) <=> \E i \in 1..Len(evidence) : x = evidence[i]
    BY AnswersAssumption, Members
  <1>2. \A i \in DOMAIN evidence :
          /\ classes[i] \in DOMAIN id2label
          /\ word(i) \in DOMAIN Alias /\ word(i) \notin FactLabel /\ Alias[word(i)] \in NLILabel
    BY AliasAssumption DEF LabelsKnown, Range
  <1>3. \A l \in NLILabel : ToNLILabel[ToFactLabel[l]] = l
    BY DEF ToNLILabel, ToFactLabel, NLILabel, FactLabel
  <1>4. ASSUME NEW i \in DOMAIN evidence
        PROVE  list[i] = [atomic_claim_id |-> p, evidence_chunk_id |-> evidence[i],
                          label |-> Alias[word(i)], premise |-> <<evidence[i]>>,
                          said |-> word(i)]
    <2>1. _build_label_map(id2label)[classes[i]] = Alias[word(i)]
      BY <1>2 DEF _build_label_map
    <2>2. ToNLILabel[ToFactLabel[_build_label_map(id2label)[classes[i]]]] = Alias[word(i)]
      BY <1>2, <1>3, <2>1
    <2>3. list[i] = [atomic_claim_id |-> p, evidence_chunk_id |-> evidence[i],
                     label |-> ToNLILabel[ToFactLabel[_build_label_map(id2label)[classes[i]]]],
                     premise |-> <<evidence[i]>>, said |-> word(i)]
      BY DEF CrossEncoded, NLIResultOf
    <2> QED
      BY <2>2, <2>3
  <1>5. DOMAIN list = DOMAIN evidence
    BY DEF CrossEncoded
  <1> HIDE DEF list
  <1>6. ASSUME NEW i \in DOMAIN evidence
        PROVE  Cites(list[i])
    <2>1. word(i) \notin FactLabel /\ evidence[i] \in ToSet(evidence)
      BY <1>1, <1>2
    <2>2. <<evidence[i]>> # <<>> /\ <<evidence[i]>>[1] = evidence[i]
            /\ ToSet(<<evidence[i]>>) = {evidence[i]}
      BY DEF ToSet
    <2>3. list[i] = [atomic_claim_id |-> p, evidence_chunk_id |-> evidence[i],
                     label |-> Alias[word(i)], premise |-> <<evidence[i]>>,
                     said |-> word(i)]
      BY <1>4, Zenon
    <2>4. /\ list[i].atomic_claim_id = p /\ list[i].evidence_chunk_id = evidence[i]
          /\ list[i].label = Alias[list[i].said] /\ list[i].said \notin FactLabel
          /\ list[i].premise = <<evidence[i]>>
      BY <2>1, <2>3
    <2> QED
      BY <2>1, <2>2, <2>4 DEF Cites, Held
  <1>7. list \in Seq(ToSet(list))
    <2>1. list \in [1..Len(evidence) -> ToSet(list)]
      <3>1. list = [i \in 1..Len(evidence) |-> list[i]]
        BY <1>1 DEF list, CrossEncoded
      <3> QED
        BY <1>1, <1>5, <3>1 DEF ToSet
    <2> QED
      BY <1>1, <2>1
  <1>8. \A r \in ToSet(list) : \E i \in DOMAIN evidence : r = list[i]
    BY <1>5 DEF ToSet
  <1> QED
    BY <1>6, <1>7, <1>8 DEF CitingList, list

-----------------------------------------------------------------------------
(* Steps.                                                                  *)

(* Every row has a prompt, and a fact to verify has evidence.              *)
LEMMA RowsHavePrompts ==
  ASSUME session \in Sessions
  PROVE  /\ session.task \in DOMAIN Rows /\ session.task \in {"build", "verify"}
         /\ Len(Prompts) \in Nat
         /\ \A i \in 1..Len(Prompts) :
              /\ Len(Prompts[i]) \in Nat \ {0}
              /\ session.task = "verify" =>
                   \A j \in 1..Len(Prompts[i]) : Prompts[i][j] \in DOMAIN Evidence
  <1>1. session.task \in DOMAIN Rows /\ session.task \in {"build", "verify"}
    BY AnswersAssumption
  <1>2. /\ Len(Prompts) \in Nat
        /\ \A i \in 1..Len(Prompts) : Prompts[i] \in ToSet(Prompts)
    BY <1>1, AnswersAssumption, Members DEF Prompts
  <1>3. ASSUME NEW i \in 1..Len(Prompts)
        PROVE  /\ Len(Prompts[i]) \in Nat \ {0}
               /\ session.task = "verify" =>
                    \A j \in 1..Len(Prompts[i]) : Prompts[i][j] \in DOMAIN Evidence
    <2> DEFINE prompts == Prompts[i]
    <2>1. prompts \in Seq(ToSet(prompts)) /\ prompts # <<>>
      BY <1>1, <1>2, <1>3, AnswersAssumption DEF Prompts
    <2>2. session.task = "verify" => ToSet(prompts) \subseteq DOMAIN Evidence
      BY <1>2, <1>3, AnswersAssumption DEF Prompts
    <2> HIDE DEF prompts
    <2>3. Len(prompts) \in Nat /\ \A j \in 1..Len(prompts) : prompts[j] \in ToSet(prompts)
      BY <2>1, Members
    <2>4. Len(prompts) # 0
      BY <2>1
    <2> QED
      BY <2>2, <2>3, <2>4 DEF prompts
  <1> QED
    BY <1>1, <1>2, <1>3

(* What there is before anything was judged.                               *)
LEMMA NothingCited ==
  CitingList(<<>>) /\ <<>> \in Seq(ToSet(<<>>)) /\ ToSet(<<>>) = {}
  BY DEF CitingList, ToSet

(* A process that ends or is started loses its memory, and the files stay. *)
LEMMA FreshKeeps ==
  ASSUME process' # "up", FreshMemory(<<>>), OwnCaches'
  PROVE  AnswersInv'
  <1>1. /\ store' = <<>> /\ phase' = "next" /\ inhand' = None
        /\ facts' = <<>> /\ outcomes' = <<>>
    BY DEF FreshMemory
  <1>2. Running' /\ AtHand'
    BY <1>1 DEF Running, AtHand
  <1>3. OwnStore'
    BY <1>1 DEF OwnStore
  <1>4. Citing'
    BY <1>1, NothingCited DEF Citing
  <1> QED
    BY <1>2, <1>3, <1>4 DEF AnswersInv

(* A process begins with what its task's file says, or with nothing.       *)
LEMMA StartKeeps ==
  ASSUME AnswersInv, NEW s \in Sessions, Start(s)
  PROVE  AnswersInv'
  <1>1. cache' = cache /\ session' = s
    BY DEF Start
  <1>2. CASE process' # "up" /\ FreshMemory(<<>>)
    <2>1. OwnCaches'
      BY <1>1 DEF AnswersInv, OwnCaches
    <2> QED
      BY <1>2, <2>1, FreshKeeps
  <1>3. ASSUME NEW cached, FreshMemory(cached), process' = "up",
               s.verifier = "cross_encoder" => LabelsKnown(s.id2label),
               \A key \in DOMAIN cached : MadeUnder(cached[key], s.task, key[1], key[2])
        PROVE  AnswersInv'
    <2>1. /\ store' = cached /\ phase' = "next" /\ inhand' = None /\ row' = 1 /\ step' = 1
          /\ facts' = <<>> /\ outcomes' = <<>>
      BY <1>3 DEF FreshMemory
    <2>2. Running'
      <3>1. session' \in Sessions /\ row' \in Nat \ {0}
        BY <1>1, <2>1
      <3>2. /\ Len(Prompts)' \in Nat
            /\ \A i \in 1..Len(Prompts)' : Len(Prompts'[i]) \in Nat \ {0}
        <4>1. s.task \in DOMAIN Rows
          BY AnswersAssumption
        <4>2. /\ Len(Rows[s.task]) \in Nat
              /\ \A i \in 1..Len(Rows[s.task]) : Rows[s.task][i] \in ToSet(Rows[s.task])
          BY <4>1, AnswersAssumption, Members
        <4>3. \A i \in 1..Len(Rows[s.task]) : Len(Rows[s.task][i]) \in Nat \ {0}
          <5> SUFFICES ASSUME NEW i \in 1..Len(Rows[s.task])
                       PROVE  Len(Rows[s.task][i]) \in Nat \ {0}
            OBVIOUS
          <5> DEFINE prompts == Rows[s.task][i]
          <5>1. prompts \in Seq(ToSet(prompts)) /\ prompts # <<>>
            BY <4>1, <4>2, AnswersAssumption
          <5> HIDE DEF prompts
          <5>2. Len(prompts) \in Nat \ {0}
            BY <5>1
          <5> QED
            BY <5>2 DEF prompts
        <4> QED
          BY <1>1, <4>2, <4>3 DEF Prompts
      <3>3. row' <= Len(Prompts)' => step' \in 1..Len(Prompts'[row'])
        <4> SUFFICES ASSUME 1 <= Len(Prompts)' PROVE 1 \in 1..Len(Prompts'[1])
          BY <2>1
        <4>1. Len(Prompts'[1]) \in Nat \ {0}
          BY <3>2
        <4> QED
          BY <4>1
      <3> QED
        BY <1>1, <1>3, <2>1, <3>1, <3>3 DEF Running
    <2>3. AtHand'
      BY <2>1 DEF AtHand
    <2>4. OwnCaches'
      BY <1>1 DEF AnswersInv, OwnCaches
    <2>5. OwnStore'
      BY <1>1, <1>3, <2>1 DEF OwnStore
    <2>6. Citing'
      BY <2>1, NothingCited DEF Citing
    <2> QED
      BY <2>2, <2>3, <2>4, <2>5, <2>6 DEF AnswersInv
  <1>4. CASE s.verifier = "cross_encoder" /\ process' = "up"
    <2>1. FreshMemory(<<>>) /\ LabelsKnown(s.id2label)
      BY <1>4 DEF Start
    <2>2. \A key \in DOMAIN <<>> : MadeUnder(<<>>[key], s.task, key[1], key[2])
      OBVIOUS
    <2> QED
      BY <1>3, <1>4, <2>1, <2>2
  <1>5. CASE s.verifier # "cross_encoder" /\ process' = "up"
    <2>1. FreshMemory(Contents(cache[s.task])) /\ Loadable(cache[s.task])
      BY <1>5 DEF Start
    <2>2. OwnFile(cache[s.task], s.task)
      BY AnswersAssumption DEF AnswersInv, OwnCaches
    <2>3. \A key \in DOMAIN Contents(cache[s.task]) :
            MadeUnder(Contents(cache[s.task])[key], s.task, key[1], key[2])
      BY <2>1, <2>2, OwnContents
    <2> QED
      BY <1>3, <1>5, <2>1, <2>3
  <1>6. process' # "up" => FreshMemory(<<>>)
    BY DEF Start
  <1> QED
    BY <1>2, <1>4, <1>5, <1>6

(* A row is closed with records that cite its evidence, or as failed, with *)
(* files and a store that are sound.                                       *)
LEMMA CloseKeeps ==
  ASSUME AnswersInv, process = "up", row <= Len(Prompts), NEW outcome, CloseRow(outcome),
         process' = process, session' = session, OwnCaches', OwnStore',
         session.task = "verify" /\ outcome \notin Failures => CitingList(outcome)
  PROVE  AnswersInv'
  <1>1. /\ outcomes' = Append(outcomes, outcome)
        /\ row' = row + 1 /\ step' = 1 /\ phase' = "next" /\ facts' = <<>>
        /\ inhand' = None
    BY DEF CloseRow
  <1>2. Prompts' = Prompts
    BY DEF Prompts
  <1>3. session \in Sessions /\ row \in Nat \ {0}
    BY DEF AnswersInv, Running
  <1>4. Running'
    <2>1. /\ Len(Prompts) \in Nat
          /\ \A i \in 1..Len(Prompts) : Len(Prompts[i]) \in Nat \ {0}
      BY <1>3, RowsHavePrompts
    <2>2. row' \in Nat \ {0} /\ (row' <= Len(Prompts) => step' \in 1..Len(Prompts[row']))
      <3>1. row' \in Nat \ {0}
        BY <1>1, <1>3
      <3>2. row' <= Len(Prompts) => row' \in 1..Len(Prompts)
        BY <2>1, <3>1
      <3>3. row' <= Len(Prompts) => Len(Prompts[row']) \in Nat \ {0}
        BY <2>1, <3>2
      <3> QED
        BY <1>1, <3>1, <3>3
    <2> QED
      BY <1>1, <1>2, <2>2 DEF AnswersInv, Running
  <1>5. AtHand'
    BY <1>1 DEF AtHand
  <1>7. Citing'
    <2> SUFFICES ASSUME session.task = "verify"
                 PROVE  /\ CitingList(<<>>)
                        /\ Append(outcomes, outcome) \in Seq(ToSet(Append(outcomes, outcome)))
                        /\ \A o \in ToSet(Append(outcomes, outcome)) : o \notin Failures => CitingList(o)
      BY <1>1 DEF Citing
    <2>1. outcomes \in Seq(ToSet(outcomes)) /\ \A o \in ToSet(outcomes) : o \notin Failures => CitingList(o)
      BY DEF AnswersInv, Citing
    <2>2. /\ Append(outcomes, outcome) \in Seq(ToSet(Append(outcomes, outcome)))
          /\ ToSet(Append(outcomes, outcome)) = ToSet(outcomes) \union {outcome}
      BY <2>1, AppendMember
    <2> QED
      BY <2>1, <2>2, NothingCited
  <1> QED
    BY <1>4, <1>5, <1>7 DEF AnswersInv

(* Records that cite the evidence join those of the row.                   *)
LEMMA RecordKeeps ==
  ASSUME AnswersInv, process = "up", row <= Len(Prompts), NEW records, Record(records),
         cache' = cache, process' = process, session' = session, store' = store,
         session.task = "verify" => CitingList(records)
  PROVE  AnswersInv'
  <1>1. session.task = "verify" => CitingList(facts \o records)
    <2> SUFFICES ASSUME session.task = "verify"
                 PROVE  CitingList(facts \o records)
      OBVIOUS
    <2>1. CitingList(facts) /\ CitingList(records)
      BY DEF AnswersInv, Citing
    <2>2. /\ facts \o records \in Seq(ToSet(facts \o records))
          /\ ToSet(facts \o records) = ToSet(facts) \union ToSet(records)
      BY <2>1, JoinMembers DEF CitingList
    <2> QED
      BY <2>1, <2>2 DEF CitingList
  <1>2. CASE step = Len(Prompts[row])
    <2>1. CloseRow(facts \o records)
      BY <1>2 DEF Record
    <2>2. OwnCaches' /\ OwnStore'
      BY DEF AnswersInv, OwnCaches, OwnStore
    <2> QED
      BY <1>1, <1>2, <2>1, <2>2, CloseKeeps
  <1>3. CASE step # Len(Prompts[row])
    <2>1. /\ facts' = facts \o records /\ step' = step + 1 /\ phase' = "next"
          /\ inhand' = None /\ row' = row /\ outcomes' = outcomes
      BY <1>3 DEF Record
    <2>2. session \in Sessions /\ row \in Nat \ {0} /\ step \in 1..Len(Prompts[row])
      BY DEF AnswersInv, Running
    <2>3. Len(Prompts[row]) \in Nat
      BY <2>2, RowsHavePrompts
    <2>4. step' \in 1..Len(Prompts[row])
      BY <1>3, <2>1, <2>2, <2>3
    <2>5. Running'
      BY <2>1, <2>4 DEF AnswersInv, Running, Prompts
    <2>6. AtHand'
      BY <2>1 DEF AtHand
    <2>7. OwnCaches' /\ OwnStore'
      BY DEF AnswersInv, OwnCaches, OwnStore
    <2>8. Citing'
      BY <1>1, <2>1 DEF AnswersInv, Citing
    <2> QED
      BY <2>5, <2>6, <2>7, <2>8 DEF AnswersInv
  <1> QED
    BY <1>2, <1>3

(* The cursor of a process within the rows is on a prompt of its task.     *)
LEMMA PromptOfRow ==
  ASSUME AnswersInv, process = "up", row <= Len(Prompts)
  PROVE  /\ session \in Sessions /\ session.task \in {"build", "verify"}
         /\ session.task = "verify" => Prompt \in DOMAIN Evidence
  <1>1. /\ session \in Sessions /\ row \in Nat \ {0} /\ step \in 1..Len(Prompts[row])
    BY DEF AnswersInv, Running
  <1>2. row \in 1..Len(Prompts)
    BY <1>1, RowsHavePrompts
  <1> QED
    BY <1>1, <1>2, RowsHavePrompts DEF Prompt

(* The records of a prompt no structured call is made for.                 *)
LEMMA UnaskedKeeps ==
  ASSUME AnswersInv, PassUnasked \/ CrossEncode
  PROVE  AnswersInv'
  <1>1. CASE PassUnasked
    BY <1>1, RecordKeeps, NothingCited DEF PassUnasked, Up
  <1>2. CASE CrossEncode
    <2>1. /\ process = "up" /\ row <= Len(Prompts) /\ session.verifier = "cross_encoder"
          /\ cache' = cache /\ process' = process /\ session' = session /\ store' = store
      BY <1>2 DEF CrossEncode, Up
    <2>2. PICK classes \in [DOMAIN Evidence[Prompt] -> DOMAIN session.id2label] :
            Record(CrossEncoded(Prompt, Evidence[Prompt], classes, session.id2label))
      BY <1>2 DEF CrossEncode
    <2>3. LabelsKnown(session.id2label)
      BY <2>1 DEF AnswersInv, Running
    <2>4. session.task = "verify" =>
            CitingList(CrossEncoded(Prompt, Evidence[Prompt], classes, session.id2label))
      BY <2>1, <2>3, PromptOfRow, CrossEncodedCites
    <2> QED
      BY <2>1, <2>2, <2>4, RecordKeeps
  <1> QED
    BY <1>1, <1>2

(* The records of an answer, or the row it closes when it is rejected.     *)
LEMMA JudgeKeeps ==
  ASSUME AnswersInv, Judge
  PROVE  AnswersInv'
  <1> DEFINE records == Parsed(session.task, inhand, Prompt)
  <1>1. /\ process = "up" /\ phase = "judge" /\ row <= Len(Prompts)
        /\ cache' = cache /\ process' = process /\ session' = session /\ store' = store
    BY DEF Judge, Up, AnswersInv, Running
  <1>2. inhand.data \in Data[session.task]
    BY <1>1 DEF AnswersInv, AtHand, MadeUnder
  <1>3. session.task = "verify" => Evidence[Prompt] # <<>> /\ Prompt \in DOMAIN Evidence
    BY <1>1, PromptOfRow DEF AnswersInv, Running
  <1>4. session.task = "verify" /\ records # Rejected => CitingList(records)
    BY <1>2, <1>3, ParsedCites
  <1>5. IF records = Rejected THEN CloseRow(Rejected) ELSE Record(records)
    BY DEF Judge
  <1> HIDE DEF records
  <1>6. CASE records = Rejected
    <2>1. OwnCaches' /\ OwnStore'
      BY <1>1 DEF AnswersInv, OwnCaches, OwnStore
    <2> QED
      BY <1>1, <1>5, <1>6, <2>1, CloseKeeps DEF Failures
  <1>7. CASE records # Rejected
    BY <1>1, <1>4, <1>5, <1>7, RecordKeeps
  <1> QED
    BY <1>6, <1>7

(* An unusable answer closes its row, a failed call also ends a build.     *)
LEMMA FailureKeeps ==
  ASSUME AnswersInv, Unusable \/ CallFails
  PROVE  AnswersInv'
  <1>1. /\ process = "up" /\ phase = "ask" /\ row <= Len(Prompts)
        /\ cache' = cache /\ session' = session
    BY DEF Unusable, CallFails, Up, AnswersInv, Running
  <1>2. CASE CloseRow(Rejected) /\ process' = process /\ store' = store
    <2>1. OwnCaches' /\ OwnStore'
      BY <1>1, <1>2 DEF AnswersInv, OwnCaches, OwnStore
    <2> QED
      BY <1>1, <1>2, <2>1, CloseKeeps DEF Failures
  <1>3. CASE process' = "aborted" /\ FreshMemory(<<>>)
    <2>1. OwnCaches'
      BY <1>1 DEF AnswersInv, OwnCaches
    <2> QED
      BY <1>3, <2>1, FreshKeeps
  <1> QED
    BY <1>2, <1>3 DEF Unusable, CallFails, RaiseValueError, RaiseError

(* What the cursor and the records rest on stays when only the completion  *)
(* in hand, the store and the files change.                                *)
LEMMA CursorKept ==
  ASSUME AnswersInv, process = "up", process' = process, session' = session, row' = row,
         step' = step, facts' = facts, outcomes' = outcomes,
         phase' \in {"next", "ask", "put", "judge"},
         phase' # "next" => row <= Len(Prompts),
         phase' # "next" /\ session.task = "verify" => Evidence[Prompt] # <<>>
  PROVE  Running' /\ Citing'
  <1>1. Running'
    BY DEF AnswersInv, Running, Prompts, Prompt
  <1>2. Citing'
    BY DEF AnswersInv, Citing
  <1> QED
    BY <1>1, <1>2

(* What the store holds under a prompt's key was made for its session.     *)
LEMMA ConsultKeeps ==
  ASSUME AnswersInv, ConsultCache
  PROVE  AnswersInv'
  <1>1. /\ process = "up" /\ phase = "next" /\ row <= Len(Prompts)
        /\ session.task = "verify" => Evidence[Prompt] # <<>>
        /\ cache' = cache /\ process' = process /\ session' = session /\ store' = store
        /\ row' = row /\ step' = step /\ facts' = facts /\ outcomes' = outcomes
    BY DEF ConsultCache, Up, Unasked
  <1>2. \/ phase' = "judge" /\ Key \in DOMAIN store /\ inhand' = store[Key]
        \/ phase' = "ask" /\ inhand' = inhand
    BY DEF ConsultCache
  <1>3. Running' /\ Citing'
    BY <1>1, <1>2, CursorKept
  <1>4. OwnCaches' /\ OwnStore'
    BY <1>1 DEF AnswersInv, OwnCaches, OwnStore
  <1>5. AtHand'
    <2>1. Key[1] = session.config /\ Key[2] = session.schema_version
      BY DEF Key, _cache_key
    <2>2. Key \in DOMAIN store =>
            MadeUnder(store[Key], session.task, session.config, session.schema_version)
      BY <2>1 DEF AnswersInv, OwnStore
    <2>3. inhand = None
      BY <1>1 DEF AnswersInv, AtHand
    <2> QED
      BY <1>1, <1>2, <2>2, <2>3 DEF AtHand
  <1> QED
    BY <1>3, <1>4, <1>5 DEF AnswersInv

(* An answer is stamped with the session that asked.                       *)
LEMMA AskKeeps ==
  ASSUME AnswersInv, Answered \/ Retry
  PROVE  AnswersInv'
  <1>1. /\ process = "up" /\ phase = "ask" /\ row <= Len(Prompts)
        /\ session.task = "verify" => Evidence[Prompt] # <<>>
        /\ cache' = cache /\ process' = process /\ session' = session /\ store' = store
        /\ row' = row /\ step' = step /\ facts' = facts /\ outcomes' = outcomes
    BY DEF Answered, Retry, Up, AnswersInv, Running
  <1>2. \/ /\ phase' = "put"
           /\ MadeUnder(inhand', session.task, session.config, session.schema_version)
        \/ phase' = "ask" /\ inhand' = inhand
    BY <1>1 DEF Answered, Retry, MadeUnder
  <1>3. Running' /\ Citing'
    BY <1>1, <1>2, CursorKept
  <1>4. OwnCaches' /\ OwnStore'
    BY <1>1 DEF AnswersInv, OwnCaches, OwnStore
  <1>5. AtHand'
    BY <1>1, <1>2 DEF AnswersInv, AtHand
  <1> QED
    BY <1>3, <1>4, <1>5 DEF AnswersInv

(* JsonlStructuredLLMCache.put: the completion is filed under the key it   *)
(* was asked under, whether or not the line is cut short.                  *)
LEMMA FiledUnderKey ==
  ASSUME AnswersInv, process = "up", phase = "put",
         NEW file \in {Written(cache[session.task], [key |-> Key, value |-> inhand])}
                        \union CutShort(cache[session.task], [key |-> Key, value |-> inhand]),
         cache' = [cache EXCEPT ![session.task] = file]
  PROVE  /\ MadeUnder(inhand, session.task, Key[1], Key[2])
         /\ OwnCaches'
  <1>1. Key[1] = session.config /\ Key[2] = session.schema_version
    BY DEF Key, _cache_key
  <1>2. MadeUnder(inhand, session.task, Key[1], Key[2])
    BY <1>1 DEF AnswersInv, AtHand
  <1>3. session.task \in DOMAIN Rows
    BY AnswersAssumption DEF AnswersInv, Running
  <1>4. OwnFile(cache[session.task], session.task)
    BY <1>3 DEF AnswersInv, OwnCaches
  <1> DEFINE record == [key |-> Key, value |-> inhand]
  <1>5. MadeUnder(record.value, session.task, record.key[1], record.key[2])
    BY <1>2
  <1> HIDE DEF record
  <1>6. file \in {Written(cache[session.task], record)} \union CutShort(cache[session.task], record)
    BY DEF record
  <1>7. OwnFile(file, session.task)
    BY <1>4, <1>5, <1>6, OwnAppend
  <1>8. OwnCaches'
    BY <1>3, <1>7 DEF AnswersInv, OwnCaches
  <1> QED
    BY <1>2, <1>8

(* What put() does: the answer is in the store and in the file, or the     *)
(* file is cut short, and the error ends a build, or a row of a study.     *)
LEMMA PutCases ==
  ASSUME AnswersInv, Put
  PROVE  /\ process = "up" /\ phase = "put" /\ row <= Len(Prompts) /\ session' = session
         /\ session.task = "verify" => Evidence[Prompt] # <<>>
         /\ \E file \in {Written(cache[session.task], [key |-> Key, value |-> inhand])}
                          \union CutShort(cache[session.task], [key |-> Key, value |-> inhand]) :
              cache' = [cache EXCEPT ![session.task] = file]
         /\ \/ process' = "aborted" /\ FreshMemory(<<>>)
            \/ /\ process' = process /\ store' = Filed(store, Key, inhand)
               /\ \E file \in CutShort(cache[session.task], [key |-> Key, value |-> inhand]) :
                    cache' = [cache EXCEPT ![session.task] = file]
               /\ CloseRow(Unsaved)
            \/ /\ process' = process /\ store' = Filed(store, Key, inhand)
               /\ cache' = [cache EXCEPT ![session.task] =
                              Written(cache[session.task], [key |-> Key, value |-> inhand])]
               /\ phase' = "judge" /\ inhand' = inhand
               /\ row' = row /\ step' = step /\ facts' = facts /\ outcomes' = outcomes
  BY DEF Put, Up, RaiseError, AnswersInv, Running

(* The answer goes into the store and the file under its own key.          *)
LEMMA PutKeeps ==
  ASSUME AnswersInv, Put
  PROVE  AnswersInv'
  <1>1. /\ process = "up" /\ phase = "put" /\ row <= Len(Prompts) /\ session' = session
        /\ session.task = "verify" => Evidence[Prompt] # <<>>
    BY PutCases
  <1>2. MadeUnder(inhand, session.task, Key[1], Key[2]) /\ OwnCaches'
    BY <1>1, PutCases, FiledUnderKey
  <1>3. CASE process' = "aborted" /\ FreshMemory(<<>>)
    BY <1>2, <1>3, FreshKeeps
  <1>4. ASSUME store' = Filed(store, Key, inhand)
        PROVE  OwnStore'
    BY <1>1, <1>2, <1>4 DEF AnswersInv, OwnStore, Filed
  <1>5. CASE process' = process /\ store' = Filed(store, Key, inhand) /\ CloseRow(Unsaved)
    BY <1>1, <1>2, <1>4, <1>5, CloseKeeps DEF Failures
  <1>6. CASE /\ process' = process /\ store' = Filed(store, Key, inhand)
             /\ phase' = "judge" /\ inhand' = inhand
             /\ row' = row /\ step' = step /\ facts' = facts /\ outcomes' = outcomes
    <2>1. Running' /\ Citing'
      BY <1>1, <1>6, CursorKept
    <2>2. AtHand'
      BY <1>1, <1>6 DEF AnswersInv, AtHand
    <2> QED
      BY <1>2, <1>4, <1>6, <2>1, <2>2 DEF AnswersInv
  <1> QED
    BY <1>3, <1>5, <1>6, PutCases

(* A crash, between two steps or within the write.                         *)
LEMMA CrashKeeps ==
  ASSUME AnswersInv, Crash
  PROVE  AnswersInv'
  <1>1. process = "up" /\ process' = "down" /\ FreshMemory(<<>>) /\ session' = session
    BY DEF Crash
  <1>2. OwnCaches'
    <2>1. CASE cache' = cache
      BY <2>1 DEF AnswersInv, OwnCaches
    <2>2. CASE cache' # cache
      <3>1. phase = "put"
        BY <2>2 DEF Crash
      <3>2. PICK file \in CutShort(cache[session.task], [key |-> Key, value |-> inhand]) :
              cache' = [cache EXCEPT ![session.task] = file]
        BY <2>2 DEF Crash
      <3> QED
        BY <1>1, <3>1, <3>2, FiledUnderKey
    <2> QED
      BY <2>1, <2>2
  <1> QED
    BY <1>1, <1>2, FreshKeeps

(* The end of a session, and a step that changes nothing.                  *)
LEMMA FinishKeeps ==
  ASSUME AnswersInv, Finish \/ UNCHANGED vars
  PROVE  AnswersInv'
  <1>1. /\ process' \in {process, "done"}
        /\ cache' = cache /\ session' = session /\ store' = store /\ row' = row /\ step' = step
        /\ phase' = phase /\ inhand' = inhand /\ facts' = facts /\ outcomes' = outcomes
    BY DEF Finish, vars, memory
  <1>2. Running'
    BY <1>1 DEF AnswersInv, Running, Prompts, Prompt
  <1>3. AtHand' /\ OwnCaches' /\ OwnStore' /\ Citing'
    BY <1>1 DEF AnswersInv, AtHand, OwnCaches, OwnStore, Citing
  <1> QED
    BY <1>2, <1>3 DEF AnswersInv

-----------------------------------------------------------------------------
(* Every reachable state has AnswersInv.                                   *)
THEOREM AnswersInvariant == Spec => []AnswersInv
  <1>1. Init => AnswersInv
    <2> SUFFICES ASSUME Init PROVE AnswersInv
      OBVIOUS
    <2>1. Running /\ AtHand /\ OwnStore
      BY DEF Init, Running, AtHand, OwnStore
    <2>2. OwnFile(EmptyFile, "build") /\ OwnFile(EmptyFile, "verify")
      BY NothingCited DEF OwnFile, EmptyFile, RecordsOf
    <2>3. OwnCaches
      BY <2>2, AnswersAssumption DEF Init, OwnCaches
    <2>4. Citing
      BY NothingCited DEF Init, Citing
    <2> QED
      BY <2>1, <2>3, <2>4 DEF AnswersInv
  <1>2. AnswersInv /\ [Next]_vars => AnswersInv'
    <2> SUFFICES ASSUME AnswersInv, [Next]_vars PROVE AnswersInv'
      OBVIOUS
    <2>1. CASE \E s \in Sessions : Start(s)
      BY <2>1, StartKeeps
    <2>2. CASE PassUnasked \/ CrossEncode
      BY <2>2, UnaskedKeeps
    <2>3. CASE ConsultCache
      BY <2>3, ConsultKeeps
    <2>4. CASE Answered \/ Retry
      BY <2>4, AskKeeps
    <2>5. CASE Unusable \/ CallFails
      BY <2>5, FailureKeeps
    <2>6. CASE Put
      BY <2>6, PutKeeps
    <2>7. CASE Judge
      BY <2>7, JudgeKeeps
    <2>8. CASE Finish \/ UNCHANGED vars
      BY <2>8, FinishKeeps
    <2>9. CASE Crash
      BY <2>9, CrashKeeps
    <2> QED
      BY <2>1, <2>2, <2>3, <2>4, <2>5, <2>6, <2>7, <2>8, <2>9 DEF Next
  <1> QED
    BY <1>1, <1>2, PTL DEF Spec

(* CachingStructuredLLMClient: no completion made under another model      *)
(* configuration or schema version is read back, even from a shared file   *)
(* and after any crash.                                                    *)
THEOREM OwnAnswersAlways == Spec => []OwnAnswersOnly
  <1>1. AnswersInv => OwnAnswersOnly
    BY DEF AnswersInv, Running, AtHand, MadeUnder, OwnAnswersOnly
  <1> QED
    BY <1>1, AnswersInvariant, PTL

(* fact_verification, nli: every judgement kept cites its claim's own      *)
(* evidence, and its label means what the judge said.                      *)
THEOREM JudgementsAlwaysCite == Spec => []JudgementsCiteEvidence
  <1>1. AnswersInv => JudgementsCiteEvidence
    <2>1. ASSUME AnswersInv, session.task = "verify", NEW r \in Judged
          PROVE  Cites(r)
      <3>1. CASE r \in ToSet(facts)
        BY <2>1, <3>1 DEF AnswersInv, Citing, CitingList
      <3>2. CASE r \notin ToSet(facts)
        <4>1. PICK i \in DOMAIN outcomes : outcomes[i] \notin Failures /\ r \in ToSet(outcomes[i])
          BY <2>1, <3>2 DEF Judged
        <4>2. outcomes[i] \in ToSet(outcomes)
          BY DEF ToSet
        <4> QED
          BY <2>1, <4>1, <4>2 DEF AnswersInv, Citing, CitingList
      <3> QED
        BY <3>1, <3>2
    <2> QED
      BY <2>1, Zenon DEF JudgementsCiteEvidence, Cites, Held
  <1> QED
    BY <1>1, AnswersInvariant, PTL
-----------------------------------------------------------------------------
(* What a file makes of a row.                                             *)

(* One more prompt of a row, after the records of those before it.         *)
Joined(before, made) == IF Rejected \in {before, made} THEN Rejected ELSE before \o made

(* The records of a row are made one prompt after the other.               *)
LEMMA RecordsUnfold ==
  ASSUME NEW held, NEW s, NEW prompts, Len(prompts) \in Nat
  PROVE  /\ RecordsMade(held, s, prompts)[0] = <<>>
         /\ \A n \in 1..Len(prompts) :
              RecordsMade(held, s, prompts)[n] =
                Joined(RecordsMade(held, s, prompts)[n - 1], Made(held, s, prompts[n]))
  <1> DEFINE L == Len(prompts)
             made(n) == Made(held, s, prompts[n])
             body(g, m) == [n \in 0..m |-> IF n = 0 THEN <<>> ELSE Joined(g[n - 1], made(n))]
             without == {m \in 0..L : ~ \E g : g = body(g, m)}
             first == CHOOSE g : g = body(g, L)
  <1>1. RecordsMade(held, s, prompts) = first
    BY DEF RecordsMade, Joined
  <1> HIDE DEF made
  <1>2. \E g : g = body(g, 0)
    <2> DEFINE h == [n \in 0..0 |-> <<>>]
    <2>1. h = body(h, 0)
      OBVIOUS
    <2> QED
      BY <2>1
  <1>3. ASSUME NEW m \in Nat \ {0}, NEW g, g = body(g, m - 1)
        PROVE  \E h : h = body(h, m)
    <2> DEFINE h == [n \in 0..m |-> IF n = m THEN Joined(g[m - 1], made(m)) ELSE g[n]]
               b == [n \in 0..m |-> IF n = 0 THEN <<>> ELSE Joined(h[n - 1], made(n))]
    <2>1. ASSUME NEW n \in 0..m
          PROVE  h[n] = b[n]
      <3>1. CASE n = m
        <4>1. m - 1 \in 0..m /\ m - 1 # m /\ m # 0
          OBVIOUS
        <4>2. h[m - 1] = g[m - 1]
          BY <4>1
        <4> QED
          BY <3>1, <4>1, <4>2
      <3>2. CASE n # m
        <4>1. n \in 0..(m - 1) /\ (n # 0 => n - 1 \in 0..m /\ n - 1 # m)
          BY <3>2
        <4>2. g[n] = IF n = 0 THEN <<>> ELSE Joined(g[n - 1], made(n))
          BY <1>3, <4>1
        <4>3. h[n] = g[n] /\ (n # 0 => h[n - 1] = g[n - 1])
          BY <3>2, <4>1
        <4> QED
          BY <4>2, <4>3
      <3> QED
        BY <3>1, <3>2
    <2>2. h = b
      BY <2>1
    <2>3. h = body(h, m)
      BY <2>2
    <2> HIDE DEF h
    <2> QED
      BY <2>3
  <1>4. ASSUME without # {} PROVE FALSE
    <2>1. without \subseteq Nat
      OBVIOUS
    <2>2. PICK m \in without : \A k \in without : m <= k
      BY <1>4, <2>1, LeastIndex
    <2>3. m \in Nat /\ m <= L /\ ~ \E g : g = body(g, m)
      OBVIOUS
    <2>4. m # 0
      BY <1>2, <2>3
    <2>5. m - 1 \in 0..L /\ ~ m <= m - 1
      BY <2>3, <2>4
    <2>6. \E g : g = body(g, m - 1)
      BY <2>2, <2>5
    <2> QED
      BY <1>3, <2>3, <2>4, <2>6
  <1>5. first = body(first, L)
    <2>1. \E g : g = body(g, L)
      BY <1>4
    <2> QED
      BY <2>1
  <1> HIDE DEF first
  <1>6. first[0] = <<>> /\ \A n \in 1..L : first[n] = Joined(first[n - 1], made(n))
    BY <1>5
  <1> QED
    BY <1>1, <1>6 DEF made

(* A prompt without usable records leaves its row without any.             *)
LEMMA OneRejected ==
  ASSUME NEW held, NEW s, NEW prompts, Len(prompts) \in Nat,
         NEW m \in 1..Len(prompts), NEW j \in 1..m, Made(held, s, prompts[j]) = Rejected
  PROVE  RecordsMade(held, s, prompts)[m] = Rejected
  <1> DEFINE all == RecordsMade(held, s, prompts)
             kept == {n \in j..m : all[n] # Rejected}
  <1>1. \A n \in 1..Len(prompts) : all[n] = Joined(all[n - 1], Made(held, s, prompts[n]))
    BY RecordsUnfold
  <1> HIDE DEF all
  <1>2. ASSUME kept # {} PROVE FALSE
    <2>1. kept \subseteq Nat
      OBVIOUS
    <2>2. PICK n \in kept : \A k \in kept : n <= k
      BY <1>2, <2>1, LeastIndex
    <2>3. n \in 1..Len(prompts) /\ n \in j..m /\ all[n] # Rejected
      OBVIOUS
    <2>4. n = j \/ all[n - 1] = Rejected
      <3> SUFFICES ASSUME n # j PROVE all[n - 1] = Rejected
        OBVIOUS
      <3>1. n - 1 \in j..m /\ ~ n <= n - 1
        BY <2>3
      <3> QED
        BY <2>2, <3>1
    <2> QED
      BY <1>1, <2>3, <2>4 DEF Joined
  <1> QED
    BY <1>2 DEF all

(* Files that make the same of each prompt make the same of the row.       *)
LEMMA SameRecords ==
  ASSUME NEW held, NEW other, NEW s, NEW prompts, Len(prompts) \in Nat,
         NEW m \in 0..Len(prompts),
         \A j \in 1..m : Made(other, s, prompts[j]) = Made(held, s, prompts[j])
  PROVE  RecordsMade(other, s, prompts)[m] = RecordsMade(held, s, prompts)[m]
  <1> DEFINE one == RecordsMade(held, s, prompts)
             two == RecordsMade(other, s, prompts)
             apart == {n \in 0..m : two[n] # one[n]}
  <1>1. /\ one[0] = <<>> /\ two[0] = <<>>
        /\ \A n \in 1..Len(prompts) : one[n] = Joined(one[n - 1], Made(held, s, prompts[n]))
        /\ \A n \in 1..Len(prompts) : two[n] = Joined(two[n - 1], Made(other, s, prompts[n]))
    BY RecordsUnfold
  <1> HIDE DEF one, two
  <1>2. ASSUME apart # {} PROVE FALSE
    <2>1. apart \subseteq Nat
      OBVIOUS
    <2>2. PICK n \in apart : \A k \in apart : n <= k
      BY <1>2, <2>1, LeastIndex
    <2>3. n \in 0..m /\ two[n] # one[n]
      OBVIOUS
    <2>4. n # 0
      BY <1>1, <2>3
    <2>5. n - 1 \in 0..m /\ ~ n <= n - 1 /\ n \in 1..m /\ n \in 1..Len(prompts)
      BY <2>3, <2>4
    <2>6. two[n - 1] = one[n - 1]
      BY <2>2, <2>5
    <2> QED
      BY <1>1, <2>3, <2>5, <2>6
  <1> QED
    BY <1>2 DEF one, two


(* What is filed for a prompt changes nothing for another.                 *)
LEMMA FiledForOne ==
  ASSUME NEW held, NEW s, NEW p, NEW q, NEW value, q # p
  PROVE  Made(Filed(held, _cache_key(s, p), value), s, q) = Made(held, s, q)
  <1>1. _cache_key(s, q) # _cache_key(s, p)
    BY DEF _cache_key
  <1> QED
    BY <1>1 DEF Made, Filed

(* An answer to a prompt that had none cannot change what a row has, unless *)
(* the row was rejected and has the prompt.                                *)
LEMMA FiledForRow ==
  ASSUME NEW held, NEW s, NEW p, NEW value, NEW prompts, Len(prompts) \in Nat,
         _cache_key(s, p) \notin DOMAIN held, ~Unasked(s, p),
         NEW m \in 0..Len(prompts)
  PROVE  LET grown == Filed(held, _cache_key(s, p), value)
         IN  \/ RecordsMade(grown, s, prompts)[m] = RecordsMade(held, s, prompts)[m]
             \/ /\ RecordsMade(held, s, prompts)[m] = Rejected
                /\ \E j \in 1..m : prompts[j] = p
  <1> DEFINE grown == Filed(held, _cache_key(s, p), value)
  <1>1. CASE \E j \in 1..m : prompts[j] = p
    <2>1. PICK j \in 1..m : prompts[j] = p
      BY <1>1
    <2>2. Made(held, s, prompts[j]) = Rejected
      BY <2>1 DEF Made
    <2>3. m \in 1..Len(prompts)
      BY <2>1
    <2>4. RecordsMade(held, s, prompts)[m] = Rejected
      BY <2>1, <2>2, <2>3, OneRejected
    <2> QED
      BY <1>1, <2>4
  <1>2. CASE ~ \E j \in 1..m : prompts[j] = p
    <2>1. \A j \in 1..m : Made(grown, s, prompts[j]) = Made(held, s, prompts[j])
      BY <1>2, FiledForOne
    <2> HIDE DEF grown
    <2>2. RecordsMade(grown, s, prompts)[m] = RecordsMade(held, s, prompts)[m]
      BY <2>1, SameRecords
    <2> QED
      BY <2>2 DEF grown
  <1> QED
    BY <1>1, <1>2

(* JsonlStructuredLLMCache: a line written whole to a file that loads, and *)
(* will load, adds its entry to what is loaded.                            *)
LEMMA WrittenContents ==
  ASSUME NEW file, file.lines \in Seq(ToSet(file.lines)),
         ~file.ended => file.lines # <<>>,
         NEW key, NEW value,
         Loadable(Written(file, [key |-> key, value |-> value]))
  PROVE  /\ Loadable(file)
         /\ Contents(Written(file, [key |-> key, value |-> value])) =
              Filed(Contents(file), key, value)
  <1> DEFINE record == [key |-> key, value |-> value]
             new == Written(file, record)
             L == Len(file.lines)
  <1>1. /\ L \in Nat /\ DOMAIN file.lines = 1..L
        /\ \A x : x \in ToSet(file.lines) <=> \E i \in 1..L : x = file.lines[i]
    BY Members
  <1>2. new.lines = LastLineWith(file, record)
    BY DEF Written
  <1>3. file.ended
    <2> SUFFICES ASSUME ~file.ended PROVE FALSE
      OBVIOUS
    <2>1. new.lines = [file.lines EXCEPT ![L] = Malformed] /\ L \in 1..L
      <3>1. L # 0
        OBVIOUS
      <3> QED
        BY <1>1, <1>2, <3>1 DEF LastLineWith
    <2>2. L \in DOMAIN new.lines /\ new.lines[L] = Malformed
      BY <1>1, <2>1
    <2> QED
      BY <2>2 DEF Loadable, ToSet
  <1>4. /\ new.lines = Append(file.lines, record)
        /\ ToSet(new.lines) = ToSet(file.lines) \union {record}
    BY <1>2, <1>3, AppendMember DEF LastLineWith
  <1>12. Loadable(new)
    OBVIOUS
  <1> HIDE DEF new, record
  <1>5. /\ Len(new.lines) = L + 1 /\ new.lines[L + 1] = record
        /\ \A i \in 1..L : new.lines[i] = file.lines[i]
    <2>1. Append(file.lines, record) \in Seq(ToSet(file.lines) \union {record})
      OBVIOUS
    <2> QED
      BY <1>1, <1>4, <2>1
  <1> HIDE DEF L
  <1>6. Loadable(file) /\ record # Malformed
    BY <1>4, <1>12 DEF Loadable
  <1>7. RecordsOf(new) = RecordsOf(file) \union {record} /\ RecordsOf(file) = ToSet(file.lines)
    BY <1>4, <1>6 DEF RecordsOf, Loadable
  <1>8. record.key = key /\ record.value = value
    BY DEF record
  <1>9. DOMAIN Contents(new) = DOMAIN Contents(file) \union {key}
    <2>1. /\ DOMAIN Contents(new) = {r.key : r \in RecordsOf(new)}
          /\ DOMAIN Contents(file) = {r.key : r \in RecordsOf(file)}
      BY DEF Contents, Loaded
    <2> QED
      BY <1>7, <1>8, <2>1
  <1>10. ASSUME NEW k \in DOMAIN Contents(new)
         PROVE  Contents(new)[k] = IF k = key THEN value ELSE Contents(file)[k]
    <2> DEFINE I == {i \in 1..L : file.lines[i].key = k}
               J == {i \in 1..(L + 1) : new.lines[i].key = k}
    <2>1. k \in {r.key : r \in RecordsOf(new)} /\ Contents(new)[k] = new.lines[Loaded(new)[k]].value
      BY DEF Contents, Loaded
    <2>2. PICK r \in RecordsOf(new) : r.key = k
      BY <2>1
    <2>3. J # {}
      <3>1. CASE r = record
        <4>1. L + 1 \in 1..(L + 1) /\ new.lines[L + 1].key = k
          BY <1>1, <1>5, <2>2, <3>1
        <4> QED
          BY <4>1
      <3>2. CASE r # record
        <4>1. PICK i \in 1..L : r = file.lines[i]
          BY <1>1, <1>7, <3>2
        <4>2. i \in 1..(L + 1)
          BY <1>1
        <4>3. new.lines[i].key = k
          BY <1>5, <2>2, <4>1
        <4> QED
          BY <4>2, <4>3
      <3> QED
        BY <3>1, <3>2
    <2>4. Loaded(new)[k] = Max(J)
      BY <1>5, <2>1, <2>3, Zenon DEF Loaded, SelectLastInSeq
    <2>5. CASE k = key
      <3>1. L + 1 \in J /\ \A i \in J : L + 1 >= i
        BY <1>1, <1>5, <1>8, <2>5
      <3>2. Max(J) = L + 1
        <4>1. J \subseteq Nat /\ L + 1 \in Nat
          BY <1>1
        <4> DEFINE top == L + 1
        <4>2. top \in J /\ top \in Nat /\ \A i \in J : top >= i
          BY <3>1, <4>1
        <4> HIDE DEF J, top
        <4>3. Max(J) \in J /\ \A i \in J : Max(J) >= i
          BY <4>2, Zenon DEF Max
        <4>4. Max(J) >= top /\ top >= Max(J) /\ Max(J) \in Nat
          BY <4>1, <4>2, <4>3
        <4>5. Max(J) = top
          BY <4>2, <4>4
        <4> QED
          BY <4>5 DEF top
      <3> QED
        BY <1>5, <1>8, <2>1, <2>4, <2>5, <3>2
    <2>6. CASE k # key
      <3>1. J = I
        <4>1. new.lines[L + 1].key # k
          BY <1>5, <1>8, <2>6
        <4>2. \A i \in 1..(L + 1) : i = L + 1 \/ i \in 1..L
          BY <1>1
        <4>3. \A i \in 1..L : i \in 1..(L + 1)
          BY <1>1
        <4>4. \A i \in 1..L : new.lines[i].key = file.lines[i].key
          BY <1>5
        <4> QED
          BY <4>1, <4>2, <4>3, <4>4, Zenon
      <3>2. k \in {x.key : x \in RecordsOf(file)}
        BY <1>7, <1>8, <2>2, <2>6
      <3>3. Loaded(file)[k] = Max(I)
        BY <2>3, <3>1, <3>2, Zenon DEF Loaded, SelectLastInSeq, L
      <3>4. Contents(file)[k] = file.lines[Max(I)].value
        BY <3>2, <3>3 DEF Contents, Loaded
      <3>5. Max(I) \in I /\ I \subseteq 1..L
        <4>1. I \subseteq 1..L /\ I # {}
          BY <2>3, <3>1
        <4> HIDE DEF I
        <4> QED
          BY <1>1, <4>1, GreatestIndex
      <3>6. new.lines[Max(I)] = file.lines[Max(I)]
        BY <1>5, <3>5
      <3> HIDE DEF I, J
      <3> QED
        BY <2>1, <2>4, <2>6, <3>1, <3>4, <3>6
    <2> QED
      BY <2>5, <2>6
  <1>11. Contents(new) = Filed(Contents(file), key, value)
    <2>1. Contents(new) = [k \in DOMAIN Contents(new) |-> Contents(new)[k]]
      BY DEF Contents
    <2> QED
      BY <1>9, <1>10, <2>1 DEF Filed
  <1> QED
    BY <1>6, <1>11 DEF new, record

(* A line cut short leaves what was loaded, or adds its whole entry, or    *)
(* spoils the file.                                                        *)
LEMMA CutContents ==
  ASSUME NEW file, file.lines \in Seq(ToSet(file.lines)),
         ~file.ended => file.lines # <<>>,
         NEW key, NEW value,
         NEW new \in CutShort(file, [key |-> key, value |-> value]), Loadable(new)
  PROVE  /\ Loadable(file)
         /\ Contents(new) \in {Contents(file), Filed(Contents(file), key, value)}
  <1> DEFINE record == [key |-> key, value |-> value]
             whole == Written(file, record)
  <1> HIDE DEF record
  <1>1. CASE new = file
    BY <1>1
  <1>2. CASE new.lines = LastLineWith(file, record)
    <2>1. new.lines = whole.lines
      BY <1>2 DEF Written
    <2> HIDE DEF whole
    <2>2. Loadable(whole) /\ Contents(new) = Contents(whole)
      BY <2>1 DEF Loadable, Contents, Loaded, RecordsOf
    <2>3. Loadable(file) /\ Contents(whole) = Filed(Contents(file), key, value)
      BY <2>2, WrittenContents DEF whole, record
    <2> QED
      BY <2>2, <2>3
  <1>3. CASE new.lines = LastLineWith(file, Malformed)
    <2>1. Malformed \in ToSet(new.lines)
      <3>1. CASE file.ended
        BY <1>3, <3>1, AppendMember DEF LastLineWith
      <3>2. CASE ~file.ended
        <4>1. /\ Len(file.lines) \in DOMAIN file.lines
              /\ new.lines = [file.lines EXCEPT ![Len(file.lines)] = Malformed]
          BY <1>3, <3>2 DEF LastLineWith
        <4>2. Len(file.lines) \in DOMAIN new.lines /\ new.lines[Len(file.lines)] = Malformed
          BY <4>1
        <4> QED
          BY <4>2 DEF ToSet
      <3> QED
        BY <3>1, <3>2
    <2> QED
      BY <2>1 DEF Loadable
  <1> QED
    BY <1>1, <1>2, <1>3 DEF CutShort, record

-----------------------------------------------------------------------------
(* Replay.                                                                 *)

(* A file that does not end its last line has one.                         *)
Whole == \A task \in DOMAIN Rows : ~cache[task].ended => cache[task].lines # <<>>

(* A row is what the store makes of it, but for a rejection that a later   *)
(* row may have repaired, or an answer that could not be written.          *)
RowRemade(held, s, i, outcome) ==
  LET rows == Rows[s.task]
  IN  \/ outcome = RecordsMade(held, s, rows[i])[Len(rows[i])]
      \/ /\ outcome = Rejected
         /\ \E j \in (i + 1)..Len(rows) : ToSet(rows[i]) \intersect ToSet(rows[j]) # {}
      \/ outcome = Unsaved

(* The key of a row's prompt, and the row that could not write it: every   *)
(* row before that asks the same has failed.                               *)
AskedIn(key, i) == \E p \in ToSet(Prompts[i]) : key = _cache_key(session, p)

LostIn(key, j) ==
  /\ outcomes[j] = Unsaved /\ AskedIn(key, j)
  /\ \A i \in 1..(j - 1) : AskedIn(key, i) => outcomes[i] \in Failures

(* What the file says is in the store; what else the store has was lost in *)
(* a row behind.                                                           *)
SavedOrLost ==
  LET saved == Contents(cache[session.task])
  IN  /\ \A key \in DOMAIN saved : key \in DOMAIN store /\ saved[key] = store[key]
      /\ \A key \in DOMAIN store \ DOMAIN saved : \E j \in 1..Len(outcomes) : LostIn(key, j)

(* The store is the file, if it loads, but for what was lost, and makes    *)
(* the rows behind.                                                        *)
Remade ==
  (process \in {"up", "done"} /\ session.verifier = "llm") =>
    /\ session \in Sessions
    /\ Loadable(cache[session.task]) => SavedOrLost
    /\ outcomes \in Seq(ToSet(outcomes))
    /\ row = Len(outcomes) + 1 /\ row <= Len(Prompts) + 1
    /\ \A i \in 1..Len(outcomes) : RowRemade(store, session, i, outcomes[i])

(* It makes the records so far of the row the cursor is in; a prompt is    *)
(* asked because the store has no answer, and judged by the one it has.    *)
InRow ==
  (process = "up" /\ session.verifier = "llm" /\ row <= Len(Prompts)) =>
    /\ facts = RecordsMade(store, session, Prompts[row])[step - 1]
    /\ facts \in Seq(Kept(session.task))
    /\ phase # "next" => ~Unasked(session, Prompt)
    /\ phase \in {"ask", "put"} => Key \notin DOMAIN store
    /\ phase = "judge" => Key \in DOMAIN store /\ store[Key] = inhand

ReplayInv == Whole /\ Remade /\ InRow

(* A process that does not consult the cache, or has ended, has nothing to *)
(* replay.                                                                 *)
LEMMA NothingToReplay ==
  ASSUME Whole', process' \notin {"up", "done"} \/ session'.verifier # "llm"
  PROVE  ReplayInv'
  BY DEF ReplayInv, Remade, InRow

(* The cursor of a session that consults the cache.                        *)
LEMMA CursorInRow ==
  ASSUME AnswersInv, process = "up", row <= Len(Prompts)
  PROVE  /\ session \in Sessions /\ session.task \in DOMAIN Rows
         /\ row \in 1..Len(Prompts) /\ Len(Prompts) \in Nat
         /\ Len(Prompts[row]) \in Nat /\ step \in 1..Len(Prompts[row])
         /\ Prompt = Prompts[row][step]
         /\ <<>> \in Seq(Kept(session.task)) /\ Rejected \notin Seq(Kept(session.task))
  <1>1. /\ session \in Sessions /\ row \in Nat \ {0} /\ step \in 1..Len(Prompts[row])
    BY DEF AnswersInv, Running
  <1>2. session.task \in DOMAIN Rows /\ Len(Prompts) \in Nat
    BY <1>1, RowsHavePrompts
  <1>3. row \in 1..Len(Prompts)
    BY <1>1, <1>2
  <1>4. Len(Prompts[row]) \in Nat
    BY <1>1, <1>3, RowsHavePrompts
  <1>5. Rejected \notin Seq(Kept(session.task))
    BY <1>2, AnswersAssumption DEF Failures
  <1>6. <<>> \in Seq(Kept(session.task))
    OBVIOUS
  <1> QED
    BY <1>1, <1>2, <1>3, <1>4, <1>5, <1>6 DEF Prompt

(* A row that is left behind, when the store makes it and those before it. *)
LEMMA RowsReplay ==
  ASSUME AnswersInv, ReplayInv, process = "up", row <= Len(Prompts),
         session.verifier = "llm", NEW outcome, CloseRow(outcome),
         process' = process, session' = session, Whole',
         Loadable(cache'[session.task]) => SavedOrLost',
         \A i \in 1..Len(outcomes) : RowRemade(store', session, i, outcomes[i]),
         RowRemade(store', session, row, outcome)
  PROVE  ReplayInv'
  <1>1. /\ outcomes' = Append(outcomes, outcome) /\ row' = row + 1 /\ step' = 1
        /\ phase' = "next" /\ facts' = <<>>
    BY DEF CloseRow
  <1>2. session \in Sessions /\ outcomes \in Seq(ToSet(outcomes)) /\ row = Len(outcomes) + 1
    BY DEF ReplayInv, Remade
  <1>3. /\ row \in 1..Len(Prompts) /\ Len(Prompts) \in Nat
        /\ <<>> \in Seq(Kept(session.task))
    BY CursorInRow
  <1>4. outcomes' \in Seq(ToSet(outcomes'))
    BY <1>1, <1>2, AppendMember
  <1>5. /\ Len(outcomes) \in Nat /\ Len(outcomes') = Len(outcomes) + 1
        /\ outcomes'[Len(outcomes) + 1] = outcome
        /\ \A i \in 1..Len(outcomes) : outcomes'[i] = outcomes[i]
    BY <1>1, <1>2
  <1>7. ASSUME NEW i \in 1..Len(outcomes')
        PROVE  RowRemade(store', session, i, outcomes'[i])
    <2>1. CASE i = Len(outcomes) + 1
      BY <1>2, <1>5, <2>1
    <2>2. CASE i # Len(outcomes) + 1
      <3>1. i \in 1..Len(outcomes)
        BY <1>5, <2>2
      <3> QED
        BY <1>2, <1>5, <3>1
    <2> QED
      BY <2>1, <2>2
  <1>10. Remade'
    <2>1. Prompts' = Prompts
      BY DEF Prompts
    <2>3. row' = Len(outcomes') + 1 /\ row' <= Len(Prompts) + 1
      BY <1>1, <1>2, <1>3, <1>5
    <2> QED
      BY <1>2, <1>4, <1>7, <2>1, <2>3 DEF Remade
  <1>11. InRow'
    <2> SUFFICES ASSUME row' <= Len(Prompts)
                 PROVE  InRow'
      BY DEF InRow, Prompts
    <2>1. row' \in 1..Len(Prompts)
      BY <1>1, <1>3
    <2>2. Len(Prompts[row']) \in Nat
      BY <1>2, <2>1, RowsHavePrompts
    <2>3. RecordsMade(store', session, Prompts[row'])[0] = <<>>
      BY <2>2, RecordsUnfold
    <2>4. step' - 1 = 0 /\ Prompts' = Prompts
      BY <1>1 DEF Prompts
    <2> QED
      BY <1>1, <1>3, <2>3, <2>4 DEF InRow
  <1> QED
    BY <1>10, <1>11 DEF ReplayInv

(* What was lost in a row behind stays lost there when one more is behind. *)
LEMMA LostStays ==
  ASSUME outcomes \in Seq(ToSet(outcomes)), session' = session, NEW outcome,
         outcomes' = Append(outcomes, outcome)
  PROVE  /\ Len(outcomes) \in Nat /\ Len(outcomes') = Len(outcomes) + 1
         /\ outcomes'[Len(outcomes) + 1] = outcome
         /\ \A i \in 1..Len(outcomes) : outcomes'[i] = outcomes[i]
         /\ \A key : \A j \in 1..Len(outcomes) : LostIn(key, j) => LostIn(key, j)'
  <1>1. /\ Len(outcomes) \in Nat /\ Len(outcomes') = Len(outcomes) + 1
        /\ outcomes'[Len(outcomes) + 1] = outcome
        /\ \A i \in 1..Len(outcomes) : outcomes'[i] = outcomes[i]
    OBVIOUS
  <1>2. Prompts' = Prompts
    BY DEF Prompts
  <1>3. ASSUME NEW key, NEW j \in 1..Len(outcomes), LostIn(key, j)
        PROVE  LostIn(key, j)'
    <2>1. \A i \in 1..(j - 1) : i \in 1..Len(outcomes)
      BY <1>1
    <2> QED
      BY <1>1, <1>2, <1>3, <2>1 DEF LostIn, AskedIn
  <1> QED
    BY <1>1, <1>3

(* A row that is left behind with what the store makes of it.              *)
LEMMA CloseReplays ==
  ASSUME AnswersInv, ReplayInv, process = "up", row <= Len(Prompts),
         session.verifier = "llm", NEW outcome, CloseRow(outcome),
         outcome = RecordsMade(store, session, Prompts[row])[Len(Prompts[row])],
         cache' = cache, process' = process, session' = session, store' = store
  PROVE  ReplayInv'
  <1>1. Whole'
    BY DEF ReplayInv, Whole
  <1>2. /\ outcomes \in Seq(ToSet(outcomes)) /\ outcomes' = Append(outcomes, outcome)
        /\ Loadable(cache[session.task]) => SavedOrLost
        /\ \A i \in 1..Len(outcomes) : RowRemade(store, session, i, outcomes[i])
    BY DEF ReplayInv, Remade, CloseRow
  <1>3. RowRemade(store, session, row, outcome)
    BY DEF RowRemade, Prompts
  <1>4. SavedOrLost => SavedOrLost'
    <2> SUFFICES ASSUME SavedOrLost PROVE SavedOrLost'
      OBVIOUS
    <2>1. \A j \in 1..Len(outcomes) : j \in 1..Len(outcomes')
      BY <1>2, LostStays
    <2>2. \A key : \A j \in 1..Len(outcomes) : LostIn(key, j) => LostIn(key, j)'
      BY <1>2, LostStays
    <2> QED
      BY <2>1, <2>2 DEF SavedOrLost
  <1> QED
    BY <1>1, <1>2, <1>3, <1>4, RowsReplay

(* The records of a prompt join those of its row.                          *)
LEMMA RecordReplays ==
  ASSUME AnswersInv, ReplayInv, process = "up", row <= Len(Prompts),
         session.verifier = "llm", NEW records, Record(records),
         records = Made(store, session, Prompt), records \in Seq(Kept(session.task)),
         cache' = cache, process' = process, session' = session, store' = store
  PROVE  ReplayInv'
  <1> DEFINE prompts == Prompts[row]
             all == RecordsMade(store, session, prompts)
  <1>1. /\ session \in Sessions /\ session.task \in DOMAIN Rows /\ Len(prompts) \in Nat
        /\ step \in 1..Len(prompts) /\ Prompt = prompts[step]
        /\ Rejected \notin Seq(Kept(session.task))
    BY CursorInRow
  <1>2. facts = all[step - 1] /\ facts \in Seq(Kept(session.task))
    BY DEF ReplayInv, InRow
  <1>3. all[step] = Joined(all[step - 1], Made(store, session, prompts[step]))
    BY <1>1, RecordsUnfold
  <1> HIDE DEF all, prompts
  <1>4. facts # Rejected /\ records # Rejected
    BY <1>1, <1>2
  <1>5. all[step] = facts \o records
    BY <1>1, <1>2, <1>3, <1>4 DEF Joined
  <1>6. CASE step = Len(prompts)
    <2>1. CloseRow(facts \o records)
      BY <1>6 DEF Record, prompts
    <2>2. facts \o records = RecordsMade(store, session, Prompts[row])[Len(Prompts[row])]
      BY <1>5, <1>6 DEF all, prompts
    <2> QED
      BY <2>1, <2>2, CloseReplays
  <1>7. CASE step # Len(prompts)
    <2>1. /\ facts' = facts \o records /\ step' = step + 1 /\ phase' = "next"
          /\ row' = row /\ outcomes' = outcomes
      BY <1>7 DEF Record, prompts
    <2>2. Whole' /\ Remade'
      <3>1. Prompts' = Prompts
        BY DEF Prompts
      <3>2. SavedOrLost => SavedOrLost'
        BY <2>1, <3>1 DEF SavedOrLost, LostIn, AskedIn
      <3> QED
        BY <2>1, <3>1, <3>2 DEF ReplayInv, Whole, Remade
    <2>3. facts \o records \in Seq(Kept(session.task))
      BY <1>2
    <2>4. step' - 1 = step
      BY <1>1, <2>1
    <2>5. Prompts' = Prompts /\ all[step] = RecordsMade(store, session, Prompts[row])[step]
      BY DEF Prompts, all, prompts
    <2>6. InRow'
      BY <1>5, <2>1, <2>3, <2>4, <2>5 DEF InRow
    <2> QED
      BY <2>2, <2>6 DEF ReplayInv
  <1> QED
    BY <1>6, <1>7

(* A prompt without records leaves its row without any, now and later.     *)
LEMMA RejectionReplays ==
  ASSUME AnswersInv, ReplayInv, process = "up", row <= Len(Prompts),
         session.verifier = "llm", CloseRow(Rejected),
         Made(store, session, Prompt) = Rejected,
         cache' = cache, process' = process, session' = session, store' = store
  PROVE  ReplayInv'
  <1>1. /\ Len(Prompts[row]) \in Nat /\ step \in 1..Len(Prompts[row])
        /\ Prompt = Prompts[row][step]
    BY CursorInRow
  <1>2. Len(Prompts[row]) \in 1..Len(Prompts[row])
    BY <1>1
  <1>3. RecordsMade(store, session, Prompts[row])[Len(Prompts[row])] = Rejected
    BY <1>1, <1>2, OneRejected
  <1> QED
    BY <1>3, CloseReplays

(* A process begins with a store that is its file.                         *)
LEMMA StartReplays ==
  ASSUME ReplayInv, NEW s \in Sessions, Start(s)
  PROVE  ReplayInv'
  <1>1. cache' = cache /\ session' = s
    BY DEF Start
  <1>2. Whole'
    BY <1>1 DEF ReplayInv, Whole
  <1>3. CASE process' \notin {"up", "done"} \/ s.verifier # "llm"
    BY <1>1, <1>2, <1>3, NothingToReplay
  <1>4. CASE process' \in {"up", "done"} /\ s.verifier = "llm"
    <2>1. FreshMemory(Contents(cache[s.task]))
      BY <1>4 DEF Start
    <2>2. /\ store' = Contents(cache[s.task]) /\ row' = 1 /\ step' = 1 /\ phase' = "next"
          /\ facts' = <<>> /\ outcomes' = <<>>
      BY <2>1 DEF FreshMemory
    <2>3. Prompts' = Rows[s.task] /\ s.task \in DOMAIN Rows
      BY <1>1, AnswersAssumption DEF Prompts
    <2>4. Len(Prompts') \in Nat
      BY <2>3, AnswersAssumption, Members
    <2>5. Remade'
      <3>1. outcomes' \in Seq(ToSet(outcomes')) /\ Len(outcomes') = 0
        BY <2>2, NothingCited
      <3>2. SavedOrLost'
        BY <1>1, <2>2 DEF SavedOrLost
      <3> QED
        BY <1>1, <2>2, <2>4, <3>1, <3>2 DEF Remade
    <2>6. InRow'
      <3> SUFFICES ASSUME 1 <= Len(Prompts')
                   PROVE  InRow'
        BY <2>2 DEF InRow
      <3> DEFINE prompts == Rows[s.task][1]
      <3>1. prompts \in ToSet(Rows[s.task])
        <4>1. Rows[s.task] \in Seq(ToSet(Rows[s.task])) /\ 1 \in 1..Len(Rows[s.task])
          BY <2>3, <2>4, AnswersAssumption
        <4> QED
          BY <4>1, Members
      <3>2. prompts \in Seq(ToSet(prompts))
        BY <2>3, <3>1, AnswersAssumption
      <3> HIDE DEF prompts
      <3>3. Len(prompts) \in Nat
        BY <3>2
      <3>4. RecordsMade(store', s, prompts)[0] = <<>>
        BY <3>3, RecordsUnfold
      <3>5. prompts = Prompts'[1] /\ step' - 1 = 0
        BY <2>2, <2>3 DEF prompts
      <3>6. <<>> \in Seq(Kept(s.task))
        OBVIOUS
      <3> QED
        BY <1>1, <2>2, <3>4, <3>5, <3>6 DEF InRow
    <2> QED
      BY <1>2, <2>5, <2>6 DEF ReplayInv
  <1> QED
    BY <1>3, <1>4

(* A process that is gone.                                                 *)
LEMMA EndReplays ==
  ASSUME Whole', process' \in {"down", "aborted"}
  PROVE  ReplayInv'
  BY NothingToReplay

(* Steps that make no structured call: nothing is asked when there is no   *)
(* evidence, and the cross-encoder does not consult the cache.             *)
LEMMA UnaskedReplays ==
  ASSUME AnswersInv, ReplayInv, PassUnasked \/ CrossEncode
  PROVE  ReplayInv'
  <1>1. /\ process = "up" /\ row <= Len(Prompts)
        /\ cache' = cache /\ process' = process /\ session' = session /\ store' = store
    BY DEF PassUnasked, CrossEncode, Up
  <1>2. Whole'
    BY <1>1 DEF ReplayInv, Whole
  <1>3. CASE PassUnasked
    <2>1. session.verifier = "llm" /\ Unasked(session, Prompt) /\ Record(<<>>)
      BY <1>3 DEF PassUnasked
    <2>2. <<>> = Made(store, session, Prompt)
      BY <2>1 DEF Made
    <2>3. <<>> \in Seq(Kept(session.task))
      OBVIOUS
    <2> QED
      BY <1>1, <2>1, <2>2, <2>3, RecordReplays
  <1>4. CASE CrossEncode
    BY <1>1, <1>2, <1>4, NothingToReplay DEF CrossEncode
  <1> QED
    BY <1>3, <1>4

(* parse_window_extraction, parse_fact_verdict: what is kept of a          *)
(* completion is what the store makes of its prompt.                       *)
LEMMA JudgeReplays ==
  ASSUME AnswersInv, ReplayInv, Judge
  PROVE  ReplayInv'
  <1> DEFINE records == Parsed(session.task, inhand, Prompt)
  <1>1. /\ process = "up" /\ phase = "judge" /\ row <= Len(Prompts)
        /\ cache' = cache /\ process' = process /\ session' = session /\ store' = store
    BY DEF Judge, Up, AnswersInv, Running
  <1>2. Whole'
    BY <1>1 DEF ReplayInv, Whole
  <1>3. CASE session.verifier # "llm"
    BY <1>1, <1>2, <1>3, NothingToReplay
  <1>4. CASE session.verifier = "llm"
    <2>1. ~Unasked(session, Prompt) /\ Key \in DOMAIN store /\ store[Key] = inhand
      BY <1>1, <1>4 DEF ReplayInv, InRow
    <2>2. records = Made(store, session, Prompt)
      BY <2>1 DEF Made, Key
    <2>3. records # Rejected => records \in Seq(Kept(session.task))
      <3> SUFFICES ASSUME records # Rejected PROVE records \in Seq(Kept(session.task))
        OBVIOUS
      <3>1. session.task \in {"build", "verify"} /\ (session.task = "verify" => Prompt \in DOMAIN Evidence)
        BY <1>1, PromptOfRow
      <3>2. CASE session.task = "build"
        BY <3>2 DEF Parsed, Kept
      <3>3. CASE session.task = "verify"
        <4> DEFINE fact == FactOf(inhand.data, Prompt, Evidence[Prompt])
        <4>1. inhand.data \in Data["verify"]
          BY <1>1, <3>3 DEF AnswersInv, AtHand, MadeUnder
        <4>2. Prompt \in DOMAIN Evidence /\ Evidence[Prompt] # <<>>
          BY <1>1, <3>1, <3>3 DEF AnswersInv, Running
        <4>3. fact # Rejected /\ records = <<NLIResultOf(fact)>>
          BY <3>3 DEF Parsed
        <4>4. NLIResultOf(fact) \in Kept("verify")
          BY <4>1, <4>2, <4>3 DEF Kept
        <4> QED
          BY <3>3, <4>3, <4>4
      <3> QED
        BY <3>1, <3>2, <3>3
    <2>4. IF records = Rejected THEN CloseRow(Rejected) ELSE Record(records)
      BY DEF Judge
    <2> HIDE DEF records
    <2>5. CASE records = Rejected
      BY <1>1, <1>4, <2>2, <2>4, <2>5, RejectionReplays
    <2>6. CASE records # Rejected
      BY <1>1, <1>4, <2>2, <2>3, <2>4, <2>6, RecordReplays
    <2> QED
      BY <2>5, <2>6
  <1> QED
    BY <1>3, <1>4

(* A call that brings no answer: the store has none either.                *)
LEMMA FailureReplays ==
  ASSUME AnswersInv, ReplayInv, Unusable \/ CallFails
  PROVE  ReplayInv'
  <1>1. /\ process = "up" /\ phase = "ask" /\ row <= Len(Prompts)
        /\ cache' = cache /\ session' = session
    BY DEF Unusable, CallFails, Up, AnswersInv, Running
  <1>2. Whole'
    BY <1>1 DEF ReplayInv, Whole
  <1>3. CASE CloseRow(Rejected) /\ process' = process /\ store' = store
    <2>1. CASE session.verifier # "llm"
      BY <1>1, <1>2, <2>1, NothingToReplay
    <2>2. CASE session.verifier = "llm"
      <3>1. ~Unasked(session, Prompt) /\ Key \notin DOMAIN store
        BY <1>1, <2>2 DEF ReplayInv, InRow
      <3>2. Made(store, session, Prompt) = Rejected
        BY <3>1 DEF Made, Key
      <3> QED
        BY <1>1, <1>3, <2>2, <3>2, RejectionReplays
    <2> QED
      BY <2>1, <2>2
  <1>4. CASE process' = "aborted"
    BY <1>2, <1>4, EndReplays
  <1> QED
    BY <1>3, <1>4 DEF Unusable, CallFails, RaiseValueError, RaiseError


(* What the cursor of a session rests on stays when only the phase and the *)
(* completion in hand change.                                              *)
LEMMA AsideReplays ==
  ASSUME ReplayInv, process = "up", process' = process, cache' = cache, session' = session,
         store' = store, row' = row, step' = step, facts' = facts, outcomes' = outcomes,
         phase' # "next",
         session.verifier = "llm" /\ row <= Len(Prompts) =>
           /\ ~Unasked(session, Prompt)
           /\ phase' \in {"ask", "put"} => Key \notin DOMAIN store
           /\ phase' = "judge" => Key \in DOMAIN store /\ store[Key] = inhand'
  PROVE  ReplayInv'
  <1>1. Whole'
    BY DEF ReplayInv, Whole
  <1>2. Prompts' = Prompts /\ Prompt' = Prompt /\ Key' = Key
    BY DEF Prompts, Prompt, Key
  <1>3. Remade'
    BY <1>2 DEF ReplayInv, Remade, SavedOrLost, LostIn, AskedIn
  <1>4. InRow'
    <2> SUFFICES ASSUME session.verifier = "llm", row <= Len(Prompts)
                 PROVE  InRow'
      BY <1>2 DEF InRow
    <2>1. facts = RecordsMade(store, session, Prompts[row])[step - 1]
          /\ facts \in Seq(Kept(session.task))
      BY DEF ReplayInv, InRow
    <2> QED
      BY <1>2, <2>1 DEF InRow
  <1> QED
    BY <1>1, <1>3, <1>4 DEF ReplayInv

(* complete_structured(): the cache is asked first, then the provider.     *)
LEMMA AskReplays ==
  ASSUME AnswersInv, ReplayInv, ConsultCache \/ Answered \/ Retry
  PROVE  ReplayInv'
  <1>1. /\ process = "up" /\ row <= Len(Prompts)
        /\ cache' = cache /\ process' = process /\ session' = session /\ store' = store
        /\ row' = row /\ step' = step /\ facts' = facts /\ outcomes' = outcomes
    BY DEF ConsultCache, Answered, Retry, Up, AnswersInv, Running
  <1>2. CASE ConsultCache
    <2>1. /\ ~Unasked(session, Prompt)
          /\ \/ phase' = "judge" /\ Key \in DOMAIN store /\ inhand' = store[Key]
             \/ phase' = "ask" /\ Key \notin DOMAIN store
      BY <1>2 DEF ConsultCache
    <2> QED
      BY <1>1, <2>1, AsideReplays
  <1>3. CASE Answered \/ Retry
    <2>1. phase = "ask" /\ phase' \in {"ask", "put"}
      BY <1>3 DEF Answered, Retry, Up
    <2>2. session.verifier = "llm" => ~Unasked(session, Prompt) /\ Key \notin DOMAIN store
      BY <1>1, <2>1 DEF ReplayInv, InRow
    <2> QED
      BY <1>1, <2>1, <2>2, AsideReplays
  <1> QED
    BY <1>2, <1>3

(* A write, finished or cut short, leaves a line.                          *)
LEMMA WriteLeavesLine ==
  ASSUME AnswersInv, Whole, process = "up",
         NEW file \in {Written(cache[session.task], [key |-> Key, value |-> inhand])}
                        \union CutShort(cache[session.task], [key |-> Key, value |-> inhand]),
         cache' = [cache EXCEPT ![session.task] = file]
  PROVE  Whole'
  <1> DEFINE old == cache[session.task]
  <1>1. session.task \in DOMAIN Rows /\ DOMAIN cache = DOMAIN Rows
    BY AnswersAssumption DEF AnswersInv, Running, OwnCaches
  <1>2. old.lines \in Seq(ToSet(old.lines)) /\ (~old.ended => old.lines # <<>>)
    BY <1>1 DEF AnswersInv, OwnCaches, OwnFile, Whole
  <1> HIDE DEF old
  <1>3. ASSUME NEW text PROVE LastLineWith(old, text) # <<>>
    <2>1. CASE old.ended
      BY <1>2, <2>1 DEF LastLineWith
    <2>2. CASE ~old.ended
      <3>1. Len(old.lines) \in DOMAIN old.lines
        BY <1>2, <2>2
      <3>2. DOMAIN LastLineWith(old, text) = DOMAIN old.lines
        BY <2>2 DEF LastLineWith
      <3> QED
        BY <3>1, <3>2
    <2> QED
      BY <2>1, <2>2
  <1>4. ~file.ended => file.lines # <<>>
    BY <1>2, <1>3 DEF Written, CutShort, old
  <1> QED
    BY <1>1, <1>4 DEF Whole

(* A put begins with a prompt the store has no answer to.                  *)
LEMMA PutAsksAnew ==
  ASSUME AnswersInv, ReplayInv, process = "up", phase = "put", session.verifier = "llm",
         row <= Len(Prompts)
  PROVE  /\ session \in Sessions /\ session.task \in DOMAIN Rows
         /\ row \in 1..Len(Prompts) /\ Len(Prompts) \in Nat
         /\ Len(Prompts[row]) \in Nat /\ step \in 1..Len(Prompts[row])
         /\ Prompt = Prompts[row][step] /\ Prompt \in ToSet(Prompts[row])
         /\ Rejected \notin Seq(Kept(session.task))
         /\ ~Unasked(session, Prompt) /\ Key \notin DOMAIN store
         /\ Loadable(cache[session.task]) => SavedOrLost
         /\ outcomes \in Seq(ToSet(outcomes)) /\ row = Len(outcomes) + 1
         /\ \A i \in 1..Len(outcomes) : RowRemade(store, session, i, outcomes[i])
         /\ cache[session.task].lines \in Seq(ToSet(cache[session.task].lines))
         /\ ~cache[session.task].ended => cache[session.task].lines # <<>>
         /\ session.task \in DOMAIN cache
  <1>1. /\ session \in Sessions /\ session.task \in DOMAIN Rows
        /\ row \in 1..Len(Prompts) /\ Len(Prompts) \in Nat
        /\ Len(Prompts[row]) \in Nat /\ step \in 1..Len(Prompts[row])
        /\ Prompt = Prompts[row][step] /\ Rejected \notin Seq(Kept(session.task))
    BY CursorInRow
  <1>2. Prompt \in ToSet(Prompts[row])
    <2>1. Prompts[row] \in Seq(ToSet(Prompts[row]))
      BY <1>1, AnswersAssumption, Members DEF Prompts
    <2> QED
      BY <1>1, <2>1, Members
  <1>3. ~Unasked(session, Prompt) /\ Key \notin DOMAIN store
    BY DEF ReplayInv, InRow
  <1>4. /\ Loadable(cache[session.task]) => SavedOrLost
        /\ outcomes \in Seq(ToSet(outcomes)) /\ row = Len(outcomes) + 1
        /\ \A i \in 1..Len(outcomes) : RowRemade(store, session, i, outcomes[i])
    BY DEF ReplayInv, Remade
  <1>5. /\ cache[session.task].lines \in Seq(ToSet(cache[session.task].lines))
        /\ ~cache[session.task].ended => cache[session.task].lines # <<>>
        /\ session.task \in DOMAIN cache
    BY <1>1 DEF AnswersInv, OwnCaches, OwnFile, ReplayInv, Whole
  <1> QED
    BY <1>1, <1>2, <1>3, <1>4, <1>5

(* Once the store has the answer no row behind is made otherwise, unless   *)
(* it was rejected for want of this very answer.                           *)
LEMMA PutMakesRows ==
  ASSUME AnswersInv, ReplayInv, process = "up", phase = "put", session.verifier = "llm",
         row <= Len(Prompts), NEW grown, grown = Filed(store, Key, inhand)
  PROVE  /\ \A i \in 1..Len(outcomes) : RowRemade(grown, session, i, outcomes[i])
         /\ \A i \in 1..Len(outcomes) :
              Prompt \in ToSet(Prompts[i]) => outcomes[i] \in Failures
         /\ \A m \in 0..Len(Prompts[row]) :
              RecordsMade(store, session, Prompts[row])[m] # Rejected =>
                RecordsMade(grown, session, Prompts[row])[m]
                  = RecordsMade(store, session, Prompts[row])[m]
  <1>1. /\ session \in Sessions /\ session.task \in DOMAIN Rows
        /\ row \in 1..Len(Prompts) /\ Len(Prompts) \in Nat /\ Len(Prompts[row]) \in Nat
        /\ Prompt \in ToSet(Prompts[row])
        /\ ~Unasked(session, Prompt) /\ Key \notin DOMAIN store
        /\ outcomes \in Seq(ToSet(outcomes)) /\ row = Len(outcomes) + 1
        /\ \A i \in 1..Len(outcomes) : RowRemade(store, session, i, outcomes[i])
    BY PutAsksAnew
  <1>2. ASSUME NEW prompts, Len(prompts) \in Nat, NEW m \in 0..Len(prompts)
        PROVE  \/ RecordsMade(grown, session, prompts)[m] = RecordsMade(store, session, prompts)[m]
               \/ /\ RecordsMade(store, session, prompts)[m] = Rejected
                  /\ \E j \in 1..m : prompts[j] = Prompt
    BY <1>1, <1>2, FiledForRow DEF Key
  <1>3. ASSUME NEW i \in 1..Len(outcomes)
        PROVE  /\ i \in 1..Len(Prompts) /\ row \in (i + 1)..Len(Prompts)
               /\ Prompts[i] \in Seq(ToSet(Prompts[i])) /\ Len(Prompts[i]) \in Nat
               /\ RowRemade(store, session, i, outcomes[i])
    <2>1. i \in 1..Len(Prompts) /\ row \in (i + 1)..Len(Prompts)
      BY <1>1
    <2>2. Prompts[i] \in Seq(ToSet(Prompts[i]))
      BY <1>1, <2>1, AnswersAssumption, Members DEF Prompts
    <2> QED
      BY <1>1, <2>1, <2>2, Members
  <1>4. ASSUME NEW i \in 1..Len(outcomes), Prompt \in ToSet(Prompts[i])
        PROVE  outcomes[i] \in Failures
    <2> DEFINE prompts == Prompts[i]
    <2>1. prompts \in Seq(ToSet(prompts)) /\ Len(prompts) \in Nat
      BY <1>3
    <2>2. PICK j \in 1..Len(prompts) : prompts[j] = Prompt
      BY <1>4, <2>1, Members
    <2>3. Made(store, session, prompts[j]) = Rejected
      BY <1>1, <2>2 DEF Made, Key
    <2>4. Len(prompts) \in 1..Len(prompts)
      BY <2>1, <2>2
    <2>5. RecordsMade(store, session, prompts)[Len(prompts)] = Rejected
      BY <2>1, <2>2, <2>3, <2>4, OneRejected
    <2> QED
      BY <1>3, <2>5 DEF RowRemade, Prompts, Failures
  <1>5. ASSUME NEW i \in 1..Len(outcomes)
        PROVE  RowRemade(grown, session, i, outcomes[i])
    <2> DEFINE prompts == Prompts[i]
    <2>1. Len(prompts) \in Nat /\ Len(prompts) \in 0..Len(prompts) /\ prompts \in Seq(ToSet(prompts))
      BY <1>3
    <2>2. CASE RecordsMade(grown, session, prompts)[Len(prompts)]
                 = RecordsMade(store, session, prompts)[Len(prompts)]
      BY <1>3, <2>2 DEF RowRemade, Prompts
    <2>3. CASE \E j \in 1..Len(prompts) : prompts[j] = Prompt
      <3>1. Prompt \in ToSet(prompts)
        BY <2>1, <2>3, Members
      <3>2. outcomes[i] \in Failures
        BY <1>4, <3>1
      <3> QED
        BY <1>1, <1>3, <3>1, <3>2 DEF RowRemade, Prompts, Failures
    <2> QED
      BY <1>2, <2>1, <2>2, <2>3
  <1> QED
    BY <1>1, <1>2, <1>4, <1>5

(* JsonlStructuredLLMCache.put: the store and the file take up the same    *)
(* entry.                                                                  *)
LEMMA SavedReplays ==
  ASSUME AnswersInv, ReplayInv, process = "up", phase = "put", session.verifier = "llm",
         row <= Len(Prompts), process' = process, session' = session,
         store' = Filed(store, Key, inhand), Whole',
         cache' = [cache EXCEPT ![session.task] =
                     Written(cache[session.task], [key |-> Key, value |-> inhand])],
         phase' = "judge", inhand' = inhand,
         row' = row, step' = step, facts' = facts, outcomes' = outcomes
  PROVE  ReplayInv'
  <1>1. /\ session \in Sessions /\ row \in 1..Len(Prompts) /\ step \in 1..Len(Prompts[row])
        /\ Len(Prompts) \in Nat /\ Len(Prompts[row]) \in Nat
        /\ Rejected \notin Seq(Kept(session.task)) /\ ~Unasked(session, Prompt)
        /\ Key \notin DOMAIN store /\ outcomes \in Seq(ToSet(outcomes))
        /\ row = Len(outcomes) + 1
    BY PutAsksAnew
  <1>2. Prompts' = Prompts /\ Prompt' = Prompt /\ Key' = Key
    BY DEF Prompts, Prompt, Key
  <1>3. Loadable(cache'[session.task]) => SavedOrLost'
    <2> SUFFICES ASSUME Loadable(cache'[session.task]) PROVE SavedOrLost'
      OBVIOUS
    <2> DEFINE old == cache[session.task]
               new == Written(old, [key |-> Key, value |-> inhand])
    <2>1. cache'[session.task] = new
      BY PutAsksAnew
    <2>2. /\ old.lines \in Seq(ToSet(old.lines)) /\ (~old.ended => old.lines # <<>>)
          /\ Loadable(old) => SavedOrLost
      BY PutAsksAnew
    <2> HIDE DEF old
    <2>3. Loadable(old) /\ Contents(new) = Filed(Contents(old), Key, inhand)
      BY <2>1, <2>2, WrittenContents
    <2> HIDE DEF new
    <2>4. /\ \A key \in DOMAIN Contents(old) :
               key \in DOMAIN store /\ Contents(old)[key] = store[key]
          /\ \A key \in DOMAIN store \ DOMAIN Contents(old) :
               \E j \in 1..Len(outcomes) : LostIn(key, j)
      BY <2>2, <2>3 DEF SavedOrLost, old
    <2>5. \A key \in DOMAIN Contents(new) :
            key \in DOMAIN store' /\ Contents(new)[key] = store'[key]
      BY <2>3, <2>4 DEF Filed
    <2>6. DOMAIN store' \ DOMAIN Contents(new) \subseteq DOMAIN store \ DOMAIN Contents(old)
      BY <2>3 DEF Filed
    <2>7. \A key : \A j \in 1..Len(outcomes) : LostIn(key, j) => LostIn(key, j)'
      BY <1>2 DEF LostIn, AskedIn
    <2> QED
      BY <2>1, <2>4, <2>5, <2>6, <2>7 DEF SavedOrLost
  <1>4. /\ \A i \in 1..Len(outcomes) : RowRemade(store', session, i, outcomes[i])
        /\ \A m \in 0..Len(Prompts[row]) :
             RecordsMade(store, session, Prompts[row])[m] # Rejected =>
               RecordsMade(store', session, Prompts[row])[m]
                 = RecordsMade(store, session, Prompts[row])[m]
    BY PutMakesRows
  <1>5. Remade'
    BY <1>1, <1>2, <1>3, <1>4 DEF Remade
  <1>6. InRow'
    <2>1. /\ facts = RecordsMade(store, session, Prompts[row])[step - 1]
          /\ facts \in Seq(Kept(session.task))
      BY DEF ReplayInv, InRow
    <2>2. step - 1 \in 0..Len(Prompts[row]) /\ facts # Rejected
      BY <1>1, <2>1
    <2>3. facts = RecordsMade(store', session, Prompts[row])[step - 1]
      BY <1>4, <2>1, <2>2
    <2>4. Key \in DOMAIN store' /\ store'[Key] = inhand
      BY DEF Filed
    <2> QED
      BY <1>1, <1>2, <2>1, <2>3, <2>4 DEF InRow
  <1> QED
    BY <1>5, <1>6 DEF ReplayInv

(* The write fails: the store alone has the answer, the row is closed, and *)
(* every row behind that asked the same has failed.                        *)
LEMMA UnsavedReplays ==
  ASSUME AnswersInv, ReplayInv, process = "up", phase = "put", session.verifier = "llm",
         row <= Len(Prompts), process' = process, session' = session,
         store' = Filed(store, Key, inhand), Whole', CloseRow(Unsaved),
         NEW file \in CutShort(cache[session.task], [key |-> Key, value |-> inhand]),
         cache' = [cache EXCEPT ![session.task] = file]
  PROVE  ReplayInv'
  <1>1. /\ row \in 1..Len(Prompts) /\ Prompt \in ToSet(Prompts[row])
        /\ outcomes \in Seq(ToSet(outcomes)) /\ row = Len(outcomes) + 1
    BY PutAsksAnew
  <1>2. outcomes' = Append(outcomes, Unsaved) /\ Prompts' = Prompts
    BY DEF CloseRow, Prompts
  <1>3. /\ Len(outcomes) \in Nat /\ Len(outcomes') = Len(outcomes) + 1
        /\ outcomes'[row] = Unsaved
        /\ \A i \in 1..Len(outcomes) : outcomes'[i] = outcomes[i]
        /\ \A key : \A j \in 1..Len(outcomes) : LostIn(key, j) => LostIn(key, j)'
    BY <1>1, <1>2, LostStays
  <1>4. /\ \A i \in 1..Len(outcomes) : RowRemade(store', session, i, outcomes[i])
        /\ \A i \in 1..Len(outcomes) :
             Prompt \in ToSet(Prompts[i]) => outcomes[i] \in Failures
    BY PutMakesRows
  <1>5. RowRemade(store', session, row, Unsaved)
    BY DEF RowRemade
  <1>6. ASSUME NEW key, key = Key, NEW j, j = row
        PROVE  LostIn(key, j)'
    <2>1. AskedIn(Key, row)
      BY <1>1 DEF AskedIn, Key
    <2>2. \A p : _cache_key(session, p) = Key => p = Prompt
      BY DEF Key, _cache_key
    <2>3. \A i \in 1..Len(outcomes) : AskedIn(Key, i) => outcomes[i] \in Failures
      BY <1>4, <2>2 DEF AskedIn
    <2>4. \A i \in 1..(row - 1) : i \in 1..Len(outcomes)
      BY <1>1, <1>3
    <2>5. \A i : AskedIn(key, i)' <=> AskedIn(Key, i)
      BY <1>2, <1>6 DEF AskedIn
    <2> QED
      BY <1>3, <1>6, <2>1, <2>3, <2>4, <2>5 DEF LostIn
  <1>7. Loadable(cache'[session.task]) => SavedOrLost'
    <2> SUFFICES ASSUME Loadable(cache'[session.task]) PROVE SavedOrLost'
      OBVIOUS
    <2> DEFINE old == cache[session.task]
    <2>1. cache'[session.task] = file
      BY PutAsksAnew
    <2>2. /\ old.lines \in Seq(ToSet(old.lines)) /\ (~old.ended => old.lines # <<>>)
          /\ Loadable(old) => SavedOrLost
      BY PutAsksAnew
    <2> HIDE DEF old
    <2>3. Loadable(old) /\ Contents(file) \in {Contents(old), Filed(Contents(old), Key, inhand)}
      BY <2>1, <2>2, CutContents DEF old
    <2>4. /\ \A key \in DOMAIN Contents(old) :
               key \in DOMAIN store /\ Contents(old)[key] = store[key]
          /\ \A key \in DOMAIN store \ DOMAIN Contents(old) :
               \E j \in 1..Len(outcomes) : LostIn(key, j)
      BY <2>2, <2>3 DEF SavedOrLost, old
    <2>5. Key \notin DOMAIN store
      BY PutAsksAnew
    <2>6. \A key \in DOMAIN Contents(file) :
            key \in DOMAIN store' /\ Contents(file)[key] = store'[key]
      BY <2>3, <2>4, <2>5 DEF Filed
    <2>7. \A key \in DOMAIN store' \ DOMAIN Contents(file) :
            key = Key \/ key \in DOMAIN store \ DOMAIN Contents(old)
      BY <2>3 DEF Filed
    <2>8. ASSUME NEW key \in DOMAIN store' \ DOMAIN Contents(file)
          PROVE  \E j \in 1..Len(outcomes') : LostIn(key, j)'
      <3>1. CASE key = Key
        <4>1. row \in 1..Len(outcomes')
          BY <1>1, <1>3
        <4>2. \A j : j = row => LostIn(key, j)'
          BY <1>6, <3>1
        <4> QED
          BY <4>1, <4>2
      <3>2. CASE key \in DOMAIN store \ DOMAIN Contents(old)
        <4>1. PICK j \in 1..Len(outcomes) : LostIn(key, j)
          BY <2>4, <3>2
        <4>2. LostIn(key, j)' /\ j \in 1..Len(outcomes')
          BY <1>3, <4>1
        <4> QED
          BY <4>2
      <3> QED
        BY <2>7, <2>8, <3>1, <3>2
    <2> QED
      BY <2>1, <2>6, <2>8 DEF SavedOrLost
  <1> QED
    BY <1>4, <1>5, <1>7, RowsReplay

(* put(): the file has what the store has, or the row is marked.           *)
LEMMA PutReplays ==
  ASSUME AnswersInv, ReplayInv, Put
  PROVE  ReplayInv'
  <1>1. process = "up" /\ phase = "put" /\ row <= Len(Prompts) /\ session' = session
    BY PutCases
  <1>2. Whole'
    BY <1>1, PutCases, WriteLeavesLine DEF ReplayInv
  <1>3. CASE session.verifier # "llm"
    BY <1>1, <1>2, <1>3, NothingToReplay
  <1>4. CASE process' = "aborted"
    BY <1>2, <1>4, EndReplays
  <1>5. CASE session.verifier = "llm" /\ process' # "aborted"
    BY <1>1, <1>2, <1>5, PutCases, SavedReplays, UnsavedReplays
  <1> QED
    BY <1>3, <1>4, <1>5

(* A crash leaves nothing to replay, and no file without its last line.    *)
LEMMA CrashReplays ==
  ASSUME AnswersInv, ReplayInv, Crash
  PROVE  ReplayInv'
  <1>1. process = "up" /\ process' = "down"
    BY DEF Crash
  <1>2. Whole'
    <2>1. CASE cache' = cache
      BY <2>1 DEF ReplayInv, Whole
    <2>2. CASE cache' # cache
      <3>1. PICK file \in CutShort(cache[session.task], [key |-> Key, value |-> inhand]) :
              cache' = [cache EXCEPT ![session.task] = file]
        BY <2>2 DEF Crash
      <3> QED
        BY <1>1, <3>1, WriteLeavesLine DEF ReplayInv
    <2> QED
      BY <2>1, <2>2
  <1> QED
    BY <1>1, <1>2, EndReplays

(* The end of a session, and a step that changes nothing.                  *)
LEMMA FinishReplays ==
  ASSUME AnswersInv, ReplayInv, Finish \/ UNCHANGED vars
  PROVE  ReplayInv'
  <1>1. /\ cache' = cache /\ session' = session /\ store' = store /\ row' = row /\ step' = step
        /\ phase' = phase /\ inhand' = inhand /\ facts' = facts /\ outcomes' = outcomes
        /\ \/ process = "up" /\ process' = "done"
           \/ process' = process
    BY DEF Finish, Up, vars, memory
  <1>2. Prompts' = Prompts /\ Prompt' = Prompt /\ Key' = Key
    BY <1>1 DEF Prompts, Prompt, Key
  <1>3. Whole'
    BY <1>1 DEF ReplayInv, Whole
  <1>4. Remade'
    BY <1>1, <1>2 DEF ReplayInv, Remade, SavedOrLost, LostIn, AskedIn
  <1>5. InRow'
    BY <1>1, <1>2 DEF ReplayInv, InRow
  <1> QED
    BY <1>3, <1>4, <1>5 DEF ReplayInv

(* In every reachable state the store makes the rows behind and the        *)
(* records so far.                                                         *)
THEOREM ReplayInvariant == Spec => []ReplayInv
  <1>1. Init => ReplayInv
    <2> SUFFICES ASSUME Init PROVE ReplayInv
      OBVIOUS
    <2>1. Whole
      BY DEF Init, Whole, EmptyFile
    <2> QED
      BY <2>1 DEF Init, ReplayInv, Remade, InRow
  <1>2. AnswersInv /\ ReplayInv /\ [Next]_vars => ReplayInv'
    <2> SUFFICES ASSUME AnswersInv, ReplayInv, [Next]_vars PROVE ReplayInv'
      OBVIOUS
    <2>1. CASE \E s \in Sessions : Start(s)
      BY <2>1, StartReplays
    <2>2. CASE PassUnasked \/ CrossEncode
      BY <2>2, UnaskedReplays
    <2>3. CASE ConsultCache \/ Answered \/ Retry
      BY <2>3, AskReplays
    <2>4. CASE Unusable \/ CallFails
      BY <2>4, FailureReplays
    <2>5. CASE Put
      BY <2>5, PutReplays
    <2>6. CASE Judge
      BY <2>6, JudgeReplays
    <2>7. CASE Finish \/ UNCHANGED vars
      BY <2>7, FinishReplays
    <2>8. CASE Crash
      BY <2>8, CrashReplays
    <2> QED
      BY <2>1, <2>2, <2>3, <2>4, <2>5, <2>6, <2>7, <2>8 DEF Next
  <1> QED
    BY <1>1, <1>2, AnswersInvariant, PTL DEF Spec

(* structured_cache, build_graph_for_novel, run_condition: the cache file  *)
(* of a finished session, if it loads, makes of each row what the session  *)
(* made of it, the rows that failed included, save a row that failed for   *)
(* an answer a later row got, a row whose answer could not be written and  *)
(* the later rows judged by that answer, whatever crashed or was rejected  *)
(* before.                                                                 *)
THEOREM SessionsAlwaysReplay == Spec => []SessionsAreReplayable
  <1>1. ReplayInv => SessionsAreReplayable
    <2> SUFFICES ASSUME ReplayInv, process = "done", session.verifier = "llm",
                        Loadable(cache[session.task]), NEW i \in DOMAIN outcomes,
                        outcomes[i] # Replay(session, Prompts[i]), outcomes[i] # Unsaved
                 PROVE  \/ outcomes[i] = Rejected /\ AskedAgain(i)
                        \/ JudgedFromMemory(i)
      BY DEF SessionsAreReplayable
    <2> DEFINE saved == Contents(cache[session.task])
    <2>1. /\ session \in Sessions /\ SavedOrLost
          /\ outcomes \in Seq(ToSet(outcomes)) /\ Len(outcomes) <= Len(Prompts)
          /\ \A j \in 1..Len(outcomes) : RowRemade(store, session, j, outcomes[j])
      <3>1. /\ session \in Sessions /\ SavedOrLost /\ outcomes \in Seq(ToSet(outcomes))
            /\ row = Len(outcomes) + 1 /\ row <= Len(Prompts) + 1
            /\ \A j \in 1..Len(outcomes) : RowRemade(store, session, j, outcomes[j])
        BY DEF ReplayInv, Remade
      <3>2. Len(Prompts) \in Nat /\ Len(outcomes) \in Nat
        BY <3>1, AnswersAssumption, Members DEF Prompts
      <3> QED
        BY <3>1, <3>2
    <2>2. Len(Prompts) \in Nat /\ Len(outcomes) \in Nat /\ session.task \in DOMAIN Rows
      BY <2>1, AnswersAssumption, Members DEF Prompts
    <2>3. i \in 1..Len(outcomes) /\ i \in 1..Len(Prompts)
      BY <2>1, <2>2
    <2>4. RowRemade(store, session, i, outcomes[i])
      BY <2>1, <2>3
    <2> DEFINE prompts == Prompts[i]
    <2>5. prompts \in Seq(ToSet(prompts)) /\ Len(prompts) \in Nat
          /\ Len(prompts) \in 0..Len(prompts)
      <3>1. prompts \in Seq(ToSet(prompts))
        BY <2>2, <2>3, AnswersAssumption, Members DEF Prompts
      <3>2. Len(prompts) \in Nat
        BY <3>1, Members
      <3> QED
        BY <3>1, <3>2
    <2>6. CASE RecordsMade(store, session, prompts)[Len(prompts)]
                 = RecordsMade(saved, session, prompts)[Len(prompts)]
      BY <2>4, <2>6 DEF RowRemade, Replay, AskedAgain, Prompts
    <2>7. CASE RecordsMade(store, session, prompts)[Len(prompts)]
                 # RecordsMade(saved, session, prompts)[Len(prompts)]
      <3> HIDE DEF saved, prompts
      <3>1. PICK n \in 1..Len(prompts) :
              Made(saved, session, prompts[n]) # Made(store, session, prompts[n])
        BY <2>5, <2>7, SameRecords
      <3> DEFINE p == prompts[n]
                 key == _cache_key(session, p)
      <3>2. p \in ToSet(prompts)
        BY <2>5, Members
      <3>3. key \in DOMAIN store \ DOMAIN saved
        BY <2>1, <3>1 DEF Made, SavedOrLost, saved
      <3>4. PICK j \in 1..Len(outcomes) : LostIn(key, j)
        BY <2>1, <3>3 DEF SavedOrLost, saved
      <3>5. p \in ToSet(Prompts[j]) /\ outcomes[j] = Unsaved
        BY <3>4 DEF LostIn, AskedIn, _cache_key
      <3>6. i # j
        BY <3>5
      <3>7. CASE i < j
        <4>1. i \in 1..(j - 1) /\ AskedIn(key, i) /\ j \in (i + 1)..Len(Prompts)
          BY <2>1, <2>2, <2>3, <3>2, <3>7 DEF AskedIn, prompts
        <4>2. outcomes[i] \in Failures
          BY <3>4, <4>1 DEF LostIn
        <4> QED
          BY <3>2, <3>5, <4>1, <4>2 DEF Failures, AskedAgain, prompts
      <3>8. CASE j < i
        <4>1. j \in 1..(i - 1)
          BY <2>3, <3>8
        <4> QED
          BY <3>2, <3>3, <3>5, <4>1 DEF JudgedFromMemory, prompts, saved
      <3> QED
        BY <2>2, <2>3, <3>6, <3>7, <3>8
    <2> QED
      BY <2>6, <2>7
  <1> QED
    BY <1>1, ReplayInvariant, PTL
=============================================================================
