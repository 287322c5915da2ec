------------------------ MODULE GraphConstructionProofs ------------------------
(***************************************************************************)
(* Proofs about GraphConstruction, for any number of windows, whatever the *)
(* extractor answers and however the mentions are grouped.                 *)
(***************************************************************************)
EXTENDS GraphConstruction, WellFoundedInduction, TLAPS

(* What the collected facts have in common. *)
Collected ==
  /\ \A f \in entity_facts \union relation_facts \union event_facts :
       f.window \in 1..WindowCount /\ f.provenance # {}
  /\ \A f \in relation_facts : \E x \in Extraction : f.raw \in x.relations
  /\ \A f \in event_facts : \E x \in Extraction : f.raw \in x.events

(* Nothing is built before its turn. *)
InTurn ==
  /\ next_window \in 1..(WindowCount + 1)
  /\ phase \in {"extract", "build", "load", "done", "raised"}
  /\ phase \notin {"load", "done"} =>
       relations = {} /\ participations = {} /\ events = {}

(* A reference leads to an entity that was found in the text. *)
References ==
  phase \in {"build", "load", "done"} =>
    /\ DOMAIN local_to_global = {Reference(f) : f \in entity_facts}
    /\ \A ref \in DOMAIN local_to_global :
         /\ local_to_global[ref] \in EntityId
         /\ \E f \in entity_facts : \E e \in entities :
              /\ Reference(f) = ref /\ e.entity_id = local_to_global[ref]
              /\ f.provenance \subseteq e.provenance

(* The ends of a relation are entities. *)
RelationEnds ==
  \A r \in relations :
    /\ {r.subject, r.object} \subseteq {e.entity_id : e \in entities}
    /\ r.type \in Range(RelationOrder)

GraphInv ==
  /\ Collected /\ InTurn /\ References /\ RelationEnds
  /\ GraphGrounded /\ RelationsAccounted /\ EventsComplete /\ EdgesCoverRelations
-----------------------------------------------------------------------------
(* Operators.                                                              *)

(* A set of numbers has a least member.                                    *)
LEMMA LeastMember ==
  ASSUME NEW S \in SUBSET Nat, S # {}
  PROVE  \E x \in S : \A y \in S : x <= y
  <1> DEFINE D == S
  <1>1. D \subseteq Nat /\ D # {}
    OBVIOUS
  <1>2. PICK x \in D : \A y \in D : ~ <<y, x>> \in OpToRel(<, Nat)
    <2> HIDE DEF D
    <2> QED
      BY <1>1, NatLessThanWellFounded, WFMin, Zenon
  <1>3. \A y, z \in Nat : y < z => <<y, z>> \in OpToRel(<, Nat)
    BY Zenon DEF OpToRel
  <1>4. \A y \in D : ~ y < x
    BY <1>1, <1>2, <1>3, Zenon
  <1> QED
    BY <1>1, <1>4

(* That member is the minimum.                                             *)
LEMMA MinInSet ==
  ASSUME NEW S \in SUBSET Nat, S # {}
  PROVE  Min(S) \in S
  <1>1. PICK x \in S : \A y \in S : x <= y
    BY LeastMember
  <1>2. Min(S) = CHOOSE y \in S : \A z \in S : y <= z
    BY Zenon DEF Min
  <1> QED
    BY <1>1, <1>2, Zenon

(* _fact_sort_key: a group of facts has an earliest one.                   *)
LEMMA EarliestInGroup ==
  ASSUME NEW G, G # {},
         \A f \in G : f.window \in Nat /\ f.raw.local_id \in Nat
  PROVE  Earliest(G) \in G
  <1> DEFINE W == {f.window : f \in G}
  <1>1. W \in SUBSET Nat /\ W # {}
    OBVIOUS
  <1>2. PICK w \in W : \A v \in W : w <= v
    BY <1>1, LeastMember
  <1> DEFINE L == {f.raw.local_id : f \in {g \in G : g.window = w}}
  <1>3. L \in SUBSET Nat /\ L # {}
    BY <1>2
  <1>4. PICK l \in L : \A k \in L : l <= k
    BY <1>3, LeastMember
  <1>5. PICK f \in G : f.window = w /\ f.raw.local_id = l
    BY <1>4
  <1>6. \A g \in G : f.window < g.window
                       \/ (f.window = g.window /\ f.raw.local_id <= g.raw.local_id)
    <2> SUFFICES ASSUME NEW g \in G
                 PROVE  f.window < g.window
                          \/ (f.window = g.window /\ f.raw.local_id <= g.raw.local_id)
      OBVIOUS
    <2>1. g.window \in W /\ w <= g.window /\ w \in Nat
      BY <1>1, <1>2
    <2>2. CASE g.window = w
      BY <1>4, <1>5, <2>2
    <2>3. CASE g.window # w
      BY <1>5, <2>1, <2>3
    <2> QED
      BY <2>2, <2>3
  <1> QED
    BY <1>6 DEF Earliest

(* A fact's evidence is among that of any group it is in.                  *)
LEMMA EvidenceOfGroup ==
  ASSUME NEW facts, NEW f \in facts
  PROVE  f.provenance \subseteq AllProvenance(facts)
  BY DEF AllProvenance

(* Evidence grows with the group.                                          *)
LEMMA EvidenceGrows ==
  ASSUME NEW facts, NEW more, facts \subseteq more
  PROVE  AllProvenance(facts) \subseteq AllProvenance(more)
  BY DEF AllProvenance

(* _resolve_fact: what a window adds to the facts.                         *)
LEMMA ResolvedFacts ==
  ASSUME NEW window, NEW raws, NEW f \in Resolved(window, raws)
  PROVE  f.window = window /\ f.raw \in raws /\ f.provenance # {}
  BY DEF Resolved

(* A collapsed edge has the weight and the evidence of its relations, and  *)
(* the type of one of them.                                                *)
LEMMA CollapsedEdge ==
  ASSUME NEW S, S # {}, \A r \in S : r.type \in Range(RelationOrder)
  PROVE  /\ MergedEdge(S).weight = TotalWeight(S)
         /\ MergedEdge(S).provenance = AllProvenance(S)
         /\ \E r \in S : r.type = MergedEdge(S).type
  <1> DEFINE rank(r) == CHOOSE i \in DOMAIN RelationOrder : RelationOrder[i] = r.type
             R == {rank(r) : r \in S}
  <1>1. \A r \in S : rank(r) \in DOMAIN RelationOrder /\ RelationOrder[rank(r)] = r.type
    BY DEF Range
  <1>2. DOMAIN RelationOrder \subseteq Nat
    BY ExtractionAssumption
  <1>3. R \in SUBSET Nat /\ R # {}
    BY <1>1, <1>2
  <1>5. Min(R) \in R
    <2> HIDE DEF R
    <2> QED
      BY <1>3, MinInSet
  <1>6. PICK r \in S : Min(R) = rank(r)
    BY <1>5
  <1>7. MergedEdge(S) = [type |-> RelationOrder[Min(R)], weight |-> TotalWeight(S),
                         provenance |-> AllProvenance(S)]
    BY DEF MergedEdge
  <1>8. RelationOrder[Min(R)] = r.type
    BY <1>1, <1>6
  <1> HIDE DEF R
  <1> QED
    BY <1>7, <1>8

-----------------------------------------------------------------------------
(* What is collected is what the extractor may answer.                     *)
LEMMA CollectedFacts ==
  ASSUME Collected
  PROVE  /\ \A f \in relation_facts : f.raw.type \in Range(RelationOrder)
         /\ \A f \in event_facts : f.window \in Nat /\ f.raw.local_id \in Nat
         /\ relation_facts \intersect event_facts = {}
  <1>1. \A f \in relation_facts : f.raw.type \in Range(RelationOrder)
    BY ExtractionAssumption DEF Collected
  <1>2. \A f \in event_facts : f.window \in Nat /\ f.raw.local_id \in Nat
    BY ExtractionAssumption DEF Collected
  <1>3. relation_facts \intersect event_facts = {}
    BY ExtractionAssumption DEF Collected
  <1> QED
    BY <1>1, <1>2, <1>3

(* What a reference that resolves stands for.                              *)
LEMMA Resolves ==
  ASSUME GraphInv, phase \in {"build", "load", "done"}, NEW window, NEW local_id,
         ResolveLocalId(window, local_id) # None
  PROVE  /\ ResolveLocalId(window, local_id) = local_to_global[<<window, local_id>>]
         /\ ResolveLocalId(window, local_id) \in EntityId
         /\ ResolveLocalId(window, local_id) \in {e.entity_id : e \in entities}
         /\ Mentioned(window, local_id, ResolveLocalId(window, local_id))
  <1> DEFINE ref == <<window, local_id>>
  <1>1. ref \in DOMAIN local_to_global /\ ResolveLocalId(window, local_id) = local_to_global[ref]
    BY DEF ResolveLocalId
  <1>2. /\ local_to_global[ref] \in EntityId
        /\ \E f \in entity_facts : \E e \in entities :
              /\ Reference(f) = ref /\ e.entity_id = local_to_global[ref]
              /\ f.provenance \subseteq e.provenance
    BY <1>1 DEF GraphInv, References
  <1> QED
    BY <1>1, <1>2 DEF Mentioned

(* A reference that does not resolve was not found in the text.            *)
LEMMA Dangles ==
  ASSUME GraphInv, phase \in {"build", "load", "done"}, NEW window, NEW local_id,
         ResolveLocalId(window, local_id) = None
  PROVE  ~ \E g \in entity_facts : Reference(g) = <<window, local_id>>
  <1>1. <<window, local_id>> \notin DOMAIN local_to_global
    BY ExtractionAssumption DEF ResolveLocalId, GraphInv, References
  <1> QED
    BY <1>1 DEF GraphInv, References

(* The steps before anything is built.                                     *)
LEMMA StillCollecting ==
  ASSUME InTurn, phase \notin {"load", "done"}, phase' \notin {"load", "done"},
         relations' = relations, participations' = participations
  PROVE  /\ RelationEnds' /\ GraphGrounded' /\ RelationsAccounted'
         /\ EventsComplete' /\ EdgesCoverRelations'
  BY DEF InTurn, RelationEnds, GraphGrounded, RelationsAccounted, EventsComplete,
         EdgesCoverRelations

(* extract() and resolve_window_provenance() for one window.               *)
LEMMA ExtractKeeps ==
  ASSUME GraphInv, NEW extraction \in Extraction, ExtractWindow(extraction)
  PROVE  GraphInv'
  <1>1. /\ phase = "extract" /\ phase' = "extract"
        /\ next_window \in 1..WindowCount /\ next_window' = next_window + 1
        /\ entity_facts' = entity_facts \union Resolved(next_window, extraction.entities)
        /\ relation_facts' = relation_facts \union Resolved(next_window, extraction.relations)
        /\ event_facts' = event_facts \union Resolved(next_window, extraction.events)
        /\ relations' = relations /\ events' = events /\ participations' = participations
    BY WindowCountAssumption DEF ExtractWindow, built, GraphInv, InTurn
  <1>2. InTurn'
    BY <1>1, WindowCountAssumption DEF GraphInv, InTurn
  <1>3. References'
    BY <1>1 DEF References
  <1>4. /\ RelationEnds' /\ GraphGrounded' /\ RelationsAccounted'
        /\ EventsComplete' /\ EdgesCoverRelations'
    BY <1>1, StillCollecting DEF GraphInv
  <1>5. Collected'
    <2>1. ASSUME NEW f \in (entity_facts \union relation_facts \union event_facts)'
          PROVE  f.window \in 1..WindowCount /\ f.provenance # {}
      BY <1>1, <2>1, ResolvedFacts DEF GraphInv, Collected
    <2>2. ASSUME NEW f \in relation_facts' PROVE \E x \in Extraction : f.raw \in x.relations
      BY <1>1, <2>2, ResolvedFacts DEF GraphInv, Collected
    <2>3. ASSUME NEW f \in event_facts' PROVE \E x \in Extraction : f.raw \in x.events
      BY <1>1, <2>3, ResolvedFacts DEF GraphInv, Collected
    <2> QED
      BY <2>1, <2>2, <2>3 DEF Collected
  <1> QED
    BY <1>2, <1>3, <1>4, <1>5 DEF GraphInv

(* A window that is skipped, and an exception that is not caught.          *)
LEMMA SkipKeeps ==
  ASSUME GraphInv, SkipWindow \/ RaiseFromExtractor
  PROVE  GraphInv'
  <1>1. /\ phase = "extract" /\ phase' \in {"extract", "raised"}
        /\ next_window' \in {next_window, next_window + 1} /\ next_window \in 1..WindowCount
        /\ entity_facts' = entity_facts /\ relation_facts' = relation_facts
        /\ event_facts' = event_facts
        /\ relations' = relations /\ events' = events /\ participations' = participations
    BY WindowCountAssumption DEF SkipWindow, RaiseFromExtractor, built, collected, GraphInv, InTurn
  <1>2. InTurn'
    BY <1>1, WindowCountAssumption DEF GraphInv, InTurn
  <1>3. References'
    BY <1>1 DEF References
  <1>4. /\ RelationEnds' /\ GraphGrounded' /\ RelationsAccounted'
        /\ EventsComplete' /\ EdgesCoverRelations'
    BY <1>1, StillCollecting DEF GraphInv
  <1>5. Collected'
    BY <1>1 DEF GraphInv, Collected
  <1> QED
    BY <1>2, <1>3, <1>4, <1>5 DEF GraphInv

(* resolve_entities: whatever the grouping, each reference leads to an     *)
(* entity with the evidence of a mention it names.                         *)
LEMMA ResolveKeeps ==
  ASSUME GraphInv, ResolveEntities
  PROVE  GraphInv'
  <1>1. /\ phase = "extract" /\ phase' = "build" /\ next_window' = next_window
        /\ entity_facts' = entity_facts /\ relation_facts' = relation_facts
        /\ event_facts' = event_facts
        /\ relations' = relations /\ events' = events /\ participations' = participations
    BY DEF ResolveEntities, built, collected
  <1>2. InTurn' /\ Collected'
    BY <1>1 DEF GraphInv, InTurn, Collected
  <1>3. /\ RelationEnds' /\ GraphGrounded' /\ RelationsAccounted'
        /\ EventsComplete' /\ EdgesCoverRelations'
    BY <1>1, StillCollecting DEF GraphInv
  <1>4. References'
    <2>1. PICK component \in [entity_facts -> EntityId \X BOOLEAN] :
       /\ entities' =
            {[entity_id |-> c[1],
              provenance |-> AllProvenance({f \in entity_facts : component[f] = c})] :
               c \in Range(component)}
       /\ \E last \in [{Reference(f) : f \in entity_facts} -> entity_facts] :
            /\ \A ref \in DOMAIN last : Reference(last[ref]) = ref
            /\ local_to_global' = [ref \in DOMAIN last |-> component[last[ref]][1]]
      BY DEF ResolveEntities
    <2>2. PICK last \in [{Reference(f) : f \in entity_facts} -> entity_facts] :
            /\ \A ref \in DOMAIN last : Reference(last[ref]) = ref
            /\ local_to_global' = [ref \in DOMAIN last |-> component[last[ref]][1]]
      BY <2>1
    <2>3. DOMAIN local_to_global' = {Reference(f) : f \in entity_facts}
      BY <2>2
    <2>4. ASSUME NEW ref \in DOMAIN local_to_global'
          PROVE  /\ local_to_global'[ref] \in EntityId
                 /\ \E f \in entity_facts : \E e \in entities' :
                      /\ Reference(f) = ref /\ e.entity_id = local_to_global'[ref]
                      /\ f.provenance \subseteq e.provenance
      <3> DEFINE f == last[ref]
                 c == component[f]
                 e == [entity_id |-> c[1],
                       provenance |-> AllProvenance({g \in entity_facts : component[g] = c})]
      <3>1. f \in entity_facts /\ Reference(f) = ref /\ local_to_global'[ref] = c[1]
        BY <2>2, <2>3
      <3>2. c \in EntityId \X BOOLEAN /\ c \in Range(component)
        BY <3>1 DEF Range
      <3>3. e \in entities'
        BY <2>1, <3>2
      <3>4. f.provenance \subseteq e.provenance
        BY <3>1, EvidenceOfGroup
      <3> QED
        BY <3>1, <3>2, <3>3, <3>4
    <2>5. \A f : Reference(f)' = Reference(f)
      BY DEF Reference
    <2> QED
      BY <1>1, <2>3, <2>4, <2>5 DEF References, Reference
  <1> QED
    BY <1>2, <1>3, <1>4 DEF GraphInv

(* As long as the facts and the records stay, what was said of them stays. *)
LEMMA RecordsKept ==
  ASSUME GraphInv,
         phase' = phase \/ (phase = "load" /\ phase' = "done"),
         next_window' = next_window,
         entity_facts' = entity_facts, relation_facts' = relation_facts,
         event_facts' = event_facts, local_to_global' = local_to_global,
         entities' = entities, rejected' = rejected, relations' = relations,
         events' = events, participations' = participations
  PROVE  /\ Collected' /\ InTurn' /\ References' /\ RelationEnds'
         /\ GraphGrounded' /\ RelationsAccounted' /\ EventsComplete'
  <1>1. /\ phase' \in {"load", "done"} => phase \in {"load", "done"}
        /\ next_window' = next_window
        /\ entity_facts' = entity_facts /\ relation_facts' = relation_facts
        /\ event_facts' = event_facts /\ local_to_global' = local_to_global
        /\ entities' = entities /\ rejected' = rejected
        /\ relations' = relations /\ events' = events /\ participations' = participations
    OBVIOUS
  <1>2. InTurn' /\ Collected' /\ RelationEnds'
    BY <1>1 DEF GraphInv, InTurn, Collected, RelationEnds
  <1>3. References'
    BY <1>1 DEF GraphInv, References, Reference
  <1>4. GraphGrounded'
    <2>1. \A window, local_id, id :
            Mentioned(window, local_id, id) = Mentioned(window, local_id, id)'
      BY <1>1 DEF Mentioned, Reference
    <2> QED
      BY <1>1, <2>1 DEF GraphInv, GraphGrounded
  <1>5. RelationsAccounted'
    <2>1. \A f : Subject(f)' = Subject(f) /\ Object(f)' = Object(f) /\ Reference(f)' = Reference(f)
      BY <1>1 DEF Subject, Object, ResolveLocalId, Reference
    <2>2. RelationsAccounted
      BY DEF GraphInv
    <2>3. SUFFICES ASSUME NEW f \in relation_facts, phase \in {"load", "done"}
                   PROVE  IF f \in rejected
      THEN \/ \E id \in {f.raw.subject_local_id, f.raw.object_local_id} :
                ~ \E g \in entity_facts : Reference(g) = <<f.window, id>>
           \/ Subject(f) = Object(f)
      ELSE \E r \in relations :
             /\ r.type = f.raw.type
             /\ f.provenance \subseteq r.provenance
             /\ r.subject = local_to_global[<<f.window, f.raw.subject_local_id>>]
             /\ r.object = local_to_global[<<f.window, f.raw.object_local_id>>]
      BY <1>1, <2>1, Zenon DEF RelationsAccounted
    <2> QED
      BY <2>2, <2>3, Zenon DEF RelationsAccounted
  <1>6. EventsComplete'
    <2>1. EventsComplete
      BY DEF GraphInv
    <2>2. event_facts' \ rejected' = event_facts \ rejected
      BY <1>1
    <2>3. SUFFICES ASSUME NEW f \in event_facts \ rejected, phase \in {"load", "done"}
                   PROVE  \E e \in events' :
        /\ e.predicate = f.raw.predicate /\ f.provenance \subseteq e.provenance
        /\ \A q \in Range(f.raw.participants) :
             \E p \in participations' :
               /\ p.event_id = e.event_id /\ p.role = q.role
               /\ p.entity_id = local_to_global'[<<f.window, q.entity_local_id>>]
               /\ f.provenance \subseteq p.provenance
               /\ p.provenance \subseteq e.provenance
      BY <1>1, <2>2, Zenon DEF EventsComplete
    <2>4. PICK e \in events :
        /\ e.predicate = f.raw.predicate /\ f.provenance \subseteq e.provenance
        /\ \A q \in Range(f.raw.participants) :
             \E p \in participations :
               /\ p.event_id = e.event_id /\ p.role = q.role
               /\ p.entity_id = local_to_global[<<f.window, q.entity_local_id>>]
               /\ f.provenance \subseteq p.provenance
               /\ p.provenance \subseteq e.provenance
      BY <2>1, <2>3, Zenon DEF EventsComplete
    <2> QED
      BY <1>1, <2>4
  <1> QED
    BY <1>2, <1>3, <1>4, <1>5, <1>6

(* from_records: the graph is read off the relations.                      *)
LEMMA LoadKeeps ==
  ASSUME GraphInv, LoadGraph
  PROVE  GraphInv'
  <1>1. /\ phase = "load" /\ phase' = "done" /\ next_window' = next_window
        /\ entity_facts' = entity_facts /\ relation_facts' = relation_facts
        /\ event_facts' = event_facts /\ local_to_global' = local_to_global
        /\ entities' = entities /\ rejected' = rejected
        /\ relations' = relations /\ events' = events /\ participations' = participations
    BY DEF LoadGraph, built, collected
  <1>2. /\ Collected' /\ InTurn' /\ References' /\ RelationEnds'
        /\ GraphGrounded' /\ RelationsAccounted' /\ EventsComplete'
    BY <1>1, RecordsKept
  <1>4. EdgesCoverRelations'
    <2>1. DOMAIN nodes' = {e.entity_id : e \in entities}
      BY DEF LoadGraph
    <2>2. edges' = [pair \in {Pair(r) : r \in relations} |->
                      MergedEdge({r \in relations : Pair(r) = pair})]
      BY DEF LoadGraph
    <2>3. ASSUME NEW pair \in DOMAIN edges' PROVE pair \subseteq DOMAIN nodes'
      <3>1. PICK r \in relations : pair = Pair(r)
        BY <2>2, <2>3
      <3> QED
        BY <2>1, <3>1 DEF Pair, GraphInv, RelationEnds
    <2>4. ASSUME NEW r \in relations
          PROVE  LET both == {s \in relations : {s.subject, s.object} = {r.subject, r.object}}
                     edge == edges'[{r.subject, r.object}]
                 IN  /\ r.provenance \subseteq edge.provenance
                     /\ edge.weight = TotalWeight(both)
                     /\ \E s \in both : s.type = edge.type
      <3> DEFINE both == {s \in relations : Pair(s) = Pair(r)}
      <3>1. both = {s \in relations : {s.subject, s.object} = {r.subject, r.object}}
              /\ Pair(r) = {r.subject, r.object}
        BY DEF Pair
      <3>2. r \in both /\ \A s \in both : s.type \in Range(RelationOrder)
        BY DEF GraphInv, RelationEnds
      <3>3. edges'[Pair(r)] = MergedEdge(both)
        BY <2>2
      <3> HIDE DEF both
      <3>4. /\ MergedEdge(both).weight = TotalWeight(both)
            /\ MergedEdge(both).provenance = AllProvenance(both)
            /\ \E s \in both : s.type = MergedEdge(both).type
        BY <3>2, CollapsedEdge
      <3>5. r.provenance \subseteq AllProvenance(both)
        BY <3>2, EvidenceOfGroup
      <3> QED
        BY <3>1, <3>3, <3>4, <3>5
    <2> QED
      BY <1>1, <2>3, <2>4 DEF EdgesCoverRelations
  <1> QED
    BY <1>2, <1>4 DEF GraphInv

(* _build_events: the participants of a fact are its own, resolved.        *)
LEMMA ParticipantsOf ==
  ASSUME NEW f
  PROVE  /\ \A p \in Range(Participants(f)) : \E q \in Range(f.raw.participants) :
              p = [id |-> ResolveLocalId(f.window, q.entity_local_id), role |-> q.role]
         /\ \A q \in Range(f.raw.participants) :
              [id |-> ResolveLocalId(f.window, q.entity_local_id), role |-> q.role]
                \in Range(Participants(f))
  BY DEF Participants, Range

(* A participant of a fact has a participation, with the fact's evidence.  *)
LEMMA ParticipationOfFact ==
  ASSUME NEW facts, NEW f \in facts, NEW id, NEW role,
         [id |-> id, role |-> role] \in Range(Participants(f))
  PROVE  LET p == ParticipationOf(<<id, EventId(f), role>>, facts)
         IN  /\ p.entity_id = id /\ p.event_id = EventId(f) /\ p.role = role
             /\ f.provenance \subseteq p.provenance
             /\ p.provenance \subseteq EventRecord(EventId(f), facts).provenance
  <1> DEFINE key == <<id, EventId(f), role>>
             support == Supporting(key, facts)
             group == {g \in facts : EventId(g) = EventId(f)}
  <1>1. support = {g \in facts : /\ EventId(g) = EventId(f)
                                 /\ [id |-> id, role |-> role] \in Range(Participants(g))}
    BY DEF Supporting
  <1>2. f \in support /\ support \subseteq group
    BY <1>1
  <1>3. ParticipationOf(key, facts) =
          [entity_id |-> id, event_id |-> EventId(f), role |-> role,
           weight |-> Weight(AllProvenance(support)), provenance |-> AllProvenance(support)]
    BY DEF ParticipationOf
  <1>4. EventRecord(EventId(f), facts).provenance = AllProvenance(group)
    BY DEF EventRecord
  <1> HIDE DEF support, group
  <1>5. f.provenance \subseteq AllProvenance(support)
    BY <1>2, EvidenceOfGroup
  <1>6. AllProvenance(support) \subseteq AllProvenance(group)
    BY <1>2, EvidenceGrows
  <1> QED
    BY <1>3, <1>4, <1>5, <1>6

(* An event has the predicate and the evidence of each fact it unites.     *)
LEMMA EventOfFact ==
  ASSUME NEW facts, NEW f \in facts,
         \A g \in facts : g.window \in Nat /\ g.raw.local_id \in Nat
  PROVE  /\ EventRecord(EventId(f), facts).event_id = EventId(f)
         /\ EventRecord(EventId(f), facts).predicate = f.raw.predicate
         /\ f.provenance \subseteq EventRecord(EventId(f), facts).provenance
  <1> DEFINE group == {g \in facts : EventId(g) = EventId(f)}
  <1>1. EventRecord(EventId(f), facts) =
          [event_id |-> EventId(f), predicate |-> Earliest(group).raw.predicate,
           temporal |-> Earliest(group).raw.temporal, provenance |-> AllProvenance(group)]
    BY DEF EventRecord
  <1>2. f \in group /\ \A g \in group : g \in facts /\ EventId(g) = EventId(f)
    OBVIOUS
  <1> HIDE DEF group
  <1>3. Earliest(group) \in group
    BY <1>2, EarliestInGroup
  <1>4. EventId(Earliest(group)) = EventId(f)
    BY <1>2, <1>3
  <1>5. \A g : EventId(g)[1] = g.raw.predicate
    BY DEF EventId
  <1>6. Earliest(group).raw.predicate = f.raw.predicate
    BY <1>4, <1>5
  <1>7. f.provenance \subseteq AllProvenance(group)
    BY <1>2, EvidenceOfGroup
  <1> QED
    BY <1>1, <1>6, <1>7

(* _build_relations: a relation's record has its ends, type and evidence.  *)
LEMMA RelationOfFact ==
  ASSUME NEW facts, NEW f \in facts
  PROVE  LET r == RelationOf(RelationKey(f), facts)
         IN  /\ r.subject = Subject(f) /\ r.object = Object(f) /\ r.type = f.raw.type
             /\ f.provenance \subseteq r.provenance
  <1> DEFINE group == {g \in facts : RelationKey(g) = RelationKey(f)}
  <1>1. RelationOf(RelationKey(f), facts) =
          [subject |-> RelationKey(f)[1], object |-> RelationKey(f)[2],
           type |-> RelationKey(f)[3], weight |-> Weight(AllProvenance(group)),
           provenance |-> AllProvenance(group)]
    BY DEF RelationOf
  <1>2. RelationKey(f) = <<Subject(f), Object(f), f.raw.type>>
    BY DEF RelationKey
  <1>3. f \in group
    OBVIOUS
  <1> HIDE DEF group
  <1>4. f.provenance \subseteq AllProvenance(group)
    BY <1>3, EvidenceOfGroup
  <1> QED
    BY <1>1, <1>2, <1>4

(* build_graph: what is built is grounded, and nothing found is lost.      *)
LEMMA BuildKeeps ==
  ASSUME GraphInv, BuildGraph
  PROVE  GraphInv'
  <1> DEFINE good_relations == {f \in relation_facts : ~RelationRejected(f)}
             good_events == {f \in event_facts : ~EventRejected(f)}
  <1>1. /\ phase = "build" /\ phase' = "load" /\ next_window' = next_window
        /\ entity_facts' = entity_facts /\ relation_facts' = relation_facts
        /\ event_facts' = event_facts /\ local_to_global' = local_to_global
        /\ entities' = entities
    BY DEF BuildGraph, collected
  <1>2. relations' = {RelationOf(RelationKey(f), good_relations) : f \in good_relations}
    BY DEF BuildGraph
  <1>3. events' = {EventRecord(EventId(f), good_events) : f \in good_events}
    BY DEF BuildGraph
  <1>4. participations' =
          {ParticipationOf(key, good_events) :
             key \in UNION {{<<p.id, EventId(f), p.role>> : p \in Range(Participants(f))} :
                              f \in good_events}}
    BY DEF BuildGraph
  <1>5. rejected' = (relation_facts \ good_relations) \union (event_facts \ good_events)
    BY DEF BuildGraph
  <1>6. \A window, local_id, id :
          Mentioned(window, local_id, id)' = Mentioned(window, local_id, id)
    BY <1>1 DEF Mentioned, Reference
  <1>7. \A window, local_id :
          ResolveLocalId(window, local_id) # None =>
            /\ ResolveLocalId(window, local_id) = local_to_global[<<window, local_id>>]
            /\ ResolveLocalId(window, local_id) \in EntityId
            /\ ResolveLocalId(window, local_id) \in {e.entity_id : e \in entities}
            /\ Mentioned(window, local_id, ResolveLocalId(window, local_id))
    BY <1>1, Resolves
  <1>8. \A f \in good_relations :
          /\ f \in relation_facts /\ Subject(f) # None /\ Object(f) # None
          /\ f.raw.type \in Range(RelationOrder)
    BY CollectedFacts DEF RelationRejected, GraphInv
  <1>9. \A f \in good_relations :
          /\ Subject(f) = local_to_global[<<f.window, f.raw.subject_local_id>>]
          /\ Object(f) = local_to_global[<<f.window, f.raw.object_local_id>>]
          /\ {Subject(f), Object(f)} \subseteq {e.entity_id : e \in entities}
          /\ Mentioned(f.window, f.raw.subject_local_id, Subject(f))
          /\ Mentioned(f.window, f.raw.object_local_id, Object(f))
    BY <1>7, <1>8 DEF Subject, Object
  <1>10. \A f \in good_events :
           /\ f \in event_facts
           /\ \A q \in Range(f.raw.participants) :
                ResolveLocalId(f.window, q.entity_local_id) # None
    <2> SUFFICES ASSUME NEW f \in good_events, NEW q \in Range(f.raw.participants)
                 PROVE  ResolveLocalId(f.window, q.entity_local_id) # None
      OBVIOUS
    <2>1. [id |-> ResolveLocalId(f.window, q.entity_local_id), role |-> q.role]
            \in Range(Participants(f))
      BY ParticipantsOf
    <2>2. \A p \in Range(Participants(f)) : p.id # None
      BY DEF EventRejected
    <2> QED
      BY <2>1, <2>2
  <1> HIDE DEF good_relations, good_events
  <1>11. InTurn' /\ Collected' /\ EdgesCoverRelations'
    BY <1>1 DEF GraphInv, InTurn, Collected, EdgesCoverRelations
  <1>12. References'
    BY <1>1 DEF GraphInv, References, Reference
  <1>13. ASSUME NEW r \in relations'
         PROVE  \E f \in good_relations :
                  /\ r.subject = Subject(f) /\ r.object = Object(f) /\ r.type = f.raw.type
                  /\ f.provenance \subseteq r.provenance
    <2>1. PICK f \in good_relations : r = RelationOf(RelationKey(f), good_relations)
      BY <1>2
    <2> QED
      BY <2>1, RelationOfFact
  <1>14. RelationEnds'
    <2> SUFFICES ASSUME NEW r \in relations'
                 PROVE  /\ {r.subject, r.object} \subseteq {e.entity_id : e \in entities}
                        /\ r.type \in Range(RelationOrder)
      BY <1>1 DEF RelationEnds
    <2>1. PICK f \in good_relations :
             r.subject = Subject(f) /\ r.object = Object(f) /\ r.type = f.raw.type
      BY <1>13
    <2> QED
      BY <2>1, <1>8, <1>9
  <1>15. GraphGrounded'
    <2>1. ASSUME NEW r \in relations'
          PROVE  \E f \in relation_facts :
                   /\ f.provenance \subseteq r.provenance
                   /\ Mentioned(f.window, f.raw.subject_local_id, r.subject)
                   /\ Mentioned(f.window, f.raw.object_local_id, r.object)
      <3>1. PICK f \in good_relations :
               /\ r.subject = Subject(f) /\ r.object = Object(f)
               /\ f.provenance \subseteq r.provenance
        BY <1>13
      <3> QED
        BY <3>1, <1>8, <1>9
    <2>2. ASSUME NEW p \in participations'
          PROVE  \E f \in event_facts :
                   /\ f.provenance \subseteq p.provenance
                   /\ \A q \in Range(f.raw.participants) : \E id \in EntityId :
                        Mentioned(f.window, q.entity_local_id, id)
                   /\ \E q \in Range(f.raw.participants) :
                        q.role = p.role /\ Mentioned(f.window, q.entity_local_id, p.entity_id)
      <3>1. PICK f \in good_events : \E u \in Range(Participants(f)) :
               p = ParticipationOf(<<u.id, EventId(f), u.role>>, good_events)
        BY <1>4
      <3>2. PICK u \in Range(Participants(f)) :
               p = ParticipationOf(<<u.id, EventId(f), u.role>>, good_events)
        BY <3>1
      <3>3. PICK q \in Range(f.raw.participants) :
               u = [id |-> ResolveLocalId(f.window, q.entity_local_id), role |-> q.role]
        BY ParticipantsOf
      <3>4. u = [id |-> u.id, role |-> u.role]
        BY <3>3
      <3>5. /\ p.entity_id = u.id /\ p.role = u.role /\ f.provenance \subseteq p.provenance
        BY <3>2, <3>4, ParticipationOfFact
      <3>6. q.role = p.role /\ Mentioned(f.window, q.entity_local_id, p.entity_id)
        BY <3>3, <3>5, <1>7, <1>10
      <3>7. \A w \in Range(f.raw.participants) : \E id \in EntityId :
              Mentioned(f.window, w.entity_local_id, id)
        BY <1>7, <1>10
      <3> QED
        BY <3>5, <3>6, <3>7, <1>10
    <2> QED
      BY <1>1, <1>6, <2>1, <2>2 DEF GraphGrounded
  <1>16. RelationsAccounted'
    <2>1. \A f : Subject(f)' = Subject(f) /\ Object(f)' = Object(f) /\ Reference(f)' = Reference(f)
      BY <1>1 DEF Subject, Object, ResolveLocalId, Reference
    <2>2. ASSUME NEW f \in relation_facts, f \in rejected'
          PROVE  \/ \E id \in {f.raw.subject_local_id, f.raw.object_local_id} :
                      ~ \E g \in entity_facts : Reference(g) = <<f.window, id>>
                 \/ Subject(f) = Object(f)
      <3>1. f \notin event_facts
        BY CollectedFacts DEF GraphInv
      <3>2. RelationRejected(f)
        BY <2>2, <3>1, <1>5 DEF good_relations
      <3>3. CASE Subject(f) = Object(f)
        BY <3>3
      <3>4. CASE Subject(f) = None
        BY <3>4, <1>1, Dangles DEF Subject
      <3>5. CASE Object(f) = None
        BY <3>5, <1>1, Dangles DEF Object
      <3> QED
        BY <3>2, <3>3, <3>4, <3>5 DEF RelationRejected
    <2>3. ASSUME NEW f \in relation_facts, f \notin rejected'
          PROVE  \E r \in relations' :
                   /\ r.type = f.raw.type
                   /\ f.provenance \subseteq r.provenance
                   /\ r.subject = local_to_global[<<f.window, f.raw.subject_local_id>>]
                   /\ r.object = local_to_global[<<f.window, f.raw.object_local_id>>]
      <3>1. f \in good_relations
        BY <1>5, <2>3
      <3>2. RelationOf(RelationKey(f), good_relations) \in relations'
        BY <3>1, <1>2
      <3> QED
        BY <3>1, <3>2, <1>9, RelationOfFact
    <2> QED
      BY <1>1, <2>1, <2>2, <2>3 DEF RelationsAccounted
  <1>17. EventsComplete'
    <2>1. ASSUME NEW f \in event_facts \ rejected'
          PROVE  \E e \in events' :
                   /\ e.predicate = f.raw.predicate /\ f.provenance \subseteq e.provenance
                   /\ \A q \in Range(f.raw.participants) :
                        \E p \in participations' :
                          /\ p.event_id = e.event_id /\ p.role = q.role
                          /\ p.entity_id = local_to_global[<<f.window, q.entity_local_id>>]
                          /\ f.provenance \subseteq p.provenance
                          /\ p.provenance \subseteq e.provenance
      <3> DEFINE e == EventRecord(EventId(f), good_events)
      <3>1. f \in good_events
        BY <1>5, <2>1
      <3>2. e \in events'
        BY <3>1, <1>3
      <3>3. \A g \in good_events : g.window \in Nat /\ g.raw.local_id \in Nat
        BY <1>10, CollectedFacts DEF GraphInv
      <3>4. /\ e.event_id = EventId(f) /\ e.predicate = f.raw.predicate
            /\ f.provenance \subseteq e.provenance
        BY <3>1, <3>3, EventOfFact
      <3>5. ASSUME NEW q \in Range(f.raw.participants)
            PROVE  \E p \in participations' :
                     /\ p.event_id = EventId(f) /\ p.role = q.role
                     /\ p.entity_id = local_to_global[<<f.window, q.entity_local_id>>]
                     /\ f.provenance \subseteq p.provenance
                     /\ p.provenance \subseteq e.provenance
        <4> DEFINE id == ResolveLocalId(f.window, q.entity_local_id)
                   p == ParticipationOf(<<id, EventId(f), q.role>>, good_events)
        <4>1. [id |-> id, role |-> q.role] \in Range(Participants(f))
          BY ParticipantsOf
        <4>2. p \in participations'
          BY <4>1, <3>1, <1>4
        <4>3. /\ p.entity_id = id /\ p.event_id = EventId(f) /\ p.role = q.role
              /\ f.provenance \subseteq p.provenance /\ p.provenance \subseteq e.provenance
          BY <3>1, <4>1, ParticipationOfFact
        <4>4. id = local_to_global[<<f.window, q.entity_local_id>>]
          BY <3>1, <1>7, <1>10
        <4> QED
          BY <4>2, <4>3, <4>4
      <3> QED
        BY <3>2, <3>4, <3>5
    <2> QED
      BY <1>1, <2>1 DEF EventsComplete
  <1> QED
    BY <1>11, <1>12, <1>14, <1>15, <1>16, <1>17 DEF GraphInv

(* A step that changes nothing.                                            *)
LEMMA StutterKeeps ==
  ASSUME GraphInv, UNCHANGED vars
  PROVE  GraphInv'
  <1>1. /\ phase' = phase /\ next_window' = next_window
        /\ entity_facts' = entity_facts /\ relation_facts' = relation_facts
        /\ event_facts' = event_facts /\ local_to_global' = local_to_global
        /\ entities' = entities /\ rejected' = rejected
        /\ relations' = relations /\ events' = events /\ participations' = participations
        /\ nodes' = nodes /\ edges' = edges
    BY DEF vars, collected, built, graph
  <1>2. /\ Collected' /\ InTurn' /\ References' /\ RelationEnds'
        /\ GraphGrounded' /\ RelationsAccounted' /\ EventsComplete'
    BY <1>1, RecordsKept
  <1>4. EdgesCoverRelations'
    BY <1>1 DEF GraphInv, EdgesCoverRelations
  <1> QED
    BY <1>2, <1>4 DEF GraphInv

-----------------------------------------------------------------------------
(* Every reachable state has GraphInv: what was found in the text is       *)
(* accounted for in the graph, and the graph holds nothing else.           *)
THEOREM GraphInvariant == Spec => []GraphInv
  <1>1. Init => GraphInv
    BY WindowCountAssumption
    DEF Init, GraphInv, InTurn, Collected, References, RelationEnds, GraphGrounded,
        RelationsAccounted, EventsComplete, EdgesCoverRelations
  <1>2. GraphInv /\ [Next]_vars => GraphInv'
    BY ExtractKeeps, SkipKeeps, ResolveKeeps, BuildKeeps, LoadKeeps, StutterKeeps DEF Next
  <1> QED
    BY <1>1, <1>2, PTL DEF Spec

(* _build_relations, _build_events: behind every relation and every        *)
(* participation there is a fact found in the text, and the entities it    *)
(* speaks of were found in the same window.                                *)
THEOREM GraphIsGrounded == Spec => []GraphGrounded
  <1>1. GraphInv => GraphGrounded
    BY DEF GraphInv
  <1> QED
    BY <1>1, GraphInvariant, PTL

(* _build_relations: a relation that was found is in the graph in its own  *)
(* direction, with its evidence, or it is quarantined for a reason.        *)
THEOREM EveryRelationAccounted == Spec => []RelationsAccounted
  <1>1. GraphInv => RelationsAccounted
    BY DEF GraphInv
  <1> QED
    BY <1>1, GraphInvariant, PTL

(* _build_events: uniting what windows tell of an event loses no witness   *)
(* and no participant.                                                     *)
THEOREM EventsAreComplete == Spec => []EventsComplete
  <1>1. GraphInv => EventsComplete
    BY DEF GraphInv
  <1> QED
    BY <1>1, GraphInvariant, PTL

(* EntityGraph.from_records: an edge keeps what it collapses.              *)
THEOREM EdgesCoverTheirRelations == Spec => []EdgesCoverRelations
  <1>1. GraphInv => EdgesCoverRelations
    BY DEF GraphInv
  <1> QED
    BY <1>1, GraphInvariant, PTL
=============================================================================
