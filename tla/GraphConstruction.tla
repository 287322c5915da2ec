------------------------- MODULE GraphConstruction -------------------------
(***************************************************************************)
(* build_graph_for_novel: the windows of a novel are extracted one by one, *)
(* facts whose quotes resolve to chunks are collected, mentions become     *)
(* entities, and relations and events are built from what can be resolved. *)
(*                                                                         *)
(* A span is a pair <<chunk, start>>; chunks are numbers, and the order of *)
(* their ids says nothing about the text.  Each quote of a raw fact is the *)
(* set of spans it resolves to, empty when it is not found.  How mentions  *)
(* are grouped is EntityResolution's concern: here any grouping may come   *)
(* out of resolve_entities, and two components may share an entity id.     *)
(***************************************************************************)
EXTENDS SequencesExt

CONSTANTS
  WindowCount,   \* how many windows the text is segmented into
  Extraction,    \* what the extractor may answer for a window
  EntityId,      \* the global entity ids
  RelationOrder, \* the relation types, in lexicographic order
  None           \* no entity

ASSUME WindowCountAssumption == WindowCount \in Nat

(* Entity ids are strings; a relation's type is one of the enumeration;    *)
(* local ids stand for numbers; relations and events are told apart.       *)
ASSUME ExtractionAssumption ==
  /\ None \notin EntityId
  /\ \A x \in Extraction :
       /\ \A r \in x.relations : r.type \in Range(RelationOrder)
       /\ \A v \in x.events : v.local_id \in Nat
       /\ \A y \in Extraction : x.relations \intersect y.events = {}
  /\ RelationOrder \in Seq(Range(RelationOrder))

VARIABLES
  next_window,      \* the window to extract next
  entity_facts,     \* resolved mentions: [window, local_id, provenance]
  relation_facts,   \* resolved relations, with the window they came from
  event_facts,      \* resolved events, with the window they came from
  local_to_global,  \* <<window, local id>> -> entity id
  entities,         \* EntityRecords: [entity_id, provenance]
  relations,        \* EntityRelations of the ConstructedGraph
  events,           \* EventRecords
  participations,   \* EventParticipations
  rejected,         \* rejected_relations and rejected_events
  nodes,            \* EntityGraph: entity id -> record
  edges,            \* EntityGraph: unordered pair of ids -> relation
  phase             \* "extract", "build", "load", "done", "raised"

collected == <<entity_facts, relation_facts, event_facts>>
built == <<relations, events, participations, rejected>>
graph == <<nodes, edges>>
vars == <<next_window, collected, local_to_global, entities, built, graph, phase>>

-----------------------------------------------------------------------------
(* _resolve_fact: the spans of the quotes that were found. *)
Provenance(raw) == UNION raw.quotes

(* Mutant: a fact with any quote at all passes. *)
Quoted(window, raws) ==
  {[window |-> window, raw |-> raw, provenance |-> Provenance(raw)] :
     raw \in {r \in raws : r.quotes # {}}}

(* A fact none of whose quotes is found is quarantined. *)
Resolved(window, raws) ==
  {[window |-> window, raw |-> raw, provenance |-> Provenance(raw)] :
     raw \in {r \in raws : Provenance(r) # {}}}

Chunks(provenance) == {span[1] : span \in provenance}

(* _dedupe_provenance *)
AllProvenance(facts) == UNION {f.provenance : f \in facts}

Weight(provenance) == Cardinality(Chunks(provenance))

(* Mutant: a local id means the same in every window. *)
LookupAnywhere(window, local_id) ==
  LET keys == {k \in DOMAIN local_to_global : k[2] = local_id}
  IN  IF keys = {} THEN None ELSE local_to_global[CHOOSE k \in keys : TRUE]

(* EntityResolutionResult.resolve_local_id *)
ResolveLocalId(window, local_id) ==
  IF <<window, local_id>> \in DOMAIN local_to_global
  THEN local_to_global[<<window, local_id>>] ELSE None

-----------------------------------------------------------------------------
(* _build_relations *)

Subject(f) == ResolveLocalId(f.window, f.raw.subject_local_id)
Object(f) == ResolveLocalId(f.window, f.raw.object_local_id)

(* A dangling reference, or one entity related to itself. *)
RelationRejected(f) == None \in {Subject(f), Object(f)} \/ Subject(f) = Object(f)

(* Mutant: relations without a direction, ends in a fixed order. *)
UndirectedKey(f) == <<CHOOSE e \in {Subject(f), Object(f)} : TRUE,
                      CHOOSE e \in {Subject(f), Object(f)} :
                        e # (CHOOSE d \in {Subject(f), Object(f)} : TRUE), f.raw.type>>

RelationKey(f) == <<Subject(f), Object(f), f.raw.type>>

RelationOf(key, facts) ==
  LET provenance == AllProvenance({f \in facts : RelationKey(f) = key})
  IN  [subject |-> key[1], object |-> key[2], type |-> key[3],
       weight |-> Weight(provenance), provenance |-> provenance]

-----------------------------------------------------------------------------
(* _build_events *)

Participants(f) ==
  [i \in DOMAIN f.raw.participants |->
     [id |-> ResolveLocalId(f.window, f.raw.participants[i].entity_local_id),
      role |-> f.raw.participants[i].role]]

EventRejected(f) == \E p \in Range(Participants(f)) : p.id = None

(* The first span in (chunk_id, char_start) order. *)
Anchor(provenance) ==
  CHOOSE s \in provenance : \A t \in provenance :
    s[1] < t[1] \/ (s[1] = t[1] /\ s[2] <= t[2])

(* The hash of predicate, participants in sorted order, and anchor: equal  *)
(* exactly when each entity takes part equally often.                      *)
EventId(f) ==
  LET count(e) == Cardinality({i \in DOMAIN Participants(f) : Participants(f)[i].id = e})
  IN  <<f.raw.predicate,
        [e \in {p.id : p \in Range(Participants(f))} |-> count(e)],
        Anchor(f.provenance)>>

(* _fact_sort_key: chapter and window, then the local id, here a number. *)
Earliest(facts) ==
  CHOOSE f \in facts : \A g \in facts :
    f.window < g.window \/ (f.window = g.window /\ f.raw.local_id <= g.raw.local_id)

EventRecord(id, facts) ==
  LET group == {f \in facts : EventId(f) = id}
  IN  [event_id |-> id, predicate |-> Earliest(group).raw.predicate,
       temporal |-> Earliest(group).raw.temporal,
       provenance |-> AllProvenance(group)]

(* Mutant: only the event's canonical fact counts. *)
SupportingEarliest(key, facts) ==
  {f \in {Earliest({g \in facts : EventId(g) = key[2]})} :
     [id |-> key[1], role |-> key[3]] \in Range(Participants(f))}

(* The facts behind one (entity, event, role). *)
Supporting(key, facts) ==
  {f \in facts : /\ EventId(f) = key[2]
                 /\ [id |-> key[1], role |-> key[3]] \in Range(Participants(f))}

ParticipationOf(key, facts) ==
  LET provenance == AllProvenance(Supporting(key, facts))
  IN  [entity_id |-> key[1], event_id |-> key[2], role |-> key[3],
       weight |-> Weight(provenance), provenance |-> provenance]

-----------------------------------------------------------------------------
(* EntityGraph.from_records: one edge per unordered pair of nodes. *)

Pair(r) == {r.subject, r.object}

(* Mutant: the relation added last keeps the edge. *)
LastRelation(pair_relations) ==
  LET last == CHOOSE r \in pair_relations : TRUE
  IN  [type |-> last.type, weight |-> last.weight, provenance |-> last.provenance]

TotalWeight(pair_relations) == MapThenSumSet(LAMBDA r : r.weight, pair_relations)

(* Parallel relations collapse: weights summed, provenance united, and the *)
(* type that sorts first.                                                  *)
MergedEdge(pair_relations) ==
  LET rank(r) == CHOOSE i \in DOMAIN RelationOrder : RelationOrder[i] = r.type
  IN  [type |-> RelationOrder[Min({rank(r) : r \in pair_relations})],
       weight |-> TotalWeight(pair_relations),
       provenance |-> AllProvenance(pair_relations)]

-----------------------------------------------------------------------------
Init ==
  /\ next_window = 1
  /\ entity_facts = {} /\ relation_facts = {} /\ event_facts = {}
  /\ local_to_global = <<>> /\ entities = {}
  /\ relations = {} /\ events = {} /\ participations = {} /\ rejected = {}
  /\ nodes = <<>> /\ edges = <<>>
  /\ phase = "extract"

(* extract() and resolve_window_provenance() for one window. *)
ExtractWindow(extraction) ==
  /\ phase = "extract"
  /\ next_window <= WindowCount
  /\ entity_facts' = entity_facts \union Resolved(next_window, extraction.entities)
  /\ relation_facts' = relation_facts \union Resolved(next_window, extraction.relations)
  /\ event_facts' = event_facts \union Resolved(next_window, extraction.events)
  /\ next_window' = next_window + 1
  /\ UNCHANGED <<local_to_global, entities, built, graph, phase>>

(* A ValueError of the extractor costs the novel that window only. *)
SkipWindow ==
  /\ phase = "extract"
  /\ next_window <= WindowCount
  /\ next_window' = next_window + 1
  /\ UNCHANGED <<collected, local_to_global, entities, built, graph, phase>>

(* Any other exception is not caught: there is no graph. *)
RaiseFromExtractor ==
  /\ phase = "extract"
  /\ next_window <= WindowCount
  /\ phase' = "raised"
  /\ UNCHANGED <<next_window, collected, local_to_global, entities, built, graph>>

Reference(f) == <<f.window, f.raw.local_id>>

(* resolve_entities: any grouping of the mentions into components, told    *)
(* apart by their entity id and a mark; of mentions with the same window   *)
(* and local id, the one whose component comes last keeps the reference.   *)
ResolveEntities ==
  /\ phase = "extract"
  /\ next_window > WindowCount
  /\ \E component \in [entity_facts -> EntityId \X BOOLEAN] :
       /\ entities' =
            {[entity_id |-> c[1],
              provenance |-> AllProvenance({f \in entity_facts : component[f] = c})] :
               c \in Range(component)}
       /\ \E last \in [{Reference(f) : f \in entity_facts} -> entity_facts] :
            /\ \A ref \in DOMAIN last : Reference(last[ref]) = ref
            /\ local_to_global' = [ref \in DOMAIN last |-> component[last[ref]][1]]
  /\ phase' = "build"
  /\ UNCHANGED <<next_window, collected, built, graph>>

(* build_graph: _build_relations, then _build_events. *)
BuildGraph ==
  LET good_relations == {f \in relation_facts : ~RelationRejected(f)}
      good_events    == {f \in event_facts : ~EventRejected(f)}
  IN  /\ phase = "build"
      /\ relations' = {RelationOf(RelationKey(f), good_relations) : f \in good_relations}
      /\ events' = {EventRecord(EventId(f), good_events) : f \in good_events}
      /\ participations' =
           {ParticipationOf(key, good_events) :
              key \in UNION {{<<p.id, EventId(f), p.role>> : p \in Range(Participants(f))} :
                               f \in good_events}}
      /\ rejected' = (relation_facts \ good_relations) \union (event_facts \ good_events)
      /\ phase' = "load"
      /\ UNCHANGED <<next_window, collected, local_to_global, entities, graph>>

(* from_records: a node keeps the record of its id that is added last. *)
LoadGraph ==
  /\ phase = "load"
  /\ \E added_last \in [{e.entity_id : e \in entities} -> entities] :
       /\ \A id \in DOMAIN added_last : added_last[id].entity_id = id
       /\ nodes' = added_last
  /\ edges' = [pair \in {Pair(r) : r \in relations} |->
                 MergedEdge({r \in relations : Pair(r) = pair})]
  /\ phase' = "done"
  /\ UNCHANGED <<next_window, collected, local_to_global, entities, built>>

Next ==
  \/ \E extraction \in Extraction : ExtractWindow(extraction)
  \/ SkipWindow
  \/ RaiseFromExtractor
  \/ ResolveEntities
  \/ BuildGraph
  \/ LoadGraph

Spec == Init /\ [][Next]_vars
-----------------------------------------------------------------------------
TypeOK ==
  /\ next_window \in 1..(WindowCount + 1)
  /\ \A f \in entity_facts \union relation_facts \union event_facts :
       f.window \in 1..WindowCount /\ f.provenance # {}
  /\ \A ref \in DOMAIN local_to_global : local_to_global[ref] \in EntityId
  /\ \A e \in entities : e.entity_id \in EntityId /\ e.provenance # {}
  /\ \A r \in relations : {r.subject, r.object} \subseteq EntityId /\ r.weight > 0
  /\ \A p \in participations : p.entity_id \in EntityId /\ p.weight > 0
  /\ phase \in {"extract", "build", "load", "done", "raised"}

(* The mention a fact of some window refers to by a local id: it is one of *)
(* that window, was found in the text, and its entity has its evidence.    *)
Mentioned(window, local_id, id) ==
  \E f \in entity_facts :
    /\ Reference(f) = <<window, local_id>>
    /\ \E e \in entities : e.entity_id = id /\ f.provenance \subseteq e.provenance

(* Nothing reaches the graph on the extractor's word alone: behind every   *)
(* relation and every participation there is a fact found in the text, and *)
(* the entities it speaks of were themselves found in the same window ("a  *)
(* relation or event reaches the graph only if every entity it references  *)
(* was itself successfully resolved").                                     *)
GraphGrounded ==
  /\ \A r \in relations :
       \E f \in relation_facts :
         /\ f.provenance \subseteq r.provenance
         /\ Mentioned(f.window, f.raw.subject_local_id, r.subject)
         /\ Mentioned(f.window, f.raw.object_local_id, r.object)
  /\ \A p \in participations :
       \E f \in event_facts :
         /\ f.provenance \subseteq p.provenance
         /\ \A q \in Range(f.raw.participants) : \E id \in EntityId :
              Mentioned(f.window, q.entity_local_id, id)
         /\ \E q \in Range(f.raw.participants) :
              q.role = p.role /\ Mentioned(f.window, q.entity_local_id, p.entity_id)

(* No relation that was found is lost or turned round: it is quarantined,  *)
(* or an edge in its own direction carries its evidence, and a fact is     *)
(* quarantined only when an entity was not found or both ends are one.     *)
RelationsAccounted ==
  phase \in {"load", "done"} =>
    \A f \in relation_facts :
      IF f \in rejected
      THEN \/ \E id \in {f.raw.subject_local_id, f.raw.object_local_id} :
                ~ \E g \in entity_facts : Reference(g) = <<f.window, id>>
           \/ Subject(f) = Object(f)
      ELSE \E r \in relations :
             /\ r.type = f.raw.type
             /\ f.provenance \subseteq r.provenance
             /\ r.subject = local_to_global[<<f.window, f.raw.subject_local_id>>]
             /\ r.object = local_to_global[<<f.window, f.raw.object_local_id>>]

(* Windows that tell of the same event are united without losing a witness *)
(* or a participant: each fact's evidence is on the event and on the       *)
(* participation of every entity it names, and on no participation that    *)
(* the event does not have the evidence for.                               *)
EventsComplete ==
  phase \in {"load", "done"} =>
    \A f \in event_facts \ rejected :
      \E e \in events :
        /\ e.predicate = f.raw.predicate /\ f.provenance \subseteq e.provenance
        /\ \A q \in Range(f.raw.participants) :
             \E p \in participations :
               /\ p.event_id = e.event_id /\ p.role = q.role
               /\ p.entity_id = local_to_global[<<f.window, q.entity_local_id>>]
               /\ f.provenance \subseteq p.provenance
               /\ p.provenance \subseteq e.provenance

(* The traversal view keeps what it collapses: between two nodes, the edge *)
(* weighs as much as all relations of the pair, either way round, and has  *)
(* all their evidence and one of their types.                              *)
EdgesCoverRelations ==
  phase = "done" =>
    /\ \A pair \in DOMAIN edges : pair \subseteq DOMAIN nodes
    /\ \A r \in relations :
         LET both == {s \in relations : {s.subject, s.object} = {r.subject, r.object}}
             edge == edges[{r.subject, r.object}]
         IN  /\ r.provenance \subseteq edge.provenance
             /\ edge.weight = TotalWeight(both)
             /\ \E s \in both : s.type = edge.type
=============================================================================
