-------------------------- MODULE EntityResolution --------------------------
(***************************************************************************)
(* lncvs.graph.entity_resolution: entity mentions of all windows are       *)
(* grouped into components by shared names, and each component becomes one *)
(* EntityRecord.  EntityGraph.from_records then loads the records.         *)
(*                                                                         *)
(* A surface form is the sequence of its lower-cased words.  Mentions are  *)
(* numbered in the order of their content hash, which says nothing about   *)
(* the text, so Init takes any sequence of facts.  The union-find forest   *)
(* is represented by its _find function: leader[m] is the root of m.       *)
(***************************************************************************)
EXTENDS Sequences, FiniteSetsExt

CONSTANTS
  MentionCount,     \* how many entity mentions were resolved
  Fact,             \* the ResolvedFacts a mention may be (see TypeOK)
  SurfaceOrder,     \* the surface forms in play, in lexicographic order
  Title,            \* _TITLE_PREFIXES
  GenericToken,     \* _GENERIC_REFERENT_TOKENS
  Particle,         \* _NOBILIARY_PARTICLES
  MaleJunior, MaleSenior, FemaleUnmarried, FemaleMarried, MaleNeutral,
                    \* the relationship markers of _qualifier_tag
  TagOrder          \* the tags in play, in lexicographic order

ASSUME MentionCountAssumption == MentionCount \in Nat

Mention == 1..MentionCount

VARIABLES
  facts,            \* ordered: the mentions in processing order
  leader,           \* _find(parent, m) for every mention m
  plain,            \* mention sets of unambiguous keys still to be united
  contested,        \* mention sets of ambiguous keys still to be united
  entities,         \* one EntityRecord per component, by its root
  local_to_global,  \* window-scoped local id -> entity_id
  phase             \* "union", then "resolved"

vars == <<facts, leader, plain, contested, entities, local_to_global, phase>>

-----------------------------------------------------------------------------
(* normalization.py and the qualifier of a surface form *)

(* The words left after the leading titles. *)
NormName(surface) ==
  LET named == {i \in DOMAIN surface : surface[i] \notin Title}
  IN  IF named = {} THEN <<>> ELSE SubSeq(surface, Min(named), Len(surface))

(* Mutant: only an empty key is generic. *)
IsTitleOnly(key) == key = <<>>

IsGenericReferent(key) == Range(key) \subseteq GenericToken

NoTag == {}

(* The key of a surface is its suffix, so its qualifier is what precedes.  *)
QualifierTag(surface) ==
  LET prefix == {surface[i] : i \in 1..(Len(surface) - Len(NormName(surface)))}
      distinguishing == prefix \ (GenericToken \union MaleJunior \union MaleSenior
        \union FemaleUnmarried \union FemaleMarried \union MaleNeutral)
  IN  IF distinguishing # {} THEN {"other"} \union distinguishing
      ELSE IF prefix \intersect MaleJunior # {} THEN {"male_junior"}
      ELSE IF prefix \intersect MaleSenior # {} THEN {"male_senior"}
      ELSE IF prefix \intersect FemaleUnmarried # {} THEN {"female_unmarried"}
      ELSE IF prefix \intersect FemaleMarried # {} THEN {"female_married"}
      ELSE NoTag

(* A fact's aliases are a sequence of surface forms, and the tags of its   *)
(* surface forms are among the tags in play.                               *)
ASSUME TagAssumption ==
  /\ TagOrder \in Seq(Range(TagOrder))
  /\ \A x \in Fact :
       /\ x.aliases \in Seq(Range(x.aliases))
       /\ \A s \in Range(<<x.name>> \o x.aliases) :
            QualifierTag(s) \in Range(TagOrder) \union {NoTag}

-----------------------------------------------------------------------------
(* Merge keys.  Operators take the facts they are about, f. *)

SurfacesOf(f, m) == <<f[m].name>> \o f[m].aliases

PrimaryKeys(f) ==
  {k \in {NormName(f[m].name) : m \in Mention} : ~IsGenericReferent(k)}

(* Clause A: an alias is a key only if it is some mention's own name. *)
Keys(f, m) ==
  {NormName(s) : s \in Range(SurfacesOf(f, m))} \intersect PrimaryKeys(f)

Indices(f, key) == {m \in Mention : key \in Keys(f, m)}

BestTagForKey(f, m, key) ==
  LET s == SurfacesOf(f, m)
      tagged == {i \in DOMAIN s : NormName(s[i]) = key /\ QualifierTag(s[i]) # NoTag}
  IN  IF tagged = {} THEN NoTag ELSE QualifierTag(s[Min(tagged)])

IsWeakKey(key) == Len(key) = 1 \/ key[1] \in Particle

TagsOf(f, key) == {BestTagForKey(f, m, key) : m \in Indices(f, key)} \ {NoTag}

(* Two relationship tags, two distinguishing ones, or one of each. *)
AmbiguousKeys(f) ==
  {k \in PrimaryKeys(f) : IsWeakKey(k) /\ Cardinality(TagsOf(f, k)) >= 2}

Tagged(f, key, tag) == {m \in Indices(f, key) : BestTagForKey(f, m, key) = tag}

(* The most frequent tag; among equals the first in sorted order. *)
AnchorTag(f, key) ==
  LET count(i) == Cardinality(Tagged(f, key, TagOrder[i]))
      present  == {i \in DOMAIN TagOrder : TagOrder[i] \in TagsOf(f, key)}
  IN  TagOrder[Min({i \in present : \A j \in present : count(i) >= count(j)})]

(* A group: the mention its unions start from, and its members.  Bare      *)
(* mentions are folded into the anchor group, after the tagged ones.       *)
Group(f, key, tag) ==
  [first |-> Min(Tagged(f, key, tag)),
   members |-> Tagged(f, key, tag) \union
     (IF tag = AnchorTag(f, key) THEN Tagged(f, key, NoTag) ELSE {})]

TagGroups(f, key) == {Group(f, key, tag) : tag \in TagsOf(f, key)}

(* Mutant: the ambiguous key itself counts as corroboration. *)
CorroboratedByAnyKey(f, key, G, H) ==
  \E i \in G.members, j \in H.members : Keys(f, i) \intersect Keys(f, j) # {}

Corroborated(f, key, G, H) ==
  \E i \in G.members, j \in H.members :
    (Keys(f, i) \intersect Keys(f, j)) \ {key} # {}

(* Mutant: only names that qualify as full names are united. *)
StrongLinks(f) ==
  {Indices(f, k) : k \in {p \in PrimaryKeys(f) : ~IsWeakKey(p)}}

(* The sets compute_components and _resolve_ambiguous_keys unite. *)
PlainLinks(f) == {Indices(f, k) : k \in PrimaryKeys(f) \ AmbiguousKeys(f)}

ContestedLinks(f) ==
  UNION {{G.members : G \in TagGroups(f, k)} \union
         {{p[1].first, p[2].first} :
            p \in {q \in TagGroups(f, k) \X TagGroups(f, k) :
                     q[1] # q[2] /\ Corroborated(f, k, q[1], q[2])}} :
         k \in AmbiguousKeys(f)}

Links(f) == PlainLinks(f) \union ContestedLinks(f)

-----------------------------------------------------------------------------
(* The record of a component *)

(* Most frequent name, then the earliest, then the smallest. *)
SelectCanonicalName(f, members) ==
  LET named(s)    == {m \in members : f[m].name = s}
      earliest(s) == Min(UNION {f[m].provenance : m \in named(s)})
      names       == {i \in DOMAIN SurfaceOrder : named(SurfaceOrder[i]) # {}}
      better(i, j) ==
        LET s == SurfaceOrder[i]
            t == SurfaceOrder[j]
        IN  \/ Cardinality(named(s)) > Cardinality(named(t))
            \/ /\ Cardinality(named(s)) = Cardinality(named(t))
               /\ \/ earliest(s) < earliest(t)
                  \/ earliest(s) = earliest(t) /\ i <= j
  IN  SurfaceOrder[CHOOSE i \in names : \A j \in names : better(i, j)]

(* The majority type; a tie is OTHER. *)
SelectEntityType(f, members) ==
  LET count(t) == Cardinality({m \in members : f[m].type = t})
      types    == {f[m].type : m \in members}
      winners  == {t \in types : \A u \in types : count(t) >= count(u)}
  IN  IF Cardinality(winners) = 1 THEN CHOOSE t \in winners : TRUE ELSE "OTHER"

(* The hash of name and type is taken to be injective. *)
MakeEntityId(canonical_name, entity_type) == <<canonical_name, entity_type>>

MergeComponent(f, members) ==
  LET name == SelectCanonicalName(f, members)
      type == SelectEntityType(f, members)
  IN  [entity_id |-> MakeEntityId(name, type), canonical_name |-> name,
       entity_type |-> type,
       provenance |-> UNION {f[m].provenance : m \in members}]

-----------------------------------------------------------------------------
(* Mutant: the members are moved without the rest of their classes. *)
UniteMembersOnly(forest, members) ==
  [m \in Mention |->
     IF m \in members THEN Min({forest[n] : n \in members}) ELSE forest[m]]

(* A loop of _union over a set of mentions: the smallest root remains. *)
Unite(forest, members) ==
  LET roots == {forest[m] : m \in members}
  IN  [m \in Mention |-> IF forest[m] \in roots THEN Min(roots) ELSE forest[m]]

ComponentOf(root) == {m \in Mention : leader[m] = root}

Roots == {leader[m] : m \in Mention}

Init ==
  /\ facts \in [Mention -> Fact]
  /\ leader = [m \in Mention |-> m]
  /\ plain = PlainLinks(facts)
  /\ contested = ContestedLinks(facts)
  /\ entities = <<>>
  /\ local_to_global = <<>>
  /\ phase = "union"

(* Keys in any order: the code takes them in dictionary order. *)
UnitePlainKey(members) ==
  /\ phase = "union"
  /\ members \in plain
  /\ leader' = Unite(leader, members)
  /\ plain' = plain \ {members}
  /\ UNCHANGED <<facts, contested, entities, local_to_global, phase>>

(* Ambiguous keys are a Python set, so their order varies between runs; a  *)
(* key's own unions are taken in any order too.                            *)
ResolveAmbiguousKey(members) ==
  /\ phase = "union"
  /\ plain = {}
  /\ members \in contested
  /\ leader' = Unite(leader, members)
  /\ contested' = contested \ {members}
  /\ UNCHANGED <<facts, plain, entities, local_to_global, phase>>

(* Components come in the order of their roots, so a local id used by two  *)
(* mentions ends up with the component of the larger root.                 *)
ResolveEntities ==
  /\ phase = "union"
  /\ plain = {}
  /\ contested = {}
  /\ entities' = [r \in Roots |-> MergeComponent(facts, ComponentOf(r))]
  /\ local_to_global' =
       [id \in {facts[m].local_id : m \in Mention} |->
          entities'[Max({leader[m] : m \in {n \in Mention : facts[n].local_id = id}})].entity_id]
  /\ phase' = "resolved"
  /\ UNCHANGED <<facts, leader, plain, contested>>

Next ==
  \/ \E members \in plain : UnitePlainKey(members)
  \/ \E members \in contested : ResolveAmbiguousKey(members)
  \/ ResolveEntities

Spec == Init /\ [][Next]_vars

-----------------------------------------------------------------------------
TypeOK ==
  /\ facts \in [Mention -> Fact]
  /\ leader \in [Mention -> Mention]
  /\ plain \subseteq SUBSET Mention
  /\ contested \subseteq SUBSET Mention
  /\ DOMAIN entities \subseteq Mention
  /\ phase \in {"union", "resolved"}

(* The smaller index becomes the root: a root leads itself, and no mention *)
(* comes before its root.                                                  *)
RootsAreLeast ==
  \A m \in Mention : leader[leader[m]] = leader[m] /\ leader[m] <= m

(* The sets of mentions that no link leaves: two mentions are connected    *)
(* when no closed set separates them.                                      *)
ClosedSets(links) ==
  {C \in SUBSET Mention : \A S \in links : S \intersect C # {} => S \subseteq C}

(* The components are exactly the connected components of the links, so    *)
(* they do not depend on the order in which keys were united: "the same    *)
(* input always produces the same components regardless of process or      *)
(* hash-seed" (module docstring of merge.py).                              *)
ComponentsAreExact ==
  phase = "resolved" =>
    LET closed == ClosedSets(Links(facts))
    IN  \A i, j \in Mention :
          leader[i] = leader[j] <=> \A C \in closed : i \in C => j \in C

(* Whatever key is processed next, mentions once united stay united.       *)
MergesAreFinal ==
  [][\A i, j \in Mention : leader[i] = leader[j] => leader'[i] = leader'[j]]_vars

(* Two mentions with conflicting qualifiers on a shared weak name ("Baron  *)
(* Danglars", "Madame Danglars") never end in one component through that   *)
(* name alone: some member of the component has a second key (Clause B).   *)
ContrastNeedsSecondKey ==
  phase = "resolved" =>
    LET keys == [m \in Mention |-> Keys(facts, m)]
    IN  \A i, j \in Mention : \A k \in keys[i] \intersect keys[j] :
          LET tags == {BestTagForKey(facts, i, k), BestTagForKey(facts, j, k)}
          IN  leader[i] = leader[j] /\ IsWeakKey(k)
              /\ Cardinality(tags \ {NoTag}) = 2
              => \E m \in Mention : leader[m] = leader[i] /\ keys[m] # {k}

(* A mention whose every surface is generic ("he", "the major") becomes a  *)
(* component of its own: nothing bridges to it.                            *)
GenericStandsAlone ==
  \A i, j \in Mention :
    /\ \A s \in Range(SurfacesOf(facts, i)) : Range(NormName(s)) \subseteq GenericToken
    /\ leader[i] = leader[j]
    => i = j

(* Mentions that agree on a name and on its qualifier are one entity,      *)
(* ambiguous name or not, anchor or minority ("agreeing is consistency,    *)
(* not ambiguity").                                                        *)
AgreeingMentionsMerge ==
  phase = "resolved" =>
    LET keys == [m \in Mention |-> Keys(facts, m)]
    IN  \A i, j \in Mention : \A k \in keys[i] \intersect keys[j] :
          BestTagForKey(facts, i, k) = BestTagForKey(facts, j, k)
          => leader[i] = leader[j]

(* What is_generic_referent promises: two characters are never made one    *)
(* because both were called "he".  Said of the graph: mentions with only   *)
(* generic surfaces resolve to different entities.                         *)
GenericMentionsStayApart ==
  phase = "resolved" =>
    \A i, j \in Mention :
      /\ Keys(facts, i) = {} /\ Keys(facts, j) = {}
      /\ facts[i].local_id # facts[j].local_id
      => local_to_global[facts[i].local_id] # local_to_global[facts[j].local_id]
=============================================================================
