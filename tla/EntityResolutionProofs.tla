----------------------- MODULE EntityResolutionProofs -----------------------
(***************************************************************************)
(* Proofs about EntityResolution for any number of mentions, any facts and *)
(* any vocabulary of titles, particles and tags: the union-find forest is  *)
(* well formed, merges are final, and the components are exactly the       *)
(* connected components of the links, in whatever order keys are united.   *)
(***************************************************************************)
EXTENDS EntityResolution, FiniteSetTheorems, WellFoundedInduction, TLAPS

(* A set of numbers that is not empty has a least one.                     *)
LEMMA LeastNumber ==
  ASSUME NEW S, S \subseteq Nat, S # {}
  PROVE  Min(S) \in S /\ \A m \in S : Min(S) <= m
<1>2. PICK x \in S : \A y \in S : ~(<<y, x>> \in OpToRel(<, Nat))
  BY NatLessThanWellFounded, WFMin, Zenon
<1>3. ASSUME NEW y \in S PROVE x <= y
  <2>1. <<y, x>> \in OpToRel(<, Nat) <=> <<y, x>> \in {ss \in Nat \X Nat : ss[1] < ss[2]}
    BY Zenon DEF OpToRel
  <2>2. ~(y < x)
    BY <1>2, <2>1
  <2>3. QED
    BY <2>2
<1>4. QED
  BY <1>3 DEF Min

(* A set of mentions that is not empty has a least one.                    *)
LEMMA LeastMention ==
  ASSUME NEW S \in SUBSET Mention, S # {}
  PROVE  Min(S) \in S /\ \A m \in S : Min(S) <= m
<1>1. S \subseteq Nat
  BY DEF Mention
<1>2. QED
  BY <1>1, LeastNumber, Zenon

(* The set of roots a union touches, and the root that remains.            *)
LEMMA TouchedRoots ==
  ASSUME NEW forest \in [Mention -> Mention], NEW members \in SUBSET Mention,
         members # {}
  PROVE  LET roots == {forest[m] : m \in members}
         IN  /\ roots \subseteq Mention
             /\ Min(roots) \in roots
             /\ \A r \in roots : Min(roots) <= r
<1> DEFINE roots == {forest[m] : m \in members}
<1>1. roots \subseteq Mention /\ roots # {}
  OBVIOUS
<1>2. QED
  BY <1>1, LeastMention

WellFormed(forest) ==
  /\ forest \in [Mention -> Mention]
  /\ \A m \in Mention : forest[forest[m]] = forest[m] /\ forest[m] <= m

(* A union keeps the forest well formed: every mention points at a root    *)
(* that is not after it.                                                   *)
LEMMA UniteWellFormed ==
  ASSUME NEW forest, WellFormed(forest), NEW members \in SUBSET Mention
  PROVE  WellFormed(Unite(forest, members))
<1> DEFINE roots == {forest[m] : m \in members}
           g == Unite(forest, members)
<1>1. CASE members = {}
  BY <1>1 DEF Unite, WellFormed
<1>2. CASE members # {}
  <2>1. /\ roots \subseteq Mention
        /\ Min(roots) \in roots
        /\ \A r \in roots : Min(roots) <= r
    BY <1>2, TouchedRoots DEF WellFormed
  <2> DEFINE root == Min(roots)
  <2>2. \A m \in Mention : g[m] = IF forest[m] \in roots THEN root ELSE forest[m]
    BY DEF Unite
  <2>3. root \in Mention /\ forest[root] = root
    BY <2>1 DEF WellFormed
  <2> HIDE DEF root, g
  <2>4. g \in [Mention -> Mention]
    BY <2>1, <2>3 DEF WellFormed, Unite, g, root
  <2>5. ASSUME NEW m \in Mention PROVE g[g[m]] = g[m]
    <3>1. CASE forest[m] \in roots
      <4>1. g[m] = root
        BY <2>2, <3>1
      <4>2. g[root] = root
        BY <2>1, <2>2, <2>3 DEF root
      <4>3. QED
        BY <4>1, <4>2
    <3>2. CASE forest[m] \notin roots
      BY <2>2, <3>2 DEF WellFormed
    <3>3. QED
      BY <3>1, <3>2
  <2>6. ASSUME NEW m \in Mention PROVE g[m] <= m
    <3>1. CASE forest[m] \in roots
      <4>1. g[m] = root /\ root <= forest[m] /\ forest[m] <= m
        BY <2>1, <2>2, <3>1 DEF WellFormed, root
      <4>2. root \in Nat /\ forest[m] \in Nat /\ m \in Nat
        BY <2>3 DEF WellFormed, Mention
      <4>3. QED
        BY <4>1, <4>2
    <3>2. CASE forest[m] \notin roots
      BY <2>2, <3>2 DEF WellFormed
    <3>3. QED
      BY <3>1, <3>2
  <2>7. QED
    BY <2>4, <2>5, <2>6 DEF WellFormed, g
<1>3. QED
  BY <1>1, <1>2

(* What a union does to two mentions: they are together afterwards when    *)
(* they were before, or when both were in a class it touches.              *)
LEMMA UniteMerges ==
  ASSUME NEW forest, WellFormed(forest), NEW members \in SUBSET Mention,
         NEW i \in Mention, NEW j \in Mention
  PROVE  LET roots == {forest[m] : m \in members}
             g == Unite(forest, members)
         IN  g[i] = g[j] <=> \/ forest[i] = forest[j]
                             \/ forest[i] \in roots /\ forest[j] \in roots
<1> DEFINE roots == {forest[m] : m \in members}
           g == Unite(forest, members)
<1>1. /\ g[i] = IF forest[i] \in roots THEN Min(roots) ELSE forest[i]
      /\ g[j] = IF forest[j] \in roots THEN Min(roots) ELSE forest[j]
  BY DEF Unite
<1>2. ASSUME roots # {} PROVE Min(roots) \in roots
  <2>1. members # {} /\ forest \in [Mention -> Mention]
    BY <1>2 DEF WellFormed
  <2>2. QED
    BY <2>1, TouchedRoots
<1>3. QED
  BY <1>1, <1>2

-----------------------------------------------------------------------------
(* Every link is a set of mentions, whatever the facts are.                *)
LEMMA GroupOfMentions ==
  ASSUME NEW f, NEW key, NEW tag \in TagsOf(f, key)
  PROVE  /\ Group(f, key, tag).first \in Mention
         /\ Group(f, key, tag).members \subseteq Mention
<1>1. Tagged(f, key, tag) \subseteq Mention /\ Tagged(f, key, NoTag) \subseteq Mention
  BY DEF Tagged, Indices
<1>2. Tagged(f, key, tag) # {}
  BY DEF Tagged, TagsOf
<1>3. Min(Tagged(f, key, tag)) \in Mention
  BY <1>1, <1>2, LeastMention
<1>4. QED
  BY <1>1, <1>3 DEF Group

(* Every link, plain or contested, is a set of mentions.                   *)
LEMMA LinksAreMentions ==
  ASSUME NEW f
  PROVE  /\ PlainLinks(f) \subseteq SUBSET Mention
         /\ ContestedLinks(f) \subseteq SUBSET Mention
<1>1. PlainLinks(f) \subseteq SUBSET Mention
  BY DEF PlainLinks, Indices
<1>2. ASSUME NEW S \in ContestedLinks(f) PROVE S \subseteq Mention
  <2>1. PICK k \in AmbiguousKeys(f) :
          \/ S \in {G.members : G \in TagGroups(f, k)}
          \/ S \in {{p[1].first, p[2].first} :
               p \in {q \in TagGroups(f, k) \X TagGroups(f, k) :
                        q[1] # q[2] /\ Corroborated(f, k, q[1], q[2])}}
    BY <1>2 DEF ContestedLinks
  <2>2. \A G \in TagGroups(f, k) : G.first \in Mention /\ G.members \subseteq Mention
    BY GroupOfMentions DEF TagGroups
  <2>3. QED
    BY <2>1, <2>2
<1>3. QED
  BY <1>1, <1>2

-----------------------------------------------------------------------------
(* What is left to unite was a link; what is no longer left is united.     *)
PendingLinks ==
  /\ plain \union contested \subseteq Links(facts)
  /\ phase # "union" => plain = {} /\ contested = {}

LinkedMerged ==
  \A S \in Links(facts) \ (plain \union contested) :
    \A i, j \in S : leader[i] = leader[j]

(* No union leaves a closed set of mentions.                               *)
OnlyLinkedMerge ==
  \A C \in ClosedSets(Links(facts)) : \A i \in C, j \in Mention :
    leader[i] = leader[j] => j \in C

(* The inductive invariant.  ComponentsAreExact speaks of the end of the   *)
(* unions; this is what holds in the middle of them.                       *)
UnionInv ==
  /\ WellFormed(leader)
  /\ PendingLinks
  /\ LinkedMerged
  /\ OnlyLinkedMerge

(* _UnionFind.union: uniting a link keeps the components well formed,      *)
(* merges what the link names and nothing else.                            *)
LEMMA UniteKeepsInv ==
  ASSUME UnionInv, NEW S \in plain \union contested, phase = "union",
         leader' = Unite(leader, S),
         plain' \union contested' \subseteq plain \union contested,
         plain \union contested \subseteq plain' \union contested' \union {S},
         facts' = facts, phase' = phase
  PROVE  UnionInv'
<1>1. S \in Links(facts) /\ S \in SUBSET Mention
  BY LinksAreMentions DEF UnionInv, PendingLinks, Links
<1>2. WellFormed(leader')
  BY <1>1, UniteWellFormed DEF UnionInv
<1>3. PendingLinks'
  BY DEF UnionInv, PendingLinks
<1> DEFINE roots == {leader[m] : m \in S}
<1>4. \A i, j \in Mention :
        leader'[i] = leader'[j] <=> \/ leader[i] = leader[j]
                                    \/ leader[i] \in roots /\ leader[j] \in roots
  BY <1>1, UniteMerges DEF UnionInv
<1>5. LinkedMerged'
  <2> SUFFICES ASSUME NEW T \in Links(facts) \ (plain' \union contested'),
                      NEW i \in T, NEW j \in T
               PROVE  leader'[i] = leader'[j]
    BY DEF LinkedMerged
  <2>1. i \in Mention /\ j \in Mention
    BY LinksAreMentions DEF Links
  <2>2. CASE T = S
    BY <1>4, <2>1, <2>2
  <2>3. CASE T # S
    <3>1. leader[i] = leader[j]
      BY <2>3 DEF UnionInv, LinkedMerged
    <3>2. QED
      BY <1>4, <2>1, <3>1
  <2>4. QED
    BY <2>2, <2>3
<1>6. OnlyLinkedMerge'
  <2> SUFFICES ASSUME NEW C \in ClosedSets(Links(facts)), NEW i \in C,
                      NEW j \in Mention, leader'[i] = leader'[j]
               PROVE  j \in C
    BY DEF OnlyLinkedMerge
  <2>1. i \in Mention /\ C \subseteq Mention
    BY DEF ClosedSets
  <2>2. CASE leader[i] = leader[j]
    BY <2>2 DEF UnionInv, OnlyLinkedMerge
  <2>3. CASE leader[i] \in roots /\ leader[j] \in roots
    <3>1. PICK m \in S, n \in S : leader[i] = leader[m] /\ leader[j] = leader[n]
      BY <2>3
    <3>2. m \in C
      BY <1>1, <3>1 DEF UnionInv, OnlyLinkedMerge
    <3>3. n \in C
      BY <1>1, <3>2 DEF ClosedSets
    <3>4. QED
      BY <3>1, <3>3 DEF UnionInv, OnlyLinkedMerge
  <2>4. QED
    BY <1>4, <2>1, <2>2, <2>3
<1>7. QED
  BY <1>2, <1>3, <1>5, <1>6 DEF UnionInv

(* Every reachable state has UnionInv.                                     *)
LEMMA UnionInvInductive == Spec => []UnionInv
<1>1. Init => UnionInv
  <2> SUFFICES ASSUME Init PROVE UnionInv
    OBVIOUS
  <2>1. WellFormed(leader)
    <3>1. \A m \in Mention : m <= m
      BY DEF Mention
    <3>2. QED
      BY <3>1 DEF Init, WellFormed
  <2>2. PendingLinks
    BY DEF Init, PendingLinks, Links
  <2>3. LinkedMerged
    BY DEF Init, LinkedMerged, Links
  <2>4. OnlyLinkedMerge
    BY DEF Init, OnlyLinkedMerge, ClosedSets
  <2>5. QED
    BY <2>1, <2>2, <2>3, <2>4 DEF UnionInv
<1>2. UnionInv /\ [Next]_vars => UnionInv'
  <2> SUFFICES ASSUME UnionInv, [Next]_vars PROVE UnionInv'
    OBVIOUS
  <2>1. ASSUME NEW S \in plain, UnitePlainKey(S) PROVE UnionInv'
    BY <2>1, UniteKeepsInv DEF UnitePlainKey
  <2>2. ASSUME NEW S \in contested, ResolveAmbiguousKey(S) PROVE UnionInv'
    BY <2>2, UniteKeepsInv DEF ResolveAmbiguousKey
  <2>3. CASE ResolveEntities
    BY <2>3 DEF ResolveEntities, UnionInv, PendingLinks, LinkedMerged,
                OnlyLinkedMerge, WellFormed
  <2>4. CASE UNCHANGED vars
    BY <2>4 DEF vars, UnionInv, PendingLinks, LinkedMerged,
                OnlyLinkedMerge, WellFormed
  <2>5. QED
    BY <2>1, <2>2, <2>3, <2>4 DEF Next
<1>3. QED
  BY <1>1, <1>2, PTL DEF Spec

(* The type invariant: the forest, the pending links and the roots the     *)
(* entities are filed under all range over mentions.                       *)
THEOREM ResolutionTypeCorrect == Spec => []TypeOK
<1>1. Init => TypeOK
  BY LinksAreMentions DEF Init, TypeOK
<1>2. UnionInv /\ TypeOK /\ [Next]_vars => TypeOK'
  <2> SUFFICES ASSUME UnionInv, TypeOK, [Next]_vars PROVE TypeOK'
    OBVIOUS
  <2> USE DEF TypeOK
  <2>1. ASSUME NEW S \in plain, UnitePlainKey(S) PROVE TypeOK'
    <3>1. leader' \in [Mention -> Mention]
      BY <2>1, UniteWellFormed DEF UnitePlainKey, UnionInv, WellFormed
    <3>2. QED
      BY <2>1, <3>1 DEF UnitePlainKey
  <2>2. ASSUME NEW S \in contested, ResolveAmbiguousKey(S) PROVE TypeOK'
    <3>1. leader' \in [Mention -> Mention]
      BY <2>2, UniteWellFormed DEF ResolveAmbiguousKey, UnionInv, WellFormed
    <3>2. QED
      BY <2>2, <3>1 DEF ResolveAmbiguousKey
  <2>3. CASE ResolveEntities
    <3>1. DOMAIN entities' \subseteq Mention
      BY <2>3 DEF ResolveEntities, Roots
    <3>2. QED
      BY <2>3, <3>1 DEF ResolveEntities
  <2>4. CASE UNCHANGED vars
    BY <2>4 DEF vars
  <2>5. QED
    BY <2>1, <2>2, <2>3, <2>4 DEF Next
<1>3. QED
  BY <1>1, <1>2, UnionInvInductive, PTL DEF Spec

(* Every root leads itself and comes first in its component, at every      *)
(* point of the unions.                                                    *)
THEOREM RootsAlwaysLeast == Spec => []RootsAreLeast
<1>1. UnionInv => RootsAreLeast
  BY DEF UnionInv, WellFormed, RootsAreLeast
<1>2. QED
  BY <1>1, UnionInvInductive, PTL

(* When the unions are over, two mentions are in one component exactly     *)
(* when the links connect them: the component of a mention is itself a     *)
(* closed set, and no union ever left one.                                 *)
THEOREM ComponentsExact == Spec => []ComponentsAreExact
<1>1. UnionInv => ComponentsAreExact
  <2> SUFFICES ASSUME UnionInv, phase = "resolved", NEW i \in Mention, NEW j \in Mention
               PROVE  leader[i] = leader[j] <=>
                        \A C \in ClosedSets(Links(facts)) : i \in C => j \in C
    BY DEF ComponentsAreExact
  <2>1. ASSUME leader[i] = leader[j], NEW C \in ClosedSets(Links(facts)), i \in C
        PROVE  j \in C
    BY <2>1 DEF UnionInv, OnlyLinkedMerge
  <2>2. ASSUME \A C \in ClosedSets(Links(facts)) : i \in C => j \in C
        PROVE  leader[i] = leader[j]
    <3> DEFINE component == {m \in Mention : leader[m] = leader[i]}
    <3>1. ASSUME NEW S \in Links(facts), S \intersect component # {}
          PROVE  S \subseteq component
      <4>1. S \subseteq Mention
        BY LinksAreMentions DEF Links
      <4>2. \A m, n \in S : leader[m] = leader[n]
        BY DEF UnionInv, PendingLinks, LinkedMerged
      <4>3. QED
        BY <3>1, <4>1, <4>2
    <3>2. component \in ClosedSets(Links(facts))
      BY <3>1 DEF ClosedSets
    <3>3. QED
      BY <2>2, <3>2
  <2>3. QED
    BY <2>1, <2>2
<1>2. QED
  BY <1>1, UnionInvInductive, PTL

(* Mentions that were united stay united, whatever key comes next.         *)
THEOREM MergesFinal == Spec => MergesAreFinal
<1> DEFINE Kept == \A i, j \in Mention : leader[i] = leader[j] => leader'[i] = leader'[j]
<1>1. UnionInv /\ [Next]_vars => [Kept]_vars
  <2> SUFFICES ASSUME UnionInv, [Next]_vars PROVE Kept
    OBVIOUS
  <2>1. ASSUME NEW S \in plain \union contested, leader' = Unite(leader, S)
        PROVE  Kept
    <3>1. S \in SUBSET Mention
      BY LinksAreMentions DEF UnionInv, PendingLinks, Links
    <3>2. QED
      BY <2>1, <3>1, UniteMerges DEF UnionInv
  <2>2. CASE leader' = leader
    BY <2>2
  <2>3. QED
    BY <2>1, <2>2 DEF Next, UnitePlainKey, ResolveAmbiguousKey, ResolveEntities,
                      vars
<1>2. QED
  BY <1>1, UnionInvInductive, PTL DEF Spec, MergesAreFinal
-----------------------------------------------------------------------------
(* The links of a key.                                                     *)

(* Sets of mentions can be counted.                                        *)
LEMMA MentionsCounted ==
  ASSUME NEW S \in SUBSET Mention
  PROVE  IsFiniteSet(S) /\ Cardinality(S) \in 0..MentionCount
<1>1. IsFiniteSet(Mention) /\ Cardinality(Mention) <= MentionCount
  BY MentionCountAssumption, FS_Interval DEF Mention
<1>2. IsFiniteSet(S) /\ Cardinality(S) <= Cardinality(Mention)
  BY <1>1, FS_Subset
<1>3. Cardinality(S) \in Nat /\ Cardinality(Mention) \in Nat
  BY <1>1, <1>2, FS_CardinalityType
<1>4. QED
  BY <1>1, <1>2, <1>3, MentionCountAssumption

(* A key has finitely many tags.                                           *)
LEMMA TagsCounted ==
  ASSUME NEW f, NEW key
  PROVE  IsFiniteSet(TagsOf(f, key))
<1> DEFINE T == {BestTagForKey(f, m, key) : m \in Indices(f, key)}
           tag == [m \in Indices(f, key) |-> BestTagForKey(f, m, key)]
<1>1. IsFiniteSet(Indices(f, key))
  BY MentionsCounted DEF Indices
<1>2. tag \in Surjection(Indices(f, key), T)
  BY DEF Surjection
<1>3. IsFiniteSet(T)
  <2> HIDE DEF tag, T
  <2>1. QED
    BY <1>1, <1>2, FS_Surjection
<1>4. QED
  BY <1>3, FS_Difference DEF TagsOf

(* _best_tag_for_key: the tag of a mention is in play.                     *)
LEMMA TagInPlay ==
  ASSUME TypeOK, NEW m \in Mention, NEW key
  PROVE  BestTagForKey(facts, m, key) \in Range(TagOrder) \union {NoTag}
<1> DEFINE s == SurfacesOf(facts, m)
           tagged == {i \in DOMAIN s : NormName(s[i]) = key /\ QualifierTag(s[i]) # NoTag}
<1>1. facts[m] \in Fact
  BY DEF TypeOK
<1>2. s = <<facts[m].name>> \o facts[m].aliases
  BY DEF SurfacesOf
<1>3. DOMAIN s \subseteq Nat
  <2>1. facts[m].aliases \in Seq(Range(facts[m].aliases))
    BY <1>1, TagAssumption
  <2>2. DOMAIN s = 1..Len(s) /\ Len(s) \in Nat
    BY <1>2, <2>1
  <2>3. QED
    BY <2>2
<1>4. \A i \in DOMAIN s : QualifierTag(s[i]) \in Range(TagOrder) \union {NoTag}
  <2>1. \A i \in DOMAIN s : s[i] \in Range(s)
    BY DEF Range
  <2>2. \A x \in Range(s) : QualifierTag(x) \in Range(TagOrder) \union {NoTag}
    BY <1>1, <1>2, TagAssumption
  <2>3. QED
    BY <2>1, <2>2
<1>5. BestTagForKey(facts, m, key) = IF tagged = {} THEN NoTag ELSE QualifierTag(s[Min(tagged)])
  BY DEF BestTagForKey
<1>6. tagged \subseteq DOMAIN s
  OBVIOUS
<1> HIDE DEF tagged, s
<1>7. CASE tagged = {}
  BY <1>5, <1>7
<1>8. CASE tagged # {}
  <2>1. Min(tagged) \in tagged
    BY <1>3, <1>6, <1>8, LeastNumber
  <2>2. QED
    BY <1>4, <1>5, <1>6, <1>8, <2>1
<1>9. QED
  BY <1>7, <1>8

(* Of finitely many tags one is most frequent, and it is the anchor.       *)
LEMMA AnchorIsTag ==
  ASSUME TypeOK, NEW key, TagsOf(facts, key) # {}
  PROVE  AnchorTag(facts, key) \in TagsOf(facts, key)
<1> DEFINE count(i) == Cardinality(Tagged(facts, key, TagOrder[i]))
           present  == {i \in DOMAIN TagOrder : TagOrder[i] \in TagsOf(facts, key)}
           best     == {i \in present : \A j \in present : count(i) >= count(j)}
           missing  == {MentionCount - count(i) : i \in present}
<1>1. \A i : count(i) \in 0..MentionCount
  BY MentionsCounted DEF Tagged, Indices
<1>2. present # {}
  <2>1. PICK tag \in TagsOf(facts, key) : TRUE
    OBVIOUS
  <2>2. tag \in Range(TagOrder)
    BY <2>1, TagInPlay DEF TagsOf, Indices
  <2>3. QED
    BY <2>1, <2>2 DEF Range
<1>3. AnchorTag(facts, key) = TagOrder[Min(best)]
  BY DEF AnchorTag
<1>4. present \subseteq Nat /\ \A i \in present : TagOrder[i] \in TagsOf(facts, key)
  BY TagAssumption
<1> HIDE DEF count, present
<1>5. missing \subseteq Nat /\ missing # {}
  BY <1>1, <1>2, MentionCountAssumption
<1>6. PICK i \in present : \A x \in missing : MentionCount - count(i) <= x
  <2>1. PICK x \in missing : \A y \in missing : x <= y
    <3> HIDE DEF missing
    <3>1. QED
      BY <1>5, LeastNumber
  <2>2. QED
    BY <2>1
<1>7. \A j \in present : count(i) >= count(j)
  <2> SUFFICES ASSUME NEW j \in present PROVE count(i) >= count(j)
    OBVIOUS
  <2>1. MentionCount - count(i) <= MentionCount - count(j)
    BY <1>6
  <2>2. count(i) \in Nat /\ count(j) \in Nat
    BY <1>1
  <2>3. QED
    BY <2>1, <2>2, MentionCountAssumption
<1>8. best \subseteq present /\ best # {}
  BY <1>7
<1> HIDE DEF best
<1>9. Min(best) \in present
  BY <1>4, <1>8, LeastNumber
<1>10. QED
  BY <1>3, <1>4, <1>9

(* _resolve_ambiguous_keys: whom a group of an ambiguous key takes in.     *)
LEMMA GroupMembers ==
  ASSUME NEW f, NEW key, NEW tag \in TagsOf(f, key)
  PROVE  /\ Group(f, key, tag).first \in Group(f, key, tag).members
         /\ Tagged(f, key, tag) \subseteq Group(f, key, tag).members
         /\ \A m \in Group(f, key, tag).members :
              /\ m \in Indices(f, key)
              /\ \/ BestTagForKey(f, m, key) = tag
                 \/ BestTagForKey(f, m, key) = NoTag /\ tag = AnchorTag(f, key)
<1>1. Tagged(f, key, tag) \subseteq Mention /\ Tagged(f, key, tag) # {}
  BY DEF Tagged, TagsOf, Indices
<1>2. Min(Tagged(f, key, tag)) \in Tagged(f, key, tag)
  BY <1>1, LeastMention
<1>3. /\ Group(f, key, tag).first = Min(Tagged(f, key, tag))
      /\ Group(f, key, tag).members = Tagged(f, key, tag) \union
           (IF tag = AnchorTag(f, key) THEN Tagged(f, key, NoTag) ELSE {})
  BY DEF Group
<1>4. QED
  BY <1>2, <1>3 DEF Tagged

(* A link is one of a primary key: all its mentions, when it is not        *)
(* ambiguous, and else one group of it or a bridge between two.            *)
LEMMA LinkOfKey ==
  ASSUME NEW f, NEW S \in Links(f)
  PROVE  \E k \in PrimaryKeys(f) :
           /\ S \subseteq Indices(f, k)
           /\ \/ k \notin AmbiguousKeys(f) /\ S = Indices(f, k)
              \/ /\ k \in AmbiguousKeys(f)
                 /\ \/ \E t \in TagsOf(f, k) : S = Group(f, k, t).members
                    \/ \E t, u \in TagsOf(f, k) :
                         /\ Corroborated(f, k, Group(f, k, t), Group(f, k, u))
                         /\ S = {Group(f, k, t).first, Group(f, k, u).first}
<1>1. CASE S \in PlainLinks(f)
  BY <1>1 DEF PlainLinks
<1>2. CASE S \in ContestedLinks(f)
  <2>1. PICK k \in AmbiguousKeys(f) :
          \/ S \in {G.members : G \in TagGroups(f, k)}
          \/ S \in {{p[1].first, p[2].first} :
               p \in {q \in TagGroups(f, k) \X TagGroups(f, k) :
                        q[1] # q[2] /\ Corroborated(f, k, q[1], q[2])}}
    BY <1>2 DEF ContestedLinks
  <2>2. k \in PrimaryKeys(f)
    BY DEF AmbiguousKeys
  <2>3. CASE S \in {G.members : G \in TagGroups(f, k)}
    <3>1. PICK t \in TagsOf(f, k) : S = Group(f, k, t).members
      BY <2>3 DEF TagGroups
    <3>2. S \subseteq Indices(f, k)
      BY <3>1, GroupMembers
    <3>3. QED
      BY <2>1, <2>2, <3>1, <3>2
  <2>4. CASE \E p \in TagGroups(f, k) \X TagGroups(f, k) :
               Corroborated(f, k, p[1], p[2]) /\ S = {p[1].first, p[2].first}
    <3>1. PICK t \in TagsOf(f, k), u \in TagsOf(f, k) :
            /\ Corroborated(f, k, Group(f, k, t), Group(f, k, u))
            /\ S = {Group(f, k, t).first, Group(f, k, u).first}
      BY <2>4 DEF TagGroups
    <3>2. S \subseteq Indices(f, k)
      BY <3>1, GroupMembers
    <3>3. QED
      BY <2>1, <2>2, <3>1, <3>2
  <2>5. QED
    BY <2>1, <2>3, <2>4
<1>3. QED
  BY <1>1, <1>2 DEF Links

(* The keys of a mention are primary, and it is listed under each.         *)
LEMMA KeyOfMention ==
  ASSUME NEW f, NEW m \in Mention, NEW k \in Keys(f, m)
  PROVE  k \in PrimaryKeys(f) /\ m \in Indices(f, k)
BY DEF Keys, Indices

(* A mention whose every surface is generic ("he", "the major") is in a    *)
(* component of its own: it has no key, and so no link.                    *)
THEOREM GenericAlone == Spec => []GenericStandsAlone
<1>1. UnionInv => GenericStandsAlone
  <2> SUFFICES ASSUME UnionInv, NEW i \in Mention, NEW j \in Mention,
                      \A s \in Range(SurfacesOf(facts, i)) : Range(NormName(s)) \subseteq GenericToken,
                      leader[i] = leader[j]
               PROVE  i = j
    BY DEF GenericStandsAlone
  <2>1. Keys(facts, i) = {}
    BY DEF Keys, PrimaryKeys, IsGenericReferent
  <2>2. ASSUME NEW S \in Links(facts) PROVE i \notin S
    BY <2>1, LinkOfKey DEF Indices
  <2>3. {i} \in ClosedSets(Links(facts))
    BY <2>2 DEF ClosedSets
  <2>4. j \in {i}
    BY <2>3 DEF UnionInv, OnlyLinkedMerge
  <2>5. QED
    BY <2>4
<1>2. QED
  BY <1>1, UnionInvInductive, PTL

(* Mentions that agree on a name and on its qualifier are one entity: they *)
(* are in one link of that name, bare mentions in that of the anchor.      *)
THEOREM AgreeingMerge == Spec => []AgreeingMentionsMerge
<1>1. UnionInv /\ TypeOK => AgreeingMentionsMerge
  <2> SUFFICES ASSUME UnionInv, TypeOK, phase = "resolved", NEW i \in Mention, NEW j \in Mention,
                      NEW k \in Keys(facts, i) \intersect Keys(facts, j),
                      BestTagForKey(facts, i, k) = BestTagForKey(facts, j, k)
               PROVE  leader[i] = leader[j]
    BY DEF AgreeingMentionsMerge
  <2>1. k \in PrimaryKeys(facts) /\ {i, j} \subseteq Indices(facts, k)
    BY KeyOfMention
  <2>2. \A S \in Links(facts) : \A m, n \in S : leader[m] = leader[n]
    BY DEF UnionInv, PendingLinks, LinkedMerged
  <2>3. CASE k \notin AmbiguousKeys(facts)
    <3>1. Indices(facts, k) \in Links(facts)
      BY <2>1, <2>3 DEF Links, PlainLinks
    <3>2. QED
      BY <2>1, <2>2, <3>1
  <2>4. CASE k \in AmbiguousKeys(facts)
    <3> DEFINE tag == BestTagForKey(facts, i, k)
    <3>1. {i, j} \subseteq Tagged(facts, k, tag)
      BY <2>1 DEF Tagged
    <3>2. \A t \in TagsOf(facts, k) : Group(facts, k, t).members \in Links(facts)
      BY <2>4 DEF Links, ContestedLinks, TagGroups
    <3>3. CASE tag # NoTag
      <4>1. tag \in TagsOf(facts, k)
        BY <2>1, <3>3 DEF TagsOf
      <4>2. {i, j} \subseteq Group(facts, k, tag).members
        BY <3>1, <4>1, GroupMembers
      <4>3. QED
        BY <2>2, <3>2, <4>1, <4>2
    <3>4. CASE tag = NoTag
      <4>1. TagsOf(facts, k) # {}
        BY <2>4, FS_EmptySet DEF AmbiguousKeys
      <4>2. AnchorTag(facts, k) \in TagsOf(facts, k)
        BY <4>1, AnchorIsTag
      <4>3. {i, j} \subseteq Group(facts, k, AnchorTag(facts, k)).members
        BY <3>1, <3>4 DEF Group
      <4>4. QED
        BY <2>2, <3>2, <4>2, <4>3
    <3>5. QED
      BY <3>3, <3>4
  <2>5. QED
    BY <2>3, <2>4
<1>2. QED
  BY <1>1, UnionInvInductive, ResolutionTypeCorrect, PTL

(* Two different tags make a weak key ambiguous.                           *)
LEMMA TwoTagsContest ==
  ASSUME NEW f, NEW k \in PrimaryKeys(f), IsWeakKey(k),
         NEW t \in TagsOf(f, k), NEW u \in TagsOf(f, k), t # u
  PROVE  k \in AmbiguousKeys(f)
<1>1. IsFiniteSet({t}) /\ Cardinality({t}) = 1
  BY FS_Singleton
<1>2. Cardinality({t} \union {u}) = 2
  <2>1. u \notin {t}
    OBVIOUS
  <2>2. Cardinality({t} \union {u}) = Cardinality({t}) + 1
    BY <1>1, <2>1, FS_AddElement, Zenon
  <2>3. QED
    BY <1>1, <2>2
<1>3. {t} \union {u} \in SUBSET TagsOf(f, k)
  OBVIOUS
<1>4. Cardinality({t} \union {u}) <= Cardinality(TagsOf(f, k)) /\ Cardinality(TagsOf(f, k)) \in Nat
  BY <1>3, TagsCounted, FS_Subset, FS_CardinalityType
<1>5. QED
  BY <1>2, <1>4 DEF AmbiguousKeys

(* Two tags that are not alike and both say something.                     *)
LEMMA TagsAtOdds ==
  ASSUME NEW t, NEW u, Cardinality({t, u} \ {NoTag}) = 2
  PROVE  t # u /\ t # NoTag /\ u # NoTag
<1> DEFINE S == {t, u} \ {NoTag}
<1>1. Cardinality({t}) = 1 /\ Cardinality({u}) = 1 /\ Cardinality({}) = 0
  BY FS_Singleton, FS_EmptySet
<1>2. (t = u \/ t = NoTag \/ u = NoTag) => S = {} \/ S = {t} \/ S = {u}
  OBVIOUS
<1>3. Cardinality(S) = 2
  OBVIOUS
<1> HIDE DEF S
<1>4. ~(t = u \/ t = NoTag \/ u = NoTag)
  BY <1>1, <1>2, <1>3
<1>5. QED
  BY <1>4

(* Clause B: a group of an ambiguous key none of whose component has a     *)
(* second key is a component; so mentions with conflicting qualifiers are  *)
(* never united through the shared name alone.                             *)
THEOREM ContrastNeedsAnotherKey == Spec => []ContrastNeedsSecondKey
<1>1. UnionInv => ContrastNeedsSecondKey
  <2> SUFFICES ASSUME UnionInv, phase = "resolved", NEW i \in Mention, NEW j \in Mention,
                      NEW k \in Keys(facts, i) \intersect Keys(facts, j),
                      leader[i] = leader[j], IsWeakKey(k),
                      Cardinality({BestTagForKey(facts, i, k), BestTagForKey(facts, j, k)}
                                    \ {NoTag}) = 2,
                      \A m \in Mention : leader[m] = leader[i] => Keys(facts, m) = {k}
               PROVE  FALSE
    BY DEF ContrastNeedsSecondKey
  <2> DEFINE t == BestTagForKey(facts, i, k)
             u == BestTagForKey(facts, j, k)
             G == Group(facts, k, t)
             D == {m \in Mention : leader[m] = leader[i]}
             C == G.members \intersect D
  <2>1. t # u /\ t # NoTag /\ u # NoTag
    BY TagsAtOdds
  <2>2. k \in PrimaryKeys(facts) /\ i \in Indices(facts, k) /\ j \in Indices(facts, k)
    BY KeyOfMention
  <2>3. t \in TagsOf(facts, k) /\ u \in TagsOf(facts, k)
    BY <2>1, <2>2 DEF TagsOf
  <2>4. k \in AmbiguousKeys(facts)
    BY <2>1, <2>2, <2>3, TwoTagsContest
  <2>5. \A S \in Links(facts) : \A m, n \in S : leader[m] = leader[n]
    BY DEF UnionInv, PendingLinks, LinkedMerged
  <2>6. \A S \in Links(facts) : S \subseteq Mention
    BY LinksAreMentions DEF Links
  <2>7. ASSUME NEW S \in Links(facts), S \intersect D # {} PROVE S \subseteq D
    BY <2>5, <2>6, <2>7
  <2>8. ASSUME NEW S \in Links(facts), S \intersect C # {} PROVE S \subseteq C
    <3>1. PICK m \in S : m \in C
      BY <2>8
    <3>2. S \subseteq D
      BY <2>7, <3>1
    <3>3. PICK key \in PrimaryKeys(facts) :
            /\ S \subseteq Indices(facts, key)
            /\ \/ key \notin AmbiguousKeys(facts) /\ S = Indices(facts, key)
               \/ /\ key \in AmbiguousKeys(facts)
                  /\ \/ \E v \in TagsOf(facts, key) : S = Group(facts, key, v).members
                     \/ \E v, w \in TagsOf(facts, key) :
                          /\ Corroborated(facts, key, Group(facts, key, v), Group(facts, key, w))
                          /\ S = {Group(facts, key, v).first, Group(facts, key, w).first}
      BY LinkOfKey
    <3>4. key = k
      <4>1. key \in Keys(facts, m)
        BY <3>1, <3>3 DEF Indices
      <4>2. QED
        BY <3>1, <4>1
    <3>5. CASE \E v \in TagsOf(facts, k) : S = Group(facts, k, v).members
      <4>1. PICK v \in TagsOf(facts, k) : S = Group(facts, k, v).members
        BY <3>5
      <4>2. /\ \/ BestTagForKey(facts, m, k) = v
               \/ BestTagForKey(facts, m, k) = NoTag /\ v = AnchorTag(facts, k)
            /\ \/ BestTagForKey(facts, m, k) = t
               \/ BestTagForKey(facts, m, k) = NoTag /\ t = AnchorTag(facts, k)
        BY <2>3, <3>1, <4>1, GroupMembers
      <4>3. v # NoTag
        BY <4>1 DEF TagsOf
      <4>4. v = t
        BY <2>1, <4>2, <4>3
      <4>5. QED
        BY <3>2, <4>1, <4>4
    <3>6. ASSUME NEW v \in TagsOf(facts, k), NEW w \in TagsOf(facts, k),
                 Corroborated(facts, k, Group(facts, k, v), Group(facts, k, w)),
                 S = {Group(facts, k, v).first, Group(facts, k, w).first}
          PROVE  FALSE
      <4>1. Group(facts, k, v).members \in Links(facts)
        BY <2>4, <3>6 DEF Links, ContestedLinks, TagGroups
      <4>2. Group(facts, k, v).members \subseteq D
        BY <2>7, <3>2, <3>6, <4>1, GroupMembers
      <4>3. PICK a \in Group(facts, k, v).members : \E b \in Group(facts, k, w).members :
              (Keys(facts, a) \intersect Keys(facts, b)) \ {k} # {}
        BY <3>6 DEF Corroborated
      <4>4. Keys(facts, a) = {k}
        BY <4>2, <4>3
      <4>5. QED
        BY <4>3, <4>4
    <3>7. QED
      BY <2>4, <3>3, <3>4, <3>5, <3>6
  <2>9. C \in ClosedSets(Links(facts))
    BY <2>8 DEF ClosedSets
  <2>10. i \in C
    <3>1. i \in Tagged(facts, k, t)
      BY <2>2 DEF Tagged
    <3>2. QED
      BY <2>3, <3>1, GroupMembers
  <2>11. j \in G.members
    BY <2>9, <2>10 DEF UnionInv, OnlyLinkedMerge
  <2>12. BestTagForKey(facts, j, k) \in {t, NoTag}
    BY <2>3, <2>11, GroupMembers
  <2>13. QED
    BY <2>1, <2>12
<1>2. QED
  BY <1>1, UnionInvInductive, PTL
=============================================================================
