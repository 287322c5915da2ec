--------------------------- MODULE GraphRetrieval ---------------------------
(***************************************************************************)
(* A graph index over the chunks of a text, and the queries it answers     *)
(* (graph/builder.py, extraction.py, index.py, traversal.py).  The graph   *)
(* is either built from the chunks, one entity per name and one relation   *)
(* per pair of names in a chunk (Stage G1), or loaded ready-made, as       *)
(* GraphConstruction leaves it (Stage G2).  What a query finds is fused    *)
(* with what the semantic and the lexical retriever found for it.          *)
(*                                                                         *)
(* A mention is a sequence of names in lower case, each a sequence of      *)
(* letters.  Scores are multiples of 1/Unit.  Entity ids are hashes, so    *)
(* any order of them may come out of sorted().                             *)
(***************************************************************************)
EXTENDS TextWindows, RankFusion

CONSTANTS
  Letters,         \* [a-zA-Z]
  Capitals,        \* [A-Z]
  WordCharacters,  \* \w
  Lower,           \* letter -> the letter in lower case
  _STOPWORDS,      \* sequences of letters
  min_entity_token_length,
  LoadedGraphs,  \* entity graphs the construction pipeline may hand over
  QueryTexts,    \* sequences of words
  max_hops,
  top_k,
  Rankings,      \* what the other retrievers may answer to a query
  Unit

(* The validators of GraphConfig, RetrievalConfig and FusionConfig. *)
ASSUME ConfigAssumption ==
  /\ max_hops \in Nat /\ min_entity_token_length \in Nat
  /\ {top_k, rrf_k, top_k_fused} \subseteq Nat \ {0}

(* Every score is a whole number of units. *)
ASSUME UnitAssumption ==
  /\ Unit \in Nat \ {0} /\ ScoreUnit \in Nat \ {0}
  /\ \A hop \in 0..max_hops : Unit % (1 + hop) = 0
  /\ \A rank \in 1..top_k : ScoreUnit % (rrf_k + rank) = 0

(* The constants of the code (60 and 10) satisfy it: two places anywhere   *)
(* in the lists are worth more than one, and three more than two.          *)
ASSUME DampingAssumption == rrf_k + 3 > 2 * top_k

ASSUME LettersAssumption == Capitals \subseteq Letters /\ Letters \subseteq WordCharacters

(* A graph that is handed over is finite, its weights count relations and  *)
(* its names are those of entities; a query has words, and neither it nor  *)
(* an empty answer is None; every retriever is asked for top_k chunks and  *)
(* answers each once.                                                      *)
ASSUME GivenAssumption ==
  /\ \A g \in LoadedGraphs :
       /\ IsFiniteSet(DOMAIN g.nodes)
       /\ \A n \in DOMAIN g.nodes : \A k \in DOMAIN g.nodes[n] : g.nodes[n][k] \in Nat \ {0}
       /\ \A pair \in DOMAIN g.edges : g.edges[pair].weight \in Nat
       /\ \A name \in DOMAIN g.names : g.names[name] \in DOMAIN g.nodes
  /\ None \notin QueryTexts \union {<<>>}
  /\ \A words \in QueryTexts : Wording(words)
  /\ \A ranking \in Rankings : /\ ranking \in Seq(Nat) /\ Len(ranking) <= top_k
                               /\ IsInjective(ranking)

VARIABLES
  nodes,    \* entity -> chunk -> how often the entity's provenance has it
  edges,    \* pair of entities -> [weight, chunks]
  _name_to_id,  \* name -> entity
  query,    \* the query being answered
  visited,  \* hop -> the entities first reached at that hop
  scores,   \* chunk -> score, in units
  results,  \* the ranked chunks of the answer
  lists,    \* source -> the chunks it ranked for the query
  fused     \* the fused evidence of the query

graph == <<nodes, edges, _name_to_id>>
search == <<query, visited, scores, results>>
fusion == <<lists, fused>>
textvars == <<text, segmentation, chunks>>
vars == <<textvars, located, graph, search, fusion, phase>>

-----------------------------------------------------------------------------
(* extract_mentions *)

(* What is shown of some words: of each one the positions from shown[i][1] *)
(* to shown[i][2].  A chunk may cut the first and the last word it has.    *)
Whole(words) == [i \in DOMAIN words |-> <<1, Len(words[i])>>]
ShownOf(chunk) ==
  [i \in {j \in DOMAIN text.words : text.at[j - 1] < chunk[2]} |->
     <<1 + Max({0, chunk[1] - text.at[i - 1]}),
       Min({Len(text.words[i]), chunk[2] - text.at[i - 1]})>>]

(* _WORD_PATTERN: a capital and the letters after it, between boundaries;  *)
(* unless all of it is a stop word.                                        *)
NamesOf(word, lo, hi) ==
  {r \in (lo..hi) \X (lo..hi) :
     /\ r[1] <= r[2]
     /\ word[r[1]] \in Capitals
     /\ \A k \in r[1]..r[2] : word[k] \in Letters
     /\ r[1] = lo \/ word[r[1] - 1] \notin WordCharacters
     /\ r[2] = hi \/ word[r[2] + 1] \notin WordCharacters
     /\ SubSeq(word, r[1], r[2]) \notin _STOPWORDS}

(* The names shown: <<i, a, b>> is the one from a to b in the i-th word.   *)
Names(words, shown) ==
  UNION {{<<i, r[1], r[2]>> : r \in NamesOf(words[i], shown[i][1], shown[i][2])} :
           i \in DOMAIN shown}

(* Only white space is shown between two names. *)
Adjacent(x, y, shown) ==
  /\ y[1] = x[1] + 1 /\ {x[1], y[1]} \subseteq DOMAIN shown
  /\ x[3] = shown[x[1]][2] /\ y[2] = shown[y[1]][1]

(* What the i-th word shows between the beginning of x and the end of y.   *)
PartOf(x, y, shown, i) ==
  <<i, IF i = x[1] THEN x[2] ELSE shown[i][1], IF i = y[1] THEN y[3] ELSE shown[i][2]>>

(* The longest runs of adjacent names, from the first to the last of each. *)
Runs(words, shown) ==
  LET names == Names(words, shown)
  IN  {run \in names \X names :
         /\ run[1][1] <= run[2][1]
         /\ \A i \in run[1][1]..run[2][1] :
              i \in DOMAIN shown /\ PartOf(run[1], run[2], shown, i) \in names
         /\ \A z \in names : ~ Adjacent(z, run[1], shown) /\ ~ Adjacent(run[2], z, shown)}

(* The phrase of a run in lower case: a mention. *)
Phrase(words, shown, run) ==
  [n \in 1..(run[2][1] - run[1][1] + 1) |->
     LET name == PartOf(run[1], run[2], shown, run[1][1] + n - 1)
     IN  [k \in 1..(name[3] - name[2] + 1) |-> Lower[words[name[1]][name[2] + k - 1]]]]

(* len(phrase), with a space between its words *)
PhraseLength(mention) ==
  FoldLeft(LAMBDA n, name : n + Len(name), Len(mention) - 1, mention)

extract_mentions(words, shown) ==
  {m \in {Phrase(words, shown, run) : run \in Runs(words, shown)} :
     PhraseLength(m) >= min_entity_token_length}

MentionsOf(chunk) == extract_mentions(text.words, ShownOf(chunk))
MentionsIn(words) == extract_mentions(words, Whole(words))

-----------------------------------------------------------------------------
(* builder.py *)

(* upsert_entity over all chunks: an entity per mention, anchored once to  *)
(* every chunk that has it.                                                *)
Entities(mentions) ==
  [m \in UNION Range(mentions) |-> [k \in {c \in DOMAIN mentions : m \in mentions[c]} |-> 1]]

Pairs(S) == {{p[1], p[2]} : p \in {q \in S \X S : q[1] # q[2]}}

(* upsert_relation over all chunks: a relation per pair of entities that   *)
(* some chunk mentions; its weight counts these chunks.                    *)
Relations(mentions) ==
  LET having(pair) == {k \in DOMAIN mentions : pair \in Pairs(mentions[k])}
  IN  [pair \in UNION {Pairs(mentions[k]) : k \in DOMAIN mentions} |->
         [weight |-> Cardinality(having(pair)), chunks |-> having(pair)]]

-----------------------------------------------------------------------------
(* traversal.py *)

(* What each chunk gains from some entities: the weight of each one for    *)
(* every time its provenance has the chunk.                                *)
Contribution(weight) ==
  [k \in UNION {DOMAIN nodes[n] : n \in DOMAIN weight} |->
     SumFunction([n \in {m \in DOMAIN weight : k \in DOMAIN nodes[m]} |->
                    weight[n] * nodes[n][k]])]

Added(more, to) ==
  [k \in DOMAIN more \union DOMAIN to |->
     (IF k \in DOMAIN more THEN more[k] ELSE 0) + (IF k \in DOMAIN to THEN to[k] ELSE 0)]

Neighbours(n) == {m \in DOMAIN nodes : {m, n} \in DOMAIN edges} \ {n}

Reached == UNION Range(visited)
Frontier == visited[Len(visited)]

(* Mutant: an entity is found again at every hop. *)
FoundAgain == UNION {Neighbours(n) : n \in Frontier}

(* What the frontier leads to and has not been visited. *)
Discovered == (UNION {Neighbours(n) : n \in Frontier}) \ Reached

(* The weight of the edge an entity is found by, when the frontier is gone *)
(* through in the order of the ranks.                                      *)
discovery_weight(n, rank) ==
  LET by == {f \in Frontier : n \in Neighbours(f)}
      first == CHOOSE f \in by : \A g \in by : rank[f] <= rank[g]
  IN  edges[{n, first}].weight

rank_chunks == BestFirst(scores, top_k)

resolve_entry_entities(words) ==
  {_name_to_id[m] : m \in MentionsIn(words) \intersect DOMAIN _name_to_id}

-----------------------------------------------------------------------------
Init ==
  /\ TextInit
  /\ nodes = <<>> /\ edges = <<>> /\ _name_to_id = <<>>
  /\ query = None /\ visited = <<>> /\ scores = <<>> /\ results = None
  /\ lists = <<>> /\ fused = None

Segment == (DetectChapters \/ TakeWindow \/ TakeChunk) /\ UNCHANGED <<graph, search, fusion>>

(* index(): build_entity_graph over all chunks. *)
Index ==
  /\ phase = "index"
  /\ LET mentions == [k \in DOMAIN chunks |-> MentionsOf(chunks[k])]
     IN  /\ nodes' = Entities(mentions)
         /\ edges' = Relations(mentions)
         /\ _name_to_id' = [m \in UNION Range(mentions) |-> m]
  /\ located' = None
  /\ phase' = "built"
  /\ UNCHANGED <<textvars, search, fusion>>

(* load_graph(): a graph whose provenance was resolved against the chunks. *)
LoadGraph(g) ==
  /\ phase = "index"
  /\ \A n \in DOMAIN g.nodes : DOMAIN g.nodes[n] \subseteq DOMAIN chunks
  /\ nodes' = g.nodes
  /\ edges' = g.edges
  /\ _name_to_id' = g.names
  /\ located' = None
  /\ phase' = "loaded"
  /\ UNCHANGED <<textvars, search, fusion>>

Idle == phase \in {"built", "loaded"} /\ query = None

(* resolve_entry_entities, and hop 0 of score_chunks. *)
StartQuery(words) ==
  LET entries == resolve_entry_entities(words)
  IN  /\ Idle
      /\ query' = words
      /\ visited' = IF entries = {} THEN <<>> ELSE <<entries>>
      /\ scores' = Contribution([n \in entries |-> Unit])
      /\ results' = IF entries = {} THEN <<>> ELSE None
      /\ UNCHANGED <<textvars, located, graph, fusion, phase>>

(* One hop of the loop in score_chunks. *)
Expand ==
  /\ query # None /\ results = None
  /\ Len(visited) <= max_hops
  /\ Discovered # {}
  /\ \E rank \in [Frontier -> 1..Cardinality(Frontier)] :
       /\ IsInjective(rank)
       /\ scores' = Added(Contribution([n \in Discovered |->
                            (discovery_weight(n, rank) * Unit) \div (1 + Len(visited))]),
                          scores)
  /\ visited' = Append(visited, Discovered)
  /\ UNCHANGED <<textvars, located, graph, query, results, fusion, phase>>

Answer ==
  /\ query # None /\ results = None
  /\ Len(visited) > max_hops \/ Discovered = {}
  /\ results' = rank_chunks
  /\ UNCHANGED <<textvars, located, graph, query, visited, scores, fusion, phase>>

(* Retrieval and fusion of run_claim: the graph is the third retriever. *)
Fuse ==
  /\ results # None /\ fused = None
  /\ \E semantic, lexical \in Rankings :
       /\ ToSet(semantic) \union ToSet(lexical) \subseteq DOMAIN chunks
       /\ lists' = [SEMANTIC |-> semantic, LEXICAL |-> lexical, GRAPH |-> results]
  /\ fused' = fuse_evidence(Stamped(query, lists'))
  /\ UNCHANGED <<textvars, located, graph, search, phase>>

(* The next query finds the index as it was. *)
Finish ==
  /\ fused # None
  /\ query' = None /\ visited' = <<>> /\ scores' = <<>> /\ results' = None
  /\ lists' = <<>> /\ fused' = None
  /\ UNCHANGED <<textvars, located, graph, phase>>

(* The construction pipeline locates its quotes before any graph exists. *)
Locate ==
  /\ phase = "index"
  /\ \E quote \in Quotes : \E i \in DOMAIN windows : LocateQuote(quote, windows[i])
  /\ UNCHANGED <<textvars, phase, graph, search, fusion>>

Next ==
  \/ Segment
  \/ Locate
  \/ Index
  \/ \E g \in LoadedGraphs : LoadGraph(g)
  \/ \E words \in QueryTexts : StartQuery(words)
  \/ Expand
  \/ Answer
  \/ Fuse
  \/ Finish

Spec == Init /\ [][Next]_vars

-----------------------------------------------------------------------------
(* The letters of a run of names in the text, and these together with the  *)
(* words beside it of which some part, cut by a chunk, would be a name     *)
(* that joins the run, as a stop word or a word in quotes may.             *)
LettersOf(run) ==
  <<text.at[run[1][1] - 1] + run[1][2] - 1, text.at[run[2][1] - 1] + run[2][3]>>

Context(run) ==
  LET x == run[1]
      y == run[2]
      before == IF x[1] = 1 THEN <<>> ELSE text.words[x[1] - 1]
      after  == IF y[1] = TotalTokens THEN <<>> ELSE text.words[y[1] + 1]
      joins_before ==
        /\ x[2] = 1
        /\ \E lo \in DOMAIN before : \E r \in NamesOf(before, lo, Len(before)) : r[2] = Len(before)
      joins_after ==
        /\ y[3] = Len(text.words[y[1]])
        /\ \E hi \in DOMAIN after : \E r \in NamesOf(after, 1, hi) : r[1] = 1
  IN  <<IF joins_before THEN text.at[x[1] - 2] ELSE LettersOf(run)[1],
        IF joins_after THEN WordEnd(y[1] + 1) ELSE LettersOf(run)[2]>>

(* The chunks overlap so that nothing short is cut in two everywhere: a    *)
(* name of the text, of one word or several, that is long enough to count  *)
(* and with its context no longer than the overlap is an entity under its  *)
(* full name, anchored to a chunk that shows all of it.                    *)
NamesAreReachable ==
  (phase = "built" /\ query = None) =>
    \A run \in Runs(text.words, Whole(text.words)) :
      LET name == Phrase(text.words, Whole(text.words), run)
      IN  (/\ Context(run)[2] - Context(run)[1] <= overlap
           /\ PhraseLength(name) >= min_entity_token_length) =>
            /\ name \in DOMAIN nodes
            /\ \E k \in DOMAIN nodes[name] :
                 chunks[k][1] <= LettersOf(run)[1] /\ LettersOf(run)[2] <= chunks[k][2]

(* The entities within d edges of the entry entities, by the definition of *)
(* distance.                                                               *)
Within[d \in Nat] ==
  IF d = 0 THEN resolve_entry_entities(query)
  ELSE LET nearer == Within[d - 1]
       IN  nearer \union {n \in DOMAIN nodes : \E m \in nearer : {m, n} \in DOMAIN edges}

At(d) == IF d = 0 THEN Within[0] ELSE Within[d] \ Within[d - 1]

(* The weights of the edges that may be the last one of a shortest way to  *)
(* an entity, and the least and the most a chunk can gain at each          *)
(* distance, for every time an entity's provenance has it.                 *)
Ways(d, n) ==
  IF d = 0 THEN {1}
  ELSE {edges[{m, n}].weight : m \in {x \in At(d - 1) : {x, n} \in DOMAIN edges}}

Mentioned(d, k) == {n \in At(d) : k \in DOMAIN nodes[n]}
LeastGains(k) ==
  [d \in 0..max_hops |->
     (SumFunction([n \in Mentioned(d, k) |-> Min(Ways(d, n)) * nodes[n][k]]) * Unit) \div (1 + d)]
MostGains(k) ==
  [d \in 0..max_hops |->
     (SumFunction([n \in Mentioned(d, k) |-> Max(Ways(d, n)) * nodes[n][k]]) * Unit) \div (1 + d)]

(* A chunk's score is the sum, over the provenance entries that entities   *)
(* within max_hops of the query's have in it, of the weight of an edge on  *)
(* a shortest way to the entity, divided by 1 + the distance; entities of  *)
(* the query count 1.  The answer holds the best chunks and leaves out     *)
(* none that is better.                                                    *)
ScoresFollowDistance ==
  (query # None /\ results # None) =>
    LET relevant == UNION {DOMAIN nodes[n] : n \in Within[max_hops]}
    IN  /\ DOMAIN scores = relevant
        /\ \A k \in relevant :
             scores[k] \in SumFunction(LeastGains(k))..SumFunction(MostGains(k))
        /\ ToSet(results) \subseteq relevant
        /\ Len(results) = Min({top_k, Cardinality(relevant)})
        /\ \A k \in relevant \ ToSet(results) : \A j \in ToSet(results) : scores[k] <= scores[j]

(* A chunk of the fused evidence is placed before another one that fewer   *)
(* retrievers found, or that the same retrievers all ranked below it; none *)
(* is listed twice, and one that is cut off has no claim to a place.  A    *)
(* chunk counts as the contribution of the graph alone exactly when no     *)
(* other retriever returned it.                                            *)
FusionRewardsAgreement ==
  fused # None =>
    LET finders(k) == {s \in RetrievalSource : k \in ToSet(lists[s])}
        rank(s, k) == CHOOSE r \in DOMAIN lists[s] : lists[s][r] = k
        better(j, k) ==
          \/ Cardinality(finders(j)) > Cardinality(finders(k))
          \/ /\ finders(j) = finders(k)
             /\ \A s \in finders(k) : rank(s, j) < rank(s, k)
        found == UNION {ToSet(lists[s]) : s \in RetrievalSource}
        kept == {f.chunk : f \in ToSet(fused)}
    IN  /\ Len(fused) = Min({top_k_fused, Cardinality(found)})
        /\ Cardinality(kept) = Len(fused)
        /\ kept \subseteq found
        /\ \A p \in DOMAIN fused : \A j \in found :
             better(j, fused[p].chunk) => \E q \in 1..(p - 1) : fused[q].chunk = j
        /\ graph_only(fused) = {k \in kept : finders(k) = {"GRAPH"}}
=============================================================================
