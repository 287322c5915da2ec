----------------------------- MODULE RankFusion -----------------------------
(***************************************************************************)
(* Reciprocal rank fusion of the evidence of one claim (fusion/rrf.py): a  *)
(* chunk scores 1/(rrf_k + rank) for every list that holds it.  Scores are *)
(* multiples of 1/ScoreUnit.                                               *)
(***************************************************************************)
EXTENDS Naturals, FiniteSets, FiniteSetsExt, Functions, Sequences

CONSTANTS
  rrf_k,
  top_k_fused,
  ScoreUnit

RetrievalSource == {"SEMANTIC", "LEXICAL", "GRAPH"}

(* The records of one query: the place of every chunk in every list.  The  *)
(* evidence of a claim is that of all its queries.                         *)
Stamped(query_id, lists) ==
  UNION {{[query_id |-> query_id, source |-> s, chunk |-> lists[s][rank], rank |-> rank] :
            rank \in DOMAIN lists[s]} :
           s \in RetrievalSource}

Found(evidence) == {record.chunk : record \in evidence}
Of(chunk, evidence) == {record \in evidence : record.chunk = chunk}

(* The best of the scored chunks: best score first, ties by chunk id. *)
BestFirst(scores, limit) ==
  LET before(k) == {j \in DOMAIN scores :
                      scores[j] > scores[k] \/ (scores[j] = scores[k] /\ j < k)}
  IN  [place \in 1..Min({limit, Cardinality(DOMAIN scores)}) |->
         CHOOSE k \in DOMAIN scores : Cardinality(before(k)) = place - 1]

(* Mutant: a chunk keeps the score of its best place. *)
BestPlace(records) == Max({ScoreUnit \div (rrf_k + record.rank) : record \in records})

rrf_score(records) ==
  SumFunction([record \in records |-> ScoreUnit \div (rrf_k + record.rank)])

fuse_evidence(evidence) ==
  LET best == BestFirst([k \in Found(evidence) |-> rrf_score(Of(k, evidence))], top_k_fused)
  IN  [place \in DOMAIN best |->
         [chunk |-> best[place],
          contributing_sources |-> {record.source : record \in Of(best[place], evidence)}]]

graph_only(fused) ==
  {fused[place].chunk : place \in {p \in DOMAIN fused : fused[p].contributing_sources = {"GRAPH"}}}
=============================================================================
