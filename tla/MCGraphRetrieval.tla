-------------------------- MODULE MCGraphRetrieval --------------------------
(* Texts of 18 words with up to two paragraph breaks anywhere, with        *)
(* chapters, with too few headings, or with none.  A word of a quote also  *)
(* stands inside other words, a stop word after a name is cut by some      *)
(* chunk, names repeat, and marks stand before, inside and after words; "^"*)
(* stands for a smart quote, "|" for a straight one and "~" for an ellipsis*)
EXTENDS GraphRetrieval

Word(w) == [i \in 1..Len(w) |-> SubSeq(w, i, i)]
Words(ws) == [i \in DOMAIN ws |-> Word(ws[i])]

MCCapitals == {"A", "B", "N", "T", "Y"}
MCLetters == MCCapitals \union {"a", "b", "e", "h", "i", "k", "n", "o", "r", "s", "t", "w", "y"}
MCLower == [c \in MCLetters |->
              CASE c = "A" -> "a" [] c = "B" -> "b" [] c = "N" -> "n" [] c = "T" -> "t"
                [] c = "Y" -> "y" [] OTHER -> c]
MCStopwords == {Word("The")}
MCSmart == ("^" :> <<"|">>) @@ ("~" :> <<".", ".", ".">>)

Story == Words(<<"Abbe", "saw", "^Ann^", "in", "New", "York", "in", "it", "Abbe",
                 "saw", "Bo~", "saw", "it", "Abbe", "The", "Bo", "saw", "Ann">>)
Echo  == Words(<<"so", "she", "saw", "Bo", "Abbe", "The", "he", "saw", "Ann", "Abbe",
                 "York", "in", "it", "saw", "Bo~", "The", "New", "York">>)

(* A paragraph break adds a character to the white space before it. *)
Text(words, breaks, headings) ==
  [words |-> words, breaks |-> breaks, headings |-> headings,
   at |-> [n \in 0..Len(words) |->
             FoldFunctionOnSet(+, 0, [i \in 1..Len(words) |->
               Len(words[i]) + 1 + (IF i \in breaks THEN 1 ELSE 0)], 1..n)]]

MCTexts ==
  {Text(words, breaks, headings) :
     words \in {Story, Echo},
     breaks \in {{a, b} : a \in 3..17, b \in {7, 12}},
     headings \in {<<<<>>, <<3, 9>>>>, <<<<3>>, <<2, 4, 16>>>>, <<<<0, 6, 12>>, <<2, 4, 16>>>>}}

(* The third is in the second half of "she saw", and the last begins with  *)
(* the last dot of an ellipsis.                                            *)
MCQuotes == {Words(<<"|Ann|", "in">>), Words(<<"it", "saw", "Bo">>), Words(<<"he", "saw">>),
             Words(<<"York", "it">>), Words(<<".", "The">>), Words(<<"o">>)}

Edge(weight, ks) == [weight |-> weight, chunks |-> ks]
Phrases(name) == <<Word(name)>>

(* Weights that no number of chunks gives, two ways to one entity, and one *)
(* too far away; chunks an entity has more than once, and two entities of  *)
(* one name, which only the second is found by.                            *)
MCLoadedGraphs ==
  {[nodes |-> ("Abbe" :> (1 :> 2)) @@ ("Ann" :> (1 :> 1 @@ 2 :> 3)) @@ ("Bo" :> (3 :> 1))
                @@ ("York" :> (2 :> 2 @@ 4 :> 1)) @@ ("New" :> (5 :> 1)) @@ ("Ann B" :> (1 :> 1)),
    names |-> (Phrases("abbe") :> "Abbe") @@ (Phrases("ann") :> "Ann") @@ (Phrases("bo") :> "Bo")
                @@ (Phrases("york") :> "York") @@ (Phrases("new") :> "New"),
    edges |-> ({"Abbe", "Bo"} :> Edge(3, {1})) @@ ({"Ann", "Bo"} :> Edge(1, {2}))
                @@ ({"Bo", "York"} :> Edge(2, {3})) @@ ({"York", "New"} :> Edge(4, {4}))
                @@ ({"Ann", "Ann B"} :> Edge(2, {1}))]}

(* Lists that agree with the graph, with each other, or with nobody. *)
MCRankings == {<<>>, <<1, 2, 3>>, <<5, 1, 4>>}

MCQueryTexts == {Words(<<"Abbe", "saw", "Ann">>), Words(<<"Bo">>), Words(<<"The", "York">>),
                 Words(<<"saw">>)}
=============================================================================
