------------------------ MODULE MCGraphConstruction ------------------------
(* Two windows and six extractions: a local id used in both windows for    *)
(* different mentions, one used twice, dangling references, quotes that    *)
(* are not found, relations either way round and of two types, and an      *)
(* event told in both windows.                                             *)
EXTENDS GraphConstruction

Mention(local_id, quotes) == [local_id |-> local_id, quotes |-> quotes]

Relation(subject, type, object, quotes) ==
  [subject_local_id |-> subject, type |-> type, object_local_id |-> object,
   quotes |-> quotes]

Event(local_id, predicate, temporal, participants, quotes) ==
  [local_id |-> local_id, predicate |-> predicate, temporal |-> temporal,
   participants |-> participants, quotes |-> quotes]

By(entity_local_id, role) == [entity_local_id |-> entity_local_id, role |-> role]

Answer(mentions, related, told) ==
  [entities |-> mentions, relations |-> related, events |-> told]

E1 == Mention("e1", {{<<1, 0>>}})
E2 == Mention("e2", {{<<2, 0>>, <<1, 5>>}, {}})
E3 == Mention("e1", {{<<2, 3>>}})
Unfound == Mention("e2", {{}})

Owns  == Relation("e1", "POSSESSES", "e2", {{<<1, 0>>}})
Held  == Relation("e2", "LOCATED_AT", "e1", {{<<2, 0>>}, {}})
Owned == Relation("e2", "POSSESSES", "e1", {{<<2, 0>>, <<3, 0>>}})
Other == Relation("e1", "ALLY_OF", "OTHER", {{<<1, 0>>}})

Gives(local_id, temporal, quotes) ==
  Event(local_id, "give", temporal, <<By("e1", "AGENT"), By("e2", "PATIENT")>>, quotes)

Answers ==
  {Answer({E1, E2}, {Owns, Held}, {Gives(1, "NONE", {{<<1, 0>>}})}),
   Answer({E1, E2}, {Owned, Other}, {Gives(2, "DATE", {{<<1, 0>>, <<2, 0>>}})}),
   Answer({E1, E3, E2}, {Owns, Owned}, {}),
   Answer({E1, Unfound}, {Owns, Relation("e1", "ALLY_OF", "e1", {{<<3, 0>>}})},
               {Gives(1, "NONE", {{<<1, 0>>}})}),
   Answer({E3}, {Held},
               {Event(1, "give", "NONE", <<By("e1", "AGENT")>>, {{<<2, 3>>}}),
                Event(2, "give", "NONE", <<By("e1", "AGENT"), By("e9", "PATIENT")>>,
                      {{<<2, 3>>}})}),
   Answer({E3}, {Relation("e1", "ALLY_OF", "e2", {{}})}, {})}

Types == <<"ALLY_OF", "LOCATED_AT", "POSSESSES">>
=============================================================================
