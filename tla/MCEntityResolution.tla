------------------------- MODULE MCEntityResolution -------------------------
(* Two surnames shared by a couple, one of them also a first name in the   *)
(* corpus, a full name, a particle-led name, and generic referents.        *)
EXTENDS EntityResolution

he              == <<"he">>
danglars        == <<"danglars">>
servieux        == <<"servieux">>
full_name       == <<"edmond", "dantes">>
baron_danglars  == <<"baron", "danglars">>
madame_danglars == <<"madame", "danglars">>
baron_servieux  == <<"baron", "servieux">>
madame_servieux == <<"madame", "servieux">>
lieutenant      == <<"lieutenant", "danglars">>
the_lieutenant  == <<"the", "lieutenant">>

Surfaces == <<baron_danglars, baron_servieux, danglars, full_name, he,
              lieutenant, madame_danglars, madame_servieux, servieux,
              the_lieutenant>>

Tags == <<{"female_married"}, {"male_senior"}, {"other", "lieutenant"}>>

Titles == {"the", "baron", "madame", "lieutenant"}

F(name, aliases, type, provenance, local_id) ==
  [name |-> name, aliases |-> aliases, type |-> type,
   provenance |-> provenance, local_id |-> local_id]

CoreFacts ==
  {F(baron_danglars,  <<>>, "PERSON", {2}, "w1e1"),
   F(baron_danglars,  <<baron_servieux>>, "PERSON", {1}, "w1e1"),
   F(danglars,        <<>>, "PERSON", {2}, "w1e2"),
   F(madame_danglars, <<danglars>>, "PERSON", {3}, "w1e2"),
   F(madame_danglars, <<madame_servieux>>, "PERSON", {1, 3}, "w2e1"),
   F(baron_servieux,  <<>>, "PERSON", {1}, "w1e3"),
   F(full_name,       <<danglars, lieutenant>>, "OTHER", {1}, "w2e2"),
   F(lieutenant,      <<he>>, "PERSON", {3}, "w2e2"),
   F(he,              <<the_lieutenant>>, "PERSON", {1}, "w1e4")}

Facts == CoreFacts \union
  {F(danglars,        <<baron_danglars, he>>, "OTHER", {3}, "w2e1"),
   F(servieux,        <<full_name>>, "PERSON", {2}, "w1e3"),
   F(he,              <<>>, "PERSON", {2}, "w2e3")}
=============================================================================
