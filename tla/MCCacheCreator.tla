--------------------------- MODULE MCCacheCreator ---------------------------
(* Model values for CacheCreator: query 1 holds int values and query 2     *)
(* strings, each with keys "a" and "b"; one LAST_POPULATE key has no '.'.  *)
EXTENDS CacheCreator, TLC

MCKeys == {<<0, "LAST_POPULATE_x">>, <<1, "a">>, <<1, "b">>, <<2, "a">>}
MCLastPopulateKeys == {<<0, "LAST_POPULATE_x">>}
MCValues == {"v1", "v2"}
MCKeyTypes == (1 :> "int64") @@ (2 :> "string")
=============================================================================
