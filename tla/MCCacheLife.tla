----------------------------- MODULE MCCacheLife -----------------------------
(* CacheLife with two supply buildpacks and a few stagings. *)
EXTENDS CacheLife

CONSTANTS ruby, go

MCSupplyDirs == {ruby, go}
=============================================================================
