--------------------------- MODULE MCAppGenerate ---------------------------
(* Small instances of AppGenerate; requests are interchangeable.             *)
EXTENDS AppGenerate, TLC

Interchangeable == Permutations(Request)
=============================================================================
