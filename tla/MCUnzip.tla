------------------------------- MODULE MCUnzip -------------------------------
(* Unzip with archives of a directory and what is in it. *)
EXTENDS Unzip, FiniteSetsExt

MCPaths == {"a", "a/b", "a/c"}
MCAbove == [p \in MCPaths |-> IF p = "a" THEN {} ELSE {"a"}]

\* "when the zip file extracts to more than the limit ... should fail"
\* (unzip_test.go): what is extracted without an error is within the limit.
TotalWithinLimit ==
  pc = "ok" => MapThenSumSet(LAMBDA p : tree[p].size, Paths) <= Limit
=============================================================================
