------------------------------ MODULE MCRunner ------------------------------
(* Runner with lists of up to MaxBuildpacks buildpacks. *)
EXTENDS Runner, TLC

CONSTANTS b1, b2, zip, web, worker

AllLayouts == {{}} \union
  {{"bin"} \union l : l \in SUBSET {"detect", "supply", "finalize"}}

MCBuildpacks == {b1, b2}
MCLeftovers == {zip}
MCProcTypes == {web, worker}

\* The buildpacks are interchangeable.
Symmetry == Permutations(MCBuildpacks)
=============================================================================
