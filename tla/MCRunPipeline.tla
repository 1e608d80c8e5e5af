--------------------------- MODULE MCRunPipeline ---------------------------
(***************************************************************************)
(* RunPipeline for TLC: one scheduler, one MCP worker, command line        *)
(* processes beside them, two runs.                                        *)
(***************************************************************************)
EXTENDS RunPipeline, TLC

CONSTANTS mcp1, cli1, cli2, run1, run2

\* Runs are interchangeable, and so are command line processes.
Symmetry == Permutations({run1, run2}) \cup Permutations({cli1, cli2})
=============================================================================
