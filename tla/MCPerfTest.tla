----------------------------- MODULE MCPerfTest -----------------------------
(* Module PerfTest for TLC.                                                *)
EXTENDS PerfTest, TLC

Symmetry == Permutations(Listeners)
=============================================================================
