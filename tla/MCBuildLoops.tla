---------------------------- MODULE MCBuildLoops ----------------------------
(* Functions with up to MaxNodes statements that shape the graph.          *)
EXTENDS BuildLoops
=============================================================================
