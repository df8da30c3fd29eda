------------------------------ MODULE MCPyViz ------------------------------
(* A small instance of the visualizer for TLC. *)
EXTENDS PyViz

MC_Periods == {1, 2}
=============================================================================
