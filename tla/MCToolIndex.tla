---------------------------- MODULE MCToolIndex ----------------------------
(* ToolIndex: every tool, owner or not; its state is finite without bounds. *)
EXTENDS ToolIndex, TLC
============================================================================
