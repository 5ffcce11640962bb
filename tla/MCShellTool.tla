---------------------------- MODULE MCShellTool ----------------------------
(***************************************************************************)
(* Bounded instances of ShellTool: a shell with one process it may leave   *)
(* behind, two pipes and two chunks of output on each.                     *)
(***************************************************************************)
EXTENDS ShellTool
=============================================================================
