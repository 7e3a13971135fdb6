---------------------------- MODULE MCReproduce ----------------------------
(***************************************************************************)
(* One reproduction run and one data preparation beside it, a file of two  *)
(* blocks, two source files and one pipeline file.                         *)
(***************************************************************************)
EXTENDS Reproduce

CONSTANTS run, fetch, hpp, cpp, cmake

MCProcs    == {run, fetch}
MCSources  == {hpp, cpp}
MCPipeline == {cmake}
=============================================================================
