------------------------------- MODULE MCFiles -------------------------------
(***************************************************************************)
(* A tree that has a file or directory of two levels: at the top, `a` with *)
(* `ab` in it and `c`.                                                     *)
(***************************************************************************)
EXTENDS Files

CONSTANTS top, a, ab, c

MCPaths == {top, a, ab, c}
MCAbove == [p \in MCPaths |-> CASE p = top -> {}
                                [] p = ab -> {top, a}
                                [] OTHER -> {top}]
=============================================================================
