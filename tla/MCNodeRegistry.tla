-------------------------- MODULE MCNodeRegistry --------------------------
(* Small instances of NodeRegistry for TLC. *)
EXTENDS NodeRegistry

CONSTANTS n1, n2

(* Every id fits: copiar() keeps it whole. *)
TodoCabe == [id \in {n1, n2} |-> id]
=============================================================================
