------------------------ MODULE MCOperatorSessions ------------------------
(* Small instances of OperatorSessions for TLC. *)
EXTENDS OperatorSessions, TLC

CONSTANTS c1, c2, c3

ClientesIguales == Permutations(Conns)
=============================================================================
