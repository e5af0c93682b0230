--------------------------- MODULE MCHistoryRing ----------------------------
(* Small instances of HistoryRing for TLC. *)
EXTENDS HistoryRing

CONSTANTS e1, e2, e3
=============================================================================
