--------------------------- MODULE MCProtocolTasks ---------------------------
(* Small instances of ProtocolTasks for TLC. *)
EXTENDS ProtocolTasksProps, TLC

CONSTANTS elicit, other
=============================================================================
