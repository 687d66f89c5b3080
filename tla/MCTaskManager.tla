---------------------------- MODULE MCTaskManager ----------------------------
(* Instances of TaskManager for TLC: one task over two attempts, or two      *)
(* tasks that compete for one place.                                         *)
EXTENDS TaskManager

CONSTANTS t1, t2

MCOne == {t1}
MCTwo == {t1, t2}
MCNone == {}
=============================================================================
