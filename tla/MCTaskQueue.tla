---------------------------- MODULE MCTaskQueue ----------------------------
(* An instance of TaskQueue for TLC. *)
EXTENDS TaskQueue
\* Both priorities, and a negative number, which is too large as an unsigned int.
MCTyped == {-1, 0, 1}
=============================================================================
