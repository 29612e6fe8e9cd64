---------------------------- MODULE MCChatApp ----------------------------
(* Instances of ChatApp for TLC. *)
EXTENDS ChatApp, TLC
Symmetry == Permutations(Conn)
=============================================================================
