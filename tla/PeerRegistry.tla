---------------------------- MODULE PeerRegistry ----------------------------
(***************************************************************************)
(* What the peer table of mock-prj-01 promises to those who use it: every  *)
(* connection is listed at most once in its life, under an id of its own   *)
(* that grows from one to the next; it is refused only if the table is     *)
(* full or the ids are used up; it is taken out once; and nothing is       *)
(* listed after the table was closed.  Each of these is one step.          *)
(***************************************************************************)
EXTENDS Naturals, FiniteSets

CONSTANTS Conn, MAX_PEERS, INT_MAX

VARIABLES
  id,        (* connections: the id it is listed under, 0 if it is not      *)
  over,      (* connections that were refused or taken out                  *)
  next_id,   (* the next id                                                 *)
  closed     (* nothing will be listed any more                             *)

vars == <<id, over, next_id, closed>>

Listed == {c \in Conn : id[c] # 0}

Init ==
  /\ id = [c \in Conn |-> 0]
  /\ over = {}
  /\ next_id = 1
  /\ closed = FALSE

New(c) == id[c] = 0 /\ c \notin over

Room == next_id < INT_MAX /\ Cardinality(Listed) < MAX_PEERS

Register(c) ==
  /\ ~closed /\ New(c) /\ Room
  /\ id' = [id EXCEPT ![c] = next_id]
  /\ next_id' = next_id + 1
  /\ UNCHANGED <<over, closed>>

Refuse(c) ==
  /\ New(c) /\ ~Room
  /\ over' = over \cup {c}
  /\ UNCHANGED <<id, next_id, closed>>

Drop(c) ==
  /\ id[c] # 0
  /\ id' = [id EXCEPT ![c] = 0]
  /\ over' = over \cup {c}
  /\ UNCHANGED <<next_id, closed>>

Close ==
  /\ ~closed /\ Listed = {}
  /\ closed' = TRUE
  /\ UNCHANGED <<id, over, next_id>>

Next == Close \/ \E c \in Conn : Register(c) \/ Refuse(c) \/ Drop(c)

Spec == Init /\ [][Next]_vars
=============================================================================
