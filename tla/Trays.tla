------------------------------- MODULE Trays -------------------------------
(***************************************************************************)
(* What add_item and remove_item of 10-ipc-sem promise to the processes    *)
(* that call them: a call of a chef puts one dish on its tray, in one      *)
(* indivisible step at which the tray has room; a call of a customer takes *)
(* one dish, in one step at which the tray has a dish.                     *)
(***************************************************************************)
EXTENDS Naturals

CONSTANTS
  Tray, Chef, Customer,
  Capacity,    (* the most dishes a tray holds                              *)
  FirstTray,   (* the tray a process calls with first                       *)
  NextTray     (* and the one it calls with after a call with tray b        *)

VARIABLES
  dishes,      (* the number of dishes on each tray                         *)
  at,          (* the tray of a process's present or next call              *)
  served       (* the call has had its effect and has yet to return         *)

vars == <<dishes, at, served>>

Init ==
  /\ dishes = [b \in Tray |-> 0]
  /\ at = FirstTray
  /\ served = [p \in Chef \cup Customer |-> FALSE]

Put(p) ==
  /\ ~served[p]
  /\ dishes[at[p]] < Capacity
  /\ dishes' = [dishes EXCEPT ![at[p]] = @ + 1]
  /\ served' = [served EXCEPT ![p] = TRUE]
  /\ UNCHANGED at

Take(p) ==
  /\ ~served[p]
  /\ dishes[at[p]] > 0
  /\ dishes' = [dishes EXCEPT ![at[p]] = @ - 1]
  /\ served' = [served EXCEPT ![p] = TRUE]
  /\ UNCHANGED at

Return(p) ==
  /\ served[p]
  /\ served' = [served EXCEPT ![p] = FALSE]
  /\ at' = [at EXCEPT ![p] = NextTray[p][@]]
  /\ UNCHANGED dishes

Next ==
  \/ \E p \in Chef : Put(p)
  \/ \E p \in Customer : Take(p)
  \/ \E p \in Chef \cup Customer : Return(p)

Spec == Init /\ [][Next]_vars
=============================================================================
