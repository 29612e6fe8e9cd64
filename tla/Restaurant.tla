----------------------------- MODULE Restaurant -----------------------------
(***************************************************************************)
(* The restaurant of 10-ipc-sem: two trays in shared memory, each with     *)
(* three semaphores, the two chefs and three customers forked to work on   *)
(* them, and the parent, which counts the dishes without taking any        *)
(* semaphore.                                                              *)
(*                                                                         *)
(* A tray and the type of the dishes its callers pass for it share one     *)
(* name.  Each semaphore operation is one step, and so are the search of a *)
(* tray for a slot, the store into the slot it found, and each slot the    *)
(* parent reads.  The program is built without optimisation, so the        *)
(* parent's loads happen in program order.                                 *)
(***************************************************************************)
EXTENDS Integers, FiniteSets

CONSTANT BUFFER_SIZE   (* slots of a tray *)

ASSUME BufferAssumption == BUFFER_SIZE \in Nat \ {0}

VARIABLES
  items,                (* the slots of each tray                            *)
  mutex, full, empty,   (* the values of each tray's semaphores              *)
  pc, at, slot,         (* processes: control point, tray of the call, i     *)
  read, count,          (* parent: slots read so far, dishes counted in them *)
  lo, hi                (* fewest and most dishes there were while it read   *)

sems   == <<mutex, full, empty>>
status == <<read, count, lo, hi>>
vars   == <<items, sems, pc, at, slot, status>>

Tray     == {"vegan", "non_vegan"}
EMPTY    == "empty"
Slot     == 0 .. BUFFER_SIZE - 1
Chef     == {"Donatello", "Portecelli"}
Customer == {"Customer1", "Customer2", "Customer3"}
Proc     == Chef \cup Customer

FirstTray ==
  [p \in Proc |-> IF p \in {"Donatello", "Customer1"} THEN "non_vegan" ELSE "vegan"]

\* Only the third customer changes trays between calls.
NextTray ==
  [p \in Proc |-> [b \in Tray |->
     IF p = "Customer3" THEN CHOOSE other \in Tray : other # b ELSE b]]

Free(b)   == {i \in Slot : items[b][i] = EMPTY}
Filled(b) == Slot \ Free(b)
Dishes(b) == Cardinality(Filled(b))

\* The slots a process may use: a chef's loop tests for EMPTY, a customer's for
\* the type of dish.
OfType(b) == {i \in Slot : items[b][i] = b}
Wanted(p) == IF p \in Chef THEN Free(at[p]) ELSE OfType(at[p])

\* The searches stop at the first slot that passes their test.
First(i, T) == i \in T /\ \A j \in T : i <= j

-----------------------------------------------------------------------------
Init ==
  /\ items = [b \in Tray |-> [i \in Slot |-> EMPTY]]
  /\ mutex = [b \in Tray |-> 1]
  /\ full  = [b \in Tray |-> 0]
  /\ empty = [b \in Tray |-> BUFFER_SIZE]
  /\ pc = [p \in Proc |-> "idle"]
  /\ at = FirstTray
  /\ slot = [p \in Proc |-> 0]
  /\ read  = [b \in Tray |-> BUFFER_SIZE]
  /\ count = [b \in Tray |-> 0]
  /\ lo = [b \in Tray |-> 0]
  /\ hi = [b \in Tray |-> 0]

Goto(p, from, to) == pc[p] = from /\ pc' = [pc EXCEPT ![p] = to]

-----------------------------------------------------------------------------
(* add_item(at[p]) and remove_item(at[p]).  "idle" covers the sleep between  *)
(* calls; the prints are left out.                                           *)

\* Variant: empty is a plain counter that add_item decrements.
WaitEmptyUnguarded(p) ==
  /\ Goto(p, "idle", "lock")
  /\ empty' = [empty EXCEPT ![at[p]] = @ - 1]
  /\ UNCHANGED <<items, mutex, full, at, slot, status>>

WaitEmpty(p) ==
  /\ Goto(p, "idle", "lock")
  /\ empty[at[p]] > 0
  /\ empty' = [empty EXCEPT ![at[p]] = @ - 1]
  /\ UNCHANGED <<items, mutex, full, at, slot, status>>

WaitFull(p) ==
  /\ Goto(p, "idle", "lock")
  /\ full[at[p]] > 0
  /\ full' = [full EXCEPT ![at[p]] = @ - 1]
  /\ UNCHANGED <<items, mutex, empty, at, slot, status>>

\* Variant: the mutex is not waited for.
LockNot(p) ==
  /\ Goto(p, "lock", "search")
  /\ UNCHANGED <<items, sems, at, slot, status>>

Lock(p) ==
  /\ Goto(p, "lock", "search")
  /\ mutex[at[p]] > 0
  /\ mutex' = [mutex EXCEPT ![at[p]] = @ - 1]
  /\ UNCHANGED <<items, full, empty, at, slot, status>>

\* Variant: the search goes from the last slot down.
SearchFromEnd(p) ==
  /\ \E i \in Wanted(p) : /\ \A j \in Wanted(p) : j <= i
                          /\ Goto(p, "search", "store")
                          /\ slot' = [slot EXCEPT ![p] = i]
  /\ UNCHANGED <<items, sems, at, status>>

\* The loop over the slots; one that finds no slot stores nothing.
Search(p) ==
  /\ \/ \E i \in Slot : /\ First(i, Wanted(p))
                        /\ Goto(p, "search", "store")
                        /\ slot' = [slot EXCEPT ![p] = i]
     \/ /\ Wanted(p) = {}
        /\ Goto(p, "search", "unlock")
        /\ UNCHANGED slot
  /\ UNCHANGED <<items, sems, at, status>>

\* lo and hi follow the number of dishes of a tray until the parent has read
\* the last of its slots.
Watch(b, n) ==
  /\ lo' = [lo EXCEPT ![b] = IF read[b] < BUFFER_SIZE /\ n < @ THEN n ELSE @]
  /\ hi' = [hi EXCEPT ![b] = IF read[b] < BUFFER_SIZE /\ n > @ THEN n ELSE @]

Put(p) ==
  /\ Goto(p, "store", "unlock")
  /\ UNCHANGED <<sems, at, read, count>>
  /\ items' = [items EXCEPT ![at[p]] = [@ EXCEPT ![slot[p]] = at[p]]]
  /\ slot' = [slot EXCEPT ![p] = 0]
  /\ Watch(at[p], Dishes(at[p])')

Take(p) ==
  /\ Goto(p, "store", "unlock")
  /\ UNCHANGED <<sems, at, read, count>>
  /\ items' = [items EXCEPT ![at[p]] = [@ EXCEPT ![slot[p]] = EMPTY]]
  /\ slot' = [slot EXCEPT ![p] = 0]
  /\ Watch(at[p], Dishes(at[p])')

Unlock(p) ==
  /\ Goto(p, "unlock", "post")
  /\ mutex' = [mutex EXCEPT ![at[p]] = @ + 1]
  /\ UNCHANGED <<items, full, empty, at, slot, status>>

\* The call returns, and the caller turns to the tray of its next call.
PostFull(p) ==
  /\ Goto(p, "post", "idle")
  /\ full' = [full EXCEPT ![at[p]] = @ + 1]
  /\ at' = [at EXCEPT ![p] = NextTray[p][@]]
  /\ UNCHANGED <<items, mutex, empty, slot, status>>

\* Variant: remove_item posts the semaphore it waited for.
PostEmptyWrong(p) ==
  /\ Goto(p, "post", "idle")
  /\ full' = [full EXCEPT ![at[p]] = @ + 1]
  /\ at' = [at EXCEPT ![p] = NextTray[p][@]]
  /\ UNCHANGED <<items, mutex, empty, slot, status>>

PostEmpty(p) ==
  /\ Goto(p, "post", "idle")
  /\ empty' = [empty EXCEPT ![at[p]] = @ + 1]
  /\ at' = [at EXCEPT ![p] = NextTray[p][@]]
  /\ UNCHANGED <<items, mutex, full, slot, status>>

-----------------------------------------------------------------------------
(* The parent: print_buffer_state, which reads slot i of the vegan tray and  *)
(* then slot i of the other.                                                 *)

StartStatus ==
  /\ \A b \in Tray : read[b] = BUFFER_SIZE
  /\ read'  = [b \in Tray |-> 0]
  /\ count' = [b \in Tray |-> 0]
  /\ lo' = [b \in Tray |-> Dishes(b)]
  /\ hi' = [b \in Tray |-> Dishes(b)]
  /\ UNCHANGED <<items, sems, pc, at, slot>>

ReadSlot(b) ==
  /\ read[b] < BUFFER_SIZE
  /\ IF b = "vegan" THEN read["non_vegan"] = read[b] ELSE read["vegan"] > read[b]
  /\ count' = [count EXCEPT ![b] = IF items[b][read[b]] = EMPTY THEN @ ELSE @ + 1]
  /\ read' = [read EXCEPT ![b] = @ + 1]
  /\ UNCHANGED <<items, sems, pc, at, slot, lo, hi>>

-----------------------------------------------------------------------------
CallStep(p) == Lock(p) \/ Search(p) \/ Unlock(p)

ChefStep(p) == WaitEmpty(p) \/ Put(p) \/ PostFull(p) \/ CallStep(p)

CustomerStep(p) == WaitFull(p) \/ Take(p) \/ PostEmpty(p) \/ CallStep(p)

ParentStep == StartStatus \/ \E b \in Tray : ReadSlot(b)

Next ==
  \/ \E p \in Chef : ChefStep(p)
  \/ \E p \in Customer : CustomerStep(p)
  \/ ParentStep

Spec == Init /\ [][Next]_vars

\* Every process loops for ever.  One that waits at a semaphore is not passed
\* over for ever: the others sleep for seconds between their calls.
Fairness ==
  /\ \A p \in Chef : SF_vars(ChefStep(p))
  /\ \A p \in Customer : SF_vars(CustomerStep(p))

FairSpec == Spec /\ Fairness

-----------------------------------------------------------------------------
TypeOK ==
  /\ items \in [Tray -> [Slot -> {EMPTY} \cup Tray]]
  /\ mutex \in [Tray -> Nat] /\ full \in [Tray -> Nat] /\ empty \in [Tray -> Nat]
  /\ pc \in [Proc -> {"idle", "lock", "search", "store", "unlock", "post"}]
  /\ at \in [Proc -> Tray]
  /\ slot \in [Proc -> Slot]
  /\ read \in [Tray -> 0 .. BUFFER_SIZE]
  /\ count \in [Tray -> Nat] /\ lo \in [Tray -> Nat] /\ hi \in [Tray -> Nat]

\* The processes of P at work on tray b at one of the points L.
In(P, b, L) == {p \in P : at[p] = b /\ pc[p] \in L}

\* At most one process searches and changes a tray at a time.
OneAtATray ==
  \A b \in Tray : mutex[b] + Cardinality(In(Proc, b, {"search", "store", "unlock"})) = 1

\* The two counting semaphores and the processes between a wait and its post
\* account for every slot: "full: counts the number of filled slots", "empty:
\* counts the number of empty slots" (main.c:23-24).
SemaphoresCountSlots ==
  \A b \in Tray :
    /\ full[b] + Cardinality(In(Customer, b, {"lock", "search", "store"}))
               + Cardinality(In(Chef, b, {"unlock", "post"})) = Dishes(b)
    /\ empty[b] + Cardinality(In(Chef, b, {"lock", "search", "store"}))
                + Cardinality(In(Customer, b, {"unlock", "post"})) = BUFFER_SIZE - Dishes(b)

\* Every search finds a slot - neither loop has an answer for one that does
\* not - and the slot is still the first one when the process writes to it.
SearchSucceeds ==
  \A p \in Proc : /\ pc[p] = "search" => Wanted(p) # {}
                  /\ pc[p] = "store" => First(slot[p], Wanted(p))

\* The counts the parent prints are counts the trays had while it read them,
\* although it takes no semaphore and the trays change under its hands: "Print
\* the current number of items in each tray" (main.c:34).
StatusWasTrue ==
  \A b \in Tray : read[b] = BUFFER_SIZE => lo[b] <= count[b] /\ count[b] <= hi[b]

\* add_item and remove_item do what Trays promises.
Abstract == INSTANCE Trays WITH
  Capacity <- BUFFER_SIZE,
  dishes <- [b \in Tray |-> Dishes(b)],
  served <- [p \in Proc |-> pc[p] \in {"unlock", "post"}]

TraysSpec == Abstract!Spec

\* Nobody starves: every chef puts, and every customer gets, dish after dish.
EverybodyServed == \A p \in Proc : []<>(pc[p] = "unlock")
=============================================================================
