--------------------------- MODULE RestaurantProofs ---------------------------
(***************************************************************************)
(* Theorems about Restaurant, for trays of any size.  The layers of the    *)
(* invariant: types; the account of the semaphores with the mutex and the  *)
(* slots found by searches, none of which is inductive alone; and what     *)
(* the parent has counted.                                                 *)
(***************************************************************************)
EXTENDS Restaurant, FiniteSetTheorems, TLAPS

-----------------------------------------------------------------------------
(* Finite sets of slots and of processes *)

LEMMA SlotSets ==
  /\ IsFiniteSet(Slot) /\ Cardinality(Slot) = BUFFER_SIZE
  /\ \A S \in SUBSET Slot : /\ IsFiniteSet(S)
                            /\ Cardinality(S) \in Nat
                            /\ Cardinality(S) <= BUFFER_SIZE
                            /\ Cardinality(Slot \ S) = BUFFER_SIZE - Cardinality(S)
<1>1. IsFiniteSet(Slot) /\ Cardinality(Slot) = BUFFER_SIZE
  <2>1. 0 \in Int /\ BUFFER_SIZE - 1 \in Int /\ BUFFER_SIZE \in Nat \ {0}
    BY BufferAssumption
  <2>2. IsFiniteSet(0 .. BUFFER_SIZE - 1)
        /\ Cardinality(0 .. BUFFER_SIZE - 1) =
             IF 0 > BUFFER_SIZE - 1 THEN 0 ELSE (BUFFER_SIZE - 1) - 0 + 1
    BY <2>1, FS_Interval
  <2> QED BY <2>1, <2>2 DEF Slot
<1>2. ASSUME NEW S \in SUBSET Slot
      PROVE  /\ IsFiniteSet(S) /\ Cardinality(S) \in Nat
             /\ Cardinality(S) <= BUFFER_SIZE
             /\ Cardinality(Slot \ S) = BUFFER_SIZE - Cardinality(S)
  <2>1. IsFiniteSet(S) /\ Cardinality(S) <= Cardinality(Slot) BY <1>1, FS_Subset
  <2>2. Cardinality(S) \in Nat BY <2>1, FS_CardinalityType
  <2>3. Cardinality(Slot \ S) = Cardinality(Slot) - Cardinality(Slot \cap S)
    BY <1>1, FS_Difference
  <2>4. Slot \cap S = S OBVIOUS
  <2> QED BY <1>1, <2>1, <2>2, <2>3, <2>4
<1> QED BY <1>1, <1>2

LEMMA ProcSets == \A P \in SUBSET Proc : IsFiniteSet(P) /\ Cardinality(P) \in Nat
<1>1. \A e : IsFiniteSet({e}) BY FS_Singleton
<1>2. IsFiniteSet({"Donatello"} \cup {"Portecelli"}) BY <1>1, FS_Union
<1>3. IsFiniteSet({"Customer1"} \cup {"Customer2"}) BY <1>1, FS_Union
<1>4. IsFiniteSet(({"Customer1"} \cup {"Customer2"}) \cup {"Customer3"})
  BY <1>1, <1>3, FS_Union
<1>5. IsFiniteSet(({"Donatello"} \cup {"Portecelli"})
                   \cup (({"Customer1"} \cup {"Customer2"}) \cup {"Customer3"}))
  BY <1>2, <1>4, FS_Union
<1>6. Proc = ({"Donatello"} \cup {"Portecelli"})
               \cup (({"Customer1"} \cup {"Customer2"}) \cup {"Customer3"})
  BY DEF Proc, Chef, Customer
<1>7. IsFiniteSet(Proc) BY <1>5, <1>6
<1> QED BY <1>7, FS_Subset, FS_CardinalityType

\* One element more, one element less.
LEMMA OneMore ==
  ASSUME NEW S, NEW e, IsFiniteSet(S), e \notin S
  PROVE  Cardinality(S \cup {e}) = Cardinality(S) + 1
BY FS_AddElement

LEMMA OneLess ==
  ASSUME NEW S, NEW e, IsFiniteSet(S), e \in S
  PROVE  Cardinality(S \ {e}) = Cardinality(S) - 1 /\ Cardinality(S) >= 1
<1>1. IsFiniteSet(S \ {e}) /\ Cardinality(S \ {e}) = Cardinality(S) - 1
  BY FS_RemoveElement
<1> QED BY <1>1, FS_CardinalityType

LEMMA TrayFacts ==
  /\ EMPTY \notin Tray
  /\ FirstTray \in [Proc -> Tray]
  /\ NextTray \in [Proc -> [Tray -> Tray]]
<1>1. \A b \in Tray : \E other \in Tray : other # b BY DEF Tray
<1>2. \A b \in Tray : (CHOOSE other \in Tray : other # b) \in Tray BY <1>1
<1> QED BY <1>2 DEF EMPTY, Tray, FirstTray, NextTray

-----------------------------------------------------------------------------
(* What a step does to the sets the invariants count *)

\* Process p goes on to another point, and to another tray only when it goes
\* to "idle".
Moves(p, to) ==
  /\ pc' = [pc EXCEPT ![p] = to]
  /\ \A q \in Proc \ {p} : at'[q] = at[q]
  /\ at'[p] = at[p] \/ to = "idle"

\* 1 for a process p of P with tray b at one of the points L.
Here(p, P, b, point, L) == IF p \in P /\ at[p] = b /\ point \in L THEN 1 ELSE 0

\* In(P, b, L) after the step.
InNext(P, b, L) == {q \in P : at'[q] = b /\ pc'[q] \in L}

LEMMA InMoves ==
  ASSUME TypeOK, NEW p \in Proc, NEW to, Moves(p, to),
         NEW P \in SUBSET Proc, NEW b \in Tray, NEW L, "idle" \notin L
  PROVE  /\ Cardinality(In(P, b, L)) \in Nat
         /\ Cardinality(InNext(P, b, L)) = Cardinality(In(P, b, L))
              + Here(p, P, b, to, L) - Here(p, P, b, pc[p], L)
<1> DEFINE I == In(P, b, L)
           J == {q \in P : at'[q] = b /\ pc'[q] \in L}
<1>1. IsFiniteSet(I) /\ Cardinality(I) \in Nat BY ProcSets DEF In
<1>3. \A q \in Proc \ {p} : pc'[q] = pc[q] /\ at'[q] = at[q] BY DEF Moves, TypeOK
<1>4. pc'[p] = to BY DEF Moves, TypeOK
<1>5. p \in J <=> p \in P /\ at[p] = b /\ to \in L BY <1>4 DEF Moves
<1>6. p \in I <=> p \in P /\ at[p] = b /\ pc[p] \in L BY DEF In
<1>7. \A q : q # p => (q \in J <=> q \in I) BY <1>3 DEF In
<1>8. Cardinality(J) = Cardinality(I) + (IF p \in J THEN 1 ELSE 0)
                                      - (IF p \in I THEN 1 ELSE 0)
  <2> HIDE DEF I, J
  <2>1. CASE p \in I <=> p \in J
    <3>1. J = I BY <1>7, <2>1
    <3> QED BY <1>1, <2>1, <3>1
  <2>2. CASE p \in I /\ p \notin J
    <3>1. J = I \ {p} BY <1>7, <2>2
    <3> QED BY <1>1, <2>2, <3>1, OneLess
  <2>3. CASE p \notin I /\ p \in J
    <3>1. J = I \cup {p} BY <1>7, <2>3
    <3> QED BY <1>1, <2>3, <3>1, OneMore
  <2> QED BY <2>1, <2>2, <2>3
<1>2. InNext(P, b, L) = J BY DEF InNext
<1> HIDE DEF J
<1> QED BY <1>1, <1>2, <1>5, <1>6, <1>8 DEF Here

\* A store changes one slot of one tray.
LEMMA Stores ==
  ASSUME TypeOK, NEW a \in Tray, NEW i \in Slot, NEW v,
         items' = [items EXCEPT ![a] = [@ EXCEPT ![i] = v]]
  PROVE  /\ \A b \in Tray : b # a => items'[b] = items[b]
         /\ items'[a] = [items[a] EXCEPT ![i] = v]
         /\ v # EMPTY => Free(a)' = Free(a) \ {i}
         /\ v = EMPTY => Free(a)' = Free(a) \cup {i}
         /\ \A b \in Tray : b # a => Free(b)' = Free(b) /\ Dishes(b)' = Dishes(b)
         /\ v # EMPTY /\ i \in Free(a) => Dishes(a)' = Dishes(a) + 1
         /\ v = EMPTY /\ i \in Filled(a) => Dishes(a)' = Dishes(a) - 1
<1>1. \A b \in Tray : b # a => items'[b] = items[b] BY DEF TypeOK
<1>2. items'[a] = [items[a] EXCEPT ![i] = v] BY DEF TypeOK
<1>3. items[a] \in [Slot -> {EMPTY} \cup Tray] BY DEF TypeOK
<1>4. v # EMPTY => Free(a)' = Free(a) \ {i} BY <1>2, <1>3 DEF Free
<1>5. v = EMPTY => Free(a)' = Free(a) \cup {i} BY <1>2, <1>3 DEF Free
<1>6. \A b \in Tray : b # a => Free(b)' = Free(b) BY <1>1 DEF Free
<1>7. \A b : Filled(b)' = Slot \ Free(b)' /\ Filled(b) = Slot \ Free(b) BY DEF Filled
<1>8. \A b : Dishes(b)' = Cardinality(Filled(b)') /\ Dishes(b) = Cardinality(Filled(b))
  BY DEF Dishes
<1>9. IsFiniteSet(Filled(a)) BY SlotSets DEF Filled
<1>10. ASSUME v # EMPTY, i \in Free(a) PROVE Dishes(a)' = Dishes(a) + 1
  <2>1. Filled(a)' = Filled(a) \cup {i} BY <1>4, <1>7, <1>10
  <2>2. i \notin Filled(a) BY <1>7, <1>10
  <2> QED BY <1>8, <1>9, <2>1, <2>2, OneMore
<1>11. ASSUME v = EMPTY, i \in Filled(a) PROVE Dishes(a)' = Dishes(a) - 1
  <2>1. Filled(a)' = Filled(a) \ {i} BY <1>5, <1>7, <1>11
  <2> QED BY <1>8, <1>9, <1>11, <2>1, OneLess
<1>12. \A b \in Tray : b # a => Dishes(b)' = Dishes(b) BY <1>6, <1>7, <1>8
<1> QED BY <1>1, <1>2, <1>4, <1>5, <1>6, <1>10, <1>11, <1>12

LEMMA SameItems ==
  ASSUME items' = items
  PROVE  \A b : Free(b)' = Free(b) /\ Filled(b)' = Filled(b) /\ Dishes(b)' = Dishes(b)
                /\ OfType(b)' = OfType(b)
BY DEF Free, Filled, Dishes, OfType

LEMMA DishesBounds ==
  \A b : /\ IsFiniteSet(Filled(b)) /\ Dishes(b) \in Nat /\ Dishes(b) <= BUFFER_SIZE
         /\ Cardinality(Free(b)) = BUFFER_SIZE - Dishes(b)
         /\ Dishes(b)' \in Nat
<1> TAKE b
<1>1. Filled(b) \in SUBSET Slot /\ Slot \ Filled(b) = Free(b) BY DEF Filled, Free
<1>2. Filled(b)' \in SUBSET Slot /\ Dishes(b)' = Cardinality(Filled(b)')
  BY DEF Filled, Dishes
<1> QED BY <1>1, <1>2, SlotSets DEF Dishes

-----------------------------------------------------------------------------
(* Types *)

LEMMA TypeInit == Init => TypeOK
<1>1. 0 \in Slot BY BufferAssumption DEF Slot
<1> QED BY <1>1, TrayFacts, BufferAssumption DEF Init, TypeOK

LEMMA TypeStep == TypeOK /\ [Next]_vars => TypeOK'
<1> SUFFICES ASSUME TypeOK, [Next]_vars PROVE TypeOK'
  OBVIOUS
<1> USE DEF TypeOK, Goto
<1>0. 0 \in Slot /\ BUFFER_SIZE \in Nat BY BufferAssumption DEF Slot
<1>1. ASSUME NEW p \in Chef, WaitEmpty(p) PROVE TypeOK'
  BY <1>1 DEF WaitEmpty, sems, status, Proc
<1>2. ASSUME NEW p \in Customer, WaitFull(p) PROVE TypeOK'
  BY <1>2 DEF WaitFull, sems, status, Proc
<1>3. ASSUME NEW p \in Proc, Lock(p) PROVE TypeOK'
  BY <1>3 DEF Lock, sems, status
<1>4. ASSUME NEW p \in Proc, Search(p) PROVE TypeOK'
  BY <1>4 DEF Search, sems, status
<1>5. ASSUME NEW p \in Proc, Put(p) \/ Take(p) PROVE TypeOK'
  <2>1. \E v \in {EMPTY} \cup Tray :
          items' = [items EXCEPT ![at[p]] = [@ EXCEPT ![slot[p]] = v]]
    BY <1>5 DEF Put, Take
  <2>2. items' \in [Tray -> [Slot -> {EMPTY} \cup Tray]] BY <2>1
  <2>3. Watch(at[p], Dishes(at[p])') BY <1>5 DEF Put, Take
  <2>4. PICK n : n = Dishes(at[p])' OBVIOUS
  <2>5. n \in Nat
    <3>1. at' = at BY <1>5 DEF Put, Take
    <3>2. Dishes(at[p])' = Cardinality(Filled(at[p])') /\ Filled(at[p])' \in SUBSET Slot
      BY DEF Dishes, Filled
    <3> QED BY <2>4, <3>2, SlotSets
  <2>6. Watch(at[p], n) BY <2>3, <2>4
  <2>7. lo' \in [Tray -> Nat] /\ hi' \in [Tray -> Nat] BY <2>5, <2>6 DEF Watch
  <2>8. pc' = [pc EXCEPT ![p] = "unlock"] /\ slot' = [slot EXCEPT ![p] = 0]
        /\ UNCHANGED <<mutex, full, empty, at, read, count>>
    BY <1>5 DEF Put, Take, sems
  <2> QED BY <1>0, <2>2, <2>7, <2>8
<1>6. ASSUME NEW p \in Proc, Unlock(p) PROVE TypeOK'
  BY <1>6 DEF Unlock, sems, status
<1>7. ASSUME NEW p \in Proc, PostFull(p) PROVE TypeOK'
  <2>1. NextTray[p][at[p]] \in Tray BY TrayFacts
  <2>2. at' \in [Proc -> Tray] BY <1>7, <2>1 DEF PostFull
  <2>3. full' \in [Tray -> Nat] BY <1>7 DEF PostFull
  <2> QED BY <1>7, <2>2, <2>3 DEF PostFull, sems, status
<1>8. ASSUME NEW p \in Proc, PostEmpty(p) PROVE TypeOK'
  <2>1. NextTray[p][at[p]] \in Tray BY TrayFacts
  <2>2. at' \in [Proc -> Tray] BY <1>8, <2>1 DEF PostEmpty
  <2>3. empty' \in [Tray -> Nat] BY <1>8 DEF PostEmpty
  <2> QED BY <1>8, <2>2, <2>3 DEF PostEmpty, sems, status
<1>9. CASE StartStatus
  BY <1>0, <1>9, DishesBounds DEF StartStatus, sems
<1>10. ASSUME NEW b \in Tray, ReadSlot(b) PROVE TypeOK'
  BY <1>0, <1>10 DEF ReadSlot, sems
<1>11. CASE UNCHANGED vars
  BY <1>11 DEF vars, sems, status
<1> QED
  BY <1>1, <1>2, <1>3, <1>4, <1>5, <1>6, <1>7, <1>8, <1>9, <1>10, <1>11
  DEF Next, ChefStep, CustomerStep, ParentStep, CallStep, Proc

\* The type invariant: in particular no semaphore goes below zero and no search
\* runs past a tray.
THEOREM TypeCorrect == Spec => []TypeOK
<1>1. Init => TypeOK BY TypeInit
<1>2. TypeOK /\ [Next]_vars => TypeOK' BY TypeStep
<1> QED BY <1>1, <1>2, PTL DEF Spec

-----------------------------------------------------------------------------
(* The mutex, the account of the semaphores, and the searches *)

Inside(b)    == Cardinality(In(Proc, b, {"search", "store", "unlock"}))
Putting(b)   == Cardinality(In(Chef, b, {"lock", "search", "store"}))
HavePut(b)   == Cardinality(In(Chef, b, {"unlock", "post"}))
Taking(b)    == Cardinality(In(Customer, b, {"lock", "search", "store"}))
HaveTaken(b) == Cardinality(In(Customer, b, {"unlock", "post"}))

LEMMA Counters ==
  /\ OneAtATray <=> \A b \in Tray : mutex[b] + Inside(b) = 1
  /\ SemaphoresCountSlots <=>
       \A b \in Tray : /\ full[b] + Taking(b) + HavePut(b) = Dishes(b)
                       /\ empty[b] + Putting(b) + HaveTaken(b) = BUFFER_SIZE - Dishes(b)
BY DEF OneAtATray, SemaphoresCountSlots, Inside, Putting, HavePut, Taking, HaveTaken

LEMMA CounterTypes ==
  \A b : /\ Inside(b) \in Nat /\ Putting(b) \in Nat /\ HavePut(b) \in Nat
         /\ Taking(b) \in Nat /\ HaveTaken(b) \in Nat
BY ProcSets DEF Inside, Putting, HavePut, Taking, HaveTaken, In, Proc

LEMMA CounterMoves ==
  ASSUME TypeOK, NEW p \in Proc, NEW to, Moves(p, to), NEW b \in Tray
  PROVE  /\ Inside(b)' = Inside(b)
              + Here(p, Proc, b, to, {"search", "store", "unlock"})
              - Here(p, Proc, b, pc[p], {"search", "store", "unlock"})
         /\ Putting(b)' = Putting(b)
              + Here(p, Chef, b, to, {"lock", "search", "store"})
              - Here(p, Chef, b, pc[p], {"lock", "search", "store"})
         /\ HavePut(b)' = HavePut(b)
              + Here(p, Chef, b, to, {"unlock", "post"})
              - Here(p, Chef, b, pc[p], {"unlock", "post"})
         /\ Taking(b)' = Taking(b)
              + Here(p, Customer, b, to, {"lock", "search", "store"})
              - Here(p, Customer, b, pc[p], {"lock", "search", "store"})
         /\ HaveTaken(b)' = HaveTaken(b)
              + Here(p, Customer, b, to, {"unlock", "post"})
              - Here(p, Customer, b, pc[p], {"unlock", "post"})
<1>1. PICK L, M, N : /\ L = {"search", "store", "unlock"}
                     /\ M = {"lock", "search", "store"}
                     /\ N = {"unlock", "post"}
  OBVIOUS
<1>2. "idle" \notin L /\ "idle" \notin M /\ "idle" \notin N BY <1>1
<1>3. Chef \in SUBSET Proc /\ Customer \in SUBSET Proc /\ Proc \in SUBSET Proc BY DEF Proc
<1>4. Inside(b)' = Inside(b)
         + Here(p, Proc, b, to, L) - Here(p, Proc, b, pc[p], L)
  <2>1. /\ Inside(b) = Cardinality(In(Proc, b, L))
        /\ Inside(b)' = Cardinality(InNext(Proc, b, L))
    BY <1>1 DEF Inside, In, InNext
  <2>2. Cardinality(InNext(Proc, b, L)) = Cardinality(In(Proc, b, L))
          + Here(p, Proc, b, to, L) - Here(p, Proc, b, pc[p], L)
    BY <1>2, <1>3, InMoves
  <2> QED BY <2>1, <2>2
<1>5. Putting(b)' = Putting(b)
         + Here(p, Chef, b, to, M) - Here(p, Chef, b, pc[p], M)
  <2>1. /\ Putting(b) = Cardinality(In(Chef, b, M))
        /\ Putting(b)' = Cardinality(InNext(Chef, b, M))
    BY <1>1 DEF Putting, In, InNext
  <2>2. Cardinality(InNext(Chef, b, M)) = Cardinality(In(Chef, b, M))
          + Here(p, Chef, b, to, M) - Here(p, Chef, b, pc[p], M)
    BY <1>2, <1>3, InMoves
  <2> QED BY <2>1, <2>2
<1>6. HavePut(b)' = HavePut(b)
         + Here(p, Chef, b, to, N) - Here(p, Chef, b, pc[p], N)
  <2>1. /\ HavePut(b) = Cardinality(In(Chef, b, N))
        /\ HavePut(b)' = Cardinality(InNext(Chef, b, N))
    BY <1>1 DEF HavePut, In, InNext
  <2>2. Cardinality(InNext(Chef, b, N)) = Cardinality(In(Chef, b, N))
          + Here(p, Chef, b, to, N) - Here(p, Chef, b, pc[p], N)
    BY <1>2, <1>3, InMoves
  <2> QED BY <2>1, <2>2
<1>7. Taking(b)' = Taking(b)
         + Here(p, Customer, b, to, M) - Here(p, Customer, b, pc[p], M)
  <2>1. /\ Taking(b) = Cardinality(In(Customer, b, M))
        /\ Taking(b)' = Cardinality(InNext(Customer, b, M))
    BY <1>1 DEF Taking, In, InNext
  <2>2. Cardinality(InNext(Customer, b, M)) = Cardinality(In(Customer, b, M))
          + Here(p, Customer, b, to, M) - Here(p, Customer, b, pc[p], M)
    BY <1>2, <1>3, InMoves
  <2> QED BY <2>1, <2>2
<1>8. HaveTaken(b)' = HaveTaken(b)
         + Here(p, Customer, b, to, N) - Here(p, Customer, b, pc[p], N)
  <2>1. /\ HaveTaken(b) = Cardinality(In(Customer, b, N))
        /\ HaveTaken(b)' = Cardinality(InNext(Customer, b, N))
    BY <1>1 DEF HaveTaken, In, InNext
  <2>2. Cardinality(InNext(Customer, b, N)) = Cardinality(In(Customer, b, N))
          + Here(p, Customer, b, to, N) - Here(p, Customer, b, pc[p], N)
    BY <1>2, <1>3, InMoves
  <2> QED BY <2>1, <2>2
<1> QED BY <1>1, <1>4, <1>5, <1>6, <1>7, <1>8

LEMMA SameCounters ==
  ASSUME UNCHANGED <<pc, at>>
  PROVE  \A b : /\ Inside(b)' = Inside(b) /\ Putting(b)' = Putting(b)
                /\ HavePut(b)' = HavePut(b) /\ Taking(b)' = Taking(b)
                /\ HaveTaken(b)' = HaveTaken(b)
BY DEF Inside, Putting, HavePut, Taking, HaveTaken, In

OwnDishes == \A b \in Tray, i \in Slot : items[b][i] \in {EMPTY, b}

SearchReady == \A p \in Proc : pc[p] \in {"lock", "search", "store"} => Wanted(p) # {}

SlotReady == \A p \in Proc : pc[p] = "store" => First(slot[p], Wanted(p))

AccountInv == OwnDishes /\ OneAtATray /\ SemaphoresCountSlots /\ SlotReady

LEMMA OwnFilled == TypeOK /\ OwnDishes => \A b \in Tray : OfType(b) = Filled(b)
BY TrayFacts DEF TypeOK, OwnDishes, OfType, Filled, Free

\* A process that has passed the counting semaphore finds a slot: it is itself
\* one of the calls in the account.
LEMMA Ready == TypeOK /\ OwnDishes /\ SemaphoresCountSlots => SearchReady
<1> SUFFICES ASSUME TypeOK, OwnDishes, SemaphoresCountSlots,
                    NEW p \in Proc, pc[p] \in {"lock", "search", "store"}
             PROVE  Wanted(p) # {}
  BY DEF SearchReady
<1> DEFINE b == at[p]
<1>1. b \in Tray /\ full[b] \in Nat /\ empty[b] \in Nat BY DEF TypeOK
<1>2. /\ full[b] + Taking(b) + HavePut(b) = Dishes(b)
      /\ empty[b] + Putting(b) + HaveTaken(b) = BUFFER_SIZE - Dishes(b)
  BY <1>1, Counters
<1>3. Cardinality({}) = 0 BY FS_EmptySet
<1>4. CASE p \in Chef
  <2>1. p \in In(Chef, b, {"lock", "search", "store"}) BY <1>4 DEF In
  <2>2. IsFiniteSet(In(Chef, b, {"lock", "search", "store"})) BY ProcSets DEF In, Proc
  <2>3. Putting(b) >= 1 BY <2>1, <2>2, OneLess DEF Putting
  <2>4. Cardinality(Free(b)) = BUFFER_SIZE - Dishes(b) BY DishesBounds
  <2>5. Cardinality(Free(b)) # 0 BY <1>1, <1>2, <2>3, <2>4, CounterTypes
  <2> QED BY <1>3, <1>4, <2>5 DEF Wanted
<1>5. CASE p \in Customer /\ p \notin Chef
  <2>1. p \in In(Customer, b, {"lock", "search", "store"}) BY <1>5 DEF In
  <2>2. IsFiniteSet(In(Customer, b, {"lock", "search", "store"})) BY ProcSets DEF In, Proc
  <2>3. Taking(b) >= 1 BY <2>1, <2>2, OneLess DEF Taking
  <2>4. Cardinality(Filled(b)) # 0 BY <1>1, <1>2, <2>3, CounterTypes DEF Dishes
  <2>5. OfType(b) = Filled(b) BY <1>1, OwnFilled
  <2> QED BY <1>3, <1>5, <2>4, <2>5 DEF Wanted
<1> QED BY <1>4, <1>5 DEF Proc

\* The mutex keeps every other process away from a tray that is being searched.
LEMMA Alone ==
  ASSUME TypeOK, OneAtATray, NEW p \in Proc, NEW q \in Proc, p # q,
         pc[p] \in {"search", "store", "unlock"}, pc[q] \in {"search", "store", "unlock"}
  PROVE  at[p] # at[q]
<1> SUFFICES ASSUME at[p] = at[q] PROVE FALSE OBVIOUS
<1> DEFINE I == In(Proc, at[p], {"search", "store", "unlock"})
<1>1. p \in I /\ q \in I \ {p} BY DEF In
<1>2. IsFiniteSet(I) /\ IsFiniteSet(I \ {p}) BY ProcSets DEF In
<1>3. at[p] \in Tray /\ mutex[at[p]] \in Nat BY DEF TypeOK
<1>4. mutex[at[p]] + Cardinality(I) = 1 BY <1>3 DEF OneAtATray
<1> HIDE DEF I
<1>5. Cardinality(I \ {p}) = Cardinality(I) - 1 BY <1>1, <1>2, OneLess
<1>6. Cardinality(I \ {p}) >= 1 BY <1>1, <1>2, OneLess
<1>7. Cardinality(I) \in Nat BY <1>2, FS_CardinalityType
<1> QED BY <1>3, <1>4, <1>5, <1>6, <1>7


-----------------------------------------------------------------------------
(* The account is kept by every step *)

Account(b) ==
  /\ mutex[b] + Inside(b) = 1
  /\ full[b] + Taking(b) + HavePut(b) = Dishes(b)
  /\ empty[b] + Putting(b) + HaveTaken(b) = BUFFER_SIZE - Dishes(b)

LEMMA Accounts == OneAtATray /\ SemaphoresCountSlots <=> \A b \in Tray : Account(b)
BY Counters DEF Account

LEMMA AccountTypes ==
  ASSUME TypeOK, NEW b \in Tray
  PROVE  /\ mutex[b] \in Nat /\ full[b] \in Nat /\ empty[b] \in Nat /\ BUFFER_SIZE \in Nat
         /\ Inside(b) \in Nat /\ Putting(b) \in Nat /\ HavePut(b) \in Nat
         /\ Taking(b) \in Nat /\ HaveTaken(b) \in Nat
         /\ Dishes(b) \in Nat /\ Dishes(b)' \in Nat
BY BufferAssumption, CounterTypes, DishesBounds DEF TypeOK

LEMMA TwoCrews == Chef \cap Customer = {} /\ Chef \cup Customer = Proc
BY DEF Chef, Customer, Proc

LEMMA AccountInit == Init => AccountInv
<1> SUFFICES ASSUME Init PROVE AccountInv
  OBVIOUS
<1>1. Cardinality({}) = 0 BY FS_EmptySet
<1>2. \A P \in SUBSET Proc : \A b, L : "idle" \notin L => In(P, b, L) = {} BY DEF Init, In
<1>3. \A b \in Tray : Dishes(b) = 0
  <2>1. \A b \in Tray : Filled(b) = {} BY DEF Init, Filled, Free
  <2> QED BY <1>1, <2>1 DEF Dishes
<1>4. \A b \in Tray : /\ Inside(b) = 0 /\ Putting(b) = 0 /\ HavePut(b) = 0
                      /\ Taking(b) = 0 /\ HaveTaken(b) = 0
  BY <1>1, <1>2 DEF Inside, Putting, HavePut, Taking, HaveTaken, Proc
<1>5. \A b \in Tray : Account(b)
  BY <1>3, <1>4, BufferAssumption DEF Account, Init
<1>6. OwnDishes BY DEF Init, OwnDishes
<1>7. SlotReady BY DEF Init, SlotReady
<1> QED BY <1>5, <1>6, <1>7, Accounts DEF AccountInv

\* What the slot found is good for when it is used.
LEMMA SlotFound ==
  ASSUME TypeOK, OwnDishes, SlotReady, NEW p \in Proc, pc[p] = "store"
  PROVE  /\ p \in Chef => First(slot[p], Free(at[p]))
         /\ p \in Customer => First(slot[p], Filled(at[p]))
<1>1. First(slot[p], Wanted(p)) BY DEF SlotReady
<1>2. at[p] \in Tray BY DEF TypeOK
<1> QED BY <1>1, <1>2, OwnFilled, TwoCrews DEF Wanted


\* One step of a call changes the account of its own tray only; each term by
\* what the step does.
LEMMA AccountStep ==
  ASSUME TypeOK, OwnDishes, OneAtATray, SemaphoresCountSlots, SlotReady, [Next]_vars
  PROVE  \A b \in Tray : Account(b)'
<1>0. \A b \in Tray : Account(b) BY Accounts
<1>ready. SearchReady BY Ready
<1>1. ASSUME NEW p \in Chef, WaitEmpty(p) PROVE \A b \in Tray : Account(b)'
  <2>1. p \in Proc /\ at[p] \in Tray BY TwoCrews DEF TypeOK
  <2>3. pc[p] = "idle" /\ Moves(p, "lock") BY <1>1, <2>1 DEF WaitEmpty, Goto, Moves
  <2> SUFFICES ASSUME NEW b \in Tray, Account(b) PROVE Account(b)'
    BY <1>0
  <2>4. Dishes(b)' = Dishes(b) BY <1>1, SameItems DEF WaitEmpty
  <2>5. at[p] = b =>
             /\ Inside(b)' = Inside(b)
             /\ Putting(b)' = Putting(b) + 1
             /\ HavePut(b)' = HavePut(b)
             /\ Taking(b)' = Taking(b)
             /\ HaveTaken(b)' = HaveTaken(b)
    BY <2>1, <2>3, CounterMoves, CounterTypes, TwoCrews DEF Here
  <2>6. at[p] # b =>
             /\ Inside(b)' = Inside(b)
             /\ Putting(b)' = Putting(b)
             /\ HavePut(b)' = HavePut(b)
             /\ Taking(b)' = Taking(b)
             /\ HaveTaken(b)' = HaveTaken(b)
    BY <2>1, <2>3, CounterMoves, CounterTypes DEF Here
  <2>7. /\ mutex'[b] = mutex[b]
        /\ full'[b] = full[b]
        /\ empty'[b] = (IF at[p] = b THEN empty[b] - 1 ELSE empty[b])
    BY <1>1, <2>1 DEF WaitEmpty, sems, TypeOK
  <2>8. CASE at[p] = b
    BY <2>4, <2>5, <2>7, <2>8, AccountTypes DEF Account
  <2>9. CASE at[p] # b
    BY <2>4, <2>6, <2>7, <2>9, AccountTypes DEF Account
  <2> QED BY <2>8, <2>9
<1>2. ASSUME NEW p \in Customer, WaitFull(p) PROVE \A b \in Tray : Account(b)'
  <2>1. p \in Proc /\ at[p] \in Tray BY TwoCrews DEF TypeOK
  <2>3. pc[p] = "idle" /\ Moves(p, "lock") BY <1>2, <2>1 DEF WaitFull, Goto, Moves
  <2> SUFFICES ASSUME NEW b \in Tray, Account(b) PROVE Account(b)'
    BY <1>0
  <2>4. Dishes(b)' = Dishes(b) BY <1>2, SameItems DEF WaitFull
  <2>5. at[p] = b =>
             /\ Inside(b)' = Inside(b)
             /\ Putting(b)' = Putting(b)
             /\ HavePut(b)' = HavePut(b)
             /\ Taking(b)' = Taking(b) + 1
             /\ HaveTaken(b)' = HaveTaken(b)
    BY <2>1, <2>3, CounterMoves, CounterTypes, TwoCrews DEF Here
  <2>6. at[p] # b =>
             /\ Inside(b)' = Inside(b)
             /\ Putting(b)' = Putting(b)
             /\ HavePut(b)' = HavePut(b)
             /\ Taking(b)' = Taking(b)
             /\ HaveTaken(b)' = HaveTaken(b)
    BY <2>1, <2>3, CounterMoves, CounterTypes DEF Here
  <2>7. /\ mutex'[b] = mutex[b]
        /\ full'[b] = (IF at[p] = b THEN full[b] - 1 ELSE full[b])
        /\ empty'[b] = empty[b]
    BY <1>2, <2>1 DEF WaitFull, sems, TypeOK
  <2>8. CASE at[p] = b
    BY <2>4, <2>5, <2>7, <2>8, AccountTypes DEF Account
  <2>9. CASE at[p] # b
    BY <2>4, <2>6, <2>7, <2>9, AccountTypes DEF Account
  <2> QED BY <2>8, <2>9
<1>3. ASSUME NEW p \in Chef, Lock(p) PROVE \A b \in Tray : Account(b)'
  <2>1. p \in Proc /\ at[p] \in Tray BY TwoCrews DEF TypeOK
  <2>3. pc[p] = "lock" /\ Moves(p, "search") BY <1>3, <2>1 DEF Lock, Goto, Moves
  <2> SUFFICES ASSUME NEW b \in Tray, Account(b) PROVE Account(b)'
    BY <1>0
  <2>4. Dishes(b)' = Dishes(b) BY <1>3, SameItems DEF Lock
  <2>5. at[p] = b =>
             /\ Inside(b)' = Inside(b) + 1
             /\ Putting(b)' = Putting(b)
             /\ HavePut(b)' = HavePut(b)
             /\ Taking(b)' = Taking(b)
             /\ HaveTaken(b)' = HaveTaken(b)
    BY <2>1, <2>3, CounterMoves, CounterTypes, TwoCrews DEF Here
  <2>6. at[p] # b =>
             /\ Inside(b)' = Inside(b)
             /\ Putting(b)' = Putting(b)
             /\ HavePut(b)' = HavePut(b)
             /\ Taking(b)' = Taking(b)
             /\ HaveTaken(b)' = HaveTaken(b)
    BY <2>1, <2>3, CounterMoves, CounterTypes DEF Here
  <2>7. /\ mutex'[b] = (IF at[p] = b THEN mutex[b] - 1 ELSE mutex[b])
        /\ full'[b] = full[b]
        /\ empty'[b] = empty[b]
    BY <1>3, <2>1 DEF Lock, sems, TypeOK
  <2>8. CASE at[p] = b
    BY <2>4, <2>5, <2>7, <2>8, AccountTypes DEF Account
  <2>9. CASE at[p] # b
    BY <2>4, <2>6, <2>7, <2>9, AccountTypes DEF Account
  <2> QED BY <2>8, <2>9
<1>4. ASSUME NEW p \in Customer, Lock(p) PROVE \A b \in Tray : Account(b)'
  <2>1. p \in Proc /\ at[p] \in Tray BY TwoCrews DEF TypeOK
  <2>3. pc[p] = "lock" /\ Moves(p, "search") BY <1>4, <2>1 DEF Lock, Goto, Moves
  <2> SUFFICES ASSUME NEW b \in Tray, Account(b) PROVE Account(b)'
    BY <1>0
  <2>4. Dishes(b)' = Dishes(b) BY <1>4, SameItems DEF Lock
  <2>5. at[p] = b =>
             /\ Inside(b)' = Inside(b) + 1
             /\ Putting(b)' = Putting(b)
             /\ HavePut(b)' = HavePut(b)
             /\ Taking(b)' = Taking(b)
             /\ HaveTaken(b)' = HaveTaken(b)
    BY <2>1, <2>3, CounterMoves, CounterTypes, TwoCrews DEF Here
  <2>6. at[p] # b =>
             /\ Inside(b)' = Inside(b)
             /\ Putting(b)' = Putting(b)
             /\ HavePut(b)' = HavePut(b)
             /\ Taking(b)' = Taking(b)
             /\ HaveTaken(b)' = HaveTaken(b)
    BY <2>1, <2>3, CounterMoves, CounterTypes DEF Here
  <2>7. /\ mutex'[b] = (IF at[p] = b THEN mutex[b] - 1 ELSE mutex[b])
        /\ full'[b] = full[b]
        /\ empty'[b] = empty[b]
    BY <1>4, <2>1 DEF Lock, sems, TypeOK
  <2>8. CASE at[p] = b
    BY <2>4, <2>5, <2>7, <2>8, AccountTypes DEF Account
  <2>9. CASE at[p] # b
    BY <2>4, <2>6, <2>7, <2>9, AccountTypes DEF Account
  <2> QED BY <2>8, <2>9
<1>5. ASSUME NEW p \in Chef, Search(p) PROVE \A b \in Tray : Account(b)'
  <2>1. p \in Proc /\ at[p] \in Tray BY TwoCrews DEF TypeOK
  <2>2. Wanted(p) # {} BY <1>ready, <1>5, <2>1 DEF SearchReady, Search, Goto
  <2>3. pc[p] = "search" /\ Moves(p, "store") BY <1>5, <2>1, <2>2 DEF Search, Goto, Moves
  <2> SUFFICES ASSUME NEW b \in Tray, Account(b) PROVE Account(b)'
    BY <1>0
  <2>4. Dishes(b)' = Dishes(b) BY <1>5, SameItems DEF Search
  <2>5. at[p] = b =>
             /\ Inside(b)' = Inside(b)
             /\ Putting(b)' = Putting(b)
             /\ HavePut(b)' = HavePut(b)
             /\ Taking(b)' = Taking(b)
             /\ HaveTaken(b)' = HaveTaken(b)
    BY <2>1, <2>3, CounterMoves, CounterTypes, TwoCrews DEF Here
  <2>6. at[p] # b =>
             /\ Inside(b)' = Inside(b)
             /\ Putting(b)' = Putting(b)
             /\ HavePut(b)' = HavePut(b)
             /\ Taking(b)' = Taking(b)
             /\ HaveTaken(b)' = HaveTaken(b)
    BY <2>1, <2>3, CounterMoves, CounterTypes DEF Here
  <2>7. /\ mutex'[b] = mutex[b]
        /\ full'[b] = full[b]
        /\ empty'[b] = empty[b]
    BY <1>5, <2>1 DEF Search, sems, TypeOK
  <2>8. CASE at[p] = b
    BY <2>4, <2>5, <2>7, <2>8, AccountTypes DEF Account
  <2>9. CASE at[p] # b
    BY <2>4, <2>6, <2>7, <2>9, AccountTypes DEF Account
  <2> QED BY <2>8, <2>9
<1>6. ASSUME NEW p \in Customer, Search(p) PROVE \A b \in Tray : Account(b)'
  <2>1. p \in Proc /\ at[p] \in Tray BY TwoCrews DEF TypeOK
  <2>2. Wanted(p) # {} BY <1>ready, <1>6, <2>1 DEF SearchReady, Search, Goto
  <2>3. pc[p] = "search" /\ Moves(p, "store") BY <1>6, <2>1, <2>2 DEF Search, Goto, Moves
  <2> SUFFICES ASSUME NEW b \in Tray, Account(b) PROVE Account(b)'
    BY <1>0
  <2>4. Dishes(b)' = Dishes(b) BY <1>6, SameItems DEF Search
  <2>5. at[p] = b =>
             /\ Inside(b)' = Inside(b)
             /\ Putting(b)' = Putting(b)
             /\ HavePut(b)' = HavePut(b)
             /\ Taking(b)' = Taking(b)
             /\ HaveTaken(b)' = HaveTaken(b)
    BY <2>1, <2>3, CounterMoves, CounterTypes, TwoCrews DEF Here
  <2>6. at[p] # b =>
             /\ Inside(b)' = Inside(b)
             /\ Putting(b)' = Putting(b)
             /\ HavePut(b)' = HavePut(b)
             /\ Taking(b)' = Taking(b)
             /\ HaveTaken(b)' = HaveTaken(b)
    BY <2>1, <2>3, CounterMoves, CounterTypes DEF Here
  <2>7. /\ mutex'[b] = mutex[b]
        /\ full'[b] = full[b]
        /\ empty'[b] = empty[b]
    BY <1>6, <2>1 DEF Search, sems, TypeOK
  <2>8. CASE at[p] = b
    BY <2>4, <2>5, <2>7, <2>8, AccountTypes DEF Account
  <2>9. CASE at[p] # b
    BY <2>4, <2>6, <2>7, <2>9, AccountTypes DEF Account
  <2> QED BY <2>8, <2>9
<1>7. ASSUME NEW p \in Chef, Put(p) PROVE \A b \in Tray : Account(b)'
  <2>1. p \in Proc /\ at[p] \in Tray BY TwoCrews DEF TypeOK
  <2>3. pc[p] = "store" /\ Moves(p, "unlock") BY <1>7, <2>1 DEF Put, Goto, Moves
  <2> SUFFICES ASSUME NEW b \in Tray, Account(b) PROVE Account(b)'
    BY <1>0
  <2>4. Dishes(b)' = IF at[p] = b THEN Dishes(b) + 1 ELSE Dishes(b)
    <3>1. slot[p] \in Free(at[p]) BY <2>1, <2>3, <1>7, SlotFound DEF First
    <3>2. slot[p] \in Slot BY <2>1 DEF TypeOK
    <3>3. items' = [items EXCEPT ![at[p]] = [@ EXCEPT ![slot[p]] = at[p]]] BY <1>7 DEF Put
    <3> QED BY <2>1, <3>1, <3>2, <3>3, Stores, TrayFacts
  <2>5. at[p] = b =>
             /\ Inside(b)' = Inside(b)
             /\ Putting(b)' = Putting(b) - 1
             /\ HavePut(b)' = HavePut(b) + 1
             /\ Taking(b)' = Taking(b)
             /\ HaveTaken(b)' = HaveTaken(b)
    BY <2>1, <2>3, CounterMoves, CounterTypes, TwoCrews DEF Here
  <2>6. at[p] # b =>
             /\ Inside(b)' = Inside(b)
             /\ Putting(b)' = Putting(b)
             /\ HavePut(b)' = HavePut(b)
             /\ Taking(b)' = Taking(b)
             /\ HaveTaken(b)' = HaveTaken(b)
    BY <2>1, <2>3, CounterMoves, CounterTypes DEF Here
  <2>7. /\ mutex'[b] = mutex[b]
        /\ full'[b] = full[b]
        /\ empty'[b] = empty[b]
    BY <1>7, <2>1 DEF Put, sems, TypeOK
  <2>8. CASE at[p] = b
    BY <2>4, <2>5, <2>7, <2>8, AccountTypes DEF Account
  <2>9. CASE at[p] # b
    BY <2>4, <2>6, <2>7, <2>9, AccountTypes DEF Account
  <2> QED BY <2>8, <2>9
<1>8. ASSUME NEW p \in Customer, Take(p) PROVE \A b \in Tray : Account(b)'
  <2>1. p \in Proc /\ at[p] \in Tray BY TwoCrews DEF TypeOK
  <2>3. pc[p] = "store" /\ Moves(p, "unlock") BY <1>8, <2>1 DEF Take, Goto, Moves
  <2> SUFFICES ASSUME NEW b \in Tray, Account(b) PROVE Account(b)'
    BY <1>0
  <2>4. Dishes(b)' = IF at[p] = b THEN Dishes(b) - 1 ELSE Dishes(b)
    <3>1. slot[p] \in Filled(at[p]) BY <2>1, <2>3, <1>8, SlotFound DEF First
    <3>2. slot[p] \in Slot BY <2>1 DEF TypeOK
    <3>3. items' = [items EXCEPT ![at[p]] = [@ EXCEPT ![slot[p]] = EMPTY]] BY <1>8 DEF Take
    <3> QED BY <2>1, <3>1, <3>2, <3>3, Stores
  <2>5. at[p] = b =>
             /\ Inside(b)' = Inside(b)
             /\ Putting(b)' = Putting(b)
             /\ HavePut(b)' = HavePut(b)
             /\ Taking(b)' = Taking(b) - 1
             /\ HaveTaken(b)' = HaveTaken(b) + 1
    BY <2>1, <2>3, CounterMoves, CounterTypes, TwoCrews DEF Here
  <2>6. at[p] # b =>
             /\ Inside(b)' = Inside(b)
             /\ Putting(b)' = Putting(b)
             /\ HavePut(b)' = HavePut(b)
             /\ Taking(b)' = Taking(b)
             /\ HaveTaken(b)' = HaveTaken(b)
    BY <2>1, <2>3, CounterMoves, CounterTypes DEF Here
  <2>7. /\ mutex'[b] = mutex[b]
        /\ full'[b] = full[b]
        /\ empty'[b] = empty[b]
    BY <1>8, <2>1 DEF Take, sems, TypeOK
  <2>8. CASE at[p] = b
    BY <2>4, <2>5, <2>7, <2>8, AccountTypes DEF Account
  <2>9. CASE at[p] # b
    BY <2>4, <2>6, <2>7, <2>9, AccountTypes DEF Account
  <2> QED BY <2>8, <2>9
<1>9. ASSUME NEW p \in Chef, Unlock(p) PROVE \A b \in Tray : Account(b)'
  <2>1. p \in Proc /\ at[p] \in Tray BY TwoCrews DEF TypeOK
  <2>3. pc[p] = "unlock" /\ Moves(p, "post") BY <1>9, <2>1 DEF Unlock, Goto, Moves
  <2> SUFFICES ASSUME NEW b \in Tray, Account(b) PROVE Account(b)'
    BY <1>0
  <2>4. Dishes(b)' = Dishes(b) BY <1>9, SameItems DEF Unlock
  <2>5. at[p] = b =>
             /\ Inside(b)' = Inside(b) - 1
             /\ Putting(b)' = Putting(b)
             /\ HavePut(b)' = HavePut(b)
             /\ Taking(b)' = Taking(b)
             /\ HaveTaken(b)' = HaveTaken(b)
    BY <2>1, <2>3, CounterMoves, CounterTypes, TwoCrews DEF Here
  <2>6. at[p] # b =>
             /\ Inside(b)' = Inside(b)
             /\ Putting(b)' = Putting(b)
             /\ HavePut(b)' = HavePut(b)
             /\ Taking(b)' = Taking(b)
             /\ HaveTaken(b)' = HaveTaken(b)
    BY <2>1, <2>3, CounterMoves, CounterTypes DEF Here
  <2>7. /\ mutex'[b] = (IF at[p] = b THEN mutex[b] + 1 ELSE mutex[b])
        /\ full'[b] = full[b]
        /\ empty'[b] = empty[b]
    BY <1>9, <2>1 DEF Unlock, sems, TypeOK
  <2>8. CASE at[p] = b
    BY <2>4, <2>5, <2>7, <2>8, AccountTypes DEF Account
  <2>9. CASE at[p] # b
    BY <2>4, <2>6, <2>7, <2>9, AccountTypes DEF Account
  <2> QED BY <2>8, <2>9
<1>10. ASSUME NEW p \in Customer, Unlock(p) PROVE \A b \in Tray : Account(b)'
  <2>1. p \in Proc /\ at[p] \in Tray BY TwoCrews DEF TypeOK
  <2>3. pc[p] = "unlock" /\ Moves(p, "post") BY <1>10, <2>1 DEF Unlock, Goto, Moves
  <2> SUFFICES ASSUME NEW b \in Tray, Account(b) PROVE Account(b)'
    BY <1>0
  <2>4. Dishes(b)' = Dishes(b) BY <1>10, SameItems DEF Unlock
  <2>5. at[p] = b =>
             /\ Inside(b)' = Inside(b) - 1
             /\ Putting(b)' = Putting(b)
             /\ HavePut(b)' = HavePut(b)
             /\ Taking(b)' = Taking(b)
             /\ HaveTaken(b)' = HaveTaken(b)
    BY <2>1, <2>3, CounterMoves, CounterTypes, TwoCrews DEF Here
  <2>6. at[p] # b =>
             /\ Inside(b)' = Inside(b)
             /\ Putting(b)' = Putting(b)
             /\ HavePut(b)' = HavePut(b)
             /\ Taking(b)' = Taking(b)
             /\ HaveTaken(b)' = HaveTaken(b)
    BY <2>1, <2>3, CounterMoves, CounterTypes DEF Here
  <2>7. /\ mutex'[b] = (IF at[p] = b THEN mutex[b] + 1 ELSE mutex[b])
        /\ full'[b] = full[b]
        /\ empty'[b] = empty[b]
    BY <1>10, <2>1 DEF Unlock, sems, TypeOK
  <2>8. CASE at[p] = b
    BY <2>4, <2>5, <2>7, <2>8, AccountTypes DEF Account
  <2>9. CASE at[p] # b
    BY <2>4, <2>6, <2>7, <2>9, AccountTypes DEF Account
  <2> QED BY <2>8, <2>9
<1>11. ASSUME NEW p \in Chef, PostFull(p) PROVE \A b \in Tray : Account(b)'
  <2>1. p \in Proc /\ at[p] \in Tray BY TwoCrews DEF TypeOK
  <2>3. pc[p] = "post" /\ Moves(p, "idle") BY <1>11, <2>1 DEF PostFull, Goto, Moves
  <2> SUFFICES ASSUME NEW b \in Tray, Account(b) PROVE Account(b)'
    BY <1>0
  <2>4. Dishes(b)' = Dishes(b) BY <1>11, SameItems DEF PostFull
  <2>5. at[p] = b =>
             /\ Inside(b)' = Inside(b)
             /\ Putting(b)' = Putting(b)
             /\ HavePut(b)' = HavePut(b) - 1
             /\ Taking(b)' = Taking(b)
             /\ HaveTaken(b)' = HaveTaken(b)
    BY <2>1, <2>3, CounterMoves, CounterTypes, TwoCrews DEF Here
  <2>6. at[p] # b =>
             /\ Inside(b)' = Inside(b)
             /\ Putting(b)' = Putting(b)
             /\ HavePut(b)' = HavePut(b)
             /\ Taking(b)' = Taking(b)
             /\ HaveTaken(b)' = HaveTaken(b)
    BY <2>1, <2>3, CounterMoves, CounterTypes DEF Here
  <2>7. /\ mutex'[b] = mutex[b]
        /\ full'[b] = (IF at[p] = b THEN full[b] + 1 ELSE full[b])
        /\ empty'[b] = empty[b]
    BY <1>11, <2>1 DEF PostFull, sems, TypeOK
  <2>8. CASE at[p] = b
    BY <2>4, <2>5, <2>7, <2>8, AccountTypes DEF Account
  <2>9. CASE at[p] # b
    BY <2>4, <2>6, <2>7, <2>9, AccountTypes DEF Account
  <2> QED BY <2>8, <2>9
<1>12. ASSUME NEW p \in Customer, PostEmpty(p) PROVE \A b \in Tray : Account(b)'
  <2>1. p \in Proc /\ at[p] \in Tray BY TwoCrews DEF TypeOK
  <2>3. pc[p] = "post" /\ Moves(p, "idle") BY <1>12, <2>1 DEF PostEmpty, Goto, Moves
  <2> SUFFICES ASSUME NEW b \in Tray, Account(b) PROVE Account(b)'
    BY <1>0
  <2>4. Dishes(b)' = Dishes(b) BY <1>12, SameItems DEF PostEmpty
  <2>5. at[p] = b =>
             /\ Inside(b)' = Inside(b)
             /\ Putting(b)' = Putting(b)
             /\ HavePut(b)' = HavePut(b)
             /\ Taking(b)' = Taking(b)
             /\ HaveTaken(b)' = HaveTaken(b) - 1
    BY <2>1, <2>3, CounterMoves, CounterTypes, TwoCrews DEF Here
  <2>6. at[p] # b =>
             /\ Inside(b)' = Inside(b)
             /\ Putting(b)' = Putting(b)
             /\ HavePut(b)' = HavePut(b)
             /\ Taking(b)' = Taking(b)
             /\ HaveTaken(b)' = HaveTaken(b)
    BY <2>1, <2>3, CounterMoves, CounterTypes DEF Here
  <2>7. /\ mutex'[b] = mutex[b]
        /\ full'[b] = full[b]
        /\ empty'[b] = (IF at[p] = b THEN empty[b] + 1 ELSE empty[b])
    BY <1>12, <2>1 DEF PostEmpty, sems, TypeOK
  <2>8. CASE at[p] = b
    BY <2>4, <2>5, <2>7, <2>8, AccountTypes DEF Account
  <2>9. CASE at[p] # b
    BY <2>4, <2>6, <2>7, <2>9, AccountTypes DEF Account
  <2> QED BY <2>8, <2>9
<1>13. CASE ParentStep \/ UNCHANGED vars
  <2>1. UNCHANGED <<items, sems, pc, at>>
    BY <1>13 DEF ParentStep, StartStatus, ReadSlot, vars
  <2> QED BY <1>0, <2>1, SameItems, SameCounters DEF Account, sems
<1> QED
  BY <1>1, <1>2, <1>3, <1>4, <1>5, <1>6, <1>7, <1>8, <1>9, <1>10, <1>11, <1>12, <1>13
  DEF Next, ChefStep, CustomerStep, CallStep

-----------------------------------------------------------------------------
(* What lies in the slots, and the slots that searches have found *)

LEMMA OwnStep ==
  ASSUME TypeOK, OwnDishes, [Next]_vars
  PROVE  OwnDishes'
<1>1. CASE UNCHANGED items BY <1>1 DEF OwnDishes
<1>2. ASSUME NEW p \in Proc, NEW v \in {EMPTY, at[p]},
             items' = [items EXCEPT ![at[p]] = [@ EXCEPT ![slot[p]] = v]]
      PROVE  OwnDishes'
  <2>1. at[p] \in Tray /\ slot[p] \in Slot BY DEF TypeOK
  <2>2. /\ \A b \in Tray : b # at[p] => items'[b] = items[b]
        /\ items'[at[p]] = [items[at[p]] EXCEPT ![slot[p]] = v]
    BY <1>2, <2>1 DEF TypeOK
  <2>3. items[at[p]] \in [Slot -> {EMPTY} \cup Tray] BY <2>1 DEF TypeOK
  <2> QED BY <2>1, <2>2, <2>3 DEF OwnDishes
<1>3. ASSUME NEW p \in Proc, Put(p) PROVE OwnDishes' BY <1>2, <1>3 DEF Put
<1>4. ASSUME NEW p \in Proc, Take(p) PROVE OwnDishes' BY <1>2, <1>4 DEF Take
<1> QED
  BY <1>1, <1>3, <1>4, TwoCrews
  DEF Next, ChefStep, CustomerStep, ParentStep, CallStep, WaitEmpty, WaitFull, Lock, Search,
      Unlock, PostFull, PostEmpty, StartStatus, ReadSlot, vars

\* A slot that was found stays found while nobody changes the tray.
LEMMA SlotKept ==
  ASSUME SlotReady, NEW q \in Proc, pc[q] = "store",
         at'[q] = at[q], slot'[q] = slot[q], items'[at[q]] = items[at[q]]
  PROVE  First(slot[q], Wanted(q))'
<1>1. First(slot[q], Wanted(q)) BY DEF SlotReady
<1>2. Wanted(q)' = Wanted(q) BY DEF Wanted, Free, OfType
<1> QED BY <1>1, <1>2 DEF First

LEMMA SlotStep ==
  ASSUME TypeOK, OneAtATray, SlotReady, [Next]_vars
  PROVE  SlotReady'
<1>1. ASSUME NEW p \in Proc, NEW to, to # "store", UNCHANGED <<items, slot>>,
             pc' = [pc EXCEPT ![p] = to], \A q \in Proc \ {p} : at'[q] = at[q]
      PROVE  SlotReady'
  <2> SUFFICES ASSUME NEW q \in Proc, pc'[q] = "store"
               PROVE  First(slot[q], Wanted(q))'
    BY DEF SlotReady
  <2>1. q # p /\ pc[q] = "store" BY <1>1 DEF TypeOK
  <2> QED BY <1>1, <2>1, SlotKept
<1>2. ASSUME NEW p \in Proc, Search(p) PROVE SlotReady'
  <2> SUFFICES ASSUME NEW q \in Proc, pc'[q] = "store"
               PROVE  First(slot[q], Wanted(q))'
    BY DEF SlotReady
  <2>1. UNCHANGED <<items, at>> BY <1>2 DEF Search
  <2>2. CASE q = p
    <3>1. PICK i \in Slot : First(i, Wanted(p)) /\ slot' = [slot EXCEPT ![p] = i]
      BY <1>2, <2>2 DEF Search, Goto, TypeOK
    <3>2. slot'[p] = i BY <3>1 DEF TypeOK
    <3>3. Wanted(p)' = Wanted(p) BY <2>1 DEF Wanted, Free, OfType
    <3> QED BY <2>2, <3>1, <3>2, <3>3 DEF First
  <2>3. CASE q # p
    <3>1. pc[q] = "store" /\ slot'[q] = slot[q]
      BY <1>2, <2>3 DEF Search, Goto, TypeOK
    <3> QED BY <2>1, <3>1, SlotKept
  <2> QED BY <2>2, <2>3
<1>3. ASSUME NEW p \in Proc, Put(p) \/ Take(p) PROVE SlotReady'
  <2> SUFFICES ASSUME NEW q \in Proc, pc'[q] = "store"
               PROVE  First(slot[q], Wanted(q))'
    BY DEF SlotReady
  <2>1. /\ pc[p] = "store" /\ pc' = [pc EXCEPT ![p] = "unlock"]
        /\ at' = at /\ slot' = [slot EXCEPT ![p] = 0]
    BY <1>3 DEF Put, Take, Goto
  <2>2. PICK v : items' = [items EXCEPT ![at[p]] = [@ EXCEPT ![slot[p]] = v]]
    BY <1>3 DEF Put, Take
  <2>3. q # p /\ pc[q] = "store" /\ slot'[q] = slot[q] BY <2>1 DEF TypeOK
  <2>4. at[p] # at[q] BY <2>1, <2>3, Alone
  <2>5. items'[at[q]] = items[at[q]] BY <2>2, <2>4 DEF TypeOK
  <2> QED BY <2>1, <2>3, <2>5, SlotKept
<1>4. CASE ParentStep \/ UNCHANGED vars
  <2>1. UNCHANGED <<items, pc, at, slot>>
    BY <1>4 DEF ParentStep, StartStatus, ReadSlot, vars
  <2> QED BY <2>1, SlotKept DEF SlotReady
<1>5. ASSUME NEW p \in Proc, WaitEmpty(p) \/ WaitFull(p) PROVE SlotReady'
  BY <1>1, <1>5 DEF WaitEmpty, WaitFull, Goto
<1>6. ASSUME NEW p \in Proc, Lock(p) \/ Unlock(p) PROVE SlotReady'
  BY <1>1, <1>6 DEF Lock, Unlock, Goto
<1>7. ASSUME NEW p \in Proc, PostFull(p) \/ PostEmpty(p) PROVE SlotReady'
  <2>1. \A q \in Proc \ {p} : at'[q] = at[q] BY <1>7 DEF PostFull, PostEmpty, TypeOK
  <2> QED BY <1>1, <1>7, <2>1 DEF PostFull, PostEmpty, Goto
<1> QED
  BY <1>2, <1>3, <1>4, <1>5, <1>6, <1>7, TwoCrews
  DEF Next, ChefStep, CustomerStep, CallStep

LEMMA AccountInvStep == TypeOK /\ AccountInv /\ [Next]_vars => AccountInv'
<1> SUFFICES ASSUME TypeOK, AccountInv, [Next]_vars PROVE AccountInv'
  OBVIOUS
<1> USE DEF AccountInv
<1>1. \A b \in Tray : Account(b)' BY AccountStep
<1>2. (\A b \in Tray : Account(b)') => OneAtATray' /\ SemaphoresCountSlots'
  BY DEF OneAtATray, SemaphoresCountSlots, Account, Inside, Putting, HavePut, Taking, HaveTaken
<1>3. OwnDishes' BY OwnStep
<1>4. SlotReady' BY SlotStep
<1> QED BY <1>1, <1>2, <1>3, <1>4

Inv == TypeOK /\ AccountInv

LEMMA InvCorrect == Spec => []Inv
<1>1. Init => Inv BY TypeInit, AccountInit DEF Inv
<1>2. Inv /\ [Next]_vars => Inv' BY TypeStep, AccountInvStep DEF Inv
<1> QED BY <1>1, <1>2, PTL DEF Spec

\* The mutex of a tray admits one process to its slots at a time
\* (add_item, remove_item: main.c).
THEOREM MutexCorrect == Spec => []OneAtATray
<1>1. Inv => OneAtATray BY DEF Inv, AccountInv
<1> QED BY <1>1, InvCorrect, PTL

\* full and empty, with the calls in progress, account for the dishes and for
\* the free slots of their tray.
THEOREM SemaphoresCorrect == Spec => []SemaphoresCountSlots
<1>1. Inv => SemaphoresCountSlots BY DEF Inv, AccountInv
<1> QED BY <1>1, InvCorrect, PTL

\* No search runs over a whole tray in vain, and what it found still holds when
\* the slot is written: the return value the code does not look at is never
\* missed.
THEOREM SearchCorrect == Spec => []SearchSucceeds
<1>1. Inv => SearchSucceeds
  BY Ready DEF Inv, AccountInv, SearchReady, SlotReady, SearchSucceeds
<1> QED BY <1>1, InvCorrect, PTL

-----------------------------------------------------------------------------
(* What the parent counts *)

\* The dishes the parent has still to come to.
Rest(b) == {i \in Filled(b) : i >= read[b]}

StatusOf(b) ==
  /\ count[b] <= read[b]
  /\ lo[b] <= count[b] + Cardinality(Rest(b))
  /\ count[b] + Cardinality(Rest(b)) <= hi[b]
  /\ read[b] < BUFFER_SIZE => lo[b] <= Dishes(b) /\ Dishes(b) <= hi[b]

StatusInv == \A b \in Tray : StatusOf(b)

LEMMA RestTypes ==
  \A b : /\ IsFiniteSet(Rest(b)) /\ Cardinality(Rest(b)) \in Nat
         /\ Cardinality(Rest(b))' \in Nat
<1> TAKE b
<1>1. Rest(b) \in SUBSET Slot BY DEF Rest, Filled
<1>2. Rest(b)' \in SUBSET Slot /\ Cardinality(Rest(b))' = Cardinality(Rest(b)')
  BY DEF Rest, Filled
<1> QED BY <1>1, <1>2, SlotSets

\* A chef that fills a slot the parent has still to read leaves no free slot
\* among those it has read.
LEMMA NoneFreeBelow ==
  ASSUME TypeOK, NEW b \in Tray, \A j \in Slot : j < read[b] => j \in Filled(b)
  PROVE  Dishes(b) = read[b] + Cardinality(Rest(b))
<1> DEFINE Below == 0 .. read[b] - 1
<1>1. read[b] \in Nat /\ read[b] <= BUFFER_SIZE /\ BUFFER_SIZE \in Nat
  BY BufferAssumption DEF TypeOK
<1>2. IsFiniteSet(Below) /\ Cardinality(Below) = read[b]
  <2>0. 0 \in Int /\ read[b] - 1 \in Int BY <1>1
  <2>1. /\ IsFiniteSet(0 .. read[b] - 1)
        /\ Cardinality(0 .. read[b] - 1) =
             IF 0 > read[b] - 1 THEN 0 ELSE (read[b] - 1) - 0 + 1
    BY <2>0, FS_Interval
  <2> QED BY <1>1, <2>1
<1>3. Below \subseteq Slot BY <1>1 DEF Slot
<1>4. Filled(b) = Below \cup Rest(b)
  <2>1. \A j \in Slot : j < read[b] <=> j \in Below BY <1>1 DEF Slot
  <2>2. \A j \in Slot : j < read[b] \/ j >= read[b] BY <1>1 DEF Slot
  <2>3. Filled(b) \subseteq Slot BY DEF Filled
  <2>4. \A j \in Below : j \in Filled(b) BY <1>3, <2>1
  <2> HIDE DEF Below
  <2> QED BY <2>1, <2>2, <2>3, <2>4 DEF Rest
<1>5. Below \cap Rest(b) = {}
  BY <1>1 DEF Rest
<1> HIDE DEF Below
<1>6. Cardinality(Below \cup Rest(b)) = Cardinality(Below) + Cardinality(Rest(b))
                                        - Cardinality(Below \cap Rest(b))
  BY <1>2, RestTypes, FS_Union
<1>7. Cardinality(Below \cap Rest(b)) = 0 BY <1>5, FS_EmptySet
<1>8. Dishes(b) = Cardinality(Below \cup Rest(b)) BY <1>4 DEF Dishes
<1>9. Cardinality(Rest(b)) \in Nat BY RestTypes
<1> QED BY <1>1, <1>2, <1>6, <1>7, <1>8, <1>9

\* A customer that empties a slot the parent has still to read leaves no dish
\* among those it has read.
LEMMA NoDishBelow ==
  ASSUME TypeOK, NEW b \in Tray, \A j \in Filled(b) : j >= read[b]
  PROVE  Dishes(b) = Cardinality(Rest(b))
<1>1. Rest(b) = Filled(b) BY DEF Rest
<1> QED BY <1>1 DEF Dishes

LEMMA WatchBounds ==
  ASSUME TypeOK, NEW a \in Tray, NEW n \in Nat, Watch(a, n)
  PROVE  /\ \A b \in Tray : b # a => lo'[b] = lo[b] /\ hi'[b] = hi[b]
         /\ lo'[a] \in Nat /\ hi'[a] \in Nat
         /\ lo'[a] <= lo[a] /\ hi[a] <= hi'[a]
         /\ read[a] < BUFFER_SIZE => lo'[a] <= n /\ n <= hi'[a]
         /\ ~(read[a] < BUFFER_SIZE) => lo'[a] = lo[a] /\ hi'[a] = hi[a]
<1>1. lo \in [Tray -> Nat] /\ hi \in [Tray -> Nat] BY DEF TypeOK
<1>2. /\ lo' = [lo EXCEPT ![a] = IF read[a] < BUFFER_SIZE /\ n < @ THEN n ELSE @]
      /\ hi' = [hi EXCEPT ![a] = IF read[a] < BUFFER_SIZE /\ n > @ THEN n ELSE @]
  BY DEF Watch
<1> QED BY <1>1, <1>2

LEMMA SameStatus ==
  ASSUME NEW b \in Tray, StatusOf(b), Filled(b)' = Filled(b),
         read'[b] = read[b], count'[b] = count[b], lo'[b] = lo[b], hi'[b] = hi[b]
  PROVE  StatusOf(b)'
<1>1. Rest(b)' = Rest(b) /\ Dishes(b)' = Dishes(b) BY DEF Rest, Dishes
<1> QED BY <1>1 DEF StatusOf

LEMMA StatusInit == Init => StatusInv
<1> SUFFICES ASSUME Init, NEW b \in Tray PROVE StatusOf(b)
  BY DEF StatusInv
<1>1. Rest(b) = {} BY DEF Init, Rest, Filled, Free
<1>2. Cardinality(Rest(b)) = 0 BY <1>1, FS_EmptySet
<1> QED BY <1>2, BufferAssumption DEF Init, StatusOf

LEMMA PutStatus ==
  ASSUME Inv, StatusInv, NEW p \in Chef, Put(p)
  PROVE  StatusInv'
<1> SUFFICES ASSUME NEW b \in Tray PROVE StatusOf(b)'
  BY DEF StatusInv
<1>0. p \in Proc /\ TypeOK /\ at[p] \in Tray /\ slot[p] \in Slot
  BY TwoCrews DEF Inv, TypeOK
<1>1. PICK a \in Tray, i \in Slot : a = at[p] /\ i = slot[p] BY <1>0
<1>2. /\ items' = [items EXCEPT ![a] = [@ EXCEPT ![i] = a]]
      /\ pc[p] = "store" /\ at' = at /\ read' = read /\ count' = count
      /\ Watch(a, Dishes(a)')
  BY <1>1 DEF Put, Goto
<1>3. First(i, Free(a)) BY <1>0, <1>1, <1>2, SlotFound DEF Inv, AccountInv
<1>4. i \in Free(a) BY <1>3 DEF First
<1>5. PICK n \in Nat : n = Dishes(a)' BY DishesBounds
<1>6. Watch(a, n) BY <1>2, <1>5
<1>7. n = Dishes(a) + 1 BY <1>0, <1>2, <1>4, <1>5, Stores, TrayFacts
<1>8. Free(a)' = Free(a) \ {i} BY <1>0, <1>2, Stores, TrayFacts
<1>9. Filled(a)' = Filled(a) \cup {i} BY <1>8 DEF Filled
<1>10. \A c \in Tray : c # a => Filled(c)' = Filled(c)
  BY <1>0, <1>2, Stores DEF Filled
<1>11. StatusOf(a) /\ StatusOf(b) BY DEF StatusInv
<1>12. /\ read[a] \in Nat /\ count[a] \in Nat /\ lo[a] \in Nat /\ hi[a] \in Nat
       /\ i \in Nat /\ BUFFER_SIZE \in Nat /\ read[a] <= BUFFER_SIZE /\ i < BUFFER_SIZE
  BY <1>0, BufferAssumption DEF TypeOK, Slot
<1>13. CASE b # a
  <2>1. lo'[b] = lo[b] /\ hi'[b] = hi[b] BY <1>0, <1>6, <1>13, WatchBounds
  <2> QED BY <1>2, <1>10, <1>11, <1>13, <2>1, SameStatus
<1>14. CASE b = a
  <2>1. PICK r \in Nat : r = Cardinality(Rest(a)) BY RestTypes
  <2>2. i < read[a] => Rest(a)' = Rest(a) BY <1>2, <1>9, <1>12 DEF Rest
  <2>3. i >= read[a] => Cardinality(Rest(a)') = r + 1 /\ Dishes(a) = read[a] + r
    <3> SUFFICES ASSUME i >= read[a]
                 PROVE  Cardinality(Rest(a)') = r + 1 /\ Dishes(a) = read[a] + r
      OBVIOUS
    <3>1. Rest(a)' = Rest(a) \cup {i} BY <1>2, <1>9, <1>12 DEF Rest
    <3>2. i \notin Rest(a) BY <1>4 DEF Rest, Filled
    <3>3. Cardinality(Rest(a)') = r + 1 BY <2>1, <3>1, <3>2, RestTypes, OneMore
    <3>4. \A j \in Slot : j < i => j \in Filled(a) BY <1>3, <1>12 DEF First, Filled, Slot
    <3>5. \A j \in Slot : j < read[a] => j < i BY <1>12 DEF Slot
    <3>6. Dishes(a) = read[a] + r BY <1>0, <2>1, <3>4, <3>5, NoneFreeBelow
    <3> QED BY <3>3, <3>6
  <2>4. /\ lo'[a] \in Nat /\ hi'[a] \in Nat /\ lo'[a] <= lo[a] /\ hi[a] <= hi'[a]
        /\ read[a] < BUFFER_SIZE => lo'[a] <= n /\ n <= hi'[a]
        /\ ~(read[a] < BUFFER_SIZE) => lo'[a] = lo[a] /\ hi'[a] = hi[a]
    BY <1>0, <1>6, WatchBounds
  <2>5. /\ count[a] <= read[a] /\ lo[a] <= count[a] + r /\ count[a] + r <= hi[a]
    BY <1>11, <2>1 DEF StatusOf
  <2>6. PICK s : s = Cardinality(Rest(a)') OBVIOUS
  <2>7. s = IF i < read[a] THEN r ELSE r + 1 BY <1>12, <2>1, <2>2, <2>3, <2>6
  <2>8. lo'[a] <= count[a] + s /\ count[a] + s <= hi'[a]
    BY <1>7, <1>12, <2>3, <2>4, <2>5, <2>7
  <2> QED BY <1>2, <1>5, <1>14, <2>4, <2>5, <2>6, <2>8 DEF StatusOf
<1> QED BY <1>13, <1>14

LEMMA TakeStatus ==
  ASSUME Inv, StatusInv, NEW p \in Customer, Take(p)
  PROVE  StatusInv'
<1> SUFFICES ASSUME NEW b \in Tray PROVE StatusOf(b)'
  BY DEF StatusInv
<1>0. p \in Proc /\ TypeOK /\ at[p] \in Tray /\ slot[p] \in Slot
  BY TwoCrews DEF Inv, TypeOK
<1>1. PICK a \in Tray, i \in Slot : a = at[p] /\ i = slot[p] BY <1>0
<1>2. /\ items' = [items EXCEPT ![a] = [@ EXCEPT ![i] = EMPTY]]
      /\ pc[p] = "store" /\ at' = at /\ read' = read /\ count' = count
      /\ Watch(a, Dishes(a)')
  BY <1>1 DEF Take, Goto
<1>3. First(i, Filled(a)) BY <1>0, <1>1, <1>2, SlotFound DEF Inv, AccountInv
<1>4. i \in Filled(a) BY <1>3 DEF First
<1>5. PICK n \in Nat : n = Dishes(a)' BY DishesBounds
<1>6. Watch(a, n) BY <1>2, <1>5
<1>7. n = Dishes(a) - 1 BY <1>0, <1>2, <1>4, <1>5, Stores
<1>8. Free(a)' = Free(a) \cup {i} BY <1>0, <1>2, Stores
<1>9. Filled(a)' = Filled(a) \ {i} BY <1>8 DEF Filled
<1>10. \A c \in Tray : c # a => Filled(c)' = Filled(c)
  BY <1>0, <1>2, Stores DEF Filled
<1>11. StatusOf(a) /\ StatusOf(b) BY DEF StatusInv
<1>12. /\ read[a] \in Nat /\ count[a] \in Nat /\ lo[a] \in Nat /\ hi[a] \in Nat
       /\ i \in Nat /\ BUFFER_SIZE \in Nat /\ read[a] <= BUFFER_SIZE /\ i < BUFFER_SIZE
  BY <1>0, BufferAssumption DEF TypeOK, Slot
<1>13. CASE b # a
  <2>1. lo'[b] = lo[b] /\ hi'[b] = hi[b] BY <1>0, <1>6, <1>13, WatchBounds
  <2> QED BY <1>2, <1>10, <1>11, <1>13, <2>1, SameStatus
<1>14. CASE b = a
  <2>1. PICK r \in Nat : r = Cardinality(Rest(a)) BY RestTypes
  <2>2. i < read[a] => Rest(a)' = Rest(a) BY <1>2, <1>9, <1>12 DEF Rest
  <2>3. i >= read[a] => Cardinality(Rest(a)') = r - 1 /\ r >= 1 /\ Dishes(a) = r
    <3> SUFFICES ASSUME i >= read[a]
                 PROVE  Cardinality(Rest(a)') = r - 1 /\ r >= 1 /\ Dishes(a) = r
      OBVIOUS
    <3>1. Rest(a)' = Rest(a) \ {i} BY <1>2, <1>9, <1>12 DEF Rest
    <3>2. i \in Rest(a) BY <1>4 DEF Rest
    <3>3. Cardinality(Rest(a)') = r - 1 /\ r >= 1 BY <2>1, <3>1, <3>2, RestTypes, OneLess
    <3>4. \A j \in Filled(a) : i <= j BY <1>3 DEF First
    <3>5. \A j \in Filled(a) : j >= read[a] BY <1>12, <3>4 DEF Filled, Slot
    <3>6. Dishes(a) = r BY <1>0, <2>1, <3>5, NoDishBelow
    <3> QED BY <3>3, <3>6
  <2>4. /\ lo'[a] \in Nat /\ hi'[a] \in Nat /\ lo'[a] <= lo[a] /\ hi[a] <= hi'[a]
        /\ read[a] < BUFFER_SIZE => lo'[a] <= n /\ n <= hi'[a]
        /\ ~(read[a] < BUFFER_SIZE) => lo'[a] = lo[a] /\ hi'[a] = hi[a]
    BY <1>0, <1>6, WatchBounds
  <2>5. /\ count[a] <= read[a] /\ lo[a] <= count[a] + r /\ count[a] + r <= hi[a]
    BY <1>11, <2>1 DEF StatusOf
  <2>6. PICK s : s = Cardinality(Rest(a)') OBVIOUS
  <2>7. s = IF i < read[a] THEN r ELSE r - 1 BY <1>12, <2>1, <2>2, <2>3, <2>6
  <2>8. lo'[a] <= count[a] + s /\ count[a] + s <= hi'[a]
    BY <1>7, <1>12, <2>3, <2>4, <2>5, <2>7
  <2> QED BY <1>2, <1>5, <1>14, <2>4, <2>5, <2>6, <2>8 DEF StatusOf
<1> QED BY <1>13, <1>14

LEMMA ReadStatus ==
  ASSUME TypeOK, StatusInv, NEW a \in Tray, ReadSlot(a)
  PROVE  StatusInv'
<1> SUFFICES ASSUME NEW b \in Tray PROVE StatusOf(b)'
  BY DEF StatusInv
<1>1. /\ read[a] < BUFFER_SIZE /\ UNCHANGED <<items, lo, hi>>
      /\ read' = [read EXCEPT ![a] = @ + 1]
      /\ count' = [count EXCEPT ![a] = IF items[a][read[a]] = EMPTY THEN @ ELSE @ + 1]
  BY DEF ReadSlot
<1>2. \A c : Filled(c)' = Filled(c) /\ Dishes(c)' = Dishes(c) BY <1>1, SameItems
<1>3. StatusOf(a) /\ StatusOf(b) BY DEF StatusInv
<1>4. read \in [Tray -> 0 .. BUFFER_SIZE] /\ count \in [Tray -> Nat] BY DEF TypeOK
<1>5. CASE b # a BY <1>1, <1>2, <1>3, <1>4, <1>5, SameStatus
<1>6. CASE b = a
  <2>1. PICK k \in Slot : k = read[a] BY <1>1, <1>4, BufferAssumption DEF Slot
  <2>2. PICK r \in Nat : r = Cardinality(Rest(a)) BY RestTypes
  <2>3. k \in Nat /\ read'[a] = k + 1 BY <1>1, <1>4, <2>1, BufferAssumption DEF Slot
  <2>4. Rest(a)' = Rest(a) \ {k}
    <3>1. Rest(a)' = {i \in Filled(a) : i >= k + 1} BY <1>2, <2>3 DEF Rest
    <3>2. Rest(a) = {i \in Filled(a) : i >= k} BY <2>1 DEF Rest
    <3>3. Filled(a) \subseteq Int BY BufferAssumption DEF Filled, Slot
    <3> QED BY <2>3, <3>1, <3>2, <3>3
  <2>5. k \in Rest(a) <=> items[a][k] # EMPTY BY <2>1, <2>3 DEF Rest, Filled, Free
  <2>6. PICK s : s = Cardinality(Rest(a)') OBVIOUS
  <2>7. /\ items[a][k] # EMPTY => s = r - 1 /\ r >= 1
        /\ items[a][k] = EMPTY => s = r
    <3>1. CASE items[a][k] # EMPTY BY <2>2, <2>4, <2>5, <2>6, <3>1, RestTypes, OneLess
    <3>2. CASE items[a][k] = EMPTY
      <4>1. Rest(a) \ {k} = Rest(a) BY <2>5, <3>2
      <4> QED BY <2>2, <2>4, <2>6, <3>2, <4>1
    <3> QED BY <3>1, <3>2
  <2>8. count'[a] = IF items[a][k] = EMPTY THEN count[a] ELSE count[a] + 1
    BY <1>1, <1>4, <2>1
  <2>9. /\ count[a] \in Nat /\ count[a] <= k
        /\ lo[a] <= count[a] + r /\ count[a] + r <= hi[a]
        /\ lo[a] <= Dishes(a) /\ Dishes(a) <= hi[a]
    BY <1>1, <1>3, <1>4, <2>1, <2>2 DEF StatusOf
  <2>10. count'[a] + s = count[a] + r /\ count'[a] <= k + 1
    BY <2>2, <2>3, <2>7, <2>8, <2>9
  <2> QED BY <1>1, <1>2, <1>6, <2>3, <2>6, <2>9, <2>10 DEF StatusOf
<1> QED BY <1>5, <1>6

LEMMA StartStatusStatus ==
  ASSUME StartStatus
  PROVE  StatusInv'
<1> SUFFICES ASSUME NEW b \in Tray PROVE StatusOf(b)'
  BY DEF StatusInv
<1>1. /\ read'[b] = 0 /\ count'[b] = 0 /\ lo'[b] = Dishes(b) /\ hi'[b] = Dishes(b)
      /\ items' = items
  BY DEF StartStatus
<1>2. Filled(b)' = Filled(b) /\ Dishes(b)' = Dishes(b) BY <1>1, SameItems
<1>3. Filled(b) \subseteq Nat BY BufferAssumption DEF Filled, Slot
<1>4. Rest(b)' = Filled(b) BY <1>1, <1>2, <1>3 DEF Rest
<1>5. Cardinality(Rest(b)') = Dishes(b) BY <1>4 DEF Dishes
<1>6. Dishes(b) \in Nat BY DishesBounds
<1> QED BY <1>1, <1>2, <1>5, <1>6 DEF StatusOf

LEMMA StatusStep == Inv /\ StatusInv /\ [Next]_vars => StatusInv'
<1> SUFFICES ASSUME Inv, StatusInv, [Next]_vars PROVE StatusInv'
  OBVIOUS
<1>1. CASE UNCHANGED <<items, status>>
  <2> SUFFICES ASSUME NEW b \in Tray PROVE StatusOf(b)'
    BY DEF StatusInv
  <2>1. StatusOf(b) BY DEF StatusInv
  <2>2. Filled(b)' = Filled(b) BY <1>1, SameItems
  <2> QED BY <1>1, <2>1, <2>2, SameStatus DEF status
<1>2. ASSUME NEW p \in Chef, ChefStep(p) PROVE StatusInv'
  <2>1. CASE Put(p) BY <2>1, PutStatus
  <2> QED
    BY <1>1, <1>2, <2>1
    DEF ChefStep, CallStep, WaitEmpty, Lock, Search, Unlock, PostFull
<1>3. ASSUME NEW p \in Customer, CustomerStep(p) PROVE StatusInv'
  <2>1. CASE Take(p) BY <2>1, TakeStatus
  <2> QED
    BY <1>1, <1>3, <2>1
    DEF CustomerStep, CallStep, WaitFull, Lock, Search, Unlock, PostEmpty
<1>4. CASE ParentStep BY <1>4, ReadStatus, StartStatusStatus DEF ParentStep, Inv
<1>5. CASE UNCHANGED vars BY <1>1, <1>5 DEF vars
<1> QED BY <1>2, <1>3, <1>4, <1>5 DEF Next

\* What print_buffer_state prints is never below the fewest, nor above the most,
\* dishes its tray had during the scan, although the trays change under it.
THEOREM StatusCorrect == Spec => []StatusWasTrue
<1>1. Init => StatusInv BY StatusInit
<1>2. Inv /\ StatusInv /\ [Next]_vars => StatusInv' BY StatusStep
<1>3. Inv /\ StatusInv => StatusWasTrue
  <2> SUFFICES ASSUME Inv, StatusInv, NEW b \in Tray, read[b] = BUFFER_SIZE
               PROVE  lo[b] <= count[b] /\ count[b] <= hi[b]
    BY DEF StatusWasTrue
  <2>1. Rest(b) = {} BY BufferAssumption DEF Rest, Filled, Slot
  <2>2. Cardinality(Rest(b)) = 0 BY <2>1, FS_EmptySet
  <2>3. StatusOf(b) /\ count[b] \in Nat BY DEF StatusInv, Inv, TypeOK
  <2> QED BY <2>2, <2>3 DEF StatusOf
<1> QED BY <1>1, <1>2, <1>3, InvCorrect, PTL DEF Spec

-----------------------------------------------------------------------------
(* add_item and remove_item implement Trays *)

LEMMA AbstractSame ==
  ASSUME UNCHANGED <<items, at>>,
         \A p \in Proc : pc'[p] \in {"unlock", "post"} <=> pc[p] \in {"unlock", "post"}
  PROVE  UNCHANGED Abstract!vars
<1>1. \A b : Dishes(b)' = Dishes(b) BY SameItems
<1>2. [b \in Tray |-> Dishes(b)]' = [b \in Tray |-> Dishes(b)] BY <1>1
<1>3. [p \in Proc |-> pc[p] \in {"unlock", "post"}]'
        = [p \in Proc |-> pc[p] \in {"unlock", "post"}]
  OBVIOUS
<1> QED BY <1>2, <1>3 DEF Abstract!vars

\* A call has its effect in the step that writes to the slot: the mutex makes
\* the whole search and store as good as that one step.
LEMMA AbstractPut ==
  ASSUME Inv, NEW p \in Chef, Put(p)
  PROVE  Abstract!Put(p)
<1>0. p \in Proc /\ TypeOK /\ at[p] \in Tray /\ slot[p] \in Slot
  BY TwoCrews DEF Inv, TypeOK
<1>1. PICK a \in Tray, i \in Slot : a = at[p] /\ i = slot[p] BY <1>0
<1>2. /\ items' = [items EXCEPT ![a] = [@ EXCEPT ![i] = a]]
      /\ pc[p] = "store" /\ pc' = [pc EXCEPT ![p] = "unlock"] /\ at' = at
  BY <1>1 DEF Put, Goto
<1>3. i \in Free(a) BY <1>0, <1>1, <1>2, SlotFound DEF Inv, AccountInv, First
<1>4. /\ Dishes(a)' = Dishes(a) + 1
      /\ \A b \in Tray : b # a => Dishes(b)' = Dishes(b)
  BY <1>0, <1>2, <1>3, Stores, TrayFacts
<1>5. Dishes(a) < BUFFER_SIZE
  <2>1. Dishes(a)' <= BUFFER_SIZE
    <3>1. Dishes(a)' = Cardinality(Filled(a)') /\ Filled(a)' \in SUBSET Slot
      BY DEF Dishes, Filled
    <3> QED BY <3>1, SlotSets
  <2> QED BY <1>4, <2>1, DishesBounds, BufferAssumption
<1>6. [b \in Tray |-> Dishes(b)]'
        = [[b \in Tray |-> Dishes(b)] EXCEPT ![at[p]] = @ + 1]
  BY <1>1, <1>4
<1>7. [q \in Proc |-> pc[q] \in {"unlock", "post"}]'
        = [[q \in Proc |-> pc[q] \in {"unlock", "post"}] EXCEPT ![p] = TRUE]
  BY <1>0, <1>2 DEF TypeOK
<1> QED BY <1>0, <1>1, <1>2, <1>5, <1>6, <1>7 DEF Abstract!Put

LEMMA AbstractTake ==
  ASSUME Inv, NEW p \in Customer, Take(p)
  PROVE  Abstract!Take(p)
<1>0. p \in Proc /\ TypeOK /\ at[p] \in Tray /\ slot[p] \in Slot
  BY TwoCrews DEF Inv, TypeOK
<1>1. PICK a \in Tray, i \in Slot : a = at[p] /\ i = slot[p] BY <1>0
<1>2. /\ items' = [items EXCEPT ![a] = [@ EXCEPT ![i] = EMPTY]]
      /\ pc[p] = "store" /\ pc' = [pc EXCEPT ![p] = "unlock"] /\ at' = at
  BY <1>1 DEF Take, Goto
<1>3. i \in Filled(a) BY <1>0, <1>1, <1>2, SlotFound DEF Inv, AccountInv, First
<1>4. /\ Dishes(a)' = Dishes(a) - 1
      /\ \A b \in Tray : b # a => Dishes(b)' = Dishes(b)
  BY <1>0, <1>2, <1>3, Stores
<1>5. Dishes(a) > 0 BY <1>4, DishesBounds
<1>6. [b \in Tray |-> Dishes(b)]'
        = [[b \in Tray |-> Dishes(b)] EXCEPT ![at[p]] = @ - 1]
  BY <1>1, <1>4
<1>7. [q \in Proc |-> pc[q] \in {"unlock", "post"}]'
        = [[q \in Proc |-> pc[q] \in {"unlock", "post"}] EXCEPT ![p] = TRUE]
  BY <1>0, <1>2 DEF TypeOK
<1> QED BY <1>0, <1>1, <1>2, <1>5, <1>6, <1>7 DEF Abstract!Take

LEMMA AbstractReturn ==
  ASSUME TypeOK, NEW p \in Proc, PostFull(p) \/ PostEmpty(p)
  PROVE  Abstract!Return(p)
<1>1. /\ pc[p] = "post" /\ pc' = [pc EXCEPT ![p] = "idle"] /\ items' = items
      /\ at' = [at EXCEPT ![p] = NextTray[p][@]]
  BY DEF PostFull, PostEmpty, Goto
<1>2. \A b : Dishes(b)' = Dishes(b) BY <1>1, SameItems
<1>3. [b \in Tray |-> Dishes(b)]' = [b \in Tray |-> Dishes(b)] BY <1>2
<1>4. [q \in Proc |-> pc[q] \in {"unlock", "post"}]'
        = [[q \in Proc |-> pc[q] \in {"unlock", "post"}] EXCEPT ![p] = FALSE]
  <2>1. pc'[p] = "idle" /\ \A q \in Proc : q # p => pc'[q] = pc[q] BY <1>1 DEF TypeOK
  <2>2. (pc'[p] \in {"unlock", "post"}) = FALSE BY <2>1
  <2>3. \A q \in Proc : q # p =>
          (pc'[q] \in {"unlock", "post"}) = (pc[q] \in {"unlock", "post"})
    BY <2>1
  <2> QED BY <2>2, <2>3, Zenon
<1> QED BY <1>1, <1>3, <1>4 DEF Abstract!Return

LEMMA AbstractInit == Init => Abstract!Init
<1> SUFFICES ASSUME Init PROVE Abstract!Init
  OBVIOUS
<1>1. \A b \in Tray : Filled(b) = {} BY DEF Init, Filled, Free
<1>2. \A b \in Tray : Dishes(b) = 0 BY <1>1, FS_EmptySet DEF Dishes
<1>3. [p \in Proc |-> pc[p] \in {"unlock", "post"}] = [p \in Chef \cup Customer |-> FALSE]
  <2>1. \A p \in Proc : (pc[p] \in {"unlock", "post"}) = FALSE BY DEF Init
  <2> QED BY <2>1, TwoCrews, Zenon
<1> QED BY <1>2, <1>3 DEF Init, Abstract!Init

LEMMA AbstractStep == Inv /\ [Next]_vars => [Abstract!Next]_Abstract!vars
<1> SUFFICES ASSUME Inv, [Next]_vars PROVE Abstract!Next \/ UNCHANGED Abstract!vars
  OBVIOUS
<1>0. TypeOK BY DEF Inv
<1>1. ASSUME NEW p \in Proc, NEW to, UNCHANGED <<items, at>>,
             pc' = [pc EXCEPT ![p] = to],
             pc[p] \in {"unlock", "post"} <=> to \in {"unlock", "post"}
      PROVE  UNCHANGED Abstract!vars
  <2>1. \A q \in Proc : pc'[q] \in {"unlock", "post"} <=> pc[q] \in {"unlock", "post"}
    BY <1>0, <1>1 DEF TypeOK
  <2> QED BY <1>1, <2>1, AbstractSame
<1>2. ASSUME NEW p \in Proc, WaitEmpty(p) \/ WaitFull(p) PROVE UNCHANGED Abstract!vars
  BY <1>1, <1>2 DEF WaitEmpty, WaitFull, Goto
<1>3. ASSUME NEW p \in Proc, CallStep(p) PROVE UNCHANGED Abstract!vars
  <2>1. CASE Lock(p) BY <1>1, <2>1 DEF Lock, Goto
  <2>2. CASE Unlock(p) BY <1>1, <2>2 DEF Unlock, Goto
  <2>3. CASE Search(p)
    <3>1. Wanted(p) # {}
      BY <1>0, <2>3, Ready DEF Inv, AccountInv, SearchReady, Search, Goto
    <3> QED BY <1>1, <2>3, <3>1 DEF Search, Goto
  <2> QED BY <1>3, <2>1, <2>2, <2>3 DEF CallStep
<1>4. ASSUME NEW p \in Chef, ChefStep(p)
      PROVE  Abstract!Next \/ UNCHANGED Abstract!vars
  <2>1. p \in Proc BY TwoCrews
  <2>2. CASE Put(p) BY <2>2, AbstractPut DEF Abstract!Next
  <2>3. CASE PostFull(p)
    <3>1. Abstract!Return(p) BY <1>0, <2>1, <2>3, AbstractReturn
    <3> QED BY <3>1 DEF Abstract!Next
  <2> QED BY <1>2, <1>3, <1>4, <2>1, <2>2, <2>3 DEF ChefStep
<1>5. ASSUME NEW p \in Customer, CustomerStep(p)
      PROVE  Abstract!Next \/ UNCHANGED Abstract!vars
  <2>1. p \in Proc BY TwoCrews
  <2>2. CASE Take(p) BY <2>2, AbstractTake DEF Abstract!Next
  <2>3. CASE PostEmpty(p)
    <3>1. Abstract!Return(p) BY <1>0, <2>1, <2>3, AbstractReturn
    <3> QED BY <3>1 DEF Abstract!Next
  <2> QED BY <1>2, <1>3, <1>5, <2>1, <2>2, <2>3 DEF CustomerStep
<1>6. CASE ParentStep \/ UNCHANGED vars
  <2>1. UNCHANGED <<items, pc, at>>
    BY <1>6 DEF ParentStep, StartStatus, ReadSlot, vars
  <2> QED BY <2>1, AbstractSame
<1> QED BY <1>4, <1>5, <1>6 DEF Next

\* add_item and remove_item do what Trays promises: each call changes its tray
\* by one dish, in one step, and only when there is room, or a dish.
THEOREM ImplementsTrays == Spec => TraysSpec
<1>1. Init => Abstract!Init BY AbstractInit
<1>2. Inv /\ [Next]_vars => [Abstract!Next]_Abstract!vars BY AbstractStep
<1> QED BY <1>1, <1>2, InvCorrect, PTL DEF Spec, TraysSpec, Abstract!Spec
=============================================================================
