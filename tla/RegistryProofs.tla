--------------------------- MODULE RegistryProofs ---------------------------
(***************************************************************************)
(* ChatApp implements PeerRegistry, for any number of connections, table   *)
(* slots, ids and descriptors.  Every step either changes nothing the      *)
(* registry sees, or takes one active slot out of the table, or registers  *)
(* or refuses the connection of a creator, or ends the shutdown's sweep;   *)
(* each of these is a step of PeerRegistry or a stutter.                   *)
(***************************************************************************)
EXTENDS ChatAppProofs, FiniteSetTheorems

USE DEF table, kern, cmds, hnds

\* The connections the registry has yet to hear of, and the table being closed.
UnseenSet == {c \in Conn : Unseen(c)}
TableClosed == pc["main"] \in {"destroy", "exiting"}

Quiet == UNCHANGED <<UnseenSet, TableClosed>>

Keeps == Quiet /\ UNCHANGED <<peers, next_peer_id>>

Drops == /\ Quiet /\ UNCHANGED next_peer_id
         /\ \E s \in Active : peers' = Dropped(s)

Hands == \E w \in Creator : Register(w) \/ RegisterFails(w)

Sorted == Keeps \/ Drops \/ Hands \/ SweepDone

-----------------------------------------------------------------------------
(* Which step is which.  Nobody becomes unseen, and only the end of         *)
(* chatapp_add_peer makes a connection seen.                                *)

\* A step that leaves the handlers that exist, and the creators that are about to
\* register, as they are.
LEMMA QuietSteps ==
  ASSUME \A c \in Conn : hpc'[c] = "none" <=> hpc[c] = "none",
         \A w \in Creator : /\ pc'[w] \in {"lock_add", "add", "fill"}
                                 <=> pc[w] \in {"lock_add", "add", "fill"}
                            /\ pc[w] \in {"lock_add", "add", "fill"} => ctid'[w] = ctid[w],
         pc'["main"] \in {"destroy", "exiting"} <=> pc["main"] \in {"destroy", "exiting"}
  PROVE  Quiet
<1>1. \A c \in Conn : Unseen(c)' <=> Unseen(c)
  BY DEF Unseen
<1>2. UnseenSet' = UnseenSet
  BY <1>1 DEF UnseenSet
<1> QED BY <1>2 DEF Quiet, TableClosed

LEMMA StepsSorted == TypeInv /\ FreshInv /\ [Next]_vars => Sorted
<1> SUFFICES ASSUME TypeInv, FreshInv, [Next]_vars PROVE Sorted
  OBVIOUS
<1>0. /\ pc = [v \in Creator |-> pc[v]] /\ hpc = [t \in Conn |-> hpc[t]]
      /\ ctid = [v \in Creator |-> ctid[v]]
      /\ "main" \in Creator /\ "listener" \in Creator
  BY DEF TypeInv, TypeOK, Creator
<1>1. ASSUME NEW w \in Creator, CreatorStep(w) PROVE Sorted
  <2>1. CASE Lock(w)
    <3>1. /\ pc[w] \in DOMAIN Section /\ pc' = [pc EXCEPT ![w] = Section[pc[w]]]
          /\ UNCHANGED <<hpc, ctid>>
      BY <2>1 DEF Lock, Goto
    <3>2. \A p \in DOMAIN Section : Section[p] = "add" <=> p = "lock_add"
      BY DEF Section
    <3>3. Quiet
      BY <3>1, <3>2, <1>0, QuietSteps, SectionPoints DEF Creator
    <3> QED BY <2>1, <3>3 DEF Lock, Sorted, Keeps
  <2>2. CASE Spawn(w)
    <3>1. ctid[w] \in Conn /\ hpc[ctid[w]] = "none"
      BY <2>2, TypeInv, FreshInv DEF Spawn, TypeInv, CreatorKnowsHandler, FreshInv, Handing
    <3>2. \A v \in Creator : v # w /\ pc[v] \in {"lock_add", "add", "fill"} => ctid[v] # ctid[w]
      BY <2>2, FreshInv DEF Spawn, FreshInv, Handing
    <3>3. \A c \in Conn : Unseen(c)' <=> Unseen(c)
      BY <2>2, <3>1, <3>2, <1>0 DEF Spawn, Goto, Unseen, Creator
    <3>4. UnseenSet' = UnseenSet
      BY <3>3 DEF UnseenSet
    <3>5. TableClosed' = TableClosed
      BY <2>2, <1>0 DEF Spawn, Goto, TableClosed, Creator
    <3> QED BY <2>2, <3>4, <3>5 DEF Spawn, Sorted, Keeps, Quiet
  <2>3. CASE SpawnFails(w)
    <3>1. Quiet
      BY <2>3, <1>0, QuietSteps DEF SpawnFails, Return, Goto, Creator
    <3> QED BY <2>3, <3>1 DEF SpawnFails, Sorted, Keeps
  <2>4. CASE Register(w)
    BY <2>4 DEF Sorted, Hands
  <2>5. CASE RegisterFails(w)
    BY <2>5 DEF Sorted, Hands
  <2>6. CASE RejectClose(w)
    <3>1. Quiet
      BY <2>6, <1>0, QuietSteps DEF RejectClose, Goto, Creator
    <3> QED BY <2>6, <3>1 DEF RejectClose, Sorted, Keeps
  <2>7. CASE RejectCancel(w)
    <3>1. Quiet
      BY <2>7, <1>0, QuietSteps DEF RejectCancel, Return, Goto, Creator
    <3> QED BY <2>7, <3>1 DEF RejectCancel, Sorted, Keeps
  <2>8. CASE FindSlot(w)
    <3>1. Quiet
      BY <2>8, <1>0, QuietSteps DEF FindSlot, Goto, Creator
    <3> QED BY <2>8, <3>1 DEF FindSlot, Sorted, Keeps
  <2> QED BY <1>1, <2>1, <2>2, <2>3, <2>4, <2>5, <2>6, <2>7, <2>8 DEF CreatorStep
<1>2. ASSUME MainStep PROVE Sorted
  <2>1. CASE CreatorStep("main")
    BY <2>1, <1>1 DEF Creator
  <2>2. CASE MyIpDone
    <3>1. Quiet
      BY <2>2, <1>0, QuietSteps DEF MyIpDone, Return, Goto, Creator
    <3> QED BY <2>2, <3>1 DEF MyIpDone, Sorted, Keeps
  <2>3. CASE ConnectOk
    <3>1. Quiet
      BY <2>3, <1>0, QuietSteps DEF ConnectOk, Goto, Creator
    <3> QED BY <2>3, <3>1 DEF ConnectOk, Sorted, Keeps
  <2>4. CASE ConnectFails
    <3>1. Quiet
      BY <2>4, <1>0, QuietSteps DEF ConnectFails, Return, Goto, Creator
    <3> QED BY <2>4, <3>1 DEF ConnectFails, Sorted, Keeps
  <2>5. CASE ListPeers
    <3>1. Quiet
      BY <2>5, <1>0, QuietSteps DEF ListPeers, Goto, Creator
    <3> QED BY <2>5, <3>1 DEF ListPeers, Sorted, Keeps
  <2>6. CASE NotFound
    <3>1. Quiet
      BY <2>6, <1>0, QuietSteps DEF NotFound, Prompt, Goto, Creator
    <3> QED BY <2>6, <3>1 DEF NotFound, Sorted, Keeps
  <2>7. CASE SendMessage
    <3>1. Quiet
      BY <2>7, <1>0, QuietSteps DEF SendMessage, Prompt, Goto, Creator
    <3> QED BY <2>7, <3>1 DEF SendMessage, Sorted, Keeps
  <2>8. CASE SendRaisesSigpipe
    <3>1. Quiet
      BY <2>8, <1>0, QuietSteps DEF SendRaisesSigpipe, Creator
    <3> QED BY <2>8, <3>1 DEF SendRaisesSigpipe, Sorted, Keeps
  <2>9. CASE TerminateClose
    <3>1. Quiet
      BY <2>9, <1>0, QuietSteps DEF TerminateClose, Goto, Creator
    <3> QED BY <2>9, <3>1 DEF TerminateClose, Sorted, Keeps
  <2>10. CASE TerminateCancel
    <3>1. \E s \in Active : peers' = Dropped(s)
      BY <2>10 DEF TerminateCancel, HasId
    <3>2. Quiet
      BY <2>10, <1>0, QuietSteps DEF TerminateCancel, Prompt, Goto, Creator
    <3> QED BY <2>10, <3>1, <3>2 DEF TerminateCancel, Sorted, Drops
  <2>11. CASE StopRunning
    <3>1. Quiet
      BY <2>11, <1>0, QuietSteps DEF StopRunning, Goto, Creator
    <3> QED BY <2>11, <3>1 DEF StopRunning, Sorted, Keeps
  <2>12. CASE CloseListener
    <3>1. Quiet
      BY <2>12, <1>0, QuietSteps DEF CloseListener, Goto, Creator
    <3> QED BY <2>12, <3>1 DEF CloseListener, Sorted, Keeps
  <2>13. CASE JoinListener
    <3>1. Quiet
      BY <2>13, <1>0, QuietSteps DEF JoinListener, Goto, Creator
    <3> QED BY <2>13, <3>1 DEF JoinListener, Sorted, Keeps
  <2>14. CASE SweepPeer
    <3>1. \E s \in Active : peers' = Dropped(s)
      BY <2>14 DEF SweepPeer, HasId
    <3>2. Quiet
      BY <2>14, <1>0, QuietSteps DEF SweepPeer, Prompt, Goto, Creator
    <3> QED BY <2>14, <3>1, <3>2 DEF SweepPeer, Sorted, Drops
  <2>15. CASE SweepDone
    BY <2>15 DEF Sorted
  <2>16. CASE DestroyMutex
    <3>1. Quiet
      BY <2>16, <1>0, QuietSteps DEF DestroyMutex, Goto, Creator
    <3> QED BY <2>16, <3>1 DEF DestroyMutex, Sorted, Keeps
  <2>17. CASE Exit
    <3>1. Quiet
      BY <2>17, <1>0, QuietSteps DEF Exit, Creator
    <3> QED BY <2>17, <3>1 DEF Exit, Sorted, Keeps
  <2> QED BY <1>2, <2>1, <2>2, <2>3, <2>4, <2>5, <2>6, <2>7, <2>8, <2>9, <2>10, <2>11,
       <2>12, <2>13, <2>14, <2>15, <2>16, <2>17 DEF MainStep
<1>3. ASSUME UserStep PROVE Sorted
  <2>1. CASE Command
    <3>1. Quiet
      BY <2>1, <1>0, QuietSteps, SectionPoints DEF Command, Goto, Creator
    <3> QED BY <2>1, <3>1 DEF Command, Sorted, Keeps
  <2>2. CASE MyIp
    <3>1. Quiet
      BY <2>2, <1>0, QuietSteps DEF MyIp, Goto, Creator
    <3> QED BY <2>2, <3>1 DEF MyIp, Sorted, Keeps
  <2>3. ASSUME NEW c \in Conn, Connect(c) PROVE Sorted
    <3>1. Quiet
      BY <2>3, <1>0, QuietSteps DEF Connect, Goto, Creator
    <3> QED BY <2>3, <3>1 DEF Connect, Sorted, Keeps
  <2> QED BY <1>3, <2>1, <2>2, <2>3 DEF UserStep
<1>4. ASSUME ListenerStep PROVE Sorted
  <2>1. CASE CreatorStep("listener")
    BY <2>1, <1>1 DEF Creator
  <2>2. CASE CheckRunning
    <3>1. Quiet
      BY <2>2, <1>0, QuietSteps DEF CheckRunning, Goto, Creator
    <3> QED BY <2>2, <3>1 DEF CheckRunning, Sorted, Keeps
  <2>3. CASE AcceptFails
    <3>1. Quiet
      BY <2>3, <1>0, QuietSteps DEF AcceptFails, Goto, Creator
    <3> QED BY <2>3, <3>1 DEF AcceptFails, Sorted, Keeps
  <2>4. CASE AcceptWaits
    <3>1. Quiet
      BY <2>4, <1>0, QuietSteps DEF AcceptWaits, Goto, Creator
    <3> QED BY <2>4, <3>1 DEF AcceptWaits, Sorted, Keeps
  <2>5. ASSUME NEW c \in Conn, Accepted(c) PROVE Sorted
    <3>1. Quiet
      BY <2>5, <1>0, QuietSteps DEF Accepted, Goto, Creator
    <3> QED BY <2>5, <3>1 DEF Accepted, Sorted, Keeps
  <2> QED BY <1>4, <2>1, <2>2, <2>3, <2>4, <2>5 DEF ListenerStep
<1>5. ASSUME NEW t \in Conn, HandlerStep(t) PROVE Sorted
  <2>1. CASE Recv(t)
    <3>1. Quiet
      BY <2>1, <1>0, QuietSteps DEF Recv, HGoto, Creator
    <3> QED BY <2>1, <3>1 DEF Recv, Sorted, Keeps
  <2>2. CASE RecvEof(t)
    <3>1. Quiet
      BY <2>2, <1>0, QuietSteps DEF RecvEof, HGoto, Creator
    <3> QED BY <2>2, <3>1 DEF RecvEof, Sorted, Keeps
  <2>3. CASE Cancelled(t)
    <3>1. Quiet
      BY <2>3, <1>0, QuietSteps DEF Cancelled, HGoto, Creator
    <3> QED BY <2>3, <3>1 DEF Cancelled, Sorted, Keeps
  <2>4. CASE ScanLock(t)
    <3>1. Quiet
      BY <2>4, <1>0, QuietSteps DEF ScanLock, HGoto, Creator
    <3> QED BY <2>4, <3>1 DEF ScanLock, Sorted, Keeps
  <2>5. CASE Scan(t)
    <3>1. Quiet
      BY <2>5, <1>0, QuietSteps DEF Scan, HGoto, Creator
    <3>2. UNCHANGED peers \/ \E s \in Active : peers' = Dropped(s)
      BY <2>5 DEF Scan, OnFd
    <3> QED BY <2>5, <3>1, <3>2 DEF Scan, Sorted, Keeps, Drops
  <2>6. CASE HandlerClose(t)
    <3>1. Quiet
      BY <2>6, <1>0, QuietSteps DEF HandlerClose, HGoto, Creator
    <3> QED BY <2>6, <3>1 DEF HandlerClose, Sorted, Keeps
  <2>7. CASE Cleanup(t)
    <3>1. Quiet
      BY <2>7, <1>0, QuietSteps DEF Cleanup, HGoto, Creator
    <3> QED BY <2>7, <3>1 DEF Cleanup, Sorted, Keeps
  <2>8. CASE PopCancelled(t)
    <3>1. Quiet
      BY <2>8, <1>0, QuietSteps DEF PopCancelled, HGoto, Creator
    <3> QED BY <2>8, <3>1 DEF PopCancelled, Sorted, Keeps
  <2>9. CASE PrintEnd(t)
    <3>1. Quiet
      BY <2>9, <1>0, QuietSteps DEF PrintEnd, HGoto, Creator
    <3> QED BY <2>9, <3>1 DEF PrintEnd, Sorted, Keeps
  <2> QED BY <1>5, <2>1, <2>2, <2>3, <2>4, <2>5, <2>6, <2>7, <2>8, <2>9 DEF HandlerStep
<1>6. ASSUME RemoteStep PROVE Sorted
  <2>1. ASSUME NEW c \in Conn, RemoteConnect(c) PROVE Sorted
    <3>1. Quiet
      BY <2>1, <1>0, QuietSteps DEF RemoteConnect, Creator
    <3> QED BY <2>1, <3>1 DEF RemoteConnect, Sorted, Keeps
  <2>2. ASSUME NEW c \in Conn, RemoteClose(c) PROVE Sorted
    <3>1. Quiet
      BY <2>2, <1>0, QuietSteps DEF RemoteClose, Creator
    <3> QED BY <2>2, <3>1 DEF RemoteClose, Sorted, Keeps
  <2>3. ASSUME NEW c \in Conn, RecvData(c) PROVE Sorted
    <3>1. Quiet
      BY <2>3, <1>0, QuietSteps DEF RecvData, HGoto, Creator
    <3> QED BY <2>3, <3>1 DEF RecvData, Sorted, Keeps
  <2> QED BY <1>6, <2>1, <2>2, <2>3 DEF RemoteStep
<1>7. CASE UNCHANGED vars
  <2>1. Quiet
    BY <1>7, QuietSteps DEF vars, cmds, hnds
  <2> QED BY <1>7, <2>1 DEF Sorted, Keeps, vars, table
<1> QED BY <1>1, <1>2, <1>3, <1>4, <1>5, <1>6, <1>7 DEF Next

-----------------------------------------------------------------------------
(* The registry's ids, as a function of the table *)

InUse(p) == {s \in Slot : p[s].active}

Distinct(p) == \A r, s \in InUse(p) : r # s => p[r].thread_id # p[s].thread_id

IdIn(p, c) ==
  LET S == {s \in InUse(p) : p[s].thread_id = c}
  IN IF S = {} THEN 0 ELSE p[CHOOSE s \in S : TRUE].id

Ids(p) == [c \in Conn |-> IdIn(p, c)]

LEMMA IdLookup ==
  ASSUME NEW p, Distinct(p)
  PROVE  /\ \A s \in InUse(p) : IdIn(p, p[s].thread_id) = p[s].id
         /\ \A c : (\A s \in InUse(p) : p[s].thread_id # c) => IdIn(p, c) = 0
<1>1. ASSUME NEW s \in InUse(p) PROVE IdIn(p, p[s].thread_id) = p[s].id
  <2>1. {r \in InUse(p) : p[r].thread_id = p[s].thread_id} = {s}
    BY DEF Distinct
  <2>2. (CHOOSE r \in {s} : TRUE) = s
    OBVIOUS
  <2> QED BY <2>1, <2>2 DEF IdIn
<1>2. ASSUME NEW c, \A s \in InUse(p) : p[s].thread_id # c PROVE IdIn(p, c) = 0
  <2>1. {r \in InUse(p) : p[r].thread_id = c} = {}
    BY <1>2
  <2> QED BY <2>1 DEF IdIn
<1> QED BY <1>1, <1>2

\* What the registry sees of a state and of a step.
OverSet == {c \in Conn : IdIn(peers, c) = 0 /\ c \notin UnseenSet}

View == /\ Active = InUse(peers)
        /\ \A c \in Conn : IdOf(c) = IdIn(peers, c)
        /\ {c \in Conn : IdOf(c) = 0 /\ ~Unseen(c)} = OverSet

LEMMA ViewHolds == View
<1>1. Active = InUse(peers)
  BY DEF Active, InUse
<1>2. \A c \in Conn : IdOf(c) = IdIn(peers, c)
  BY <1>1 DEF IdOf, IdIn
<1> QED BY <1>1, <1>2 DEF View, OverSet, UnseenSet

\* The steps of the registry, in terms of the table.
Listed == {c \in Conn : Ids(peers)[c] # 0}
Room == next_peer_id < INT_MAX /\ Cardinality(Listed) < MAX_PEERS

RegisterStep(c) ==
  /\ ~TableClosed /\ Ids(peers)[c] = 0 /\ c \notin OverSet /\ Room
  /\ Ids(peers') = [Ids(peers) EXCEPT ![c] = next_peer_id]
  /\ next_peer_id' = next_peer_id + 1
  /\ UNCHANGED <<OverSet, TableClosed>>

RefuseStep(c) ==
  /\ Ids(peers)[c] = 0 /\ c \notin OverSet /\ ~Room
  /\ OverSet' = OverSet \cup {c}
  /\ Ids(peers') = Ids(peers)
  /\ UNCHANGED <<next_peer_id, TableClosed>>

DropStep(c) ==
  /\ Ids(peers)[c] # 0
  /\ Ids(peers') = [Ids(peers) EXCEPT ![c] = 0]
  /\ OverSet' = OverSet \cup {c}
  /\ UNCHANGED <<next_peer_id, TableClosed>>

CloseStep ==
  /\ ~TableClosed /\ Listed = {}
  /\ TableClosed'
  /\ Ids(peers') = Ids(peers)
  /\ UNCHANGED <<OverSet, next_peer_id>>

NoStep ==
  Ids(peers') = Ids(peers) /\ UNCHANGED <<OverSet, next_peer_id, TableClosed>>

RegistryStep ==
  \/ NoStep \/ CloseStep
  \/ \E c \in Conn : RegisterStep(c) \/ RefuseStep(c) \/ DropStep(c)

-----------------------------------------------------------------------------
(* The table has room exactly if the registry has: active slots and listed   *)
(* connections are equally many.                                             *)

LEMMA ListedCount ==
  ASSUME TypeInv, TableInv
  PROVE  /\ Listed = {peers[s].thread_id : s \in Active}
         /\ Active # Slot => Cardinality(Listed) < MAX_PEERS
         /\ Active = Slot => Cardinality(Listed) = MAX_PEERS
<1> USE ViewHolds DEF View
<1>1. Distinct(peers)
  BY DEF TableInv, IdNamesOneConnection, Distinct
<1>2. \A s \in Active : peers[s].id # 0 /\ peers[s].thread_id \in Conn
  BY DEF TableInv, IdNamesOneConnection
<1>3. Listed = {peers[s].thread_id : s \in Active}
  <2>1. \A s \in Active : IdIn(peers, peers[s].thread_id) # 0
    BY <1>1, <1>2, IdLookup
  <2>2. \A c \in Conn : IdIn(peers, c) # 0 => \E s \in Active : c = peers[s].thread_id
    BY <1>1, IdLookup
  <2>3. \A c \in Conn : c \in Listed <=> IdIn(peers, c) # 0
    BY DEF Listed, Ids
  <2>4. Listed \subseteq Conn
    BY DEF Listed
  <2> HIDE DEF View
  <2> QED BY <2>1, <2>2, <2>3, <2>4, <1>2
<1>4. PICK f : f = [s \in Active |-> peers[s].thread_id]
  OBVIOUS
<1>5. f \in Bijection(Active, Listed)
  BY <1>1, <1>3, <1>4 DEF Distinct, Bijection, Injection, Surjection, IsInjective
<1>6. IsFiniteSet(Slot) /\ Cardinality(Slot) = MAX_PEERS
  BY ChatAssumption, FS_Interval DEF Slot
<1>7. Active \in SUBSET Slot
  BY DEF Active
<1>8. /\ IsFiniteSet(Active)
      /\ Cardinality(Active) <= MAX_PEERS
      /\ Cardinality(Active) = MAX_PEERS => Active = Slot
  BY <1>6, <1>7, FS_Subset
<1>9. Cardinality(Listed) = Cardinality(Active)
  <2>1. ExistsBijection(Active, Listed)
    BY <1>5 DEF ExistsBijection
  <2> QED BY <2>1, <1>8, FS_Bijection
<1>10. Cardinality(Active) \in Nat
  BY <1>8, FS_CardinalityType
<1>11. Active # Slot => Cardinality(Listed) < MAX_PEERS
  BY <1>8, <1>9, <1>10, ChatAssumption
<1>12. Active = Slot => Cardinality(Listed) = MAX_PEERS
  BY <1>6, <1>9
<1> QED BY <1>3, <1>11, <1>12

-----------------------------------------------------------------------------
(* Each kind of step is a step of the registry *)

LEMMA KeepsMaps == Keeps => NoStep
<1> SUFFICES ASSUME Keeps PROVE NoStep
  OBVIOUS
<1>1. Ids(peers') = Ids(peers)
  BY DEF Keeps
<1>2. OverSet' = OverSet
  BY DEF Keeps, Quiet, OverSet
<1> QED BY <1>1, <1>2 DEF Keeps, Quiet, NoStep

LEMMA DropsMaps ==
  ASSUME TypeInv, TableInv, TableInv', Drops
  PROVE  \E c \in Conn : DropStep(c)
<1>1. PICK s \in Active : peers' = Dropped(s)
  BY DEF Drops
<1>2. /\ InUse(peers) = Active /\ InUse(peers') = Active \ {s}
      /\ \A r \in InUse(peers') : peers'[r] = peers[r]
  BY <1>1, Dropping DEF TypeInv, TypeOK, InUse, Active
<1>3. PICK c \in Conn : c = peers[s].thread_id
  BY DEF TableInv, IdNamesOneConnection
<1>4. Distinct(peers) /\ Distinct(peers')
  BY <1>2 DEF TableInv, IdNamesOneConnection, Distinct
<1>5. IdIn(peers, c) # 0 /\ IdIn(peers', c) = 0
  BY <1>2, <1>3, <1>4, IdLookup DEF TableInv, IdNamesOneConnection, Distinct
<1>6. ASSUME NEW d \in Conn, d # c PROVE IdIn(peers', d) = IdIn(peers, d)
  <2>1. CASE \E r \in Active \ {s} : peers[r].thread_id = d
    BY <2>1, <1>2, <1>4, IdLookup
  <2>2. CASE \A r \in Active \ {s} : peers[r].thread_id # d
    BY <2>2, <1>2, <1>3, <1>4, <1>6, IdLookup
  <2> QED BY <2>1, <2>2
<1>7. Ids(peers') = [Ids(peers) EXCEPT ![c] = 0]
  BY <1>5, <1>6 DEF Ids
<1>8. c \notin UnseenSet
  <2>1. hpc[c] # "none"
    BY <1>1, <1>3 DEF TableInv, IdNamesOneConnection
  <2>2. \A w \in Creator : pc[w] \in {"lock_add", "add", "fill"} => ctid[w] # c
    BY <1>1, <1>3 DEF TableInv, CreatorHandlerIsNew, Handing
  <2> QED BY <2>1, <2>2 DEF UnseenSet, Unseen
<1>9. OverSet' = OverSet \cup {c}
  <2>1. UnseenSet' = UnseenSet
    BY DEF Drops, Quiet
  <2> QED BY <2>1, <1>5, <1>6, <1>8 DEF OverSet
<1> QED BY <1>5, <1>7, <1>9 DEF DropStep, Drops, Quiet, Ids

\* The connection of a creator that holds the mutex is new to the registry, and no
\* other creator has it.
LEMMA CreatorsConnection ==
  ASSUME TypeInv, FreshInv, TableInv, NEW w \in Creator, pc[w] \in {"add", "fill"}
  PROVE  /\ ctid[w] \in Conn /\ hpc[ctid[w]] # "none"
         /\ IdIn(peers, ctid[w]) = 0
         /\ \A s \in Active : peers[s].thread_id # ctid[w]
         /\ ctid[w] \notin OverSet
         /\ \A v \in Creator : v # w /\ pc[v] \in {"lock_add", "add", "fill"} => ctid[v] # ctid[w]
<1>1. /\ ctid[w] \in Conn /\ hpc[ctid[w]] # "none"
      /\ \A s \in Active : peers[s].thread_id # ctid[w]
  BY DEF TypeInv, CreatorKnowsHandler, Handing, TableInv, CreatorMatchesHandler,
     CreatorHandlerIsNew
<1>2. IdIn(peers, ctid[w]) = 0
  BY <1>1, ViewHolds, IdLookup DEF View, TableInv, IdNamesOneConnection, Distinct
<1>3. ctid[w] \in UnseenSet
  BY <1>1 DEF UnseenSet, Unseen
<1>4. \A v \in Creator : v # w /\ pc[v] \in {"lock_add", "add", "fill"} => ctid[v] # ctid[w]
  BY DEF FreshInv, Handing
<1> QED BY <1>1, <1>2, <1>3, <1>4 DEF OverSet

\* When a creator has registered or was refused, its connection is seen, and
\* nobody else's is.
LEMMA HandedOver ==
  ASSUME TypeInv, FreshInv, TableInv, NEW w \in Creator, pc[w] \in {"add", "fill"},
         hpc' = hpc, \A v \in Creator \ {w} : pc'[v] = pc[v] /\ ctid'[v] = ctid[v],
         pc'[w] \in {"prompt", "lock_check", "full"}
  PROVE  UnseenSet' = UnseenSet \ {ctid[w]}
<1>1. \A c \in Conn : Unseen(c)' <=> (Unseen(c) /\ c # ctid[w])
  BY CreatorsConnection DEF Unseen
<1> QED BY <1>1 DEF UnseenSet

LEMMA RegisterMaps ==
  ASSUME TypeInv, FreshInv, ReadInv, TableInv, TableInv', SweepIsFinal,
         NEW w \in Creator, Register(w)
  PROVE  RegisterStep(ctid[w])
<1>1. PICK s \in Slot : /\ s \notin Active
                       /\ peers' = [peers EXCEPT ![s] =
                            [id |-> next_peer_id, sockfd |-> cfd[w],
                             thread_id |-> ctid[w], active |-> TRUE]]
  BY DEF Register, AddPeer, ReadInv, TypeInv, TypeOK
<1>2. /\ InUse(peers) = Active /\ InUse(peers') = Active \cup {s}
      /\ \A r \in Active : r # s /\ peers'[r] = peers[r]
      /\ peers'[s].id = next_peer_id /\ peers'[s].thread_id = ctid[w]
  BY <1>1 DEF TypeInv, TypeOK, Active, InUse
<1>3. pc[w] = "fill" /\ next_peer_id' = next_peer_id + 1 /\ next_peer_id <= INT_MAX - 1
  BY ChatAssumption DEF Register, AddPeer, ReadInv, TypeInv, TypeOK
<1>4. /\ ctid[w] \in Conn /\ IdIn(peers, ctid[w]) = 0 /\ ctid[w] \notin OverSet
      /\ \A r \in Active : peers[r].thread_id # ctid[w]
  BY <1>3, CreatorsConnection
<1>5. Distinct(peers) /\ Distinct(peers')
  BY <1>2, <1>4 DEF TableInv, IdNamesOneConnection, Distinct
<1>6. next_peer_id \in Nat \ {0} /\ INT_MAX \in Nat
  BY ChatAssumption DEF TypeInv, TypeOK, Id
<1>7. IdIn(peers', ctid[w]) = next_peer_id
  BY <1>2, <1>5, IdLookup
<1>8. ASSUME NEW d \in Conn, d # ctid[w] PROVE IdIn(peers', d) = IdIn(peers, d)
  <2>1. CASE \E r \in Active : peers[r].thread_id = d
    BY <2>1, <1>2, <1>5, IdLookup
  <2>2. CASE \A r \in Active : peers[r].thread_id # d
    BY <2>2, <1>2, <1>5, <1>8, IdLookup
  <2> QED BY <2>1, <2>2
<1>9. Ids(peers') = [Ids(peers) EXCEPT ![ctid[w]] = next_peer_id]
  BY <1>4, <1>7, <1>8 DEF Ids
<1>10. UnseenSet' = UnseenSet \ {ctid[w]}
  <2>1. /\ hpc' = hpc /\ \A v \in Creator \ {w} : pc'[v] = pc[v] /\ ctid'[v] = ctid[v]
        /\ pc'[w] \in {"prompt", "lock_check", "full"}
    BY DEF Register, Return, Goto, TypeInv, TypeOK
  <2> QED BY <2>1, <1>3, HandedOver
<1>11. OverSet' = OverSet
  BY <1>4, <1>6, <1>7, <1>8, <1>10 DEF OverSet
<1>12. ~TableClosed /\ TableClosed' = TableClosed
  <2>1. pc["main"] \notin {"destroy", "exiting"}
    BY <1>3 DEF SweepIsFinal, Creator
  <2>2. pc'["main"] = pc["main"] \/ pc'["main"] = "prompt"
    BY DEF Register, Return, Goto, TypeInv, TypeOK, Creator
  <2> QED BY <2>1, <2>2 DEF TableClosed
<1>13. Room
  <2>1. Active # Slot
    BY <1>1
  <2> QED BY <2>1, <1>3, <1>6, ListedCount DEF Room
<1>14. Ids(peers)[ctid[w]] = 0
  BY <1>4 DEF Ids
<1> QED BY <1>3, <1>4, <1>9, <1>11, <1>12, <1>13, <1>14 DEF RegisterStep

LEMMA RefuseMaps ==
  ASSUME TypeInv, FreshInv, TableInv, NEW w \in Creator, RegisterFails(w)
  PROVE  RefuseStep(ctid[w])
<1>1. pc[w] = "add" /\ (IdsUsedUp \/ Inactive = {}) /\ UNCHANGED <<peers, next_peer_id>>
  BY DEF RegisterFails
<1>2. ctid[w] \in Conn /\ IdIn(peers, ctid[w]) = 0 /\ ctid[w] \notin OverSet
  BY <1>1, CreatorsConnection
<1>3. UnseenSet' = UnseenSet \ {ctid[w]}
  <2>1. /\ hpc' = hpc /\ \A v \in Creator \ {w} : pc'[v] = pc[v] /\ ctid'[v] = ctid[v]
        /\ pc'[w] \in {"prompt", "lock_check", "full"}
    BY DEF RegisterFails, Goto, TypeInv, TypeOK
  <2> QED BY <2>1, <1>1, HandedOver
<1>4. OverSet' = OverSet \cup {ctid[w]}
  BY <1>1, <1>2, <1>3 DEF OverSet
<1>5. ~Room
  <2>1. CASE IdsUsedUp
    BY <2>1, ChatAssumption DEF IdsUsedUp, Room, TypeInv, TypeOK, Id
  <2>2. CASE Inactive = {}
    <3>1. Active = Slot
      BY <2>2 DEF Inactive, Active
    <3>2. ~(Cardinality(Listed) < MAX_PEERS)
      BY <3>1, ListedCount, ChatAssumption
    <3> QED BY <3>2 DEF Room
  <2> QED BY <2>1, <2>2, <1>1
<1>6. TableClosed' = TableClosed
  BY <1>1 DEF RegisterFails, Goto, TypeInv, TypeOK, Creator, TableClosed
<1> QED BY <1>1, <1>2, <1>4, <1>5, <1>6 DEF RefuseStep, Ids

LEMMA SweepMaps ==
  ASSUME TypeInv, TableInv, SweepDone
  PROVE  CloseStep
<1>1. /\ Active = {} /\ UNCHANGED <<peers, next_peer_id, hpc, ctid>>
      /\ pc["main"] = "sweep" /\ pc' = [pc EXCEPT !["main"] = "destroy"]
  BY DEF SweepDone, Goto
<1>2. Listed = {}
  BY <1>1, ListedCount
<1>3. UnseenSet' = UnseenSet
  <2>1. \A c \in Conn : Unseen(c)' <=> Unseen(c)
    BY <1>1 DEF Unseen, Creator, TypeInv, TypeOK
  <2> QED BY <2>1 DEF UnseenSet
<1>4. OverSet' = OverSet
  BY <1>1, <1>3 DEF OverSet
<1>5. ~TableClosed /\ TableClosed'
  BY <1>1 DEF TableClosed, Creator, TypeInv, TypeOK
<1> QED BY <1>1, <1>2, <1>4, <1>5 DEF CloseStep

LEMMA StepMaps ==
  TypeInv /\ FreshInv /\ ReadInv /\ TableInv /\ TableInv' /\ SweepIsFinal /\ [Next]_vars
    => RegistryStep
<1> SUFFICES ASSUME TypeInv, FreshInv, ReadInv, TableInv, TableInv', SweepIsFinal, [Next]_vars
             PROVE  RegistryStep
  OBVIOUS
<1>1. CASE Keeps
  BY <1>1, KeepsMaps DEF RegistryStep
<1>2. CASE Drops
  BY <1>2, DropsMaps DEF RegistryStep
<1>3. ASSUME NEW w \in Creator, Register(w) PROVE RegistryStep
  <2>1. ctid[w] \in Conn
    BY <1>3, CreatorsConnection DEF Register
  <2> QED BY <1>3, <2>1, RegisterMaps DEF RegistryStep
<1>4. ASSUME NEW w \in Creator, RegisterFails(w) PROVE RegistryStep
  <2>1. ctid[w] \in Conn
    BY <1>4, CreatorsConnection DEF RegisterFails
  <2> QED BY <1>4, <2>1, RefuseMaps DEF RegistryStep
<1>5. CASE SweepDone
  BY <1>5, SweepMaps DEF RegistryStep
<1> QED BY <1>1, <1>2, <1>3, <1>4, <1>5, StepsSorted DEF Sorted, Hands

LEMMA InitMaps == Init => Registry!Init
<1> SUFFICES ASSUME Init PROVE Registry!Init
  OBVIOUS
<1>1. Active = {}
  BY DEF Init, Active, InitPeer
<1>2. \A c \in Conn : IdOf(c) = 0
  BY <1>1 DEF IdOf
<1>3. \A c \in Conn : Unseen(c)
  BY DEF Init, Unseen
<1>4. [c \in Conn |-> IdOf(c)] = [c \in Conn |-> 0]
  BY <1>2
<1>5. {c \in Conn : IdOf(c) = 0 /\ ~Unseen(c)} = {}
  BY <1>3
<1>6. next_peer_id = 1 /\ (pc["main"] \in {"destroy", "exiting"}) = FALSE
  BY DEF Init, Creator
<1> QED BY <1>4, <1>5, <1>6 DEF Registry!Init

\* The table's functions and the threads that call them implement the registry:
\* each effect on the table is one of its steps, whatever else they do in between.
THEOREM ImplementsRegistry == Spec => RegistrySpec
<1>0. \A S : Registry!Cardinality(S) = Cardinality(S)
  BY DEF Registry!Cardinality, Cardinality
<1>1. RegistryStep => [Registry!Next]_(Registry!vars)
  <2>1. /\ [c \in Conn |-> IdOf(c)] = Ids(peers)
        /\ {c \in Conn : IdOf(c) = 0 /\ ~Unseen(c)} = OverSet
    BY ViewHolds DEF View, Ids
  <2>2. View'
    BY ViewHolds, PTL
  <2>3. /\ [c \in Conn |-> IdOf(c)]' = Ids(peers')
        /\ {c \in Conn : IdOf(c) = 0 /\ ~Unseen(c)}' = OverSet'
    BY <2>2 DEF View, Ids
  <2>4. CASE NoStep
    BY <2>1, <2>3, <2>4 DEF NoStep, TableClosed, Registry!vars
  <2>5. CASE CloseStep
    BY <2>1, <2>3, <2>5 DEF CloseStep, TableClosed, Listed, Registry!Next, Registry!Close,
       Registry!Listed
  <2>6. ASSUME NEW c \in Conn, RegisterStep(c) PROVE Registry!Register(c)
    BY <1>0, <2>1, <2>3, <2>6 DEF RegisterStep, TableClosed, Room, Listed, Registry!Register,
       Registry!New, Registry!Room, Registry!Listed
  <2>7. ASSUME NEW c \in Conn, RefuseStep(c) PROVE Registry!Refuse(c)
    BY <1>0, <2>1, <2>3, <2>7 DEF RefuseStep, TableClosed, Room, Listed, Registry!Refuse,
       Registry!New, Registry!Room, Registry!Listed
  <2>8. ASSUME NEW c \in Conn, DropStep(c) PROVE Registry!Drop(c)
    BY <2>1, <2>3, <2>8 DEF DropStep, TableClosed, Registry!Drop
  <2> QED BY <2>4, <2>5, <2>6, <2>7, <2>8 DEF RegistryStep, Registry!Next
<1> QED BY <1>1, InitMaps, StepMaps, TypeInit, TypeStep, FreshInit, FreshStep, ReadAlways,
       TableAlways, SweepCorrect, PTL DEF Spec, RegistrySpec, Registry!Spec
=============================================================================
