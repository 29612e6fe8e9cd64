--------------------------- MODULE ChatAppProofs ---------------------------
(***************************************************************************)
(* Theorems about ChatApp, for any number of connections, table slots, ids *)
(* and descriptors.                                                        *)
(***************************************************************************)
EXTENDS ChatApp, TLAPS

USE DEF table, kern, cmds, hnds

LEMMA SectionPoints ==
  /\ DOMAIN Section = {"lock_add", "lock_send", "lock_terminate", "lock_list", "lock_exit",
                       "lock_sweep", "lock_check"}
  /\ Inside = {"add", "send", "terminate", "list", "exit", "sweep", "check", "cancelling",
               "fill"}
  /\ \A p \in DOMAIN Section : Section[p] \in Inside \ {"cancelling", "fill"}
  /\ \A p \in DOMAIN Section : (Section[p] = "add" => p = "lock_add")
                             /\ (Section[p] = "sweep" => p = "lock_sweep")
  BY DEF Section, Inside

\* peers[s].active = 0 takes slot s out of the list and changes no other slot.
LEMMA Dropping ==
  ASSUME peers \in [Slot -> Peer], NEW s \in Slot, peers' = Dropped(s)
  PROVE  /\ peers' \in [Slot -> Peer]
         /\ Active' = Active \ {s}
         /\ \A r \in Active' : peers'[r] = peers[r]
<1>1. peers[s] \in Peer
  OBVIOUS
<1>2. /\ [peers[s] EXCEPT !.active = FALSE] \in Peer
      /\ ~[peers[s] EXCEPT !.active = FALSE].active
  BY <1>1 DEF Peer
<1>3. /\ peers' \in [Slot -> Peer]
      /\ ~peers'[s].active
      /\ \A r \in Slot \ {s} : peers'[r] = peers[r]
  BY <1>2 DEF Dropped
<1> QED BY <1>3 DEF Active

-----------------------------------------------------------------------------
(* Types.  TypeOK is not inductive: cancel stays a set of handlers only     *)
(* because a creator that rejects a connection, and every active slot, knows *)
(* the handler it cancels.                                                   *)

\* Where a creator holds a connection: before and after pthread_create.
Handing == {"connect", "spawn", "lock_add", "add", "fill", "full", "reject"}

CreatorKnowsHandler == \A w \in Creator : pc[w] \in Handing => ctid[w] \in Conn

SlotKnowsHandler == \A s \in Active : peers[s].thread_id \in Conn /\ peers[s].sockfd \in Fd

TypeInv == TypeOK /\ CreatorKnowsHandler /\ SlotKnowsHandler

LEMMA TypeStep == TypeInv /\ [Next]_vars => TypeInv'
<1> SUFFICES ASSUME TypeInv, [Next]_vars PROVE TypeInv'
  OBVIOUS
<1>0. ListenFd \in Fd
  BY ChatAssumption DEF ListenFd, Fd
<1> USE DEF TypeInv, CreatorKnowsHandler, SlotKnowsHandler, Active, Handing
<1>1. ASSUME NEW w \in Creator, CreatorStep(w) PROVE TypeInv'
  <2>1. CASE Lock(w)
    BY <2>1, TypeInv, <1>0, SectionPoints DEF Lock, Goto, TypeOK, Creator
  <2>2. CASE Spawn(w)
    BY <2>2, TypeInv, <1>0, SectionPoints DEF Spawn, Goto, TypeOK, Creator
  <2>3. CASE SpawnFails(w)
    BY <2>3, TypeInv, <1>0, SectionPoints DEF SpawnFails, Closed, Return, Goto, TypeOK,
       Creator
  <2>4. CASE Register(w)
    <3> DEFINE e == entry[w]
               new == [id |-> e.id, sockfd |-> cfd[w],
                       thread_id |-> ctid[w], active |-> TRUE]
    <3>1. /\ peers' = [peers EXCEPT ![e.i] = new] /\ next_peer_id' = e.id + 1
          /\ entry' = [entry EXCEPT ![w] = NoEntry]
      BY <2>4 DEF Register, AddPeer
    <3>2. e.i \in Slot /\ e.id \in 0 .. INT_MAX - 1
      BY TypeInv DEF TypeOK
    <3>3. new \in Peer /\ ctid[w] \in Conn
      BY <2>4, <3>2, TypeInv, ChatAssumption DEF Register, TypeOK, Peer
    <3>4. peers' \in [Slot -> Peer] /\ SlotKnowsHandler'
      BY <3>1, <3>2, <3>3, TypeInv DEF TypeOK
    <3>5. next_peer_id' \in Id
      BY <3>1, <3>2, ChatAssumption DEF Id
    <3>6. entry' \in [Creator -> [i : Slot, id : 0 .. INT_MAX - 1]]
      BY <3>1, TypeInv, ChatAssumption DEF TypeOK, NoEntry, Slot
    <3> HIDE DEF SlotKnowsHandler, e, new
    <3> QED
      BY <2>4, <3>4, <3>5, <3>6, TypeInv, SectionPoints, <1>0 DEF Register, Unlock,
         Return, Goto, TypeOK, Creator
  <2>5. CASE RegisterFails(w)
    BY <2>5, TypeInv, <1>0, SectionPoints DEF RegisterFails, Unlock, Goto, TypeOK,
       Creator
  <2>6. CASE RejectClose(w)
    BY <2>6, TypeInv, <1>0, SectionPoints DEF RejectClose, Closed, Goto, TypeOK, Creator
  <2>7. CASE RejectCancel(w)
    BY <2>7, TypeInv, <1>0, SectionPoints DEF RejectCancel, Return, Goto, TypeOK,
       Creator
  <2>8. CASE FindSlot(w)
    <3>1. PICK s \in Slot : entry' = [entry EXCEPT ![w] = [i |-> s, id |-> next_peer_id]]
      BY <2>8 DEF FindSlot
    <3>2. [i |-> s, id |-> next_peer_id] \in [i : Slot, id : 0 .. INT_MAX - 1]
      BY <2>8, TypeInv, ChatAssumption DEF FindSlot, IdsUsedUp, TypeOK, Id
    <3>3. entry' \in [Creator -> [i : Slot, id : 0 .. INT_MAX - 1]]
      BY <3>1, <3>2, TypeInv DEF TypeOK
    <3> QED
      BY <2>8, <3>3, TypeInv, SectionPoints DEF FindSlot, Goto, TypeOK, Creator
  <2> QED BY <1>1, <2>1, <2>2, <2>3, <2>4, <2>5, <2>6, <2>7, <2>8 DEF CreatorStep
<1>2. ASSUME MainStep PROVE TypeInv'
  <2>1. CASE CreatorStep("main")
    BY <2>1, <1>1 DEF Creator
  <2>2. CASE MyIpDone
    BY <2>2, TypeInv, <1>0, SectionPoints DEF MyIpDone, Closed, Return, Goto, TypeOK,
       Creator
  <2>3. CASE ConnectOk
    BY <2>3, TypeInv, <1>0, SectionPoints DEF ConnectOk, Goto, TypeOK, Creator
  <2>4. CASE ConnectFails
    BY <2>4, TypeInv, <1>0, SectionPoints DEF ConnectFails, Closed, Return, Goto,
       TypeOK, Creator
  <2>5. CASE ListPeers
    BY <2>5, TypeInv, <1>0, SectionPoints DEF ListPeers, Unlock, Goto, TypeOK, Creator
  <2>6. CASE NotFound
    BY <2>6, TypeInv, ChatAssumption, SectionPoints DEF NotFound, Unlock, Prompt, Goto, TypeOK,
       Creator
  <2>7. CASE SendMessage
    <3>1. sock' \in [Conn -> {"new", "backlog", "unconnected", "est", "fin", "rst"}]
      BY <2>7 DEF SendMessage, TypeOK
    <3> QED
      BY <3>1, <2>7, TypeInv, ChatAssumption, SectionPoints DEF SendMessage, Unlock,
         Prompt, Goto, TypeOK, Creator
  <2>8. CASE SendRaisesSigpipe
    BY <2>8, TypeInv, <1>0, SectionPoints DEF SendRaisesSigpipe, TypeOK, Creator
  <2>9. CASE TerminateClose
    <3>1. PICK s \in HasId : fdt' = Closed(peers[s].sockfd)
      BY <2>9 DEF TerminateClose
    <3>2. fdt' \in [Fd -> {"free", "listener", "reserved", "tmp"} \cup Conn]
      BY <3>1, TypeInv DEF Closed, TypeOK
    <3>3. UNCHANGED <<peers, next_peer_id, running, mutex, sock, cfd, ctid, arg, entry, hpc,
                      hfd, hrecv, cancel, proc>>
      BY <2>9 DEF TerminateClose
    <3>4. pc' = [pc EXCEPT !["main"] = "cancelling"]
      BY <2>9 DEF TerminateClose, Goto
    <3> QED
      BY <3>2, <3>3, <3>4, TypeInv, SectionPoints DEF TypeOK, Creator
  <2>10. CASE TerminateCancel
    <3>1. PICK s \in Active : peers' = Dropped(s)
      BY <2>10 DEF TerminateCancel, HasId
    <3>2. /\ peers' \in [Slot -> Peer]
          /\ Active' = Active \ {s}
          /\ \A r \in Active' : peers'[r] = peers[r]
      BY <3>1, Dropping, TypeInv DEF TypeOK, Active
    <3> HIDE DEF Active
    <3> QED
      BY <3>2, <2>10, TypeInv, ChatAssumption, SectionPoints DEF TerminateCancel, HasId,
         Unlock, Prompt, Goto, TypeOK, Creator
  <2>11. CASE StopRunning
    BY <2>11, TypeInv, <1>0, SectionPoints DEF StopRunning, Unlock, Goto, TypeOK,
       Creator
  <2>12. CASE CloseListener
    BY <2>12, TypeInv, <1>0, SectionPoints DEF CloseListener, Closed, Goto, TypeOK,
       Creator
  <2>13. CASE JoinListener
    BY <2>13, TypeInv, <1>0, SectionPoints DEF JoinListener, Goto, TypeOK, Creator
  <2>14. CASE SweepPeer
    <3>1. PICK s \in Active : peers' = Dropped(s)
      BY <2>14 DEF SweepPeer
    <3>2. /\ peers' \in [Slot -> Peer]
          /\ Active' = Active \ {s}
          /\ \A r \in Active' : peers'[r] = peers[r]
      BY <3>1, Dropping, TypeInv DEF TypeOK, Active
    <3> HIDE DEF Active
    <3> QED
      BY <3>2, <2>14, TypeInv, ChatAssumption, SectionPoints DEF SweepPeer, Closed,
         Goto, TypeOK, Creator
  <2>15. CASE SweepDone
    BY <2>15, TypeInv, <1>0, SectionPoints DEF SweepDone, Unlock, Goto, TypeOK, Creator
  <2>16. CASE DestroyMutex
    BY <2>16, TypeInv, <1>0, SectionPoints DEF DestroyMutex, Goto, TypeOK, Creator
  <2>17. CASE Exit
    BY <2>17, TypeInv, <1>0, SectionPoints DEF Exit, TypeOK, Creator
  <2> QED BY <1>2, <2>1, <2>2, <2>3, <2>4, <2>5, <2>6, <2>7, <2>8, <2>9, <2>10, <2>11,
       <2>12, <2>13, <2>14, <2>15, <2>16, <2>17 DEF MainStep
<1>3. ASSUME UserStep PROVE TypeInv'
  <2>1. CASE Command
    <3>1. arg' \in 0 .. INT_MAX
      BY <2>1, TypeInv, ChatAssumption DEF Command, TypeOK, Id
    <3>2. PICK p \in {"lock_send", "lock_terminate", "lock_list", "lock_exit"} :
            pc' = [pc EXCEPT !["main"] = p]
      BY <2>1 DEF Command, Goto
    <3>3. UNCHANGED <<peers, next_peer_id, running, mutex, fdt, sock, cfd, ctid, entry, hpc,
                      hfd, hrecv, cancel, proc>>
      BY <2>1 DEF Command
    <3> QED BY <3>1, <3>2, <3>3, TypeInv, SectionPoints DEF TypeOK, Creator
  <2>2. CASE MyIp
    BY <2>2, TypeInv, <1>0, SectionPoints DEF MyIp, LowestFree, Goto, TypeOK, Creator
  <2>3. ASSUME NEW c \in Conn, Connect(c) PROVE TypeInv'
    <3>1. PICK f \in Fd : /\ fdt' = [fdt EXCEPT ![f] = c]
                          /\ cfd' = [cfd EXCEPT !["main"] = f]
      BY <2>3 DEF Connect
    <3>2. /\ sock' = [sock EXCEPT ![c] = "unconnected"]
          /\ ctid' = [ctid EXCEPT !["main"] = c]
          /\ pc' = [pc EXCEPT !["main"] = "connect"]
          /\ UNCHANGED <<peers, next_peer_id, running, mutex, arg, entry, hpc, hfd, hrecv,
                         cancel,                          proc>>
      BY <2>3 DEF Connect, Goto
    <3> QED BY <3>1, <3>2, TypeInv, SectionPoints DEF TypeOK, Creator
  <2> QED BY <1>3, <2>1, <2>2, <2>3 DEF UserStep
<1>4. ASSUME ListenerStep PROVE TypeInv'
  <2>1. CASE CreatorStep("listener")
    BY <2>1, <1>1 DEF Creator
  <2>2. CASE CheckRunning
    BY <2>2, TypeInv, <1>0, SectionPoints DEF CheckRunning, Unlock, Goto, TypeOK,
       Creator
  <2>3. CASE AcceptFails
    BY <2>3, TypeInv, <1>0, SectionPoints DEF AcceptFails, Goto, TypeOK, Creator
  <2>4. CASE AcceptWaits
    BY <2>4, TypeInv, <1>0, SectionPoints DEF AcceptWaits, LowestFree, Goto, TypeOK,
       Creator
  <2>5. ASSUME NEW c \in Conn, Accepted(c) PROVE TypeInv'
    BY <2>5, TypeInv, <1>0, SectionPoints DEF Accepted, Goto, TypeOK, Creator
  <2> QED BY <1>4, <2>1, <2>2, <2>3, <2>4, <2>5 DEF ListenerStep
<1>5. ASSUME NEW t \in Conn, HandlerStep(t) PROVE TypeInv'
  <2>1. CASE Recv(t)
    <3>1. hrecv' \in [Conn -> Conn \cup {"tmp", "none"}]
      BY <2>1 DEF Recv, TypeOK
    <3> QED
      BY <3>1, <2>1, TypeInv, ChatAssumption, SectionPoints DEF Recv, HGoto, TypeOK
  <2>2. CASE RecvEof(t)
    BY <2>2, TypeInv, <1>0, SectionPoints DEF RecvEof, HGoto, TypeOK, Creator
  <2>3. CASE Cancelled(t)
    BY <2>3, TypeInv, <1>0, SectionPoints DEF Cancelled, HGoto, TypeOK, Creator
  <2>4. CASE ScanLock(t)
    BY <2>4, TypeInv, <1>0, SectionPoints DEF ScanLock, HGoto, TypeOK, Creator
  <2>5. CASE Scan(t)
    <3>1. CASE UNCHANGED peers
      BY <3>1, <2>5, TypeInv DEF Scan, Unlock, HGoto, TypeOK
    <3>2. CASE \E s \in OnFd(hfd[t]) : peers' = Dropped(s)
      <4>1. PICK s \in Active : peers' = Dropped(s)
        BY <3>2 DEF OnFd
      <4>2. /\ peers' \in [Slot -> Peer]
            /\ Active' = Active \ {s}
            /\ \A r \in Active' : peers'[r] = peers[r]
        BY <4>1, Dropping, TypeInv DEF TypeOK, Active
      <4> HIDE DEF Active
      <4> QED BY <4>2, <2>5, TypeInv DEF Scan, Unlock, HGoto, TypeOK
    <3> QED BY <2>5, <3>1, <3>2 DEF Scan
  <2>6. CASE HandlerClose(t)
    BY <2>6, TypeInv, <1>0, SectionPoints DEF HandlerClose, Closed, HGoto, TypeOK,
       Creator
  <2>7. CASE Cleanup(t)
    BY <2>7, TypeInv, <1>0, SectionPoints DEF Cleanup, Closed, HGoto, TypeOK, Creator
  <2>8. CASE PopCancelled(t)
    BY <2>8, TypeInv, <1>0, SectionPoints DEF PopCancelled, HGoto, TypeOK, Creator
  <2>9. CASE PrintEnd(t)
    BY <2>9, TypeInv, <1>0, SectionPoints DEF PrintEnd, HGoto, TypeOK, Creator
  <2> QED BY <1>5, <2>1, <2>2, <2>3, <2>4, <2>5, <2>6, <2>7, <2>8, <2>9 DEF HandlerStep
<1>6. ASSUME RemoteStep PROVE TypeInv'
  <2>1. ASSUME NEW c \in Conn, RemoteConnect(c) PROVE TypeInv'
    BY <2>1, TypeInv, <1>0, SectionPoints DEF RemoteConnect, TypeOK, Creator
  <2>2. ASSUME NEW c \in Conn, RemoteClose(c) PROVE TypeInv'
    BY <2>2, TypeInv, <1>0, SectionPoints DEF RemoteClose, TypeOK, Creator
  <2>3. ASSUME NEW c \in Conn, RecvData(c) PROVE TypeInv'
    BY <2>3, TypeInv, <1>0, SectionPoints DEF RecvData, HGoto, TypeOK, Creator
  <2> QED BY <1>6, <2>1, <2>2, <2>3 DEF RemoteStep
<1>7. CASE UNCHANGED vars
  BY <1>7, TypeInv, ChatAssumption, SectionPoints DEF TypeOK, Peer, Slot, Id, Fd,
     ListenFd, Creator, vars, table, kern, cmds, hnds
<1> QED BY <1>1, <1>2, <1>3, <1>4, <1>5, <1>6, <1>7 DEF Next

LEMMA TypeInit == Init => TypeInv
  BY ChatAssumption, SectionPoints DEF Init, InitPeer, TypeInv, CreatorKnowsHandler,
     SlotKnowsHandler, Active, Handing, TypeOK, NoEntry, Peer, Slot, Id, Fd, ListenFd,
     Creator

\* Every variable keeps its type; in particular the id counter stays an int
\* and no descriptor number is out of range.
THEOREM TypeCorrect == Spec => []TypeOK
<1>1. TypeInv => TypeOK
  BY DEF TypeInv
<1> QED BY <1>1, TypeInit, TypeStep, PTL DEF Spec

-----------------------------------------------------------------------------
(* A handler is created once, for a connection nobody else has: neither the *)
(* two creators at the same time nor one creator twice.                     *)

Unused == {c \in Conn : sock[c] \in {"new", "backlog"}}

FreshInv ==
  /\ \A c \in Unused : hpc[c] = "none"
  /\ \A w \in Creator : pc[w] \in Handing => ctid[w] \notin Unused
  /\ \A w \in Creator : pc[w] \in {"connect", "spawn"} => hpc[ctid[w]] = "none"
  /\ \A v, w \in Creator : v # w /\ pc[v] \in Handing /\ pc[w] \in Handing => ctid[v] # ctid[w]

LEMMA FreshInit == Init => FreshInv
  BY DEF Init, FreshInv, Unused, Creator, Handing

LEMMA FreshStep == TypeInv /\ FreshInv /\ [Next]_vars => FreshInv'
<1> SUFFICES ASSUME TypeInv, FreshInv, [Next]_vars PROVE FreshInv'
  OBVIOUS
<1>0. /\ pc = [w \in Creator |-> pc[w]] /\ hpc = [t \in Conn |-> hpc[t]]
      /\ ctid = [w \in Creator |-> ctid[w]] /\ sock = [c \in Conn |-> sock[c]]
      /\ CreatorKnowsHandler
      /\ "main" \in Creator /\ "listener" \in Creator
  BY DEF TypeInv, TypeOK, Creator
<1> USE DEF FreshInv, Unused, Handing, CreatorKnowsHandler
<1>1. ASSUME NEW w \in Creator, CreatorStep(w) PROVE FreshInv'
  <2>1. CASE Lock(w)
    BY <2>1, FreshInv, <1>0, SectionPoints DEF Lock, Goto, Creator
  <2>2. CASE Spawn(w)
    BY <2>2, FreshInv, <1>0, SectionPoints DEF Spawn, Goto, Creator
  <2>3. CASE SpawnFails(w)
    BY <2>3, FreshInv, <1>0, SectionPoints DEF SpawnFails, Closed, Return, Goto, Creator
  <2>4. CASE Register(w)
    BY <2>4, FreshInv, <1>0, SectionPoints DEF Register, AddPeer, First, Inactive,
       Active, Unlock, Return, Goto, Creator
  <2>5. CASE RegisterFails(w)
    BY <2>5, FreshInv, <1>0, SectionPoints DEF RegisterFails, Unlock, Goto, Creator
  <2>6. CASE RejectClose(w)
    BY <2>6, FreshInv, <1>0, SectionPoints DEF RejectClose, Closed, Goto, Creator
  <2>7. CASE RejectCancel(w)
    BY <2>7, FreshInv, <1>0, SectionPoints DEF RejectCancel, Return, Goto, Creator
  <2>8. CASE FindSlot(w)
    BY <2>8, FreshInv, <1>0, SectionPoints DEF FindSlot, First, Inactive, Goto, Creator
  <2> QED BY <1>1, <2>1, <2>2, <2>3, <2>4, <2>5, <2>6, <2>7, <2>8 DEF CreatorStep
<1>2. ASSUME MainStep PROVE FreshInv'
  <2>1. CASE CreatorStep("main")
    BY <2>1, <1>1 DEF Creator
  <2>2. CASE MyIpDone
    BY <2>2, FreshInv, <1>0, SectionPoints DEF MyIpDone, Closed, Return, Goto, Creator
  <2>3. CASE ConnectOk
    BY <2>3, FreshInv, <1>0, SectionPoints DEF ConnectOk, Goto, Creator
  <2>4. CASE ConnectFails
    BY <2>4, FreshInv, <1>0, SectionPoints DEF ConnectFails, Closed, Return, Goto,
       Creator
  <2>5. CASE ListPeers
    BY <2>5, FreshInv, <1>0, SectionPoints DEF ListPeers, Unlock, Goto, Creator
  <2>6. CASE NotFound
    BY <2>6, FreshInv, <1>0, SectionPoints DEF NotFound, Unlock, Prompt, Goto, Creator
  <2>7. CASE SendMessage
    BY <2>7, FreshInv, <1>0, SectionPoints DEF SendMessage, Unlock, Prompt, Goto,
       Creator
  <2>8. CASE SendRaisesSigpipe
    BY <2>8, FreshInv, <1>0, SectionPoints DEF SendRaisesSigpipe, Creator
  <2>9. CASE TerminateClose
    BY <2>9, FreshInv, <1>0, SectionPoints DEF TerminateClose, HasId, Active, First,
       Closed, Goto, Creator
  <2>10. CASE TerminateCancel
    BY <2>10, FreshInv, <1>0, SectionPoints DEF TerminateCancel, HasId, Active, First,
       Unlock, Prompt, Goto, Creator
  <2>11. CASE StopRunning
    BY <2>11, FreshInv, <1>0, SectionPoints DEF StopRunning, Unlock, Goto, Creator
  <2>12. CASE CloseListener
    BY <2>12, FreshInv, <1>0, SectionPoints DEF CloseListener, Closed, Goto, Creator
  <2>13. CASE JoinListener
    BY <2>13, FreshInv, <1>0, SectionPoints DEF JoinListener, Goto, Creator
  <2>14. CASE SweepPeer
    BY <2>14, FreshInv, <1>0, SectionPoints DEF SweepPeer, Active, First, Closed, Goto,
       Creator
  <2>15. CASE SweepDone
    BY <2>15, FreshInv, <1>0, SectionPoints DEF SweepDone, Unlock, Goto, Creator
  <2>16. CASE DestroyMutex
    BY <2>16, FreshInv, <1>0, SectionPoints DEF DestroyMutex, Goto, Creator
  <2>17. CASE Exit
    BY <2>17, FreshInv, <1>0, SectionPoints DEF Exit, Creator
  <2> QED BY <1>2, <2>1, <2>2, <2>3, <2>4, <2>5, <2>6, <2>7, <2>8, <2>9, <2>10, <2>11,
       <2>12, <2>13, <2>14, <2>15, <2>16, <2>17 DEF MainStep
<1>3. ASSUME UserStep PROVE FreshInv'
  <2>1. CASE Command
    BY <2>1, FreshInv, <1>0, SectionPoints DEF Command, Goto, Creator
  <2>2. CASE MyIp
    BY <2>2, FreshInv, <1>0, SectionPoints DEF MyIp, LowestFree, Goto, Creator
  <2>3. ASSUME NEW c \in Conn, Connect(c) PROVE FreshInv'
    BY <2>3, FreshInv, <1>0, SectionPoints DEF Connect, LowestFree, Goto, Creator
  <2> QED BY <1>3, <2>1, <2>2, <2>3 DEF UserStep
<1>4. ASSUME ListenerStep PROVE FreshInv'
  <2>1. CASE CreatorStep("listener")
    BY <2>1, <1>1 DEF Creator
  <2>2. CASE CheckRunning
    BY <2>2, FreshInv, <1>0, SectionPoints DEF CheckRunning, Unlock, Goto, Creator
  <2>3. CASE AcceptFails
    BY <2>3, FreshInv, <1>0, SectionPoints DEF AcceptFails, Goto, Creator
  <2>4. CASE AcceptWaits
    BY <2>4, FreshInv, <1>0, SectionPoints DEF AcceptWaits, LowestFree, Goto, Creator
  <2>5. ASSUME NEW c \in Conn, Accepted(c) PROVE FreshInv'
    BY <2>5, FreshInv, <1>0, SectionPoints DEF Accepted, Goto, Creator
  <2> QED BY <1>4, <2>1, <2>2, <2>3, <2>4, <2>5 DEF ListenerStep
<1>5. ASSUME NEW t \in Conn, HandlerStep(t) PROVE FreshInv'
  <2>1. CASE Recv(t)
    BY <2>1, FreshInv, <1>0, SectionPoints DEF Recv, HGoto, Creator
  <2>2. CASE RecvEof(t)
    BY <2>2, FreshInv, <1>0, SectionPoints DEF RecvEof, HGoto, Creator
  <2>3. CASE Cancelled(t)
    BY <2>3, FreshInv, <1>0, SectionPoints DEF Cancelled, HGoto, Creator
  <2>4. CASE ScanLock(t)
    BY <2>4, FreshInv, <1>0, SectionPoints DEF ScanLock, HGoto, Creator
  <2>5. CASE Scan(t)
    BY <2>5, FreshInv, <1>0, SectionPoints DEF Scan, OnFd, Active, First, Unlock, HGoto,
       Creator
  <2>6. CASE HandlerClose(t)
    BY <2>6, FreshInv, <1>0, SectionPoints DEF HandlerClose, Closed, HGoto, Creator
  <2>7. CASE Cleanup(t)
    BY <2>7, FreshInv, <1>0, SectionPoints DEF Cleanup, Closed, HGoto, Creator
  <2>8. CASE PopCancelled(t)
    BY <2>8, FreshInv, <1>0, SectionPoints DEF PopCancelled, HGoto, Creator
  <2>9. CASE PrintEnd(t)
    BY <2>9, FreshInv, <1>0, SectionPoints DEF PrintEnd, HGoto, Creator
  <2> QED BY <1>5, <2>1, <2>2, <2>3, <2>4, <2>5, <2>6, <2>7, <2>8, <2>9 DEF HandlerStep
<1>6. ASSUME RemoteStep PROVE FreshInv'
  <2>1. ASSUME NEW c \in Conn, RemoteConnect(c) PROVE FreshInv'
    BY <2>1, FreshInv, <1>0, SectionPoints DEF RemoteConnect, Creator
  <2>2. ASSUME NEW c \in Conn, RemoteClose(c) PROVE FreshInv'
    BY <2>2, FreshInv, <1>0, SectionPoints DEF RemoteClose, Creator
  <2>3. ASSUME NEW c \in Conn, RecvData(c) PROVE FreshInv'
    BY <2>3, FreshInv, <1>0, SectionPoints DEF RecvData, HGoto, Creator
  <2> QED BY <1>6, <2>1, <2>2, <2>3 DEF RemoteStep
<1>7. CASE UNCHANGED vars
  BY <1>7, FreshInv, <1>0, SectionPoints DEF Creator, vars, table, kern, cmds, hnds
<1> QED BY <1>1, <1>2, <1>3, <1>4, <1>5, <1>6, <1>7 DEF Next

-----------------------------------------------------------------------------
(* Mutual exclusion.  It needs the order of the shutdown: when the mutex is *)
(* destroyed the listener has been joined and main is past its last use.    *)

ListenerJoined ==
  pc["main"] \in {"lock_sweep", "sweep", "destroy", "exiting"} => pc["listener"] = "done"

DestroyedLast == mutex = "destroyed" => pc["main"] = "exiting"

MutexInv == MutualExclusion /\ ListenerJoined /\ DestroyedLast

LEMMA MutexStep == TypeInv /\ FreshInv /\ MutexInv /\ [Next]_vars => MutexInv'
<1> SUFFICES ASSUME TypeInv, FreshInv, MutexInv, [Next]_vars PROVE MutexInv'
  OBVIOUS
<1>0. /\ pc = [w \in Creator |-> pc[w]] /\ hpc = [t \in Conn |-> hpc[t]]
      /\ "main" \in Creator /\ "listener" \in Creator
      /\ \A w \in Creator : w \notin {"free", "destroyed"} /\ w \notin Conn
      /\ \A t \in Conn : t \notin {"free", "destroyed"}
      /\ \A w \in Creator : pc[w] = "spawn" => ctid[w] \in Conn /\ hpc[ctid[w]] = "none"
  BY ChatAssumption DEF TypeInv, TypeOK, Creator, FreshInv, CreatorKnowsHandler, Handing
<1> USE DEF MutexInv, MutualExclusion, ListenerJoined, DestroyedLast
<1>1. ASSUME NEW w \in Creator, CreatorStep(w) PROVE MutexInv'
  <2>1. CASE Lock(w)
    BY <2>1, MutexInv, <1>0, SectionPoints DEF Lock, Goto, Creator
  <2>2. CASE Spawn(w)
    BY <2>2, MutexInv, <1>0, SectionPoints DEF Spawn, Goto, Creator
  <2>3. CASE SpawnFails(w)
    BY <2>3, MutexInv, <1>0, SectionPoints DEF SpawnFails, Closed, Return, Goto, Creator
  <2>4. CASE Register(w)
    BY <2>4, MutexInv, <1>0, SectionPoints DEF Register, AddPeer, First, Inactive,
       Active, Unlock, Return, Goto, Creator
  <2>5. CASE RegisterFails(w)
    BY <2>5, MutexInv, <1>0, SectionPoints DEF RegisterFails, Unlock, Goto, Creator
  <2>6. CASE RejectClose(w)
    BY <2>6, MutexInv, <1>0, SectionPoints DEF RejectClose, Closed, Goto, Creator
  <2>7. CASE RejectCancel(w)
    BY <2>7, MutexInv, <1>0, SectionPoints DEF RejectCancel, Return, Goto, Creator
  <2>8. CASE FindSlot(w)
    BY <2>8, MutexInv, <1>0, SectionPoints DEF FindSlot, First, Inactive, Goto, Creator
  <2> QED BY <1>1, <2>1, <2>2, <2>3, <2>4, <2>5, <2>6, <2>7, <2>8 DEF CreatorStep
<1>2. ASSUME MainStep PROVE MutexInv'
  <2>1. CASE CreatorStep("main")
    BY <2>1, <1>1 DEF Creator
  <2>2. CASE MyIpDone
    BY <2>2, MutexInv, <1>0, SectionPoints DEF MyIpDone, Closed, Return, Goto, Creator
  <2>3. CASE ConnectOk
    BY <2>3, MutexInv, <1>0, SectionPoints DEF ConnectOk, Goto, Creator
  <2>4. CASE ConnectFails
    BY <2>4, MutexInv, <1>0, SectionPoints DEF ConnectFails, Closed, Return, Goto,
       Creator
  <2>5. CASE ListPeers
    BY <2>5, MutexInv, <1>0, SectionPoints DEF ListPeers, Unlock, Goto, Creator
  <2>6. CASE NotFound
    BY <2>6, MutexInv, <1>0, SectionPoints DEF NotFound, Unlock, Prompt, Goto, Creator
  <2>7. CASE SendMessage
    BY <2>7, MutexInv, <1>0, SectionPoints DEF SendMessage, Unlock, Prompt, Goto,
       Creator
  <2>8. CASE SendRaisesSigpipe
    BY <2>8, MutexInv, <1>0, SectionPoints DEF SendRaisesSigpipe, Creator
  <2>9. CASE TerminateClose
    BY <2>9, MutexInv, <1>0, SectionPoints DEF TerminateClose, HasId, Active, First,
       Closed, Goto, Creator
  <2>10. CASE TerminateCancel
    BY <2>10, MutexInv, <1>0, SectionPoints DEF TerminateCancel, HasId, Active, First,
       Unlock, Prompt, Goto, Creator
  <2>11. CASE StopRunning
    BY <2>11, MutexInv, <1>0, SectionPoints DEF StopRunning, Unlock, Goto, Creator
  <2>12. CASE CloseListener
    BY <2>12, MutexInv, <1>0, SectionPoints DEF CloseListener, Closed, Goto, Creator
  <2>13. CASE JoinListener
    BY <2>13, MutexInv, <1>0, SectionPoints DEF JoinListener, Goto, Creator
  <2>14. CASE SweepPeer
    BY <2>14, MutexInv, <1>0, SectionPoints DEF SweepPeer, Active, First, Closed, Goto,
       Creator
  <2>15. CASE SweepDone
    BY <2>15, MutexInv, <1>0, SectionPoints DEF SweepDone, Unlock, Goto, Creator
  <2>16. CASE DestroyMutex
    BY <2>16, MutexInv, <1>0, SectionPoints DEF DestroyMutex, Goto, Creator
  <2>17. CASE Exit
    BY <2>17, MutexInv, <1>0, SectionPoints DEF Exit, Creator
  <2> QED BY <1>2, <2>1, <2>2, <2>3, <2>4, <2>5, <2>6, <2>7, <2>8, <2>9, <2>10, <2>11,
       <2>12, <2>13, <2>14, <2>15, <2>16, <2>17 DEF MainStep
<1>3. ASSUME UserStep PROVE MutexInv'
  <2>1. CASE Command
    BY <2>1, MutexInv, <1>0, SectionPoints DEF Command, Goto, Creator
  <2>2. CASE MyIp
    BY <2>2, MutexInv, <1>0, SectionPoints DEF MyIp, LowestFree, Goto, Creator
  <2>3. ASSUME NEW c \in Conn, Connect(c) PROVE MutexInv'
    BY <2>3, MutexInv, <1>0, SectionPoints DEF Connect, LowestFree, Goto, Creator
  <2> QED BY <1>3, <2>1, <2>2, <2>3 DEF UserStep
<1>4. ASSUME ListenerStep PROVE MutexInv'
  <2>1. CASE CreatorStep("listener")
    BY <2>1, <1>1 DEF Creator
  <2>2. CASE CheckRunning
    BY <2>2, MutexInv, <1>0, SectionPoints DEF CheckRunning, Unlock, Goto, Creator
  <2>3. CASE AcceptFails
    BY <2>3, MutexInv, <1>0, SectionPoints DEF AcceptFails, Goto, Creator
  <2>4. CASE AcceptWaits
    BY <2>4, MutexInv, <1>0, SectionPoints DEF AcceptWaits, LowestFree, Goto, Creator
  <2>5. ASSUME NEW c \in Conn, Accepted(c) PROVE MutexInv'
    BY <2>5, MutexInv, <1>0, SectionPoints DEF Accepted, Goto, Creator
  <2> QED BY <1>4, <2>1, <2>2, <2>3, <2>4, <2>5 DEF ListenerStep
<1>5. ASSUME NEW t \in Conn, HandlerStep(t) PROVE MutexInv'
  <2>1. CASE Recv(t)
    BY <2>1, MutexInv, <1>0, SectionPoints DEF Recv, HGoto, Creator
  <2>2. CASE RecvEof(t)
    BY <2>2, MutexInv, <1>0, SectionPoints DEF RecvEof, HGoto, Creator
  <2>3. CASE Cancelled(t)
    BY <2>3, MutexInv, <1>0, SectionPoints DEF Cancelled, HGoto, Creator
  <2>4. CASE ScanLock(t)
    BY <2>4, MutexInv, <1>0, SectionPoints DEF ScanLock, HGoto, Creator
  <2>5. CASE Scan(t)
    BY <2>5, MutexInv, <1>0, SectionPoints DEF Scan, OnFd, Active, First, Unlock, HGoto,
       Creator
  <2>6. CASE HandlerClose(t)
    BY <2>6, MutexInv, <1>0, SectionPoints DEF HandlerClose, Closed, HGoto, Creator
  <2>7. CASE Cleanup(t)
    BY <2>7, MutexInv, <1>0, SectionPoints DEF Cleanup, Closed, HGoto, Creator
  <2>8. CASE PopCancelled(t)
    BY <2>8, MutexInv, <1>0, SectionPoints DEF PopCancelled, HGoto, Creator
  <2>9. CASE PrintEnd(t)
    BY <2>9, MutexInv, <1>0, SectionPoints DEF PrintEnd, HGoto, Creator
  <2> QED BY <1>5, <2>1, <2>2, <2>3, <2>4, <2>5, <2>6, <2>7, <2>8, <2>9 DEF HandlerStep
<1>6. ASSUME RemoteStep PROVE MutexInv'
  <2>1. ASSUME NEW c \in Conn, RemoteConnect(c) PROVE MutexInv'
    BY <2>1, MutexInv, <1>0, SectionPoints DEF RemoteConnect, Creator
  <2>2. ASSUME NEW c \in Conn, RemoteClose(c) PROVE MutexInv'
    BY <2>2, MutexInv, <1>0, SectionPoints DEF RemoteClose, Creator
  <2>3. ASSUME NEW c \in Conn, RecvData(c) PROVE MutexInv'
    BY <2>3, MutexInv, <1>0, SectionPoints DEF RecvData, HGoto, Creator
  <2> QED BY <1>6, <2>1, <2>2, <2>3 DEF RemoteStep
<1>7. CASE UNCHANGED vars
  BY <1>7, MutexInv, <1>0, SectionPoints DEF Creator, vars, table, kern, cmds, hnds
<1> QED BY <1>1, <1>2, <1>3, <1>4, <1>5, <1>6, <1>7 DEF Next

\* No two threads are in critical sections over the table at once, whatever
\* the number of connections, and every way out of one releases the mutex.
THEOREM MutexCorrect == Spec => []MutualExclusion
<1>1. Init => MutexInv
  BY ChatAssumption, SectionPoints DEF Init, MutexInv, MutualExclusion, ListenerJoined,
     DestroyedLast, Creator
<1>2. MutexInv => MutualExclusion
  BY DEF MutexInv
<1> QED BY <1>1, <1>2, TypeInit, TypeStep, FreshInit, FreshStep, MutexStep, PTL DEF Spec

-----------------------------------------------------------------------------
(* What chatapp_add_peer has read stays true until it writes.  Only another *)
(* creator could change that, and it would have to hold the mutex.          *)

ReadInv == \A w \in Creator : pc[w] = "fill" => /\ entry[w].i \notin Active
                                               /\ entry[w].id = next_peer_id

\* Nothing but chatapp_add_peer touches next_peer_id or makes a slot active.
OnlyDrops ==
  /\ UNCHANGED <<next_peer_id, entry>>
  /\ UNCHANGED peers \/ \E s \in Active : peers' = Dropped(s)
  /\ \A w \in Creator : pc'[w] = "fill" => pc[w] = "fill"

LEMMA OthersDrop ==
  TypeInv /\ [Next]_vars
    => OnlyDrops \/ \E w \in Creator : FindSlot(w) \/ Register(w)
<1> SUFFICES ASSUME TypeInv, [Next]_vars, \A w \in Creator : ~FindSlot(w) /\ ~Register(w)
             PROVE  OnlyDrops
  OBVIOUS
<1>0. pc = [w \in Creator |-> pc[w]] /\ "main" \in Creator /\ "listener" \in Creator
  BY DEF TypeInv, TypeOK, Creator
<1>1. ASSUME NEW w \in Creator, CreatorStep(w) PROVE OnlyDrops
  BY <1>1, <1>0, SectionPoints DEF CreatorStep, Lock, Spawn, SpawnFails, RegisterFails,
     RejectClose, RejectCancel, Return, Goto, OnlyDrops
<1>2. ASSUME MainStep PROVE OnlyDrops
  <2>1. CASE CreatorStep("main")
    BY <2>1, <1>0, <1>1
  <2>2. CASE MyIpDone \/ ConnectOk \/ ConnectFails \/ ListPeers \/ NotFound
    BY <2>2, <1>0 DEF MyIpDone, ConnectOk, ConnectFails, ListPeers, NotFound, Return,
       Prompt, Goto, OnlyDrops
  <2>3. CASE SendMessage \/ SendRaisesSigpipe \/ TerminateClose \/ TerminateCancel
    BY <2>3, <1>0 DEF SendMessage, SendRaisesSigpipe, TerminateClose, TerminateCancel,
       HasId, Prompt, Goto, OnlyDrops
  <2>4. CASE StopRunning \/ CloseListener \/ JoinListener \/ SweepPeer
    BY <2>4, <1>0 DEF StopRunning, CloseListener, JoinListener, SweepPeer, Goto, OnlyDrops
  <2>5. CASE SweepDone \/ DestroyMutex \/ Exit
    BY <2>5, <1>0 DEF SweepDone, DestroyMutex, Exit, Goto, OnlyDrops
  <2> QED BY <1>2, <2>1, <2>2, <2>3, <2>4, <2>5 DEF MainStep
<1>3. ASSUME UserStep PROVE OnlyDrops
  BY <1>3, <1>0 DEF UserStep, Command, MyIp, Connect, Goto, OnlyDrops
<1>4. ASSUME ListenerStep PROVE OnlyDrops
  BY <1>4, <1>0, <1>1 DEF ListenerStep, CheckRunning, AcceptFails, AcceptWaits, Accepted,
     Goto, OnlyDrops
<1>5. ASSUME NEW t \in Conn, HandlerStep(t) PROVE OnlyDrops
  BY <1>5 DEF HandlerStep, Recv, RecvEof, PrintEnd, Cancelled, ScanLock, Scan, OnFd,
     HandlerClose, Cleanup, PopCancelled, OnlyDrops
<1>6. ASSUME RemoteStep PROVE OnlyDrops
  BY <1>6 DEF RemoteStep, RemoteConnect, RemoteClose, RecvData, OnlyDrops
<1>7. CASE UNCHANGED vars
  BY <1>7 DEF vars, OnlyDrops
<1> QED BY <1>1, <1>2, <1>3, <1>4, <1>5, <1>6, <1>7 DEF Next

LEMMA ReadStep == TypeInv /\ MutexInv /\ ReadInv /\ [Next]_vars => ReadInv'
<1> SUFFICES ASSUME TypeInv, MutexInv, ReadInv, [Next]_vars PROVE ReadInv'
  OBVIOUS
<1>0. /\ pc = [w \in Creator |-> pc[w]] /\ entry = [w \in Creator |-> entry[w]]
      /\ peers \in [Slot -> Peer]
  BY DEF TypeInv, TypeOK
<1>1. CASE OnlyDrops
  <2>1. Active' \subseteq Active
    BY <1>0, <1>1, Dropping DEF OnlyDrops, Active
  <2> QED BY <2>1, <1>1 DEF OnlyDrops, ReadInv
<1>2. ASSUME NEW w \in Creator, FindSlot(w) PROVE ReadInv'
  <2>1. PICK s \in Slot : /\ s \notin Active
                         /\ entry' = [entry EXCEPT ![w] = [i |-> s, id |-> next_peer_id]]
    BY <1>2 DEF FindSlot, First, Inactive
  <2>2. Active' = Active /\ next_peer_id' = next_peer_id /\ pc' = [pc EXCEPT ![w] = "fill"]
    BY <1>2 DEF FindSlot, Goto, Active
  <2> QED BY <2>1, <2>2, <1>0 DEF ReadInv
<1>3. ASSUME NEW w \in Creator, Register(w) PROVE ReadInv'
  <2>1. \A v \in Creator : pc[v] = "fill" => mutex = v
    BY SectionPoints DEF MutexInv, MutualExclusion
  <2>2. \A v \in Creator : v # w => pc[v] # "fill"
    BY <2>1, <1>3 DEF Register
  <2>3. \A v \in Creator : pc'[v] # "fill"
    BY <2>2, <1>3, <1>0 DEF Register, Return, Goto
  <2> QED BY <2>3 DEF ReadInv
<1> QED BY <1>1, <1>2, <1>3, OthersDrop

LEMMA ReadAlways == Spec => []ReadInv
<1>1. Init => MutexInv /\ ReadInv
  BY ChatAssumption, SectionPoints DEF Init, MutexInv, MutualExclusion, ListenerJoined,
     DestroyedLast, ReadInv, Creator
<1> QED BY <1>1, TypeInit, TypeStep, FreshInit, FreshStep, MutexStep, ReadStep, PTL DEF Spec

-----------------------------------------------------------------------------
(* No descriptor leaks.  NoDescriptorLeak is inductive given that a handler  *)
(* is created once.                                                          *)

LEMMA LeakStep ==
  TypeInv /\ FreshInv /\ NoDescriptorLeak /\ [Next]_vars => NoDescriptorLeak'
<1> SUFFICES ASSUME TypeInv, FreshInv, NoDescriptorLeak, [Next]_vars PROVE NoDescriptorLeak'
  OBVIOUS
<1>0. /\ pc = [w \in Creator |-> pc[w]] /\ hpc = [t \in Conn |-> hpc[t]]
      /\ cfd = [w \in Creator |-> cfd[w]] /\ ctid = [w \in Creator |-> ctid[w]]
      /\ hfd = [t \in Conn |-> hfd[t]] /\ fdt = [f \in Fd |-> fdt[f]]
      /\ "main" \in Creator /\ "listener" \in Creator
      /\ \A t \in Conn : t \notin {"free", "listener", "reserved", "tmp"}
      /\ \A w \in Creator : cfd[w] \in Fd
      /\ \A w \in Creator : pc[w] = "spawn" => ctid[w] \in Conn /\ hpc[ctid[w]] = "none"
  BY ChatAssumption DEF TypeInv, TypeOK, Creator, FreshInv, CreatorKnowsHandler, Handing
<1>1. ASSUME NEW w \in Creator, CreatorStep(w) PROVE NoDescriptorLeak'
  <2>1. CASE Lock(w)
    BY <2>1, NoDescriptorLeak, <1>0, SectionPoints DEF Lock, Goto, NoDescriptorLeak,
       HandlerCloses, CreatorCloses, Creator
  <2>2. CASE Spawn(w)
    BY <2>2, NoDescriptorLeak, <1>0, SectionPoints DEF Spawn, Goto, NoDescriptorLeak,
       HandlerCloses, CreatorCloses, Creator
  <2>3. CASE SpawnFails(w)
    <3> USE <2>3, <1>0 DEF SpawnFails, Closed, Return, Goto
    <3>1. ASSUME NEW f \in Fd, NEW x \in Conn, fdt'[f] = x
          PROVE  (HandlerCloses(f, x) \/ CreatorCloses(f, x))'
      <4>1. CASE fdt[f] = x /\ HandlerCloses(f, x)
        BY <3>1, <4>1 DEF HandlerCloses
      <4>2. CASE fdt[f] = x /\ CreatorCloses(f, x)
        <5>1. PICK v \in Creator : ctid[v] = x /\ cfd[v] = f /\ pc[v] \in {"connect", "spawn"}
          BY <4>2 DEF CreatorCloses
        <5>2. v # w
          BY <3>1, <5>1, <4>2
        <5> QED BY <5>1, <5>2 DEF CreatorCloses
      <4> QED BY <3>1, <4>1, <4>2, NoDescriptorLeak DEF NoDescriptorLeak
    <3>2. ASSUME NEW f \in Fd
          PROVE  /\ fdt'[f] = "tmp" => pc'["main"] = "myip" /\ cfd'["main"] = f
                 /\ fdt'[f] = "reserved" => pc'["listener"] = "accepting" /\ cfd'["listener"] = f
      <4>1. /\ fdt[f] = "tmp" => pc["main"] = "myip" /\ cfd["main"] = f
            /\ fdt[f] = "reserved" => pc["listener"] = "accepting" /\ cfd["listener"] = f
        BY NoDescriptorLeak DEF NoDescriptorLeak
      <4> QED BY <4>1 DEF Creator
    <3> QED BY <3>1, <3>2 DEF NoDescriptorLeak
  <2>4. CASE Register(w)
    <3> USE <2>4, <1>0 DEF Register, AddPeer, First, Inactive, Active, Unlock, Return, Goto
    <3>1. ASSUME NEW f \in Fd, NEW x \in Conn, fdt'[f] = x
          PROVE  (HandlerCloses(f, x) \/ CreatorCloses(f, x))'
      <4>1. CASE fdt[f] = x /\ HandlerCloses(f, x)
        BY <3>1, <4>1 DEF HandlerCloses
      <4>2. CASE fdt[f] = x /\ CreatorCloses(f, x)
        <5>1. PICK v \in Creator : ctid[v] = x /\ cfd[v] = f /\ pc[v] \in {"connect", "spawn"}
          BY <4>2 DEF CreatorCloses
        <5>2. v # w
          BY <3>1, <5>1, <4>2
        <5> QED BY <5>1, <5>2 DEF CreatorCloses
      <4> QED BY <3>1, <4>1, <4>2, NoDescriptorLeak DEF NoDescriptorLeak
    <3>2. ASSUME NEW f \in Fd
          PROVE  /\ fdt'[f] = "tmp" => pc'["main"] = "myip" /\ cfd'["main"] = f
                 /\ fdt'[f] = "reserved" => pc'["listener"] = "accepting" /\ cfd'["listener"] = f
      <4>1. /\ fdt[f] = "tmp" => pc["main"] = "myip" /\ cfd["main"] = f
            /\ fdt[f] = "reserved" => pc["listener"] = "accepting" /\ cfd["listener"] = f
        BY NoDescriptorLeak DEF NoDescriptorLeak
      <4> QED BY <4>1 DEF Creator
    <3> QED BY <3>1, <3>2 DEF NoDescriptorLeak
  <2>5. CASE RegisterFails(w)
    BY <2>5, NoDescriptorLeak, <1>0, SectionPoints DEF RegisterFails, Unlock, Goto,
       NoDescriptorLeak, HandlerCloses, CreatorCloses, Creator
  <2>6. CASE RejectClose(w)
    BY <2>6, NoDescriptorLeak, <1>0, SectionPoints DEF RejectClose, Closed, Goto,
       NoDescriptorLeak, HandlerCloses, CreatorCloses, Creator
  <2>7. CASE RejectCancel(w)
    <3> USE <2>7, <1>0 DEF RejectCancel, Return, Goto
    <3>1. ASSUME NEW f \in Fd, NEW x \in Conn, fdt'[f] = x
          PROVE  (HandlerCloses(f, x) \/ CreatorCloses(f, x))'
      <4>1. CASE fdt[f] = x /\ HandlerCloses(f, x)
        BY <3>1, <4>1 DEF HandlerCloses
      <4>2. CASE fdt[f] = x /\ CreatorCloses(f, x)
        <5>1. PICK v \in Creator : ctid[v] = x /\ cfd[v] = f /\ pc[v] \in {"connect", "spawn"}
          BY <4>2 DEF CreatorCloses
        <5>2. v # w
          BY <3>1, <5>1, <4>2
        <5> QED BY <5>1, <5>2 DEF CreatorCloses
      <4> QED BY <3>1, <4>1, <4>2, NoDescriptorLeak DEF NoDescriptorLeak
    <3>2. ASSUME NEW f \in Fd
          PROVE  /\ fdt'[f] = "tmp" => pc'["main"] = "myip" /\ cfd'["main"] = f
                 /\ fdt'[f] = "reserved" => pc'["listener"] = "accepting" /\ cfd'["listener"] = f
      <4>1. /\ fdt[f] = "tmp" => pc["main"] = "myip" /\ cfd["main"] = f
            /\ fdt[f] = "reserved" => pc["listener"] = "accepting" /\ cfd["listener"] = f
        BY NoDescriptorLeak DEF NoDescriptorLeak
      <4> QED BY <4>1 DEF Creator
    <3> QED BY <3>1, <3>2 DEF NoDescriptorLeak
  <2>8. CASE FindSlot(w)
    BY <2>8, NoDescriptorLeak, <1>0, SectionPoints DEF FindSlot, First, Inactive, Goto,
       NoDescriptorLeak, HandlerCloses, CreatorCloses, Creator
  <2> QED BY <1>1, <2>1, <2>2, <2>3, <2>4, <2>5, <2>6, <2>7, <2>8 DEF CreatorStep
<1>2. ASSUME MainStep PROVE NoDescriptorLeak'
  <2>1. CASE CreatorStep("main")
    BY <2>1, <1>1 DEF Creator
  <2>2. CASE MyIpDone
    <3> USE <2>2, <1>0 DEF MyIpDone, Closed, Return, Goto
    <3>1. ASSUME NEW f \in Fd, NEW x \in Conn, fdt'[f] = x
          PROVE  (HandlerCloses(f, x) \/ CreatorCloses(f, x))'
      <4>1. CASE fdt[f] = x /\ HandlerCloses(f, x)
        BY <3>1, <4>1 DEF HandlerCloses
      <4>2. CASE fdt[f] = x /\ CreatorCloses(f, x)
        <5>1. PICK v \in Creator : ctid[v] = x /\ cfd[v] = f /\ pc[v] \in {"connect", "spawn"}
          BY <4>2 DEF CreatorCloses
        <5>2. v # "main"
          BY <3>1, <5>1, <4>2
        <5> QED BY <5>1, <5>2 DEF CreatorCloses
      <4> QED BY <3>1, <4>1, <4>2, NoDescriptorLeak DEF NoDescriptorLeak
    <3>2. ASSUME NEW f \in Fd
          PROVE  /\ fdt'[f] = "tmp" => pc'["main"] = "myip" /\ cfd'["main"] = f
                 /\ fdt'[f] = "reserved" => pc'["listener"] = "accepting" /\ cfd'["listener"] = f
      <4>1. /\ fdt[f] = "tmp" => pc["main"] = "myip" /\ cfd["main"] = f
            /\ fdt[f] = "reserved" => pc["listener"] = "accepting" /\ cfd["listener"] = f
        BY NoDescriptorLeak DEF NoDescriptorLeak
      <4> QED BY <4>1 DEF Creator
    <3> QED BY <3>1, <3>2 DEF NoDescriptorLeak
  <2>3. CASE ConnectOk
    BY <2>3, NoDescriptorLeak, <1>0, SectionPoints DEF ConnectOk, Goto,
       NoDescriptorLeak, HandlerCloses, CreatorCloses, Creator
  <2>4. CASE ConnectFails
    <3> USE <2>4, <1>0 DEF ConnectFails, Closed, Return, Goto
    <3>1. ASSUME NEW f \in Fd, NEW x \in Conn, fdt'[f] = x
          PROVE  (HandlerCloses(f, x) \/ CreatorCloses(f, x))'
      <4>1. CASE fdt[f] = x /\ HandlerCloses(f, x)
        BY <3>1, <4>1 DEF HandlerCloses
      <4>2. CASE fdt[f] = x /\ CreatorCloses(f, x)
        <5>1. PICK v \in Creator : ctid[v] = x /\ cfd[v] = f /\ pc[v] \in {"connect", "spawn"}
          BY <4>2 DEF CreatorCloses
        <5>2. v # "main"
          BY <3>1, <5>1, <4>2
        <5> QED BY <5>1, <5>2 DEF CreatorCloses
      <4> QED BY <3>1, <4>1, <4>2, NoDescriptorLeak DEF NoDescriptorLeak
    <3>2. ASSUME NEW f \in Fd
          PROVE  /\ fdt'[f] = "tmp" => pc'["main"] = "myip" /\ cfd'["main"] = f
                 /\ fdt'[f] = "reserved" => pc'["listener"] = "accepting" /\ cfd'["listener"] = f
      <4>1. /\ fdt[f] = "tmp" => pc["main"] = "myip" /\ cfd["main"] = f
            /\ fdt[f] = "reserved" => pc["listener"] = "accepting" /\ cfd["listener"] = f
        BY NoDescriptorLeak DEF NoDescriptorLeak
      <4> QED BY <4>1 DEF Creator
    <3> QED BY <3>1, <3>2 DEF NoDescriptorLeak
  <2>5. CASE ListPeers
    BY <2>5, NoDescriptorLeak, <1>0, SectionPoints DEF ListPeers, Unlock, Goto,
       NoDescriptorLeak, HandlerCloses, CreatorCloses, Creator
  <2>6. CASE NotFound
    BY <2>6, NoDescriptorLeak, <1>0, SectionPoints DEF NotFound, Unlock, Prompt, Goto,
       NoDescriptorLeak, HandlerCloses, CreatorCloses, Creator
  <2>7. CASE SendMessage
    BY <2>7, NoDescriptorLeak, <1>0, SectionPoints DEF SendMessage, Unlock, Prompt,
       Goto, NoDescriptorLeak, HandlerCloses, CreatorCloses, Creator
  <2>8. CASE SendRaisesSigpipe
    BY <2>8, NoDescriptorLeak, <1>0, SectionPoints DEF SendRaisesSigpipe,
       NoDescriptorLeak, HandlerCloses, CreatorCloses, Creator
  <2>9. CASE TerminateClose
    BY <2>9, NoDescriptorLeak, <1>0, SectionPoints DEF TerminateClose, HasId, Active,
       First, Closed, Goto, NoDescriptorLeak, HandlerCloses, CreatorCloses, Creator
  <2>10. CASE TerminateCancel
    BY <2>10, NoDescriptorLeak, <1>0, SectionPoints DEF TerminateCancel, HasId, Active,
       First, Unlock, Prompt, Goto, NoDescriptorLeak, HandlerCloses, CreatorCloses,
       Creator
  <2>11. CASE StopRunning
    BY <2>11, NoDescriptorLeak, <1>0, SectionPoints DEF StopRunning, Unlock, Goto,
       NoDescriptorLeak, HandlerCloses, CreatorCloses, Creator
  <2>12. CASE CloseListener
    BY <2>12, NoDescriptorLeak, <1>0, SectionPoints DEF CloseListener, Closed, Goto,
       NoDescriptorLeak, HandlerCloses, CreatorCloses, Creator
  <2>13. CASE JoinListener
    BY <2>13, NoDescriptorLeak, <1>0, SectionPoints DEF JoinListener, Goto,
       NoDescriptorLeak, HandlerCloses, CreatorCloses, Creator
  <2>14. CASE SweepPeer
    BY <2>14, NoDescriptorLeak, <1>0, SectionPoints DEF SweepPeer, Active, First,
       Closed, Goto, NoDescriptorLeak, HandlerCloses, CreatorCloses, Creator
  <2>15. CASE SweepDone
    BY <2>15, NoDescriptorLeak, <1>0, SectionPoints DEF SweepDone, Unlock, Goto,
       NoDescriptorLeak, HandlerCloses, CreatorCloses, Creator
  <2>16. CASE DestroyMutex
    BY <2>16, NoDescriptorLeak, <1>0, SectionPoints DEF DestroyMutex, Goto,
       NoDescriptorLeak, HandlerCloses, CreatorCloses, Creator
  <2>17. CASE Exit
    BY <2>17, NoDescriptorLeak, <1>0, SectionPoints DEF Exit, NoDescriptorLeak,
       HandlerCloses, CreatorCloses, Creator
  <2> QED BY <1>2, <2>1, <2>2, <2>3, <2>4, <2>5, <2>6, <2>7, <2>8, <2>9, <2>10, <2>11,
       <2>12, <2>13, <2>14, <2>15, <2>16, <2>17 DEF MainStep
<1>3. ASSUME UserStep PROVE NoDescriptorLeak'
  <2>1. CASE Command
    BY <2>1, NoDescriptorLeak, <1>0, SectionPoints DEF Command, Goto, NoDescriptorLeak,
       HandlerCloses, CreatorCloses, Creator
  <2>2. CASE MyIp
    <3> USE <2>2, <1>0 DEF MyIp, LowestFree, Goto
    <3>1. ASSUME NEW f \in Fd, NEW x \in Conn, fdt'[f] = x
          PROVE  (HandlerCloses(f, x) \/ CreatorCloses(f, x))'
      <4>1. CASE fdt[f] = x /\ HandlerCloses(f, x)
        BY <3>1, <4>1 DEF HandlerCloses
      <4>2. CASE fdt[f] = x /\ CreatorCloses(f, x)
        <5>1. PICK v \in Creator : ctid[v] = x /\ cfd[v] = f /\ pc[v] \in {"connect", "spawn"}
          BY <4>2 DEF CreatorCloses
        <5>2. v # "main"
          BY <3>1, <5>1, <4>2
        <5> QED BY <5>1, <5>2 DEF CreatorCloses
      <4> QED BY <3>1, <4>1, <4>2, NoDescriptorLeak DEF NoDescriptorLeak
    <3>2. ASSUME NEW f \in Fd
          PROVE  /\ fdt'[f] = "tmp" => pc'["main"] = "myip" /\ cfd'["main"] = f
                 /\ fdt'[f] = "reserved" => pc'["listener"] = "accepting" /\ cfd'["listener"] = f
      <4>1. /\ fdt[f] = "tmp" => pc["main"] = "myip" /\ cfd["main"] = f
            /\ fdt[f] = "reserved" => pc["listener"] = "accepting" /\ cfd["listener"] = f
        BY NoDescriptorLeak DEF NoDescriptorLeak
      <4> QED BY <4>1 DEF Creator
    <3> QED BY <3>1, <3>2 DEF NoDescriptorLeak
  <2>3. ASSUME NEW c \in Conn, Connect(c) PROVE NoDescriptorLeak'
    <3> USE <2>3, <1>0 DEF Connect, LowestFree, Goto
    <3>1. ASSUME NEW f \in Fd, NEW x \in Conn, fdt'[f] = x
          PROVE  (HandlerCloses(f, x) \/ CreatorCloses(f, x))'
      <4>1. CASE fdt[f] = x /\ HandlerCloses(f, x)
        BY <3>1, <4>1 DEF HandlerCloses
      <4>2. CASE fdt[f] = x /\ CreatorCloses(f, x)
        <5>1. PICK v \in Creator : ctid[v] = x /\ cfd[v] = f /\ pc[v] \in {"connect", "spawn"}
          BY <4>2 DEF CreatorCloses
        <5>2. v # "main"
          BY <3>1, <5>1, <4>2
        <5> QED BY <5>1, <5>2 DEF CreatorCloses
      <4>3. CASE fdt[f] # x
        BY <3>1, <4>3 DEF CreatorCloses
      <4> QED BY <3>1, <4>1, <4>2, <4>3, NoDescriptorLeak DEF NoDescriptorLeak
    <3>2. ASSUME NEW f \in Fd
          PROVE  /\ fdt'[f] = "tmp" => pc'["main"] = "myip" /\ cfd'["main"] = f
                 /\ fdt'[f] = "reserved" => pc'["listener"] = "accepting" /\ cfd'["listener"] = f
      <4>1. fdt'[f] \in {"tmp", "reserved"} => fdt'[f] = fdt[f]
        OBVIOUS
      <4> QED BY <4>1, NoDescriptorLeak DEF NoDescriptorLeak, Creator
    <3> QED BY <3>1, <3>2 DEF NoDescriptorLeak
  <2> QED BY <1>3, <2>1, <2>2, <2>3 DEF UserStep
<1>4. ASSUME ListenerStep PROVE NoDescriptorLeak'
  <2>1. CASE CreatorStep("listener")
    BY <2>1, <1>1 DEF Creator
  <2>2. CASE CheckRunning
    BY <2>2, NoDescriptorLeak, <1>0, SectionPoints DEF CheckRunning, Unlock, Goto,
       NoDescriptorLeak, HandlerCloses, CreatorCloses, Creator
  <2>3. CASE AcceptFails
    BY <2>3, NoDescriptorLeak, <1>0, SectionPoints DEF AcceptFails, Goto,
       NoDescriptorLeak, HandlerCloses, CreatorCloses, Creator
  <2>4. CASE AcceptWaits
    <3> USE <2>4, <1>0 DEF AcceptWaits, LowestFree, Goto
    <3>1. ASSUME NEW f \in Fd, NEW x \in Conn, fdt'[f] = x
          PROVE  (HandlerCloses(f, x) \/ CreatorCloses(f, x))'
      <4>1. CASE fdt[f] = x /\ HandlerCloses(f, x)
        BY <3>1, <4>1 DEF HandlerCloses
      <4>2. CASE fdt[f] = x /\ CreatorCloses(f, x)
        <5>1. PICK v \in Creator : ctid[v] = x /\ cfd[v] = f /\ pc[v] \in {"connect", "spawn"}
          BY <4>2 DEF CreatorCloses
        <5>2. v # "listener"
          BY <3>1, <5>1, <4>2
        <5> QED BY <5>1, <5>2 DEF CreatorCloses
      <4> QED BY <3>1, <4>1, <4>2, NoDescriptorLeak DEF NoDescriptorLeak
    <3>2. ASSUME NEW f \in Fd
          PROVE  /\ fdt'[f] = "tmp" => pc'["main"] = "myip" /\ cfd'["main"] = f
                 /\ fdt'[f] = "reserved" => pc'["listener"] = "accepting" /\ cfd'["listener"] = f
      <4>1. /\ fdt[f] = "tmp" => pc["main"] = "myip" /\ cfd["main"] = f
            /\ fdt[f] = "reserved" => pc["listener"] = "accepting" /\ cfd["listener"] = f
        BY NoDescriptorLeak DEF NoDescriptorLeak
      <4> QED BY <4>1 DEF Creator
    <3> QED BY <3>1, <3>2 DEF NoDescriptorLeak
  <2>5. ASSUME NEW c \in Conn, Accepted(c) PROVE NoDescriptorLeak'
    BY <2>5, NoDescriptorLeak, <1>0, SectionPoints DEF Accepted, Goto, NoDescriptorLeak,
       HandlerCloses, CreatorCloses, Creator
  <2> QED BY <1>4, <2>1, <2>2, <2>3, <2>4, <2>5 DEF ListenerStep
<1>5. ASSUME NEW t \in Conn, HandlerStep(t) PROVE NoDescriptorLeak'
  <2>1. CASE Recv(t)
    BY <2>1, NoDescriptorLeak, <1>0, SectionPoints DEF Recv, HGoto, NoDescriptorLeak,
       HandlerCloses, CreatorCloses, Creator
  <2>2. CASE RecvEof(t)
    BY <2>2, NoDescriptorLeak, <1>0, SectionPoints DEF RecvEof, HGoto, NoDescriptorLeak,
       HandlerCloses, CreatorCloses, Creator
  <2>3. CASE Cancelled(t)
    BY <2>3, NoDescriptorLeak, <1>0, SectionPoints DEF Cancelled, HGoto,
       NoDescriptorLeak, HandlerCloses, CreatorCloses, Creator
  <2>4. CASE ScanLock(t)
    BY <2>4, NoDescriptorLeak, <1>0, SectionPoints DEF ScanLock, HGoto,
       NoDescriptorLeak, HandlerCloses, CreatorCloses, Creator
  <2>5. CASE Scan(t)
    BY <2>5, NoDescriptorLeak, <1>0, SectionPoints DEF Scan, OnFd, Active, First,
       Unlock, HGoto, NoDescriptorLeak, HandlerCloses, CreatorCloses, Creator
  <2>6. CASE HandlerClose(t)
    BY <2>6, NoDescriptorLeak, <1>0, SectionPoints DEF HandlerClose, Closed, HGoto,
       NoDescriptorLeak, HandlerCloses, CreatorCloses, Creator
  <2>7. CASE Cleanup(t)
    BY <2>7, NoDescriptorLeak, <1>0, SectionPoints DEF Cleanup, Closed, HGoto,
       NoDescriptorLeak, HandlerCloses, CreatorCloses, Creator
  <2>8. CASE PopCancelled(t)
    BY <2>8, NoDescriptorLeak, <1>0, SectionPoints DEF PopCancelled, HGoto,
       NoDescriptorLeak, HandlerCloses, CreatorCloses, Creator
  <2>9. CASE PrintEnd(t)
    BY <2>9, NoDescriptorLeak, <1>0, SectionPoints DEF PrintEnd, HGoto, NoDescriptorLeak,
       HandlerCloses, CreatorCloses, Creator
  <2> QED BY <1>5, <2>1, <2>2, <2>3, <2>4, <2>5, <2>6, <2>7, <2>8, <2>9 DEF HandlerStep
<1>6. ASSUME RemoteStep PROVE NoDescriptorLeak'
  <2>1. ASSUME NEW c \in Conn, RemoteConnect(c) PROVE NoDescriptorLeak'
    BY <2>1, NoDescriptorLeak, <1>0, SectionPoints DEF RemoteConnect, NoDescriptorLeak,
       HandlerCloses, CreatorCloses, Creator
  <2>2. ASSUME NEW c \in Conn, RemoteClose(c) PROVE NoDescriptorLeak'
    BY <2>2, NoDescriptorLeak, <1>0, SectionPoints DEF RemoteClose, NoDescriptorLeak,
       HandlerCloses, CreatorCloses, Creator
  <2>3. ASSUME NEW c \in Conn, RecvData(c) PROVE NoDescriptorLeak'
    BY <2>3, NoDescriptorLeak, <1>0, SectionPoints DEF RecvData, HGoto,
       NoDescriptorLeak, HandlerCloses, CreatorCloses, Creator
  <2> QED BY <1>6, <2>1, <2>2, <2>3 DEF RemoteStep
<1>7. CASE UNCHANGED vars
  BY <1>7, NoDescriptorLeak, <1>0, SectionPoints DEF NoDescriptorLeak, HandlerCloses,
     CreatorCloses, Creator, vars, table, kern, cmds, hnds
<1> QED BY <1>1, <1>2, <1>3, <1>4, <1>5, <1>6, <1>7 DEF Next

\* Every open descriptor still has a thread that will close it, on every error
\* path and under every cancellation.
THEOREM LeakFree == Spec => []NoDescriptorLeak
<1>1. Init => NoDescriptorLeak
  BY ChatAssumption DEF Init, NoDescriptorLeak
<1> QED BY <1>1, TypeInit, TypeStep, FreshInit, FreshStep, LeakStep, PTL DEF Spec

-----------------------------------------------------------------------------
(* The table.  That a slot and its handler agree, and that a cancelled       *)
(* handler is not listed, holds because a creator's handler is in no slot    *)
(* and not cancelled until the creator registers or rejects it.              *)

CreatorMatchesHandler ==
  \A w \in Creator : pc[w] \in {"lock_add", "add", "fill", "full", "reject"}
    => hpc[ctid[w]] # "none" /\ hfd[ctid[w]] = cfd[w]

CreatorHandlerIsNew ==
  \A w \in Creator : pc[w] \in Handing
    => ctid[w] \notin cancel /\ \A s \in Active : peers[s].thread_id # ctid[w]

CancelledExist == \A t \in cancel : hpc[t] # "none"

TableInv == /\ IdNamesOneConnection /\ CancelledNotListed
            /\ CreatorMatchesHandler /\ CreatorHandlerIsNew /\ CancelledExist

LEMMA TableStep == TypeInv /\ FreshInv /\ ReadInv /\ TableInv /\ [Next]_vars => TableInv'
<1> SUFFICES ASSUME TypeInv, FreshInv, ReadInv, TableInv, [Next]_vars PROVE TableInv'
  OBVIOUS
<1>0. /\ pc = [w \in Creator |-> pc[w]] /\ hpc = [t \in Conn |-> hpc[t]]
      /\ cfd = [w \in Creator |-> cfd[w]] /\ ctid = [w \in Creator |-> ctid[w]]
      /\ hfd = [t \in Conn |-> hfd[t]]
      /\ "main" \in Creator /\ "listener" \in Creator /\ cancel \subseteq Conn
      /\ CreatorKnowsHandler /\ SlotKnowsHandler
  BY DEF TypeInv, TypeOK, Creator
<1> USE DEF CreatorKnowsHandler, SlotKnowsHandler, Handing
<1>1. ASSUME NEW w \in Creator, CreatorStep(w) PROVE TableInv'
  <2>1. CASE Lock(w)
    BY <2>1, TableInv, <1>0, SectionPoints DEF Lock, Goto, TableInv,
       IdNamesOneConnection, CancelledNotListed, CreatorMatchesHandler,
       CreatorHandlerIsNew, CancelledExist, Active, Creator
  <2>2. CASE Spawn(w)
    <3>1. /\ ctid[w] \in Conn /\ hpc[ctid[w]] = "none"
          /\ \A v \in Creator : v # w /\ pc[v] \in Handing => ctid[v] # ctid[w]
          /\ \A s \in Active : peers[s].thread_id # ctid[w]
      BY <2>2, FreshInv, TableInv, <1>0 DEF Spawn, FreshInv, TableInv,
         CreatorHandlerIsNew
    <3>2. Active' = Active
      BY <2>2 DEF Spawn, Active
    <3>3. IdNamesOneConnection' /\ CancelledNotListed' /\ CancelledExist'
      BY <3>1, <3>2, <2>2, TableInv, <1>0 DEF Spawn, TableInv, IdNamesOneConnection,
         CancelledNotListed, CancelledExist
    <3>4. CreatorMatchesHandler' /\ CreatorHandlerIsNew'
      BY <3>1, <3>2, <2>2, TableInv, <1>0 DEF Spawn, Goto, TableInv,
         CreatorMatchesHandler, CreatorHandlerIsNew
    <3> QED BY <3>3, <3>4 DEF TableInv
  <2>3. CASE SpawnFails(w)
    BY <2>3, TableInv, <1>0, SectionPoints DEF SpawnFails, Closed, Return, Goto,
       TableInv, IdNamesOneConnection, CancelledNotListed, CreatorMatchesHandler,
       CreatorHandlerIsNew, CancelledExist, Active, Creator
  <2>4. CASE Register(w)
    <3>1. PICK s \in Slot : /\ s \notin Active
                           /\ peers' = [peers EXCEPT ![s] =
                                [id |-> next_peer_id, sockfd |-> cfd[w],
                                 thread_id |-> ctid[w], active |-> TRUE]]
      BY <2>4, TypeInv, ReadInv DEF Register, AddPeer, ReadInv, TypeInv, TypeOK
    <3>2. /\ Active' = Active \cup {s}
          /\ \A r \in Active : r # s /\ peers'[r] = peers[r]
          /\ peers'[s] = [id |-> next_peer_id, sockfd |-> cfd[w],
                          thread_id |-> ctid[w], active |-> TRUE]
      BY <3>1, TypeInv DEF TypeInv, TypeOK, Active
    <3>3. /\ ctid[w] \in Conn /\ ctid[w] \notin cancel
          /\ hpc[ctid[w]] # "none" /\ hfd[ctid[w]] = cfd[w]
          /\ \A v \in Creator : v # w /\ pc[v] \in Handing => ctid[v] # ctid[w]
          /\ \A r \in Active : peers[r].thread_id # ctid[w]
      BY <2>4, FreshInv, TableInv, <1>0 DEF Register, FreshInv, TableInv,
         CreatorHandlerIsNew, CreatorMatchesHandler
    <3>4. next_peer_id \in Nat \ {0} /\ next_peer_id' = next_peer_id + 1
      BY <2>4, TypeInv, ReadInv, ChatAssumption DEF Register, AddPeer, ReadInv, TypeInv,
         TypeOK, Id
    <3>5. IdNamesOneConnection'
      <4>1. hfd' = hfd /\ hpc' = hpc
        BY <2>4 DEF Register
      <4>2. \A r \in Active : /\ peers'[r].id \in 1 .. next_peer_id' - 1
                              /\ peers'[r].id # peers'[s].id
        BY <3>2, <3>4, TableInv DEF TableInv, IdNamesOneConnection
      <4>3. peers'[s].id \in 1 .. next_peer_id' - 1
        BY <3>2, <3>4
      <4>4. IdNamesOneConnection
        BY TableInv DEF TableInv
      <4> HIDE DEF Active
      <4> QED BY <3>2, <3>3, <4>1, <4>2, <4>3, <4>4 DEF IdNamesOneConnection
    <3>6. CancelledNotListed' /\ CancelledExist'
      BY <3>2, <3>3, <2>4, TableInv DEF Register, TableInv, CancelledNotListed,
         CancelledExist
    <3>7. CreatorMatchesHandler' /\ CreatorHandlerIsNew'
      <4>1. /\ UNCHANGED <<hpc, hfd, cancel>>
            /\ \A v \in Creator : pc'[v] \in Handing => /\ v # w /\ pc'[v] = pc[v]
                                                       /\ ctid'[v] = ctid[v] /\ cfd'[v] = cfd[v]
        BY <2>4, <1>0 DEF Register, Return, Goto, Creator, Handing
      <4>2. CreatorMatchesHandler /\ CreatorHandlerIsNew
        BY TableInv DEF TableInv
      <4>3. CreatorMatchesHandler'
        BY <4>1, <4>2 DEF CreatorMatchesHandler, Handing
      <4>4. CreatorHandlerIsNew'
        BY <3>2, <3>3, <4>1, <4>2 DEF CreatorHandlerIsNew
      <4> QED BY <4>3, <4>4
    <3> QED BY <3>5, <3>6, <3>7 DEF TableInv
  <2>5. CASE RegisterFails(w)
    BY <2>5, TableInv, <1>0, SectionPoints DEF RegisterFails, Unlock, Goto, TableInv,
       IdNamesOneConnection, CancelledNotListed, CreatorMatchesHandler,
       CreatorHandlerIsNew, CancelledExist, Active, Creator
  <2>6. CASE RejectClose(w)
    BY <2>6, TableInv, <1>0, SectionPoints DEF RejectClose, Closed, Goto, TableInv,
       IdNamesOneConnection, CancelledNotListed, CreatorMatchesHandler,
       CreatorHandlerIsNew, CancelledExist, Active, Creator
  <2>7. CASE RejectCancel(w)
    <3>1. /\ ctid[w] \in Conn /\ hpc[ctid[w]] # "none"
          /\ \A v \in Creator : v # w /\ pc[v] \in Handing => ctid[v] # ctid[w]
          /\ \A r \in Active : peers[r].thread_id # ctid[w]
      BY <2>7, FreshInv, TableInv, <1>0 DEF RejectCancel, FreshInv, TableInv,
         CreatorHandlerIsNew, CreatorMatchesHandler
    <3>2. Active' = Active
      BY <2>7 DEF RejectCancel, Active
    <3>3. IdNamesOneConnection' /\ CancelledNotListed' /\ CancelledExist'
      BY <3>1, <3>2, <2>7, TableInv, <1>0 DEF RejectCancel, TableInv,
         IdNamesOneConnection, CancelledNotListed, CancelledExist
    <3>4. CreatorMatchesHandler' /\ CreatorHandlerIsNew'
      BY <3>1, <3>2, <2>7, TableInv, <1>0 DEF RejectCancel, Return, Goto, TableInv,
         CreatorMatchesHandler, CreatorHandlerIsNew
    <3> QED BY <3>3, <3>4 DEF TableInv
  <2>8. CASE FindSlot(w)
    BY <2>8, TableInv, <1>0, SectionPoints DEF FindSlot, Goto, TableInv,
       IdNamesOneConnection, CancelledNotListed, CreatorMatchesHandler,
       CreatorHandlerIsNew, CancelledExist, Active, Creator
  <2> QED BY <1>1, <2>1, <2>2, <2>3, <2>4, <2>5, <2>6, <2>7, <2>8 DEF CreatorStep
<1>2. ASSUME MainStep PROVE TableInv'
  <2>1. CASE CreatorStep("main")
    BY <2>1, <1>1 DEF Creator
  <2>2. CASE MyIpDone
    BY <2>2, TableInv, <1>0, SectionPoints DEF MyIpDone, Closed, Return, Goto, TableInv,
       IdNamesOneConnection, CancelledNotListed, CreatorMatchesHandler,
       CreatorHandlerIsNew, CancelledExist, Active, Creator
  <2>3. CASE ConnectOk
    BY <2>3, TableInv, <1>0, SectionPoints DEF ConnectOk, Goto, TableInv,
       IdNamesOneConnection, CancelledNotListed, CreatorMatchesHandler,
       CreatorHandlerIsNew, CancelledExist, Active, Creator
  <2>4. CASE ConnectFails
    BY <2>4, TableInv, <1>0, SectionPoints DEF ConnectFails, Closed, Return, Goto,
       TableInv, IdNamesOneConnection, CancelledNotListed, CreatorMatchesHandler,
       CreatorHandlerIsNew, CancelledExist, Active, Creator
  <2>5. CASE ListPeers
    BY <2>5, TableInv, <1>0, SectionPoints DEF ListPeers, Unlock, Goto, TableInv,
       IdNamesOneConnection, CancelledNotListed, CreatorMatchesHandler,
       CreatorHandlerIsNew, CancelledExist, Active, Creator
  <2>6. CASE NotFound
    BY <2>6, TableInv, <1>0, SectionPoints DEF NotFound, Unlock, Prompt, Goto, TableInv,
       IdNamesOneConnection, CancelledNotListed, CreatorMatchesHandler,
       CreatorHandlerIsNew, CancelledExist, Active, Creator
  <2>7. CASE SendMessage
    BY <2>7, TableInv, <1>0, SectionPoints DEF SendMessage, Unlock, Prompt, Goto,
       TableInv, IdNamesOneConnection, CancelledNotListed, CreatorMatchesHandler,
       CreatorHandlerIsNew, CancelledExist, Active, Creator
  <2>8. CASE SendRaisesSigpipe
    BY <2>8, TableInv, <1>0, SectionPoints DEF SendRaisesSigpipe, TableInv,
       IdNamesOneConnection, CancelledNotListed, CreatorMatchesHandler,
       CreatorHandlerIsNew, CancelledExist, Active, Creator
  <2>9. CASE TerminateClose
    BY <2>9, TableInv, <1>0, SectionPoints DEF TerminateClose, HasId, Active, First,
       Closed, Goto, TableInv, IdNamesOneConnection, CancelledNotListed,
       CreatorMatchesHandler, CreatorHandlerIsNew, CancelledExist, Creator
  <2>10. CASE TerminateCancel
    <3>1. PICK s \in Active : /\ peers' = Dropped(s)
                             /\ cancel' = cancel \cup {peers[s].thread_id}
      BY <2>10 DEF TerminateCancel, HasId
    <3>2. /\ Active' = Active \ {s}
          /\ \A r \in Active' : peers'[r] = peers[r]
      BY <3>1, Dropping, TypeInv DEF TypeInv, TypeOK, Active
    <3>3. IdNamesOneConnection' /\ CancelledNotListed' /\ CancelledExist'
      BY <3>1, <3>2, <2>10, TableInv, <1>0 DEF TerminateCancel, TableInv,
         IdNamesOneConnection, CancelledNotListed, CancelledExist
    <3>4. CreatorMatchesHandler' /\ CreatorHandlerIsNew'
      BY <3>1, <3>2, <2>10, TableInv, <1>0 DEF TerminateCancel, Prompt, Goto, TableInv,
         CreatorMatchesHandler, CreatorHandlerIsNew
    <3> QED BY <3>3, <3>4 DEF TableInv
  <2>11. CASE StopRunning
    BY <2>11, TableInv, <1>0, SectionPoints DEF StopRunning, Unlock, Goto, TableInv,
       IdNamesOneConnection, CancelledNotListed, CreatorMatchesHandler,
       CreatorHandlerIsNew, CancelledExist, Active, Creator
  <2>12. CASE CloseListener
    BY <2>12, TableInv, <1>0, SectionPoints DEF CloseListener, Closed, Goto, TableInv,
       IdNamesOneConnection, CancelledNotListed, CreatorMatchesHandler,
       CreatorHandlerIsNew, CancelledExist, Active, Creator
  <2>13. CASE JoinListener
    BY <2>13, TableInv, <1>0, SectionPoints DEF JoinListener, Goto, TableInv,
       IdNamesOneConnection, CancelledNotListed, CreatorMatchesHandler,
       CreatorHandlerIsNew, CancelledExist, Active, Creator
  <2>14. CASE SweepPeer
    <3>1. PICK s \in Active : /\ peers' = Dropped(s)
                             /\ cancel' = cancel \cup {peers[s].thread_id}
      BY <2>14 DEF SweepPeer
    <3>2. /\ Active' = Active \ {s}
          /\ \A r \in Active' : peers'[r] = peers[r]
      BY <3>1, Dropping, TypeInv DEF TypeInv, TypeOK, Active
    <3>3. IdNamesOneConnection' /\ CancelledNotListed' /\ CancelledExist'
      BY <3>1, <3>2, <2>14, TableInv, <1>0 DEF SweepPeer, TableInv,
         IdNamesOneConnection, CancelledNotListed, CancelledExist
    <3>4. CreatorMatchesHandler' /\ CreatorHandlerIsNew'
      BY <3>1, <3>2, <2>14, TableInv, <1>0 DEF SweepPeer, Goto, TableInv,
         CreatorMatchesHandler, CreatorHandlerIsNew
    <3> QED BY <3>3, <3>4 DEF TableInv
  <2>15. CASE SweepDone
    BY <2>15, TableInv, <1>0, SectionPoints DEF SweepDone, Unlock, Goto, TableInv,
       IdNamesOneConnection, CancelledNotListed, CreatorMatchesHandler,
       CreatorHandlerIsNew, CancelledExist, Active, Creator
  <2>16. CASE DestroyMutex
    BY <2>16, TableInv, <1>0, SectionPoints DEF DestroyMutex, Goto, TableInv,
       IdNamesOneConnection, CancelledNotListed, CreatorMatchesHandler,
       CreatorHandlerIsNew, CancelledExist, Active, Creator
  <2>17. CASE Exit
    BY <2>17, TableInv, <1>0, SectionPoints DEF Exit, TableInv, IdNamesOneConnection,
       CancelledNotListed, CreatorMatchesHandler, CreatorHandlerIsNew, CancelledExist,
       Active, Creator
  <2> QED BY <1>2, <2>1, <2>2, <2>3, <2>4, <2>5, <2>6, <2>7, <2>8, <2>9, <2>10, <2>11,
       <2>12, <2>13, <2>14, <2>15, <2>16, <2>17 DEF MainStep
<1>3. ASSUME UserStep PROVE TableInv'
  <2>1. CASE Command
    BY <2>1, TableInv, <1>0, SectionPoints DEF Command, Goto, TableInv,
       IdNamesOneConnection, CancelledNotListed, CreatorMatchesHandler,
       CreatorHandlerIsNew, CancelledExist, Active, Creator
  <2>2. CASE MyIp
    <3>1. PICK g \in Fd : cfd' = [cfd EXCEPT !["main"] = g]
      BY <2>2 DEF MyIp
    <3>2. Active' = Active
      BY <2>2 DEF MyIp, Active
    <3>8. IdNamesOneConnection' /\ CancelledNotListed' /\ CancelledExist'
      BY <3>1, <3>2, <2>2, TableInv, <1>0 DEF MyIp, TableInv, IdNamesOneConnection,
         CancelledNotListed, CancelledExist
    <3>9. CreatorMatchesHandler' /\ CreatorHandlerIsNew'
      BY <3>1, <3>2, <2>2, TableInv, <1>0 DEF MyIp, Goto, TableInv,
         CreatorMatchesHandler, CreatorHandlerIsNew
    <3> QED BY <3>8, <3>9 DEF TableInv
  <2>3. ASSUME NEW c \in Conn, Connect(c) PROVE TableInv'
    <3>1. PICK g \in Fd : cfd' = [cfd EXCEPT !["main"] = g]
      BY <2>3 DEF Connect
    <3>2. Active' = Active
      BY <2>3 DEF Connect, Active
    <3>3. hpc[c] = "none"
      BY <2>3, FreshInv DEF Connect, FreshInv, Unused
    <3>4. c \notin cancel /\ \A s \in Active : peers[s].thread_id # c
      BY <3>3, TableInv DEF TableInv, CancelledExist, IdNamesOneConnection
    <3>8. IdNamesOneConnection' /\ CancelledNotListed' /\ CancelledExist'
      BY <3>1, <3>2, <3>4, <2>3, TableInv, <1>0 DEF Connect, TableInv,
         IdNamesOneConnection, CancelledNotListed, CancelledExist
    <3>9. CreatorMatchesHandler' /\ CreatorHandlerIsNew'
      BY <3>1, <3>2, <3>4, <2>3, TableInv, <1>0 DEF Connect, Goto, TableInv,
         CreatorMatchesHandler, CreatorHandlerIsNew
    <3> QED BY <3>8, <3>9 DEF TableInv
  <2> QED BY <1>3, <2>1, <2>2, <2>3 DEF UserStep
<1>4. ASSUME ListenerStep PROVE TableInv'
  <2>1. CASE CreatorStep("listener")
    BY <2>1, <1>1 DEF Creator
  <2>2. CASE CheckRunning
    BY <2>2, TableInv, <1>0, SectionPoints DEF CheckRunning, Unlock, Goto, TableInv,
       IdNamesOneConnection, CancelledNotListed, CreatorMatchesHandler,
       CreatorHandlerIsNew, CancelledExist, Active, Creator
  <2>3. CASE AcceptFails
    BY <2>3, TableInv, <1>0, SectionPoints DEF AcceptFails, Goto, TableInv,
       IdNamesOneConnection, CancelledNotListed, CreatorMatchesHandler,
       CreatorHandlerIsNew, CancelledExist, Active, Creator
  <2>4. CASE AcceptWaits
    <3>1. PICK g \in Fd : cfd' = [cfd EXCEPT !["listener"] = g]
      BY <2>4 DEF AcceptWaits
    <3>2. Active' = Active
      BY <2>4 DEF AcceptWaits, Active
    <3>8. IdNamesOneConnection' /\ CancelledNotListed' /\ CancelledExist'
      BY <3>1, <3>2, <2>4, TableInv, <1>0 DEF AcceptWaits, TableInv,
         IdNamesOneConnection, CancelledNotListed, CancelledExist
    <3>9. CreatorMatchesHandler' /\ CreatorHandlerIsNew'
      BY <3>1, <3>2, <2>4, TableInv, <1>0 DEF AcceptWaits, Goto, TableInv,
         CreatorMatchesHandler, CreatorHandlerIsNew
    <3> QED BY <3>8, <3>9 DEF TableInv
  <2>5. ASSUME NEW c \in Conn, Accepted(c) PROVE TableInv'
    <3>1. cfd' = cfd
      BY <2>5 DEF Accepted
    <3>2. Active' = Active
      BY <2>5 DEF Accepted, Active
    <3>3. hpc[c] = "none"
      BY <2>5, FreshInv DEF Accepted, FreshInv, Unused
    <3>4. c \notin cancel /\ \A s \in Active : peers[s].thread_id # c
      BY <3>3, TableInv DEF TableInv, CancelledExist, IdNamesOneConnection
    <3>8. IdNamesOneConnection' /\ CancelledNotListed' /\ CancelledExist'
      BY <3>1, <3>2, <3>4, <2>5, TableInv, <1>0 DEF Accepted, TableInv,
         IdNamesOneConnection, CancelledNotListed, CancelledExist
    <3>9. CreatorMatchesHandler' /\ CreatorHandlerIsNew'
      BY <3>1, <3>2, <3>4, <2>5, TableInv, <1>0 DEF Accepted, Goto, TableInv,
         CreatorMatchesHandler, CreatorHandlerIsNew
    <3> QED BY <3>8, <3>9 DEF TableInv
  <2> QED BY <1>4, <2>1, <2>2, <2>3, <2>4, <2>5 DEF ListenerStep
<1>5. ASSUME NEW t \in Conn, HandlerStep(t) PROVE TableInv'
  <2>1. CASE Recv(t)
    BY <2>1, TableInv, <1>0, SectionPoints DEF Recv, HGoto, TableInv,
       IdNamesOneConnection, CancelledNotListed, CreatorMatchesHandler,
       CreatorHandlerIsNew, CancelledExist, Active, Creator
  <2>2. CASE RecvEof(t)
    BY <2>2, TableInv, <1>0, SectionPoints DEF RecvEof, HGoto, TableInv,
       IdNamesOneConnection, CancelledNotListed, CreatorMatchesHandler,
       CreatorHandlerIsNew, CancelledExist, Active, Creator
  <2>3. CASE Cancelled(t)
    BY <2>3, TableInv, <1>0, SectionPoints DEF Cancelled, HGoto, TableInv,
       IdNamesOneConnection, CancelledNotListed, CreatorMatchesHandler,
       CreatorHandlerIsNew, CancelledExist, Active, Creator
  <2>4. CASE ScanLock(t)
    BY <2>4, TableInv, <1>0, SectionPoints DEF ScanLock, HGoto, TableInv,
       IdNamesOneConnection, CancelledNotListed, CreatorMatchesHandler,
       CreatorHandlerIsNew, CancelledExist, Active, Creator
  <2>5. CASE Scan(t)
    <3>1. /\ Active' \subseteq Active
          /\ \A r \in Active' : peers'[r] = peers[r]
      <4>1. CASE UNCHANGED peers
        BY <4>1 DEF Active
      <4>2. CASE \E s \in OnFd(hfd[t]) : peers' = Dropped(s)
        <5>1. PICK s \in Active : peers' = Dropped(s)
          BY <4>2 DEF OnFd
        <5> QED BY <5>1, Dropping, TypeInv DEF TypeInv, TypeOK, Active
      <4> QED BY <2>5, <4>1, <4>2 DEF Scan
    <3>2. hpc' = [hpc EXCEPT ![t] = "close"] /\ hpc[t] = "scan"
      BY <2>5 DEF Scan, HGoto
    <3>8. IdNamesOneConnection' /\ CancelledNotListed' /\ CancelledExist'
      BY <3>1, <3>2, <2>5, TableInv, <1>0 DEF Scan, TableInv, IdNamesOneConnection,
         CancelledNotListed, CancelledExist
    <3>9. CreatorMatchesHandler' /\ CreatorHandlerIsNew'
      BY <3>1, <3>2, <2>5, TableInv, <1>0 DEF Scan, TableInv, CreatorMatchesHandler,
         CreatorHandlerIsNew
    <3> QED BY <3>8, <3>9 DEF TableInv
  <2>6. CASE HandlerClose(t)
    <3>1. hpc' = [hpc EXCEPT ![t] = "pop"] /\ hpc[t] = "close"
      BY <2>6 DEF HandlerClose, HGoto
    <3>2. UNCHANGED <<peers, next_peer_id, pc, cfd, ctid, hfd, cancel>> /\ Active' = Active
      BY <2>6 DEF HandlerClose, Active
    <3> QED
      BY <3>1, <3>2, TableInv, <1>0 DEF TableInv, IdNamesOneConnection,
         CancelledNotListed, CreatorMatchesHandler, CreatorHandlerIsNew, CancelledExist
  <2>7. CASE Cleanup(t)
    <3>1. hpc' = [hpc EXCEPT ![t] = "exit"]
      BY <2>7 DEF Cleanup, HGoto
    <3>2. UNCHANGED <<peers, next_peer_id, pc, cfd, ctid, hfd, cancel>> /\ Active' = Active
      BY <2>7 DEF Cleanup, Active
    <3> QED
      BY <3>1, <3>2, TableInv, <1>0 DEF TableInv, IdNamesOneConnection,
         CancelledNotListed, CreatorMatchesHandler, CreatorHandlerIsNew, CancelledExist
  <2>8. CASE PopCancelled(t)
    BY <2>8, TableInv, <1>0, SectionPoints DEF PopCancelled, HGoto, TableInv,
       IdNamesOneConnection, CancelledNotListed, CreatorMatchesHandler,
       CreatorHandlerIsNew, CancelledExist, Active, Creator
  <2>9. CASE PrintEnd(t)
    BY <2>9, TableInv, <1>0, SectionPoints DEF PrintEnd, HGoto, TableInv,
       IdNamesOneConnection, CancelledNotListed, CreatorMatchesHandler,
       CreatorHandlerIsNew, CancelledExist, Active, Creator
  <2> QED BY <1>5, <2>1, <2>2, <2>3, <2>4, <2>5, <2>6, <2>7, <2>8, <2>9 DEF HandlerStep
<1>6. ASSUME RemoteStep PROVE TableInv'
  <2>1. ASSUME NEW c \in Conn, RemoteConnect(c) PROVE TableInv'
    BY <2>1, TableInv, <1>0, SectionPoints DEF RemoteConnect, TableInv,
       IdNamesOneConnection, CancelledNotListed, CreatorMatchesHandler,
       CreatorHandlerIsNew, CancelledExist, Active, Creator
  <2>2. ASSUME NEW c \in Conn, RemoteClose(c) PROVE TableInv'
    BY <2>2, TableInv, <1>0, SectionPoints DEF RemoteClose, TableInv,
       IdNamesOneConnection, CancelledNotListed, CreatorMatchesHandler,
       CreatorHandlerIsNew, CancelledExist, Active, Creator
  <2>3. ASSUME NEW c \in Conn, RecvData(c) PROVE TableInv'
    BY <2>3, TableInv, <1>0, SectionPoints DEF RecvData, HGoto, TableInv,
       IdNamesOneConnection, CancelledNotListed, CreatorMatchesHandler,
       CreatorHandlerIsNew, CancelledExist, Active, Creator
  <2> QED BY <1>6, <2>1, <2>2, <2>3 DEF RemoteStep
<1>7. CASE UNCHANGED vars
  BY <1>7, TableInv, <1>0, SectionPoints DEF TableInv, IdNamesOneConnection,
     CancelledNotListed, CreatorMatchesHandler, CreatorHandlerIsNew, CancelledExist,
     Active, Creator, vars, table, kern, cmds, hnds
<1> QED BY <1>1, <1>2, <1>3, <1>4, <1>5, <1>6, <1>7 DEF Next

LEMMA TableAlways == Spec => []TableInv
<1>1. Init => TableInv
  BY DEF Init, InitPeer, TableInv, IdNamesOneConnection, CancelledNotListed, Active,
     CreatorMatchesHandler, CreatorHandlerIsNew, CancelledExist, Handing, Creator
<1> QED BY <1>1, TypeInit, TypeStep, FreshInit, FreshStep, ReadAlways, TableStep, PTL
        DEF Spec

\* A command that names an id concerns exactly one connection, the one whose
\* handler reads from the descriptor in the slot.
THEOREM IdCorrect == Spec => []IdNamesOneConnection
<1>1. TableInv => IdNamesOneConnection
  BY DEF TableInv
<1> QED BY <1>1, TableAlways, PTL

\* A handler that was cancelled is not listed, then or later.
THEOREM CancelCorrect == Spec => []CancelledNotListed
<1>1. TableInv => CancelledNotListed
  BY DEF TableInv
<1> QED BY <1>1, TableAlways, PTL

-----------------------------------------------------------------------------
(* Shutdown.                                                                *)

LEMMA SweepStep == TypeInv /\ MutexInv /\ SweepIsFinal /\ [Next]_vars => SweepIsFinal'
<1> SUFFICES ASSUME TypeInv, MutexInv, SweepIsFinal, [Next]_vars PROVE SweepIsFinal'
  OBVIOUS
<1>0. pc = [w \in Creator |-> pc[w]] /\ "main" \in Creator /\ "listener" \in Creator
  BY DEF TypeInv, TypeOK, Creator
<1>1. ASSUME NEW w \in Creator, CreatorStep(w) PROVE SweepIsFinal'
  <2>1. CASE Lock(w)
    BY <2>1, SweepIsFinal, <1>0, SectionPoints DEF Lock, Goto, SweepIsFinal, Active,
       Creator
  <2>2. CASE Spawn(w)
    BY <2>2, SweepIsFinal, <1>0, SectionPoints DEF Spawn, Goto, SweepIsFinal, Active,
       Creator
  <2>3. CASE SpawnFails(w)
    BY <2>3, SweepIsFinal, <1>0, SectionPoints DEF SpawnFails, Closed, Return, Goto,
       SweepIsFinal, Active, Creator
  <2>4. CASE Register(w)
    <3> QED
      BY <2>4, SweepIsFinal, <1>0 DEF Register, Return, Goto, SweepIsFinal, Creator
  <2>5. CASE RegisterFails(w)
    BY <2>5, SweepIsFinal, <1>0, SectionPoints DEF RegisterFails, Unlock, Goto,
       SweepIsFinal, Active, Creator
  <2>6. CASE RejectClose(w)
    BY <2>6, SweepIsFinal, <1>0, SectionPoints DEF RejectClose, Closed, Goto,
       SweepIsFinal, Active, Creator
  <2>7. CASE RejectCancel(w)
    BY <2>7, SweepIsFinal, <1>0, SectionPoints DEF RejectCancel, Return, Goto,
       SweepIsFinal, Active, Creator
  <2>8. CASE FindSlot(w)
    BY <2>8, SweepIsFinal, <1>0, SectionPoints DEF FindSlot, First, Inactive, Goto,
       SweepIsFinal, Active, Creator
  <2> QED BY <1>1, <2>1, <2>2, <2>3, <2>4, <2>5, <2>6, <2>7, <2>8 DEF CreatorStep
<1>2. ASSUME MainStep PROVE SweepIsFinal'
  <2>1. CASE CreatorStep("main")
    BY <2>1, <1>1 DEF Creator
  <2>2. CASE MyIpDone
    BY <2>2, SweepIsFinal, <1>0, SectionPoints DEF MyIpDone, Closed, Return, Goto,
       SweepIsFinal, Active, Creator
  <2>3. CASE ConnectOk
    BY <2>3, SweepIsFinal, <1>0, SectionPoints DEF ConnectOk, Goto, SweepIsFinal,
       Active, Creator
  <2>4. CASE ConnectFails
    BY <2>4, SweepIsFinal, <1>0, SectionPoints DEF ConnectFails, Closed, Return, Goto,
       SweepIsFinal, Active, Creator
  <2>5. CASE ListPeers
    BY <2>5, SweepIsFinal, <1>0, SectionPoints DEF ListPeers, Unlock, Goto,
       SweepIsFinal, Active, Creator
  <2>6. CASE NotFound
    BY <2>6, SweepIsFinal, <1>0, SectionPoints DEF NotFound, Unlock, Prompt, Goto,
       SweepIsFinal, Active, Creator
  <2>7. CASE SendMessage
    BY <2>7, SweepIsFinal, <1>0, SectionPoints DEF SendMessage, Unlock, Prompt, Goto,
       SweepIsFinal, Active, Creator
  <2>8. CASE SendRaisesSigpipe
    BY <2>8, SweepIsFinal, <1>0, SectionPoints DEF SendRaisesSigpipe, SweepIsFinal,
       Active, Creator
  <2>9. CASE TerminateClose
    BY <2>9, SweepIsFinal, <1>0, SectionPoints DEF TerminateClose, HasId, Active, First,
       Closed, Goto, SweepIsFinal, Creator
  <2>10. CASE TerminateCancel
    BY <2>10, <1>0 DEF TerminateCancel, Prompt, Goto, SweepIsFinal
  <2>11. CASE StopRunning
    BY <2>11, SweepIsFinal, <1>0, SectionPoints DEF StopRunning, Unlock, Goto,
       SweepIsFinal, Active, Creator
  <2>12. CASE CloseListener
    BY <2>12, SweepIsFinal, <1>0, SectionPoints DEF CloseListener, Closed, Goto,
       SweepIsFinal, Active, Creator
  <2>13. CASE JoinListener
    BY <2>13, SweepIsFinal, <1>0, SectionPoints DEF JoinListener, Goto, SweepIsFinal,
       Active, Creator
  <2>14. CASE SweepPeer
    BY <2>14, <1>0 DEF SweepPeer, Goto, SweepIsFinal
  <2>15. CASE SweepDone
    <3>1. Active' = Active
      BY <2>15 DEF SweepDone, Active
    <3>2. pc["listener"] = "done" /\ pc'["listener"] = "done"
      BY <2>15, <1>0, MutexInv DEF SweepDone, Goto, MutexInv, ListenerJoined
    <3> QED BY <3>1, <3>2, <2>15 DEF SweepDone, SweepIsFinal
  <2>16. CASE DestroyMutex
    BY <2>16, SweepIsFinal, <1>0, SectionPoints DEF DestroyMutex, Goto, SweepIsFinal,
       Active, Creator
  <2>17. CASE Exit
    BY <2>17, SweepIsFinal, <1>0, SectionPoints DEF Exit, SweepIsFinal, Active, Creator
  <2> QED BY <1>2, <2>1, <2>2, <2>3, <2>4, <2>5, <2>6, <2>7, <2>8, <2>9, <2>10, <2>11,
       <2>12, <2>13, <2>14, <2>15, <2>16, <2>17 DEF MainStep
<1>3. ASSUME UserStep PROVE SweepIsFinal'
  <2>1. CASE Command
    BY <2>1, SweepIsFinal, <1>0, SectionPoints DEF Command, Goto, SweepIsFinal, Active,
       Creator
  <2>2. CASE MyIp
    BY <2>2, SweepIsFinal, <1>0, SectionPoints DEF MyIp, LowestFree, Goto, SweepIsFinal,
       Active, Creator
  <2>3. ASSUME NEW c \in Conn, Connect(c) PROVE SweepIsFinal'
    BY <2>3, SweepIsFinal, <1>0, SectionPoints DEF Connect, LowestFree, Goto,
       SweepIsFinal, Active, Creator
  <2> QED BY <1>3, <2>1, <2>2, <2>3 DEF UserStep
<1>4. ASSUME ListenerStep PROVE SweepIsFinal'
  <2>1. CASE CreatorStep("listener")
    BY <2>1, <1>1 DEF Creator
  <2>2. CASE CheckRunning
    BY <2>2, SweepIsFinal, <1>0, SectionPoints DEF CheckRunning, Unlock, Goto,
       SweepIsFinal, Active, Creator
  <2>3. CASE AcceptFails
    BY <2>3, SweepIsFinal, <1>0, SectionPoints DEF AcceptFails, Goto, SweepIsFinal,
       Active, Creator
  <2>4. CASE AcceptWaits
    BY <2>4, SweepIsFinal, <1>0, SectionPoints DEF AcceptWaits, LowestFree, Goto,
       SweepIsFinal, Active, Creator
  <2>5. ASSUME NEW c \in Conn, Accepted(c) PROVE SweepIsFinal'
    BY <2>5, SweepIsFinal, <1>0, SectionPoints DEF Accepted, Goto, SweepIsFinal, Active,
       Creator
  <2> QED BY <1>4, <2>1, <2>2, <2>3, <2>4, <2>5 DEF ListenerStep
<1>5. ASSUME NEW t \in Conn, HandlerStep(t) PROVE SweepIsFinal'
  <2>1. CASE Recv(t)
    BY <2>1, SweepIsFinal, <1>0, SectionPoints DEF Recv, HGoto, SweepIsFinal, Active,
       Creator
  <2>2. CASE RecvEof(t)
    BY <2>2, SweepIsFinal, <1>0, SectionPoints DEF RecvEof, HGoto, SweepIsFinal, Active,
       Creator
  <2>3. CASE Cancelled(t)
    BY <2>3, SweepIsFinal, <1>0, SectionPoints DEF Cancelled, HGoto, SweepIsFinal,
       Active, Creator
  <2>4. CASE ScanLock(t)
    BY <2>4, SweepIsFinal, <1>0, SectionPoints DEF ScanLock, HGoto, SweepIsFinal,
       Active, Creator
  <2>5. CASE Scan(t)
    <3>1. Active' \subseteq Active
      <4>1. CASE UNCHANGED peers
        BY <4>1 DEF Active
      <4>2. CASE \E s \in OnFd(hfd[t]) : peers' = Dropped(s)
        <5>1. PICK s \in Active : peers' = Dropped(s)
          BY <4>2 DEF OnFd
        <5> QED BY <5>1, Dropping, TypeInv DEF TypeInv, TypeOK, Active
      <4> QED BY <2>5, <4>1, <4>2 DEF Scan
    <3> QED BY <3>1, <2>5, SweepIsFinal DEF Scan, SweepIsFinal
  <2>6. CASE HandlerClose(t)
    BY <2>6, SweepIsFinal, <1>0, SectionPoints DEF HandlerClose, Closed, HGoto,
       SweepIsFinal, Active, Creator
  <2>7. CASE Cleanup(t)
    BY <2>7, SweepIsFinal, <1>0, SectionPoints DEF Cleanup, Closed, HGoto, SweepIsFinal,
       Active, Creator
  <2>8. CASE PopCancelled(t)
    BY <2>8, SweepIsFinal, <1>0, SectionPoints DEF PopCancelled, HGoto, SweepIsFinal,
       Active, Creator
  <2>9. CASE PrintEnd(t)
    BY <2>9, SweepIsFinal, <1>0, SectionPoints DEF PrintEnd, HGoto, SweepIsFinal, Active,
       Creator
  <2> QED BY <1>5, <2>1, <2>2, <2>3, <2>4, <2>5, <2>6, <2>7, <2>8, <2>9 DEF HandlerStep
<1>6. ASSUME RemoteStep PROVE SweepIsFinal'
  <2>1. ASSUME NEW c \in Conn, RemoteConnect(c) PROVE SweepIsFinal'
    BY <2>1, SweepIsFinal, <1>0, SectionPoints DEF RemoteConnect, SweepIsFinal, Active,
       Creator
  <2>2. ASSUME NEW c \in Conn, RemoteClose(c) PROVE SweepIsFinal'
    BY <2>2, SweepIsFinal, <1>0, SectionPoints DEF RemoteClose, SweepIsFinal, Active,
       Creator
  <2>3. ASSUME NEW c \in Conn, RecvData(c) PROVE SweepIsFinal'
    BY <2>3, SweepIsFinal, <1>0, SectionPoints DEF RecvData, HGoto, SweepIsFinal,
       Active, Creator
  <2> QED BY <1>6, <2>1, <2>2, <2>3 DEF RemoteStep
<1>7. CASE UNCHANGED vars
  BY <1>7, SweepIsFinal, <1>0, SectionPoints DEF SweepIsFinal, Active, Creator, vars,
     table, kern, cmds, hnds
<1> QED BY <1>1, <1>2, <1>3, <1>4, <1>5, <1>6, <1>7 DEF Next

\* Once chatapp_shutdown has swept the table it stays empty, because the
\* listener was joined first.
THEOREM SweepCorrect == Spec => []SweepIsFinal
<1>1. Init => SweepIsFinal /\ MutexInv
  BY ChatAssumption, SectionPoints DEF Init, SweepIsFinal, MutexInv, MutualExclusion,
     ListenerJoined, DestroyedLast, Creator
<1> QED BY <1>1, TypeInit, TypeStep, FreshInit, FreshStep, MutexStep, SweepStep, PTL DEF
     Spec
=============================================================================
