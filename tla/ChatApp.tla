------------------------------ MODULE ChatApp ------------------------------
(***************************************************************************)
(* One process of the peer-to-peer chat program of mock-prj-01: the peer   *)
(* table, the mutex that guards it, and the threads that share it - the    *)
(* main thread that runs the user's commands, the listener thread, and one *)
(* handler thread per connection.  The descriptor table of the process and *)
(* the state of each TCP connection belong to the kernel and are modelled  *)
(* from how the code uses them, because the code identifies connections by *)
(* descriptor NUMBER and numbers are reused.                               *)
(*                                                                         *)
(* A connection and the handler thread created for it share one name c.    *)
(* Each critical section takes two steps or more (lock, then body and      *)
(* unlock; registration reads the table in one step and writes it in the   *)
(* next), so that every interleaving at the mutex is a behaviour, and a    *)
(* section that the mutex failed to protect would show.                    *)
(***************************************************************************)
EXTENDS Integers

CONSTANTS
  Conn,        (* connections that may come into being, accepted or dialled *)
  MAX_PEERS,   (* the number of slots of the peer table                     *)
  INT_MAX,     (* the largest peer id an int can hold                       *)
  MaxFd        (* the largest descriptor number the kernel hands out        *)

ASSUME ChatAssumption ==
  /\ MAX_PEERS \in Nat \ {0}
  /\ INT_MAX \in Nat \ {0}
  /\ MaxFd \in Nat
  /\ Conn \cap {"none", "free", "reserved", "listener", "tmp",
                "main", "destroyed"} = {}

VARIABLES
  peers,         (* app->peers: the table, by slot                          *)
  next_peer_id,  (* app->next_peer_id                                       *)
  running,       (* app->running                                            *)
  mutex,         (* app->mutex: "free", "destroyed" or its holder           *)
  fdt,           (* descriptor table: what each number refers to            *)
  sock,          (* the TCP state of each connection                        *)
  pc, cfd, ctid, (* main and listener: control point, local sockfd and tid  *)
  arg,           (* main: the connection id the user typed                  *)
  entry,         (* creators: the slot and the id chatapp_add_peer has read *)
  hpc, hfd,      (* handlers: control point, local sockfd                   *)
  hrecv,         (* handlers: the socket a blocked recv() holds on to       *)
  cancel,        (* handlers with a cancellation request                    *)
  proc           (* "run", "exited" or "killed" (by SIGPIPE)                *)

table == <<peers, next_peer_id>>
kern  == <<fdt, sock>>
cmds  == <<pc, cfd, ctid, arg, entry>>
hnds  == <<hpc, hfd, hrecv, cancel>>
vars  == <<table, running, mutex, kern, cmds, hnds, proc>>

Slot     == 0 .. MAX_PEERS - 1
Id       == 1 .. INT_MAX
Fd       == 0 .. MaxFd
ListenFd == 0                      \* the lowest number: setup opens it first
Creator  == {"main", "listener"}   \* the threads that create handlers

\* Where a creator waits for the mutex, and the critical section it then enters.
Section == [lock_add |-> "add", lock_send |-> "send", lock_terminate |-> "terminate",
            lock_list |-> "list", lock_exit |-> "exit", lock_sweep |-> "sweep",
            lock_check |-> "check"]
Inside  == {Section[p] : p \in DOMAIN Section} \cup {"cancelling", "fill"}

-----------------------------------------------------------------------------
(* The peer table *)

Peer == [id : 0 .. INT_MAX, sockfd : Fd \cup {-1},
         thread_id : Conn \cup {"none"}, active : BOOLEAN]

\* peer_init
InitPeer == [id |-> 0, sockfd |-> -1, thread_id |-> "none", active |-> FALSE]

\* Every loop over peers[] stops at the first slot that passes its test, or
\* passes over all of them: T is the set of slots that pass.
First(s, T) == s \in T /\ \A r \in T : s <= r

Active   == {s \in Slot : peers[s].active}
Inactive == Slot \ Active
HasId    == {s \in Active : peers[s].id = arg}
OnFd(f)  == {s \in Active : peers[s].sockfd = f}

\* peers[s].active = 0; the other fields keep their last values.
Dropped(s) == [peers EXCEPT ![s] = [@ EXCEPT !.active = FALSE]]

\* Variant: the last id is not refused, and next_peer_id overflows.
IdsUsedUpLate == next_peer_id > INT_MAX

\* The first test of chatapp_add_peer.
IdsUsedUp == next_peer_id > INT_MAX - 1

\* Variant: the counter is not incremented.
AddPeerSameId(e, fd, tid) ==
  /\ peers' = [peers EXCEPT ![e.i] =
       [id |-> e.id, sockfd |-> fd, thread_id |-> tid, active |-> TRUE]]
  /\ UNCHANGED next_peer_id

\* chatapp_add_peer fills the slot it found with the id it read; the counter was
\* incremented from the value read.
AddPeer(e, fd, tid) ==
  /\ peers' = [peers EXCEPT ![e.i] =
       [id |-> e.id, sockfd |-> fd, thread_id |-> tid, active |-> TRUE]]
  /\ next_peer_id' = e.id + 1

NoEntry == [i |-> 0, id |-> 0]

-----------------------------------------------------------------------------
(* The kernel: descriptors and the mutex *)

\* socket() and accept() take the lowest free number.
LowestFree(f) == fdt[f] = "free" /\ \A g \in Fd : g < f => fdt[g] # "free"

\* close(f): a number that is not open gives EBADF and nothing happens; a
\* number an accept() in progress has reserved is not open yet.
Closed(f) == [fdt EXCEPT ![f] = IF @ = "reserved" THEN @ ELSE "free"]

\* pthread_mutex_unlock by thread w (an error on a destroyed mutex).
Unlock(w) == mutex' = IF mutex = w THEN "free" ELSE mutex

-----------------------------------------------------------------------------
Init ==
  /\ peers = [s \in Slot |-> InitPeer]
  /\ next_peer_id = 1
  /\ running = TRUE
  /\ mutex = "free"
  /\ fdt = [f \in Fd |-> IF f = ListenFd THEN "listener" ELSE "free"]
  /\ sock = [c \in Conn |-> "new"]
  /\ pc = [w \in Creator |-> IF w = "main" THEN "prompt" ELSE "lock_check"]
  /\ cfd = [w \in Creator |-> ListenFd]
  /\ ctid = [w \in Creator |-> "none"]
  /\ arg = 0
  /\ entry = [w \in Creator |-> NoEntry]
  /\ hpc = [c \in Conn |-> "none"]
  /\ hfd = [c \in Conn |-> ListenFd]
  /\ hrecv = [c \in Conn |-> "none"]
  /\ cancel = {}
  /\ proc = "run"

-----------------------------------------------------------------------------
(* Steps of both creators: pthread_mutex_lock, and the code that           *)
(* listen_thread and chatapp_connect_peer share from malloc() on.          *)

\* A creator moves on, which no thread does once the process has ended.
Goto(w, p) == proc = "run" /\ pc' = [pc EXCEPT ![w] = p]

\* The end of one round of the creator's loop: its locals go out of scope.
Return(w) ==
  /\ Goto(w, IF w = "main" THEN "prompt" ELSE "lock_check")
  /\ cfd' = [cfd EXCEPT ![w] = ListenFd]
  /\ ctid' = [ctid EXCEPT ![w] = "none"]

\* Variant: chatapp_add_peer does not lock.
LockNothing(w) ==
  /\ pc[w] \in DOMAIN Section
  /\ IF pc[w] = "lock_add" THEN UNCHANGED mutex ELSE mutex = "free" /\ mutex' = w
  /\ Goto(w, Section[pc[w]])
  /\ UNCHANGED <<table, running, kern, cfd, ctid, arg, entry, hnds, proc>>

Lock(w) ==
  /\ pc[w] \in DOMAIN Section
  /\ mutex = "free"
  /\ mutex' = w
  /\ Goto(w, Section[pc[w]])
  /\ UNCHANGED <<table, running, kern, cfd, ctid, arg, entry, hnds, proc>>

\* pthread_create: the handler starts with its copy of the descriptor number.
Spawn(w) ==
  /\ pc[w] = "spawn"
  /\ hpc' = [hpc EXCEPT ![ctid[w]] = "recv"]
  /\ hfd' = [hfd EXCEPT ![ctid[w]] = cfd[w]]
  /\ Goto(w, "lock_add")
  /\ UNCHANGED <<table, running, mutex, kern, cfd, ctid, arg, entry, hrecv, cancel, proc>>

\* Variant: the error path does not close the descriptor.
SpawnFailsLeaking(w) ==
  /\ pc[w] = "spawn"
  /\ Return(w)
  /\ UNCHANGED <<table, running, mutex, kern, arg, entry, hnds, proc>>

\* malloc or pthread_create fails: close and give up.
SpawnFails(w) ==
  /\ pc[w] = "spawn"
  /\ fdt' = Closed(cfd[w])
  /\ Return(w)
  /\ UNCHANGED <<table, running, mutex, sock, arg, entry, hnds, proc>>

\* chatapp_add_peer with the mutex held: the search finds a slot, and the counter
\* is read ...
FindSlot(w) ==
  /\ pc[w] = "add"
  /\ ~IdsUsedUp
  /\ \E s \in Slot :
       /\ First(s, Inactive)
       /\ entry' = [entry EXCEPT ![w] = [i |-> s, id |-> next_peer_id]]
  /\ Goto(w, "fill")
  /\ UNCHANGED <<table, running, mutex, kern, cfd, ctid, arg, hnds, proc>>

\* ... then both are written, and the mutex is unlocked ...
Register(w) ==
  /\ pc[w] = "fill"
  /\ AddPeer(entry[w], cfd[w], ctid[w])
  /\ entry' = [entry EXCEPT ![w] = NoEntry]
  /\ Unlock(w)
  /\ Return(w)
  /\ UNCHANGED <<running, kern, arg, hnds, proc>>

\* Variant: the early return does not unlock.
RegisterFailsLocked(w) ==
  /\ pc[w] = "add"
  /\ IdsUsedUp \/ Inactive = {}
  /\ Goto(w, "full")
  /\ UNCHANGED <<table, running, mutex, kern, cfd, ctid, arg, entry, hnds, proc>>

\* ... or it returns -1.
RegisterFails(w) ==
  /\ pc[w] = "add"
  /\ IdsUsedUp \/ Inactive = {}
  /\ Unlock(w)
  /\ Goto(w, "full")
  /\ UNCHANGED <<table, running, kern, cfd, ctid, arg, entry, hnds, proc>>

\* Connection limit reached: close the descriptor ...
RejectClose(w) ==
  /\ pc[w] = "full"
  /\ fdt' = Closed(cfd[w])
  /\ Goto(w, "reject")
  /\ UNCHANGED <<table, running, mutex, sock, cfd, ctid, arg, entry, hnds, proc>>

\* ... then cancel the handler that is already running.
RejectCancel(w) ==
  /\ pc[w] = "reject"
  /\ cancel' = cancel \cup {ctid[w]}
  /\ Return(w)
  /\ UNCHANGED <<table, running, mutex, kern, arg, entry, hpc, hfd, hrecv, proc>>

-----------------------------------------------------------------------------
(* The main thread: handle_commands, and the chatapp_* function each command  *)
(* runs.  connect, send, terminate, list and exit call their functions by     *)
(* names that no file defines; each is read as the chatapp_* function whose   *)
(* parameters and purpose it has.                                             *)

Prompt == Goto("main", "prompt") /\ arg' = 0

\* A command whose function starts by taking the mutex.
Command ==
  /\ pc["main"] = "prompt"
  /\ \/ /\ arg' \in Id
        /\ \E p \in {"lock_send", "lock_terminate"} : Goto("main", p)
     \/ /\ \E p \in {"lock_list", "lock_exit"} : Goto("main", p)
        /\ UNCHANGED arg
  /\ UNCHANGED <<table, running, mutex, kern, cfd, ctid, entry, hnds, proc>>

\* get_local_ip holds a UDP socket from its first line to its last.
MyIp ==
  /\ pc["main"] = "prompt"
  /\ \E f \in Fd : /\ LowestFree(f)
                   /\ fdt' = [fdt EXCEPT ![f] = "tmp"]
                   /\ cfd' = [cfd EXCEPT !["main"] = f]
  /\ Goto("main", "myip")
  /\ UNCHANGED <<table, running, mutex, sock, ctid, arg, entry, hnds, proc>>

MyIpDone ==
  /\ pc["main"] = "myip"
  /\ fdt' = Closed(cfd["main"])
  /\ Return("main")
  /\ UNCHANGED <<table, running, mutex, sock, arg, entry, hnds, proc>>

\* chatapp_connect_peer up to connect() ...
Connect(c) ==
  /\ pc["main"] = "prompt"
  /\ sock[c] = "new"
  /\ \E f \in Fd : /\ LowestFree(f)
                   /\ fdt' = [fdt EXCEPT ![f] = c]
                   /\ cfd' = [cfd EXCEPT !["main"] = f]
  /\ sock' = [sock EXCEPT ![c] = "unconnected"]
  /\ ctid' = [ctid EXCEPT !["main"] = c]
  /\ Goto("main", "connect")
  /\ UNCHANGED <<table, running, mutex, arg, entry, hnds, proc>>

\* ... which connects whatever the number refers to by then ...
ConnectOk ==
  /\ pc["main"] = "connect"
  /\ fdt[cfd["main"]] = ctid["main"]
  /\ sock' = [sock EXCEPT ![ctid["main"]] = "est"]
  /\ Goto("main", "spawn")
  /\ UNCHANGED <<table, running, mutex, fdt, cfd, ctid, arg, entry, hnds, proc>>

\* ... or fails, as inet_pton() does on a bad address.
ConnectFails ==
  /\ pc["main"] = "connect"
  /\ fdt' = Closed(cfd["main"])
  /\ Return("main")
  /\ UNCHANGED <<table, running, mutex, sock, arg, entry, hnds, proc>>

\* chatapp_list_peers: the loop only reads the table.
ListPeers ==
  /\ pc["main"] = "list"
  /\ Unlock("main")
  /\ Goto("main", "prompt")
  /\ UNCHANGED <<table, running, kern, cfd, ctid, arg, entry, hnds, proc>>

\* chatapp_send_message, chatapp_disconnect_peer: no active slot has the id.
NotFound ==
  /\ pc["main"] \in {"send", "terminate"}
  /\ HasId = {}
  /\ Unlock("main")
  /\ Prompt
  /\ UNCHANGED <<table, running, kern, cfd, ctid, entry, hnds, proc>>

\* send() on the descriptor of the slot, its result ignored.  Sending to a peer
\* that closed provokes a reset; sending after the reset raises SIGPIPE, which
\* kills the process; any other descriptor gives an error return.
SendMessage ==
  /\ pc["main"] = "send"
  /\ \E s \in HasId : LET to == fdt[peers[s].sockfd] IN
       /\ First(s, HasId)
       /\ \/ to \in Conn /\ sock[to] = "fin" /\ sock' = [sock EXCEPT ![to] = "rst"]
          \/ ~(to \in Conn /\ sock[to] = "rst") /\ UNCHANGED sock
       /\ UNCHANGED proc
  /\ Unlock("main")
  /\ Prompt
  /\ UNCHANGED <<table, running, fdt, cfd, ctid, entry, hnds>>

SendRaisesSigpipe ==
  /\ pc["main"] = "send"
  /\ \E s \in HasId : LET to == fdt[peers[s].sockfd] IN
       First(s, HasId) /\ to \in Conn /\ sock[to] = "rst"
  /\ proc = "run"
  /\ proc' = "killed"
  /\ UNCHANGED <<table, running, mutex, kern, cmds, hnds>>

\* chatapp_disconnect_peer: the descriptor is closed first; the mutex does not
\* keep other threads from opening that number again before the cancel.
TerminateClose ==
  /\ pc["main"] = "terminate"
  /\ \E s \in HasId : First(s, HasId) /\ fdt' = Closed(peers[s].sockfd)
  /\ Goto("main", "cancelling")
  /\ UNCHANGED <<table, running, mutex, sock, cfd, ctid, arg, entry, hnds, proc>>

\* Variant: the slot stays active.
TerminateCancelListed ==
  /\ pc["main"] = "cancelling"
  /\ \E s \in HasId : First(s, HasId) /\ cancel' = cancel \cup {peers[s].thread_id}
  /\ Unlock("main")
  /\ Prompt
  /\ UNCHANGED <<table, running, kern, cfd, ctid, entry, hpc, hfd, hrecv, proc>>

TerminateCancel ==
  /\ pc["main"] = "cancelling"
  /\ \E s \in HasId : /\ First(s, HasId)
                      /\ cancel' = cancel \cup {peers[s].thread_id}
                      /\ peers' = Dropped(s)
  /\ Unlock("main")
  /\ Prompt
  /\ UNCHANGED <<next_peer_id, running, kern, cfd, ctid, entry, hpc, hfd, hrecv, proc>>

\* chatapp_shutdown.
StopRunning ==
  /\ pc["main"] = "exit"
  /\ running' = FALSE
  /\ Unlock("main")
  /\ Goto("main", "closelistener")
  /\ UNCHANGED <<table, kern, cfd, ctid, arg, entry, hnds, proc>>

\* close() does not wake an accept() that is already blocked.
CloseListener ==
  /\ pc["main"] = "closelistener"
  /\ fdt' = Closed(ListenFd)
  /\ Goto("main", "join")
  /\ UNCHANGED <<table, running, mutex, sock, cfd, ctid, arg, entry, hnds, proc>>

\* Variant: the listener is not joined.
NoJoinListener ==
  /\ pc["main"] = "join"
  /\ Goto("main", "lock_sweep")
  /\ UNCHANGED <<table, running, mutex, kern, cfd, ctid, arg, entry, hnds, proc>>

JoinListener ==
  /\ pc["main"] = "join"
  /\ pc["listener"] = "done"
  /\ Goto("main", "lock_sweep")
  /\ UNCHANGED <<table, running, mutex, kern, cfd, ctid, arg, entry, hnds, proc>>

\* One active slot per step; nothing opens a descriptor any more, so closing
\* and cancelling are one step.
SweepPeer ==
  /\ pc["main"] = "sweep"
  /\ \E s \in Active : /\ First(s, Active)
                       /\ fdt' = Closed(peers[s].sockfd)
                       /\ cancel' = cancel \cup {peers[s].thread_id}
                       /\ peers' = Dropped(s)
  /\ Goto("main", "sweep")
  /\ UNCHANGED <<next_peer_id, running, mutex, sock, cfd, ctid, arg, entry, hpc, hfd,
                 hrecv, proc>>

SweepDone ==
  /\ pc["main"] = "sweep"
  /\ Active = {}
  /\ Unlock("main")
  /\ Goto("main", "destroy")
  /\ UNCHANGED <<table, running, kern, cfd, ctid, arg, entry, hnds, proc>>

\* pthread_mutex_destroy fails with EBUSY while a handler holds the mutex.
DestroyMutex ==
  /\ pc["main"] = "destroy"
  /\ mutex' = IF mutex = "free" THEN "destroyed" ELSE mutex
  /\ Goto("main", "exiting")
  /\ UNCHANGED <<table, running, kern, cfd, ctid, arg, entry, hnds, proc>>

\* exit(0) in handle_commands ends every thread.
Exit ==
  /\ pc["main"] = "exiting"
  /\ proc = "run"
  /\ proc' = "exited"
  /\ UNCHANGED <<table, running, mutex, kern, cmds, hnds>>

-----------------------------------------------------------------------------
(* The listener: listen_thread                                             *)

\* Variant: the listener does not look at the flag.
CheckNothing ==
  /\ pc["listener"] = "check"
  /\ Unlock("listener")
  /\ Goto("listener", "accept")
  /\ UNCHANGED <<table, running, kern, cfd, ctid, arg, entry, hnds, proc>>

CheckRunning ==
  /\ pc["listener"] = "check"
  /\ Unlock("listener")
  /\ Goto("listener", IF running THEN "accept" ELSE "done")
  /\ UNCHANGED <<table, running, kern, cfd, ctid, arg, entry, hnds, proc>>

\* accept() on a closed listening socket, or with no descriptor to give.
AcceptFails ==
  /\ pc["listener"] = "accept"
  /\ fdt[ListenFd] # "listener" \/ \A f \in Fd : fdt[f] # "free"
  /\ Goto("listener", "lock_check")
  /\ UNCHANGED <<table, running, mutex, kern, cfd, ctid, arg, entry, hnds, proc>>

\* accept() takes the number it will return before it waits.
AcceptWaits ==
  /\ pc["listener"] = "accept"
  /\ fdt[ListenFd] = "listener"
  /\ \E f \in Fd : /\ LowestFree(f)
                   /\ fdt' = [fdt EXCEPT ![f] = "reserved"]
                   /\ cfd' = [cfd EXCEPT !["listener"] = f]
  /\ Goto("listener", "accepting")
  /\ UNCHANGED <<table, running, mutex, sock, ctid, arg, entry, hnds, proc>>

Accepted(c) ==
  /\ pc["listener"] = "accepting"
  /\ sock[c] = "backlog"
  /\ sock' = [sock EXCEPT ![c] = "est"]
  /\ fdt' = [fdt EXCEPT ![cfd["listener"]] = c]
  /\ ctid' = [ctid EXCEPT !["listener"] = c]
  /\ Goto("listener", "spawn")
  /\ UNCHANGED <<table, running, mutex, cfd, arg, entry, hnds, proc>>

-----------------------------------------------------------------------------
(* The handlers: peer_handle_thread and peer_cleanup.  A handler learns of  *)
(* the end of its connection from recv(), drops the slot that holds its     *)
(* descriptor number, and closes the number; pthread_cleanup_pop(1) then    *)
(* runs peer_cleanup, which closes it a second time.                        *)

HGoto(t, p) == proc = "run" /\ hpc' = [hpc EXCEPT ![t] = p]

\* recv() blocks on the socket the number refers to at the call, and holds on
\* to that socket until it returns; on anything else it fails at once.
Recv(t) ==
  /\ hpc[t] = "recv"
  /\ t \notin cancel
  /\ LET s == fdt[hfd[t]] IN
       \/ /\ s = "tmp" \/ (s \in Conn /\ sock[s] # "unconnected")
          /\ hrecv' = [hrecv EXCEPT ![t] = s]
          /\ HGoto(t, "blocked")
       \/ /\ ~(s = "tmp" \/ (s \in Conn /\ sock[s] # "unconnected"))
          /\ HGoto(t, "eof")
          /\ UNCHANGED hrecv
  /\ UNCHANGED <<table, running, mutex, kern, cmds, hfd, cancel, proc>>

\* A message arrives and is printed.
RecvData(t) ==
  /\ hpc[t] = "blocked"
  /\ hrecv[t] \in Conn /\ sock[hrecv[t]] = "est"
  /\ hrecv' = [hrecv EXCEPT ![t] = "none"]
  /\ HGoto(t, "recv")
  /\ UNCHANGED <<table, running, mutex, kern, cmds, hfd, cancel, proc>>

\* recv() returns 0 or -1.
RecvEof(t) ==
  /\ hpc[t] = "blocked"
  /\ hrecv[t] \in Conn /\ sock[hrecv[t]] \in {"fin", "rst"}
  /\ hrecv' = [hrecv EXCEPT ![t] = "none"]
  /\ HGoto(t, "eof")
  /\ UNCHANGED <<table, running, mutex, kern, cmds, hfd, cancel, proc>>

\* The printf() at the end of a connection returns: whether a pending request
\* acts there is the C library's choice.
PrintEnd(t) ==
  /\ hpc[t] = "eof"
  /\ HGoto(t, "lock_scan")
  /\ UNCHANGED <<table, running, mutex, kern, cmds, hfd, hrecv, cancel, proc>>

\* Variant: recv() is restarted when it is interrupted.
CancelledUnlessBlocked(t) ==
  /\ t \in cancel
  /\ hpc[t] \in {"recv", "eof", "close"}
  /\ HGoto(t, "cleanup")
  /\ UNCHANGED <<table, running, mutex, kern, cmds, hfd, hrecv, cancel, proc>>

\* A cancelled handler unwinds at its next cancellation point and runs
\* peer_cleanup.  recv() and close() always act on a request that is pending;
\* the printf() at "eof" does or does not; one that waits for the mutex never does.
Cancelled(t) ==
  /\ t \in cancel
  /\ hpc[t] \in {"recv", "blocked", "eof", "close"}
  /\ hrecv' = [hrecv EXCEPT ![t] = "none"]
  /\ HGoto(t, "cleanup")
  /\ UNCHANGED <<table, running, mutex, kern, cmds, hfd, cancel, proc>>

\* Locking a destroyed mutex returns an error, which the code ignores.
ScanLock(t) ==
  /\ hpc[t] = "lock_scan"
  /\ \/ mutex = "free" /\ mutex' = t
     \/ mutex = "destroyed" /\ UNCHANGED mutex
  /\ HGoto(t, "scan")
  /\ UNCHANGED <<table, running, kern, cmds, hfd, hrecv, cancel, proc>>

\* Variant: the path that finds the slot does not unlock.
ScanLocked(t) ==
  /\ hpc[t] = "scan"
  /\ \/ OnFd(hfd[t]) = {} /\ UNCHANGED peers /\ Unlock(t)
     \/ \E s \in OnFd(hfd[t]) : /\ First(s, OnFd(hfd[t]))
                                /\ peers' = Dropped(s)
                                /\ UNCHANGED mutex
  /\ HGoto(t, "close")
  /\ UNCHANGED <<next_peer_id, running, kern, cmds, hfd, hrecv, cancel, proc>>

\* The slot is found by descriptor number.
Scan(t) ==
  /\ hpc[t] = "scan"
  /\ \/ /\ OnFd(hfd[t]) = {}
        /\ UNCHANGED peers
     \/ \E s \in OnFd(hfd[t]) : /\ First(s, OnFd(hfd[t]))
                                /\ peers' = Dropped(s)
  /\ Unlock(t)
  /\ HGoto(t, "close")
  /\ UNCHANGED <<next_peer_id, running, kern, cmds, hfd, hrecv, cancel, proc>>

HandlerClose(t) ==
  /\ hpc[t] = "close"
  /\ t \notin cancel
  /\ fdt' = Closed(hfd[t])
  /\ HGoto(t, "pop")
  /\ UNCHANGED <<table, running, mutex, sock, cmds, hfd, hrecv, cancel, proc>>

\* peer_cleanup, after the loop or on cancellation.
Cleanup(t) ==
  /\ \/ hpc[t] = "pop" /\ t \notin cancel
     \/ hpc[t] = "cleanup"
  /\ fdt' = Closed(hfd[t])
  /\ HGoto(t, "exit")
  /\ UNCHANGED <<table, running, mutex, sock, cmds, hfd, hrecv, cancel, proc>>

\* pthread_cleanup_pop unregisters peer_cleanup before it calls it: a
\* cancellation that acts at the close() inside just ends the thread.
PopCancelled(t) ==
  /\ hpc[t] = "pop"
  /\ t \in cancel
  /\ HGoto(t, "exit")
  /\ UNCHANGED <<table, running, mutex, kern, cmds, hfd, hrecv, cancel, proc>>

-----------------------------------------------------------------------------
(* The other peers *)

\* Another process connects: the kernel queues the connection.
RemoteConnect(c) ==
  /\ proc = "run"
  /\ sock[c] = "new"
  /\ fdt[ListenFd] = "listener" \/ pc["listener"] = "accepting"
  /\ sock' = [sock EXCEPT ![c] = "backlog"]
  /\ UNCHANGED <<table, running, mutex, fdt, cmds, hnds, proc>>

\* The peer closes its end, or dies.
RemoteClose(c) ==
  /\ proc = "run"
  /\ sock[c] = "est"
  /\ sock' = [sock EXCEPT ![c] = "fin"]
  /\ UNCHANGED <<table, running, mutex, fdt, cmds, hnds, proc>>

-----------------------------------------------------------------------------
(* Next.  Steps a thread takes on its own are apart from what the user and  *)
(* the other peers choose, because only the former are fair.                *)

CreatorStep(w) == \/ Lock(w)
                  \/ Spawn(w) \/ SpawnFails(w)
                  \/ FindSlot(w) \/ Register(w) \/ RegisterFails(w)
                  \/ RejectClose(w) \/ RejectCancel(w)

MainStep == \/ CreatorStep("main")
            \/ MyIpDone \/ ConnectOk \/ ConnectFails
            \/ ListPeers \/ NotFound \/ SendMessage \/ SendRaisesSigpipe
            \/ TerminateClose \/ TerminateCancel
            \/ StopRunning \/ CloseListener \/ JoinListener
            \/ SweepPeer \/ SweepDone \/ DestroyMutex \/ Exit

UserStep == Command \/ MyIp \/ \E c \in Conn : Connect(c)

ListenerStep == \/ CreatorStep("listener")
                \/ CheckRunning \/ AcceptFails \/ AcceptWaits
                \/ \E c \in Conn : Accepted(c)

HandlerStep(t) == \/ Recv(t) \/ RecvEof(t) \/ PrintEnd(t) \/ Cancelled(t)
                  \/ ScanLock(t) \/ Scan(t) \/ HandlerClose(t)
                  \/ Cleanup(t) \/ PopCancelled(t)

RemoteStep == \E c \in Conn : RemoteConnect(c) \/ RemoteClose(c) \/ RecvData(c)

Next == \/ MainStep \/ UserStep \/ ListenerStep \/ RemoteStep
        \/ \E t \in Conn : HandlerStep(t)

Spec == Init /\ [][Next]_vars

\* A thread that can take a step again and again takes one: threads are
\* scheduled, and the mutex does not starve a thread that waits for it.  What
\* the user types, what the peers do and whether data arrives are left open; a
\* command once typed is executed, and send() does not block for ever.
Fairness ==
  /\ SF_vars(MainStep)
  /\ SF_vars(ListenerStep)
  /\ \A t \in Conn : SF_vars(HandlerStep(t))

FairSpec == Spec /\ Fairness

-----------------------------------------------------------------------------
(* Safety *)

TypeOK ==
  /\ peers \in [Slot -> Peer]
  /\ next_peer_id \in Id
  /\ running \in BOOLEAN
  /\ mutex \in {"free", "destroyed"} \cup Creator \cup Conn
  /\ fdt \in [Fd -> {"free", "listener", "reserved", "tmp"} \cup Conn]
  /\ sock \in [Conn -> {"new", "backlog", "unconnected", "est", "fin", "rst"}]
  /\ pc \in [Creator -> DOMAIN Section \cup Inside \cup
               {"prompt", "connect", "myip", "spawn", "full", "reject", "closelistener",
                "join", "destroy", "exiting", "accept", "accepting", "done"}]
  /\ cfd \in [Creator -> Fd]
  /\ ctid \in [Creator -> Conn \cup {"none"}]
  /\ arg \in 0 .. INT_MAX
  /\ entry \in [Creator -> [i : Slot, id : 0 .. INT_MAX - 1]]
  /\ hpc \in [Conn -> {"none", "recv", "blocked", "eof", "lock_scan", "scan", "close",
                       "pop", "cleanup", "exit"}]
  /\ hfd \in [Conn -> Fd]
  /\ hrecv \in [Conn -> Conn \cup {"tmp", "none"}]
  /\ cancel \in SUBSET Conn
  /\ proc \in {"run", "exited", "killed"}

\* A thread is in a critical section exactly while it holds the mutex: every
\* path out of one, the early returns included, unlocks it.  Only a handler
\* that outlives pthread_mutex_destroy scans the table without it.
MutualExclusion ==
  /\ \A w \in Creator : pc[w] \in Inside <=> mutex = w
  /\ \A t \in Conn : /\ mutex = t => hpc[t] = "scan"
                     /\ hpc[t] = "scan" => mutex \in {t, "destroyed"}

\* A command on an id concerns one connection, however the listener's and the
\* user's registrations and the handlers' scans interleave: active slots have
\* distinct ids and distinct handlers, and hold the descriptor number their
\* handler uses.
IdNamesOneConnection ==
  /\ \A s \in Active : /\ peers[s].id \in 1 .. next_peer_id - 1
                       /\ peers[s].thread_id \in Conn
                       /\ hpc[peers[s].thread_id] # "none"
                       /\ hfd[peers[s].thread_id] = peers[s].sockfd
  /\ \A r, s \in Active : r # s => /\ peers[r].id # peers[s].id
                                   /\ peers[r].thread_id # peers[s].thread_id

\* A handler that was cancelled - by terminate, by exit or because the table
\* was full - has no active slot, and gets none later.
CancelledNotListed == \A s \in Active : peers[s].thread_id \notin cancel

\* Somebody still has to close every open descriptor: a connection's is that
\* of its handler, which has not closed it yet, or of the creator that has not
\* yet handed it to a handler.
HandlerCloses(f, c) == hfd[c] = f /\ hpc[c] \notin {"none", "pop", "exit"}
CreatorCloses(f, c) ==
  \E w \in Creator : ctid[w] = c /\ cfd[w] = f /\ pc[w] \in {"connect", "spawn"}

NoDescriptorLeak ==
  \A f \in Fd :
    /\ \A c \in Conn : fdt[f] = c => HandlerCloses(f, c) \/ CreatorCloses(f, c)
    /\ fdt[f] = "tmp" => pc["main"] = "myip" /\ cfd["main"] = f
    /\ fdt[f] = "reserved" => pc["listener"] = "accepting" /\ cfd["listener"] = f

\* When chatapp_shutdown has swept the table nothing registers a connection
\* any more: the listener is gone, because it was joined before the sweep.
SweepIsFinal ==
  pc["main"] \in {"destroy", "exiting"} => Active = {} /\ pc["listener"] = "done"

\* The table implements the registry of PeerRegistry.  A connection is new to it
\* until its creator, which started the handler before, holds the mutex.
IdOf(c) ==
  LET S == {s \in Active : peers[s].thread_id = c}
  IN IF S = {} THEN 0 ELSE peers[CHOOSE s \in S : TRUE].id

Unseen(c) ==
  \/ hpc[c] = "none"
  \/ \E w \in Creator : ctid[w] = c /\ pc[w] \in {"lock_add", "add", "fill"}

Registry == INSTANCE PeerRegistry WITH
  id      <- [c \in Conn |-> IdOf(c)],
  over    <- {c \in Conn : IdOf(c) = 0 /\ ~Unseen(c)},
  next_id <- next_peer_id,
  closed  <- pc["main"] \in {"destroy", "exiting"}

\* add, disconnect, shutdown and the end of a handler, of three kinds of threads at
\* once, each change the table as one step of PeerRegistry: nobody is refused
\* without reason, listed twice, or listed again after he was taken out.
RegistrySpec == Registry!Spec

-----------------------------------------------------------------------------
(* Liveness, under FairSpec *)

\* A handler that was cancelled, or was told by recv() that its connection is
\* over, ends: wherever the request finds it, and although it still has to take
\* the mutex.  None starts again, so there are times when none is on its way out.
Ending(t) == t \in cancel \/ hpc[t] \notin {"none", "recv", "blocked"}

HandlerEnds == []<>(proc # "run" \/ \A t \in Conn : Ending(t) => hpc[t] = "exit")

\* Every command but exit gives the prompt back, whatever the other threads
\* and the peers do; exit gets as far as waiting for the listener.
CommandReturns ==
  pc["main"] \notin {"prompt", "join"} ~> pc["main"] \in {"prompt", "join"} \/ proc # "run"

\* exit completes if a connection is waiting to be accepted.
ExitCompletesOnConnection ==
  ~running /\ (\E c \in Conn : sock[c] = "backlog") ~> proc # "run"

-----------------------------------------------------------------------------
(* What the documentation says of the program, and the program does not do *)

\* "handles communication with a single peer" (chatapp.c:21).
HandlerServesOnePeer == \A t \in Conn : hrecv[t] \in {t, "none"}

\* "Socket descriptor for the connected peer" (chatapp.h:23): as long as a
\* listed connection has a working handler, nobody closes its descriptor but
\* the command that terminates it.
ListedConnectionIsOpen ==
  \A s \in Active : hpc[peers[s].thread_id] \in {"recv", "blocked"} /\ pc["main"] # "cancelling"
                      => fdt[peers[s].sockfd] = peers[s].thread_id

\* "Print the list of currently connected peers" (chatapp.h:71): the handler of
\* a listed connection has not ended.
ListedConnectionIsLive ==
  \A s \in Active : hpc[peers[s].thread_id] # "exit"

\* "Close all connections and terminate the program" (commands.c:20).
ExitTerminates == pc["main"] = "lock_exit" ~> proc # "run"
=============================================================================
