----------------------------- MODULE TaskQueue -----------------------------
(***************************************************************************)
(* The task system of 07-ipc-msg: workers (task_worker) receive tasks from *)
(* a POSIX message queue, dispatchers (task_dispatcher) each send one.     *)
(* The queue has a NAME, /my_task_queue, which every worker unlinks when   *)
(* it starts and when it is interrupted, and which then refers to another  *)
(* queue or to none; a process that opened a queue keeps that queue.  The  *)
(* kernel destroys a queue with its tasks as soon as it has neither the    *)
(* name nor a process that has it open.                                    *)
(*                                                                         *)
(* The README runs one worker.  Nothing stops a user from starting a       *)
(* second one, or from starting one again after Ctrl-C, so the model does. *)
(* The queues are the kernel's: highest priority first, oldest first among *)
(* equals; a send to a full queue and a receive from an empty one wait.    *)
(***************************************************************************)
EXTENDS Integers, Sequences, FiniteSets

CONSTANTS
  Worker, Dispatcher,  (* processes; a dispatcher's task has its name     *)
  MAX_MESSAGES,        (* the capacity of a queue                         *)
  MAX_PRIO,            (* the highest priority, 31 in the code            *)
  Typed,               (* the numbers users type as a priority            *)
  UINT_RANGE,          (* 2^32: the unsigned int that prio is             *)
  MaxQueues            (* bound: how many queues are ever created         *)

ASSUME QueueAssumption ==
  /\ MAX_MESSAGES \in Nat \ {0} /\ MAX_PRIO \in Nat /\ MaxQueues \in Nat
  /\ Typed \subseteq Int /\ UINT_RANGE \in Nat \ {0}

VARIABLES
  name,      (* the queue that QUEUE_NAME refers to, 0 for none           *)
  created,   (* how many queues have been created                         *)
  queue,     (* queues: the messages [task, prio] in it, the next to be
                received first                                            *)
  wpc,       (* workers: "off", "create", "signal", "loop", "busy",
                "cleanup"                                                 *)
  wmq,       (* workers: the queue mq refers to, 0 for none               *)
  hand,      (* workers: the task received and not processed yet, or none *)
  dpc,       (* dispatchers: "off", "open", "send", "sent", "failed"      *)
  dmq, prio, (* dispatchers: mq and prio, 0 once the process has ended    *)
  runs,      (* how often each task has been processed                    *)
  lost,      (* the tasks that went with a queue or with a worker         *)
  early,     (* a worker was interrupted before its signal()              *)
  interrupted, (* a worker was interrupted after its mq_open              *)
  overlap    (* two workers have run at the same time                     *)

workers     == <<wpc, wmq, hand>>
dispatchers == <<dpc, dmq, prio>>
signals     == <<early, interrupted, overlap>>
history     == <<runs, lost, signals>>
vars        == <<name, created, queue, workers, dispatchers, history>>

Queue == 1 .. MaxQueues

Init ==
  /\ name = 0 /\ created = 0
  /\ queue = [q \in Queue |-> << >>]
  /\ wpc = [w \in Worker |-> "off"]
  /\ wmq = [w \in Worker |-> 0]
  /\ hand = [w \in Worker |-> {}]
  /\ dpc = [d \in Dispatcher |-> "off"]
  /\ dmq = [d \in Dispatcher |-> 0]
  /\ prio = [d \in Dispatcher |-> 0]
  /\ runs = [d \in Dispatcher |-> 0]
  /\ lost = {}
  /\ early = FALSE /\ interrupted = FALSE /\ overlap = FALSE

-----------------------------------------------------------------------------
(* The kernel                                                                *)

Tasks(s) == {s[i].task : i \in 1 .. Len(s)}

\* The queues without the name n that nobody has open.
Unused(n, ws, ds) ==
  {q \in Queue \ {n} : /\ \A w \in Worker : ws[w] # q
                       /\ \A d \in Dispatcher : ds[d] # q}

\* Of the queues s, those that a step leaves unused are destroyed, and of the
\* tasks of the workers those are lost that a worker drops.
Release(s, dropped) ==
  LET gone == Unused(name', wmq', dmq') IN
  /\ queue' = [q \in Queue |-> IF q \in gone THEN << >> ELSE s[q]]
  /\ lost' = lost \cup dropped \cup UNION {Tasks(s[q]) : q \in gone}

-----------------------------------------------------------------------------
(* task_worker                                                               *)

Goto(w, from, to) == wpc[w] = from /\ wpc' = [wpc EXCEPT ![w] = to]

\* main: mq_unlink, which takes the name; a queue somebody has open stays.
Start(w) ==
  /\ created < MaxQueues
  /\ Goto(w, "off", "create")
  /\ name' = 0
  /\ overlap' = (overlap \/ \E v \in Worker \ {w} : wpc[v] # "off")
  /\ UNCHANGED <<created, wmq, hand, dispatchers, runs, early, interrupted>>
  /\ Release(queue, {})

\* mq_open with O_CREAT and without O_EXCL.
Create(w) ==
  /\ \/ /\ name # 0 /\ wmq' = [wmq EXCEPT ![w] = name]
        /\ UNCHANGED <<name, created>>
     \/ /\ name = 0 /\ created < MaxQueues
        /\ created' = created + 1 /\ name' = created + 1
        /\ wmq' = [wmq EXCEPT ![w] = created + 1]
  /\ Goto(w, "create", "signal")
  /\ UNCHANGED <<queue, hand, dispatchers, history>>

CreateFails(w) ==
  /\ Goto(w, "create", "off")
  /\ UNCHANGED <<name, created, queue, wmq, hand, dispatchers, history>>

InstallHandler(w) ==
  /\ Goto(w, "signal", "loop")
  /\ UNCHANGED <<name, created, queue, wmq, hand, dispatchers, history>>

\* Variant: the message stays in the queue.
ReceivePeeking(w) ==
  LET q == wmq[w] IN
  /\ Goto(w, "loop", "busy") /\ queue[q] # << >>
  /\ hand' = [hand EXCEPT ![w] = {Head(queue[q]).task}]
  /\ UNCHANGED <<name, created, queue, wmq, dispatchers, runs, lost, signals>>

\* Variant: the worker polls for more than one message.
ReceiveLeavingOne(w) ==
  LET q == wmq[w] IN
  /\ Goto(w, "loop", "busy") /\ Len(queue[q]) > 1
  /\ queue' = [queue EXCEPT ![q] = Tail(@)]
  /\ hand' = [hand EXCEPT ![w] = {Head(queue[q]).task}]
  /\ UNCHANGED <<name, created, wmq, dispatchers, runs, lost, signals>>

\* mq_receive.
Receive(w) ==
  LET q == wmq[w] IN
  /\ Goto(w, "loop", "busy") /\ queue[q] # << >>
  /\ queue' = [queue EXCEPT ![q] = Tail(@)]
  /\ hand' = [hand EXCEPT ![w] = {Head(queue[q]).task}]
  /\ UNCHANGED <<name, created, wmq, dispatchers, runs, lost, signals>>

\* The task is printed; the sleep that follows ends like any wait.
Process(w) ==
  /\ Goto(w, "busy", "loop")
  /\ runs' = [d \in Dispatcher |-> IF d \in hand[w] THEN runs[d] + 1 ELSE runs[d]]
  /\ hand' = [hand EXCEPT ![w] = {}]
  /\ UNCHANGED <<name, created, queue, wmq, dispatchers, lost, signals>>

\* SIGINT kills the worker, whose descriptor is closed, until signal() has
\* installed cleanup, which drops the task at hand.
Interrupt(w) ==
  /\ \/ /\ wpc[w] \in {"create", "signal"}
        /\ wpc' = [wpc EXCEPT ![w] = "off"]
        /\ wmq' = [wmq EXCEPT ![w] = 0]
        /\ early' = (early \/ wpc[w] = "signal")
     \/ /\ wpc[w] \in {"loop", "busy"}
        /\ wpc' = [wpc EXCEPT ![w] = "cleanup"]
        /\ UNCHANGED <<wmq, early>>
  /\ interrupted' = (interrupted \/ wpc[w] # "create")
  /\ hand' = [hand EXCEPT ![w] = {}]
  /\ UNCHANGED <<name, created, dispatchers, runs, overlap>>
  /\ Release(queue, hand[w])

\* Variant: cleanup does not unlink.
CleanupKeeping(w) ==
  /\ Goto(w, "cleanup", "off")
  /\ wmq' = [wmq EXCEPT ![w] = 0]
  /\ UNCHANGED <<name, created, hand, dispatchers, runs, signals>>
  /\ Release(queue, {})

\* cleanup: mq_close, and mq_unlink, whatever queue has the name now.
Cleanup(w) ==
  /\ Goto(w, "cleanup", "off")
  /\ wmq' = [wmq EXCEPT ![w] = 0]
  /\ name' = 0
  /\ UNCHANGED <<created, hand, dispatchers, runs, signals>>
  /\ Release(queue, {})

-----------------------------------------------------------------------------
(* task_dispatcher                                                           *)

Step(d, from, to) == dpc[d] = from /\ dpc' = [dpc EXCEPT ![d] = to]

\* Variant: the number is compared as an int.
DispatchSigned(d) ==
  /\ \E n \in Typed :
       IF n > MAX_PRIO
       THEN Step(d, "off", "failed") /\ UNCHANGED prio
       ELSE Step(d, "off", "open") /\ prio' = [prio EXCEPT ![d] = n % UINT_RANGE]
  /\ UNCHANGED <<name, created, queue, workers, dmq, history>>

\* prio = atoi(argv[1]) as an unsigned int: a negative number is a large one.
Dispatch(d) ==
  /\ \E n \in Typed :
       LET p == n % UINT_RANGE IN
       IF p > MAX_PRIO THEN Step(d, "off", "failed") /\ UNCHANGED prio
                       ELSE Step(d, "off", "open") /\ prio' = [prio EXCEPT ![d] = p]
  /\ UNCHANGED <<name, created, queue, workers, dmq, history>>

\* mq_open without O_CREAT; a task longer than the queue's messages is then
\* refused by mq_send at once.
OpenQueue(d) ==
  /\ \/ /\ name # 0
        /\ Step(d, "open", "send") /\ dmq' = [dmq EXCEPT ![d] = name]
        /\ UNCHANGED prio
     \/ /\ Step(d, "open", "failed") /\ prio' = [prio EXCEPT ![d] = 0]
        /\ UNCHANGED dmq
  /\ UNCHANGED <<name, created, queue, workers, history>>

Exit(d) == dmq' = [dmq EXCEPT ![d] = 0] /\ prio' = [prio EXCEPT ![d] = 0]

\* mq_send: behind all messages of the same or a higher priority; and the end of
\* the process, which closes its queue.
Send(d) ==
  LET s == queue[dmq[d]]
      n == Cardinality({i \in 1 .. Len(s) : s[i].prio >= prio[d]})
      m == [task |-> d, prio |-> prio[d]]
  IN
  /\ Step(d, "send", "sent")
  /\ Len(s) < MAX_MESSAGES
  /\ Exit(d)
  /\ UNCHANGED <<name, created, workers, runs, signals>>
  /\ Release([queue EXCEPT ![dmq[d]] =
                SubSeq(s, 1, n) \o <<m>> \o SubSeq(s, n + 1, Len(s))], {})

-----------------------------------------------------------------------------
Work(w) ==
  \/ Create(w) \/ CreateFails(w) \/ InstallHandler(w)
  \/ Receive(w) \/ Process(w) \/ Cleanup(w)

DispatchStep(d) == OpenQueue(d) \/ Send(d)

Next ==
  \/ \E w \in Worker : Start(w) \/ Interrupt(w) \/ Work(w)
  \/ \E d \in Dispatcher : Dispatch(d) \/ DispatchStep(d)

Spec == Init /\ [][Next]_vars

\* Processes run.  Nobody has to start or to interrupt one.
FairSpec ==
  /\ Spec
  /\ \A w \in Worker : WF_vars(Work(w))
  /\ \A d \in Dispatcher : WF_vars(DispatchStep(d))

-----------------------------------------------------------------------------
TypeOK ==
  /\ created \in 0 .. MaxQueues /\ name \in 0 .. created
  /\ queue \in [Queue -> Seq([task : Dispatcher, prio : 0 .. MAX_PRIO])]
  /\ \A q \in Queue : Len(queue[q]) <= MAX_MESSAGES
  /\ wpc \in [Worker -> {"off", "create", "signal", "loop", "busy", "cleanup"}]
  /\ wmq \in [Worker -> 0 .. created]
  /\ hand \in [Worker -> SUBSET Dispatcher]
  /\ dpc \in [Dispatcher -> {"off", "open", "send", "sent", "failed"}]
  /\ dmq \in [Dispatcher -> 0 .. created]
  /\ prio \in [Dispatcher -> 0 .. MAX_PRIO]
  /\ runs \in [Dispatcher -> Nat]
  /\ lost \subseteq Dispatcher
  /\ early \in BOOLEAN /\ interrupted \in BOOLEAN /\ overlap \in BOOLEAN

\* A task that was sent waits in one queue, is in the hands of one worker, was
\* processed once, or is lost, and only one of these; and none is lost unless a
\* worker was interrupted: not by restarts, not by two workers at one name, not at
\* a full queue.
TaskInOnePlace ==
  /\ \A d \in Dispatcher :
       Cardinality({p \in Queue \X (1 .. MAX_MESSAGES) :
                      p[2] <= Len(queue[p[1]]) /\ queue[p[1]][p[2]].task = d})
         + Cardinality({w \in Worker : d \in hand[w]})
         + runs[d]
         + (IF d \in lost THEN 1 ELSE 0)
       = IF dpc[d] = "sent" THEN 1 ELSE 0
  /\ lost # {} => interrupted

\* No queue keeps its name when all workers have gone, "so that no orphan queue
\* is left in /dev/mqueue" (README.md:90), and while a worker is alone the name is
\* its queue's, whatever its predecessors left.  The exceptions: a worker killed
\* between mq_open (task_worker.c:44) and signal (task_worker.c:51) leaves its
\* queue; a second worker takes the name from the first, and gives it up for both.
NameHasReader ==
  /\ (\A w \in Worker : wpc[w] = "off") /\ name # 0 => early
  /\ \A w \in Worker : wpc[w] \in {"signal", "loop", "busy"} /\ ~overlap => name = wmq[w]

\* All that is in a queue, or on the way into it - also while it is full - is
\* received and processed, unless no worker reads the queue (any more): then a
\* dispatcher may wait at it for ever, and the queue lasts as long as it waits.
TaskServed ==
  \A q \in Queue :
    LET busy == \/ queue[q] # << >>
                \/ \E d \in Dispatcher : dpc[d] = "send" /\ dmq[d] = q
                \/ \E w \in Worker : wpc[w] = "busy" /\ wmq[w] = q
    IN busy ~> (~busy \/ \A w \in Worker : wmq[w] # q)
=============================================================================
