---------------------------- MODULE TaskQueueProofs ----------------------------
(***************************************************************************)
(* Theorems about TaskQueue, for any number of workers, dispatchers and    *)
(* queues of any size, whatever priorities users type.                     *)
(***************************************************************************)
EXTENDS TaskQueue, FiniteSetTheorems, SequenceTheorems, TLAPS

USE DEF workers, dispatchers, signals, history, vars

Msg == [task : Dispatcher, prio : 0 .. MAX_PRIO]

-----------------------------------------------------------------------------
(* The kernel's queue                                                        *)

\* The messages that one of priority p goes behind.
Ahead(s, p) == {i \in 1 .. Len(s) : s[i].prio >= p}

Inserted(s, n, m) == SubSeq(s, 1, n) \o <<m>> \o SubSeq(s, n + 1, Len(s))

LEMMA AheadCount ==
  ASSUME NEW s \in Seq(Msg), NEW p
  PROVE  IsFiniteSet(Ahead(s, p)) /\ Cardinality(Ahead(s, p)) \in 0 .. Len(s)
<1>1. Len(s) \in Nat
      OBVIOUS
<1>2. IsFiniteSet(1 .. Len(s)) /\ Cardinality(1 .. Len(s)) = Len(s)
      BY <1>1, FS_Interval
<1>3. Ahead(s, p) \in SUBSET (1 .. Len(s))
      BY DEF Ahead
<1>4. IsFiniteSet(Ahead(s, p)) /\ Cardinality(Ahead(s, p)) <= Len(s)
      BY <1>2, <1>3, FS_Subset
<1> QED
    BY <1>1, <1>4, FS_CardinalityType

LEMMA InsertedAt ==
  ASSUME NEW s \in Seq(Msg), NEW n \in 0 .. Len(s), NEW m \in Msg
  PROVE  /\ Inserted(s, n, m) \in Seq(Msg)
         /\ Len(Inserted(s, n, m)) = Len(s) + 1
         /\ \A i \in 1 .. n : Inserted(s, n, m)[i] = s[i]
         /\ Inserted(s, n, m)[n + 1] = m
         /\ \A i \in n + 1 .. Len(s) : Inserted(s, n, m)[i + 1] = s[i]
<1> DEFINE a == SubSeq(s, 1, n)
           b == <<m>>
           c == SubSeq(s, n + 1, Len(s))
<1>1. Len(s) \in Nat /\ n \in Nat /\ n <= Len(s) /\ \A i \in 1 .. Len(s) : s[i] \in Msg
      OBVIOUS
<1>2. a \in Seq(Msg) /\ Len(a) = n /\ \A i \in 1 .. n : a[i] = s[i]
  <2>1. 1 \in Int /\ n \in Int /\ \A i \in 1 .. n : s[i] \in Msg
        BY <1>1
  <2>2. /\ a \in Seq(Msg) /\ Len(a) = IF 1 <= n THEN n - 1 + 1 ELSE 0
        /\ \A i \in 1 .. n - 1 + 1 : a[i] = s[1 + i - 1]
        BY <2>1, SubSeqProperties
  <2>3. Len(a) = n
        BY <2>2, <1>1
  <2> HIDE DEF a
  <2>4. \A i \in 1 .. n : a[i] = s[i]
    <3> TAKE i \in 1 .. n
    <3>1. n - 1 + 1 = n /\ 1 + i - 1 = i
          BY <1>1
    <3> QED
        BY <3>1, <2>2
  <2> QED
      BY <2>2, <2>3, <2>4
<1>3. b \in Seq(Msg) /\ Len(b) = 1 /\ b[1] = m
      OBVIOUS
<1>4. c \in Seq(Msg) /\ Len(c) = Len(s) - n /\ \A i \in 1 .. Len(s) - n : c[i] = s[n + i]
  <2>1. n + 1 \in Int /\ Len(s) \in Int /\ \A i \in n + 1 .. Len(s) : s[i] \in Msg
        BY <1>1
  <2>2. /\ c \in Seq(Msg) /\ Len(c) = IF n + 1 <= Len(s) THEN Len(s) - (n + 1) + 1 ELSE 0
        /\ \A i \in 1 .. Len(s) - (n + 1) + 1 : c[i] = s[n + 1 + i - 1]
        BY <2>1, SubSeqProperties
  <2>3. Len(c) = Len(s) - n
        BY <2>2, <1>1
  <2> HIDE DEF c
  <2>4. \A i \in 1 .. Len(s) - n : c[i] = s[n + i]
    <3> TAKE i \in 1 .. Len(s) - n
    <3>1. Len(s) - (n + 1) + 1 = Len(s) - n /\ n + 1 + i - 1 = n + i
          BY <1>1
    <3> QED
        BY <3>1, <2>2
  <2> QED
      BY <2>2, <2>3, <2>4
<1> HIDE DEF a, b, c
<1>5. /\ a \o b \in Seq(Msg) /\ Len(a \o b) = n + 1
      /\ \A i \in 1 .. n : (a \o b)[i] = s[i]
      /\ (a \o b)[n + 1] = m
  <2>1. /\ a \o b \in Seq(Msg) /\ Len(a \o b) = Len(a) + Len(b)
        /\ \A i \in 1 .. Len(a) + Len(b) :
             (a \o b)[i] = IF i <= Len(a) THEN a[i] ELSE b[i - Len(a)]
        BY <1>2, <1>3, ConcatProperties
  <2> QED
      BY <2>1, <1>1, <1>2, <1>3
<1> DEFINE ab == a \o b
<1> HIDE DEF ab
<1>6. /\ ab \o c \in Seq(Msg) /\ Len(ab \o c) = n + 1 + (Len(s) - n)
      /\ \A i \in 1 .. n + 1 + (Len(s) - n) :
           (ab \o c)[i] = IF i <= n + 1 THEN ab[i] ELSE c[i - (n + 1)]
  <2>1. ab \in Seq(Msg) /\ Len(ab) = n + 1
        BY <1>5 DEF ab
  <2>2. /\ ab \o c \in Seq(Msg) /\ Len(ab \o c) = Len(ab) + Len(c)
        /\ \A i \in 1 .. Len(ab) + Len(c) :
             (ab \o c)[i] = IF i <= Len(ab) THEN ab[i] ELSE c[i - Len(ab)]
        BY <2>1, <1>4, ConcatProperties
  <2> QED
      BY <2>1, <2>2, <1>4
<1> DEFINE r == ab \o c
<1>7. r = Inserted(s, n, m)
      BY DEF Inserted, a, b, c, ab
<1> HIDE DEF r
<1>8. /\ r \in Seq(Msg) /\ Len(r) = Len(s) + 1
      /\ \A i \in 1 .. Len(s) + 1 : r[i] = IF i <= n + 1 THEN ab[i] ELSE c[i - (n + 1)]
  <2>1. n + 1 + (Len(s) - n) = Len(s) + 1
        BY <1>1
  <2> QED
      BY <2>1, <1>6 DEF r
<1>9. \A i \in 1 .. n : r[i] = s[i]
  <2> TAKE i \in 1 .. n
  <2>1. i \in 1 .. Len(s) + 1 /\ i <= n + 1
        BY <1>1
  <2>2. ab[i] = s[i]
        BY <1>5 DEF ab
  <2> QED
      BY <1>8, <2>1, <2>2
<1>10. r[n + 1] = m
      BY <1>1, <1>5, <1>8 DEF ab
<1>11. \A i \in n + 1 .. Len(s) : r[i + 1] = s[i]
  <2> TAKE i \in n + 1 .. Len(s)
  <2>1. i + 1 \in 1 .. Len(s) + 1 /\ ~(i + 1 <= n + 1) /\ i + 1 - (n + 1) = i - n
        BY <1>1
  <2>2. r[i + 1] = c[i - n]
        BY <1>8, <2>1
  <2>3. i - n \in 1 .. Len(s) - n /\ n + (i - n) = i
        BY <1>1
  <2> QED
      BY <1>4, <2>2, <2>3
<1> QED
    BY <1>7, <1>8, <1>9, <1>10, <1>11

-----------------------------------------------------------------------------
(* Types                                                                     *)

\* Whoever reads or sends has a queue.
Connected ==
  /\ \A w \in Worker : wpc[w] \in {"signal", "loop", "busy", "cleanup"} => wmq[w] # 0
  /\ \A d \in Dispatcher : dpc[d] = "send" => dmq[d] # 0

TypeInv == TypeOK /\ Connected

\* What TypeOK says of the queues.
Queues(s) == s \in [Queue -> Seq(Msg)] /\ \A q \in Queue : Len(s[q]) <= MAX_MESSAGES

LEMMA QueueNumbers ==
  ASSUME TypeOK
  PROVE  /\ created \in Nat /\ created <= MaxQueues
         /\ \A q \in 0 .. created : q # 0 => q \in Queue
BY QueueAssumption DEF TypeOK, Queue

LEMMA TypeInit == Init => TypeInv
<1> SUFFICES ASSUME Init PROVE TypeInv
    OBVIOUS
<1>1. << >> \in Seq(Msg) /\ Len(<< >>) = 0
      BY EmptySeq
<1>2. queue \in [Queue -> Seq(Msg)] /\ \A q \in Queue : Len(queue[q]) <= MAX_MESSAGES
      BY <1>1, QueueAssumption DEF Init
<1>3. created \in 0 .. MaxQueues /\ name \in 0 .. created /\ 0 \in 0 .. MAX_PRIO
      /\ MAX_PRIO \in 0 .. MAX_PRIO
      BY QueueAssumption DEF Init
<1> QED
    BY <1>2, <1>3 DEF Init, TypeInv, TypeOK, Connected, Msg

\* What is left once the unused queues are destroyed.
LEMMA Released ==
  ASSUME NEW s, Queues(s), NEW dropped \in SUBSET Dispatcher, lost \subseteq Dispatcher,
         Release(s, dropped)
  PROVE  Queues(queue') /\ lost' \subseteq Dispatcher
<1>1. PICK gone \in SUBSET Queue :
        /\ queue' = [q \in Queue |-> IF q \in gone THEN << >> ELSE s[q]]
        /\ lost' = lost \cup dropped \cup UNION {Tasks(s[q]) : q \in gone}
      BY DEF Release, Unused
<1>2. << >> \in Seq(Msg) /\ Len(<< >>) = 0 /\ 0 <= MAX_MESSAGES
      BY EmptySeq, QueueAssumption
<1>3. queue' \in [Queue -> Seq(Msg)]
      BY <1>1, <1>2 DEF Queues
<1>4. \A q \in Queue : Len(queue'[q]) <= MAX_MESSAGES
      BY <1>1, <1>2 DEF Queues
<1>5. \A q \in Queue : Tasks(s[q]) \subseteq Dispatcher
  <2> TAKE q \in Queue
  <2>1. s[q] \in Seq(Msg)
        BY DEF Queues
  <2>2. \A i \in 1 .. Len(s[q]) : s[q][i] \in Msg
        BY <2>1
  <2> QED
      BY <2>2 DEF Tasks, Msg
<1> QED
    BY <1>1, <1>3, <1>4, <1>5 DEF Queues

\* What a worker receives.
LEMMA Received ==
  ASSUME TypeInv, NEW w \in Worker, Receive(w)
  PROVE  /\ wmq[w] \in Queue /\ queue[wmq[w]] \in Seq(Msg) /\ queue[wmq[w]] # << >>
         /\ Len(queue[wmq[w]]) \in Nat \ {0}
         /\ Head(queue[wmq[w]]) = queue[wmq[w]][1] /\ queue[wmq[w]][1] \in Msg
         /\ Tail(queue[wmq[w]]) \in Seq(Msg)
         /\ Len(Tail(queue[wmq[w]])) = Len(queue[wmq[w]]) - 1
         /\ \A i \in 1 .. Len(queue[wmq[w]]) - 1 :
              Tail(queue[wmq[w]])[i] = queue[wmq[w]][i + 1]
<1> DEFINE s == queue[wmq[w]]
<1>1. wmq[w] \in Queue
      BY QueueNumbers DEF Receive, Goto, TypeInv, TypeOK, Connected
<1>2. s \in Seq(Msg) /\ s # << >>
      BY <1>1 DEF Receive, TypeInv, TypeOK, Msg
<1> HIDE DEF s
<1>3. Len(s) \in Nat \ {0} /\ Head(s) = s[1] /\ s[1] \in Msg
  <2>1. Len(s) \in Nat \ {0}
        BY <1>2, EmptySeq
  <2> QED
      BY <1>2, <2>1
<1>4. Tail(s) \in Seq(Msg) /\ Len(Tail(s)) = Len(s) - 1 /\ \A i \in 1 .. Len(s) - 1 : Tail(s)[i] = s[i + 1]
      BY <1>2, HeadTailProperties
<1> QED
    BY <1>1, <1>2, <1>3, <1>4 DEF s

\* The queues once a message is received.
LEMMA QueuesReceive ==
  ASSUME TypeInv, NEW w \in Worker, Receive(w)
  PROVE  Queues(queue')
<1> DEFINE q == wmq[w]
<1>1. /\ q \in Queue /\ Tail(queue[q]) \in Seq(Msg)
      /\ Len(Tail(queue[q])) = Len(queue[q]) - 1 /\ Len(queue[q]) \in Nat
      BY Received
<1>2. queue' = [queue EXCEPT ![q] = Tail(queue[q])]
      BY Zenon DEF Receive
<1>0. queue \in [Queue -> Seq(Msg)] /\ \A r \in Queue : Len(queue[r]) <= MAX_MESSAGES
      BY DEF TypeInv, TypeOK, Msg
<1>3. queue' \in [Queue -> Seq(Msg)]
      BY <1>0, <1>1, <1>2
<1>4. \A r \in Queue : Len(queue'[r]) <= MAX_MESSAGES
  <2> TAKE r \in Queue
  <2>1. CASE r = q
        BY <1>0, <1>1, <1>2, <2>1, QueueAssumption
  <2>2. CASE r # q
        BY <1>0, <1>2, <2>2
  <2> QED
      BY <2>1, <2>2
<1> QED
    BY <1>3, <1>4 DEF Queues

\* Where a message goes, before any queue is destroyed.
LEMMA SentTo ==
  ASSUME TypeInv, NEW d \in Dispatcher, Send(d),
         NEW s, s = queue[dmq[d]], NEW n, n = Cardinality(Ahead(s, prio[d])),
         NEW m, m = [task |-> d, prio |-> prio[d]]
  PROVE  /\ dmq[d] \in Queue /\ s \in Seq(Msg) /\ n \in 0 .. Len(s) /\ m \in Msg
         /\ Len(s) < MAX_MESSAGES
         /\ Release([queue EXCEPT ![dmq[d]] = Inserted(s, n, m)], {})
<1>1. dmq[d] \in Queue
      BY QueueNumbers DEF Send, Step, TypeInv, TypeOK, Connected
<1>2. s \in Seq(Msg) /\ m \in Msg
      BY <1>1 DEF TypeInv, TypeOK, Msg
<1>3. n \in 0 .. Len(s)
      BY <1>2, AheadCount
<1>4. Len(s) < MAX_MESSAGES
      BY DEF Send
<1>5. Release([queue EXCEPT ![dmq[d]] = Inserted(s, n, m)], {})
      BY Zenon DEF Send, Ahead, Inserted
<1> QED
    BY <1>1, <1>2, <1>3, <1>4, <1>5

LEMMA QueuesSend ==
  ASSUME TypeInv, NEW q \in Queue, NEW n \in 0 .. Len(queue[q]), NEW m \in Msg,
         Len(queue[q]) < MAX_MESSAGES
  PROVE  Queues([queue EXCEPT ![q] = Inserted(queue[q], n, m)])
<1> DEFINE r == Inserted(queue[q], n, m)
           s == [queue EXCEPT ![q] = r]
<1>0. queue \in [Queue -> Seq(Msg)] /\ \A u \in Queue : Len(queue[u]) <= MAX_MESSAGES
      BY DEF TypeInv, TypeOK, Msg
<1>1. r \in Seq(Msg) /\ Len(r) = Len(queue[q]) + 1
      BY <1>0, InsertedAt
<1>2. Len(r) <= MAX_MESSAGES
      BY <1>0, <1>1, QueueAssumption
<1> HIDE DEF r
<1>3. s \in [Queue -> Seq(Msg)] /\ \A u \in Queue : Len(s[u]) <= MAX_MESSAGES
      BY <1>0, <1>1, <1>2
<1> QED
    BY <1>3 DEF Queues, r

LEMMA TypeNext == TypeInv /\ [Next]_vars => TypeInv'
<1> SUFFICES ASSUME TypeInv, [Next]_vars PROVE TypeInv'
    OBVIOUS
<1>0. /\ created \in Nat /\ MaxQueues \in Nat /\ MAX_PRIO \in Nat /\ MAX_MESSAGES \in Nat
      /\ 0 \in 0 .. MAX_PRIO /\ 0 \in 0 .. created
      BY QueueNumbers, QueueAssumption DEF TypeInv
<1>q. /\ Queues(queue) /\ lost \subseteq Dispatcher /\ {} \in SUBSET Dispatcher
      /\ \A w \in Worker : hand[w] \in SUBSET Dispatcher
      BY DEF TypeInv, TypeOK, Queues, Msg
<1>1. ASSUME NEW w \in Worker, Start(w) PROVE TypeInv'
  <2>1. Queues(queue') /\ lost' \subseteq Dispatcher
        BY <1>q, <1>1, Released DEF Start
  <2>2. /\ wpc' = [wpc EXCEPT ![w] = "create"] /\ name' = 0 /\ overlap' \in BOOLEAN
        /\ UNCHANGED <<created, wmq, hand, dispatchers, runs, early, interrupted>>
        BY <1>1 DEF Start, Goto, TypeInv, TypeOK
  <2> QED
      BY <1>0, <2>1, <2>2 DEF TypeInv, TypeOK, Connected, Queues, Msg
<1>2. ASSUME NEW w \in Worker, Create(w) PROVE TypeInv'
  <2>1. /\ created' \in 0 .. MaxQueues /\ created <= created' /\ created' \in Nat
        /\ name' \in 0 .. created' /\ name' # 0
        /\ wmq' = [wmq EXCEPT ![w] = name']
        BY <1>0, <1>2 DEF Create, TypeInv, TypeOK
  <2>2. wmq' \in [Worker -> 0 .. created'] /\ dmq' \in [Dispatcher -> 0 .. created']
        BY <1>0, <1>2, <2>1 DEF Create, TypeInv, TypeOK
  <2> QED
      BY <1>2, <2>1, <2>2 DEF Create, Goto, TypeInv, TypeOK, Connected
<1>3. ASSUME NEW w \in Worker, CreateFails(w) \/ InstallHandler(w) PROVE TypeInv'
      BY <1>3 DEF CreateFails, InstallHandler, Goto, TypeInv, TypeOK, Connected
<1>4. ASSUME NEW w \in Worker, Receive(w) PROVE TypeInv'
  <2> DEFINE q == wmq[w]
  <2>1. q \in Queue /\ queue[q][1] \in Msg /\ Head(queue[q]) = queue[q][1]
        BY <1>4, Received
  <2>2. Queues(queue')
        BY <1>4, QueuesReceive
  <2>3. Head(queue[q]).task \in Dispatcher /\ Head(queue[q]).prio \in 0 .. MAX_PRIO
        BY <2>1 DEF Msg
  <2>4. /\ hand' = [hand EXCEPT ![w] = {Head(queue[q]).task}]
        /\ wpc[w] = "loop" /\ wpc' = [wpc EXCEPT ![w] = "busy"]
        /\ UNCHANGED <<name, created, wmq, dispatchers, runs, lost, signals>>
        BY <1>4, Zenon DEF Receive, Goto
  <2> HIDE DEF q
  <2>5. hand' \in [Worker -> SUBSET Dispatcher]
        BY <2>3, <2>4 DEF TypeInv, TypeOK
  <2> QED
      BY <2>2, <2>4, <2>5 DEF TypeInv, TypeOK, Connected, Queues, Msg
<1>p. ASSUME NEW w \in Worker, Process(w) PROVE TypeInv'
  <2>1. runs' \in [Dispatcher -> Nat]
    <3>1. \A d \in Dispatcher : runs[d] \in Nat /\ runs[d] + 1 \in Nat
          BY DEF TypeInv, TypeOK
    <3>2. runs' = [d \in Dispatcher |-> IF d \in hand[w] THEN runs[d] + 1 ELSE runs[d]]
          BY <1>p DEF Process
    <3> QED
        BY <3>1, <3>2
  <2>2. /\ wpc[w] = "busy" /\ wpc' = [wpc EXCEPT ![w] = "loop"]
        /\ hand' = [hand EXCEPT ![w] = {}]
        /\ UNCHANGED <<name, created, queue, wmq, dispatchers, lost, signals>>
        BY <1>p, Zenon DEF Process, Goto
  <2> QED
      BY <2>1, <2>2 DEF TypeInv, TypeOK, Connected
<1>5. ASSUME NEW w \in Worker, Interrupt(w) PROVE TypeInv'
  <2>1. Queues(queue') /\ lost' \subseteq Dispatcher
        BY <1>q, <1>5, Released DEF Interrupt
  <2>2. /\ \/ /\ wpc[w] \in {"create", "signal"} /\ wpc' = [wpc EXCEPT ![w] = "off"]
              /\ wmq' = [wmq EXCEPT ![w] = 0] /\ early' = (early \/ wpc[w] = "signal")
           \/ /\ wpc[w] \in {"loop", "busy"} /\ wpc' = [wpc EXCEPT ![w] = "cleanup"]
              /\ UNCHANGED <<wmq, early>>
        /\ interrupted' = (interrupted \/ wpc[w] # "create")
        /\ hand' = [hand EXCEPT ![w] = {}]
        /\ UNCHANGED <<name, created, dispatchers, runs, overlap>>
        BY <1>5 DEF Interrupt
  <2> QED
      BY <1>0, <2>1, <2>2 DEF TypeInv, TypeOK, Connected, Queues, Msg
<1>6. ASSUME NEW w \in Worker, Cleanup(w) PROVE TypeInv'
  <2>1. Queues(queue') /\ lost' \subseteq Dispatcher
        BY <1>q, <1>6, Released DEF Cleanup
  <2>2. /\ wpc' = [wpc EXCEPT ![w] = "off"] /\ wmq' = [wmq EXCEPT ![w] = 0] /\ name' = 0
        /\ UNCHANGED <<created, hand, dispatchers, runs, signals>>
        BY <1>6 DEF Cleanup, Goto
  <2> QED
      BY <1>0, <2>1, <2>2 DEF TypeInv, TypeOK, Connected, Queues, Msg
<1>7. ASSUME NEW d \in Dispatcher, Dispatch(d) PROVE TypeInv'
  <2>1. PICK n \in Typed :
          IF n % UINT_RANGE > MAX_PRIO
            THEN Step(d, "off", "failed") /\ UNCHANGED prio
            ELSE Step(d, "off", "open") /\ prio' = [prio EXCEPT ![d] = n % UINT_RANGE]
        BY <1>7 DEF Dispatch
  <2>2. n \in Int /\ n % UINT_RANGE \in Nat
        BY QueueAssumption
  <2>3. prio' \in [Dispatcher -> 0 .. MAX_PRIO]
    <3>1. CASE n % UINT_RANGE > MAX_PRIO
          BY <2>1, <3>1 DEF TypeInv, TypeOK
    <3>2. CASE ~(n % UINT_RANGE > MAX_PRIO)
      <4>1. n % UINT_RANGE \in 0 .. MAX_PRIO
            BY <1>0, <2>2, <3>2
      <4> QED
          BY <2>1, <3>2, <4>1 DEF TypeInv, TypeOK
    <3> QED
        BY <3>1, <3>2
  <2>4. dpc' = [dpc EXCEPT ![d] = "failed"] \/ dpc' = [dpc EXCEPT ![d] = "open"]
        BY <2>1 DEF Step
  <2> QED
      BY <1>7, <2>3, <2>4 DEF Dispatch, TypeInv, TypeOK, Connected
<1>8. ASSUME NEW d \in Dispatcher, OpenQueue(d) PROVE TypeInv'
  <2>1. \/ /\ name # 0 /\ dpc' = [dpc EXCEPT ![d] = "send"]
           /\ dmq' = [dmq EXCEPT ![d] = name] /\ UNCHANGED prio
        \/ /\ dpc' = [dpc EXCEPT ![d] = "failed"] /\ UNCHANGED dmq
           /\ prio' = [prio EXCEPT ![d] = 0]
        BY <1>8 DEF OpenQueue, Step
  <2>2. UNCHANGED <<name, created, queue, workers, history>>
        BY <1>8 DEF OpenQueue
  <2> QED
      BY <1>0, <2>1, <2>2 DEF TypeInv, TypeOK, Connected
<1>9. ASSUME NEW d \in Dispatcher, Send(d) PROVE TypeInv'
  <2> DEFINE s == queue[dmq[d]]
             n == Cardinality(Ahead(s, prio[d]))
             m == [task |-> d, prio |-> prio[d]]
  <2>1. /\ dmq[d] \in Queue /\ s \in Seq(Msg) /\ n \in 0 .. Len(s) /\ m \in Msg
        /\ Len(s) < MAX_MESSAGES
        /\ Release([queue EXCEPT ![dmq[d]] = Inserted(s, n, m)], {})
        BY <1>9, SentTo
  <2>2. Queues([queue EXCEPT ![dmq[d]] = Inserted(s, n, m)])
        BY <2>1, QueuesSend
  <2>3. Queues(queue') /\ lost' \subseteq Dispatcher
        BY <1>q, <2>1, <2>2, Released
  <2>4. /\ dpc' = [dpc EXCEPT ![d] = "sent"] /\ dmq' = [dmq EXCEPT ![d] = 0]
        /\ prio' = [prio EXCEPT ![d] = 0]
        /\ UNCHANGED <<name, created, workers, runs, signals>>
        BY <1>9, Zenon DEF Send, Step, Exit
  <2> HIDE DEF s, n, m
  <2> QED
      BY <1>0, <2>3, <2>4 DEF TypeInv, TypeOK, Connected, Queues, Msg
<1>10. CASE UNCHANGED vars
      BY <1>10 DEF TypeInv, TypeOK, Connected
<1> QED
    BY <1>1, <1>2, <1>3, <1>4, <1>p, <1>5, <1>6, <1>7, <1>8, <1>9, <1>10
    DEF Next, Work, DispatchStep

\* The types of the variables: no queue is over its capacity, and what a queue
\* orders by is a priority of the range, also if a negative number was typed.
THEOREM TypeCorrect == Spec => []TypeOK
<1>1. TypeInv => TypeOK
      BY DEF TypeInv
<1> QED
    BY TypeInit, TypeNext, <1>1, PTL DEF Spec

-----------------------------------------------------------------------------
(* Who has the name                                                          *)

\* A name that was not left by a worker killed too early has a worker that will
\* give it up; and while a worker is alone, nobody takes the name of its queue.
NameInv ==
  /\ name # 0 /\ ~early => \E w \in Worker : wpc[w] \in {"signal", "loop", "busy", "cleanup"}
  /\ ~overlap => \A v, w \in Worker : wpc[v] # "off" /\ wpc[w] # "off" => v = w
  /\ ~overlap => \A w \in Worker : wpc[w] \in {"signal", "loop", "busy"} => name = wmq[w]

LEMMA NameInit == Init => NameInv
BY DEF Init, NameInv

LEMMA NameNext == TypeInv /\ NameInv /\ [Next]_vars => NameInv'
<1> SUFFICES ASSUME TypeInv, NameInv, [Next]_vars PROVE NameInv'
    OBVIOUS
<1>t. /\ wpc \in [Worker -> {"off", "create", "signal", "loop", "busy", "cleanup"}]
      /\ wmq \in [Worker -> 0 .. created] /\ early \in BOOLEAN /\ overlap \in BOOLEAN
      BY DEF TypeInv, TypeOK
<1>1. ASSUME NEW w \in Worker, Start(w) PROVE NameInv'
      BY <1>t, <1>1 DEF Start, Goto, NameInv
<1>2. ASSUME NEW w \in Worker, Create(w) PROVE NameInv'
  <2>1. wmq' = [wmq EXCEPT ![w] = name'] /\ (name # 0 => name' = name)
        BY <1>2 DEF Create
  <2>2. wpc[w] = "create" /\ wpc' = [wpc EXCEPT ![w] = "signal"] /\ UNCHANGED <<early, overlap>>
        BY <1>2 DEF Create, Goto
  <2>3. \E v \in Worker : wpc'[v] = "signal"
        BY <1>t, <2>2
  <2>4. ~overlap' => \A u, v \in Worker : wpc'[u] # "off" /\ wpc'[v] # "off" => u = v
        BY <1>t, <2>2 DEF NameInv
  <2>5. ASSUME ~overlap', NEW v \in Worker, wpc'[v] \in {"signal", "loop", "busy"}
        PROVE  name' = wmq'[v]
    <3>1. v = w
          BY <1>t, <2>2, <2>4, <2>5
    <3> QED
        BY <1>t, <2>1, <3>1
  <2> QED
      BY <2>3, <2>4, <2>5 DEF NameInv
<1>3. ASSUME NEW w \in Worker, CreateFails(w) PROVE NameInv'
      BY <1>t, <1>3 DEF CreateFails, Goto, NameInv
<1>4. ASSUME NEW w \in Worker, InstallHandler(w) PROVE NameInv'
      BY <1>t, <1>4 DEF InstallHandler, Goto, NameInv
<1>5. ASSUME NEW w \in Worker, Receive(w) PROVE NameInv'
  <2>1. /\ wpc[w] = "loop" /\ wpc' = [wpc EXCEPT ![w] = "busy"]
        /\ UNCHANGED <<name, wmq, early, overlap>>
        BY <1>5, Zenon DEF Receive, Goto
  <2> QED
      BY <1>t, <2>1 DEF NameInv
<1>p. ASSUME NEW w \in Worker, Process(w) PROVE NameInv'
      BY <1>t, <1>p DEF Process, Goto, NameInv
<1>6. ASSUME NEW w \in Worker, Interrupt(w) PROVE NameInv'
      BY <1>t, <1>6 DEF Interrupt, Goto, NameInv
<1>7. ASSUME NEW w \in Worker, Cleanup(w) PROVE NameInv'
      BY <1>t, <1>7 DEF Cleanup, Goto, NameInv
<1>8. ASSUME NEW d \in Dispatcher, Dispatch(d) \/ OpenQueue(d) \/ Send(d) PROVE NameInv'
  <2>1. UNCHANGED <<name, wpc, wmq, early, overlap>>
        BY <1>8, Zenon DEF Dispatch, OpenQueue, Send
  <2> QED
      BY <2>1 DEF NameInv
<1>9. CASE UNCHANGED vars
      BY <1>9 DEF NameInv
<1> QED
    BY <1>1, <1>2, <1>3, <1>4, <1>5, <1>p, <1>6, <1>7, <1>8, <1>9
    DEF Next, Work, DispatchStep

\* A name in /dev/mqueue has a worker that will remove it, unless a worker was killed
\* before its signal(); and a worker that is alone keeps the name of its queue.
THEOREM NameCorrect == Spec => []NameHasReader
<1>1. TypeInv /\ NameInv => NameHasReader
  <2> SUFFICES ASSUME TypeInv, NameInv PROVE NameHasReader
      OBVIOUS
  <2>1. early \in BOOLEAN /\ overlap \in BOOLEAN
        BY DEF TypeInv, TypeOK
  <2> QED
      BY <2>1 DEF NameInv, NameHasReader
<1> QED
    BY TypeInit, TypeNext, NameInit, NameNext, <1>1, PTL DEF Spec

-----------------------------------------------------------------------------
(* Where a task is                                                           *)

\* The tasks of W, and no others, are in the queues s, each in one place.
Placed(s, W) ==
  /\ \A q \in Queue : \A i \in 1 .. Len(s[q]) : s[q][i].task \in W
  /\ \A d \in W : \E q \in Queue : \E i \in 1 .. Len(s[q]) : s[q][i].task = d
  /\ \A q, r \in Queue : \A i \in 1 .. Len(s[q]), j \in 1 .. Len(s[r]) :
       s[q][i].task = s[r][j].task => q = r /\ i = j

\* The queues s once those of gone are destroyed, and the tasks that are lost.
Cut(s, gone) == [q \in Queue |-> IF q \in gone THEN << >> ELSE s[q]]
TasksOf(s, gone) == UNION {Tasks(s[q]) : q \in gone}

LEMMA PlacedDestroy ==
  ASSUME NEW s, NEW W, Placed(s, W), NEW gone \in SUBSET Queue
  PROVE  Placed(Cut(s, gone), W \ TasksOf(s, gone)) /\ TasksOf(s, gone) \subseteq W
<1> DEFINE t == Cut(s, gone)
           L == TasksOf(s, gone)
<1>t. t = [q \in Queue |-> IF q \in gone THEN << >> ELSE s[q]]
      BY DEF Cut
<1>l. L = UNION {Tasks(s[q]) : q \in gone}
      BY DEF TasksOf
<1> HIDE DEF t, L
<1>0. Len(<< >>) = 0
      OBVIOUS
<1>1. L \subseteq W
      BY <1>l DEF Placed, Tasks
<1>2. ASSUME NEW q \in Queue, NEW i \in 1 .. Len(t[q])
      PROVE  q \notin gone /\ t[q] = s[q] /\ i \in 1 .. Len(s[q])
      BY <1>t, <1>0, <1>2
<1>3. ASSUME NEW q \in Queue, NEW i \in 1 .. Len(t[q]) PROVE t[q][i].task \in W \ L
  <2>1. q \notin gone /\ t[q] = s[q] /\ i \in 1 .. Len(s[q])
        BY <1>2
  <2>2. s[q][i].task \in W
        BY <2>1 DEF Placed
  <2>3. ASSUME s[q][i].task \in L PROVE FALSE
    <3>1. PICK r \in gone : s[q][i].task \in Tasks(s[r])
          BY <1>l, <2>3
    <3>2. PICK j \in 1 .. Len(s[r]) : s[r][j].task = s[q][i].task
          BY <3>1 DEF Tasks
    <3>3. q = r
          BY <2>1, <3>2 DEF Placed
    <3> QED
        BY <2>1, <3>3
  <2> QED
      BY <2>1, <2>2, <2>3
<1>4. ASSUME NEW d \in W \ L
      PROVE  \E q \in Queue : \E i \in 1 .. Len(t[q]) : t[q][i].task = d
  <2>1. PICK q \in Queue : \E i \in 1 .. Len(s[q]) : s[q][i].task = d
        BY DEF Placed
  <2>2. PICK i \in 1 .. Len(s[q]) : s[q][i].task = d
        BY <2>1
  <2>3. q \notin gone
        BY <1>l, <2>2 DEF Tasks
  <2>4. t[q] = s[q]
        BY <1>t, <2>3
  <2> QED
      BY <2>2, <2>4
<1>5. \A q, r \in Queue : \A i \in 1 .. Len(t[q]), j \in 1 .. Len(t[r]) :
        t[q][i].task = t[r][j].task => q = r /\ i = j
  <2> SUFFICES ASSUME NEW q \in Queue, NEW r \in Queue,
                      NEW i \in 1 .. Len(t[q]), NEW j \in 1 .. Len(t[r]),
                      t[q][i].task = t[r][j].task
               PROVE  q = r /\ i = j
      OBVIOUS
  <2>1. t[q] = s[q] /\ i \in 1 .. Len(s[q]) /\ t[r] = s[r] /\ j \in 1 .. Len(s[r])
        BY <1>2
  <2> QED
      BY <2>1 DEF Placed
<1>6. Placed(t, W \ L)
      BY <1>3, <1>4, <1>5 DEF Placed
<1> QED
    BY <1>1, <1>6 DEF t, L

\* The queues s without the first message of q, and with m behind the n first ones.
Popped(s, q) == [s EXCEPT ![q] = Tail(@)]
Added(s, q, n, m) == [s EXCEPT ![q] = Inserted(@, n, m)]

LEMMA PlacedTail ==
  ASSUME NEW s \in [Queue -> Seq(Msg)], NEW W, Placed(s, W), NEW q \in Queue, s[q] # << >>
  PROVE  Placed(Popped(s, q), W \ {s[q][1].task}) /\ s[q][1].task \in W
<1> DEFINE t == Popped(s, q)
           e == s[q][1].task
           Old(r, j) == IF r = q THEN j + 1 ELSE j
<1>a. /\ Len(s[q]) \in Nat \ {0} /\ Len(Tail(s[q])) = Len(s[q]) - 1
      /\ \A j \in 1 .. Len(s[q]) - 1 : Tail(s[q])[j] = s[q][j + 1]
  <2>1. s[q] \in Seq(Msg) /\ s[q] # << >>
        OBVIOUS
  <2>2. Len(s[q]) \in Nat \ {0}
        BY <2>1, EmptySeq
  <2> QED
      BY <2>1, <2>2, HeadTailProperties
<1>b. t[q] = Tail(s[q]) /\ \A r \in Queue \ {q} : t[r] = s[r]
      BY DEF Popped
<1> HIDE DEF t
<1>c. Len(t[q]) = Len(s[q]) - 1 /\ \A j \in 1 .. Len(s[q]) - 1 : t[q][j] = s[q][j + 1]
      BY <1>a, <1>b
<1>1. 1 \in 1 .. Len(s[q]) /\ e \in W
      BY <1>a DEF Placed
<1> HIDE DEF e
<1>e. e = s[q][1].task
      BY DEF e
<1>2. ASSUME NEW r \in Queue, NEW j \in 1 .. Len(t[r])
      PROVE  /\ Old(r, j) \in 1 .. Len(s[r]) /\ t[r][j] = s[r][Old(r, j)]
             /\ t[r][j].task \in W \ {e}
  <2>1. Old(r, j) \in 1 .. Len(s[r]) /\ t[r][j] = s[r][Old(r, j)]
    <3>1. CASE r = q
      <4>2. Len(s[q]) \in Nat /\ Len(t[q]) = Len(s[q]) - 1 /\ j \in 1 .. Len(t[q])
            BY <1>a, <1>c, <3>1
      <4>1. j \in 1 .. Len(s[q]) - 1 /\ j + 1 \in 1 .. Len(s[q])
            BY <4>2
      <4> QED
          BY <1>c, <3>1, <4>1
    <3>2. CASE r # q
          BY <1>b, <3>2
    <3> QED
        BY <3>1, <3>2
  <2>2. r = q => Old(r, j) # 1
        OBVIOUS
  <2> HIDE DEF Old
  <2>3. s[r][Old(r, j)].task # e
        BY <1>1, <1>e, <2>1, <2>2 DEF Placed
  <2> QED
      BY <2>1, <2>3 DEF Placed
<1>3. ASSUME NEW d \in W \ {e}
      PROVE  \E r \in Queue : \E i \in 1 .. Len(t[r]) : t[r][i].task = d
  <2>1. PICK r \in Queue : \E i \in 1 .. Len(s[r]) : s[r][i].task = d
        BY DEF Placed
  <2>2. PICK i \in 1 .. Len(s[r]) : s[r][i].task = d
        BY <2>1
  <2>3. CASE r = q
    <3>1. i # 1
          BY <1>e, <2>2, <2>3
    <3>2. i - 1 \in 1 .. Len(s[q]) - 1 /\ (i - 1) + 1 = i
          BY <1>a, <2>2, <2>3, <3>1
    <3>3. t[q][i - 1].task = d
          BY <1>c, <2>2, <2>3, <3>2
    <3> QED
        BY <1>c, <3>2, <3>3
  <2>4. CASE r # q
        BY <1>b, <2>2, <2>4
  <2> QED
      BY <2>3, <2>4
<1>4. ASSUME NEW r \in Queue, NEW u \in Queue,
             NEW i \in 1 .. Len(t[r]), NEW j \in 1 .. Len(t[u]),
             t[r][i].task = t[u][j].task
      PROVE  r = u /\ i = j
  <2>1. r = u /\ Old(r, i) = Old(u, j)
    <3> HIDE DEF Old
    <3>1. /\ Old(r, i) \in 1 .. Len(s[r]) /\ Old(u, j) \in 1 .. Len(s[u])
          /\ s[r][Old(r, i)].task = s[u][Old(u, j)].task
          BY <1>2, <1>4
    <3> QED
        BY <3>1 DEF Placed
  <2> QED
      BY <2>1
<1>5. Placed(t, W \ {e})
      BY <1>2, <1>3, <1>4 DEF Placed
<1> QED
    BY <1>1, <1>5 DEF t, e

LEMMA PlacedInsert ==
  ASSUME NEW s \in [Queue -> Seq(Msg)], NEW W, Placed(s, W), NEW q \in Queue,
         NEW n \in 0 .. Len(s[q]), NEW m \in Msg, m.task \notin W
  PROVE  Placed(Added(s, q, n, m), W \cup {m.task})
<1> DEFINE e == m.task
           t == Added(s, q, n, m)
<1>0. Len(s[q]) \in Nat
      OBVIOUS
<1>a. t[q] = Inserted(s[q], n, m) /\ \A r \in Queue \ {q} : t[r] = s[r]
      BY DEF Added
<1> HIDE DEF t
<1>b. /\ Len(t[q]) = Len(s[q]) + 1
      /\ \A i \in 1 .. n : t[q][i] = s[q][i]
      /\ t[q][n + 1].task = e
      /\ \A i \in n + 1 .. Len(s[q]) : t[q][i + 1] = s[q][i]
  <2>1. s[q] \in Seq(Msg)
        OBVIOUS
  <2>2. /\ Len(Inserted(s[q], n, m)) = Len(s[q]) + 1
        /\ \A i \in 1 .. n : Inserted(s[q], n, m)[i] = s[q][i]
        /\ Inserted(s[q], n, m)[n + 1] = m
        /\ \A i \in n + 1 .. Len(s[q]) : Inserted(s[q], n, m)[i + 1] = s[q][i]
        BY <2>1, InsertedAt, SMTT(40)
  <2> QED
      BY <1>a, <2>2
<1>e. e \notin W
      OBVIOUS
<1> HIDE DEF e
<1> DEFINE Old(r, j) == IF r = q /\ j > n + 1 THEN j - 1 ELSE j
           New(r, j) == r = q /\ j = n + 1
<1>2. ASSUME NEW r \in Queue, NEW j \in 1 .. Len(t[r]), ~New(r, j)
      PROVE  /\ Old(r, j) \in 1 .. Len(s[r]) /\ t[r][j] = s[r][Old(r, j)]
             /\ t[r][j].task \in W
  <2>1. CASE r # q
        BY <1>a, <2>1 DEF Placed
  <2>2. CASE r = q /\ j <= n
    <3>1. j \in 1 .. n /\ j \in 1 .. Len(s[q]) /\ ~(j > n + 1)
          BY <1>0, <2>2
    <3>2. Old(r, j) = j /\ t[r][j] = s[r][j]
          BY <1>0, <1>a, <1>b, <2>2, <3>1
    <3> QED
        BY <2>2, <3>1, <3>2 DEF Placed
  <2>3. CASE r = q /\ j > n + 1
    <3>1. j - 1 \in n + 1 .. Len(s[q]) /\ (j - 1) + 1 = j /\ j - 1 \in 1 .. Len(s[q])
          BY <1>0, <1>b, <2>3
    <3>2. Old(r, j) = j - 1 /\ t[r][j] = s[r][j - 1]
          BY <1>0, <1>a, <1>b, <2>3, <3>1
    <3> QED
        BY <2>3, <3>1, <3>2 DEF Placed
  <2> QED
      BY <1>0, <1>b, <1>2, <2>1, <2>2, <2>3
<1>n. \A r \in Queue : \A j \in 1 .. Len(t[r]) : New(r, j) => t[r][j].task = e
      BY <1>b
<1>4. \A r \in Queue : \A i \in 1 .. Len(t[r]) : t[r][i].task \in W \cup {e}
      BY <1>2, <1>n
<1>5. ASSUME NEW d \in W \cup {e}
      PROVE  \E r \in Queue : \E i \in 1 .. Len(t[r]) : t[r][i].task = d
  <2>1. CASE d = e
    <3>1. n + 1 \in 1 .. Len(t[q])
          BY <1>0, <1>b
    <3> QED
        BY <1>b, <2>1, <3>1
  <2>2. CASE d \in W
    <3>1. PICK r \in Queue : \E i \in 1 .. Len(s[r]) : s[r][i].task = d
          BY <2>2 DEF Placed
    <3>2. PICK i \in 1 .. Len(s[r]) : s[r][i].task = d
          BY <3>1
    <3>3. CASE r # q
          BY <1>a, <3>2, <3>3
    <3>4. CASE r = q /\ i <= n
      <4>1. i \in 1 .. n /\ i \in 1 .. Len(t[q])
            BY <1>0, <1>b, <3>4
      <4> QED
          BY <1>b, <3>2, <3>4, <4>1
    <3>5. CASE r = q /\ ~(i <= n)
      <4>1. i \in n + 1 .. Len(s[q]) /\ i + 1 \in 1 .. Len(t[q])
            BY <1>0, <1>b, <3>2, <3>5
      <4> QED
          BY <1>b, <3>2, <3>5, <4>1
    <3> QED
        BY <3>3, <3>4, <3>5
  <2> QED
      BY <2>1, <2>2
<1>6. ASSUME NEW r \in Queue, NEW u \in Queue,
             NEW i \in 1 .. Len(t[r]), NEW j \in 1 .. Len(t[u]),
             t[r][i].task = t[u][j].task
      PROVE  r = u /\ i = j
  <2>1. New(r, i) <=> New(u, j)
    <3> HIDE DEF New
    <3> QED
        BY <1>e, <1>2, <1>n, <1>6
  <2>2. CASE New(r, i) /\ New(u, j)
        BY <2>2
  <2>3. CASE ~New(r, i) /\ ~New(u, j)
    <3>1. r = u /\ Old(r, i) = Old(u, j)
      <4> HIDE DEF Old, New
      <4>1. /\ Old(r, i) \in 1 .. Len(s[r]) /\ Old(u, j) \in 1 .. Len(s[u])
            /\ s[r][Old(r, i)].task = s[u][Old(u, j)].task
            BY <1>2, <1>6, <2>3
      <4> QED
          BY <4>1 DEF Placed
    <3> QED
        BY <1>0, <3>1, <2>3
  <2> QED
      BY <2>1, <2>2, <2>3
<1>7. Placed(t, W \cup {e})
      BY <1>4, <1>5, <1>6 DEF Placed
<1> QED
    BY <1>7 DEF t, e

Sent(d) == dpc[d] = "sent"
Held(d) == \E w \in Worker : d \in hand[w]

\* The tasks that were sent and wait.
Waiting == {d \in Dispatcher : Sent(d) /\ runs[d] = 0 /\ d \notin lost /\ ~Held(d)}

\* A task that waits is in one place of one queue; one that is held, processed or
\* lost is in none, and is only one of these.
PlaceInv ==
  /\ \A d \in Dispatcher : runs[d] \in {0, 1}
  /\ \A d \in Dispatcher : runs[d] = 1 => Sent(d) /\ d \notin lost /\ ~Held(d)
  /\ \A d \in lost : Sent(d) /\ ~Held(d)
  /\ \A d \in Dispatcher : Held(d) => Sent(d)
  /\ \A v, w \in Worker : \A d \in hand[v] : d \in hand[w] => v = w
  /\ \A w \in Worker : wpc[w] # "busy" => hand[w] = {}
  /\ Placed(queue, Waiting)

LEMMA PlaceInit == Init => PlaceInv
<1> SUFFICES ASSUME Init PROVE PlaceInv
    OBVIOUS
<1>1. Waiting = {} /\ ~ \E d \in Dispatcher : Held(d) \/ Sent(d)
      BY DEF Init, Waiting, Held, Sent
<1>2. \A q \in Queue : Len(queue[q]) = 0
      BY DEF Init
<1>3. Placed(queue, Waiting)
      BY <1>1, <1>2 DEF Placed
<1> QED
    BY <1>1, <1>3 DEF Init, PlaceInv, Held

\* A step that destroys the queues left unused: of the tasks in s, which are those
\* of W, some are lost, and of those of the workers the ones dropped are.
LEMMA PlaceRelease ==
  ASSUME PlaceInv, NEW s, NEW W, Placed(s, W), NEW dropped, Release(s, dropped)
  PROVE  \E L \in SUBSET W : Placed(queue', W \ L) /\ lost' = lost \cup dropped \cup L
<1>1. PICK gone \in SUBSET Queue :
        queue' = Cut(s, gone) /\ lost' = lost \cup dropped \cup TasksOf(s, gone)
      BY Zenon DEF Release, Unused, Cut, TasksOf
<1>2. Placed(Cut(s, gone), W \ TasksOf(s, gone)) /\ TasksOf(s, gone) \subseteq W
      BY PlacedDestroy
<1> QED
    BY <1>1, <1>2

\* A step that destroys queues and touches neither hands nor dispatchers.
LEMMA PlaceLose ==
  ASSUME TypeInv, TypeInv', PlaceInv, Release(queue, {}), UNCHANGED <<hand, dpc, runs>>,
         \A w \in Worker : wpc'[w] # "busy" => hand[w] = {}
  PROVE  PlaceInv'
<1>1. PICK L \in SUBSET Waiting : Placed(queue', Waiting \ L) /\ lost' = lost \cup L
  <2>1. Placed(queue, Waiting)
        BY DEF PlaceInv
  <2> QED
      BY <2>1, PlaceRelease
<1>2. Waiting' = Waiting \ L
      BY <1>1 DEF Waiting, Held, Sent
<1>3. Placed(queue', Waiting')
      BY <1>1, <1>2
<1>4. \A d \in L : Sent(d) /\ ~Held(d) /\ runs[d] = 0
      BY DEF Waiting
<1> QED
    BY <1>1, <1>3, <1>4 DEF PlaceInv, Held, Sent

LEMMA PlaceInterrupt ==
  ASSUME TypeInv, PlaceInv, NEW w \in Worker, Interrupt(w)
  PROVE  PlaceInv'
<1>1. PICK L \in SUBSET Waiting :
        Placed(queue', Waiting \ L) /\ lost' = lost \cup hand[w] \cup L
  <2>1. Placed(queue, Waiting) /\ Release(queue, hand[w])
        BY DEF PlaceInv, Interrupt
  <2> QED
      BY <2>1, PlaceRelease
<1>2. hand' = [hand EXCEPT ![w] = {}] /\ UNCHANGED <<dpc, runs>>
      BY DEF Interrupt
<1>t. /\ hand \in [Worker -> SUBSET Dispatcher] /\ wpc \in [Worker -> {"off", "create", "signal", "loop", "busy", "cleanup"}]
      BY DEF TypeInv, TypeOK
<1>3. \A d \in Dispatcher : Held(d)' <=> (Held(d) /\ d \notin hand[w])
  <2> TAKE d \in Dispatcher
  <2>1. ASSUME Held(d), d \notin hand[w] PROVE Held(d)'
        BY <1>t, <1>2, <2>1 DEF Held
  <2>2. ASSUME Held(d)' PROVE Held(d) /\ d \notin hand[w]
    <3>1. PICK v \in Worker : d \in hand'[v]
          BY <2>2 DEF Held
    <3>2. v # w /\ d \in hand[v]
          BY <1>t, <1>2, <3>1
    <3> QED
        BY <3>2 DEF Held, PlaceInv
  <2> QED
      BY <2>1, <2>2
<1>4. Waiting' = Waiting \ L
  <2>1. \A d \in hand[w] : d \in Dispatcher /\ Held(d)
        BY <1>t DEF Held
  <2>2. \A d \in Dispatcher : d \in Waiting' <=> d \in Waiting \ L
    <3> TAKE d \in Dispatcher
    <3>1. Sent(d)' = Sent(d) /\ runs'[d] = runs[d] /\ (d \in lost' <=> (d \in lost \/ d \in hand[w] \/ d \in L))
          BY <1>1, <1>2 DEF Sent
    <3> QED
        BY <1>3, <2>1, <3>1 DEF Waiting
  <2> QED
      BY <2>2 DEF Waiting
<1>5. Placed(queue', Waiting')
      BY <1>1, <1>4
<1>6. \A d \in Dispatcher : runs'[d] = runs[d] /\ (Sent(d)' <=> Sent(d))
      BY <1>2 DEF Sent
<1>7. \A d \in lost' : d \in Dispatcher /\ Sent(d) /\ runs[d] = 0 /\ ~Held(d)'
  <2> TAKE d \in lost'
  <2>1. CASE d \in lost
    <3>1. d \in Dispatcher
          BY <2>1 DEF TypeInv, TypeOK
    <3>2. Sent(d) /\ ~Held(d) /\ runs[d] # 1 /\ runs[d] \in {0, 1}
          BY <2>1, <3>1 DEF PlaceInv
    <3> QED
        BY <1>3, <3>1, <3>2
  <2>2. CASE d \in hand[w]
    <3>1. d \in Dispatcher /\ Held(d)
          BY <1>t, <2>2 DEF Held
    <3>2. Sent(d) /\ runs[d] # 1 /\ runs[d] \in {0, 1}
          BY <3>1 DEF PlaceInv
    <3> QED
        BY <1>3, <2>2, <3>1, <3>2
  <2>3. CASE d \in L
    <3>1. d \in Dispatcher /\ Sent(d) /\ runs[d] = 0 /\ ~Held(d)
          BY <2>3 DEF Waiting
    <3> QED
        BY <1>3, <3>1
  <2> QED
      BY <1>1, <2>1, <2>2, <2>3
<1>8. \A d \in Dispatcher : runs'[d] = 1 => Sent(d)' /\ d \notin lost' /\ ~Held(d)'
  <2> TAKE d \in Dispatcher
  <2>1. runs[d] = 1 => Sent(d) /\ ~Held(d)
        BY DEF PlaceInv
  <2>2. runs[d] = 1 => d \notin lost'
        BY <1>7
  <2> QED
      BY <1>3, <1>6, <2>1, <2>2
<1>9. \A u, v \in Worker : \A d \in hand'[u] : d \in hand'[v] => u = v
      BY <1>t, <1>2 DEF PlaceInv
<1>10. \A v \in Worker : wpc'[v] # "busy" => hand'[v] = {}
  <2> TAKE v \in Worker
  <2>1. v # w => wpc'[v] = wpc[v]
        BY <1>t DEF Interrupt
  <2> QED
      BY <1>t, <1>2, <2>1 DEF PlaceInv
<1>11. \A d \in Dispatcher : runs'[d] \in {0, 1} /\ (Held(d)' => Sent(d)')
      BY <1>3, <1>6 DEF PlaceInv
<1>12. \A d \in lost' : Sent(d)' /\ ~Held(d)'
      BY <1>6, <1>7
<1> QED
    BY <1>5, <1>8, <1>9, <1>10, <1>11, <1>12 DEF PlaceInv

LEMMA PlaceReceive ==
  ASSUME TypeInv, PlaceInv, NEW w \in Worker, Receive(w)
  PROVE  PlaceInv'
<1> DEFINE q == wmq[w]
           s == queue[q]
           e == s[1].task
<1>1. /\ q \in Queue /\ Len(s) \in Nat \ {0} /\ Head(s) = s[1] /\ Len(Tail(s)) = Len(s) - 1
      /\ \A i \in 1 .. Len(s) - 1 : Tail(s)[i] = s[i + 1]
      BY Received
<1>2. /\ wpc[w] = "loop" /\ wpc' = [wpc EXCEPT ![w] = "busy"]
      /\ queue' = [queue EXCEPT ![q] = Tail(@)]
      /\ hand' = [hand EXCEPT ![w] = {Head(s).task}]
      /\ UNCHANGED <<dpc, runs, lost>>
      BY Zenon DEF Receive, Goto
<1>t. /\ hand \in [Worker -> SUBSET Dispatcher] /\ queue \in [Queue -> Seq(Msg)]
      /\ wpc \in [Worker -> {"off", "create", "signal", "loop", "busy", "cleanup"}]
      BY DEF TypeInv, TypeOK, Msg
<1>3. hand[w] = {} /\ hand' = [hand EXCEPT ![w] = {e}]
  <2>1. hand[w] = {}
        BY <1>2 DEF PlaceInv
  <2>2. Head(s).task = e
        BY <1>1
  <2> QED
      BY <1>2, <2>1, <2>2
<1>5. Placed(queue', Waiting \ {e}) /\ e \in Waiting
  <2>1. Placed(queue, Waiting) /\ queue[q] # << >> /\ q \in Queue
        BY <1>1, Received DEF PlaceInv
  <2>2. queue' = Popped(queue, q)
        BY <1>2, Zenon DEF Popped
  <2>3. e = queue[q][1].task
        OBVIOUS
  <2> HIDE DEF q, s, e
  <2>4. Placed(Popped(queue, q), Waiting \ {queue[q][1].task}) /\ queue[q][1].task \in Waiting
        BY <1>t, <2>1, PlacedTail
  <2> QED
      BY <2>2, <2>3, <2>4
<1> HIDE DEF q, s, e
<1>6. \A d \in Dispatcher : Held(d)' <=> (Held(d) \/ d = e)
  <2> TAKE d \in Dispatcher
  <2>1. \A v \in Worker : d \in hand'[v] <=> (d \in hand[v] \/ (v = w /\ d = e))
        BY <1>t, <1>3
  <2> QED
      BY <2>1 DEF Held
<1>7. \A d \in Dispatcher : runs'[d] = runs[d] /\ (Sent(d)' <=> Sent(d)) /\ lost' = lost
      BY <1>2 DEF Sent
<1>8. Waiting' = Waiting \ {e}
  <2>1. \A d \in Dispatcher : d \in Waiting' <=> d \in Waiting \ {e}
        BY <1>6, <1>7 DEF Waiting
  <2> QED
      BY <2>1 DEF Waiting
<1>9. e \in Dispatcher /\ Sent(e) /\ runs[e] = 0 /\ e \notin lost /\ ~Held(e)
      BY <1>5 DEF Waiting
<1>10. \A u, v \in Worker : \A d \in hand'[u] : d \in hand'[v] => u = v
  <2>1. \A v \in Worker : e \notin hand[v]
        BY <1>9 DEF Held
  <2> QED
      BY <1>t, <1>3, <2>1 DEF PlaceInv
<1>11. \A v \in Worker : wpc'[v] # "busy" => hand'[v] = {}
      BY <1>t, <1>2, <1>3 DEF PlaceInv
<1>12. Placed(queue', Waiting')
      BY <1>5, <1>8
<1>13. \A d \in Dispatcher : runs'[d] \in {0, 1} /\ (Held(d)' => Sent(d)')
                          /\ (runs'[d] = 1 => Sent(d)' /\ d \notin lost' /\ ~Held(d)')
      BY <1>6, <1>7, <1>9 DEF PlaceInv
<1>14. \A d \in lost' : Sent(d)' /\ ~Held(d)'
  <2> TAKE d \in lost'
  <2>1. d \in lost /\ d # e
        BY <1>2, <1>9
  <2>2. d \in Dispatcher
        BY <2>1 DEF TypeInv, TypeOK
  <2> QED
      BY <1>6, <1>7, <2>1, <2>2 DEF PlaceInv
<1> QED
    BY <1>10, <1>11, <1>12, <1>13, <1>14 DEF PlaceInv

LEMMA PlaceProcess ==
  ASSUME TypeInv, PlaceInv, NEW w \in Worker, Process(w)
  PROVE  PlaceInv'
<1>2. /\ wpc[w] = "busy" /\ wpc' = [wpc EXCEPT ![w] = "loop"]
      /\ runs' = [d \in Dispatcher |-> IF d \in hand[w] THEN runs[d] + 1 ELSE runs[d]]
      /\ hand' = [hand EXCEPT ![w] = {}]
      /\ UNCHANGED <<queue, dpc, lost>>
      BY Zenon DEF Process, Goto
<1>t. /\ hand \in [Worker -> SUBSET Dispatcher]
      /\ wpc \in [Worker -> {"off", "create", "signal", "loop", "busy", "cleanup"}]
      BY DEF TypeInv, TypeOK
<1>3. \A d \in Dispatcher : Held(d)' <=> (Held(d) /\ d \notin hand[w])
  <2> TAKE d \in Dispatcher
  <2>1. \A v \in Worker : d \in hand'[v] <=> (d \in hand[v] /\ v # w)
        BY <1>t, <1>2
  <2>2. d \in hand[w] => \A v \in Worker : d \in hand[v] => v = w
        BY DEF PlaceInv
  <2> QED
      BY <2>1, <2>2 DEF Held
<1>4. \A d \in hand[w] : d \in Dispatcher /\ Held(d) /\ Sent(d) /\ d \notin lost /\ runs[d] = 0
  <2> TAKE d \in hand[w]
  <2>1. d \in Dispatcher /\ Held(d)
        BY <1>t DEF Held
  <2> QED
      BY <2>1 DEF PlaceInv
<1>5. \A d \in Dispatcher : /\ Sent(d)' <=> Sent(d)
                            /\ d \in hand[w] => runs'[d] = 1
                            /\ d \notin hand[w] => runs'[d] = runs[d]
      BY <1>2, <1>4 DEF Sent
<1>6. Waiting' = Waiting
  <2>1. \A d \in Dispatcher : d \in Waiting' <=> d \in Waiting
    <3> TAKE d \in Dispatcher
    <3>1. CASE d \in hand[w]
          BY <1>4, <1>5, <3>1 DEF Waiting
    <3>2. CASE d \notin hand[w]
          BY <1>2, <1>3, <1>5, <3>2 DEF Waiting
    <3> QED
        BY <3>1, <3>2
  <2> QED
      BY <2>1 DEF Waiting
<1>7. Placed(queue', Waiting')
      BY <1>2, <1>6 DEF PlaceInv
<1>8. \A d \in Dispatcher : runs'[d] \in {0, 1} /\ (Held(d)' => Sent(d)')
                          /\ (runs'[d] = 1 => Sent(d)' /\ d \notin lost' /\ ~Held(d)')
  <2> TAKE d \in Dispatcher
  <2>1. CASE d \in hand[w]
        BY <1>2, <1>3, <1>4, <1>5, <2>1
  <2>2. CASE d \notin hand[w]
        BY <1>2, <1>3, <1>5, <2>2 DEF PlaceInv
  <2> QED
      BY <2>1, <2>2
<1>9. \A d \in lost' : Sent(d)' /\ ~Held(d)'
  <2> TAKE d \in lost'
  <2>1. d \in lost /\ d \in Dispatcher
        BY <1>2 DEF TypeInv, TypeOK
  <2> QED
      BY <1>3, <1>5, <2>1 DEF PlaceInv
<1>10. \A u, v \in Worker : \A d \in hand'[u] : d \in hand'[v] => u = v
      BY <1>t, <1>2 DEF PlaceInv
<1>11. \A v \in Worker : wpc'[v] # "busy" => hand'[v] = {}
      BY <1>t, <1>2 DEF PlaceInv
<1> QED
    BY <1>7, <1>8, <1>9, <1>10, <1>11 DEF PlaceInv

LEMMA PlaceSend ==
  ASSUME TypeInv, PlaceInv, NEW d \in Dispatcher, Send(d)
  PROVE  PlaceInv'
<1> DEFINE q == dmq[d]
           s == queue[q]
           n == Cardinality(Ahead(s, prio[d]))
           m == [task |-> d, prio |-> prio[d]]
           t == Added(queue, q, n, m)
<1>1. q \in Queue /\ s \in Seq(Msg) /\ n \in 0 .. Len(s) /\ m \in Msg
      BY SentTo
<1>r. Release(t, {})
  <2>1. Release([queue EXCEPT ![q] = Inserted(s, n, m)], {})
        BY SentTo
  <2>2. t = [queue EXCEPT ![q] = Inserted(s, n, m)]
        BY <1>1 DEF Added
  <2> QED
      BY <2>1, <2>2, Zenon
<1>m. m.task = d
      OBVIOUS
<1>2. /\ dpc[d] = "send" /\ dpc' = [dpc EXCEPT ![d] = "sent"]
      /\ UNCHANGED <<wpc, hand, runs>>
      BY Zenon DEF Send, Step
<1>t. /\ queue \in [Queue -> Seq(Msg)]
      /\ dpc \in [Dispatcher -> {"off", "open", "send", "sent", "failed"}]
      BY DEF TypeInv, TypeOK, Msg
<1>3. d \notin Waiting /\ ~Held(d) /\ d \notin lost /\ runs[d] = 0
      BY <1>2 DEF PlaceInv, Waiting, Sent
<1>6. Placed(t, Waiting \cup {d})
  <2>1. /\ Placed(queue, Waiting) /\ q \in Queue /\ n \in 0 .. Len(queue[q])
        /\ m \in Msg /\ m.task \notin Waiting
        BY <1>1, <1>3, <1>m DEF PlaceInv
  <2> HIDE DEF q, n, m
  <2>2. Placed(Added(queue, q, n, m), Waiting \cup {m.task})
        BY <1>t, <2>1, PlacedInsert
  <2> QED
      BY <1>m, <2>2
<1> HIDE DEF t
<1>7. PICK L \in SUBSET (Waiting \cup {d}) :
        Placed(queue', (Waiting \cup {d}) \ L) /\ lost' = lost \cup L
  <2> DEFINE W == Waiting \cup {d}
  <2> HIDE DEF W
  <2>1. Placed(t, W)
        BY <1>6 DEF W
  <2>2. PICK dropped : dropped = {}
        OBVIOUS
  <2>3. Release(t, dropped)
        BY <1>r, <2>2
  <2>4. \E L \in SUBSET W : Placed(queue', W \ L) /\ lost' = lost \cup dropped \cup L
        BY <2>1, <2>3, PlaceRelease, SMTT(40)
  <2> QED
      BY <2>2, <2>4 DEF W
<1>8. \A c \in Dispatcher : /\ Sent(c)' <=> (Sent(c) \/ c = d)
                            /\ Held(c)' <=> Held(c)
                            /\ runs'[c] = runs[c]
      BY <1>2, <1>t DEF Sent, Held
<1>9. \A c \in Dispatcher : c \in lost' <=> (c \in lost \/ c \in L)
      BY <1>7
<1>10. Waiting' = (Waiting \cup {d}) \ L
  <2>1. \A c \in Dispatcher : c \in Waiting' <=> c \in (Waiting \cup {d}) \ L
        BY <1>3, <1>8, <1>9 DEF Waiting
  <2> QED
      BY <2>1 DEF Waiting
<1>11. \A c \in L : c \in Dispatcher /\ Sent(c)' /\ ~Held(c) /\ runs[c] = 0
      BY <1>3, <1>8 DEF Waiting
<1>12. Placed(queue', Waiting')
      BY <1>7, <1>10
<1>13. \A c \in Dispatcher : runs'[c] \in {0, 1} /\ (Held(c)' => Sent(c)')
                          /\ (runs'[c] = 1 => Sent(c)' /\ c \notin lost' /\ ~Held(c)')
      BY <1>8, <1>9, <1>11 DEF PlaceInv
<1>14. \A c \in lost' : Sent(c)' /\ ~Held(c)'
  <2> TAKE c \in lost'
  <2>1. CASE c \in lost
    <3>1. c \in Dispatcher
          BY <2>1 DEF TypeInv, TypeOK
    <3> QED
        BY <1>8, <2>1, <3>1 DEF PlaceInv
  <2>2. CASE c \in L
        BY <1>8, <1>11, <2>2
  <2> QED
      BY <1>7, <2>1, <2>2
<1>15. /\ \A u, v \in Worker : \A c \in hand'[u] : c \in hand'[v] => u = v
       /\ \A v \in Worker : wpc'[v] # "busy" => hand'[v] = {}
      BY <1>2 DEF PlaceInv
<1> QED
    BY <1>12, <1>13, <1>14, <1>15 DEF PlaceInv

LEMMA PlaceNext == TypeInv /\ PlaceInv /\ [Next]_vars => PlaceInv'
<1> SUFFICES ASSUME TypeInv, PlaceInv, [Next]_vars PROVE PlaceInv'
    OBVIOUS
<1>0. TypeInv'
      BY TypeNext
<1>t. wpc \in [Worker -> {"off", "create", "signal", "loop", "busy", "cleanup"}]
      BY DEF TypeInv, TypeOK
<1>s. ASSUME UNCHANGED <<queue, hand, dpc, runs, lost>>,
             \A w \in Worker : wpc'[w] # "busy" => hand[w] = {}
      PROVE  PlaceInv'
      BY <1>s DEF PlaceInv, Waiting, Held, Sent
<1>1. ASSUME NEW w \in Worker, Start(w) \/ Cleanup(w) PROVE PlaceInv'
  <2>1. UNCHANGED <<hand, dpc, runs>> /\ Release(queue, {})
        BY <1>1 DEF Start, Cleanup
  <2>2. wpc[w] # "busy" /\ \A v \in Worker \ {w} : wpc'[v] = wpc[v]
        BY <1>t, <1>1 DEF Start, Cleanup, Goto
  <2>3. \A v \in Worker : wpc'[v] # "busy" => hand[v] = {}
        BY <2>2 DEF PlaceInv
  <2> QED
      BY <1>0, <2>1, <2>3, PlaceLose
<1>2. ASSUME NEW w \in Worker, Create(w) \/ CreateFails(w) \/ InstallHandler(w) PROVE PlaceInv'
  <2>1. UNCHANGED <<queue, hand, dpc, runs, lost>>
        BY <1>2 DEF Create, CreateFails, InstallHandler
  <2>2. wpc[w] # "busy" /\ \A v \in Worker \ {w} : wpc'[v] = wpc[v]
        BY <1>t, <1>2 DEF Create, CreateFails, InstallHandler, Goto
  <2>3. \A v \in Worker : wpc'[v] # "busy" => hand[v] = {}
        BY <2>2 DEF PlaceInv
  <2> QED
      BY <1>s, <2>1, <2>3
<1>3. ASSUME NEW w \in Worker, Receive(w) \/ Process(w) \/ Interrupt(w) PROVE PlaceInv'
      BY <1>3, PlaceReceive, PlaceProcess, PlaceInterrupt
<1>4. ASSUME NEW d \in Dispatcher, Dispatch(d) \/ OpenQueue(d) PROVE PlaceInv'
  <2>1. UNCHANGED <<queue, runs, lost, hand, wpc>>
        BY <1>4 DEF Dispatch, OpenQueue
  <2>2. dpc[d] \in {"off", "open"}
        BY <1>4 DEF Dispatch, OpenQueue, Step
  <2>3. \E to \in {"open", "send", "failed"} : dpc' = [dpc EXCEPT ![d] = to]
        BY <1>4 DEF Dispatch, OpenQueue, Step
  <2>4. \A c \in Dispatcher : dpc[c] = "sent" <=> dpc'[c] = "sent"
        BY <2>2, <2>3 DEF TypeInv, TypeOK
  <2>5. \A c \in Dispatcher : (Sent(c)' <=> Sent(c)) /\ (Held(c)' <=> Held(c))
        BY <2>1, <2>4 DEF Sent, Held
  <2>6. Waiting' = Waiting
        BY <2>1, <2>5 DEF Waiting
  <2>7. \A c \in lost : c \in Dispatcher
        BY DEF TypeInv, TypeOK
  <2> QED
      BY <2>1, <2>5, <2>6, <2>7 DEF PlaceInv
<1>5. ASSUME NEW d \in Dispatcher, Send(d) PROVE PlaceInv'
      BY <1>5, PlaceSend
<1>6. CASE UNCHANGED vars
  <2>1. UNCHANGED <<queue, hand, dpc, runs, lost, wpc>>
        BY <1>6
  <2> QED
      BY <1>s, <2>1 DEF PlaceInv
<1> QED
    BY <1>1, <1>2, <1>3, <1>4, <1>5, <1>6 DEF Next, Work, DispatchStep

-----------------------------------------------------------------------------
(* When a task is lost                                                       *)

\* As long as no worker was interrupted, every queue has a worker that has it open,
\* so none is destroyed with tasks in it.
LossInv ==
  /\ \A q \in Queue : q > created => queue[q] = << >>
  /\ ~interrupted =>
       /\ lost = {}
       /\ \A q \in 1 .. created : \E w \in Worker : wmq[w] = q
       /\ \A w \in Worker : wpc[w] # "cleanup"
       /\ \A w \in Worker : wpc[w] \in {"off", "create"} => wmq[w] = 0

LEMMA LossInit == Init => LossInv
<1> SUFFICES ASSUME Init PROVE LossInv
    OBVIOUS
<1>1. \A q \in 1 .. created : FALSE
      BY DEF Init
<1> QED
    BY <1>1 DEF Init, LossInv

\* The queues that a step destroys hold no task, if those that exist are open.
LEMMA NothingLost ==
  ASSUME TypeInv, NEW s, \A q \in Queue : q > created => s[q] = << >>,
         NEW dropped, Release(s, dropped), created' = created
  PROVE  /\ \A q \in Queue : q > created' => queue'[q] = << >>
         /\ (\A q \in 1 .. created : \E w \in Worker : wmq'[w] = q) => lost' = lost \cup dropped
<1>1. PICK gone \in SUBSET Queue :
        /\ \A q \in gone : \A w \in Worker : wmq'[w] # q
        /\ queue' = [q \in Queue |-> IF q \in gone THEN << >> ELSE s[q]]
        /\ lost' = lost \cup dropped \cup UNION {Tasks(s[q]) : q \in gone}
      BY DEF Release, Unused
<1>2. \A q \in Queue : q > created' => queue'[q] = << >>
      BY <1>1
<1>3. ASSUME \A q \in 1 .. created : \E w \in Worker : wmq'[w] = q
      PROVE  lost' = lost \cup dropped
  <2>1. \A q \in gone : s[q] = << >>
    <3> TAKE q \in gone
    <3>1. q \in Queue /\ q \notin 1 .. created
          BY <1>1, <1>3
    <3>2. created \in Nat /\ q \in Nat \ {0}
          BY <3>1, QueueNumbers DEF TypeInv, Queue
    <3>3. q > created
          BY <3>1, <3>2
    <3> QED
        BY <3>1, <3>3
  <2>2. Tasks(<< >>) = {}
        BY DEF Tasks
  <2>3. UNION {Tasks(s[q]) : q \in gone} = {}
        BY <2>1, <2>2
  <2> QED
      BY <1>1, <2>3
<1> QED
    BY <1>2, <1>3

LEMMA LossNext == TypeInv /\ PlaceInv /\ LossInv /\ [Next]_vars => LossInv'
<1> SUFFICES ASSUME TypeInv, PlaceInv, LossInv, [Next]_vars PROVE LossInv'
    OBVIOUS
<1>t. /\ wpc \in [Worker -> {"off", "create", "signal", "loop", "busy", "cleanup"}]
      /\ wmq \in [Worker -> 0 .. created] /\ interrupted \in BOOLEAN
      /\ queue \in [Queue -> Seq(Msg)] /\ created \in Nat
      BY QueueNumbers DEF TypeInv, TypeOK, Msg
<1>e. \A q \in Queue : q > created => queue[q] = << >>
      BY DEF LossInv
<1>1. ASSUME NEW w \in Worker, Start(w) PROVE LossInv'
  <2>1. /\ wpc' = [wpc EXCEPT ![w] = "create"] /\ wpc[w] = "off" /\ UNCHANGED <<created, wmq, interrupted>>
        /\ Release(queue, {})
        BY <1>1 DEF Start, Goto
  <2>2. PICK dropped : dropped = {}
        OBVIOUS
  <2>3. /\ \A q \in Queue : q > created' => queue'[q] = << >>
        /\ (\A q \in 1 .. created : \E v \in Worker : wmq'[v] = q) => lost' = lost \cup dropped
        BY <1>e, <2>1, <2>2, NothingLost
  <2> QED
      BY <1>t, <2>1, <2>2, <2>3 DEF LossInv
<1>2. ASSUME NEW w \in Worker, Create(w) PROVE LossInv'
  <2>1. /\ wpc[w] = "create" /\ wpc' = [wpc EXCEPT ![w] = "signal"]
        /\ wmq' = [wmq EXCEPT ![w] = name'] /\ UNCHANGED <<queue, lost, interrupted>>
        /\ \/ created' = created /\ name' = name
           \/ created' = created + 1 /\ name' = created + 1
        BY <1>2 DEF Create, Goto
  <2>2. \A q \in Queue : q > created' => queue'[q] = << >>
        BY <1>t, <1>e, <2>1 DEF Queue
  <2>3. ASSUME ~interrupted, NEW q \in 1 .. created' PROVE \E v \in Worker : wmq'[v] = q
    <3>1. CASE q \in 1 .. created
      <4>1. PICK v \in Worker : wmq[v] = q
            BY <2>3, <3>1 DEF LossInv
      <4>2. v # w
            BY <2>1, <2>3, <3>1, <4>1 DEF LossInv
      <4> QED
          BY <1>t, <2>1, <4>1, <4>2
    <3>2. CASE q \notin 1 .. created
      <4>1. q = name'
            BY <1>t, <2>1, <2>3, <3>2
      <4> QED
          BY <1>t, <2>1, <4>1
    <3> QED
        BY <3>1, <3>2
  <2> QED
      BY <1>t, <2>1, <2>2, <2>3 DEF LossInv
<1>3. ASSUME NEW w \in Worker, CreateFails(w) PROVE LossInv'
      BY <1>t, <1>3 DEF CreateFails, Goto, LossInv
<1>4. ASSUME NEW w \in Worker, InstallHandler(w) PROVE LossInv'
      BY <1>t, <1>4 DEF InstallHandler, Goto, LossInv
<1>5. ASSUME NEW w \in Worker, Receive(w) PROVE LossInv'
  <2>1. /\ wpc[w] = "loop" /\ wpc' = [wpc EXCEPT ![w] = "busy"]
        /\ queue' = [queue EXCEPT ![wmq[w]] = Tail(@)]
        /\ UNCHANGED <<created, wmq, lost, interrupted>>
        BY <1>5, Zenon DEF Receive, Goto
  <2>2. wmq[w] \in 0 .. created
        BY <1>t
  <2>3. \A q \in Queue : q > created => q # wmq[w] /\ queue'[q] = queue[q]
        BY <1>t, <2>1, <2>2
  <2>4. \A q \in Queue : q > created' => queue'[q] = << >>
        BY <1>e, <2>1, <2>3
  <2> QED
      BY <1>t, <2>1, <2>4 DEF LossInv
<1>6. ASSUME NEW w \in Worker, Process(w) PROVE LossInv'
  <2>1. /\ wpc[w] = "busy" /\ wpc' = [wpc EXCEPT ![w] = "loop"]
        /\ UNCHANGED <<created, queue, wmq, lost, interrupted>>
        BY <1>6, Zenon DEF Process, Goto
  <2> QED
      BY <1>t, <2>1 DEF LossInv
<1>7. ASSUME NEW w \in Worker, Interrupt(w) PROVE LossInv'
  <2>1. /\ Release(queue, hand[w]) /\ created' = created
        /\ interrupted' = (interrupted \/ wpc[w] # "create")
        BY <1>7 DEF Interrupt
  <2>2. PICK dropped : dropped = hand[w]
        OBVIOUS
  <2>3. /\ \A q \in Queue : q > created' => queue'[q] = << >>
        /\ (\A q \in 1 .. created : \E v \in Worker : wmq'[v] = q) => lost' = lost \cup dropped
        BY <1>e, <2>1, <2>2, NothingLost
  <2>4. CASE interrupted'
        BY <2>3, <2>4 DEF LossInv
  <2>5. CASE ~interrupted'
    <3>1. ~interrupted /\ wpc[w] = "create"
          BY <1>t, <2>1, <2>5
    <3>2. wmq[w] = 0 /\ hand[w] = {}
          BY <3>1 DEF LossInv, PlaceInv
    <3>3. wpc' = [wpc EXCEPT ![w] = "off"] /\ wmq' = [wmq EXCEPT ![w] = 0]
          BY <1>7, <3>1 DEF Interrupt
    <3>4. wmq' = wmq
          BY <1>t, <3>2, <3>3
    <3>5. lost' = {}
          BY <2>1, <2>2, <2>3, <3>1, <3>2, <3>4 DEF LossInv
    <3> QED
        BY <1>t, <2>1, <2>3, <3>1, <3>3, <3>4, <3>5 DEF LossInv
  <2> QED
      BY <2>4, <2>5
<1>8. ASSUME NEW w \in Worker, Cleanup(w) PROVE LossInv'
  <2>1. wpc[w] = "cleanup" /\ Release(queue, {}) /\ UNCHANGED <<created, interrupted>>
        BY <1>8 DEF Cleanup, Goto
  <2>2. PICK dropped : dropped = {}
        OBVIOUS
  <2>3. \A q \in Queue : q > created' => queue'[q] = << >>
        BY <1>e, <2>1, <2>2, NothingLost
  <2> QED
      BY <2>1, <2>3 DEF LossInv
<1>9. ASSUME NEW d \in Dispatcher, Dispatch(d) \/ OpenQueue(d) PROVE LossInv'
  <2>1. UNCHANGED <<created, queue, wpc, wmq, lost, interrupted>>
        BY <1>9, Zenon DEF Dispatch, OpenQueue
  <2> QED
      BY <2>1 DEF LossInv
<1>10. ASSUME NEW d \in Dispatcher, Send(d) PROVE LossInv'
  <2> DEFINE s == queue[dmq[d]]
             n == Cardinality(Ahead(s, prio[d]))
             m == [task |-> d, prio |-> prio[d]]
  <2>1. Release([queue EXCEPT ![dmq[d]] = Inserted(s, n, m)], {})
        BY <1>10, SentTo
  <2>2. PICK t : t = [queue EXCEPT ![dmq[d]] = Inserted(s, n, m)]
        OBVIOUS
  <2>3. PICK dropped : dropped = {}
        OBVIOUS
  <2>4. Release(t, dropped)
        BY <2>1, <2>2, <2>3
  <2>5. dmq[d] \in 0 .. created
        BY DEF TypeInv, TypeOK
  <2>6. \A q \in Queue : q > created => t[q] = << >>
    <3> HIDE DEF s, n, m
    <3>1. \A q \in Queue : q > created => q # dmq[d]
          BY <1>t, <2>5
    <3> QED
        BY <1>t, <1>e, <2>2, <3>1
  <2>7. UNCHANGED <<created, wpc, wmq, interrupted>>
        BY <1>10, Zenon DEF Send
  <2>8. /\ \A q \in Queue : q > created' => queue'[q] = << >>
        /\ (\A q \in 1 .. created : \E v \in Worker : wmq'[v] = q) => lost' = lost \cup dropped
        BY <2>4, <2>6, <2>7, NothingLost
  <2> QED
      BY <2>3, <2>7, <2>8 DEF LossInv
<1>11. CASE UNCHANGED vars
      BY <1>11 DEF LossInv
<1> QED
    BY <1>1, <1>2, <1>3, <1>4, <1>5, <1>6, <1>7, <1>8, <1>9, <1>10, <1>11
    DEF Next, Work, DispatchStep

-----------------------------------------------------------------------------
\* The places at which a queue holds the task of d, and the workers that hold it.
Places(d) == {p \in Queue \X (1 .. MAX_MESSAGES) :
                p[2] <= Len(queue[p[1]]) /\ queue[p[1]][p[2]].task = d}
Holders(d) == {w \in Worker : d \in hand[w]}

LEMMA PlacesOfWaiting ==
  ASSUME TypeInv, PlaceInv, NEW d \in Waiting
  PROVE  Cardinality(Places(d)) = 1
<1>0. Placed(queue, Waiting)
      BY DEF PlaceInv
<1>1. PICK q \in Queue : \E i \in 1 .. Len(queue[q]) : queue[q][i].task = d
      BY <1>0 DEF Placed
<1>2. PICK i \in 1 .. Len(queue[q]) : queue[q][i].task = d
      BY <1>1
<1>3. \A r \in Queue : Len(queue[r]) \in Nat /\ Len(queue[r]) <= MAX_MESSAGES
      BY DEF TypeInv, TypeOK
<1>4. <<q, i>> \in Places(d)
      BY <1>2, <1>3, QueueAssumption DEF Places
<1>5. ASSUME NEW p \in Places(d) PROVE p = <<q, i>>
  <2>1. p \in Queue \X (1 .. MAX_MESSAGES) /\ p[2] <= Len(queue[p[1]]) /\ queue[p[1]][p[2]].task = d
        BY DEF Places
  <2>2. p = <<p[1], p[2]>> /\ p[1] \in Queue /\ p[2] \in 1 .. Len(queue[p[1]])
        BY <2>1, <1>3, QueueAssumption
  <2>3. p[1] = q /\ p[2] = i
        BY <1>0, <1>2, <2>1, <2>2 DEF Placed
  <2> QED
      BY <2>2, <2>3
<1>6. Places(d) = {<<q, i>>}
      BY <1>4, <1>5
<1> QED
    BY <1>6, FS_Singleton

LEMMA PlacesOfOthers ==
  ASSUME TypeInv, PlaceInv, NEW d \in Dispatcher, d \notin Waiting
  PROVE  Cardinality(Places(d)) = 0
<1>1. \A r \in Queue : Len(queue[r]) \in Nat
      BY DEF TypeInv, TypeOK
<1>2. ASSUME NEW p \in Places(d) PROVE FALSE
  <2>1. p \in Queue \X (1 .. MAX_MESSAGES) /\ p[2] <= Len(queue[p[1]]) /\ queue[p[1]][p[2]].task = d
        BY DEF Places
  <2>2. p[1] \in Queue /\ p[2] \in 1 .. Len(queue[p[1]])
        BY <2>1, <1>1, QueueAssumption
  <2> QED
      BY <2>1, <2>2 DEF PlaceInv, Placed
<1>3. Places(d) = {}
      BY <1>2
<1> QED
    BY <1>3, FS_EmptySet

LEMMA HolderOf ==
  ASSUME PlaceInv, NEW d \in Dispatcher
  PROVE  Cardinality(Holders(d)) = IF Held(d) THEN 1 ELSE 0
<1>1. CASE Held(d)
  <2>1. PICK w \in Worker : d \in hand[w]
        BY <1>1 DEF Held
  <2>2. Holders(d) = {w}
        BY <2>1 DEF Holders, PlaceInv
  <2> QED
      BY <1>1, <2>2, FS_Singleton
<1>2. CASE ~Held(d)
  <2>1. Holders(d) = {}
        BY <1>2 DEF Holders, Held
  <2> QED
      BY <1>2, <2>1, FS_EmptySet
<1> QED
    BY <1>1, <1>2

\* However workers are started, interrupted and killed, and whatever happens to the
\* name: a task that was sent waits in one place of one queue, is held by one worker,
\* was processed once or is lost, and it is lost only after a worker was interrupted.
THEOREM PlaceCorrect == Spec => []TaskInOnePlace
<1>1. TypeInv /\ PlaceInv /\ LossInv => TaskInOnePlace
  <2> SUFFICES ASSUME TypeInv, PlaceInv, LossInv PROVE TaskInOnePlace
      OBVIOUS
  <2>1. lost # {} => interrupted
        BY DEF LossInv, TypeInv, TypeOK
  <2>2. ASSUME NEW d \in Dispatcher
        PROVE  Cardinality(Places(d)) + Cardinality(Holders(d)) + runs[d]
                 + (IF d \in lost THEN 1 ELSE 0) = IF dpc[d] = "sent" THEN 1 ELSE 0
    <3>1. Cardinality(Holders(d)) = IF Held(d) THEN 1 ELSE 0
          BY HolderOf
    <3>2. Cardinality(Places(d)) = IF d \in Waiting THEN 1 ELSE 0
          BY PlacesOfWaiting, PlacesOfOthers
    <3>3. /\ runs[d] \in {0, 1} /\ (runs[d] = 1 => Sent(d) /\ d \notin lost /\ ~Held(d))
          /\ (d \in lost => Sent(d) /\ ~Held(d)) /\ (Held(d) => Sent(d))
          BY DEF PlaceInv
    <3>4. d \in Waiting <=> (Sent(d) /\ runs[d] = 0 /\ d \notin lost /\ ~Held(d))
          BY DEF Waiting
    <3>5. Sent(d) <=> dpc[d] = "sent"
          BY DEF Sent
    <3> QED
        BY <3>1, <3>2, <3>3, <3>4, <3>5
  <2> QED
      BY <2>1, <2>2 DEF TaskInOnePlace, Places, Holders
<1> QED
    BY TypeInit, TypeNext, PlaceInit, PlaceNext, LossInit, LossNext, <1>1, PTL DEF Spec
=============================================================================
