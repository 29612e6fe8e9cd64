--------------------------- MODULE SignalPipeProofs ---------------------------
(***************************************************************************)
(* Theorems about SignalPipe, for reads of any size.                       *)
(***************************************************************************)
EXTENDS SignalPipe, SequenceTheorems, TLAPS

USE DEF sigs, input, history, vars

-----------------------------------------------------------------------------
(* What is written to the pipe and what a read leaves in it                  *)

Byte == {b \in [sig : Signal, at : 1 .. 8] : b.at <= Bytes[b.sig]}

LEMMA MessageBytes ==
  ASSUME NEW s \in Signal
  PROVE  /\ Message(s) \in Seq(Byte) /\ Len(Message(s)) \in Nat \ {0}
         /\ \A i \in 1 .. Len(Message(s)) : Message(s)[i].sig = s
<1>1. CASE s = "SIGINT"
  <2>1. Bytes[s] = 7
        BY <1>1 DEF Bytes
  <2>2. Message(s) = [i \in 1 .. 7 |-> [sig |-> s, at |-> i]]
        BY <2>1 DEF Message
  <2>3. \A i \in 1 .. 7 : [sig |-> s, at |-> i] \in Byte
        BY <2>1 DEF Byte
  <2>4. Message(s) \in [1 .. 7 -> Byte]
        BY <2>2, <2>3
  <2> QED
      BY <2>2, <2>4, SeqDef
<1>2. CASE s = "SIGTERM"
  <2>1. Bytes[s] = 8
        BY <1>2 DEF Bytes
  <2>2. Message(s) = [i \in 1 .. 8 |-> [sig |-> s, at |-> i]]
        BY <2>1 DEF Message
  <2>3. \A i \in 1 .. 8 : [sig |-> s, at |-> i] \in Byte
        BY <2>1 DEF Byte
  <2>4. Message(s) \in [1 .. 8 -> Byte]
        BY <2>2, <2>3
  <2> QED
      BY <2>2, <2>4, SeqDef
<1> QED
    BY <1>1, <1>2 DEF Signal

\* What is written comes behind what is there.
LEMMA Appended ==
  ASSUME pipe \in Seq(Byte), NEW s \in Signal
  PROVE  /\ pipe \o Message(s) \in Seq(Byte) /\ pipe \o Message(s) # << >>
         /\ \A i \in 1 .. Len(pipe \o Message(s)) :
              \/ i \in 1 .. Len(pipe) /\ (pipe \o Message(s))[i] = pipe[i]
              \/ (pipe \o Message(s))[i].sig = s
<1> DEFINE m == Message(s)
           p == pipe \o m
<1>1. m \in Seq(Byte) /\ Len(m) \in Nat \ {0} /\ \A i \in 1 .. Len(m) : m[i].sig = s
      BY MessageBytes
<1> HIDE DEF m
<1>2. /\ p \in Seq(Byte) /\ Len(p) = Len(pipe) + Len(m)
      /\ \A i \in 1 .. Len(pipe) + Len(m) :
           p[i] = IF i <= Len(pipe) THEN pipe[i] ELSE m[i - Len(pipe)]
      BY <1>1, ConcatProperties
<1> HIDE DEF p
<1>3. Len(pipe) \in Nat
      OBVIOUS
<1>4. p # << >>
      BY <1>1, <1>2, <1>3
<1>5. ASSUME NEW i \in 1 .. Len(p)
      PROVE  \/ i \in 1 .. Len(pipe) /\ p[i] = pipe[i]
             \/ p[i].sig = s
  <2>1. CASE i <= Len(pipe)
        BY <1>2, <1>3, <2>1
  <2>2. CASE ~(i <= Len(pipe))
    <3>1. i - Len(pipe) \in 1 .. Len(m) /\ p[i] = m[i - Len(pipe)]
          BY <1>1, <1>2, <1>3, <2>2
    <3> QED
        BY <1>1, <3>1
  <2> QED
      BY <2>1, <2>2
<1> QED
    BY <1>2, <1>4, <1>5 DEF p, m

\* What is left comes from what was there.
LEMMA Left ==
  ASSUME pipe \in Seq(Byte)
  PROVE  /\ Taken \in 0 .. Len(pipe)
         /\ Rest \in Seq(Byte)
         /\ \A i \in 1 .. Len(Rest) : \E j \in 1 .. Len(pipe) : Rest[i] = pipe[j]
<1>1. Len(pipe) \in Nat
      OBVIOUS
<1>2. Taken \in 0 .. Len(pipe)
      BY <1>1, SignalAssumption DEF Taken
<1> DEFINE k == Taken + 1
<1>3. k \in Int /\ Len(pipe) \in Int /\ \A i \in k .. Len(pipe) : pipe[i] \in Byte
      BY <1>1, <1>2
<1>4. /\ SubSeq(pipe, k, Len(pipe)) \in Seq(Byte)
      /\ Len(SubSeq(pipe, k, Len(pipe))) = IF k <= Len(pipe) THEN Len(pipe) - k + 1 ELSE 0
      /\ \A i \in 1 .. Len(pipe) - k + 1 : SubSeq(pipe, k, Len(pipe))[i] = pipe[k + i - 1]
      BY <1>3, SubSeqProperties
<1>5. ASSUME NEW i \in 1 .. Len(Rest) PROVE \E j \in 1 .. Len(pipe) : Rest[i] = pipe[j]
  <2>1. i \in 1 .. Len(pipe) - k + 1
        BY <1>1, <1>2, <1>4 DEF Rest
  <2>2. k + i - 1 \in 1 .. Len(pipe)
        BY <1>1, <1>2, <2>1
  <2> QED
      BY <1>4, <2>1, <2>2 DEF Rest
<1> QED
    BY <1>2, <1>4, <1>5 DEF Rest

-----------------------------------------------------------------------------
(* The two threads                                                           *)

LEMMA TypeInit == Init => TypeOK
<1>1. << >> \in Seq(Byte)
      BY EmptySeq
<1> QED
    BY <1>1 DEF Init, TypeOK, Signal, Byte

LEMMA TypeNext == TypeOK /\ [Next]_vars => TypeOK'
<1> SUFFICES ASSUME TypeOK, [Next]_vars PROVE TypeOK'
    OBVIOUS
<1>0. pipe \in Seq(Byte)
      BY DEF TypeOK, Byte
<1>1. ASSUME NEW s \in Signal, Kill(s) PROVE TypeOK'
      BY <1>1 DEF Kill, TypeOK
<1>2. CASE TypeLine \/ EndInput
      BY <1>2 DEF TypeLine, EndInput, TypeOK
<1>3. CASE SigWait
      BY <1>3 DEF SigWait, TypeOK
<1>4. CASE WriteMessage
  <2>1. pipe' \in Seq(Byte)
    <3>1. pipe \o Message(sig) \in Seq(Byte)
          BY <1>0, Appended DEF TypeOK
    <3> QED
        BY <1>0, <1>4, <3>1, Zenon DEF WriteMessage
  <2>2. spc' \in {"wait", "write", "done"}
        BY <1>4 DEF WriteMessage, Written, TypeOK
  <2>3. /\ mpc' = "killed" \/ UNCHANGED mpc
        /\ UNCHANGED <<pending, sig, readable, input, history>>
        BY <1>4, Zenon DEF WriteMessage
  <2> QED
      BY <2>1, <2>2, <2>3 DEF TypeOK, Byte
<1>5. CASE Select
  <2>1. readable' \in BOOLEAN /\ mpc' \in {"select", "input", "signal", "close", "close2", "join", "end", "killed"}
        BY <1>5 DEF Select
  <2> QED
      BY <1>5, <2>1 DEF Select, TypeOK
<1>6. CASE Fgets
  <2>1. mpc' \in {"select", "input", "signal", "close", "close2", "join", "end", "killed"}
        BY <1>6 DEF Fgets
  <2> QED
      BY <1>6, <2>1 DEF Fgets, TypeOK
<1>7. CASE ReadSignal
  <2>1. pipe' \in Seq(Byte)
        BY <1>0, <1>7, Left DEF ReadSignal
  <2>2. mpc' \in {"select", "input", "signal", "close", "close2", "join", "end", "killed"}
        BY <1>7, Zenon DEF ReadSignal
  <2>3. swallowed' \in BOOLEAN
        BY <1>7 DEF ReadSignal, TypeOK
  <2> QED
      BY <1>7, <2>1, <2>2, <2>3 DEF ReadSignal, TypeOK, Byte
<1>8. CASE SelectFails \/ ClosePipe \/ Join
      BY <1>8 DEF SelectFails, ClosePipe, Join, TypeOK
<1>9. CASE UNCHANGED vars
      BY <1>9 DEF TypeOK
<1> QED
    BY <1>1, <1>2, <1>3, <1>4, <1>5, <1>6, <1>7, <1>8, <1>9 DEF Next, ThreadStep, MainStep

\* The types of the variables; what is in the pipe are bytes of messages.
THEOREM TypeCorrect == Spec => []TypeOK
BY TypeInit, TypeNext, PTL DEF Spec

\* While main has not read what select() found, it stays in the pipe, and a byte of
\* "SIGTERM" in the pipe was written by a thread that has ended.
WaitInv ==
  /\ mpc = "signal" => pipe # << >>
  /\ mpc = "input" /\ readable => pipe # << >>
  /\ \A i \in 1 .. Len(pipe) : pipe[i].sig = "SIGTERM" => spc = "done"
  /\ mpc \in {"close", "close2", "join", "end"} => spc = "done" \/ failed
  /\ mpc = "killed" => failed

LEMMA WaitInit == Init => WaitInv
BY DEF Init, WaitInv

LEMMA WaitNext == TypeOK /\ WaitInv /\ [Next]_vars => WaitInv'
<1> SUFFICES ASSUME TypeOK, WaitInv, [Next]_vars PROVE WaitInv'
    OBVIOUS
<1>0. pipe \in Seq(Byte)
      BY DEF TypeOK, Byte
<1>1. ASSUME NEW s \in Signal, Kill(s) PROVE WaitInv'
      BY <1>1 DEF Kill, WaitInv
<1>2. CASE TypeLine \/ EndInput
      BY <1>2 DEF TypeLine, EndInput, WaitInv
<1>3. CASE SigWait
      BY <1>3 DEF SigWait, WaitInv
<1>4. CASE WriteMessage
  <2>1. sig \in Signal /\ spc = "write"
        BY <1>4 DEF WriteMessage, TypeOK
  <2>t. \A i \in 1 .. Len(pipe) : pipe[i].sig # "SIGTERM"
        BY <2>1 DEF WaitInv
  <2>2. CASE /\ mpc \in {"select", "input", "signal", "close"} /\ UNCHANGED mpc
             /\ pipe' = pipe \o Message(sig) /\ Written
    <3>1. pipe' # << >>
          BY <1>0, <2>1, <2>2, Appended
    <3>2. ASSUME NEW i \in 1 .. Len(pipe'), pipe'[i].sig = "SIGTERM" PROVE spc' = "done"
      <4>1. \/ i \in 1 .. Len(pipe) /\ pipe'[i] = pipe[i]
            \/ pipe'[i].sig = sig
            BY <1>0, <2>1, <2>2, Appended
      <4>2. sig = "SIGTERM"
            BY <2>t, <3>2, <4>1
      <4> QED
          BY <2>2, <4>2 DEF Written
    <3>3. UNCHANGED <<mpc, failed>> /\ (mpc = "close" => failed)
          BY <1>4, <2>1, <2>2 DEF WriteMessage, WaitInv
    <3> QED
        BY <2>2, <3>1, <3>2, <3>3 DEF WaitInv
  <2>3. CASE mpc = "close2" /\ mpc' = "killed" /\ UNCHANGED <<pipe, spc>>
    <3>1. failed /\ failed'
          BY <1>4, <2>1, <2>3 DEF WriteMessage, WaitInv
    <3> QED
        BY <2>3, <3>1 DEF WaitInv
  <2>4. CASE mpc = "join" /\ UNCHANGED <<pipe, mpc>>
    <3>1. failed /\ failed'
          BY <1>4, <2>1, <2>4 DEF WriteMessage, WaitInv
    <3> QED
        BY <2>t, <2>4, <3>1 DEF WaitInv
  <2> QED
      BY <1>4, <2>2, <2>3, <2>4, Zenon DEF WriteMessage
<1>5. CASE Select
      BY <1>5 DEF Select, WaitInv
<1>6. CASE Fgets
      BY <1>6 DEF Fgets, WaitInv
<1>7. CASE ReadSignal
  <2>1. UNCHANGED spc /\ pipe' = Rest
        BY <1>7 DEF ReadSignal
  <2>2. \A i \in 1 .. Len(pipe') : pipe'[i].sig = "SIGTERM" => spc' = "done"
        BY <1>0, <2>1, Left DEF WaitInv
  <2>3. mpc' \in {"select", "close"}
        BY <1>7, Zenon DEF ReadSignal
  <2>4. ASSUME mpc' = "close" PROVE spc = "done"
    <3>1. Found("SIGTERM")
          BY <1>7, <2>4 DEF ReadSignal
    <3>2. PICK i \in 1 .. Taken : pipe[i] = [sig |-> "SIGTERM", at |-> 1]
          BY <3>1 DEF Found
    <3>3. i \in 1 .. Len(pipe)
          BY <1>0, Left, <3>2
    <3> QED
        BY <3>2, <3>3 DEF WaitInv
  <2> QED
      BY <2>1, <2>2, <2>3, <2>4 DEF WaitInv
<1>8. CASE SelectFails \/ ClosePipe \/ Join
      BY <1>8 DEF SelectFails, ClosePipe, Join, WaitInv
<1>9. CASE UNCHANGED vars
      BY <1>9 DEF WaitInv
<1> QED
    BY <1>1, <1>2, <1>3, <1>4, <1>5, <1>6, <1>7, <1>8, <1>9 DEF Next, ThreadStep, MainStep

\* Main does not wait in the read, whatever happened since select() returned.  And
\* unless select() failed it leaves the loop only after the thread's last message,
\* however the reads cut the messages: it closes no pipe that is still written to,
\* the join does not wait, and no write kills the process.
THEOREM WaitCorrect == Spec => []LoopOutlivesThread
<1>1. WaitInv => LoopOutlivesThread
      BY DEF WaitInv, LoopOutlivesThread
<1> QED
    BY TypeInit, TypeNext, WaitInit, WaitNext, <1>1, PTL DEF Spec
=============================================================================
