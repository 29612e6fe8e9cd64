----------------------------- MODULE SignalPipe -----------------------------
(***************************************************************************)
(* The program of 05-ipc-signal/signal-input.  All threads block SIGINT    *)
(* and SIGTERM; a signal thread takes them with sigwait() and writes a     *)
(* line for each into a pipe; the main thread waits with select() for the  *)
(* pipe and for standard input, a terminal that hands out whole lines.     *)
(* The model starts when the signal thread has been created.               *)
(*                                                                         *)
(* The pipe is a stream of bytes and a read takes as many as it can, so    *)
(* what main finds in its buffer is not one message.  A byte in the pipe   *)
(* is known by the message it belongs to and its place there.              *)
(***************************************************************************)
EXTENDS Integers, Sequences

CONSTANTS
  ReadSize,   (* the size of msg[], 64 in the code                       *)
  MaxPipe     (* bound: bytes in the pipe when a SIGINT is sent          *)

ASSUME SignalAssumption ==
  /\ ReadSize \in Nat \ {0}
  /\ MaxPipe \in Nat

VARIABLES
  pending,     (* the signals pending for the process                    *)
  spc, sig,    (* signal thread: "wait", "write" or "done"; sig          *)
  pipe,        (* the bytes in the pipe                                  *)
  mpc,         (* main: "select", "input", "signal", "close", "close2",
                  "join"; "end" and "killed" once the process has ended  *)
  readable,    (* main: whether select() found the pipe readable         *)
  line, eof,   (* standard input: a line is there; no more will come     *)
  swallowed,   (* bytes of "SIGTERM" were read and not recognised        *)
  failed       (* select() has failed                                    *)

sigs    == <<pending, spc, sig>>
input   == <<line, eof>>
history == <<swallowed, failed>>
vars    == <<sigs, pipe, mpc, readable, input, history>>

Signal == {"SIGINT", "SIGTERM"}

\* strlen("SIGINT\n") and strlen("SIGTERM\n").
Bytes == [SIGINT |-> 7, SIGTERM |-> 8]
\* Variant: the terminating zero is written too.
MessageWithZero(s) == [i \in 1 .. Bytes[s] + 1 |-> [sig |-> s, at |-> i]]

Message(s) == [i \in 1 .. Bytes[s] |-> [sig |-> s, at |-> i]]

Init ==
  /\ pending = {} /\ spc = "wait" /\ sig = "SIGINT"
  /\ pipe = << >>
  /\ mpc = "select" /\ readable = FALSE
  /\ line = FALSE /\ eof = FALSE
  /\ swallowed = FALSE /\ failed = FALSE

-----------------------------------------------------------------------------
(* The world: signals of a kind do not queue, the user types.                *)

Ended == mpc \in {"end", "killed"}

Kill(s) ==
  /\ ~Ended
  /\ s = "SIGINT" => Len(pipe) < MaxPipe
  /\ pending' = pending \cup {s}
  /\ UNCHANGED <<spc, sig, pipe, mpc, readable, input, history>>

TypeLine ==
  /\ ~eof /\ ~line
  /\ line' = TRUE
  /\ UNCHANGED <<sigs, pipe, mpc, readable, eof, history>>

EndInput ==
  /\ ~eof /\ eof' = TRUE
  /\ UNCHANGED <<sigs, pipe, mpc, readable, line, history>>

-----------------------------------------------------------------------------
(* signal_thread                                                             *)

\* sigwait, which takes either of two.
SigWait ==
  /\ spc = "wait" /\ ~Ended
  /\ \E s \in pending : sig' = s /\ pending' = pending \ {s}
  /\ spc' = "write"
  /\ UNCHANGED <<pipe, mpc, readable, input, history>>

\* What follows a write, whatever it returned.
Written == spc' = IF sig = "SIGTERM" THEN "done" ELSE "wait"

\* write.  Without a reader SIGPIPE kills the process; once main has closed this
\* end too, nothing is written (EBADF).
WriteMessage ==
  /\ spc = "write" /\ ~Ended
  /\ \/ /\ mpc \in {"select", "input", "signal", "close"}
        /\ pipe' = pipe \o Message(sig)
        /\ Written /\ UNCHANGED mpc
     \/ /\ mpc = "close2" /\ mpc' = "killed"
        /\ UNCHANGED <<pipe, spc>>
     \/ /\ mpc = "join"
        /\ Written /\ UNCHANGED <<pipe, mpc>>
  /\ UNCHANGED <<pending, sig, readable, input, history>>

-----------------------------------------------------------------------------
(* main                                                                      *)

\* Variant: a readable pipe comes first.
SelectPipeFirst ==
  /\ mpc = "select"
  /\ line \/ eof \/ pipe # << >>
  /\ readable' = (pipe # << >>)
  /\ mpc' = IF pipe # << >> THEN "signal" ELSE "input"
  /\ UNCHANGED <<sigs, pipe, input, history>>

Select ==
  /\ mpc = "select"
  /\ line \/ eof \/ pipe # << >>
  /\ readable' = (pipe # << >>)
  /\ mpc' = IF line \/ eof THEN "input" ELSE "signal"
  /\ UNCHANGED <<sigs, pipe, input, history>>

\* select() returns -1: the loop is left.
SelectFails ==
  /\ mpc = "select"
  /\ mpc' = "close" /\ failed' = TRUE
  /\ UNCHANGED <<sigs, pipe, readable, input, swallowed>>

\* fgets returns the next line, or NULL at the end of the file.
Fgets ==
  /\ mpc = "input"
  /\ line' = FALSE
  /\ mpc' = IF readable THEN "signal" ELSE "select"
  /\ UNCHANGED <<sigs, pipe, readable, eof, history>>

\* How many bytes a read takes.
Taken == IF Len(pipe) < ReadSize THEN Len(pipe) ELSE ReadSize

\* strstr finds the name of s, which ends one byte before the message does.
Found(s) ==
  \E i \in 1 .. Taken :
    pipe[i] = [sig |-> s, at |-> 1] /\ i + Bytes[s] - 2 <= Taken

Rest == SubSeq(pipe, Taken + 1, Len(pipe))

\* Variant: any signal ends the loop.
ReadSignalLeaving ==
  /\ mpc = "signal" /\ pipe # << >>
  /\ pipe' = Rest
  /\ mpc' = IF Found("SIGINT") \/ Found("SIGTERM") THEN "close" ELSE "select"
  /\ UNCHANGED <<sigs, readable, input, history>>

\* Variant: the buffer is compared with "SIGINT" and nothing else.
ReadSignalOnlyInt ==
  /\ mpc = "signal" /\ pipe # << >>
  /\ pipe' = Rest
  /\ mpc' = "select"
  /\ UNCHANGED <<sigs, readable, input, history>>

\* One read; SIGINT is looked for first and then no longer SIGTERM.
ReadSignal ==
  /\ mpc = "signal" /\ pipe # << >>
  /\ pipe' = Rest
  /\ mpc' = IF ~Found("SIGINT") /\ Found("SIGTERM") THEN "close" ELSE "select"
  /\ swallowed' = (swallowed \/ (mpc' = "select" /\ \E i \in 1 .. Taken : pipe[i].sig = "SIGTERM"))
  /\ UNCHANGED <<sigs, readable, input, failed>>

\* The read end, and then the write end.
ClosePipe ==
  /\ \/ mpc = "close"  /\ mpc' = "close2"
     \/ mpc = "close2" /\ mpc' = "join"
  /\ UNCHANGED <<sigs, pipe, readable, input, history>>

Join ==
  /\ mpc = "join" /\ spc = "done"
  /\ mpc' = "end"
  /\ UNCHANGED <<sigs, pipe, readable, input, history>>

-----------------------------------------------------------------------------
ThreadStep == SigWait \/ WriteMessage

MainStep == Select \/ Fgets \/ ReadSignal \/ ClosePipe \/ Join

Next == \/ \E s \in Signal : Kill(s)
        \/ TypeLine \/ EndInput \/ SelectFails
        \/ ThreadStep \/ MainStep

Spec == Init /\ [][Next]_vars

\* The two threads run; nobody has to send or to type anything, and select() does
\* not have to fail.
FairSpec == Spec /\ WF_vars(ThreadStep) /\ WF_vars(MainStep)

-----------------------------------------------------------------------------
TypeOK ==
  /\ pending \subseteq Signal /\ sig \in Signal
  /\ spc \in {"wait", "write", "done"}
  /\ pipe \in Seq({b \in [sig : Signal, at : 1 .. 8] : b.at <= Bytes[b.sig]})
  /\ mpc \in {"select", "input", "signal", "close", "close2", "join", "end", "killed"}
  /\ readable \in BOOLEAN /\ line \in BOOLEAN /\ eof \in BOOLEAN
  /\ swallowed \in BOOLEAN /\ failed \in BOOLEAN

\* Main reads the pipe only when there is something to read, although it may have
\* echoed a line since select() said so.  And unless select() failed it leaves its
\* loop only when the signal thread has written its last message: it closes no pipe
\* under a write, the join does not wait, and nothing kills the process.  A failed
\* select() (main.c:81) is the other way out of the loop, and gives none of this.
LoopOutlivesThread ==
  /\ mpc = "signal" => pipe # << >>
  /\ mpc \in {"close", "close2", "join", "end"} => spc = "done" \/ failed
  /\ mpc = "killed" => failed

\* "When SIGTERM is sent ... the program ends" (README.md:67) once the signal thread
\* has taken it, but only if its message is read without a SIGINT before it and in
\* one piece: otherwise the thread that took it has ended and nothing ends the loop
\* any more (main.c:98).  A failed select() does not keep the program from ending.
TermEndsProgram ==
  /\ (spc = "write" /\ sig = "SIGTERM") ~> (Ended \/ swallowed)
  /\ pipe = Message("SIGTERM") ~> Ended

\* A line is echoed although signals keep coming: each round looks at stdin.  Only
\* the end of the loop, by SIGTERM or by a failed select(), can come before.
LineEchoed == line ~> (~line \/ mpc \notin {"select", "input", "signal"})
=============================================================================
