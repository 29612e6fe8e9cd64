----------------------------- MODULE CharDriver -----------------------------
(***************************************************************************)
(* The three drivers that register one character device when they are      *)
(* loaded: mydevice (13-char-device), mgpio (14-gpio-device-driver, GPIO   *)
(* registers mapped by hand) and mgpio_int (15-gpio-integer, the same LED  *)
(* through gpiolib).  A module is loaded by a list of calls, each of which *)
(* may fail and then releases what came before; users open, read and write *)
(* the device as soon as it exists, which is before the load is complete;  *)
(* and it can be removed and loaded again.                                 *)
(*                                                                         *)
(* The kernel's part - the module's state and reference count, the mutex,  *)
(* the line - is modelled from how the drivers use it.  open() is one step *)
(* of the kernel: it finds the device and counts a reference, or fails.    *)
(***************************************************************************)
EXTENDS Integers, Sequences, FiniteSets

CONSTANTS
  User,       (* processes that use the device, one file each             *)
  GREET_LEN   (* the length of mydevice's greeting                        *)

ASSUME DriverAssumption ==
  /\ IsFiniteSet(User)
  /\ "free" \notin User
  /\ GREET_LEN \in Nat \ {0}

VARIABLES
  driver,      (* the driver this behaviour is about                      *)
  mod,         (* the module: "absent" (never loaded, or the load failed),
                  "coming", "failing", "live", "going", "removed"         *)
  todo,        (* the calls that init, its error path or exit still makes *)
  held,        (* the resources the module holds                          *)
  refs,        (* the module's reference count, without the kernel's own  *)
  lock,        (* mgpio_lock: "free" or its holder                        *)
  caught,      (* users whose entry the mutex's list of sleepers has lost *)
  broken,      (* the mutex was initialised while somebody was inside     *)
  output,      (* the line is configured as an output                     *)
  latch,       (* the level written to the line last                      *)
  gpio_state,  (* mgpio_int: what a read reports                          *)
  pc, cmd,     (* users: control point, the command being written         *)
  pos          (* users: the file position                                *)

module == <<mod, todo, held>>
mutex  == <<lock, caught, broken>>
line   == <<output, latch, gpio_state>>
users  == <<pc, cmd, pos>>
vars   == <<driver, module, refs, mutex, line, users>>

Driver   == {"mydevice", "mgpio", "mgpio_int"}
Resource == {"map", "gpio", "region", "cdev", "class", "device"}
\* Calls of init that can fail.  "mutex" and "fsel" cannot.
Fallible == Resource \cup {"direction"}

-----------------------------------------------------------------------------
(* What each driver calls when it is loaded, when a call of these fails, and *)
(* when it is removed.                                                       *)

MydeviceInit   == <<"region", "cdev", "class", "device">>
MydeviceErrors == [region |-> << >>,
                   cdev   |-> <<"region">>,
                   class  |-> <<"cdev", "region">>,
                   device |-> <<"class", "cdev", "region">>]
\* Variant: the class is destroyed before the device in it.
MydeviceExitSwapped == <<"class", "device", "cdev", "region">>

MydeviceExit   == <<"device", "class", "cdev", "region">>
MgpioInit   == <<"map", "region", "cdev", "class", "device", "mutex", "fsel">>
\* The labels err_class, err_cdevdel, err_unregister and err_unmap, one after
\* the other; a goto enters at the label given here.
MgpioUnwind == <<"class", "cdev", "region", "map">>
MgpioErrors == LET from(l) == SubSeq(MgpioUnwind, l, 4)
               IN [map |-> << >>, region |-> from(4), cdev |-> from(3),
                   class |-> from(2), device |-> from(1)]
MgpioExit   == <<"off", "device", "class", "cdev", "region", "map">>

MgpioIntInit   == <<"gpio", "direction", "region", "cdev", "class", "device">>
\* Variant: the class is not created and the line is not given back.
MgpioIntErrorsLeaking ==
  [gpio      |-> << >>,
   direction |-> <<"gpio">>,
   region    |-> <<"gpio">>,
   cdev      |-> <<"region", "gpio">>,
   class     |-> <<"cdev", "region">>,
   device    |-> <<"class", "cdev", "region", "gpio">>]
MgpioIntErrors == [gpio      |-> << >>,
                   direction |-> <<"gpio">>,
                   region    |-> <<"gpio">>,
                   cdev      |-> <<"region", "gpio">>,
                   class     |-> <<"cdev", "region", "gpio">>,
                   device    |-> <<"class", "cdev", "region", "gpio">>]
\* Variant: the LED is left as it is.
MgpioIntExitLit == <<"device", "class", "cdev", "region", "gpio">>

MgpioIntExit   == <<"device", "class", "cdev", "region", "off", "gpio">>
InitCalls == [mydevice |-> MydeviceInit, mgpio |-> MgpioInit, mgpio_int |-> MgpioIntInit]
OnError   == [mydevice |-> MydeviceErrors, mgpio |-> MgpioErrors,
              mgpio_int |-> MgpioIntErrors]
ExitCalls == [mydevice |-> MydeviceExit, mgpio |-> MgpioExit, mgpio_int |-> MgpioIntExit]

Calls(s)    == {s[i] : i \in 1 .. Len(s)}
Owns(d)     == Calls(InitCalls[d]) \cap Resource

\* A loaded module starts from its image: the mutex is free (DEFINE_MUTEX),
\* gpio_state is 0.  The line is as the machine or an earlier load left it.
Init ==
  /\ driver \in Driver
  /\ mod = "absent" /\ todo = << >> /\ held = {} /\ refs = 0
  /\ lock = "free" /\ caught = {} /\ broken = FALSE
  /\ output = FALSE /\ latch \in {0, 1} /\ gpio_state = 0
  /\ pc = [u \in User |-> "closed"]
  /\ cmd = [u \in User |-> "none"]
  /\ pos = [u \in User |-> 0]

-----------------------------------------------------------------------------
(* Loading and unloading                                                     *)

Insmod ==
  /\ mod \in {"absent", "removed"}
  /\ mod' = "coming"
  /\ todo' = InitCalls[driver]
  /\ lock' = "free" /\ caught' = {} /\ broken' = FALSE /\ gpio_state' = 0
  /\ UNCHANGED <<driver, held, refs, output, latch, users>>

\* A call of init that makes something of its own.
Acquire ==
  /\ mod = "coming" /\ todo # << >> /\ Head(todo) \in Resource
  /\ held' = held \cup {Head(todo)}
  /\ todo' = Tail(todo)
  /\ UNCHANGED <<driver, mod, refs, mutex, line, users>>

\* gpio_direction_output(gpio_num, 0), and gpio_state = 0.
DirectionOutput ==
  /\ mod = "coming" /\ todo # << >> /\ Head(todo) = "direction"
  /\ output' = TRUE /\ latch' = 0 /\ gpio_state' = 0
  /\ todo' = Tail(todo)
  /\ UNCHANGED <<driver, mod, held, refs, mutex, users>>

\* mutex_init(&mgpio_lock), after the device was created: whoever holds the
\* mutex no longer does, and whoever sleeps at it is no longer in its list.  An
\* unlock has woken one of the sleepers, or more, if nobody holds it: these try
\* again, their entries still outside the list.
InitMutex ==
  /\ mod = "coming" /\ todo # << >> /\ Head(todo) = "mutex"
  /\ LET sleepers == {u \in User : pc[u] = "wait"}
     IN \E awake \in SUBSET sleepers :
          /\ lock = "free" /\ sleepers # {} => awake # {}
          /\ pc' = [u \in User |-> IF u \in awake THEN "lock" ELSE pc[u]]
          /\ caught' = sleepers
  /\ broken' = (lock # "free")
  /\ lock' = "free"
  /\ todo' = Tail(todo)
  /\ UNCHANGED <<driver, mod, held, refs, line, cmd, pos>>

\* gpio27_as_output: the latch keeps what was written to it before.
AsOutput ==
  /\ mod = "coming" /\ todo # << >> /\ Head(todo) = "fsel"
  /\ output' = TRUE
  /\ todo' = Tail(todo)
  /\ UNCHANGED <<driver, mod, held, refs, mutex, latch, gpio_state, users>>

CallFails ==
  /\ mod = "coming" /\ todo # << >> /\ Head(todo) \in Fallible
  /\ mod' = "failing"
  /\ todo' = OnError[driver][Head(todo)]
  /\ UNCHANGED <<driver, held, refs, mutex, line, users>>

Loaded ==
  /\ mod = "coming" /\ todo = << >>
  /\ mod' = "live"
  /\ UNCHANGED <<driver, todo, held, refs, mutex, line, users>>

\* rmmod fails while the module is referenced.
Rmmod ==
  /\ mod = "live" /\ refs = 0
  /\ mod' = "going"
  /\ todo' = ExitCalls[driver]
  /\ UNCHANGED <<driver, held, refs, mutex, line, users>>

Release ==
  /\ mod \in {"failing", "going"} /\ todo # << >> /\ Head(todo) \in Resource
  /\ held' = held \ {Head(todo)}
  /\ todo' = Tail(todo)
  /\ UNCHANGED <<driver, mod, refs, mutex, line, users>>

\* gpio27_off() and gpio_set_value(gpio_num, 0).
SwitchOff ==
  /\ mod = "going" /\ todo # << >> /\ Head(todo) = "off"
  /\ latch' = 0
  /\ todo' = Tail(todo)
  /\ UNCHANGED <<driver, mod, held, refs, mutex, output, gpio_state, users>>

Unloaded ==
  /\ mod \in {"failing", "going"} /\ todo = << >>
  /\ mod' = IF mod = "going" THEN "removed" ELSE "absent"
  /\ UNCHANGED <<driver, todo, held, refs, mutex, line, users>>

-----------------------------------------------------------------------------
(* The file operations                                                       *)

Goto(u, from, to) == pc[u] = from /\ pc' = [pc EXCEPT ![u] = to]

\* The kernel counts a reference for fops.owner; mgpio_open of 15 adds one.
References == IF driver = "mgpio_int" THEN 2 ELSE 1

\* Variant: fops without .owner.
OpenUncounted(u) ==
  /\ Goto(u, "closed", "open")
  /\ {"device", "cdev"} \subseteq held /\ mod # "going"
  /\ refs' = refs + References - 1
  /\ pos' = [pos EXCEPT ![u] = 0]
  /\ UNCHANGED <<driver, module, mutex, line, cmd>>

Open(u) ==
  /\ Goto(u, "closed", "open")
  /\ {"device", "cdev"} \subseteq held /\ mod # "going"
  /\ refs' = refs + References
  /\ pos' = [pos EXCEPT ![u] = 0]
  /\ UNCHANGED <<driver, module, mutex, line, cmd>>

Close(u) ==
  /\ Goto(u, "open", "closed")
  /\ refs' = refs - References
  /\ UNCHANGED <<driver, module, mutex, line, cmd, pos>>

\* Variant: the position moves by what the reader asked for.
ReadGreetingTooFar(u) ==
  /\ driver = "mydevice" /\ pc[u] = "open" /\ pos[u] < GREET_LEN
  /\ \E len \in 1 .. GREET_LEN : pos' = [pos EXCEPT ![u] = @ + len]
  /\ UNCHANGED <<driver, module, refs, mutex, line, pc, cmd>>

\* my_read: as much of the rest of the greeting as fits into len bytes.
ReadGreeting(u) ==
  /\ driver = "mydevice" /\ pc[u] = "open" /\ pos[u] < GREET_LEN
  /\ \E len \in 1 .. GREET_LEN :
       LET remaining == GREET_LEN - pos[u]
       IN pos' = [pos EXCEPT ![u] = @ + (IF len < remaining THEN len ELSE remaining)]
  /\ UNCHANGED <<driver, module, refs, mutex, line, pc, cmd>>

\* mgpio_read of 15, without the mutex: one line about gpio_state, then 0.
ReadState(u) ==
  /\ driver = "mgpio_int" /\ pc[u] = "open" /\ pos[u] = 0
  /\ pos' = [pos EXCEPT ![u] = 1]
  /\ UNCHANGED <<driver, module, refs, mutex, line, pc, cmd>>

\* mgpio_write, up to the mutex.  An empty write, and one to mydevice, changes
\* nothing.
Write(u, c) ==
  /\ driver # "mydevice"
  /\ Goto(u, "open", "lock")
  /\ cmd' = [cmd EXCEPT ![u] = c]
  /\ UNCHANGED <<driver, module, refs, mutex, line, pos>>

\* Variant: mgpio_write without mutex_lock.
TakeNothing(u) ==
  /\ Goto(u, "lock", "section")
  /\ UNCHANGED <<driver, module, refs, mutex, line, cmd, pos>>

\* mutex_lock, of one that comes or that an unlock has woken.  To remove an entry
\* that is not in the list any more (after mutex_init) is undefined: it can cut
\* off others that sleep, or bring them back.
TakeMutex(u) ==
  /\ \/ Goto(u, "lock", "section")
     \/ Goto(u, "wait", "section") /\ u \notin caught
  /\ lock = "free"
  /\ lock' = u
  /\ IF u \in caught
     THEN caught' \in SUBSET ((caught \cup {v \in User : pc[v] = "wait"}) \ {u})
     ELSE UNCHANGED caught
  /\ UNCHANGED <<driver, module, refs, broken, line, cmd, pos>>

Sleep(u) ==
  /\ Goto(u, "lock", "wait")
  /\ lock # "free"
  /\ UNCHANGED <<driver, module, refs, mutex, line, cmd, pos>>

\* Variant: an unknown command returns without mutex_unlock.
SetLineReturning(u) ==
  /\ Goto(u, "section", IF cmd[u] = "bad" THEN "open"
                        ELSE IF driver = "mgpio_int" THEN "stored" ELSE "unlock")
  /\ latch' = IF cmd[u] = "bad" THEN latch ELSE IF cmd[u] = "on" THEN 1 ELSE 0
  /\ UNCHANGED <<driver, module, refs, mutex, output, gpio_state, cmd, pos>>

\* gpio27_on, gpio27_off, gpio_set_value; "bad" is an unknown command.
SetLine(u) ==
  /\ Goto(u, "section", IF driver = "mgpio_int" /\ cmd[u] # "bad" THEN "stored" ELSE "unlock")
  /\ latch' = IF cmd[u] = "bad" THEN latch ELSE IF cmd[u] = "on" THEN 1 ELSE 0
  /\ UNCHANGED <<driver, module, refs, mutex, output, gpio_state, cmd, pos>>

StoreState(u) ==
  /\ Goto(u, "stored", "unlock")
  /\ gpio_state' = IF cmd[u] = "on" THEN 1 ELSE 0
  /\ UNCHANGED <<driver, module, refs, mutex, output, latch, cmd, pos>>

\* mutex_unlock frees the mutex, also if the caller no longer holds it.
Unlock(u) ==
  /\ Goto(u, "unlock", "open")
  /\ lock' = "free"
  /\ cmd' = [cmd EXCEPT ![u] = "none"]
  /\ UNCHANGED <<driver, module, refs, caught, broken, line, pos>>

-----------------------------------------------------------------------------
InitStep == Acquire \/ DirectionOutput \/ InitMutex \/ AsOutput \/ CallFails \/ Loaded

ExitStep == Release \/ SwitchOff \/ Unloaded

WriteStep(u) == TakeMutex(u) \/ Sleep(u) \/ SetLine(u) \/ StoreState(u) \/ Unlock(u)

FileStep(u) ==
  \/ Open(u) \/ Close(u) \/ ReadGreeting(u) \/ ReadState(u)
  \/ \E c \in {"on", "off", "bad"} : Write(u, c)
  \/ WriteStep(u)

Next == Insmod \/ Rmmod \/ InitStep \/ ExitStep \/ \E u \in User : FileStep(u)

Spec == Init /\ [][Next]_vars

\* A load and an unload run to their end; a writer that can go on does, and one
\* that sleeps in the mutex's list is given the mutex in the end.
Fairness ==
  /\ WF_vars(InitStep) /\ WF_vars(ExitStep)
  /\ \A u \in User : SF_vars(WriteStep(u))

FairSpec == Spec /\ Fairness

-----------------------------------------------------------------------------
TypeOK ==
  /\ driver \in Driver
  /\ mod \in {"absent", "coming", "failing", "live", "going", "removed"}
  /\ todo \in Seq(Fallible \cup {"mutex", "fsel", "off"})
  /\ held \in SUBSET Resource
  /\ refs \in Nat
  /\ lock \in User \cup {"free"}
  /\ caught \in SUBSET User /\ broken \in BOOLEAN
  /\ output \in BOOLEAN /\ latch \in {0, 1} /\ gpio_state \in {0, 1}
  /\ pc \in [User -> {"closed", "open", "lock", "wait", "section", "stored", "unlock"}]
  /\ cmd \in [User -> {"on", "off", "bad", "none"}]
  /\ pos \in [User -> 0 .. GREET_LEN]

\* Whichever call fails, and when the module is removed, what is still to be
\* released is what the module holds, and nothing is released twice; so a module
\* that is not loaded holds nothing and can be loaded again.
ReleasesWhatItHolds ==
  /\ mod \in {"failing", "going"} =>
       /\ Calls(todo) \cap Resource = held
       /\ \A i, j \in 1 .. Len(todo) : todo[i] = todo[j] => i = j
  /\ mod \in {"absent", "removed"} => held = {}

\* The device goes before its class and its number, the line or the mapping
\* last: a resource is released only when nothing made after it is left.
LastMadeFirstReleased ==
  [][\A i, j \in 1 .. Len(InitCalls[driver]) :
       /\ InitCalls[driver][i] \in held \ held'
       /\ InitCalls[driver][j] \in held
       => j <= i]_vars

\* Whoever has the file open has everything under it: the module is not being
\* unloaded, no later call of its load can fail any more, all resources are there,
\* and the line is an output - except that mgpio creates its device (mgpio.c:145)
\* before it makes the line an output (mgpio.c:155).
OpenFileHasDevice ==
  (\E u \in User : pc[u] # "closed") =>
     /\ mod = "coming" => Calls(todo) \cap Fallible = {}
     /\ mod \in {"coming", "live"}
     /\ held = Owns(driver)
     /\ driver = "mgpio_int" \/ (driver = "mgpio" /\ mod = "live") => output

\* A removed GPIO driver leaves the LED off: no write comes after the one of
\* mgpio_exit, although 14 switches it off before it destroys the device.
OffWhenRemoved == mod = "removed" /\ driver # "mydevice" => latch = 0

\* The state a read reports is that of the line, unless a write is on its way
\* between the two, and one write at a time is.  Only after mgpio's mutex_init has
\* freed a mutex that was held can two writers be inside, and never three.
StateFollowsLine ==
  LET inside == {u \in User : pc[u] \in {"section", "stored", "unlock"}} IN
  /\ Cardinality(inside) <= (IF driver = "mgpio" /\ broken THEN 2 ELSE 1)
  /\ driver = "mgpio_int" /\ Owns(driver) \subseteq held /\ mod # "going" =>
       gpio_state = latch \/ \E u \in User : pc[u] = "stored"

\* Every write returns, also that of a writer that was inside when mgpio_init
\* initialised the mutex - unless the writer sleeps at the mutex and its entry in
\* the list was lost, to mutex_init or to one that came out of the lost list:
\* nobody wakes that one any more.
WriteReturns ==
  \A u \in User : pc[u] = "lock" ~> (pc[u] = "open" \/ (pc[u] = "wait" /\ u \in caught))
=============================================================================
