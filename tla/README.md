# A verification of `embeded-linux`

TLA+ models of the programs of this repository, TLC runs that check them on
small instances, and theorems, proved with TLAPS, that hold for all instances.

The repository is a course in embedded Linux: some thirty small programs and,
as its project, a peer-to-peer chat (`mock-prj-01`). Only a few of them have
state that several actors share; those are where a model says something a test
does not.

## 1. Inventory

| Part | Source | State | Operations | What is hard | What makes it correct |
|---|---|---|---|---|---|
| chat: peer table | `mock-prj-01/chatapp.c`, `peer.c` | `peers[10]`, `next_peer_id`, `running`, one mutex | add, list, send, disconnect, shutdown | three kinds of threads at one mutex; ids are counted, slots and descriptor numbers reused; error paths | ids and slots given out once; no entry of a connection that was cancelled; the mutex released on every path |
| chat: threads and descriptors | `chatapp.c`, `utils.c`, `main.c` | descriptor table, TCP connections, cancellation requests | `listen_thread`, `peer_handle_thread`, `peer_cleanup`, `chatapp_connect_peer`, `get_local_ip` | a handler starts before it is registered; a number is closed by one thread and used by another; cancellation; joining | every descriptor closed once, by whom it belongs to; handlers end; commands return; exit ends |
| chat: command line | `commands.c` | the line | parse, dispatch | calls functions under names no file defines; end of stdin | the command runs the function it names |
| restaurant | `10-ipc-sem/main.c` | two trays of 10 slots, three semaphores each, in shared memory | `add_item`, `remove_item`, `print_buffer_state` | five processes; the parent reads without a lock; a search that fails is silent | semaphores count the slots; nobody starves; the printed counts are true |
| condition variable | `04-thread/condition-var` | one value, one flag | produce, consume | the producer does not wait for the consumer | every value consumed; both threads end |
| rwlock, mutex counter, threads | `04-thread/*` | one integer | read, write, increment | contention | no lost increment |
| parent and child | `05-ipc-signal/parent-child` | a counter, pending signals | `kill`, handler, `wait` | signal before the handler is installed; signals coalesce | child counts five and the parent sees it end |
| signal thread | `05-ipc-signal/signal-input` | a pipe, pending signals, standard input | `sigwait` thread, `select` loop, close and join | two messages in one read, a message in two; a `select` that fails; who waits where | SIGTERM ends the program; main waits only in `select`, and leaves its loop after the thread; lines are echoed |
| SIGINT, SIGALRM | `05-ipc-signal/sigint-handler`, `sigalrm-timer` | a counter | handler | little | three signals end it |
| message queue | `07-ipc-msg` | a name, priority queues of 10 messages | `mq_open`, `mq_send`, `mq_receive`, unlink at start and on SIGINT | full queue, restarts, a second worker, SIGINT before `signal()` or with a task at hand, queues destroyed with what is in them | no task doubled, and none lost unless a worker was interrupted; no queue left behind; tasks served |
| pipe | `08-ipc-pipe` | the two ends of a pipe in three processes | close, dup2, exec, wait | who still holds the write end | `wc` sees the end of file, both children are reaped |
| shared memory | `09-ipc-shared-mem` | one `Product` | create, size, write, read, unlink | nothing synchronises | the consumer reads a whole product |
| sockets | `06-ipc-socket` | one connection or datagram | request, reply | datagram loss | the client gets the reply |
| processes | `03-process` | none shared | fork, exec, wait | little | the parent reaps the child |
| helpers | `01-general-knowleague`, `02-linux-file-system` | none | string functions, `stat` | boundaries | they return what they say |
| drivers of one device | `13-char-device`, `14-gpio-device-driver`, `15-gpio-integer` | registration, a GPIO line, a mutex, the module's references | init and exit, open, read, write, release | the device is visible before init ends; error paths; a mutex initialised while in use | each resource released once, the last made first; no open file without its device; the LED off when the module is gone |
| GPIO descriptor driver | `16-gpio-descriptor` | one class for all devices, a platform device of its own, a writable parameter | probe, remove, init and exit, open | probes and removes interleave; error paths; the parameter changes | what a device uses is there while it is listed; the own device is unregistered |

How the chat's parts interact: `main` sets up the listening socket and the
table, starts the listener and then runs the user's commands. Main and the
listener both *create* connections (dial, accept): they open a descriptor, start
a handler thread with its number, and only then enter the connection into the
table. Handlers, and the commands `terminate` and `exit`, take it out again.
All of them refer to a connection by descriptor number or by id.

## 2. Modules

| Module | Content |
|---|---|
| `ChatApp` | the chat process: table, mutex, descriptors, connections and all threads |
| `MCChatApp` | its instances for TLC |
| `ChatAppProofs` | theorems about `ChatApp` |
| `Trays` | what `add_item` and `remove_item` promise: one dish more or less, in one step |
| `Restaurant` | the restaurant program; implements `Trays` |
| `RestaurantProofs` | theorems about `Restaurant` |
| `PeerRegistry` | what the peer table promises: connections are listed once, under new ids; implemented by `ChatApp` |
| `RegistryProofs` | the theorem that it is |
| `CharDriver` | the drivers of 13, 14 and 15: load, unload, files |
| `CharDriverProofs` | theorems about `CharDriver` |
| `GpioDescriptor` | the driver of 16: its devices, their class, its parameter |
| `DescriptorProofs` | theorems about `GpioDescriptor` |
| `TaskQueue`, `MCTaskQueue` | workers, dispatchers and the queues of 07; the instance |
| `TaskQueueProofs` | theorems about `TaskQueue` |
| `SignalPipe` | the two threads of `signal-input` and their pipe |
| `SignalPipeProofs` | theorems about `SignalPipe` |

`ChatApp` implements `PeerRegistry`, `Restaurant` implements `Trays`. The other
programs do not talk to each other; each has a module of its own.

### `ChatApp`

| Code | Model |
|---|---|
| `app->peers[]`, `next_peer_id`, `running`, `mutex` | variables of these names; `ip` and `port` are left out, nothing depends on them |
| descriptor numbers | `fdt[f]`: what number `f` refers to; the lowest free number is taken, as POSIX demands |
| a TCP connection | a name `c` in `Conn` and its state `sock[c]`; the handler created for it has the same name |
| locals `sockfd`, `tid` of main and the listener | `cfd`, `ctid`; `arg` is the id the user typed |
| a handler's `sockfd`, the socket a blocked `recv()` holds | `hfd`, `hrecv` |
| `pthread_cancel` | `cancel`; the request acts at cancellation points: `recv`, `close`, and the `printf` at the end of a connection ("eof") if it writes, not in `pthread_mutex_lock` ("lock_scan") |
| `pthread_mutex_lock` ... `unlock` | a step that takes the mutex, then the body and the unlock in one step; `terminate` and the sweep of `exit` have steps of their own inside, because what they close is visible to threads that do not hold the mutex |
| `chatapp_add_peer` | `FindSlot` reads the slot and `next_peer_id` into `entry`, `Register` writes both: what lies between them is what the mutex is for |
| a loop over `peers[]` | the first slot that passes its test (`First`) |
| `exit(0)`, SIGPIPE | `proc` becomes "exited" or "killed"; no thread moves after that |

`commands.c` calls `connect_to_peer`, `list_connections`, `send_message`,
`terminate_connection` and `close_all_connections`, which no file of the
repository defines (the Makefile's program does not link as it stands). The
model reads them as `chatapp_connect_peer`, `chatapp_list_peers`,
`chatapp_send_message`, `chatapp_disconnect_peer` and `chatapp_shutdown`, which
take the same arguments and are not called otherwise.

What the code leaves to Linux, and the model takes from there: `accept()`
reserves the number it will return before it blocks; `close()` wakes neither a
blocked `accept()` nor a blocked `recv()`, both of which go on with the socket
they hold; closing a number that is not open does nothing; a send to a peer that
closed succeeds and provokes a reset, the next raises SIGPIPE.

Bounds: `MAX_PEERS` (10 in the code), `INT_MAX`, `MaxFd` (the largest number a
process can have) and the set `Conn` are constants. Each connection of `Conn` is
used once, so the number of connections is the bound on the length of a run.

### `PeerRegistry`

The table as its users see it: `Register`, `Refuse`, `Drop`, `Close`, each in one
step; there are no slots, threads, mutex or descriptors. `ChatApp` maps to it
with `id[c]`, the id of the active slot whose thread is `c`'s handler (`IdOf`);
`over`, the connections that are neither listed nor about to be (`Unseen`);
`closed`, set when the sweep of `exit` has found no active slot. What the mapping
shows: nobody enters a connection twice, a refusal has one of two reasons, the
three ways out of the table (handler, `terminate`, sweep) never take out the same
entry twice, and no connection is listed after the sweep, although the listener
may be in the middle of a registration when it starts.

### `CharDriver`

The three drivers have the same shape, so one module models them; the variable
`driver` says which one a behaviour is about. What init, each of its error paths
and exit call is a sequence (`MgpioInit`, `MgpioErrors`, `MgpioExit`, ...) copied
from the code in its order; `todo` is what is left of it.

| Code | Model |
|---|---|
| `alloc_chrdev_region`, `cdev_add`, `class_create`, `device_create`, `ioremap`, `gpio_request` | `Acquire` adds to `held`, `CallFails` goes to the error path |
| `mutex_init` (14, after `device_create`) | `InitMutex`: the mutex is free whoever held it (`broken` if somebody did), and the entries of those who sleep at it are no longer in its list (`caught`); one that an unlock has woken before tries again |
| `mutex_lock`, `mutex_unlock` | `TakeMutex`, `Sleep`, `Unlock`: a sleeper is given the mutex if its entry is in the list; to remove an entry that is not is undefined, and may cut off others that sleep or bring them back |
| `gpio27_as_output`, `gpio_direction_output` | `AsOutput`, which keeps the latch, and `DirectionOutput`, which clears it |
| `open`, `release` | `Open`, `Close`; they count the kernel's reference for `.owner`, and in 15 the driver's own |
| `my_read`, `mgpio_read` | `ReadGreeting`, `ReadState`: the file position |
| `mgpio_write` | lock, perhaps sleep, set the line, (15) store `gpio_state`, unlock: a step each |

From the kernel come: `open()` is one step that finds the device and counts a
reference, or fails when the module is being removed; `rmmod` fails while there
are references; a module that is loaded again starts from its image, the line
does not.

### `GpioDescriptor`

Each device (the nodes of the tree, and "self", which init registers when
`use_lookup` is set) goes through "unbound", "probing", "bound" and "releasing";
`todo[d]` is what its probe or remove still calls. Everything declared once in
the driver is shared by the devices: `mgpio_class` (`class`, and `classes` for
what the kernel has under that name), `pdev_self`, `use_lookup`. After a failed
probe and after remove the kernel frees what `devm_*` acquired (`Managed`). The
test of `mgpio_class` and its assignment are two steps; `device_create`'s result
is ignored, as in the code; `class_destroy` turns the nodes of other devices into
"orphan"s; a node can be destroyed with an error pointer for a class, and then the
remove ends in an oops.

### `TaskQueue`

`name` is the queue `/my_task_queue` refers to; `mq_unlink` clears it and leaves
the queue to those who have it open (`wmq`, `dmq`), `mq_open` in a worker makes
another. When a step leaves a queue with neither the name nor anybody who has it
open, the kernel destroys it, and the tasks in it with it (`Release`, which every
step that unlinks or closes ends with). A worker goes through "create", "signal"
(before `signal()` installed the handler, when SIGINT kills it), "loop", "busy" and
"cleanup": `Receive` is `mq_receive`, which takes a task into the worker's `hand`,
and `Process` prints it; SIGINT in between drops it. A dispatcher is one
process with one task; `prio` is `atoi` as an `unsigned int`, so the range test
refuses negative numbers. The rest is history: how often a task was processed
(`runs`), which ones went with a queue or a worker (`lost`), and whether a worker was interrupted, early or not, or had company.

### `SignalPipe`

`pending` are the signals blocked in all threads, at most one of a kind;
`sigwait` takes either. The pipe is a sequence of bytes, each known by the message
it belongs to and its place in it; a read takes `ReadSize` bytes wherever that cuts,
and `strstr` finds a name only if it is whole (`Found`). Standard input is a
terminal, which gives one line to a read, or its end, which stays readable.
`select()` may fail at any time (`SelectFails`, `failed`), which is the other way out of
the loop. Main then closes the read end and the write end (two steps); a message
written between the two raises SIGPIPE ("killed"), one written after both fails with
EBADF, which nobody looks at.

### `Restaurant`

`items`, `mutex`, `full` and `empty` are the trays and their semaphores, `slot`
is the local `i` of a call, `at` the tray it was given. A call goes through
"idle" (sleeping, or waiting for the counting semaphore), "lock", "search",
"store", "unlock", "post". Search and store are two steps, so the mutex matters.
The parent reads slot after slot, one tray and then the other, into `count`;
`lo` and `hi` are history variables, the fewest and the most dishes the tray had
since the parent began. The Makefile compiles without optimisation: the parent's
loads, a data race in C, happen in program order and are word-sized.

`Trays` knows neither slots nor semaphores. The mapping gives a tray's number of
filled slots for `dishes`, and "has stored and not returned" for `served`.

## 3. Runs

| Run | Instance | Question |
|---|---|---|
| `chat_table` | 2 connections, 2 slots, `INT_MAX` 3, numbers 0..3, symmetric connections | do table, mutex, descriptors and cancellation stay consistent, and is it a `PeerRegistry`? |
| `chat_live` | 2 connections, 1 slot, `INT_MAX` 2, numbers 0..1 | does `next_peer_id` stop at `INT_MAX`; do commands return, handlers end, and exit complete on a connection? |
| `chat_one_peer` | as `chat_table`, numbers 0..2 | does a handler serve one peer? It does not. |
| `chat_open` | the same | does a listed connection keep its descriptor? It does not. |
| `chat_listed` | the same | is a listed connection alive? Not always. |
| `chat_exit` | 2 connections, 1 slot, numbers 0..1 | does `exit` end the program? Only if somebody connects. |
| `restaurant_safe` | 2 trays of 2 slots, all processes | do the semaphores count, does each call do what it promises, are the printed counts true? |
| `restaurant_live` | 2 trays of 1 slot | does anybody starve? |
| `driver_files` | each of the three drivers, 3 users, a greeting of 2 bytes | does every path release what it holds, in order; what does an open file rely on; does a write return? |
| `descriptor_class` | 1 node and "self", 2 users | do probes and removes that share a class release theirs; is "self" unregistered; are files safe? |
| `task_queue` | 2 workers, 3 dispatchers, queues of 2 messages, at most 2 queues, priorities 0 and 1, typed -1, 0, 1 | is a task doubled, or lost without an interruption; who keeps the name; is every task served? |
| `signal_pipe` | the code's 64 bytes, no SIGINT once 70 bytes are in the pipe | who waits where; does SIGTERM end the program; are lines echoed? |

Two connections are enough for a number to pass from one connection to the
other, for main and the listener to register at the same time, and for a handler
to find the other's slot. One slot lets the table be full, `INT_MAX` 2 lets the
ids run out after one, two numbers let the descriptors run out. That two creators in
`chatapp_add_peer` at once go wrong without the mutex shows as a step that
`PeerRegistry` does not allow; two active slots of one id would need a third connection. Trays of one
slot make everybody wait; two are needed for a search to have a choice.

Three users are a holder of the driver's mutex, one who waits for it, and one who
comes after `mutex_init`; a greeting of two bytes can be read whole or in parts.
Two devices are enough to share a class, to destroy it under each other and to
race between test and assignment. Two workers and two queues give every pairing of an
old and a new queue; three tasks fill a queue of two and leave one waiting, while
the others can go with a queue or be at hand. Seventy
bytes, ten SIGINT messages, are more than one read of 64: a message is cut.

`TaskQueue`'s dispatchers send one task each, so the runs do not show that an
endless stream of high priorities starves a low one, which it does: that is what a
priority queue is for.

The chat's runs do not check for deadlock: the process ends, and `exit` may hang
(the fourth finding). Neither do `task_queue`, where everybody may have gone home,
and `signal_pipe`, where the program ends. The restaurant's and the drivers' do.

### Fairness

- `ChatApp`: main, the listener and each handler are strongly fair: threads are
  scheduled, and a thread that waits for the mutex gets it if it is released
  again and again. Not fair are the user, the peers, and the arrival of data. A
  command once started is executed; `send()` is taken not to block for ever,
  which the code does not ensure (it holds the mutex meanwhile).
- `Restaurant`: chefs and customers are strongly fair. They loop for ever and
  sleep for seconds between two calls, so a process that waits at a semaphore is
  not overtaken for ever. The parent is not fair.
- `CharDriver`: a load and an unload run to their end (weak fairness of `InitStep`
  and `ExitStep`); writers are strongly fair, because the kernel's mutex hands over
  to a sleeper in its list in the end. Nobody has to open, write or remove anything.
- `TaskQueue`: weak fairness of each worker and each dispatcher that was started;
  workers do not compete with dispatchers for anything that is taken away again
  and again. Nobody has to start or interrupt a process.
- `SignalPipe`: weak fairness of each thread; signals and lines need not come, and
  `select()` does not have to fail.
- `GpioDescriptor` states safety only.

### What the violated properties show

1. `HandlerServesOnePeer`: `terminate` closes a descriptor before it cancels the
   handler; the number can be given out in between and the old handler receives
   from the new connection (`chatapp.c:363`).
2. `ListedConnectionIsOpen`: handlers close their number twice (`chatapp.c:205`
   and `224`); the second close can hit a newer connection.
3. `ListedConnectionIsLive`: a connection that ends between `pthread_create` and
   `chatapp_add_peer` is entered after its handler has gone (`chatapp.c:157`,
   `165`) and stays listed.
4. `ExitTerminates`: nothing wakes the listener from `accept()`, so the join in
   `chatapp_shutdown` can last for ever (`chatapp.c:105`).

### Where the documents say more than the code keeps

These have no run of their own; they are behaviours of the modules, and the
passing properties allow for them.

- `07-ipc-msg/README.md:75` says that tasks sent out of order are processed by
  decreasing priority, and shows 10, 30 and 20, sent one after the other to a running
  worker, processed as 30, 20, 10. The worker receives as soon as there is a task
  (`task_worker.c:57`), so 10 comes first: the queue orders only what waits in it. No
  property states this order, because it is the kernel's.
- `07-ipc-msg/README.md:30` says that the worker opens a queue that exists. It unlinks
  it first (`task_worker.c:35`), and the tasks in it go with it unless somebody else has it
  open. `TaskInOnePlace` counts them as `lost`.
- `signal-input/main.c:42` says that main exits on error. After a failed `select()`
  (81-84) it joins a thread that sleeps in `sigwait()` and was not told to end (110), and
  hangs. This is the exception `failed` of `LoopOutlivesThread`.
- `mock-prj-01/chatapp.h:71` calls the table the list of connected peers. A handler that
  ends looks for its slot by descriptor number (`chatapp.c:199`); if `terminate` closed
  the number under it, and it is given to a new connection and registered before that,
  the handler takes the new connection out of the table, which is then served and not
  listed. `ChatApp` reaches this (`Scan`); `PeerRegistry` lets anybody drop an entry, so
  `RegistrySpec` does not speak against it.

### What the exceptions in the properties say

Some properties that hold do so with an exception, which is a weakness of the
code that the model reaches; without the exception TLC refutes them.

- `WriteReturns`, `OpenFileHasDevice`: the driver of 14 creates `/dev/mgpio`
  (`mgpio.c:145`) before it initialises the mutex (line 152) and makes the line an
  output (line 155). The entry of a writer that sleeps at the mutex then is no longer in
  the mutex's list, and nobody wakes it. A writer that was inside is not affected, and
  is woken as usual if it sleeps later, unless its entry goes the same way with that of
  one that comes out of the lost list.
- `StateFollowsLine`: the same `mutex_init` frees a mutex that is held. Two writers may
  be inside then, and never three.
- `SoleDeviceLeavesNothing`, and why the others of `GpioDescriptor` say nothing of the
  class: every remove destroys the class of all devices (`mgpio_desc.c:200`).
- `SelfUnregistered`: root may change `use_lookup` (0644, line 233), and exit then
  does not do what init did.
- `NameHasReader`: SIGINT between `mq_open` (`task_worker.c:44`) and `signal`
  (line 51) leaves a queue; a second worker takes the name from the first.
- `TaskInOnePlace`: tasks are lost once a worker was interrupted after its `mq_open`: with
  the queue, when its name and its last descriptor go (`task_worker.c:19-20`, `35`), or in
  the worker's hands (between `57` and `60`).
- `LoopOutlivesThread`: a failed `select()` takes main out of its loop whatever the signal
  thread does. The program may then be killed by SIGPIPE, or hang.
- `TermEndsProgram`: a read that holds SIGINT and SIGTERM is taken for SIGINT only
  (`main.c:98`), and a message cut by the end of the buffer for neither
  (`main.c:96`). The signal thread has ended by then, and nothing ends the program
  but SIGKILL.

## 4. Theorems

For all values of the constants that the named assumptions admit
(`ChatAssumption`: at least one slot and one id, and connections whose names
differ from the model's words; `BufferAssumption`: at least one slot;
`DriverAssumption`: finitely many users, none named "free", and a greeting that is not
empty; `DescriptorAssumption`: finitely many users, and nodes whose names differ from
the model's words; `QueueAssumption`: queues with room for a message, a range of
`unsigned int` that is not empty, and numbers that are typed; `SignalAssumption`: a read
of at least one byte). All safety properties that the passing runs check are theorems.

`ChatAppProofs` proves the invariants of `chat_table` and the type invariant of
`chat_live`, which contains that no id passes `INT_MAX`. The
inductive invariant is built in layers, each of which uses those below:

1. `TypeInv` is `TypeOK` and who refers to which handler: a creator's `ctid` is a
   connection exactly while it hands one over, a thread that is in an active slot
   has been started.
2. `FreshInv` says that a connection that is "new" occurs nowhere: it is in no
   descriptor, no slot, no thread. It makes a handler's name unique.
3. `MutexInv` is `MutualExclusion` with what ends the program: the listener is
   gone when main passes the join, and the mutex is destroyed only after that.
   `MutualExclusion` alone is not inductive, because a handler that finds the
   mutex destroyed enters its section without holding it.
4. `ReadInv` says that what `chatapp_add_peer` has read is still true when it writes:
   the slot is free and the id is the next one. Only another creator could change either
   (`OthersDrop`: every other step keeps the table or drops a slot), and it would have to
   hold the mutex.
5. `TableInv` is `IdNamesOneConnection` and `CancelledNotListed` with the reason
   they hold: what a creator holds in `cfd` is what its handler got, and the
   handler it is about to register is in no slot and not cancelled yet.
6. `NoDescriptorLeak` and `SweepIsFinal` follow with the first three layers.

`RegistryProofs` proves that `ChatApp` implements `PeerRegistry`. It uses the
invariants above as lemmas and sorts the steps of the program by what they do to
the mapped variables: most keep them (`Keeps`), three take one connection out
(`Drops`), `AddPeer` and its failures decide about the one handed over (`Hands`), and
one ends the sweep (`SweepDone`). That a refusal is justified needs that the number of
listed connections is the number of active slots: different slots hold different
handlers, so the slots map one to one to the listed connections. That nothing is listed
after the sweep is `SweepIsFinal`.

`RestaurantProofs` proves the safety properties of `restaurant_safe` and the
refinement. The semaphores' account is inductive only together with
`SearchSucceeds` and the mutex: a slot found by a search must not be used by
somebody else before the store. For `StatusWasTrue` the invariant is about the
rest of the tray: what the parent has counted, plus the filled slots it has not
read yet, always lies between `lo` and `hi`. It holds because both loops take the
first slot: a chef who fills a slot the parent has not reached leaves no empty
slot behind it, so the tray holds at least what the parent will count; and
likewise for customers. With a search from the other end it is false.

`CharDriverProofs` proves the six safety properties of `driver_files`. Every call of
init has a number (`Rank`). The lists that init works off rise in it, those of the error
paths and of exit fall, and what an error path names is what init has made before the
call that failed (`Unwinds`); these are lemmas about each driver's lists. The invariants:

- `ModuleInv`: while init runs, `held` is what its first n calls make and `todo` the
  rest; on an error path and in exit, `todo` falls and names what is held.
- `FileInv`: `refs` counts the open files (15 counts each twice), and none is open unless the module is
  live or the calls of init that may fail are behind. That exit starts with no file
  open follows from `refs`.
- `OutputInv`, `OffInv`: the line is an output from init's step on, and off from exit's
  write on, because exit starts with no file open and none is opened after that.
- `MutexInv`: only 14 initialises a mutex that may be in use, once in a load; until it
  freed one that was held (`broken`), whoever is inside holds it, and after that at most
  one is inside without holding it, since no other enters so. `LineInv` uses it:
  `gpio_state` may differ from the line only between the two assignments of the one
  write there is.

`DescriptorProofs` proves the type invariant of `GpioDescriptor` and its four safety
properties. The first three invariants need nothing of each other:

- `SelfInv` says where init and exit stand while the platform device is registered
  and `use_lookup` has not been changed: the module is in use, or exit has not come
  to the test of `use_lookup` or has passed it towards the unregistration.
- `FileInv` says that `refs` is the number of open files and that exit starts with none.
- `AllocInv` says of each device alone what its remaining calls and what it holds have
  to do with each other (`Sound`). A probe's remaining calls are the end of a probe,
  and it holds only what it has passed. The remaining calls of a remove, or of the
  error path, release everything that is held, the memory last. Lemmas about one
  device's list of calls, for every call that may be made or fail, carry it from step
  to step; whatever the other devices do leaves it alone. A release that an error
  path forgets breaks `SoundFail`, the lemma for the call that fails.

- `SoleInv` adds what `SoleDeviceLeavesNothing` needs: while devices were in use one at a
  time, there is one that all others have left to itself (`Lone`), and its phase and its
  remaining calls say whether the class is there, of whom, and whether the node may be
  (`Stage`). The class is known from what is still to be called: from the call after the
  test of the class on in a probe, and until the call that destroys it in a remove,
  which comes after that for the node (`ClassLast`). The device changes when another one
  is probed, which `shared` allows only if all are unbound; the class is gone then.

`TaskQueueProofs` proves the three safety properties of `task_queue`.

- `TypeInv` adds to `TypeOK` that whoever reads or sends has a queue.
- `NameInv`: a name has a worker that will give it up, or one was killed too early; and
  while a worker is alone, its queue has the name. A worker that arrives after all others
  have gone makes its own queue whatever it finds, so this survives the restarts.
- `PlaceInv`: a task that waits is in one place of one queue; one that is in a worker's
  hands, processed or lost is in none, and is only one of these. It needs what an
  insertion, a receive and the destruction of queues do to the places (`PlacedInsert`,
  `PlacedTail`, `PlacedDestroy`); that the counts of `TaskInOnePlace` are 0 or 1 follows.
- `LossInv`: as long as no worker was interrupted, every queue there is has a worker
  that has it open, so that none is destroyed with tasks in it.

`SignalPipeProofs` proves the two safety properties of `signal_pipe`. `WaitInv` says that
what `select()` found readable is still there when main comes to read it, that a byte of
"SIGTERM" in the pipe means that the thread that wrote it has ended, and that main leaves
its loop after that, or because `select()` failed. It needs what a write adds to the pipe
and a read leaves of it, for every size of a read (`Appended`, `Left`).

Liveness is checked by TLC only: the provers do not reason about fairness here.
These properties have no theorem: `CommandReturns`, `HandlerEnds`,
`ExitCompletesOnConnection`, `EverybodyServed`, `WriteReturns`, `TaskServed`,
`TermEndsProgram` and `LineEchoed`.
The violated properties have, of course, no theorem.

## 5. Not modelled, and the plan

Of the programs that are modelled: the text of messages and their framing, the
parsing of command lines, addresses and ports (nothing prevents a connection to
oneself, whatever `mock-prj-01/README.md:115` says), `send()` that blocks while it
holds the chat's mutex (`chatapp.c:342`), the end of standard input in `commands.c`,
and failures that end a program during setup. Of the drivers: what a write to
`mydevice` copies and prints; the reads and writes of 16 (they use only the device
they are about) and with them `mdev->state`; what a process does with a file of
16 that it still has open when a load has failed and the memory is gone. Of 07, the
byte past the buffer that a task of exactly 256 bytes makes the worker write
(`task_worker.c:59`).

Not modelled at all, with the reason:

- 04-thread: one value or counter under one lock; each critical section is a
  statement or two. The condition variable's lost value (`condition-var/main.c:29`)
  is listed as a hazard.
- 05-ipc-signal, the others: one handler and one counter each. That signals coalesce
  in `parent-child` is listed as a hazard.
- 06-ipc-socket, 03-process, 08-ipc-pipe: straight-line programs; what may go wrong is
  the kernel's part.
- 09-ipc-shared-mem: nothing synchronises producer and consumer, so there is nothing a
  model could keep; listed as a hazard.
- 01, 02: sequential functions on strings and files.
- The hello module prints two lines.

Planned, in this order:

1. A history of who dropped a slot in `ChatApp`, to state that a connection that is served
   is unlisted only after a handler mistook it for its own (`chatapp.c:199`).
2. `SendBlocks`: the chat without the assumption that `send()` returns.
3. `CondVar` (04-thread) and `SignalCount` (05-ipc-signal/parent-child), whose only
   weakness is that a `sleep()` stands for a synchronisation.
