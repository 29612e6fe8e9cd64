--------------------------- MODULE GpioDescriptor ---------------------------
(***************************************************************************)
(* The platform driver of 16-gpio-descriptor.  It is probed for every node *)
(* of the device tree that names it, and for a platform device of its own  *)
(* ("self") that init registers if the parameter use_lookup is set.  All   *)
(* devices share one class, which the first probe makes and every remove   *)
(* destroys.  Probes and removes of different devices may interleave: a    *)
(* probe is repeated later (deferred) when its GPIO chip is not there yet, *)
(* and root may bind and unbind devices and change use_lookup while the    *)
(* module is loaded.                                                       *)
(*                                                                         *)
(* Reads and writes only need the device they are about; which of them are *)
(* under way is left out, a file is open or not.                           *)
(***************************************************************************)
EXTENDS Integers, Sequences, FiniteSets

CONSTANTS
  Node,   (* nodes of the device tree that the driver matches *)
  User    (* processes that use the devices, one file each    *)

ASSUME DescriptorAssumption ==
  /\ "self" \notin Node /\ "none" \notin Node
  /\ IsFiniteSet(User)

VARIABLES
  mod,         (* "absent", "coming", "live", "failing" or "going"           *)
  step,        (* where mgpio_init or mgpio_exit stands: "register", "self",
                  "delete", "unregister", "done"                             *)
  use_lookup,  (* the module parameter                                       *)
  changed,     (* whether it was ever changed while the module was loaded    *)
  pdev_self,   (* init's pointer: "null", "device" or "error"                *)
  registered,  (* the platform device "self" is registered                   *)
  phase,       (* devices: "unbound", "probing", "bound", "releasing"        *)
  todo,        (* devices: the calls that probe or remove still makes        *)
  held,        (* devices: what the probe has acquired                       *)
  node,        (* devices: their node in /dev, "none", "there", or "orphan"
                  when the class it was made in is gone                      *)
  class,       (* mgpio_class: "null", "error" or "class"                    *)
  classes,     (* the kernel has a class of that name                        *)
  shared,      (* two devices have been in use at the same time              *)
  file,        (* users: the device whose file is open, or "none"            *)
  refs         (* references to the module from open files                   *)

module  == <<mod, step, pdev_self>>
params  == <<use_lookup, changed>>
devices == <<phase, todo, held>>
classy  == <<node, class, classes>>
files   == <<file, refs>>
vars    == <<module, params, registered, devices, classy, shared, files>>

Device  == Node \cup {"self"}

\* The devres core frees what devm_* acquired, the last first, after a probe
\* that failed and after remove.
Managed == <<"gpio", "mdev">>

\* mgpio_probe.  Only "self" has no of_node and uses a lookup table.
ProbeCalls(d) ==
  IF d = "self" THEN <<"mdev", "lt", "gpio", "region", "cdev", "check", "create", "test", "node">>
                ELSE <<"mdev", "gpio", "region", "cdev", "check", "create", "test", "node">>

\* Variant: the lookup table is forgotten when there is no class.
ProbeErrorsForgetting ==
  [mdev |-> << >>, lt |-> << >>, gpio |-> <<"lt">>, region |-> <<"lt">>,
   cdev |-> <<"region", "lt">>, test |-> <<"cdev", "region">>]

\* What a probe undoes when a call fails, before the managed resources.
ProbeErrors ==
  [mdev |-> << >>, lt |-> << >>, gpio |-> <<"lt">>, region |-> <<"lt">>,
   cdev |-> <<"region", "lt">>, test |-> <<"cdev", "region", "lt">>]

\* Variant: remove forgets the node.
RemoveCallsNoNode == <<"lt", "cdev", "region", "class">>

\* mgpio_remove.
RemoveCalls == <<"lt", "node", "cdev", "region", "class">>

Init ==
  /\ mod = "absent" /\ step = "done" /\ pdev_self = "null"
  /\ use_lookup \in BOOLEAN /\ changed = FALSE /\ registered = FALSE
  /\ phase = [d \in Device |-> "unbound"]
  /\ todo = [d \in Device |-> << >>]
  /\ held = [d \in Device |-> {}]
  /\ node = [d \in Device |-> "none"] /\ class = "null" /\ classes = FALSE
  /\ shared = FALSE
  /\ file = [u \in User |-> "none"] /\ refs = 0

-----------------------------------------------------------------------------
(* Helpers                                                                   *)

At(d, p, call) == phase[d] = p /\ todo[d] # << >> /\ Head(todo[d]) = call

Begin(d, p, calls) ==
  /\ phase' = [phase EXCEPT ![d] = p]
  /\ todo' = [todo EXCEPT ![d] = calls]

Remove(d) == Begin(d, "releasing", RemoveCalls \o Managed)

FailProbe(d, call) == Begin(d, "releasing", ProbeErrors[call] \o Managed)

\* The call at the head is made.
Advance(d) == todo' = [todo EXCEPT ![d] = Tail(@)] /\ UNCHANGED phase

\* While the driver is registered, devices can be bound to it.
DriverThere == step \in {"self", "delete"} \/ mod = "live"

-----------------------------------------------------------------------------
(* mgpio_init and mgpio_exit                                                 *)

Insmod ==
  /\ mod = "absent"
  /\ mod' = "coming" /\ step' = "register"
  /\ use_lookup' \in BOOLEAN
  /\ UNCHANGED <<pdev_self, changed, registered, devices, classy, shared, files>>

RegisterDriver ==
  /\ step = "register"
  /\ \/ step' = "self" /\ UNCHANGED mod
     \/ step' = "done" /\ mod' = "absent"
  /\ UNCHANGED <<pdev_self, params, registered, devices, classy, shared, files>>

\* platform_device_register_simple fails if the device is registered already,
\* or for lack of memory; init then unregisters the driver.
RegisterSelf ==
  /\ mod = "coming" /\ step = "self"
  /\ \/ /\ ~use_lookup
        /\ mod' = "live" /\ step' = "done"
        /\ UNCHANGED <<pdev_self, registered>>
     \/ /\ use_lookup /\ ~registered
        /\ mod' = "live" /\ step' = "done"
        /\ pdev_self' = "device" /\ registered' = TRUE
     \/ /\ use_lookup
        /\ mod' = "failing" /\ step' = "unregister"
        /\ pdev_self' = "error" /\ UNCHANGED registered
  /\ UNCHANGED <<params, devices, classy, shared, files>>

\* The parameter is writable (0644).
ChangeParameter ==
  /\ mod # "absent"
  /\ use_lookup' = ~use_lookup /\ changed' = TRUE
  /\ UNCHANGED <<module, registered, devices, classy, shared, files>>

Rmmod ==
  /\ mod = "live" /\ refs = 0
  /\ mod' = "going" /\ step' = "self"
  /\ UNCHANGED <<pdev_self, params, registered, devices, classy, shared, files>>

\* Variant: the exit function tests use_lookup only.
ExitSelfBound ==
  /\ mod = "going" /\ step = "self"
  /\ step' = IF use_lookup /\ phase["self"] = "bound" THEN "delete" ELSE "unregister"
  /\ UNCHANGED <<mod, pdev_self, params, registered, devices, classy, shared, files>>

ExitSelf ==
  /\ mod = "going" /\ step = "self"
  /\ step' = IF use_lookup /\ pdev_self = "device" THEN "delete" ELSE "unregister"
  /\ UNCHANGED <<mod, pdev_self, params, registered, devices, classy, shared, files>>

\* platform_device_unregister unbinds the device first.
DeleteSelf ==
  /\ step = "delete"
  /\ \/ /\ phase["self"] = "bound" /\ Remove("self")
        /\ UNCHANGED <<step, registered>>
     \/ /\ phase["self"] = "unbound"
        /\ registered' = FALSE /\ step' = "unregister"
        /\ UNCHANGED <<phase, todo>>
  /\ UNCHANGED <<mod, pdev_self, params, held, classy, shared, files>>

\* platform_driver_unregister removes the bound devices and waits for probes
\* under way.  Then the module's memory is gone; what a process does that still
\* has a file open - only after a load that failed - is not modelled.
UnregisterDriver ==
  /\ step = "unregister"
  /\ \/ /\ \E d \in Device : phase[d] = "bound" /\ Remove(d)
        /\ UNCHANGED <<module, class, files>>
     \/ /\ \A d \in Device : phase[d] = "unbound"
        /\ mod' = "absent" /\ step' = "done" /\ pdev_self' = "null" /\ class' = "null"
        /\ file' = [u \in User |-> "none"] /\ refs' = 0
        /\ UNCHANGED <<phase, todo>>
  /\ UNCHANGED <<params, registered, held, node, classes, shared>>

-----------------------------------------------------------------------------
(* mgpio_probe                                                               *)

StartProbe(d) ==
  /\ DriverThere /\ phase[d] = "unbound"
  /\ d = "self" => registered /\ step # "delete"
  /\ Begin(d, "probing", ProbeCalls(d))
  /\ shared' = (shared \/ \E e \in Device \ {d} : phase[e] # "unbound")
  /\ UNCHANGED <<module, params, registered, held, classy, files>>

\* A call that acquires something; without use_lookup "self" has no table.
Acquire(d) ==
  /\ \E call \in {"mdev", "lt", "gpio", "region", "cdev"} :
       /\ At(d, "probing", call)
       /\ call = "lt" => use_lookup
       /\ held' = [held EXCEPT ![d] = @ \cup {call}]
  /\ Advance(d)
  /\ UNCHANGED <<module, params, registered, classy, shared, files>>

CallFails(d) ==
  /\ \E call \in {"mdev", "lt", "gpio", "region", "cdev"} :
       At(d, "probing", call) /\ FailProbe(d, call)
  /\ UNCHANGED <<module, params, registered, held, classy, shared, files>>

\* if (!mgpio_class) mgpio_class = class_create(DEV_NAME): the test ...
CheckClass(d) ==
  /\ At(d, "probing", "check")
  /\ todo' = [todo EXCEPT ![d] = IF class = "null" THEN Tail(@) ELSE Tail(Tail(@))]
  /\ UNCHANGED <<module, params, registered, phase, held, classy, shared, files>>

\* ... and the assignment, of an error if the kernel has the class already.
CreateClass(d) ==
  /\ At(d, "probing", "create")
  /\ \/ ~classes /\ classes' = TRUE /\ class' = "class"
     \/ class' = "error" /\ UNCHANGED classes
  /\ Advance(d)
  /\ UNCHANGED <<module, params, registered, held, node, shared, files>>

TestClass(d) ==
  /\ At(d, "probing", "test")
  /\ IF class = "error" THEN class' = "null" /\ FailProbe(d, "test")
                        ELSE UNCHANGED class /\ Advance(d)
  /\ UNCHANGED <<module, params, registered, held, node, classes, shared, files>>

\* device_create, whose result is ignored: there is one name for all devices.
CreateNode(d) ==
  /\ At(d, "probing", "node")
  /\ Begin(d, "bound", << >>)
  /\ \/ /\ class = "class" /\ \A e \in Device : node[e] = "none"
        /\ node' = [node EXCEPT ![d] = "there"]
     \/ UNCHANGED node
  /\ UNCHANGED <<module, params, registered, held, class, classes, shared, files>>

-----------------------------------------------------------------------------
(* mgpio_remove, and what a failed probe undoes                              *)

\* Through the driver's unbind file, whoever has the device open.
Unbind(d) ==
  /\ DriverThere /\ phase[d] = "bound" /\ Remove(d)
  /\ UNCHANGED <<module, params, registered, held, classy, shared, files>>

\* The table only if there is one.
Release(d) ==
  /\ \E call \in {"lt", "cdev", "region", "gpio", "mdev"} :
       /\ At(d, "releasing", call)
       /\ held' = [held EXCEPT ![d] = @ \ {call}]
  /\ Advance(d)
  /\ UNCHANGED <<module, params, registered, classy, shared, files>>

\* device_destroy finds nothing without a class; with an error pointer for one
\* the kernel oopses and the remove never ends.
DestroyNode(d) ==
  /\ At(d, "releasing", "node")
  /\ IF class = "error" THEN todo' = [todo EXCEPT ![d] = <<"oops">>] /\ UNCHANGED phase
                        ELSE Advance(d)
  /\ node' = IF class = "class" /\ node[d] = "there" THEN [node EXCEPT ![d] = "none"] ELSE node
  /\ UNCHANGED <<module, params, registered, held, class, classes, shared, files>>

\* class_destroy, for all devices there are; mgpio_class = NULL.
DestroyClass(d) ==
  /\ At(d, "releasing", "class")
  /\ IF class = "class"
       THEN /\ classes' = FALSE
            /\ node' = [e \in Device |-> IF node[e] = "there" THEN "orphan" ELSE node[e]]
       ELSE UNCHANGED <<classes, node>>
  /\ class' = "null"
  /\ Advance(d)
  /\ UNCHANGED <<module, params, registered, held, shared, files>>

Released(d) ==
  /\ phase[d] = "releasing" /\ todo[d] = << >>
  /\ Begin(d, "unbound", << >>)
  /\ UNCHANGED <<module, params, registered, held, classy, shared, files>>

-----------------------------------------------------------------------------
(* The file operations                                                       *)

\* Variant: neither fops nor the cdev has an owner.
OpenUncounted(u) ==
  /\ file[u] = "none" /\ mod \in {"coming", "live", "failing"}
  /\ \E d \in Device : /\ node[d] # "none" /\ "cdev" \in held[d]
                       /\ file' = [file EXCEPT ![u] = d]
  /\ UNCHANGED <<module, params, registered, devices, classy, shared, refs>>

\* The node's number finds the cdev, and the module is not being removed.
Open(u) ==
  /\ file[u] = "none" /\ mod \in {"coming", "live", "failing"}
  /\ \E d \in Device : /\ node[d] # "none" /\ "cdev" \in held[d]
                       /\ file' = [file EXCEPT ![u] = d]
  /\ refs' = refs + 1
  /\ UNCHANGED <<module, params, registered, devices, classy, shared>>

Close(u) ==
  /\ file[u] # "none"
  /\ file' = [file EXCEPT ![u] = "none"]
  /\ refs' = refs - 1
  /\ UNCHANGED <<module, params, registered, devices, classy, shared>>

-----------------------------------------------------------------------------
ModuleStep ==
  \/ Insmod \/ RegisterDriver \/ RegisterSelf \/ ChangeParameter
  \/ Rmmod \/ ExitSelf \/ DeleteSelf \/ UnregisterDriver

DeviceStep(d) ==
  \/ StartProbe(d) \/ Acquire(d) \/ CallFails(d)
  \/ CheckClass(d) \/ CreateClass(d) \/ TestClass(d) \/ CreateNode(d)
  \/ Unbind(d) \/ Release(d) \/ DestroyNode(d) \/ DestroyClass(d) \/ Released(d)

Next ==
  \/ ModuleStep
  \/ \E d \in Device : DeviceStep(d)
  \/ \E u \in User : Open(u) \/ Close(u)

Spec == Init /\ [][Next]_vars

-----------------------------------------------------------------------------
TypeOK ==
  /\ mod \in {"absent", "coming", "live", "failing", "going"}
  /\ step \in {"register", "self", "delete", "unregister", "done"}
  /\ use_lookup \in BOOLEAN /\ changed \in BOOLEAN /\ shared \in BOOLEAN
  /\ pdev_self \in {"null", "device", "error"} /\ registered \in BOOLEAN
  /\ phase \in [Device -> {"unbound", "probing", "bound", "releasing"}]
  /\ todo \in [Device -> Seq({"mdev", "lt", "gpio", "region", "cdev", "check", "create",
                              "test", "node", "class", "oops"})]
  /\ held \in [Device -> SUBSET {"mdev", "lt", "gpio", "region", "cdev"}]
  /\ node \in [Device -> {"none", "there", "orphan"}]
  /\ class \in {"null", "error", "class"} /\ classes \in BOOLEAN
  /\ file \in [User -> Device \cup {"none"}]
  /\ refs \in Nat

\* The lookup table and the cdev live in memory that the devres core frees after
\* a failed probe or a remove.  Whichever call fails, they are taken out of the
\* kernel's lists before, and a device that is not bound holds nothing.
ListedIsAllocated ==
  \A d \in Device :
    /\ held[d] # {} => "mdev" \in held[d]
    /\ phase[d] = "unbound" => held[d] = {}

\* As long as devices were in use one at a time, the class lives as long as the
\* node in it, remove takes both away, and nothing is left for the next probe
\* to stumble over.  With two devices the first remove destroys the class under
\* the node of the other (mgpio_desc.c:200), whose remove then finds no class
\* and leaves its node behind.
SoleDeviceLeavesNothing ==
  ~shared =>
    /\ classes = (class = "class")
    /\ \A d \in Device :
         /\ node[d] = "there" => class = "class"
         /\ node[d] # "orphan"
         /\ phase[d] = "unbound" => node[d] = "none"
    /\ (\A d \in Device : phase[d] = "unbound") => class = "null"

\* rmmod leaves the platform device behind, on which every later load fails, only
\* if use_lookup was changed after mgpio_init had read it (mgpio_desc.c:233).
SelfUnregistered == mod = "absent" /\ registered => changed

\* rmmod takes no device from under an open file.  (unbind does, and so does a
\* load that fails in its last call.)
NoFileWhenRemoved ==
  mod = "going" => \A u \in User : file[u] = "none"
=============================================================================
