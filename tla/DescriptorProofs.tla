--------------------------- MODULE DescriptorProofs ---------------------------
(***************************************************************************)
(* Theorems about GpioDescriptor, for any number of nodes and users.       *)
(***************************************************************************)
EXTENDS GpioDescriptor, FiniteSetTheorems, SequenceTheorems, TLAPS

USE DEF module, params, devices, classy, files, vars

-----------------------------------------------------------------------------
(* The platform device                                                       *)

\* Where init and exit stand, and what they know of the platform device: while it
\* is registered and use_lookup untouched, the module is in use or exit has not
\* passed the unregistration, and the variables exit asks say so.
SelfInv ==
  /\ step = "register" => mod = "coming"
  /\ step = "delete" => mod = "going"
  /\ step = "unregister" => mod \in {"failing", "going"}
  /\ registered => \/ changed
                   \/ /\ use_lookup /\ pdev_self = "device"
                      /\ \/ mod = "live" /\ step = "done"
                         \/ mod = "going" /\ step \in {"self", "delete"}

LEMMA SelfInit == Init => SelfInv
BY DEF Init, SelfInv

LEMMA SelfNext == SelfInv /\ [Next]_vars => SelfInv'
<1> SUFFICES ASSUME SelfInv, [Next]_vars PROVE SelfInv'
    OBVIOUS
<1>1. CASE Insmod
      BY <1>1 DEF Insmod, SelfInv
<1>2. CASE RegisterDriver
      BY <1>2 DEF RegisterDriver, SelfInv
<1>3. CASE RegisterSelf
      BY <1>3 DEF RegisterSelf, SelfInv
<1>4. CASE ChangeParameter
      BY <1>4 DEF ChangeParameter, SelfInv
<1>5. CASE Rmmod
      BY <1>5 DEF Rmmod, SelfInv
<1>6. CASE ExitSelf
      BY <1>6 DEF ExitSelf, SelfInv
<1>7. CASE DeleteSelf
      BY <1>7 DEF DeleteSelf, SelfInv
<1>8. CASE UnregisterDriver
      BY <1>8 DEF UnregisterDriver, SelfInv
<1>9. ASSUME NEW d \in Device, DeviceStep(d) PROVE SelfInv'
      BY <1>9 DEF DeviceStep, StartProbe, Acquire, CallFails, CheckClass, CreateClass,
                  TestClass, CreateNode, Unbind, Release, DestroyNode, DestroyClass,
                  Released, SelfInv
<1>10. ASSUME NEW u \in User, Open(u) \/ Close(u) PROVE SelfInv'
      BY <1>10 DEF Open, Close, SelfInv
<1>11. CASE UNCHANGED vars
      BY <1>11 DEF SelfInv
<1> QED
    BY <1>1, <1>2, <1>3, <1>4, <1>5, <1>6, <1>7, <1>8, <1>9, <1>10, <1>11
    DEF Next, ModuleStep

\* rmmod takes the platform device with it unless use_lookup was changed: for any
\* set of devices, and whatever probes, removes and open files there are.
THEOREM SelfCorrect == Spec => []SelfUnregistered
<1>1. SelfInv => SelfUnregistered
      BY DEF SelfInv, SelfUnregistered
<1> QED
    BY SelfInit, SelfNext, <1>1, PTL DEF Spec

-----------------------------------------------------------------------------
(* Open files                                                                *)

OpenFiles == {u \in User : file[u] # "none"}

\* The reference count is the number of open files, and exit starts at none.
FileInv ==
  /\ file \in [User -> Device \cup {"none"}]
  /\ refs = Cardinality(OpenFiles)
  /\ mod = "going" => OpenFiles = {}

LEMMA FileInit == Init => FileInv
<1> SUFFICES ASSUME Init PROVE FileInv
    OBVIOUS
<1>1. OpenFiles = {}
      BY DEF Init, OpenFiles
<1> QED
    BY <1>1, FS_EmptySet DEF Init, FileInv

\* A step that leaves the files alone, and does not start exit, keeps FileInv.
LEMMA FileUnchanged ==
  ASSUME FileInv, UNCHANGED files, mod' = "going" => mod = "going"
  PROVE  FileInv'
BY DEF FileInv, OpenFiles, files

LEMMA FileNext == FileInv /\ [Next]_vars => FileInv'
<1> SUFFICES ASSUME FileInv, [Next]_vars PROVE FileInv'
    OBVIOUS
<1>f. IsFiniteSet(OpenFiles)
      BY DescriptorAssumption, FS_Subset DEF OpenFiles
<1>n. "none" \notin Device
      BY DescriptorAssumption DEF Device
<1>1. CASE Insmod \/ RegisterDriver \/ RegisterSelf \/ ChangeParameter \/ ExitSelf \/ DeleteSelf
      BY <1>1, FileUnchanged
      DEF Insmod, RegisterDriver, RegisterSelf, ChangeParameter, ExitSelf, DeleteSelf
<1>2. CASE Rmmod
  <2>1. OpenFiles = {}
        BY <1>2, <1>f, FS_EmptySet DEF Rmmod, FileInv
  <2> QED
      BY <1>2, <2>1 DEF Rmmod, FileInv, OpenFiles
<1>3. CASE UnregisterDriver
  <2>1. CASE UNCHANGED <<mod, files>>
        BY <2>1, FileUnchanged
  <2>2. CASE /\ mod' = "absent" /\ file' = [u \in User |-> "none"] /\ refs' = 0
    <3>1. OpenFiles' = {}
          BY <2>2 DEF OpenFiles
    <3> QED
        BY <2>2, <3>1, FS_EmptySet DEF FileInv
  <2> QED
      BY <1>3, <2>1, <2>2 DEF UnregisterDriver
<1>4. ASSUME NEW d \in Device, DeviceStep(d) PROVE FileInv'
      BY <1>4, FileUnchanged
      DEF DeviceStep, StartProbe, Acquire, CallFails, CheckClass, CreateClass,
          TestClass, CreateNode, Unbind, Release, DestroyNode, DestroyClass, Released
<1>5. ASSUME NEW u \in User, Open(u) PROVE FileInv'
  <2>1. PICK d \in Device : file' = [file EXCEPT ![u] = d]
        BY <1>5 DEF Open
  <2>2. OpenFiles' = OpenFiles \cup {u}
        BY <2>1, <1>n DEF OpenFiles, FileInv
  <2>3. u \notin OpenFiles
        BY <1>5 DEF Open, OpenFiles
  <2>4. Cardinality(OpenFiles') = Cardinality(OpenFiles) + 1
        BY <2>2, <2>3, <1>f, FS_AddElement
  <2> QED
      BY <1>5, <2>1, <2>4 DEF Open, FileInv
<1>6. ASSUME NEW u \in User, Close(u) PROVE FileInv'
  <2>1. OpenFiles' = OpenFiles \ {u}
        BY <1>6 DEF Close, OpenFiles, FileInv
  <2>2. u \in OpenFiles
        BY <1>6 DEF Close, OpenFiles
  <2>3. Cardinality(OpenFiles') = Cardinality(OpenFiles) - 1
        BY <2>1, <2>2, <1>f, FS_RemoveElement
  <2> QED
      BY <1>6, <2>1, <2>2, <2>3 DEF Close, FileInv
<1>7. CASE UNCHANGED vars
      BY <1>7, FileUnchanged
<1> QED
    BY <1>1, <1>2, <1>3, <1>4, <1>5, <1>6, <1>7 DEF Next, ModuleStep

\* The references that open files count keep exit from starting, so no device is
\* taken from under an open file by rmmod, for any number of files and devices.
THEOREM FilesCorrect == Spec => []NoFileWhenRemoved
<1>1. FileInv => NoFileWhenRemoved
      BY DEF FileInv, OpenFiles, NoFileWhenRemoved
<1> QED
    BY FileInit, FileNext, <1>1, PTL DEF Spec

-----------------------------------------------------------------------------
(* What a device holds                                                       *)

Call  == {"mdev", "lt", "gpio", "region", "cdev", "check", "create", "test", "node",
          "class", "oops"}
Kept  == {"mdev", "lt", "gpio", "region", "cdev"}
Fails == {"mdev", "lt", "gpio", "region", "cdev", "test"}

\* What a probe may hold when a call is next.
Before(c) ==
  CASE c = "mdev" -> {}
    [] c = "lt" -> {"mdev"}
    [] c = "gpio" -> {"mdev", "lt"}
    [] c = "region" -> {"mdev", "lt", "gpio"}
    [] c = "cdev" -> {"mdev", "lt", "gpio", "region"}
    [] OTHER -> Kept

\* Which call of a probe is next to which.
Follow ==
  {<<"mdev", "lt">>, <<"mdev", "gpio">>, <<"lt", "gpio">>, <<"gpio", "region">>,
   <<"region", "cdev">>, <<"cdev", "check">>, <<"check", "create">>, <<"create", "test">>,
   <<"test", "node">>}

\* What is still to be probed, t, is the end of a probe, and nothing is held that
\* it has not come to.
Probing(t, h) ==
  /\ t # << >> /\ t[Len(t)] = "node"
  /\ \A i \in 1 .. Len(t) - 1 : <<t[i], t[i + 1]>> \in Follow
  /\ h \subseteq Before(t[1])
  /\ t[1] # "mdev" => "mdev" \in h

\* All that is held is still to be released, the memory last.
Releasing(t, h) ==
  /\ \A c \in h : \E i \in 1 .. Len(t) : t[i] = c
  /\ \A i \in 1 .. Len(t) : t[i] = "mdev" <=> i = Len(t)

\* A device in phase p that has still to make the calls t and holds h.
Sound(p, t, h) ==
  /\ p \in {"unbound", "probing", "bound", "releasing"}
  /\ t \in Seq(Call) /\ h \subseteq Kept
  /\ h # {} => "mdev" \in h
  /\ p = "unbound" => h = {}
  /\ p = "probing" => Probing(t, h)
  /\ p = "releasing" => t = <<"oops">> \/ Releasing(t, h)

LEMMA SoundStart == \A d \in Device : Sound("probing", ProbeCalls(d), {})
<1> TAKE d \in Device
<1>1. CASE d = "self"
      BY <1>1 DEF Sound, Probing, ProbeCalls, Call, Kept, Before, Follow
<1>2. CASE d # "self"
      BY <1>2 DEF Sound, Probing, ProbeCalls, Call, Kept, Before, Follow
<1> QED
    BY <1>1, <1>2

\* A call of a probe that is made: by itself, or with what it acquires.
LEMMA SoundProbe ==
  ASSUME NEW t, NEW h, Sound("probing", t, h), t # << >>, t[1] # "node",
         NEW k, \/ t[1] \in Kept /\ k = h \cup {t[1]}
                \/ t[1] \in {"check", "create", "test"} /\ k = h
  PROVE  Sound("probing", Tail(t), k)
<1>1. t \in Seq(Call) /\ Len(t) \in Nat \ {0}
      BY DEF Sound
<1>2. Len(t) # 1
      BY <1>1 DEF Sound, Probing
<1>3. /\ Tail(t) \in Seq(Call) /\ Len(Tail(t)) = Len(t) - 1
      /\ \A i \in 1 .. Len(t) - 1 : Tail(t)[i] = t[i + 1]
      BY <1>1, HeadTailProperties
<1>0. Tail(t) # << >>
  <2>1. Len(Tail(t)) # 0
        BY <1>1, <1>2, <1>3
  <2>2. Len(<< >>) = 0
        OBVIOUS
  <2> QED
      BY <2>1, <2>2, Zenon
<1>4. <<t[1], t[2]>> \in Follow
      BY <1>1, <1>2 DEF Sound, Probing
<1>5. Tail(t)[1] = t[2]
      BY <1>1, <1>2, <1>3
<1>6. k \subseteq Before(t[2]) /\ k \subseteq Kept /\ "mdev" \in k /\ t[2] # "mdev"
  <2>1. h \subseteq Before(t[1]) /\ h \subseteq Kept /\ (t[1] # "mdev" => "mdev" \in h)
        BY DEF Sound, Probing
  <2>2. \/ t[1] = "mdev" /\ t[2] \in {"lt", "gpio"}
        \/ t[1] = "lt" /\ t[2] = "gpio"
        \/ t[1] = "gpio" /\ t[2] = "region"
        \/ t[1] = "region" /\ t[2] = "cdev"
        \/ t[1] = "cdev" /\ t[2] = "check"
        \/ t[1] \in {"check", "create", "test"} /\ t[2] \in {"create", "test", "node"}
        BY <1>4 DEF Follow
  <2>3. CASE t[1] = "mdev" /\ t[2] \in {"lt", "gpio"}
        BY <2>1, <2>3 DEF Before, Kept
  <2>4. CASE t[1] = "lt" /\ t[2] = "gpio"
        BY <2>1, <2>4 DEF Before, Kept
  <2>5. CASE t[1] = "gpio" /\ t[2] = "region"
        BY <2>1, <2>5 DEF Before, Kept
  <2>6. CASE t[1] = "region" /\ t[2] = "cdev"
        BY <2>1, <2>6 DEF Before, Kept
  <2>7. CASE t[1] = "cdev" /\ t[2] = "check"
        BY <2>1, <2>7 DEF Before, Kept
  <2>8. CASE t[1] \in {"check", "create", "test"} /\ t[2] \in {"create", "test", "node"}
        BY <2>1, <2>8 DEF Before, Kept
  <2> QED
      BY <2>2, <2>3, <2>4, <2>5, <2>6, <2>7, <2>8
<1>7. Tail(t)[Len(Tail(t))] = "node"
      BY <1>1, <1>2, <1>3 DEF Sound, Probing
<1>8. \A i \in 1 .. Len(Tail(t)) - 1 : <<Tail(t)[i], Tail(t)[i + 1]>> \in Follow
      BY <1>1, <1>2, <1>3 DEF Sound, Probing
<1> QED
    BY <1>0, <1>3, <1>5, <1>6, <1>7, <1>8 DEF Sound, Probing

\* What follows a call of a probe.
LEMMA ProbeNext ==
  ASSUME NEW t, NEW h, Sound("probing", t, h), t # << >>, t[1] # "node"
  PROVE  Tail(t) # << >> /\ <<t[1], Tail(t)[1]>> \in Follow
<1>1. t \in Seq(Call) /\ Len(t) \in Nat \ {0}
      BY DEF Sound
<1>2. Len(t) # 1
      BY <1>1 DEF Sound, Probing
<1>3. /\ Tail(t) \in Seq(Call) /\ Len(Tail(t)) = Len(t) - 1
      /\ \A i \in 1 .. Len(t) - 1 : Tail(t)[i] = t[i + 1]
      BY <1>1, HeadTailProperties
<1>4. <<t[1], t[2]>> \in Follow
      BY <1>1, <1>2 DEF Sound, Probing
<1>5. Tail(t) # << >>
  <2>1. Len(Tail(t)) # 0
        BY <1>1, <1>2, <1>3
  <2>2. Len(<< >>) = 0
        OBVIOUS
  <2> QED
      BY <2>1, <2>2, Zenon
<1>6. Tail(t)[1] = t[2]
      BY <1>1, <1>2, <1>3
<1> QED
    BY <1>4, <1>5, <1>6

\* The test of the class is followed by its making.
LEMMA ClassNext ==
  ASSUME NEW t, NEW h, Sound("probing", t, h), t # << >>, t[1] = "check"
  PROVE  Tail(t) # << >> /\ Tail(t)[1] = "create"
<1>1. Tail(t) # << >> /\ <<t[1], Tail(t)[1]>> \in Follow
      BY ProbeNext
<1> QED
    BY <1>1 DEF Follow

\* The devres core comes after what the driver releases itself.
LEMMA ThenManaged ==
  ASSUME NEW p \in Seq(Call)
  PROVE  LET s == p \o Managed
         IN /\ s \in Seq(Call) /\ Len(s) = Len(p) + 2
            /\ \A i \in 1 .. Len(p) : s[i] = p[i]
            /\ s[Len(p) + 1] = "gpio" /\ s[Len(p) + 2] = "mdev"
<1>1. Managed \in Seq(Call) /\ Len(Managed) = 2 /\ Managed[1] = "gpio" /\ Managed[2] = "mdev"
      BY DEF Managed, Call
<1>2. Len(p) \in Nat
      OBVIOUS
<1> DEFINE s == p \o Managed
<1>3. /\ s \in Seq(Call) /\ Len(s) = Len(p) + 2
      /\ \A i \in 1 .. Len(p) + 2 : s[i] = IF i <= Len(p) THEN p[i] ELSE Managed[i - Len(p)]
  <2>1. /\ s \in Seq(Call) /\ Len(s) = Len(p) + Len(Managed)
        /\ \A i \in 1 .. Len(p) + Len(Managed) :
             s[i] = IF i <= Len(p) THEN p[i] ELSE Managed[i - Len(p)]
        BY <1>1, ConcatProperties, Zenon
  <2> QED
      BY <1>1, <2>1, Zenon
<1> HIDE DEF s
<1>4. s[Len(p) + 1] = "gpio" /\ s[Len(p) + 2] = "mdev"
  <2>1. Len(p) + 1 \in 1 .. Len(p) + 2 /\ ~(Len(p) + 1 <= Len(p)) /\ Len(p) + 1 - Len(p) = 1
        BY <1>2
  <2>2. Len(p) + 2 \in 1 .. Len(p) + 2 /\ ~(Len(p) + 2 <= Len(p)) /\ Len(p) + 2 - Len(p) = 2
        BY <1>2
  <2> QED
      BY <1>1, <1>3, <2>1, <2>2
<1>5. \A i \in 1 .. Len(p) : s[i] = p[i]
      BY <1>2, <1>3
<1> QED
    BY <1>3, <1>4, <1>5 DEF s

\* A call that fails.
LEMMA SoundFail ==
  ASSUME NEW t, NEW h, Sound("probing", t, h), t # << >>, t[1] \in Fails
  PROVE  Sound("releasing", ProbeErrors[t[1]] \o Managed, h)
<1>1. h \subseteq Before(t[1])
      BY DEF Sound, Probing
<1> DEFINE p == ProbeErrors[t[1]]
           s == p \o Managed
<1>0. h \subseteq Kept /\ (h # {} => "mdev" \in h)
      BY DEF Sound
<1>2. CASE t[1] = "mdev"
  <2>1. p = << >>
        BY <1>2 DEF ProbeErrors
  <2>2. p \in Seq(Call) /\ Len(p) = 0
        BY <2>1 DEF Call
  <2> HIDE DEF p
  <2>3. s \in Seq(Call) /\ Len(s) = 2 /\ s[1] = "gpio" /\ s[2] = "mdev"
    <3>1. /\ s \in Seq(Call) /\ Len(s) = Len(p) + 2
          /\ \A i \in 1 .. Len(p) : s[i] = p[i]
          /\ s[Len(p) + 1] = "gpio" /\ s[Len(p) + 2] = "mdev"
          BY <2>2, ThenManaged, Zenon DEF s
    <3> HIDE DEF s
    <3> QED
        BY <2>2, <3>1
  <2>4. h \subseteq {"gpio", "mdev"}
        BY <1>0, <1>1, <1>2 DEF Before, Kept
  <2> HIDE DEF s
  <2>5. Releasing(s, h)
        BY <2>3, <2>4 DEF Releasing
  <2>6. Sound("releasing", s, h)
        BY <1>0, <2>3, <2>5 DEF Sound
  <2> QED
      BY <2>6 DEF s, p
<1>3. CASE t[1] = "lt"
  <2>1. p = << >>
        BY <1>3 DEF ProbeErrors
  <2>2. p \in Seq(Call) /\ Len(p) = 0
        BY <2>1 DEF Call
  <2> HIDE DEF p
  <2>3. s \in Seq(Call) /\ Len(s) = 2 /\ s[1] = "gpio" /\ s[2] = "mdev"
    <3>1. /\ s \in Seq(Call) /\ Len(s) = Len(p) + 2
          /\ \A i \in 1 .. Len(p) : s[i] = p[i]
          /\ s[Len(p) + 1] = "gpio" /\ s[Len(p) + 2] = "mdev"
          BY <2>2, ThenManaged, Zenon DEF s
    <3> HIDE DEF s
    <3> QED
        BY <2>2, <3>1
  <2>4. h \subseteq {"gpio", "mdev"}
        BY <1>0, <1>1, <1>3 DEF Before, Kept
  <2> HIDE DEF s
  <2>5. Releasing(s, h)
        BY <2>3, <2>4 DEF Releasing
  <2>6. Sound("releasing", s, h)
        BY <1>0, <2>3, <2>5 DEF Sound
  <2> QED
      BY <2>6 DEF s, p
<1>4. CASE t[1] = "gpio"
  <2>1. p = <<"lt">>
        BY <1>4 DEF ProbeErrors
  <2>2. p \in Seq(Call) /\ Len(p) = 1 /\ p[1] = "lt"
        BY <2>1 DEF Call
  <2> HIDE DEF p
  <2>3. s \in Seq(Call) /\ Len(s) = 3 /\ s[1] = "lt" /\ s[2] = "gpio" /\ s[3] = "mdev"
    <3>1. /\ s \in Seq(Call) /\ Len(s) = Len(p) + 2
          /\ \A i \in 1 .. Len(p) : s[i] = p[i]
          /\ s[Len(p) + 1] = "gpio" /\ s[Len(p) + 2] = "mdev"
          BY <2>2, ThenManaged, Zenon DEF s
    <3> HIDE DEF s
    <3> QED
        BY <2>2, <3>1
  <2>4. h \subseteq {"lt", "gpio", "mdev"}
        BY <1>0, <1>1, <1>4 DEF Before, Kept
  <2> HIDE DEF s
  <2>5. Releasing(s, h)
        BY <2>3, <2>4 DEF Releasing
  <2>6. Sound("releasing", s, h)
        BY <1>0, <2>3, <2>5 DEF Sound
  <2> QED
      BY <2>6 DEF s, p
<1>5. CASE t[1] = "region"
  <2>1. p = <<"lt">>
        BY <1>5 DEF ProbeErrors
  <2>2. p \in Seq(Call) /\ Len(p) = 1 /\ p[1] = "lt"
        BY <2>1 DEF Call
  <2> HIDE DEF p
  <2>3. s \in Seq(Call) /\ Len(s) = 3 /\ s[1] = "lt" /\ s[2] = "gpio" /\ s[3] = "mdev"
    <3>1. /\ s \in Seq(Call) /\ Len(s) = Len(p) + 2
          /\ \A i \in 1 .. Len(p) : s[i] = p[i]
          /\ s[Len(p) + 1] = "gpio" /\ s[Len(p) + 2] = "mdev"
          BY <2>2, ThenManaged, Zenon DEF s
    <3> HIDE DEF s
    <3> QED
        BY <2>2, <3>1
  <2>4. h \subseteq {"lt", "gpio", "mdev"}
        BY <1>0, <1>1, <1>5 DEF Before, Kept
  <2> HIDE DEF s
  <2>5. Releasing(s, h)
        BY <2>3, <2>4 DEF Releasing
  <2>6. Sound("releasing", s, h)
        BY <1>0, <2>3, <2>5 DEF Sound
  <2> QED
      BY <2>6 DEF s, p
<1>6. CASE t[1] = "cdev"
  <2>1. p = <<"region", "lt">>
        BY <1>6 DEF ProbeErrors
  <2>2. p \in Seq(Call) /\ Len(p) = 2 /\ p[1] = "region" /\ p[2] = "lt"
        BY <2>1 DEF Call
  <2> HIDE DEF p
  <2>3. s \in Seq(Call) /\ Len(s) = 4 /\ s[1] = "region" /\ s[2] = "lt" /\ s[3] = "gpio" /\ s[4] = "mdev"
    <3>1. /\ s \in Seq(Call) /\ Len(s) = Len(p) + 2
          /\ \A i \in 1 .. Len(p) : s[i] = p[i]
          /\ s[Len(p) + 1] = "gpio" /\ s[Len(p) + 2] = "mdev"
          BY <2>2, ThenManaged, Zenon DEF s
    <3> HIDE DEF s
    <3> QED
        BY <2>2, <3>1
  <2>4. h \subseteq {"region", "lt", "gpio", "mdev"}
        BY <1>0, <1>1, <1>6 DEF Before, Kept
  <2> HIDE DEF s
  <2>5. Releasing(s, h)
        BY <2>3, <2>4 DEF Releasing
  <2>6. Sound("releasing", s, h)
        BY <1>0, <2>3, <2>5 DEF Sound
  <2> QED
      BY <2>6 DEF s, p
<1>7. CASE t[1] = "test"
  <2>1. p = <<"cdev", "region", "lt">>
        BY <1>7 DEF ProbeErrors
  <2>2. p \in Seq(Call) /\ Len(p) = 3 /\ p[1] = "cdev" /\ p[2] = "region" /\ p[3] = "lt"
        BY <2>1 DEF Call
  <2> HIDE DEF p
  <2>3. s \in Seq(Call) /\ Len(s) = 5 /\ s[1] = "cdev" /\ s[2] = "region" /\ s[3] = "lt" /\ s[4] = "gpio" /\ s[5] = "mdev"
    <3>1. /\ s \in Seq(Call) /\ Len(s) = Len(p) + 2
          /\ \A i \in 1 .. Len(p) : s[i] = p[i]
          /\ s[Len(p) + 1] = "gpio" /\ s[Len(p) + 2] = "mdev"
          BY <2>2, ThenManaged, Zenon DEF s
    <3> HIDE DEF s
    <3> QED
        BY <2>2, <3>1
  <2>4. h \subseteq {"cdev", "region", "lt", "gpio", "mdev"}
        BY <1>0, <1>1, <1>7 DEF Before, Kept
  <2> HIDE DEF s
  <2>5. Releasing(s, h)
        BY <2>3, <2>4 DEF Releasing
  <2>6. Sound("releasing", s, h)
        BY <1>0, <2>3, <2>5 DEF Sound
  <2> QED
      BY <2>6 DEF s, p
<1> QED
    BY <1>2, <1>3, <1>4, <1>5, <1>6, <1>7 DEF Fails

\* The node is made; the probe has succeeded.
LEMMA SoundBound ==
  ASSUME NEW t, NEW h, Sound("probing", t, h)
  PROVE  Sound("bound", << >>, h)
BY DEF Sound

LEMMA SoundRemove ==
  ASSUME NEW t, NEW h, Sound("bound", t, h)
  PROVE  Sound("releasing", RemoveCalls \o Managed, h)
BY DEF Sound, Releasing, RemoveCalls, Managed, Call, Kept

\* A call of a remove, or of an error path, that is made.
LEMMA SoundRelease ==
  ASSUME NEW t, NEW h, Sound("releasing", t, h), t # << >>,
         NEW k, \/ t[1] \in Kept /\ k = h \ {t[1]}
                \/ t[1] \in {"node", "class"} /\ k = h
  PROVE  Sound("releasing", Tail(t), k)
<1>1. t \in Seq(Call) /\ Len(t) \in Nat \ {0} /\ Releasing(t, h)
      BY DEF Sound, Kept
<1>2. /\ Tail(t) \in Seq(Call) /\ Len(Tail(t)) = Len(t) - 1
      /\ \A i \in 1 .. Len(t) - 1 : Tail(t)[i] = t[i + 1]
      BY <1>1, HeadTailProperties
<1>3. ASSUME NEW c \in k PROVE \E i \in 1 .. Len(Tail(t)) : Tail(t)[i] = c
  <2>1. c \in h /\ c # t[1]
        BY DEF Sound, Kept
  <2>2. PICK i \in 1 .. Len(t) : t[i] = c
        BY <1>1, <2>1 DEF Releasing
  <2>3. i - 1 \in 1 .. Len(Tail(t)) /\ Tail(t)[i - 1] = c
        BY <1>1, <1>2, <2>1, <2>2
  <2> QED
      BY <2>3
<1>4. \A i \in 1 .. Len(Tail(t)) : Tail(t)[i] = "mdev" <=> i = Len(Tail(t))
  <2> SUFFICES ASSUME NEW i \in 1 .. Len(Tail(t))
               PROVE  Tail(t)[i] = "mdev" <=> i = Len(Tail(t))
      OBVIOUS
  <2>1. i \in 1 .. Len(t) - 1 /\ i + 1 \in 1 .. Len(t)
        BY <1>1, <1>2
  <2>2. Tail(t)[i] = t[i + 1]
        BY <1>2, <2>1
  <2>3. t[i + 1] = "mdev" <=> i + 1 = Len(t)
        BY <1>1, <2>1 DEF Releasing
  <2>4. i + 1 = Len(t) <=> i = Len(Tail(t))
        BY <1>1, <1>2, <2>1
  <2> QED
      BY <2>2, <2>3, <2>4
<1>5. "mdev" \notin k => k = {}
  <2>1. SUFFICES ASSUME "mdev" \notin k, k # {} PROVE FALSE
        OBVIOUS
  <2>2. "mdev" \in h /\ t[1] = "mdev"
        BY <2>1 DEF Sound
  <2>5. PICK c \in k : TRUE
        BY <2>1
  <2>3. Len(t) = 1
    <3>1. 1 \in 1 .. Len(t)
          BY <1>1
    <3> QED
        BY <1>1, <2>2, <3>1 DEF Releasing
  <2>7. Len(Tail(t)) = 0
        BY <1>2, <2>3
  <2>8. 1 .. 0 = {}
        OBVIOUS
  <2>4. 1 .. Len(Tail(t)) = {}
        BY <2>7, <2>8, Zenon
  <2>6. \E i \in 1 .. Len(Tail(t)) : Tail(t)[i] = c
        BY <1>3, <2>5
  <2> QED
      BY <2>4, <2>6, Zenon
<1> QED
    BY <1>2, <1>3, <1>4, <1>5 DEF Sound, Releasing

LEMMA SoundReleased ==
  ASSUME NEW h, Sound("releasing", << >>, h)
  PROVE  Sound("unbound", << >>, h)
BY DEF Sound, Releasing

\* A remove that ends in an oops.
LEMMA SoundOops ==
  ASSUME NEW t, NEW h, Sound("releasing", t, h)
  PROVE  Sound("releasing", <<"oops">>, h)
BY DEF Sound, Call

-----------------------------------------------------------------------------
(* The devices                                                               *)

AllocInv ==
  /\ DOMAIN phase = Device /\ DOMAIN todo = Device /\ DOMAIN held = Device
  /\ phase = [d \in Device |-> phase[d]]
  /\ todo = [d \in Device |-> todo[d]]
  /\ held = [d \in Device |-> held[d]]
  /\ \A d \in Device : Sound(phase[d], todo[d], held[d])

LEMMA AllocInit == Init => AllocInv
BY DEF Init, AllocInv, Sound, Kept

\* A step that leaves one device sound and does not touch the others.
LEMMA OneDevice ==
  ASSUME AllocInv, NEW d \in Device, NEW p, NEW t, NEW h, Sound(p, t, h),
         phase' = [phase EXCEPT ![d] = p], todo' = [todo EXCEPT ![d] = t],
         held' = [held EXCEPT ![d] = h]
  PROVE  AllocInv'
<1>1. ASSUME NEW e \in Device PROVE Sound(phase'[e], todo'[e], held'[e])
  <2>1. CASE e = d
        BY <2>1 DEF AllocInv
  <2>2. CASE e # d
    <3>1. phase'[e] = phase[e] /\ todo'[e] = todo[e] /\ held'[e] = held[e]
          BY <2>2 DEF AllocInv
    <3> QED
        BY <3>1 DEF AllocInv
  <2> QED
      BY <2>1, <2>2
<1>2. phase' = [e \in Device |-> phase'[e]]
      BY DEF AllocInv
<1>3. todo' = [e \in Device |-> todo'[e]]
      BY DEF AllocInv
<1>4. held' = [e \in Device |-> held'[e]]
      BY DEF AllocInv
<1>5. DOMAIN phase' = Device /\ DOMAIN todo' = Device /\ DOMAIN held' = Device
      BY DEF AllocInv
<1> QED
    BY <1>1, <1>2, <1>3, <1>4, <1>5 DEF AllocInv

\* The same for a step that leaves some of the three alone.
LEMMA Same ==
  ASSUME AllocInv, NEW d \in Device
  PROVE  /\ Sound(phase[d], todo[d], held[d])
         /\ phase = [phase EXCEPT ![d] = phase[d]]
         /\ todo = [todo EXCEPT ![d] = todo[d]]
         /\ held = [held EXCEPT ![d] = held[d]]
BY DEF AllocInv

\* A step that only changes the calls that one device has still to make.
LEMMA OneList ==
  ASSUME AllocInv, NEW d \in Device, NEW t, Sound(phase[d], t, held[d]),
         UNCHANGED <<phase, held>>, todo' = [todo EXCEPT ![d] = t]
  PROVE  AllocInv'
<1>1. phase' = [phase EXCEPT ![d] = phase[d]] /\ held' = [held EXCEPT ![d] = held[d]]
      BY Same
<1> QED
    BY <1>1, OneDevice

LEMMA AtFirst ==
  ASSUME AllocInv, NEW d \in Device, NEW p, NEW call, At(d, p, call)
  PROVE  /\ Sound(p, todo[d], held[d]) /\ phase[d] = p
         /\ todo[d] # << >> /\ todo[d][1] = call
<1>1. Sound(phase[d], todo[d], held[d]) /\ phase[d] = p
      BY Same DEF At
<1>2. todo[d] \in Seq(Call) /\ todo[d] # << >> /\ Head(todo[d]) = call
      BY <1>1 DEF Sound, At
<1> QED
    BY <1>1, <1>2

LEMMA RemoveAlloc ==
  ASSUME AllocInv, NEW d \in Device, phase[d] = "bound", Remove(d), UNCHANGED held
  PROVE  AllocInv'
<1>1. Sound("releasing", RemoveCalls \o Managed, held[d])
      BY Same, SoundRemove
<1> QED
    BY <1>1, Same, OneDevice DEF Remove, Begin

LEMMA FailAlloc ==
  ASSUME AllocInv, NEW d \in Device, NEW call \in Fails, At(d, "probing", call),
         FailProbe(d, call), UNCHANGED held
  PROVE  AllocInv'
<1>1. Sound("releasing", ProbeErrors[call] \o Managed, held[d])
      BY AtFirst, SoundFail
<1> QED
    BY <1>1, Same, OneDevice DEF FailProbe, Begin

LEMMA AllocDevice ==
  ASSUME AllocInv, NEW d \in Device, DeviceStep(d)
  PROVE  AllocInv'
<1>1. CASE StartProbe(d)
  <2>1. held[d] = {}
        BY <1>1, Same DEF StartProbe, Sound
  <2>2. held' = [held EXCEPT ![d] = {}]
        BY <1>1, <2>1, Same DEF StartProbe
  <2>3. Sound("probing", ProbeCalls(d), {})
        BY SoundStart
  <2>4. /\ phase' = [phase EXCEPT ![d] = "probing"]
        /\ todo' = [todo EXCEPT ![d] = ProbeCalls(d)]
        BY <1>1 DEF StartProbe, Begin
  <2> QED
      BY <2>2, <2>3, <2>4, OneDevice
<1>2. CASE Acquire(d)
  <2>1. PICK call \in Kept : At(d, "probing", call) /\ held' = [held EXCEPT ![d] = @ \cup {call}]
        BY <1>2 DEF Acquire, Kept
  <2>2. Sound("probing", Tail(todo[d]), held[d] \cup {call})
    <3>1. call # "node"
          BY DEF Kept
    <3> QED
        BY <2>1, <3>1, AtFirst, SoundProbe
  <2>3. held' = [held EXCEPT ![d] = held[d] \cup {call}]
        BY <2>1 DEF AllocInv
  <2>4. todo' = [todo EXCEPT ![d] = Tail(todo[d])] /\ phase' = [phase EXCEPT ![d] = phase[d]]
        BY <1>2, Same DEF Acquire, Advance
  <2>5. phase[d] = "probing"
        BY <2>1 DEF At
  <2> QED
      BY <2>2, <2>3, <2>4, <2>5, OneDevice
<1>3. CASE CallFails(d)
  <2>1. PICK call \in Kept : At(d, "probing", call) /\ FailProbe(d, call)
        BY <1>3 DEF CallFails, Kept
  <2> QED
      BY <1>3, <2>1, FailAlloc DEF CallFails, Kept, Fails
<1>4. CASE CheckClass(d)
  <2>1. At(d, "probing", "check") /\ UNCHANGED <<phase, held>>
        BY <1>4 DEF CheckClass
  <2>2. Sound("probing", Tail(todo[d]), held[d])
        BY <2>1, AtFirst, SoundProbe
  <2>3. Sound("probing", Tail(Tail(todo[d])), held[d])
    <3>1. Tail(todo[d]) # << >> /\ Tail(todo[d])[1] = "create"
          BY <2>1, AtFirst, ClassNext
    <3> QED
        BY <2>2, <3>1, SoundProbe
  <2>4. PICK t \in {Tail(todo[d]), Tail(Tail(todo[d]))} : todo' = [todo EXCEPT ![d] = t]
        BY <1>4 DEF CheckClass, AllocInv
  <2>5. Sound("probing", t, held[d]) /\ phase[d] = "probing"
        BY <2>1, <2>2, <2>3 DEF At
  <2> QED
      BY <2>1, <2>4, <2>5, OneList
<1>5. CASE CreateClass(d)
  <2>1. At(d, "probing", "create") /\ UNCHANGED <<phase, held>> /\ Advance(d)
        BY <1>5 DEF CreateClass, Advance
  <2>2. Sound("probing", Tail(todo[d]), held[d]) /\ phase[d] = "probing"
        BY <2>1, AtFirst, SoundProbe
  <2>3. todo' = [todo EXCEPT ![d] = Tail(todo[d])]
        BY <2>1 DEF Advance, AllocInv
  <2> QED
      BY <2>1, <2>2, <2>3, OneList
<1>6. CASE TestClass(d)
  <2>1. At(d, "probing", "test") /\ UNCHANGED held
        BY <1>6 DEF TestClass
  <2>2. CASE FailProbe(d, "test")
        BY <2>1, <2>2, FailAlloc DEF Fails
  <2>3. CASE Advance(d)
    <3>1. Sound("probing", Tail(todo[d]), held[d]) /\ phase[d] = "probing"
          BY <2>1, AtFirst, SoundProbe
    <3>2. todo' = [todo EXCEPT ![d] = Tail(todo[d])] /\ UNCHANGED phase
          BY <2>3 DEF Advance, AllocInv
    <3> QED
        BY <2>1, <3>1, <3>2, OneList
  <2> QED
      BY <1>6, <2>2, <2>3 DEF TestClass
<1>7. CASE CreateNode(d)
  <2>1. At(d, "probing", "node") /\ UNCHANGED held /\ Begin(d, "bound", << >>)
        BY <1>7 DEF CreateNode
  <2>2. Sound("bound", << >>, held[d])
        BY <2>1, AtFirst, SoundBound
  <2> QED
      BY <2>1, <2>2, Same, OneDevice DEF Begin
<1>8. CASE Unbind(d)
      BY <1>8, RemoveAlloc DEF Unbind
<1>9. CASE Release(d)
  <2>1. PICK call \in Kept : At(d, "releasing", call) /\ held' = [held EXCEPT ![d] = @ \ {call}]
        BY <1>9 DEF Release, Kept
  <2>2. Sound("releasing", Tail(todo[d]), held[d] \ {call})
        BY <2>1, AtFirst, SoundRelease
  <2>3. held' = [held EXCEPT ![d] = held[d] \ {call}]
        BY <2>1 DEF AllocInv
  <2>4. todo' = [todo EXCEPT ![d] = Tail(todo[d])] /\ phase' = [phase EXCEPT ![d] = phase[d]]
        BY <1>9, Same DEF Release, Advance
  <2>5. phase[d] = "releasing"
        BY <2>1 DEF At
  <2> QED
      BY <2>2, <2>3, <2>4, <2>5, OneDevice
<1>10. CASE DestroyNode(d)
  <2>1. At(d, "releasing", "node") /\ UNCHANGED <<phase, held>>
        BY <1>10 DEF DestroyNode, Advance
  <2>2. PICK t \in {<<"oops">>, Tail(todo[d])} : todo' = [todo EXCEPT ![d] = t]
        BY <1>10 DEF DestroyNode, Advance, AllocInv
  <2>3. /\ Sound("releasing", todo[d], held[d]) /\ phase[d] = "releasing"
        /\ todo[d] # << >> /\ todo[d][1] = "node"
        BY <2>1, AtFirst
  <2>4. Sound("releasing", Tail(todo[d]), held[d])
        BY <2>3, SoundRelease
  <2>5. Sound("releasing", <<"oops">>, held[d])
        BY <2>3, SoundOops
  <2> QED
      BY <2>1, <2>2, <2>3, <2>4, <2>5, OneList
<1>11. CASE DestroyClass(d)
  <2>1. At(d, "releasing", "class") /\ UNCHANGED <<phase, held>>
        BY <1>11 DEF DestroyClass, Advance
  <2>2. Sound("releasing", Tail(todo[d]), held[d]) /\ phase[d] = "releasing"
        BY <2>1, AtFirst, SoundRelease
  <2>3. todo' = [todo EXCEPT ![d] = Tail(todo[d])]
        BY <1>11 DEF DestroyClass, Advance, AllocInv
  <2> QED
      BY <2>1, <2>2, <2>3, OneList
<1>12. CASE Released(d)
  <2>1. Sound("releasing", << >>, held[d])
        BY <1>12, Same DEF Released
  <2>2. Sound("unbound", << >>, held[d])
        BY <2>1, SoundReleased
  <2> QED
      BY <1>12, <2>2, Same, OneDevice DEF Released, Begin
<1> QED
    BY <1>1, <1>2, <1>3, <1>4, <1>5, <1>6, <1>7, <1>8, <1>9, <1>10, <1>11, <1>12
    DEF DeviceStep

LEMMA AllocUnchanged ==
  ASSUME AllocInv, UNCHANGED devices
  PROVE  AllocInv'
BY DEF AllocInv

LEMMA AllocNext == AllocInv /\ [Next]_vars => AllocInv'
<1> SUFFICES ASSUME AllocInv, [Next]_vars PROVE AllocInv'
    OBVIOUS
<1>1. CASE Insmod \/ RegisterDriver \/ RegisterSelf \/ ChangeParameter \/ Rmmod \/ ExitSelf
      BY <1>1, AllocUnchanged
      DEF Insmod, RegisterDriver, RegisterSelf, ChangeParameter, Rmmod, ExitSelf
<1>2. CASE DeleteSelf
  <2>1. CASE phase["self"] = "bound" /\ Remove("self") /\ UNCHANGED held
        BY <2>1, RemoveAlloc DEF Device
  <2>2. CASE UNCHANGED devices
        BY <2>2, AllocUnchanged
  <2> QED
      BY <1>2, <2>1, <2>2 DEF DeleteSelf
<1>3. CASE UnregisterDriver
  <2>1. CASE (\E d \in Device : phase[d] = "bound" /\ Remove(d)) /\ UNCHANGED held
        BY <2>1, RemoveAlloc
  <2>2. CASE UNCHANGED devices
        BY <2>2, AllocUnchanged
  <2> QED
      BY <1>3, <2>1, <2>2 DEF UnregisterDriver
<1>4. ASSUME NEW d \in Device, DeviceStep(d) PROVE AllocInv'
      BY <1>4, AllocDevice
<1>5. ASSUME NEW u \in User, Open(u) \/ Close(u) PROVE AllocInv'
      BY <1>5, AllocUnchanged DEF Open, Close
<1>6. CASE UNCHANGED vars
      BY <1>6, AllocUnchanged
<1> QED
    BY <1>1, <1>2, <1>3, <1>4, <1>5, <1>6 DEF Next, ModuleStep

\* Whichever call of a probe fails, and in a remove, what lives in the device's
\* memory is taken out of the kernel's lists before the memory is freed, for any
\* number of devices that are probed and removed at the same time.
THEOREM AllocCorrect == Spec => []ListedIsAllocated
<1>1. AllocInv => ListedIsAllocated
      BY DEF AllocInv, Sound, ListedIsAllocated
<1> QED
    BY AllocInit, AllocNext, <1>1, PTL DEF Spec

-----------------------------------------------------------------------------
(* Types                                                                     *)

\* What remains of TypeOK next to AllocInv and FileInv.
PlainInv ==
  /\ mod \in {"absent", "coming", "live", "failing", "going"}
  /\ step \in {"register", "self", "delete", "unregister", "done"}
  /\ use_lookup \in BOOLEAN /\ changed \in BOOLEAN /\ shared \in BOOLEAN
  /\ pdev_self \in {"null", "device", "error"} /\ registered \in BOOLEAN
  /\ node \in [Device -> {"none", "there", "orphan"}]
  /\ class \in {"null", "error", "class"} /\ classes \in BOOLEAN

LEMMA PlainInit == Init => PlainInv
BY DEF Init, PlainInv

LEMMA PlainNext == PlainInv /\ [Next]_vars => PlainInv'
<1> SUFFICES ASSUME PlainInv, [Next]_vars PROVE PlainInv'
    OBVIOUS
<1>1. CASE Insmod
      BY <1>1 DEF Insmod, PlainInv
<1>2. CASE RegisterDriver
      BY <1>2 DEF RegisterDriver, PlainInv
<1>3. CASE RegisterSelf
      BY <1>3 DEF RegisterSelf, PlainInv
<1>4. CASE ChangeParameter
      BY <1>4 DEF ChangeParameter, PlainInv
<1>5. CASE Rmmod
      BY <1>5 DEF Rmmod, PlainInv
<1>6. CASE ExitSelf
  <2>1. step' \in {"delete", "unregister"}
        BY <1>6, Zenon DEF ExitSelf
  <2>2. UNCHANGED <<mod, pdev_self, params, registered, node, class, classes, shared>>
        BY <1>6 DEF ExitSelf
  <2> QED
      BY <2>1, <2>2 DEF PlainInv
<1>7. CASE DeleteSelf
  <2>1. UNCHANGED <<mod, pdev_self, params, node, class, classes, shared>>
        BY <1>7 DEF DeleteSelf
  <2>2. \/ UNCHANGED <<step, registered>>
        \/ registered' = FALSE /\ step' = "unregister"
        BY <1>7 DEF DeleteSelf
  <2> QED
      BY <2>1, <2>2 DEF PlainInv
<1>8. CASE UnregisterDriver
  <2>1. UNCHANGED <<params, registered, node, classes, shared>>
        BY <1>8 DEF UnregisterDriver
  <2>2. CASE UNCHANGED <<module, class>>
        BY <2>1, <2>2 DEF PlainInv
  <2>3. CASE mod' = "absent" /\ step' = "done" /\ pdev_self' = "null" /\ class' = "null"
        BY <2>1, <2>3 DEF PlainInv
  <2> QED
      BY <1>8, <2>2, <2>3 DEF UnregisterDriver
<1>9. ASSUME NEW d \in Device,
             \/ Acquire(d) \/ CallFails(d) \/ CheckClass(d) \/ Unbind(d) \/ Release(d)
             \/ Released(d)
      PROVE  PlainInv'
      BY <1>9 DEF Acquire, CallFails, CheckClass, Unbind, Release, Released, PlainInv
<1>10. ASSUME NEW d \in Device, StartProbe(d) PROVE PlainInv'
      BY <1>10 DEF StartProbe, PlainInv
<1>11. ASSUME NEW d \in Device, CreateClass(d) \/ TestClass(d) PROVE PlainInv'
      BY <1>11 DEF CreateClass, TestClass, PlainInv
<1>12. ASSUME NEW d \in Device, CreateNode(d) \/ DestroyNode(d) PROVE PlainInv'
      BY <1>12 DEF CreateNode, DestroyNode, PlainInv
<1>13. ASSUME NEW d \in Device, DestroyClass(d) PROVE PlainInv'
      BY <1>13 DEF DestroyClass, PlainInv
<1>14. ASSUME NEW u \in User, Open(u) \/ Close(u) PROVE PlainInv'
      BY <1>14 DEF Open, Close, PlainInv
<1>15. CASE UNCHANGED vars
      BY <1>15 DEF PlainInv
<1> QED
    BY <1>1, <1>2, <1>3, <1>4, <1>5, <1>6, <1>7, <1>8, <1>9, <1>10, <1>11, <1>12,
       <1>13, <1>14, <1>15
    DEF Next, ModuleStep, DeviceStep

\* The types of the variables, for any number of nodes and users.
THEOREM DescriptorTypes == Spec => []TypeOK
<1>1. AllocInv => /\ phase \in [Device -> {"unbound", "probing", "bound", "releasing"}]
                  /\ todo \in [Device -> Seq(Call)]
                  /\ held \in [Device -> SUBSET Kept]
  <2> SUFFICES ASSUME AllocInv
               PROVE  /\ phase \in [Device -> {"unbound", "probing", "bound", "releasing"}]
                      /\ todo \in [Device -> Seq(Call)]
                      /\ held \in [Device -> SUBSET Kept]
      OBVIOUS
  <2>1. \A d \in Device : /\ phase[d] \in {"unbound", "probing", "bound", "releasing"}
                           /\ todo[d] \in Seq(Call)
                           /\ held[d] \in SUBSET Kept
        BY DEF AllocInv, Sound
  <2> QED
      BY <2>1 DEF AllocInv
<1>2. FileInv => file \in [User -> Device \cup {"none"}] /\ refs \in Nat
  <2>1. IsFiniteSet(OpenFiles)
        BY DescriptorAssumption, FS_Subset DEF OpenFiles
  <2> QED
      BY <2>1, FS_CardinalityType DEF FileInv
<1>3. AllocInv /\ FileInv /\ PlainInv => TypeOK
      BY <1>1, <1>2 DEF PlainInv, TypeOK, Call, Kept
<1> QED
    BY AllocInit, AllocNext, FileInit, FileNext, PlainInit, PlainNext, <1>3, PTL DEF Spec

-----------------------------------------------------------------------------
(* One device at a time                                                      *)

Has(t, c) == \E i \in 1 .. Len(t) : t[i] = c

\* The class is destroyed once, and after the node.
ClassLast(t) ==
  \A i, j \in 1 .. Len(t) : i < j /\ t[i] = "class" => t[j] \notin {"class", "node"}

\* A device in phase p that has still to make the calls t and whose node is n, when
\* mgpio_class is c and k tells whether the kernel has the class: the class is there
\* from the probe's test of it to the remove's call that destroys it, and the node
\* at most as long.
Stage(p, t, n, c, k) ==
  /\ n # "orphan" /\ k = (c = "class")
  /\ p \in {"unbound", "probing"} => n = "none"
  /\ p = "unbound" => c = "null"
  /\ p = "probing" => \/ c = "null" /\ t[1] \notin {"test", "node"}
                      \/ c = "error" /\ t[1] = "test"
                      \/ c = "class" /\ t[1] \in {"test", "node"}
  /\ p = "bound" => c = "class"
  /\ p = "releasing" => /\ ClassLast(t)
                        /\ Has(t, "class") => c = "class"
                        /\ ~Has(t, "class") => c = "null"
                        /\ c = "null" \/ ~Has(t, "node") => n = "none"

\* No device but d is in use, or has left anything.
Lone(d) == \A e \in Device \ {d} : phase[e] = "unbound" /\ node[e] = "none"

SoleInv ==
  ~shared => \E d \in Device : Lone(d) /\ Stage(phase[d], todo[d], node[d], class, classes)

LEMMA SoleInit == Init => SoleInv
<1> SUFFICES ASSUME Init PROVE SoleInv
    OBVIOUS
<1>1. "self" \in Device
      BY DEF Device
<1>2. Lone("self")
      BY DEF Init, Lone
<1>3. Stage(phase["self"], todo["self"], node["self"], class, classes)
      BY <1>1 DEF Init, Stage
<1> QED
    BY <1>1, <1>2, <1>3 DEF SoleInv

\* What is still to be done once the first call is made.
LEMMA HasTail ==
  ASSUME NEW t \in Seq(Call), t # << >>
  PROVE  /\ \A c : Has(t, c) <=> t[1] = c \/ Has(Tail(t), c)
         /\ ClassLast(t) => ClassLast(Tail(t))
         /\ ClassLast(t) /\ t[1] = "class" => ~Has(Tail(t), "class") /\ ~Has(Tail(t), "node")
<1>1. /\ Len(t) \in Nat \ {0} /\ Len(Tail(t)) = Len(t) - 1
      /\ \A i \in 1 .. Len(t) - 1 : Tail(t)[i] = t[i + 1]
      BY HeadTailProperties
<1>2. ASSUME NEW c PROVE Has(t, c) <=> t[1] = c \/ Has(Tail(t), c)
  <2>1. ASSUME NEW i \in 1 .. Len(t), t[i] = c PROVE t[1] = c \/ Has(Tail(t), c)
    <3>1. CASE i = 1
          BY <2>1, <3>1
    <3>2. CASE i # 1
      <4>1. i - 1 \in 1 .. Len(Tail(t)) /\ Tail(t)[i - 1] = c
            BY <1>1, <2>1, <3>2
      <4> QED
          BY <4>1 DEF Has
    <3> QED
        BY <3>1, <3>2
  <2>2. ASSUME t[1] = c PROVE Has(t, c)
    <3>1. 1 \in 1 .. Len(t)
          BY <1>1
    <3> QED
        BY <2>2, <3>1 DEF Has
  <2>3. ASSUME NEW i \in 1 .. Len(Tail(t)), Tail(t)[i] = c PROVE Has(t, c)
    <3>1. i + 1 \in 1 .. Len(t) /\ t[i + 1] = c
          BY <1>1, <2>3
    <3> QED
        BY <3>1 DEF Has
  <2> QED
      BY <2>1, <2>2, <2>3 DEF Has
<1>3. ASSUME ClassLast(t) PROVE ClassLast(Tail(t))
  <2> SUFFICES ASSUME NEW i \in 1 .. Len(Tail(t)), NEW j \in 1 .. Len(Tail(t)),
                      i < j, Tail(t)[i] = "class"
               PROVE  Tail(t)[j] \notin {"class", "node"}
      BY DEF ClassLast
  <2>1. i + 1 \in 1 .. Len(t) /\ j + 1 \in 1 .. Len(t) /\ i + 1 < j + 1
        BY <1>1
  <2>2. Tail(t)[i] = t[i + 1] /\ Tail(t)[j] = t[j + 1]
        BY <1>1
  <2> QED
      BY <1>3, <2>1, <2>2 DEF ClassLast
<1>4. ASSUME ClassLast(t), t[1] = "class", NEW i \in 1 .. Len(Tail(t))
      PROVE  Tail(t)[i] \notin {"class", "node"}
  <2>1. 1 \in 1 .. Len(t) /\ i + 1 \in 1 .. Len(t) /\ 1 < i + 1 /\ Tail(t)[i] = t[i + 1]
        BY <1>1
  <2> QED
      BY <1>4, <2>1 DEF ClassLast
<1> QED
    BY <1>2, <1>3, <1>4 DEF Has

\* A remove destroys the node and then the class; a probe that failed neither.
LEMMA RemoveStage ==
  ASSUME NEW n \in {"none", "there"}
  PROVE  Stage("releasing", RemoveCalls \o Managed, n, "class", TRUE)
<1> DEFINE t == RemoveCalls \o Managed
<1>1. Len(t) = 7 /\ t[2] = "node" /\ t[5] = "class" /\ t[6] = "gpio" /\ t[7] = "mdev"
      BY DEF RemoveCalls, Managed
<1>2. \A i \in 1 .. 4 : t[i] # "class"
      BY DEF RemoveCalls, Managed
<1> HIDE DEF t
<1>3. Has(t, "class") /\ Has(t, "node")
      BY <1>1 DEF Has
<1>4. ClassLast(t)
      BY <1>1, <1>2 DEF ClassLast
<1>5. Stage("releasing", t, n, "class", TRUE)
      BY <1>3, <1>4 DEF Stage
<1> QED
    BY <1>5 DEF t

LEMMA FailStage ==
  ASSUME NEW f \in Fails
  PROVE  Stage("releasing", ProbeErrors[f] \o Managed, "none", "null", FALSE)
<1> DEFINE p == ProbeErrors[f]
           t == p \o Managed
<1>1. /\ p \in Seq(Call) /\ Len(p) \in Nat
      /\ \A i \in 1 .. Len(p) : p[i] \in {"lt", "region", "cdev"}
  <2>1. p \in {<< >>, <<"lt">>, <<"region", "lt">>, <<"cdev", "region", "lt">>}
        BY DEF Fails, ProbeErrors
  <2> HIDE DEF p
  <2>2. CASE p = << >>
        BY <2>2 DEF Call
  <2>3. CASE p = <<"lt">>
        BY <2>3 DEF Call
  <2>4. CASE p = <<"region", "lt">>
        BY <2>4 DEF Call
  <2>5. CASE p = <<"cdev", "region", "lt">>
        BY <2>5 DEF Call
  <2> QED
      BY <2>1, <2>2, <2>3, <2>4, <2>5
<1> HIDE DEF p
<1>2. /\ t \in Seq(Call) /\ Len(t) = Len(p) + 2
      /\ \A i \in 1 .. Len(p) : t[i] = p[i]
      /\ t[Len(p) + 1] = "gpio" /\ t[Len(p) + 2] = "mdev"
      BY <1>1, ThenManaged, Zenon DEF t
<1> HIDE DEF t
<1>3. \A i \in 1 .. Len(t) : t[i] \notin {"class", "node"}
      BY <1>1, <1>2
<1>4. Stage("releasing", t, "none", "null", FALSE)
      BY <1>3 DEF Stage, ClassLast, Has
<1> QED
    BY <1>4 DEF t, p

\* A step that leaves the others alone, and one device in a stage.
LEMMA SoleDevice ==
  ASSUME NEW d \in Device, Lone(d), NEW p, NEW t, AllocInv, PlainInv,
         phase' = [phase EXCEPT ![d] = p], todo' = [todo EXCEPT ![d] = t],
         \A e \in Device \ {d} : node'[e] = "none",
         Stage(p, t, node'[d], class', classes')
  PROVE  SoleInv'
<1>1. phase'[d] = p /\ todo'[d] = t
      BY DEF AllocInv
<1>2. ASSUME NEW e \in Device \ {d} PROVE phase'[e] = "unbound" /\ node'[e] = "none"
  <2>1. phase'[e] = phase[e]
        BY DEF AllocInv
  <2> QED
      BY <2>1 DEF Lone
<1> QED
    BY <1>1, <1>2 DEF SoleInv, Lone

\* The same for a step that leaves all nodes alone.
LEMMA SoleSameNode ==
  ASSUME NEW d \in Device, Lone(d), NEW p, NEW t, AllocInv, PlainInv, UNCHANGED node,
         phase' = [phase EXCEPT ![d] = p], todo' = [todo EXCEPT ![d] = t],
         Stage(p, t, node[d], class', classes')
  PROVE  SoleInv'
BY SoleDevice DEF Lone

LEMMA SoleRemove ==
  ASSUME NEW d \in Device, Lone(d), Stage(phase[d], todo[d], node[d], class, classes),
         AllocInv, PlainInv, phase[d] = "bound", Remove(d),
         UNCHANGED <<node, class, classes>>
  PROVE  SoleInv'
<1>1. class = "class" /\ classes = TRUE /\ node[d] \in {"none", "there"}
      BY DEF Stage, PlainInv
<1>2. Stage("releasing", RemoveCalls \o Managed, node[d], class', classes')
      BY <1>1, RemoveStage
<1> QED
    BY <1>2, SoleSameNode DEF Remove, Begin

LEMMA SoleFail ==
  ASSUME NEW d \in Device, Lone(d), AllocInv, PlainInv, NEW f \in Fails, FailProbe(d, f),
         node[d] = "none", class' = "null", classes' = FALSE, UNCHANGED node
  PROVE  SoleInv'
<1>1. Stage("releasing", ProbeErrors[f] \o Managed, node[d], class', classes')
      BY FailStage
<1> QED
    BY <1>1, SoleSameNode DEF FailProbe, Begin

\* A step of a probe, or of a remove, of the device in use.
LEMMA SoleProbing ==
  ASSUME NEW d \in Device, Lone(d), Stage(phase[d], todo[d], node[d], class, classes),
         AllocInv, PlainInv,
         \/ Acquire(d) \/ CallFails(d) \/ CheckClass(d) \/ CreateClass(d) \/ TestClass(d)
         \/ CreateNode(d)
  PROVE  SoleInv'
<1>1. CASE Acquire(d)
  <2>1. PICK call \in Kept : At(d, "probing", call)
        BY <1>1 DEF Acquire, Kept
  <2>2. /\ phase[d] = "probing" /\ <<call, Tail(todo[d])[1]>> \in Follow
        /\ todo[d][1] = call
        BY <2>1, AtFirst, ProbeNext DEF Kept
  <2>3. Tail(todo[d])[1] \notin {"test", "node"}
        BY <2>2 DEF Follow, Kept
  <2>4. Stage("probing", Tail(todo[d]), node[d], class, classes)
        BY <2>2, <2>3 DEF Stage, Kept
  <2>5. todo' = [todo EXCEPT ![d] = Tail(todo[d])] /\ phase' = [phase EXCEPT ![d] = "probing"]
        BY <1>1, <2>2, Same DEF Acquire, Advance
  <2> QED
      BY <1>1, <2>4, <2>5, SoleSameNode DEF Acquire
<1>2. CASE CallFails(d)
  <2>1. PICK call \in Kept : At(d, "probing", call) /\ FailProbe(d, call)
        BY <1>2 DEF CallFails, Kept
  <2>2. phase[d] = "probing" /\ todo[d][1] = call
        BY <2>1, AtFirst
  <2>3. node[d] = "none" /\ class = "null" /\ classes = FALSE
        BY <2>2 DEF Stage, Kept
  <2> QED
      BY <1>2, <2>1, <2>3, SoleFail DEF CallFails, Kept, Fails
<1>3. CASE CheckClass(d)
  <2>1. phase[d] = "probing" /\ todo[d][1] = "check" /\ Tail(todo[d])[1] = "create"
        BY <1>3, AtFirst, ClassNext DEF CheckClass
  <2>2. class = "null"
        BY <2>1 DEF Stage
  <2>3. todo' = [todo EXCEPT ![d] = Tail(todo[d])] /\ phase' = [phase EXCEPT ![d] = "probing"]
        BY <1>3, <2>1, <2>2, Same DEF CheckClass
  <2>4. Stage("probing", Tail(todo[d]), node[d], class, classes)
        BY <2>1, <2>2 DEF Stage
  <2> QED
      BY <1>3, <2>3, <2>4, SoleSameNode DEF CheckClass
<1>4. CASE CreateClass(d)
  <2>0. /\ Sound("probing", todo[d], held[d]) /\ phase[d] = "probing"
        /\ todo[d] # << >> /\ todo[d][1] = "create"
        BY <1>4, AtFirst DEF CreateClass
  <2>1. /\ phase[d] = "probing" /\ todo[d][1] = "create"
        /\ <<"create", Tail(todo[d])[1]>> \in Follow
        BY <2>0, ProbeNext
  <2>2. Tail(todo[d])[1] = "test"
        BY <2>1 DEF Follow
  <2>3. node[d] = "none" /\ classes = FALSE
        BY <2>1 DEF Stage
  <2>4. \/ class' = "class" /\ classes' = TRUE
        \/ class' = "error" /\ classes' = FALSE
        BY <1>4, <2>3 DEF CreateClass
  <2>5. Stage("probing", Tail(todo[d]), node[d], class', classes')
        BY <2>2, <2>3, <2>4 DEF Stage
  <2>6. todo' = [todo EXCEPT ![d] = Tail(todo[d])] /\ phase' = [phase EXCEPT ![d] = "probing"]
        BY <1>4, <2>1, Same DEF CreateClass, Advance
  <2> QED
      BY <1>4, <2>5, <2>6, SoleSameNode DEF CreateClass
<1>5. CASE TestClass(d)
  <2>0. /\ Sound("probing", todo[d], held[d]) /\ phase[d] = "probing"
        /\ todo[d] # << >> /\ todo[d][1] = "test"
        BY <1>5, AtFirst DEF TestClass
  <2>1. /\ phase[d] = "probing" /\ todo[d][1] = "test"
        /\ <<"test", Tail(todo[d])[1]>> \in Follow
        BY <2>0, ProbeNext
  <2>2. CASE class = "error"
    <3>1. node[d] = "none" /\ classes = FALSE
          BY <2>1, <2>2 DEF Stage
    <3> QED
        BY <1>5, <2>2, <3>1, SoleFail DEF TestClass, Fails
  <2>3. CASE class # "error"
    <3>1. UNCHANGED <<node, class, classes>> /\ Advance(d)
          BY <1>5, <2>3 DEF TestClass
    <3>2. Tail(todo[d])[1] = "node"
          BY <2>1 DEF Follow
    <3>3. Stage("probing", Tail(todo[d]), node[d], class, classes)
          BY <2>1, <2>3, <3>2 DEF Stage
    <3>4. todo' = [todo EXCEPT ![d] = Tail(todo[d])] /\ phase' = [phase EXCEPT ![d] = "probing"]
          BY <2>1, <3>1, Same DEF Advance
    <3> QED
        BY <3>1, <3>3, <3>4, SoleSameNode
  <2> QED
      BY <2>2, <2>3
<1>6. CASE CreateNode(d)
  <2>1. phase[d] = "probing" /\ todo[d][1] = "node"
        BY <1>6, AtFirst DEF CreateNode
  <2>2. class = "class" /\ classes = TRUE /\ node[d] = "none"
        BY <2>1 DEF Stage
  <2>3. node' = [node EXCEPT ![d] = "there"] \/ UNCHANGED node
        BY <1>6 DEF CreateNode
  <2>4. node'[d] \in {"there", "none"} /\ \A e \in Device \ {d} : node'[e] = "none"
        BY <2>2, <2>3 DEF PlainInv, Lone
  <2>5. Stage("bound", << >>, node'[d], class', classes')
        BY <1>6, <2>2, <2>4 DEF CreateNode, Stage
  <2> QED
      BY <1>6, <2>4, <2>5, SoleDevice DEF CreateNode, Begin
<1> QED
    BY <1>1, <1>2, <1>3, <1>4, <1>5, <1>6

LEMMA SoleReleasing ==
  ASSUME NEW d \in Device, Lone(d), Stage(phase[d], todo[d], node[d], class, classes),
         AllocInv, PlainInv,
         Release(d) \/ DestroyNode(d) \/ DestroyClass(d) \/ Released(d)
  PROVE  SoleInv'
<1>1. CASE Release(d)
  <2>1. PICK call \in Kept : At(d, "releasing", call)
        BY <1>1 DEF Release, Kept
  <2>2. /\ phase[d] = "releasing" /\ todo[d] \in Seq(Call) /\ todo[d] # << >>
        /\ todo[d][1] \notin {"node", "class"}
        BY <2>1, AtFirst DEF Sound, Kept
  <2>3. Stage("releasing", Tail(todo[d]), node[d], class, classes)
        BY <2>2, HasTail DEF Stage
  <2>4. todo' = [todo EXCEPT ![d] = Tail(todo[d])] /\ phase' = [phase EXCEPT ![d] = "releasing"]
        BY <1>1, <2>2, Same DEF Release, Advance
  <2> QED
      BY <1>1, <2>3, <2>4, SoleSameNode DEF Release
<1>2. CASE DestroyNode(d)
  <2>1. /\ phase[d] = "releasing" /\ todo[d] \in Seq(Call) /\ todo[d] # << >>
        /\ todo[d][1] = "node"
        BY <1>2, AtFirst DEF DestroyNode, Sound
  <2>2. class # "error"
        BY <2>1 DEF Stage
  <2>3. /\ UNCHANGED <<class, classes>> /\ Advance(d)
        /\ node' = IF class = "class" /\ node[d] = "there"
                     THEN [node EXCEPT ![d] = "none"] ELSE node
        BY <1>2, <2>2 DEF DestroyNode
  <2>4. /\ node'[d] = "none"
        /\ \A e \in Device \ {d} : node'[e] = "none"
    <3>1. node[d] # "orphan" /\ (class = "null" => node[d] = "none")
          BY <2>1 DEF Stage
    <3>2. node[d] \in {"none", "there", "orphan"} /\ class \in {"null", "class", "error"}
          BY DEF PlainInv
    <3> QED
        BY <2>2, <2>3, <3>1, <3>2 DEF Lone, PlainInv
  <2>5. Stage("releasing", Tail(todo[d]), node'[d], class', classes')
        BY <2>1, <2>3, <2>4, HasTail DEF Stage
  <2>6. todo' = [todo EXCEPT ![d] = Tail(todo[d])] /\ phase' = [phase EXCEPT ![d] = "releasing"]
        BY <2>1, <2>3, Same DEF Advance
  <2> QED
      BY <2>4, <2>5, <2>6, SoleDevice
<1>3. CASE DestroyClass(d)
  <2>1. /\ phase[d] = "releasing" /\ todo[d] \in Seq(Call) /\ todo[d] # << >>
        /\ todo[d][1] = "class"
        BY <1>3, AtFirst DEF DestroyClass, Sound
  <2>2. /\ ClassLast(todo[d]) /\ class = "class"
        /\ ~Has(todo[d], "node") => node[d] = "none"
        BY <2>1, HasTail DEF Stage
  <2>3. /\ ~Has(Tail(todo[d]), "class") /\ ~Has(Tail(todo[d]), "node")
        /\ ClassLast(Tail(todo[d])) /\ node[d] = "none"
        BY <2>1, <2>2, HasTail
  <2>4. /\ class' = "null" /\ classes' = FALSE /\ Advance(d)
        /\ node' = [e \in Device |-> IF node[e] = "there" THEN "orphan" ELSE node[e]]
        BY <1>3, <2>2 DEF DestroyClass
  <2>5. node'[d] = "none" /\ \A e \in Device \ {d} : node'[e] = "none"
        BY <2>3, <2>4 DEF Lone
  <2>6. Stage("releasing", Tail(todo[d]), node'[d], class', classes')
        BY <2>3, <2>4, <2>5 DEF Stage
  <2>7. todo' = [todo EXCEPT ![d] = Tail(todo[d])] /\ phase' = [phase EXCEPT ![d] = "releasing"]
        BY <2>1, <2>4, Same DEF Advance
  <2> QED
      BY <2>5, <2>6, <2>7, SoleDevice
<1>4. CASE Released(d)
  <2>1. phase[d] = "releasing" /\ todo[d] = << >>
        BY <1>4 DEF Released
  <2>2. ~Has(<< >>, "class")
        BY DEF Has
  <2>3. Stage("unbound", << >>, node[d], class, classes)
        BY <2>1, <2>2, Zenon DEF Stage
  <2> QED
      BY <1>4, <2>3, SoleSameNode DEF Released, Begin
<1> QED
    BY <1>1, <1>2, <1>3, <1>4

\* While devices are in use one at a time, the next to be probed may be another.
LEMMA SoleStart ==
  ASSUME NEW d \in Device, Lone(d), Stage(phase[d], todo[d], node[d], class, classes),
         AllocInv, PlainInv, NEW x \in Device, StartProbe(x), ~shared'
  PROVE  SoleInv'
<1>1. phase[x] = "unbound" /\ \A e \in Device \ {x} : phase[e] = "unbound"
      BY DEF StartProbe
<1>2. phase[d] = "unbound"
      BY <1>1
<1>3. class = "null" /\ classes = FALSE /\ \A e \in Device : node[e] = "none"
      BY <1>2 DEF Stage, Lone
<1>4. Lone(x)
      BY <1>1, <1>3 DEF Lone
<1>5. ProbeCalls(x)[1] = "mdev"
      BY Zenon DEF ProbeCalls
<1>6. Stage("probing", ProbeCalls(x), node[x], class, classes)
      BY <1>3, <1>5 DEF Stage
<1> QED
    BY <1>4, <1>6, SoleSameNode DEF StartProbe, Begin

\* Only the device in use, or the next one, takes a step.
LEMMA SoleStep ==
  ASSUME NEW d \in Device, Lone(d), Stage(phase[d], todo[d], node[d], class, classes),
         AllocInv, PlainInv, NEW x \in Device, DeviceStep(x), ~shared'
  PROVE  SoleInv'
<1>1. CASE StartProbe(x)
      BY <1>1, SoleStart
<1>2. CASE ~StartProbe(x)
  <2>1. phase[x] # "unbound"
        BY <1>2 DEF DeviceStep, Acquire, CallFails, CheckClass, CreateClass, TestClass,
                    CreateNode, Unbind, Release, DestroyNode, DestroyClass, Released, At
  <2>2. x = d
        BY <2>1 DEF Lone
  <2>3. CASE Unbind(d)
        BY <2>3, SoleRemove DEF Unbind
  <2> QED
      BY <1>2, <2>2, <2>3, SoleProbing, SoleReleasing DEF DeviceStep
<1> QED
    BY <1>1, <1>2

LEMMA SoleSame ==
  ASSUME NEW d \in Device, Lone(d), Stage(phase[d], todo[d], node[d], class, classes),
         UNCHANGED <<phase, todo, node, class, classes>>
  PROVE  SoleInv'
BY DEF SoleInv, Lone

LEMMA SoleNext == AllocInv /\ PlainInv /\ SoleInv /\ [Next]_vars => SoleInv'
<1> SUFFICES ASSUME AllocInv, PlainInv, SoleInv, [Next]_vars, ~shared' PROVE SoleInv'
    BY DEF SoleInv
<1>0. ~shared
      BY DEF Next, ModuleStep, DeviceStep, Insmod, RegisterDriver, RegisterSelf,
             ChangeParameter, Rmmod, ExitSelf, DeleteSelf, UnregisterDriver, StartProbe,
             Acquire, CallFails, CheckClass, CreateClass, TestClass, CreateNode, Unbind,
             Release, DestroyNode, DestroyClass, Released, Open, Close
<1>d. PICK d \in Device : Lone(d) /\ Stage(phase[d], todo[d], node[d], class, classes)
      BY <1>0 DEF SoleInv
<1>1. CASE Insmod \/ RegisterDriver \/ RegisterSelf \/ ChangeParameter \/ Rmmod \/ ExitSelf
      BY <1>d, <1>1, SoleSame
      DEF Insmod, RegisterDriver, RegisterSelf, ChangeParameter, Rmmod, ExitSelf
<1>2. CASE DeleteSelf
  <2>1. CASE phase["self"] = "bound" /\ Remove("self")
    <3>1. d = "self"
          BY <1>d, <2>1 DEF Lone, Device
    <3> QED
        BY <1>d, <1>2, <2>1, <3>1, SoleRemove DEF DeleteSelf
  <2>2. CASE UNCHANGED <<phase, todo>>
        BY <1>d, <1>2, <2>2, SoleSame DEF DeleteSelf
  <2> QED
      BY <1>2, <2>1, <2>2 DEF DeleteSelf
<1>3. CASE UnregisterDriver
  <2>1. UNCHANGED <<node, classes>>
        BY <1>3 DEF UnregisterDriver
  <2>2. ASSUME NEW x \in Device, phase[x] = "bound", Remove(x), UNCHANGED class
        PROVE  SoleInv'
    <3>1. d = x
          BY <1>d, <2>2 DEF Lone
    <3> QED
        BY <1>d, <2>1, <2>2, <3>1, SoleRemove
  <2>3. ASSUME \A x \in Device : phase[x] = "unbound", class' = "null",
               UNCHANGED <<phase, todo>>
        PROVE  SoleInv'
    <3>1. class' = class
          BY <1>d, <2>3 DEF Stage
    <3> QED
        BY <1>d, <2>1, <2>3, <3>1, SoleSame
  <2> QED
      BY <1>3, <2>2, <2>3 DEF UnregisterDriver
<1>4. ASSUME NEW x \in Device, DeviceStep(x) PROVE SoleInv'
      BY <1>d, <1>4, SoleStep
<1>5. ASSUME NEW u \in User, Open(u) \/ Close(u) PROVE SoleInv'
      BY <1>d, <1>5, SoleSame DEF Open, Close
<1>6. CASE UNCHANGED vars
      BY <1>d, <1>6, SoleSame
<1> QED
    BY <1>1, <1>2, <1>3, <1>4, <1>5, <1>6 DEF Next, ModuleStep

\* While devices are in use one at a time, the class lives as long as the device that
\* made it and the node in it, and nothing is left when none is in use: for any number
\* of nodes, whichever calls fail, and whoever unbinds, loads and unloads.
THEOREM SoleCorrect == Spec => []SoleDeviceLeavesNothing
<1>1. AllocInv /\ SoleInv => SoleDeviceLeavesNothing
  <2> SUFFICES ASSUME AllocInv, SoleInv, ~shared
               PROVE  /\ classes = (class = "class")
                      /\ \A e \in Device :
                           /\ node[e] = "there" => class = "class"
                           /\ node[e] # "orphan"
                           /\ phase[e] = "unbound" => node[e] = "none"
                      /\ (\A e \in Device : phase[e] = "unbound") => class = "null"
      BY DEF SoleDeviceLeavesNothing
  <2>1. PICK d \in Device : Lone(d) /\ Stage(phase[d], todo[d], node[d], class, classes)
        BY DEF SoleInv
  <2>2. classes = (class = "class")
        BY <2>1, Zenon DEF Stage
  <2>3. /\ node[d] # "orphan"
        /\ phase[d] = "unbound" => (node[d] = "none" /\ class = "null")
        /\ node[d] = "there" => class = "class"
    <3>1. phase[d] \in {"unbound", "probing", "bound", "releasing"}
          BY DEF AllocInv, Sound
    <3> QED
        BY <2>1, <3>1 DEF Stage
  <2>4. \A e \in Device : e # d => (phase[e] = "unbound" /\ node[e] = "none")
        BY <2>1 DEF Lone
  <2> QED
      BY <2>2, <2>3, <2>4
<1> QED
    BY AllocInit, AllocNext, PlainInit, PlainNext, SoleInit, SoleNext, <1>1, PTL DEF Spec

=============================================================================
