--------------------------- MODULE CharDriverProofs ---------------------------
(***************************************************************************)
(* Theorems about CharDriver, for the three drivers and any set of users.  *)
(***************************************************************************)
EXTENDS CharDriver, FiniteSetTheorems, SequenceTheorems, TLAPS

USE DEF module, mutex, line, users, vars

Call == Fallible \cup {"mutex", "fsel", "off"}

-----------------------------------------------------------------------------
(* The lists of calls                                                        *)

\* A number for each call, increasing in the order in which init makes them.
\* "off" has that of its place in the list of mgpio_int's or of mgpio's exit.
Rank(d, c) ==
  CASE c \in {"map", "gpio"}               -> 1
    [] c = "direction"                     -> 2
    [] c = "off" /\ d = "mgpio_int"        -> 2
    [] c = "region"                        -> 3
    [] c = "cdev"                          -> 4
    [] c = "class"                         -> 5
    [] c = "device"                        -> 6
    [] c = "mutex"                         -> 7
    [] c = "fsel"                          -> 8
    [] OTHER                               -> 9

Rising(d, s)  == \A i, j \in 1 .. Len(s) : i < j => Rank(d, s[i]) < Rank(d, s[j])
Falling(d, s) == \A i, j \in 1 .. Len(s) : i < j => Rank(d, s[i]) > Rank(d, s[j])

LEMMA RankNat == \A d, c : Rank(d, c) \in Nat
BY DEF Rank

LEMMA InitTyped ==
  ASSUME NEW d \in Driver
  PROVE  InitCalls[d] \in Seq(Call) /\ Len(InitCalls[d]) \in Nat
<1>1. CASE d = "mydevice"
      BY <1>1 DEF InitCalls, MydeviceInit, Call, Fallible, Resource
<1>2. CASE d = "mgpio"
      BY <1>2 DEF InitCalls, MgpioInit, Call, Fallible, Resource
<1>3. CASE d = "mgpio_int"
      BY <1>3 DEF InitCalls, MgpioIntInit, Call, Fallible, Resource
<1> QED
    BY <1>1, <1>2, <1>3 DEF Driver

LEMMA InitRising ==
  ASSUME NEW d \in Driver
  PROVE  Rising(d, InitCalls[d])
<1>1. CASE d = "mydevice"
      BY <1>1 DEF InitCalls, MydeviceInit, Rising, Rank
<1>2. CASE d = "mgpio"
      BY <1>2 DEF InitCalls, MgpioInit, Rising, Rank
<1>3. CASE d = "mgpio_int"
      BY <1>3 DEF InitCalls, MgpioIntInit, Rising, Rank
<1> QED
    BY <1>1, <1>2, <1>3 DEF Driver

LEMMA InitMakes ==
  ASSUME NEW d \in Driver
  PROVE  Calls(InitCalls[d]) =
           CASE d = "mydevice" -> {"region", "cdev", "class", "device"}
             [] d = "mgpio" -> {"map", "region", "cdev", "class", "device", "mutex", "fsel"}
             [] d = "mgpio_int" -> {"gpio", "direction", "region", "cdev", "class", "device"}
<1>1. CASE d = "mydevice"
      BY <1>1 DEF InitCalls, MydeviceInit, Calls
<1>2. CASE d = "mgpio"
      BY <1>2 DEF InitCalls, MgpioInit, Calls
<1>3. CASE d = "mgpio_int"
      BY <1>3 DEF InitCalls, MgpioIntInit, Calls
<1> QED
    BY <1>1, <1>2, <1>3 DEF Driver

\* What an error path or an exit is to release, and in which order.
Unwinds(d, s, h) ==
  /\ s \in Seq(Call) /\ Falling(d, s)
  /\ Calls(s) \cap Resource = h

LEMMA ExitUnwinds ==
  ASSUME NEW d \in Driver
  PROVE  /\ Unwinds(d, ExitCalls[d], Owns(d))
         /\ d # "mydevice" => "off" \in Calls(ExitCalls[d])
<1> DEFINE s == ExitCalls[d]
<1>1. CASE d = "mydevice"
  <2>1. s = <<"device", "class", "cdev", "region">>
        BY <1>1 DEF ExitCalls, MydeviceExit
  <2>2. s \in Seq(Call)
        BY <2>1 DEF Call, Fallible, Resource
  <2>3. Falling(d, s)
        BY <2>1 DEF Falling, Rank
  <2>4. Calls(s) = {"device", "class", "cdev", "region"}
        BY <2>1 DEF Calls
  <2> QED
      BY <1>1, <2>2, <2>3, <2>4, InitMakes DEF Owns, Unwinds, Resource
<1>2. CASE d = "mgpio"
  <2>1. s = <<"off", "device", "class", "cdev", "region", "map">>
        BY <1>2 DEF ExitCalls, MgpioExit
  <2>2. s \in Seq(Call)
        BY <2>1 DEF Call, Fallible, Resource
  <2>3. Falling(d, s)
        BY <1>2, <2>1 DEF Falling, Rank
  <2>4. Calls(s) = {"off", "device", "class", "cdev", "region", "map"}
        BY <2>1 DEF Calls
  <2> QED
      BY <1>2, <2>2, <2>3, <2>4, InitMakes DEF Owns, Unwinds, Resource
<1>3. CASE d = "mgpio_int"
  <2>1. s = <<"device", "class", "cdev", "region", "off", "gpio">>
        BY <1>3 DEF ExitCalls, MgpioIntExit
  <2>2. s \in Seq(Call)
        BY <2>1 DEF Call, Fallible, Resource
  <2>3. Falling(d, s)
        BY <1>3, <2>1 DEF Falling, Rank
  <2>4. Calls(s) = {"device", "class", "cdev", "region", "off", "gpio"}
        BY <2>1 DEF Calls
  <2> QED
      BY <1>3, <2>2, <2>3, <2>4, InitMakes DEF Owns, Unwinds, Resource
<1> QED
    BY <1>1, <1>2, <1>3 DEF Driver

\* What a driver makes before it comes to the call c.
Below(d, c) == {r \in Owns(d) : Rank(d, r) < Rank(d, c)}

LEMMA MydeviceUnwinds ==
  ASSUME NEW c \in Fallible \cap Calls(InitCalls["mydevice"])
  PROVE  Unwinds("mydevice", OnError["mydevice"][c], Below("mydevice", c))
<1> DEFINE s == OnError["mydevice"][c]
<1>1. CASE c = "region"
  <2>1. s = << >>
        BY <1>1 DEF OnError, MydeviceErrors
  <2>2. s \in Seq(Call) /\ Falling("mydevice", s) /\ Calls(s) = {}
        BY <2>1 DEF Call, Fallible, Resource, Falling, Rank, Calls
  <2>3. Below("mydevice", c) = {}
        BY <1>1, InitMakes DEF Below, Owns, Resource, Rank, Driver
  <2> QED
      BY <2>2, <2>3 DEF Unwinds, Resource
<1>2. CASE c = "cdev"
  <2>1. s = <<"region">>
        BY <1>2 DEF OnError, MydeviceErrors
  <2>2. s \in Seq(Call) /\ Falling("mydevice", s) /\ Calls(s) = {"region"}
        BY <2>1 DEF Call, Fallible, Resource, Falling, Rank, Calls
  <2>3. Below("mydevice", c) = {"region"}
        BY <1>2, InitMakes DEF Below, Owns, Resource, Rank, Driver
  <2> QED
      BY <2>2, <2>3 DEF Unwinds, Resource
<1>3. CASE c = "class"
  <2>1. s = <<"cdev", "region">>
        BY <1>3 DEF OnError, MydeviceErrors
  <2>2. s \in Seq(Call) /\ Falling("mydevice", s) /\ Calls(s) = {"cdev", "region"}
        BY <2>1 DEF Call, Fallible, Resource, Falling, Rank, Calls
  <2>3. Below("mydevice", c) = {"cdev", "region"}
        BY <1>3, InitMakes DEF Below, Owns, Resource, Rank, Driver
  <2> QED
      BY <2>2, <2>3 DEF Unwinds, Resource
<1>4. CASE c = "device"
  <2>1. s = <<"class", "cdev", "region">>
        BY <1>4 DEF OnError, MydeviceErrors
  <2>2. s \in Seq(Call) /\ Falling("mydevice", s) /\ Calls(s) = {"class", "cdev", "region"}
        BY <2>1 DEF Call, Fallible, Resource, Falling, Rank, Calls
  <2>3. Below("mydevice", c) = {"class", "cdev", "region"}
        BY <1>4, InitMakes DEF Below, Owns, Resource, Rank, Driver
  <2> QED
      BY <2>2, <2>3 DEF Unwinds, Resource
<1> QED
    BY <1>1, <1>2, <1>3, <1>4, InitMakes DEF Driver, Fallible, Resource

LEMMA MgpioIntUnwinds ==
  ASSUME NEW c \in Fallible \cap Calls(InitCalls["mgpio_int"])
  PROVE  Unwinds("mgpio_int", OnError["mgpio_int"][c], Below("mgpio_int", c))
<1> DEFINE s == OnError["mgpio_int"][c]
<1>1. CASE c = "gpio"
  <2>1. s = << >>
        BY <1>1 DEF OnError, MgpioIntErrors
  <2>2. s \in Seq(Call) /\ Falling("mgpio_int", s) /\ Calls(s) = {}
        BY <2>1 DEF Call, Fallible, Resource, Falling, Rank, Calls
  <2>3. Below("mgpio_int", c) = {}
        BY <1>1, InitMakes DEF Below, Owns, Resource, Rank, Driver
  <2> QED
      BY <2>2, <2>3 DEF Unwinds, Resource
<1>2. CASE c = "direction"
  <2>1. s = <<"gpio">>
        BY <1>2 DEF OnError, MgpioIntErrors
  <2>2. s \in Seq(Call) /\ Falling("mgpio_int", s) /\ Calls(s) = {"gpio"}
        BY <2>1 DEF Call, Fallible, Resource, Falling, Rank, Calls
  <2>3. Below("mgpio_int", c) = {"gpio"}
        BY <1>2, InitMakes DEF Below, Owns, Resource, Rank, Driver
  <2> QED
      BY <2>2, <2>3 DEF Unwinds, Resource
<1>3. CASE c = "region"
  <2>1. s = <<"gpio">>
        BY <1>3 DEF OnError, MgpioIntErrors
  <2>2. s \in Seq(Call) /\ Falling("mgpio_int", s) /\ Calls(s) = {"gpio"}
        BY <2>1 DEF Call, Fallible, Resource, Falling, Rank, Calls
  <2>3. Below("mgpio_int", c) = {"gpio"}
        BY <1>3, InitMakes DEF Below, Owns, Resource, Rank, Driver
  <2> QED
      BY <2>2, <2>3 DEF Unwinds, Resource
<1>4. CASE c = "cdev"
  <2>1. s = <<"region", "gpio">>
        BY <1>4 DEF OnError, MgpioIntErrors
  <2>2. s \in Seq(Call) /\ Falling("mgpio_int", s) /\ Calls(s) = {"region", "gpio"}
        BY <2>1 DEF Call, Fallible, Resource, Falling, Rank, Calls
  <2>3. Below("mgpio_int", c) = {"region", "gpio"}
        BY <1>4, InitMakes DEF Below, Owns, Resource, Rank, Driver
  <2> QED
      BY <2>2, <2>3 DEF Unwinds, Resource
<1>5. CASE c = "class"
  <2>1. s = <<"cdev", "region", "gpio">>
        BY <1>5 DEF OnError, MgpioIntErrors
  <2>2. s \in Seq(Call) /\ Falling("mgpio_int", s) /\ Calls(s) = {"cdev", "region", "gpio"}
        BY <2>1 DEF Call, Fallible, Resource, Falling, Rank, Calls
  <2>3. Below("mgpio_int", c) = {"cdev", "region", "gpio"}
        BY <1>5, InitMakes DEF Below, Owns, Resource, Rank, Driver
  <2> QED
      BY <2>2, <2>3 DEF Unwinds, Resource
<1>6. CASE c = "device"
  <2>1. s = <<"class", "cdev", "region", "gpio">>
        BY <1>6 DEF OnError, MgpioIntErrors
  <2>2. s \in Seq(Call) /\ Falling("mgpio_int", s) /\ Calls(s) = {"class", "cdev", "region", "gpio"}
        BY <2>1 DEF Call, Fallible, Resource, Falling, Rank, Calls
  <2>3. Below("mgpio_int", c) = {"class", "cdev", "region", "gpio"}
        BY <1>6, InitMakes DEF Below, Owns, Resource, Rank, Driver
  <2> QED
      BY <2>2, <2>3 DEF Unwinds, Resource
<1> QED
    BY <1>1, <1>2, <1>3, <1>4, <1>5, <1>6, InitMakes DEF Driver, Fallible, Resource

\* The labels of mgpio_init from the l-th on.
LEMMA MgpioFrom ==
  ASSUME NEW l \in 1 .. 4
  PROVE  /\ SubSeq(MgpioUnwind, l, 4) \in Seq(Call)
         /\ Falling("mgpio", SubSeq(MgpioUnwind, l, 4))
         /\ Calls(SubSeq(MgpioUnwind, l, 4)) = {MgpioUnwind[i] : i \in l .. 4}
<1> DEFINE U == MgpioUnwind
           s == SubSeq(U, l, 4)
<1>1. U = <<"class", "cdev", "region", "map">>
      BY DEF MgpioUnwind
<1>2. /\ Falling("mgpio", U) /\ Len(U) = 4
      /\ \A i \in 1 .. 4 : U[i] \in Call
      BY <1>1 DEF Call, Fallible, Resource, Falling, Rank
<1> HIDE DEF U
<1>3. /\ s \in Seq(Call) /\ Len(s) = 4 - l + 1
      /\ \A i \in 1 .. 4 - l + 1 : s[i] = U[l + i - 1]
  <2>1. \A i \in l .. 4 : U[i] \in Call
        BY <1>2
  <2> QED
      BY <2>1, SubSeqProperties
<1> HIDE DEF s
<1>4. Falling("mgpio", s)
      BY <1>2, <1>3 DEF Falling
<1>5. Calls(s) = {U[i] : i \in l .. 4}
  <2>1. \A i \in 1 .. Len(s) : l + i - 1 \in l .. 4
        BY <1>3
  <2>2. \A i \in l .. 4 : i - l + 1 \in 1 .. Len(s) /\ s[i - l + 1] = U[i]
    <3> TAKE i \in l .. 4
    <3>1. i - l + 1 \in 1 .. 4 - l + 1 /\ l + (i - l + 1) - 1 = i
          OBVIOUS
    <3> QED
        BY <1>3, <3>1
  <2>3. \A c : c \in Calls(s) => c \in {U[i] : i \in l .. 4}
        BY <1>3, <2>1 DEF Calls
  <2>4. \A c : c \in {U[i] : i \in l .. 4} => c \in Calls(s)
        BY <2>2 DEF Calls
  <2> QED
      BY <2>3, <2>4
<1> QED
    BY <1>3, <1>4, <1>5 DEF s, U

LEMMA MgpioUnwinds ==
  ASSUME NEW c \in Fallible \cap Calls(InitCalls["mgpio"])
  PROVE  Unwinds("mgpio", OnError["mgpio"][c], Below("mgpio", c))
<1> DEFINE s == OnError["mgpio"][c]
<1>0. /\ \A i \in 1 .. 4 : MgpioUnwind[i] = <<"class", "cdev", "region", "map">>[i]
      BY DEF MgpioUnwind
<1>1. CASE c = "map"
  <2>1. s = << >>
        BY <1>1 DEF OnError, MgpioErrors
  <2>2. s \in Seq(Call) /\ Falling("mgpio", s) /\ Calls(s) = {}
        BY <2>1 DEF Falling, Calls
  <2>3. Below("mgpio", c) = {}
        BY <1>1, InitMakes DEF Below, Owns, Resource, Rank, Driver
  <2> QED
      BY <2>2, <2>3 DEF Unwinds
<1>2. CASE c = "region"
  <2>1. s = SubSeq(MgpioUnwind, 4, 4)
        BY <1>2 DEF OnError, MgpioErrors
  <2>2. s \in Seq(Call) /\ Falling("mgpio", s) /\ Calls(s) = {MgpioUnwind[i] : i \in 4 .. 4}
        BY <2>1, MgpioFrom
  <2>3. {MgpioUnwind[i] : i \in 4 .. 4} = {"map"}
        BY DEF MgpioUnwind
  <2>4. Below("mgpio", c) = {"map"}
        BY <1>2, InitMakes DEF Below, Owns, Resource, Rank, Driver
  <2> QED
      BY <2>2, <2>3, <2>4 DEF Unwinds, Resource
<1>3. CASE c = "cdev"
  <2>1. s = SubSeq(MgpioUnwind, 3, 4)
        BY <1>3 DEF OnError, MgpioErrors
  <2>2. s \in Seq(Call) /\ Falling("mgpio", s) /\ Calls(s) = {MgpioUnwind[i] : i \in 3 .. 4}
        BY <2>1, MgpioFrom
  <2>3. {MgpioUnwind[i] : i \in 3 .. 4} = {"region", "map"}
        BY DEF MgpioUnwind
  <2>4. Below("mgpio", c) = {"region", "map"}
        BY <1>3, InitMakes DEF Below, Owns, Resource, Rank, Driver
  <2> QED
      BY <2>2, <2>3, <2>4 DEF Unwinds, Resource
<1>4. CASE c = "class"
  <2>1. s = SubSeq(MgpioUnwind, 2, 4)
        BY <1>4 DEF OnError, MgpioErrors
  <2>2. s \in Seq(Call) /\ Falling("mgpio", s) /\ Calls(s) = {MgpioUnwind[i] : i \in 2 .. 4}
        BY <2>1, MgpioFrom
  <2>3. {MgpioUnwind[i] : i \in 2 .. 4} = {"cdev", "region", "map"}
        BY DEF MgpioUnwind
  <2>4. Below("mgpio", c) = {"cdev", "region", "map"}
        BY <1>4, InitMakes DEF Below, Owns, Resource, Rank, Driver
  <2> QED
      BY <2>2, <2>3, <2>4 DEF Unwinds, Resource
<1>5. CASE c = "device"
  <2>1. s = SubSeq(MgpioUnwind, 1, 4)
        BY <1>5 DEF OnError, MgpioErrors
  <2>2. s \in Seq(Call) /\ Falling("mgpio", s) /\ Calls(s) = {MgpioUnwind[i] : i \in 1 .. 4}
        BY <2>1, MgpioFrom
  <2>3. {MgpioUnwind[i] : i \in 1 .. 4} = {"class", "cdev", "region", "map"}
        BY DEF MgpioUnwind
  <2>4. Below("mgpio", c) = {"class", "cdev", "region", "map"}
        BY <1>5, InitMakes DEF Below, Owns, Resource, Rank, Driver
  <2> QED
      BY <2>2, <2>3, <2>4 DEF Unwinds, Resource
<1> QED
    BY <1>1, <1>2, <1>3, <1>4, <1>5, InitMakes DEF Driver, Fallible, Resource

LEMMA ErrorUnwinds ==
  ASSUME NEW d \in Driver, NEW c \in Fallible \cap Calls(InitCalls[d])
  PROVE  Unwinds(d, OnError[d][c], Below(d, c))
BY MydeviceUnwinds, MgpioUnwinds, MgpioIntUnwinds DEF Driver

LEMMA Popped ==
  ASSUME NEW t \in Seq(Call), t # << >>
  PROVE  /\ Len(t) \in Nat \ {0} /\ Head(t) = t[1] /\ 1 \in 1 .. Len(t)
         /\ Tail(t) \in Seq(Call) /\ Len(Tail(t)) = Len(t) - 1
         /\ \A i \in 1 .. Len(Tail(t)) : Tail(t)[i] = t[i + 1]
         /\ Calls(t) = Calls(Tail(t)) \cup {Head(t)}
<1>1. /\ Len(t) \in Nat \ {0} /\ Head(t) = t[1]
      /\ Tail(t) \in Seq(Call) /\ Len(Tail(t)) = Len(t) - 1
      /\ \A i \in 1 .. Len(Tail(t)) : Tail(t)[i] = t[i + 1]
      BY HeadTailProperties, EmptySeq
<1>2. 1 \in 1 .. Len(t)
      BY <1>1
<1> DEFINE r == Tail(t)
<1>3. /\ Len(r) = Len(t) - 1 /\ \A i \in 1 .. Len(r) : r[i] = t[i + 1]
      BY <1>1
<1> HIDE DEF r
<1>4. ASSUME NEW c \in Calls(t) PROVE c \in Calls(r) \cup {t[1]}
  <2>1. PICK i \in 1 .. Len(t) : c = t[i]
        BY DEF Calls
  <2>2. CASE i = 1
        BY <2>1, <2>2
  <2>3. CASE i # 1
    <3>1. i - 1 \in 1 .. Len(r) /\ (i - 1) + 1 = i
          BY <1>1, <1>3, <2>1, <2>3
    <3> QED
        BY <1>3, <2>1, <3>1 DEF Calls
  <2> QED
      BY <2>2, <2>3
<1>5. ASSUME NEW c \in Calls(r) PROVE c \in Calls(t)
  <2>1. PICK i \in 1 .. Len(r) : c = r[i]
        BY DEF Calls
  <2>2. i + 1 \in 1 .. Len(t)
        BY <1>1, <1>3, <2>1
  <2> QED
      BY <1>3, <2>1, <2>2 DEF Calls
<1>6. t[1] \in Calls(t)
      BY <1>2 DEF Calls
<1>7. Calls(t) = Calls(r) \cup {t[1]}
      BY <1>4, <1>5, <1>6
<1> QED
    BY <1>1, <1>2, <1>7 DEF r

\* Releasing the first call's resource leaves a list that releases what is left.
LEMMA FallingTail ==
  ASSUME NEW d, NEW t \in Seq(Call), t # << >>, Falling(d, t)
  PROVE  /\ Falling(d, Tail(t)) /\ Head(t) \notin Calls(Tail(t))
         /\ \A c \in Calls(Tail(t)) : Rank(d, c) < Rank(d, Head(t))
<1> DEFINE r == Tail(t)
<1>1. /\ Len(t) \in Nat \ {0} /\ Head(t) = t[1] /\ 1 \in 1 .. Len(t)
      /\ Len(r) = Len(t) - 1 /\ \A i \in 1 .. Len(r) : r[i] = t[i + 1]
      BY Popped
<1> HIDE DEF r
<1>2. \A i \in 1 .. Len(r) : i + 1 \in 1 .. Len(t) /\ 1 < i + 1
      BY <1>1
<1>3. Falling(d, r)
  <2> SUFFICES ASSUME NEW i \in 1 .. Len(r), NEW j \in 1 .. Len(r), i < j
               PROVE  Rank(d, r[i]) > Rank(d, r[j])
      BY DEF Falling
  <2>1. i + 1 \in 1 .. Len(t) /\ j + 1 \in 1 .. Len(t) /\ i + 1 < j + 1
        BY <1>2
  <2> QED
      BY <1>1, <2>1 DEF Falling
<1>4. ASSUME NEW c \in Calls(r) PROVE Rank(d, c) < Rank(d, t[1])
  <2>1. PICK i \in 1 .. Len(r) : c = r[i]
        BY DEF Calls
  <2>2. i + 1 \in 1 .. Len(t) /\ 1 < i + 1 /\ c = t[i + 1]
        BY <1>1, <1>2, <2>1
  <2> QED
      BY <1>1, <2>2, RankNat DEF Falling
<1>5. t[1] \notin Calls(r)
      BY <1>4, RankNat
<1> QED
    BY <1>1, <1>3, <1>4, <1>5 DEF r

\* No call of init that comes after device_create can fail.
LEMMA AfterDevice ==
  ASSUME NEW d \in Driver, NEW i \in 1 .. Len(InitCalls[d]), NEW j \in 1 .. Len(InitCalls[d]),
         InitCalls[d][i] = "device", i < j
  PROVE  InitCalls[d][j] \notin Fallible
<1>1. Rank(d, InitCalls[d][i]) = 6
      BY DEF Rank
<1>2. Rank(d, InitCalls[d][i]) < Rank(d, InitCalls[d][j])
      BY InitRising DEF Rising
<1>3. \A c \in Fallible : Rank(d, c) <= 6
      BY DEF Fallible, Resource, Rank
<1> QED
    BY <1>1, <1>2, <1>3, RankNat

-----------------------------------------------------------------------------
(* The module                                                                *)

\* What has been made when n calls of init have returned.
Made(d, n) == {r \in Resource : \E i \in 1 .. n : InitCalls[d][i] = r}

LEMMA MadeNone == \A d : Made(d, 0) = {}
BY DEF Made

LEMMA MadeAll == \A d : Made(d, Len(InitCalls[d])) = Owns(d)
BY DEF Made, Owns, Calls

LEMMA MadeNext ==
  ASSUME NEW d, NEW n \in Nat
  PROVE  Made(d, n + 1) = Made(d, n) \cup ({InitCalls[d][n + 1]} \cap Resource)
<1>1. 1 .. n + 1 = (1 .. n) \cup {n + 1}
      OBVIOUS
<1> QED
    BY <1>1 DEF Made

LEMMA MadeBelow ==
  ASSUME NEW d \in Driver, NEW n \in Nat, n + 1 <= Len(InitCalls[d])
  PROVE  Made(d, n) = Below(d, InitCalls[d][n + 1])
<1> DEFINE I == InitCalls[d]
<1>1. Rising(d, I) /\ Len(I) \in Nat /\ n + 1 \in 1 .. Len(I)
      BY InitRising, InitTyped
<1> HIDE DEF I
<1>2. ASSUME NEW i \in 1 .. Len(I) PROVE i <= n <=> Rank(d, I[i]) < Rank(d, I[n + 1])
  <2>1. i < n + 1 \/ i = n + 1 \/ n + 1 < i
        BY <1>1
  <2> QED
      BY <1>1, <2>1, RankNat DEF Rising
<1>3. ASSUME NEW r \in Made(d, n) PROVE r \in Below(d, I[n + 1])
  <2>1. PICK i \in 1 .. n : I[i] = r
        BY DEF Made, I
  <2>2. i \in 1 .. Len(I) /\ i <= n
        BY <1>1
  <2>3. r \in Owns(d)
        BY <2>1, <2>2 DEF Made, Owns, Calls, I
  <2> QED
      BY <1>2, <2>1, <2>2, <2>3 DEF Below
<1>4. ASSUME NEW r \in Below(d, I[n + 1]) PROVE r \in Made(d, n)
  <2>1. r \in Resource /\ Rank(d, r) < Rank(d, I[n + 1])
        BY DEF Below, Owns
  <2>2. PICK i \in 1 .. Len(I) : I[i] = r
        BY DEF Below, Owns, Calls, I
  <2>3. i \in 1 .. n
        BY <1>2, <2>1, <2>2
  <2> QED
      BY <2>1, <2>2, <2>3 DEF Made, I
<1> QED
    BY <1>3, <1>4 DEF I

\* n calls of init have returned.
Reached(n) ==
  /\ Len(todo) = Len(InitCalls[driver]) - n
  /\ \A i \in 1 .. Len(todo) : todo[i] = InitCalls[driver][n + i]
  /\ held = Made(driver, n)

ModuleInv ==
  /\ mod = "coming" => \E n \in 0 .. Len(InitCalls[driver]) : Reached(n)
  /\ mod \in {"failing", "going"} => Falling(driver, todo) /\ Calls(todo) \cap Resource = held
  /\ mod = "failing" => "device" \notin held
  /\ mod = "live" => todo = << >> /\ held = Owns(driver)
  /\ mod \in {"absent", "removed"} => todo = << >> /\ held = {}

LEMMA ModuleInit == Init => ModuleInv
BY DEF Init, ModuleInv

\* The call that comes next is one of the driver's.
LEMMA Reaching ==
  ASSUME TypeOK, ModuleInv, mod = "coming", todo # << >>
  PROVE  \E n \in Nat :
           /\ n + 1 <= Len(InitCalls[driver]) /\ n \in 0 .. Len(InitCalls[driver])
           /\ Len(InitCalls[driver]) \in Nat
           /\ Reached(n) /\ Head(todo) = InitCalls[driver][n + 1]
<1>1. PICK n \in 0 .. Len(InitCalls[driver]) : Reached(n)
      BY DEF ModuleInv
<1>2. Len(InitCalls[driver]) \in Nat /\ todo \in Seq(Call)
      BY InitTyped DEF TypeOK, Call
<1>3. Len(todo) \in Nat \ {0} /\ Head(todo) = todo[1] /\ 1 \in 1 .. Len(todo)
      BY <1>2, Popped
<1>4. Head(todo) = InitCalls[driver][n + 1] /\ n + 1 <= Len(InitCalls[driver]) /\ n \in Nat
      BY <1>1, <1>2, <1>3 DEF Reached
<1> QED
    BY <1>1, <1>2, <1>4

LEMMA Proceeds ==
  ASSUME TypeOK, ModuleInv, mod = "coming", todo # << >>,
         UNCHANGED <<driver, mod>>, todo' = Tail(todo),
         held' = held \cup ({Head(todo)} \cap Resource)
  PROVE  ModuleInv'
<1>1. PICK n \in Nat :
           /\ n + 1 <= Len(InitCalls[driver]) /\ n \in 0 .. Len(InitCalls[driver])
           /\ Len(InitCalls[driver]) \in Nat
           /\ Reached(n) /\ Head(todo) = InitCalls[driver][n + 1]
      BY Reaching
<1>2. todo \in Seq(Call)
      BY DEF TypeOK, Call
<1>3. /\ Len(todo) \in Nat \ {0} /\ Len(todo') = Len(todo) - 1
      /\ \A i \in 1 .. Len(todo') : todo'[i] = todo[i + 1]
      BY <1>2, Popped
<1>4. n + 1 \in 0 .. Len(InitCalls[driver])
      BY <1>1
<1>5. held' = Made(driver, n + 1)
      BY <1>1, MadeNext DEF Reached
<1>6. Len(todo') = Len(InitCalls[driver]) - (n + 1)
      BY <1>1, <1>3 DEF Reached
<1>7. ASSUME NEW i \in 1 .. Len(todo') PROVE todo'[i] = InitCalls[driver][(n + 1) + i]
  <2>1. i + 1 \in 1 .. Len(todo) /\ n + (i + 1) = (n + 1) + i
        BY <1>3
  <2> QED
      BY <1>1, <1>3, <2>1 DEF Reached
<1>8. Reached(n + 1)'
      BY <1>5, <1>6, <1>7 DEF Reached
<1> QED
    BY <1>4, <1>8 DEF ModuleInv

LEMMA ModuleNext == TypeOK /\ ModuleInv /\ [Next]_vars => ModuleInv'
<1> SUFFICES ASSUME TypeOK, ModuleInv, [Next]_vars PROVE ModuleInv'
    OBVIOUS
<1>t. driver \in Driver /\ todo \in Seq(Call) /\ held \in SUBSET Resource
      BY DEF TypeOK, Call
<1>1. CASE Insmod
  <2>1. /\ mod' = "coming" /\ todo' = InitCalls[driver] /\ driver' = driver /\ held' = {}
        BY <1>1 DEF Insmod, ModuleInv
  <2>2. 0 \in 0 .. Len(InitCalls[driver]) /\ Len(InitCalls[driver]) \in Nat
        BY <1>t, InitTyped
  <2>3. \A i \in 1 .. Len(todo') : todo'[i] = InitCalls[driver][0 + i]
        BY <2>1
  <2>4. Reached(0)'
        BY <2>1, <2>2, <2>3, MadeNone DEF Reached
  <2> QED
      BY <2>1, <2>2, <2>4 DEF ModuleInv
<1>2. CASE Acquire
      BY <1>2, Proceeds DEF Acquire
<1>3. CASE DirectionOutput \/ InitMutex \/ AsOutput
  <2>1. Head(todo) \notin Resource
        BY <1>3 DEF DirectionOutput, InitMutex, AsOutput, Resource
  <2> QED
      BY <1>3, <2>1, Proceeds DEF DirectionOutput, InitMutex, AsOutput
<1>4. CASE CallFails
  <2>1. PICK n \in Nat :
           /\ n + 1 <= Len(InitCalls[driver]) /\ n \in 0 .. Len(InitCalls[driver])
           /\ Len(InitCalls[driver]) \in Nat
           /\ Reached(n) /\ Head(todo) = InitCalls[driver][n + 1]
        BY <1>4, Reaching DEF CallFails
  <2> DEFINE c == Head(todo)
  <2>2. c \in Fallible \cap Calls(InitCalls[driver])
        BY <1>4, <2>1 DEF CallFails, Calls
  <2>3. held = Below(driver, c)
        BY <1>t, <2>1, MadeBelow DEF Reached
  <2>4. Unwinds(driver, OnError[driver][c], held)
        BY <1>t, <2>2, <2>3, ErrorUnwinds
  <2>5. "device" \notin held
    <3>1. Rank(driver, "device") = 6 /\ Rank(driver, c) <= 6
          BY <2>2 DEF Rank, Fallible, Resource
    <3> QED
        BY <2>3, <3>1, RankNat DEF Below
  <2>6. /\ mod' = "failing" /\ todo' = OnError[driver][c] /\ driver' = driver /\ held' = held
        BY <1>4 DEF CallFails
  <2> QED
      BY <2>4, <2>5, <2>6 DEF ModuleInv, Unwinds
<1>5. CASE Loaded
  <2>1. PICK n \in 0 .. Len(InitCalls[driver]) : Reached(n)
        BY <1>5 DEF Loaded, ModuleInv
  <2>2. n = Len(InitCalls[driver])
    <3>1. Len(todo) = 0 /\ Len(InitCalls[driver]) \in Nat
          BY <1>t, <1>5, InitTyped DEF Loaded
    <3> QED
        BY <2>1, <3>1 DEF Reached
  <2>3. held = Owns(driver)
        BY <2>1, <2>2, MadeAll DEF Reached
  <2> QED
      BY <1>5, <2>3 DEF Loaded, ModuleInv
<1>6. CASE Rmmod
  <2>1. Unwinds(driver, ExitCalls[driver], held)
        BY <1>t, <1>6, ExitUnwinds DEF Rmmod, ModuleInv
  <2> QED
      BY <1>6, <2>1 DEF Rmmod, ModuleInv, Unwinds
<1>7. CASE Release
  <2>1. todo # << >> /\ Falling(driver, todo) /\ Calls(todo) \cap Resource = held
        BY <1>7 DEF Release, ModuleInv
  <2>2. /\ Calls(todo) = Calls(Tail(todo)) \cup {Head(todo)}
        /\ Falling(driver, Tail(todo)) /\ Head(todo) \notin Calls(Tail(todo))
        BY <1>t, <2>1, Popped, FallingTail
  <2> QED
      BY <1>7, <2>1, <2>2 DEF Release, ModuleInv
<1>8. CASE SwitchOff
  <2>1. todo # << >> /\ Falling(driver, todo) /\ Calls(todo) \cap Resource = held
        BY <1>8 DEF SwitchOff, ModuleInv
  <2>2. Calls(todo) = Calls(Tail(todo)) \cup {Head(todo)} /\ Falling(driver, Tail(todo))
        BY <1>t, <2>1, Popped, FallingTail
  <2>3. Head(todo) \notin Resource
        BY <1>8 DEF SwitchOff, Resource
  <2> QED
      BY <1>8, <2>1, <2>2, <2>3 DEF SwitchOff, ModuleInv
<1>9. CASE Unloaded
  <2>1. Calls(todo) = {}
        BY <1>9 DEF Unloaded, Calls
  <2> QED
      BY <1>9, <2>1 DEF Unloaded, ModuleInv
<1>10. ASSUME UNCHANGED <<driver, module>> PROVE ModuleInv'
      BY <1>10 DEF ModuleInv, Reached
<1>11. ASSUME NEW u \in User, FileStep(u) PROVE UNCHANGED <<driver, module>>
      BY <1>11 DEF FileStep, Open, Close, ReadGreeting, ReadState, Write, WriteStep,
                   TakeMutex, Sleep, SetLine, StoreState, Unlock
<1> QED
    BY <1>1, <1>2, <1>3, <1>4, <1>5, <1>6, <1>7, <1>8, <1>9, <1>10, <1>11
    DEF Next, InitStep, ExitStep

-----------------------------------------------------------------------------
(* Open files                                                                *)

Opened == {u \in User : pc[u] # "closed"}

\* The reference count is that of the open files; and a file is open only in a
\* module that is in use, or whose load cannot fail any more.
FileInv ==
  /\ refs = References * Cardinality(Opened)
  /\ Opened # {} => /\ mod \in {"coming", "live"}
                    /\ mod = "coming" => Calls(todo) \cap Fallible = {}

LEMMA FileInit == Init => FileInv
<1> SUFFICES ASSUME Init PROVE FileInv
    OBVIOUS
<1>1. Opened = {}
      BY DEF Init, Opened
<1> QED
    BY <1>1, FS_EmptySet DEF Init, FileInv, References

LEMMA OpenedCount ==
  IsFiniteSet(Opened) /\ Cardinality(Opened) \in Nat /\ References \in {1, 2}
<1>1. IsFiniteSet(Opened)
      BY DriverAssumption, FS_Subset DEF Opened
<1> QED
    BY <1>1, FS_CardinalityType DEF References

\* mutex_init wakes sleepers and changes no other control point.
LEMMA AwakeMoves ==
  ASSUME TypeOK, InitMutex
  PROVE  /\ pc' \in [User -> {"closed", "open", "lock", "wait", "section", "stored", "unlock"}]
         /\ \A u \in User : pc'[u] = pc[u] \/ (pc[u] = "wait" /\ pc'[u] = "lock")
<1>1. PICK awake \in SUBSET {u \in User : pc[u] = "wait"} :
        pc' = [u \in User |-> IF u \in awake THEN "lock" ELSE pc[u]]
      BY Zenon DEF InitMutex
<1>2. \A u \in awake : pc[u] = "wait"
      BY <1>1
<1> QED
    BY <1>1, <1>2 DEF TypeOK

\* When the device can be found, all of init's calls that may fail have returned.
LEMMA DeviceMade ==
  ASSUME TypeOK, ModuleInv, "device" \in held, mod # "going"
  PROVE  mod \in {"coming", "live"} /\ (mod = "coming" => Calls(todo) \cap Fallible = {})
<1>1. mod \in {"coming", "live"}
      BY DEF ModuleInv, TypeOK
<1>2. ASSUME mod = "coming", NEW c \in Calls(todo) PROVE c \notin Fallible
  <2>1. PICK n \in 0 .. Len(InitCalls[driver]) : Reached(n)
        BY <1>2 DEF ModuleInv
  <2>2. driver \in Driver /\ Len(InitCalls[driver]) \in Nat
        BY InitTyped DEF TypeOK
  <2>3. PICK i \in 1 .. n : InitCalls[driver][i] = "device"
        BY <2>1 DEF Reached, Made
  <2>4. PICK k \in 1 .. Len(todo) : c = todo[k]
        BY DEF Calls
  <2>5. /\ n + k \in 1 .. Len(InitCalls[driver]) /\ i < n + k
        /\ i \in 1 .. Len(InitCalls[driver]) /\ c = InitCalls[driver][n + k]
        BY <2>1, <2>2, <2>4 DEF Reached
  <2> QED
      BY <2>2, <2>3, <2>5, AfterDevice
<1> QED
    BY <1>1, <1>2

\* A step of the module while no file is open, or one that leaves it usable.
LEMMA FileSame ==
  ASSUME FileInv, UNCHANGED <<driver, refs, users>>,
         Opened # {} => /\ mod' \in {"coming", "live"}
                        /\ mod' = "coming" => Calls(todo') \cap Fallible = {}
  PROVE  FileInv'
<1>1. Opened' = Opened /\ References' = References
      BY DEF Opened, References
<1> QED
    BY <1>1 DEF FileInv

LEMMA FileMoves ==
  ASSUME TypeOK, FileInv, UNCHANGED <<driver, refs, module>>, NEW u \in User,
         pc[u] # "closed", NEW to, to # "closed", pc' = [pc EXCEPT ![u] = to]
  PROVE  FileInv'
<1>1. Opened' = Opened /\ References' = References
      BY DEF Opened, References, TypeOK
<1> QED
    BY <1>1 DEF FileInv

\* What a step of a user does to the files.
LEMMA FileSteps ==
  ASSUME NEW u \in User, FileStep(u)
  PROVE  \/ Open(u) \/ Close(u)
         \/ /\ UNCHANGED <<driver, refs, module>>
            /\ pc[u] # "closed"
            /\ \E to \in {"open", "lock", "wait", "section", "stored", "unlock"} :
                 pc' = [pc EXCEPT ![u] = to]
         \/ UNCHANGED <<driver, refs, module, pc>>
<1>1. CASE ReadGreeting(u) \/ ReadState(u)
      BY <1>1 DEF ReadGreeting, ReadState
<1>2. ASSUME NEW c \in {"on", "off", "bad"}, Write(u, c)
      PROVE  /\ UNCHANGED <<driver, refs, module>> /\ pc[u] # "closed"
             /\ pc' = [pc EXCEPT ![u] = "lock"]
      BY <1>2 DEF Write, Goto
<1>3. CASE TakeMutex(u)
      BY <1>3 DEF TakeMutex, Goto
<1>4. CASE Sleep(u)
      BY <1>4 DEF Sleep, Goto
<1>5. CASE SetLine(u)
      BY <1>5 DEF SetLine, Goto
<1>6. CASE StoreState(u)
      BY <1>6 DEF StoreState, Goto
<1>7. CASE Unlock(u)
      BY <1>7 DEF Unlock, Goto
<1> QED
    BY <1>1, <1>2, <1>3, <1>4, <1>5, <1>6, <1>7 DEF FileStep, WriteStep

LEMMA FileNext == TypeOK /\ ModuleInv /\ FileInv /\ [Next]_vars => FileInv'
<1> SUFFICES ASSUME TypeOK, ModuleInv, FileInv, [Next]_vars PROVE FileInv'
    OBVIOUS
<1>t. todo \in Seq(Call) /\ pc \in [User -> {"closed", "open", "lock", "wait", "section",
                                             "stored", "unlock"}]
      BY DEF TypeOK, Call
<1>c. IsFiniteSet(Opened) /\ Cardinality(Opened) \in Nat /\ References \in {1, 2}
      BY OpenedCount
<1>1. CASE Insmod
      BY <1>1, FileSame DEF Insmod, FileInv
<1>2. CASE Acquire \/ DirectionOutput \/ InitMutex \/ AsOutput
  <2>1. todo # << >> /\ todo' = Tail(todo) /\ mod = "coming" /\ UNCHANGED <<driver, mod, refs>>
        BY <1>2 DEF Acquire, DirectionOutput, InitMutex, AsOutput
  <2>2. Calls(todo') \subseteq Calls(todo)
        BY <1>t, <2>1, Popped
  <2>3. Opened' = Opened /\ References' = References
    <3>1. CASE InitMutex
          BY <2>1, <3>1, AwakeMoves DEF Opened, References
    <3>2. CASE Acquire \/ DirectionOutput \/ AsOutput
          BY <3>2 DEF Acquire, DirectionOutput, AsOutput, Opened, References
    <3> QED
        BY <1>2, <3>1, <3>2
  <2> QED
      BY <2>1, <2>2, <2>3 DEF FileInv
<1>3. CASE CallFails
  <2>1. Head(todo) \in Calls(todo) /\ Head(todo) \in Fallible
        BY <1>t, <1>3, Popped DEF CallFails
  <2> QED
      BY <1>3, <2>1, FileSame DEF CallFails, FileInv
<1>4. CASE Loaded
      BY <1>4, FileSame DEF Loaded
<1>5. CASE Rmmod
  <2>1. Cardinality(Opened) = 0
        BY <1>5, <1>c DEF Rmmod, FileInv
  <2>2. Opened = {}
        BY <1>c, <2>1, FS_EmptySet
  <2> QED
      BY <1>5, <2>2, FileSame DEF Rmmod
<1>6. CASE Release \/ SwitchOff \/ Unloaded
      BY <1>6, FileSame DEF Release, SwitchOff, Unloaded, FileInv
<1>7. ASSUME NEW u \in User, Open(u) PROVE FileInv'
  <2>1. Opened' = Opened \cup {u} /\ u \notin Opened
        BY <1>t, <1>7 DEF Open, Goto, Opened
  <2>2. Cardinality(Opened') = Cardinality(Opened) + 1
        BY <1>c, <2>1, FS_AddElement
  <2>3. refs' = refs + References /\ References' = References
        BY <1>7 DEF Open, References
  <2>4. refs' = References' * Cardinality(Opened')
        BY <1>c, <2>2, <2>3 DEF FileInv
  <2>5. "device" \in held /\ mod # "going" /\ UNCHANGED module
        BY <1>7 DEF Open
  <2> QED
      BY <2>4, <2>5, DeviceMade DEF FileInv
<1>8. ASSUME NEW u \in User, Close(u) PROVE FileInv'
  <2>1. Opened' = Opened \ {u} /\ u \in Opened
        BY <1>t, <1>8 DEF Close, Goto, Opened
  <2>2. Cardinality(Opened') = Cardinality(Opened) - 1
        BY <1>c, <2>1, FS_RemoveElement
  <2>3. refs' = refs - References /\ References' = References
        BY <1>8 DEF Close, References
  <2>4. refs' = References' * Cardinality(Opened')
        BY <1>c, <2>2, <2>3 DEF FileInv
  <2> QED
      BY <1>8, <2>1, <2>4 DEF Close, FileInv
<1>9. ASSUME NEW u \in User, FileStep(u) PROVE FileInv'
  <2>1. CASE UNCHANGED <<driver, refs, module, pc>>
        BY <2>1 DEF FileInv, Opened, References
  <2> QED
      BY <1>7, <1>8, <1>9, <2>1, FileSteps, FileMoves
<1>10. CASE UNCHANGED vars
      BY <1>10 DEF FileInv, Opened, References
<1> QED
    BY <1>1, <1>2, <1>3, <1>4, <1>5, <1>6, <1>9, <1>10 DEF Next, InitStep, ExitStep

-----------------------------------------------------------------------------
(* Types                                                                     *)

LEMMA TypeInit == Init => TypeOK
<1> SUFFICES ASSUME Init PROVE TypeOK
    OBVIOUS
<1>1. pos \in [User -> 0 .. GREET_LEN]
      BY DriverAssumption DEF Init
<1>2. driver \in Driver /\ mod = "absent" /\ todo \in Seq(Fallible \cup {"mutex", "fsel", "off"})
      BY DEF Init
<1>3. /\ pc \in [User -> {"closed", "open", "lock", "wait", "section", "stored", "unlock"}]
      /\ cmd \in [User -> {"on", "off", "bad", "none"}]
      BY DEF Init
<1> QED
    BY <1>1, <1>2, <1>3 DEF Init, TypeOK

LEMMA ReadAdvances ==
  ASSUME TypeOK, NEW u \in User, ReadGreeting(u)
  PROVE  pos' \in [User -> 0 .. GREET_LEN]
<1>0. GREET_LEN \in Nat \ {0} /\ pos \in [User -> 0 .. GREET_LEN] /\ pos[u] < GREET_LEN
      BY DriverAssumption DEF TypeOK, ReadGreeting
<1>1. PICK len \in 1 .. GREET_LEN :
        pos' = [pos EXCEPT ![u] = @ + (IF len < GREET_LEN - pos[u] THEN len ELSE GREET_LEN - pos[u])]
      BY Zenon DEF ReadGreeting
<1> DEFINE p == pos[u] + (IF len < GREET_LEN - pos[u] THEN len ELSE GREET_LEN - pos[u])
<1>2. p \in 0 .. GREET_LEN
      BY <1>0
<1>3. pos' = [pos EXCEPT ![u] = p]
      BY <1>0, <1>1
<1> HIDE DEF p
<1> QED
    BY <1>0, <1>2, <1>3

LEMMA TypeNext == TypeOK /\ ModuleInv /\ FileInv /\ [Next]_vars => TypeOK'
<1> SUFFICES ASSUME TypeOK, ModuleInv, FileInv, [Next]_vars PROVE TypeOK'
    OBVIOUS
<1>t. driver \in Driver /\ todo \in Seq(Call) /\ held \in SUBSET Resource
      BY DEF TypeOK, Call
<1>c. IsFiniteSet(Opened) /\ Cardinality(Opened) \in Nat /\ References \in {1, 2}
      BY OpenedCount
<1>g. GREET_LEN \in Nat \ {0}
      BY DriverAssumption
<1>1. CASE Insmod
      BY <1>1, <1>t, InitTyped DEF Insmod, TypeOK, Call
<1>2. ASSUME todo # << >>, todo' = Tail(todo) PROVE todo' \in Seq(Fallible \cup {"mutex", "fsel", "off"})
      BY <1>2, <1>t, Popped DEF Call
<1>3. CASE Acquire
      BY <1>2, <1>3 DEF Acquire, TypeOK
<1>4. CASE DirectionOutput
      BY <1>2, <1>4 DEF DirectionOutput, TypeOK
<1>5. CASE InitMutex
  <2>1. caught' = {u \in User : pc[u] = "wait"}
        BY <1>5, Zenon DEF InitMutex
  <2>2. /\ todo' \in Seq(Fallible \cup {"mutex", "fsel", "off"})
        /\ lock' = "free" /\ broken' \in BOOLEAN
        /\ UNCHANGED <<driver, mod, held, refs, line, cmd, pos>>
        BY <1>2, <1>5 DEF InitMutex
  <2> QED
      BY <1>5, <2>1, <2>2, AwakeMoves DEF TypeOK
<1>6. CASE AsOutput
      BY <1>2, <1>6 DEF AsOutput, TypeOK
<1>7. CASE CallFails
  <2>1. \E n \in Nat :
           /\ n + 1 <= Len(InitCalls[driver]) /\ n \in 0 .. Len(InitCalls[driver])
           /\ Len(InitCalls[driver]) \in Nat
           /\ Reached(n) /\ Head(todo) = InitCalls[driver][n + 1]
        BY <1>7, Reaching DEF CallFails
  <2>2. Head(todo) \in Fallible \cap Calls(InitCalls[driver])
        BY <1>7, <2>1 DEF CallFails, Calls
  <2>3. OnError[driver][Head(todo)] \in Seq(Call)
        BY <1>t, <2>2, ErrorUnwinds DEF Unwinds
  <2> QED
      BY <1>7, <2>3 DEF CallFails, TypeOK, Call
<1>8. CASE Loaded
      BY <1>8 DEF Loaded, TypeOK
<1>9. CASE Rmmod
  <2>1. ExitCalls[driver] \in Seq(Call)
        BY <1>t, ExitUnwinds DEF Unwinds
  <2> QED
      BY <1>9, <2>1 DEF Rmmod, TypeOK, Call
<1>10. CASE Release
      BY <1>2, <1>10 DEF Release, TypeOK
<1>11. CASE SwitchOff
      BY <1>2, <1>11 DEF SwitchOff, TypeOK
<1>12. CASE Unloaded
      BY <1>12 DEF Unloaded, TypeOK
<1>13. ASSUME NEW u \in User, Open(u) PROVE TypeOK'
      BY <1>13, <1>c, <1>g DEF Open, Goto, TypeOK
<1>14. ASSUME NEW u \in User, Close(u) PROVE TypeOK'
  <2>1. Cardinality(Opened) # 0
    <3>1. u \in Opened
          BY <1>14 DEF Close, Goto, Opened
    <3> QED
        BY <1>c, <3>1, FS_EmptySet
  <2>2. refs' \in Nat
        BY <1>14, <1>c, <2>1 DEF Close, FileInv
  <2> QED
      BY <1>14, <2>2 DEF Close, Goto, TypeOK
<1>15. ASSUME NEW u \in User, ReadGreeting(u) PROVE TypeOK'
      BY <1>15, ReadAdvances DEF ReadGreeting, TypeOK
<1>16. ASSUME NEW u \in User, ReadState(u) PROVE TypeOK'
      BY <1>16, <1>g DEF ReadState, TypeOK
<1>17. ASSUME NEW u \in User, NEW c \in {"on", "off", "bad"}, Write(u, c) PROVE TypeOK'
      BY <1>17 DEF Write, Goto, TypeOK
<1>18. ASSUME NEW u \in User, TakeMutex(u) PROVE TypeOK'
  <2>1. caught' \in SUBSET User
    <3>1. CASE u \in caught
      <4>1. caught' \in SUBSET ((caught \cup {v \in User : pc[v] = "wait"}) \ {u})
            BY <1>18, <3>1, Zenon DEF TakeMutex
      <4> QED
          BY <4>1 DEF TypeOK
    <3>2. CASE u \notin caught
          BY <1>18, <3>2 DEF TakeMutex, TypeOK
    <3> QED
        BY <3>1, <3>2
  <2>2. /\ pc' = [pc EXCEPT ![u] = "section"] /\ lock' = u
        /\ UNCHANGED <<driver, module, refs, broken, line, cmd, pos>>
        BY <1>18 DEF TakeMutex, Goto
  <2> QED
      BY <2>1, <2>2 DEF TypeOK
<1>19. ASSUME NEW u \in User, Sleep(u) PROVE TypeOK'
      BY <1>19 DEF Sleep, Goto, TypeOK
<1>20. ASSUME NEW u \in User, SetLine(u) PROVE TypeOK'
      BY <1>20 DEF SetLine, Goto, TypeOK
<1>21. ASSUME NEW u \in User, StoreState(u) PROVE TypeOK'
      BY <1>21 DEF StoreState, Goto, TypeOK
<1>22. ASSUME NEW u \in User, Unlock(u) PROVE TypeOK'
      BY <1>22 DEF Unlock, Goto, TypeOK
<1>23. CASE UNCHANGED vars
      BY <1>23 DEF TypeOK
<1> QED
    BY <1>1, <1>3, <1>4, <1>5, <1>6, <1>7, <1>8, <1>9, <1>10, <1>11, <1>12, <1>13,
       <1>14, <1>15, <1>16, <1>17, <1>18, <1>19, <1>20, <1>21, <1>22, <1>23
    DEF Next, InitStep, ExitStep, FileStep, WriteStep

CoreInv == TypeOK /\ ModuleInv /\ FileInv

LEMMA CoreInit == Init => CoreInv
BY TypeInit, ModuleInit, FileInit DEF CoreInv

LEMMA CoreNext == CoreInv /\ [Next]_vars => CoreInv'
BY TypeNext, ModuleNext, FileNext DEF CoreInv

\* The types of the variables: whatever call fails, the next call is one there is, a
\* reader's position stays inside the greeting, and no reference is given back that
\* was not taken.
THEOREM TypeCorrect == Spec => []TypeOK
<1>1. CoreInv => TypeOK
      BY DEF CoreInv
<1> QED
    BY CoreInit, CoreNext, <1>1, PTL DEF Spec

\* Whichever call of a load fails, and at a removal: what is still to be released is
\* what the module holds, each once; then it holds nothing.
THEOREM ReleaseCorrect == Spec => []ReleasesWhatItHolds
<1>1. CoreInv => ReleasesWhatItHolds
  <2> SUFFICES ASSUME CoreInv PROVE ReleasesWhatItHolds
      OBVIOUS
  <2>1. ASSUME mod \in {"failing", "going"}, NEW i \in 1 .. Len(todo), NEW j \in 1 .. Len(todo),
               todo[i] = todo[j]
        PROVE  i = j
    <3>1. Falling(driver, todo) /\ Len(todo) \in Nat
          BY <2>1 DEF CoreInv, ModuleInv, TypeOK
    <3>2. ~(i < j) /\ ~(j < i)
          BY <2>1, <3>1, RankNat DEF Falling
    <3> QED
        BY <3>1, <3>2
  <2> QED
      BY <2>1 DEF CoreInv, ModuleInv, ReleasesWhatItHolds
<1> QED
    BY CoreInit, CoreNext, <1>1, PTL DEF Spec

\* Resources are released in the reverse of the order in which they were made, on
\* every error path and by every exit.
THEOREM OrderCorrect == Spec => LastMadeFirstReleased
<1> DEFINE Ordered ==
             \A i, j \in 1 .. Len(InitCalls[driver]) :
               /\ InitCalls[driver][i] \in held \ held'
               /\ InitCalls[driver][j] \in held
               => j <= i
<1>1. CoreInv /\ [Next]_vars => Ordered
  <2> SUFFICES ASSUME CoreInv, [Next]_vars,
                      NEW i \in 1 .. Len(InitCalls[driver]), NEW j \in 1 .. Len(InitCalls[driver]),
                      InitCalls[driver][i] \in held \ held', InitCalls[driver][j] \in held
               PROVE  j <= i
      OBVIOUS
  <2>1. ~(held \subseteq held')
        OBVIOUS
  <2>2. Release
    <3>1. ASSUME NEW u \in User, FileStep(u) PROVE held' = held
          BY <3>1, FileSteps DEF Open, Close
    <3> QED
        BY <2>1, <3>1 DEF Next, InitStep, ExitStep, Insmod, Acquire, DirectionOutput, InitMutex,
                          AsOutput, CallFails, Loaded, Rmmod, SwitchOff, Unloaded
  <2>3. /\ InitCalls[driver][i] = Head(todo) /\ todo # << >> /\ todo \in Seq(Call)
        /\ Falling(driver, todo) /\ Calls(todo) \cap Resource = held
        /\ driver \in Driver
        BY <2>2 DEF Release, CoreInv, ModuleInv, TypeOK, Call
  <2>4. InitCalls[driver][j] \in Calls(Tail(todo)) \cup {Head(todo)}
        BY <2>3, Popped
  <2>5. Rank(driver, InitCalls[driver][j]) <= Rank(driver, InitCalls[driver][i])
    <3>1. CASE InitCalls[driver][j] = Head(todo)
          BY <2>3, <3>1, RankNat
    <3>2. CASE InitCalls[driver][j] \in Calls(Tail(todo))
      <4>1. Rank(driver, InitCalls[driver][j]) < Rank(driver, Head(todo))
            BY <2>3, <3>2, FallingTail
      <4> QED
          BY <2>3, <4>1, RankNat
    <3> QED
        BY <2>4, <3>1, <3>2
  <2>6. Len(InitCalls[driver]) \in Nat /\ Rising(driver, InitCalls[driver])
        BY <2>3, InitTyped, InitRising
  <2> QED
      BY <2>5, <2>6, RankNat DEF Rising
<1> HIDE DEF Ordered
<1>2. [][Ordered]_vars => LastMadeFirstReleased
      BY DEF LastMadeFirstReleased, Ordered
<1> QED
    BY CoreInit, CoreNext, <1>1, <1>2, PTL DEF Spec

-----------------------------------------------------------------------------
(* The line                                                                  *)

\* The step of init that makes the line an output is behind.
Configured ==
  \/ mod = "live"
  \/ mod = "coming" /\ "direction" \notin Calls(todo) /\ "fsel" \notin Calls(todo)

OutputInv == driver # "mydevice" /\ Configured => output

\* From the exit's write on the LED is off.
OffInv ==
  /\ driver # "mydevice" /\ mod = "going" /\ "off" \notin Calls(todo) => latch = 0
  /\ driver # "mydevice" /\ mod = "removed" => latch = 0

LEMMA LineInit == Init => OutputInv /\ OffInv
BY DEF Init, OutputInv, OffInv, Configured

LEMMA ConfiguredNext ==
  ASSUME TypeOK, mod = "coming", mod' = "coming", todo # << >>, todo' = Tail(todo), Configured'
  PROVE  Configured \/ Head(todo) \in {"direction", "fsel"}
<1>1. Calls(todo) = Calls(todo') \cup {Head(todo)}
      BY Popped DEF TypeOK, Call
<1> QED
    BY <1>1 DEF Configured

\* No driver but mydevice is loaded before its line is an output.
LEMMA NotConfigured ==
  ASSUME NEW d \in Driver, d # "mydevice"
  PROVE  /\ "direction" \in Calls(InitCalls[d]) \/ "fsel" \in Calls(InitCalls[d])
         /\ d = "mgpio_int" => "direction" \in Calls(InitCalls[d])
BY InitMakes DEF Driver

LEMMA OutputNext == CoreInv /\ OutputInv /\ [Next]_vars => OutputInv'
<1> SUFFICES ASSUME CoreInv, OutputInv, [Next]_vars PROVE OutputInv'
    OBVIOUS
<1>t. TypeOK /\ driver \in Driver
      BY DEF CoreInv, TypeOK
<1>1. CASE Insmod
      BY <1>1, <1>t, NotConfigured DEF Insmod, OutputInv, Configured
<1>2. CASE DirectionOutput \/ AsOutput
      BY <1>2 DEF DirectionOutput, AsOutput, OutputInv
<1>3. CASE Acquire \/ InitMutex
  <2>1. /\ mod = "coming" /\ mod' = "coming" /\ todo # << >> /\ todo' = Tail(todo)
        /\ UNCHANGED <<driver, output>> /\ Head(todo) \notin {"direction", "fsel"}
        BY <1>3 DEF Acquire, InitMutex, Resource
  <2> QED
      BY <1>t, <2>1, ConfiguredNext DEF OutputInv
<1>4. CASE Loaded
  <2>1. Calls(todo) = {}
        BY <1>4 DEF Loaded, Calls
  <2> QED
      BY <1>4, <2>1 DEF Loaded, OutputInv, Configured
<1>5. CASE CallFails \/ Rmmod \/ ExitStep
      BY <1>5 DEF CallFails, Rmmod, ExitStep, Release, SwitchOff, Unloaded, OutputInv, Configured
<1>6. ASSUME NEW u \in User, FileStep(u) PROVE OutputInv'
  <2>1. UNCHANGED <<driver, module, output>>
        BY <1>6 DEF FileStep, Open, Close, ReadGreeting, ReadState, Write, WriteStep,
                    TakeMutex, Sleep, SetLine, StoreState, Unlock
  <2> QED
      BY <2>1 DEF OutputInv, Configured
<1>7. CASE UNCHANGED vars
      BY <1>7 DEF OutputInv, Configured
<1> QED
    BY <1>1, <1>2, <1>3, <1>4, <1>5, <1>6, <1>7 DEF Next, InitStep

LEMMA OffNext == CoreInv /\ OffInv /\ [Next]_vars => OffInv'
<1> SUFFICES ASSUME CoreInv, OffInv, [Next]_vars PROVE OffInv'
    OBVIOUS
<1>t. todo \in Seq(Call) /\ driver \in Driver
      BY DEF CoreInv, TypeOK, Call
<1>1. CASE Insmod \/ InitStep
      BY <1>1 DEF Insmod, InitStep, Acquire, DirectionOutput, InitMutex, AsOutput, CallFails,
                  Loaded, OffInv
<1>2. CASE Rmmod
      BY <1>2, <1>t, ExitUnwinds DEF Rmmod, OffInv
<1>3. CASE Release
  <2>1. Calls(todo) = Calls(Tail(todo)) \cup {Head(todo)} /\ Head(todo) # "off"
        BY <1>t, <1>3, Popped DEF Release, Resource
  <2> QED
      BY <1>3, <2>1 DEF Release, OffInv
<1>4. CASE SwitchOff
      BY <1>4 DEF SwitchOff, OffInv
<1>5. CASE Unloaded
  <2>1. Calls(todo) = {}
        BY <1>5 DEF Unloaded, Calls
  <2> QED
      BY <1>5, <2>1 DEF Unloaded, OffInv
<1>6. ASSUME NEW u \in User, FileStep(u) PROVE OffInv'
  <2>1. UNCHANGED <<driver, module, latch>> \/ SetLine(u)
        BY <1>6 DEF FileStep, Open, Close, ReadGreeting, ReadState, Write, WriteStep,
                    TakeMutex, Sleep, StoreState, Unlock
  <2>2. CASE SetLine(u)
    <3>1. Opened # {}
          BY <2>2 DEF SetLine, Goto, Opened
    <3> QED
        BY <2>2, <3>1 DEF SetLine, CoreInv, FileInv, OffInv
  <2> QED
      BY <2>1, <2>2 DEF OffInv
<1>7. CASE UNCHANGED vars
      BY <1>7 DEF OffInv
<1> QED
    BY <1>1, <1>2, <1>3, <1>4, <1>5, <1>6, <1>7 DEF Next, ExitStep

\* An open file has its module, its resources and its line.
THEOREM FileCorrect == Spec => []OpenFileHasDevice
<1>1. CoreInv /\ OutputInv => OpenFileHasDevice
  <2> SUFFICES ASSUME CoreInv, OutputInv, NEW u \in User, pc[u] # "closed"
               PROVE  /\ mod = "coming" => Calls(todo) \cap Fallible = {}
                      /\ mod \in {"coming", "live"}
                      /\ held = Owns(driver)
                      /\ driver = "mgpio_int" \/ (driver = "mgpio" /\ mod = "live") => output
      BY DEF OpenFileHasDevice
  <2>1. mod \in {"coming", "live"} /\ (mod = "coming" => Calls(todo) \cap Fallible = {})
        BY DEF CoreInv, FileInv, Opened
  <2>2. held = Owns(driver)
    <3>1. CASE mod = "live"
          BY <3>1 DEF CoreInv, ModuleInv
    <3>2. CASE mod = "coming"
      <4>1. PICK n \in 0 .. Len(InitCalls[driver]) : Reached(n)
            BY <3>2 DEF CoreInv, ModuleInv
      <4>2. Len(InitCalls[driver]) \in Nat
            BY InitTyped DEF CoreInv, TypeOK
      <4>3. \A i \in 1 .. Len(InitCalls[driver]) : ~(i <= n) => InitCalls[driver][i] \notin Resource
        <5> TAKE i \in 1 .. Len(InitCalls[driver])
        <5> HAVE ~(i <= n)
        <5>1. i - n \in 1 .. Len(todo) /\ n + (i - n) = i
              BY <4>1, <4>2 DEF Reached
        <5>2. InitCalls[driver][i] \in Calls(todo)
              BY <4>1, <5>1 DEF Reached, Calls
        <5> QED
            BY <2>1, <3>2, <5>2 DEF Fallible
      <4>4. \A r : r \in Owns(driver) => r \in Made(driver, n)
        <5> TAKE r
        <5> HAVE r \in Owns(driver)
        <5>1. r \in Resource
              BY DEF Owns
        <5>2. PICK i \in 1 .. Len(InitCalls[driver]) : InitCalls[driver][i] = r
              BY DEF Owns, Calls
        <5>3. i \in 1 .. n
              BY <4>2, <4>3, <5>1, <5>2
        <5> QED
            BY <5>1, <5>2, <5>3 DEF Made
      <4>5. \A r : r \in Made(driver, n) => r \in Owns(driver)
            BY <4>2 DEF Made, Owns, Calls
      <4> QED
          BY <4>1, <4>4, <4>5 DEF Reached
    <3> QED
        BY <2>1, <3>1, <3>2
  <2>3. driver = "mgpio_int" /\ mod = "coming" => Configured
    <3> SUFFICES ASSUME driver = "mgpio_int", mod = "coming" PROVE Configured
        OBVIOUS
    <3>1. "direction" \notin Calls(todo)
          BY <2>1 DEF Fallible
    <3>2. "fsel" \notin Calls(todo)
      <4>1. PICK n \in 0 .. Len(InitCalls[driver]) : Reached(n)
            BY DEF CoreInv, ModuleInv
      <4>2. Len(InitCalls[driver]) \in Nat
            BY InitTyped DEF CoreInv, TypeOK
      <4>3. \A i \in 1 .. Len(todo) : todo[i] \in Calls(InitCalls[driver])
            BY <4>1, <4>2 DEF Reached, Calls
      <4>4. "fsel" \notin Calls(InitCalls[driver])
        <5>1. "mgpio_int" \in Driver
              BY DEF Driver
        <5>2. Calls(InitCalls["mgpio_int"]) =
                {"gpio", "direction", "region", "cdev", "class", "device"}
              BY <5>1, InitMakes
        <5> QED
            BY <5>2
      <4> QED
          BY <4>3, <4>4 DEF Calls
    <3> QED
        BY <3>1, <3>2 DEF Configured
  <2>4. driver = "mgpio_int" \/ (driver = "mgpio" /\ mod = "live") => output
        BY <2>1, <2>3 DEF OutputInv, Configured
  <2> QED
      BY <2>1, <2>2, <2>4
<1> QED
    BY CoreInit, CoreNext, LineInit, OutputNext, <1>1, PTL DEF Spec

\* A GPIO driver that was removed leaves the LED off: no write comes after its own.
THEOREM OffCorrect == Spec => []OffWhenRemoved
<1>1. OffInv => OffWhenRemoved
      BY DEF OffInv, OffWhenRemoved
<1> QED
    BY CoreInit, CoreNext, LineInit, OffNext, <1>1, PTL DEF Spec

-----------------------------------------------------------------------------
(* The mutex, and what a read reports                                        *)

Inside == {u \in User : pc[u] \in {"section", "stored", "unlock"}}

\* Only mgpio initialises its mutex when it may be in use, once in a load.  As long
\* as nobody was inside then, whoever is inside holds the mutex; afterwards one at
\* most is inside without holding it.
MutexInv ==
  /\ broken => /\ driver = "mgpio"
               /\ mod = "coming" => "mutex" \notin Calls(todo)
  /\ ~broken => \A u \in Inside : lock = u
  /\ \A u, v \in Inside : u # lock /\ v # lock => u = v

\* mutex_init is called once in a load.
LEMMA MutexOnce ==
  ASSUME TypeOK, ModuleInv, InitMutex
  PROVE  driver = "mgpio" /\ "mutex" \notin Calls(todo')
<1>1. PICK n \in Nat :
        /\ n + 1 <= Len(InitCalls[driver]) /\ n \in 0 .. Len(InitCalls[driver])
        /\ Len(InitCalls[driver]) \in Nat
        /\ Reached(n) /\ Head(todo) = InitCalls[driver][n + 1]
      BY Reaching DEF InitMutex
<1>2. /\ Head(todo) = "mutex" /\ todo # << >> /\ todo' = Tail(todo)
      /\ driver \in Driver /\ todo \in Seq(Call)
      BY DEF InitMutex, TypeOK, Call
<1>3. driver = "mgpio"
  <2>1. "mutex" \in Calls(InitCalls[driver])
        BY <1>1, <1>2 DEF Calls
  <2> QED
      BY <1>2, <2>1, InitMakes DEF Driver
<1>4. ASSUME NEW i \in 1 .. Len(todo'), todo'[i] = "mutex" PROVE FALSE
  <2>1. /\ Len(todo) \in Nat \ {0} /\ Len(todo') = Len(todo) - 1
        /\ todo'[i] = todo[i + 1]
        BY <1>2, <1>4, Popped
  <2>2. i + 1 \in 1 .. Len(todo)
        BY <1>4, <2>1
  <2>3. todo[i + 1] = InitCalls[driver][n + (i + 1)] /\ n + (i + 1) <= Len(InitCalls[driver])
        BY <1>1, <2>1, <2>2 DEF Reached
  <2>4. n + 1 < n + (i + 1) /\ n + 1 \in 1 .. Len(InitCalls[driver])
        /\ n + (i + 1) \in 1 .. Len(InitCalls[driver])
        BY <1>1, <2>1, <2>2, <2>3
  <2>5. Rank(driver, InitCalls[driver][n + 1]) < Rank(driver, InitCalls[driver][n + (i + 1)])
        BY <1>2, <2>4, InitRising DEF Rising
  <2>6. Rank(driver, "mutex") < Rank(driver, "mutex")
        BY <1>1, <1>2, <1>4, <2>1, <2>3, <2>5
  <2> QED
      BY <2>6, RankNat
<1> QED
    BY <1>3, <1>4 DEF Calls

\* gpio_state follows the line, from the step of init that sets both.
LineInv ==
  /\ \A u \in User : pc[u] = "stored" =>
       driver = "mgpio_int" /\ latch = IF cmd[u] = "on" THEN 1 ELSE 0
  /\ /\ driver = "mgpio_int"
     /\ mod = "live" \/ (mod = "coming" /\ "direction" \notin Calls(todo))
     => gpio_state = latch \/ \E u \in User : pc[u] = "stored"

LEMMA MutexInit == Init => MutexInv /\ LineInv
BY DEF Init, MutexInv, LineInv, Inside

LEMMA MutexNext == CoreInv /\ MutexInv /\ [Next]_vars => MutexInv'
<1> SUFFICES ASSUME CoreInv, MutexInv, [Next]_vars PROVE MutexInv'
    OBVIOUS
<1>t. /\ TypeOK /\ ModuleInv /\ FileInv /\ driver \in Driver
      /\ pc \in [User -> {"closed", "open", "lock", "wait", "section", "stored", "unlock"}]
      /\ todo \in Seq(Call)
      BY DEF CoreInv, TypeOK, Call
<1>a. "free" \notin User
      BY DriverAssumption
<1>1. CASE Insmod
  <2>1. Opened = {}
        BY <1>1, <1>t DEF Insmod, FileInv
  <2>2. Inside' = {}
        BY <1>1, <2>1 DEF Insmod, Inside, Opened
  <2> QED
      BY <1>1, <2>2 DEF Insmod, MutexInv
<1>2. CASE InitMutex
  <2>1. driver' = "mgpio" /\ "mutex" \in Calls(todo) /\ mod = "coming" /\ "mutex" \notin Calls(todo')
        BY <1>2, <1>t, MutexOnce, Popped DEF InitMutex
  <2>2. \A u \in Inside : lock = u
        BY <2>1 DEF MutexInv
  <2>3. Inside' = Inside
        BY <1>2, <1>t, AwakeMoves DEF Inside
  <2>4. lock' = "free" /\ broken' = (lock # "free")
        BY <1>2 DEF InitMutex
  <2>5. ~broken' => Inside' = {}
        BY <1>a, <2>2, <2>3, <2>4 DEF Inside
  <2>6. \A u, v \in Inside' : u = v
        BY <2>2, <2>3
  <2> QED
      BY <2>1, <2>5, <2>6 DEF MutexInv
<1>3. ASSUME UNCHANGED <<driver, lock, broken, pc>>, mod' = "coming" => mod = "coming",
             Calls(todo') \subseteq Calls(todo)
      PROVE  MutexInv'
      BY <1>3 DEF MutexInv, Inside
<1>4. CASE Acquire \/ DirectionOutput \/ AsOutput \/ CallFails \/ Loaded \/ Rmmod \/ ExitStep
  <2>1. CASE Acquire \/ DirectionOutput \/ AsOutput
    <3>1. /\ todo # << >> /\ todo' = Tail(todo)
          /\ UNCHANGED <<driver, mod, lock, broken, pc>>
          BY <2>1 DEF Acquire, DirectionOutput, AsOutput
    <3>2. Calls(todo') \subseteq Calls(todo)
          BY <1>t, <3>1, Popped
    <3> QED
        BY <1>3, <3>1, <3>2
  <2>2. CASE CallFails \/ Loaded \/ Rmmod \/ ExitStep
    <3>1. mod' # "coming" /\ UNCHANGED <<driver, lock, broken, pc>>
          BY <2>2 DEF CallFails, Loaded, Rmmod, ExitStep, Release, SwitchOff, Unloaded
    <3> QED
        BY <3>1 DEF MutexInv, Inside
  <2> QED
      BY <1>4, <2>1, <2>2
<1>5. ASSUME NEW u \in User, NEW to \in {"closed", "open", "lock", "wait"},
             pc' = [pc EXCEPT ![u] = to], UNCHANGED <<driver, module, lock, broken>>
      PROVE  MutexInv'
      BY <1>t, <1>5 DEF MutexInv, Inside
<1>6. ASSUME NEW u \in User, NEW to \in {"stored", "unlock"}, u \in Inside,
             pc' = [pc EXCEPT ![u] = to], UNCHANGED <<driver, module, lock, broken>>
      PROVE  MutexInv'
      BY <1>t, <1>6 DEF MutexInv, Inside
<1>7. ASSUME NEW u \in User, TakeMutex(u) PROVE MutexInv'
  <2>1. /\ lock = "free" /\ lock' = u /\ UNCHANGED <<driver, module, broken>>
        /\ pc' = [pc EXCEPT ![u] = "section"]
        BY <1>7 DEF TakeMutex, Goto
  <2>2. /\ ~broken => Inside = {}
        /\ \A v, w \in Inside : v = w
        BY <1>a, <2>1 DEF MutexInv, Inside
  <2>3. Inside' = Inside \cup {u}
        BY <1>t, <2>1 DEF Inside
  <2> QED
      BY <2>1, <2>2, <2>3 DEF MutexInv
<1>8. ASSUME NEW u \in User, Unlock(u) PROVE MutexInv'
  <2>1. /\ lock' = "free" /\ UNCHANGED <<driver, module, broken>> /\ u \in Inside
        /\ pc' = [pc EXCEPT ![u] = "open"]
        BY <1>8 DEF Unlock, Goto, Inside
  <2>2. Inside' = Inside \ {u}
        BY <1>t, <2>1 DEF Inside
  <2>3. ~broken => Inside' = {}
        BY <2>1, <2>2 DEF MutexInv
  <2>4. \A v, w \in Inside' : v = w
        BY <2>1, <2>2 DEF MutexInv
  <2> QED
      BY <2>1, <2>3, <2>4 DEF MutexInv
<1>9. ASSUME NEW u \in User, FileStep(u) PROVE MutexInv'
  <2>1. CASE Open(u) \/ Close(u) \/ Sleep(u)
        BY <1>5, <2>1 DEF Open, Close, Sleep, Goto
  <2>2. CASE ReadGreeting(u) \/ ReadState(u)
        BY <1>3, <2>2 DEF ReadGreeting, ReadState
  <2>3. ASSUME NEW c \in {"on", "off", "bad"}, Write(u, c) PROVE MutexInv'
        BY <1>5, <2>3 DEF Write, Goto
  <2>4. CASE SetLine(u) \/ StoreState(u)
        BY <1>6, <2>4 DEF SetLine, StoreState, Goto, Inside
  <2> QED
      BY <1>7, <1>8, <1>9, <2>1, <2>2, <2>3, <2>4 DEF FileStep, WriteStep
<1>10. CASE UNCHANGED vars
      BY <1>3, <1>10
<1> QED
    BY <1>1, <1>2, <1>4, <1>9, <1>10 DEF Next, InitStep

LEMMA LineNext == CoreInv /\ MutexInv /\ LineInv /\ [Next]_vars => LineInv'
<1> SUFFICES ASSUME CoreInv, MutexInv, LineInv, [Next]_vars PROVE LineInv'
    OBVIOUS
<1>t. /\ TypeOK /\ FileInv /\ driver \in Driver /\ todo \in Seq(Call)
      /\ pc \in [User -> {"closed", "open", "lock", "wait", "section", "stored", "unlock"}]
      /\ cmd \in [User -> {"on", "off", "bad", "none"}]
      BY DEF CoreInv, TypeOK, Call
<1>o. Opened = {} => \A u \in User : pc[u] = "closed"
      BY DEF Opened
<1>1. CASE Insmod
  <2>1. Opened = {}
        BY <1>1, <1>t DEF Insmod, FileInv
  <2> QED
      BY <1>1, <1>t, <1>o, <2>1, NotConfigured DEF Insmod, LineInv
<1>2. CASE Acquire \/ InitMutex \/ AsOutput
  <2>1. /\ mod = "coming" /\ todo # << >> /\ todo' = Tail(todo) /\ Head(todo) # "direction"
        /\ UNCHANGED <<driver, mod, latch, gpio_state, cmd>>
        BY <1>2 DEF Acquire, InitMutex, AsOutput, Resource
  <2>2. Calls(todo) = Calls(todo') \cup {Head(todo)}
        BY <1>t, <2>1, Popped
  <2>3. \A u \in User : pc'[u] = "stored" <=> pc[u] = "stored"
    <3>1. CASE InitMutex
          BY <1>t, <3>1, AwakeMoves
    <3>2. CASE Acquire \/ AsOutput
          BY <3>2 DEF Acquire, AsOutput
    <3> QED
        BY <1>2, <3>1, <3>2
  <2> QED
      BY <2>1, <2>2, <2>3 DEF LineInv
<1>3. CASE DirectionOutput
  <2>1. "direction" \in Calls(todo) \cap Fallible /\ mod = "coming"
        BY <1>3, <1>t, Popped DEF DirectionOutput, Fallible
  <2>2. Opened = {}
        BY <1>t, <2>1 DEF FileInv
  <2> QED
      BY <1>3, <1>o, <2>2 DEF DirectionOutput, LineInv
<1>4. CASE Loaded
  <2>1. Calls(todo) = {}
        BY <1>4 DEF Loaded, Calls
  <2> QED
      BY <1>4, <2>1 DEF Loaded, LineInv
<1>5. CASE CallFails \/ Rmmod \/ Release \/ Unloaded
      BY <1>5 DEF CallFails, Rmmod, Release, Unloaded, LineInv
<1>6. CASE SwitchOff
  <2>1. Opened = {}
        BY <1>6, <1>t DEF SwitchOff, FileInv
  <2> QED
      BY <1>6, <1>o, <2>1 DEF SwitchOff, LineInv
<1>7. ASSUME NEW u \in User, NEW to \in {"closed", "open", "lock", "wait", "section", "unlock"},
             pc[u] # "stored", pc' = [pc EXCEPT ![u] = to],
             \A v \in User \ {u} : cmd'[v] = cmd[v],
             UNCHANGED <<driver, module, latch, gpio_state>>
      PROVE  LineInv'
  <2>1. \A v \in User : pc'[v] = "stored" <=> pc[v] = "stored"
        BY <1>t, <1>7
  <2>2. \A v \in User : pc'[v] = "stored" => cmd'[v] = cmd[v]
        BY <1>t, <1>7
  <2> QED
      BY <1>7, <2>1, <2>2 DEF LineInv
<1>8. ASSUME NEW u \in User, SetLine(u) PROVE LineInv'
  <2>0. pc[u] = "section" /\ UNCHANGED <<driver, module, gpio_state, cmd>>
        BY <1>8 DEF SetLine, Goto
  <2>1. CASE driver = "mgpio_int" /\ cmd[u] # "bad"
    <3>1. /\ pc' = [pc EXCEPT ![u] = "stored"]
          /\ latch' = IF cmd[u] = "on" THEN 1 ELSE 0
          BY <1>8, <2>1 DEF SetLine, Goto
    <3>2. \A v \in User : pc[v] = "stored" => v = u
          BY <2>0, <2>1 DEF MutexInv, Inside
    <3>3. \A v \in User : pc'[v] = "stored" => v = u
          BY <1>t, <3>1, <3>2
    <3>4. pc'[u] = "stored"
          BY <1>t, <3>1
    <3> QED
        BY <2>0, <2>1, <3>1, <3>3, <3>4 DEF LineInv
  <2>2. CASE driver = "mgpio_int" /\ cmd[u] = "bad"
    <3>1. pc' = [pc EXCEPT ![u] = "unlock"] /\ latch' = latch
          BY <1>8, <2>2 DEF SetLine, Goto
    <3> QED
        BY <1>7, <2>0, <3>1
  <2>3. CASE driver # "mgpio_int"
    <3>1. pc' = [pc EXCEPT ![u] = "unlock"]
          BY <1>8, <2>3 DEF SetLine, Goto
    <3>2. \A v \in User : pc'[v] # "stored"
          BY <1>t, <2>0, <2>3, <3>1 DEF LineInv
    <3> QED
        BY <2>0, <2>3, <3>2 DEF LineInv
  <2> QED
      BY <2>1, <2>2, <2>3
<1>9. ASSUME NEW u \in User, StoreState(u) PROVE LineInv'
  <2>1. /\ pc[u] = "stored" /\ pc' = [pc EXCEPT ![u] = "unlock"]
        /\ gpio_state' = IF cmd[u] = "on" THEN 1 ELSE 0
        /\ UNCHANGED <<driver, module, latch, cmd>>
        BY <1>9 DEF StoreState, Goto
  <2>2. gpio_state' = latch
        BY <2>1 DEF LineInv
  <2>3. \A v \in User : pc'[v] = "stored" => pc[v] = "stored"
        BY <1>t, <2>1
  <2> QED
      BY <2>1, <2>2, <2>3 DEF LineInv
<1>10. ASSUME NEW u \in User, FileStep(u) PROVE LineInv'
  <2>1. CASE Open(u) \/ Close(u) \/ Sleep(u) \/ TakeMutex(u)
        BY <1>7, <2>1 DEF Open, Close, Sleep, TakeMutex, Goto
  <2>2. CASE ReadGreeting(u) \/ ReadState(u)
        BY <2>2 DEF ReadGreeting, ReadState, LineInv
  <2>3. ASSUME NEW c \in {"on", "off", "bad"}, Write(u, c) PROVE LineInv'
    <3>1. \A v \in User \ {u} : cmd'[v] = cmd[v]
          BY <1>t, <2>3 DEF Write
    <3> QED
        BY <1>7, <2>3, <3>1 DEF Write, Goto
  <2>4. CASE Unlock(u)
    <3>1. \A v \in User \ {u} : cmd'[v] = cmd[v]
          BY <1>t, <2>4 DEF Unlock
    <3> QED
        BY <1>7, <2>4, <3>1 DEF Unlock, Goto
  <2> QED
      BY <1>8, <1>9, <1>10, <2>1, <2>2, <2>3, <2>4 DEF FileStep, WriteStep
<1>11. CASE UNCHANGED vars
      BY <1>11 DEF LineInv
<1> QED
    BY <1>1, <1>2, <1>3, <1>4, <1>5, <1>6, <1>10, <1>11 DEF Next, InitStep, ExitStep

\* What a read of mgpio_int reports is the line's level or a write is between the two;
\* and one write at a time is, or two after mgpio has initialised its mutex under one.
THEOREM StateCorrect == Spec => []StateFollowsLine
<1>1. CoreInv /\ MutexInv /\ LineInv => StateFollowsLine
  <2> SUFFICES ASSUME CoreInv, MutexInv, LineInv PROVE StateFollowsLine
      OBVIOUS
  <2>1. Cardinality(Inside) <= (IF driver = "mgpio" /\ broken THEN 2 ELSE 1)
    <3>s. \A e : IsFiniteSet({e}) /\ Cardinality({e}) = 1
          BY FS_Singleton
    <3>1. CASE broken
      <4>1. PICK w : Inside \subseteq {lock, w}
            BY DEF MutexInv
      <4>2. /\ IsFiniteSet({lock} \cup {w})
            /\ Cardinality({lock} \cup {w}) =
                 Cardinality({lock}) + Cardinality({w}) - Cardinality({lock} \cap {w})
            BY <3>s, FS_Union
      <4>3. IsFiniteSet({lock} \cap {w}) /\ Cardinality({lock} \cap {w}) \in Nat
            BY <3>s, FS_Subset, FS_CardinalityType
      <4>4. IsFiniteSet(Inside) /\ Cardinality(Inside) <= Cardinality({lock} \cup {w})
            BY <4>1, <4>2, FS_Subset
      <4>5. Cardinality(Inside) \in Nat
            BY <4>4, FS_CardinalityType
      <4>6. Cardinality({lock} \cup {w}) <= 2
        <5>1. Cardinality({lock}) = 1 /\ Cardinality({w}) = 1
              BY <3>s
        <5> DEFINE k == Cardinality({lock} \cap {w})
                   c == Cardinality({lock} \cup {w})
        <5>2. k \in Nat /\ c = 1 + 1 - k
              BY <4>2, <4>3, <5>1
        <5> HIDE DEF k, c
        <5>3. c <= 2
              BY <5>2
        <5> QED
            BY <5>3 DEF c
      <4>7. Cardinality({lock} \cup {w}) \in Nat
            BY <4>2, FS_CardinalityType
      <4> QED
          BY <3>1, <4>4, <4>5, <4>6, <4>7 DEF MutexInv
    <3>2. CASE ~broken
      <4>1. Inside \subseteq {lock}
            BY <3>2 DEF MutexInv
      <4>2. Cardinality(Inside) <= Cardinality({lock})
            BY <3>s, <4>1, FS_Subset
      <4> QED
          BY <3>2, <3>s, <4>2
    <3> QED
        BY <3>1, <3>2
  <2>2. ASSUME driver = "mgpio_int", Owns(driver) \subseteq held, mod # "going"
        PROVE  gpio_state = latch \/ \E u \in User : pc[u] = "stored"
    <3>1. "device" \in held
          BY <2>2, InitMakes DEF Owns, Resource, Driver
    <3>2. mod \in {"coming", "live"} /\ (mod = "coming" => Calls(todo) \cap Fallible = {})
          BY <2>2, <3>1, DeviceMade DEF CoreInv
    <3> QED
        BY <2>2, <3>2 DEF LineInv, Fallible
  <2> QED
      BY <2>1, <2>2 DEF StateFollowsLine, Inside
<1> QED
    BY CoreInit, CoreNext, MutexInit, MutexNext, LineNext, <1>1, PTL DEF Spec
=============================================================================
