---------------------------- MODULE DriverProofs ----------------------------
(***************************************************************************)
(* Theorems about Sensor and about Driver, for any keypad and whatever     *)
(* another driver holds.                                                   *)
(***************************************************************************)
EXTENDS Driver, TLAPS

(* Nothing is pending when the module is loaded. *)
LEMMA SensorInit == Init => SensorInv
BY DEF Init, SensorInv, TypeOK, Phases, Chars, NoEarlyCallback,
       StaleIsRepaired, NobodyIsTemporary

(* The line: a rise latches an edge, which is a look to come. *)
LEMMA LineKeepsInv == SensorInv /\ (Rise \/ Fall) => SensorInv'
<1> USE DEF SensorInv, TypeOK, Phases, Chars, NoEarlyCallback,
            StaleIsRepaired, NobodyIsTemporary, LookPending
<1>1. SensorInv /\ Rise => SensorInv'
  BY DEF Rise, Hooked
<1>2. SensorInv /\ Fall => SensorInv'
  BY DEF Fall
<1> QED
  BY <1>1, <1>2

(* Loading: the initial read stores what it saw, and a line that rose      *)
(* behind its back has left an edge, a handler or a timer.                 *)
LEMMA LoadKeepsInv == SensorInv /\ Load => SensorInv'
<1> USE DEF SensorInv, TypeOK, Phases, Chars, NoEarlyCallback,
            StaleIsRepaired, NobodyIsTemporary, LookPending
<1>1. SensorInv /\ RequestIrq => SensorInv'
  BY DEF RequestIrq
<1>2. SensorInv /\ InitFails => SensorInv'
  BY DEF InitFails
<1>3. SensorInv /\ FirstRead => SensorInv'
  BY DEF FirstRead, Level
<1>4. SensorInv /\ FirstStore => SensorInv'
  BY DEF FirstStore
<1> QED
  BY <1>1, <1>2, <1>3, <1>4 DEF Load

(* Unloading: no callback is left when the timer is deleted. *)
LEMMA UnloadKeepsInv == SensorInv /\ Unload => SensorInv'
<1> USE DEF SensorInv, TypeOK, Phases, Chars, NoEarlyCallback,
            StaleIsRepaired, NobodyIsTemporary, LookPending
<1>1. SensorInv /\ StopTimer => SensorInv'
  BY DEF StopTimer
<1>2. SensorInv /\ FreeIrq => SensorInv'
  BY DEF FreeIrq
<1> QED
  BY <1>1, <1>2 DEF Unload

(* The handler hands the look over to the timer it arms. *)
LEMMA IrqKeepsInv == SensorInv /\ Irq => SensorInv'
<1> USE DEF SensorInv, TypeOK, Phases, Chars, NoEarlyCallback,
            StaleIsRepaired, NobodyIsTemporary, LookPending
<1>1. SensorInv /\ Interrupt => SensorInv'
  <2> SUFFICES ASSUME SensorInv, Interrupt PROVE SensorInv'
    OBVIOUS
  <2>1. CASE line
    <3>1. handler' = "store"
      BY <2>1 DEF Interrupt
    <3> QED
      BY <3>1 DEF Interrupt
  <2>2. CASE ~line
    <3>1. handler' = "off" /\ ~line'
      BY <2>2 DEF Interrupt
    <3> QED
      BY <3>1 DEF Interrupt
  <2> QED
    BY <2>1, <2>2
<1>2. SensorInv /\ HandlerStores => SensorInv'
  BY DEF HandlerStores
<1>3. SensorInv /\ HandlerArms => SensorInv'
  BY DEF HandlerArms
<1> QED
  BY <1>1, <1>2, <1>3 DEF Irq

(* The timer's callback is the last look there is: what it read was the    *)
(* level at that time, and a later rise has latched an edge.               *)
LEMMA TimerKeepsInv == SensorInv /\ Timer => SensorInv'
<1> USE DEF SensorInv, TypeOK, Phases, Chars, NoEarlyCallback,
            StaleIsRepaired, NobodyIsTemporary, LookPending
<1>1. SensorInv /\ TimerFires => SensorInv'
  <2> SUFFICES ASSUME SensorInv, TimerFires PROVE SensorInv'
    OBVIOUS
  <2>1. CASE line
    <3>1. callback' = "1"
      BY <2>1 DEF TimerFires, Level
    <3> QED
      BY <3>1 DEF TimerFires
  <2>2. CASE ~line
    <3>1. callback' = "0" /\ ~line'
      BY <2>2 DEF TimerFires, Level
    <3> QED
      BY <3>1 DEF TimerFires
  <2> QED
    BY <2>1, <2>2
<1>2. SensorInv /\ CallbackStores => SensorInv'
  BY DEF CallbackStores
<1> QED
  BY <1>1, <1>2 DEF Timer

(* Every step of the sensor keeps the invariant. *)
LEMMA SensorStep == SensorInv /\ [Next]_vars => SensorInv'
<1>1. SensorInv /\ Read => SensorInv'
  BY DEF Read, SensorInv, TypeOK, Phases, Chars, NoEarlyCallback,
         StaleIsRepaired, NobodyIsTemporary, LookPending
<1>2. SensorInv /\ UNCHANGED vars => SensorInv'
  BY DEF vars, SensorInv, TypeOK, Phases, Chars, NoEarlyCallback,
         StaleIsRepaired, NobodyIsTemporary, LookPending
<1> QED
  BY <1>1, <1>2, LineKeepsInv, LoadKeepsInv, UnloadKeepsInv, IrqKeepsInv,
     TimerKeepsInv DEF Next

(* However the line, the handler, the timer and the initial read           *)
(* interleave, "nobody" is stored for good only when the line is low.      *)
THEOREM NobodyIsNeverFinal == Spec => []NobodyIsTemporary
<1>1. SensorInv => NobodyIsTemporary
  BY DEF SensorInv
<1> QED
  BY <1>1, SensorInit, SensorStep, PTL DEF Spec
-----------------------------------------------------------------------------
(* The load, step by step: what the inductive invariant is made of.        *)

Steps == {"led", "servo", "sensor", "oled", "keys", "chrdev", "class", "device"}

(* The stages at which a step of mydev_init is over. *)
Past(step) ==
  CASE step = "led"    -> (Steps \cup {"up"}) \ {"led"}
    [] step = "servo"  -> (Steps \cup {"up"}) \ {"led", "servo"}
    [] step = "sensor" -> {"oled", "keys", "chrdev", "class", "device", "up"}
    [] step = "oled"   -> {"keys", "chrdev", "class", "device", "up"}
    [] step = "keys"   -> {"chrdev", "class", "device", "up"}
    [] step = "chrdev" -> {"class", "device", "up"}
    [] step = "class"  -> {"device", "up"}
    [] step = "device" -> {"up"}

(* What a step of mydev_init takes, and the call of its name gives back. *)
Needs(step) == IF step = "keys" THEN Range(KeyPins) ELSE {step}

(* The sensor is loaded with its step and unloaded with its call, and its  *)
(* handler and callback are over when it is loaded again.                  *)
SensorFollows ==
  /\ stage \in {"led", "servo", "out", "crashed"} => pc = "gone"
  /\ stage = "sensor" => pc \in {"gone", "request", "read", "store", "storeAgain"}
  /\ stage \in Past("sensor") => pc = "up"
  /\ stage = "undo" => pc \in {"up", "unhook", "gone"}
  /\ stage = "undo" /\ pc # "gone" => "sensor" \in Range(todo)
  /\ pc = "unhook" => todo # <<>> /\ Head(todo) = "sensor"
  /\ stage # "crashed" /\ pc \in {"request", "gone"} => handler = "off"
  /\ stage \in {"led", "servo", "sensor"} /\ pc = "gone" => callback = "off"
  /\ pc # "gone" => owner["sensor"] = "ours"

(* The servo's flag follows its step and its call; its thread ends with    *)
(* them, or is forgotten by the sensor's error path.                       *)
ServoFollows ==
  /\ stage \in Past("servo") => servoUp
  /\ servoUp => owner["servo"] = "ours"
  /\ thread => servoUp /\ stage \notin {"led", "servo", "out"}
  /\ stage = "undo" /\ thread => "servo" \in Range(todo) \/ "forgotten thread" \in causes

(* A load that goes on has all that its earlier steps took. *)
LoadsInOrder ==
  \A step \in Steps : stage \in Past(step) => Needs(step) \subseteq Ours

(* What a failed load may leave taken, and one that was up may not. *)
Leftover == IF loaded THEN {} ELSE {"servo"} \cup Range(KeyPins)

(* Whatever is taken was left by an earlier load, or belongs to a step of  *)
(* this one that is over, or to a call that is still to be made.           *)
Accounted ==
  /\ stage \in Steps => ~loaded
  /\ \A r \in Ours \ Leftover :
       /\ stage # "out"
       /\ stage \in Steps =>
            \/ \E step \in Steps : stage \in Past(step) /\ r \in Needs(step)
            \/ r = "sensor" /\ pc # "gone"
       /\ stage = "undo" => \E call \in Range(todo) : r \in Needs(call)

(* An error path and mydev_exit give back what the image has, and once:    *)
(* only the servo's error path calls servo_deinit a second time.           *)
UndoneOnce ==
  /\ stage # "undo" /\ stage # "crashed" => todo = <<>>
  /\ \A i, j \in DOMAIN todo : i < j /\ todo[i] = todo[j] => todo[i] = "servo" /\ ~loaded
  /\ stage = "undo" =>
       /\ \A call \in {"led", "keys"} \cap Range(todo) : Needs(call) \subseteq Ours
       /\ "servo" \in Range(todo) /\ loaded => servoUp

(* At most one pin is another driver's. *)
OneOther ==
  \A p, q \in Pins : owner[p] = "other" /\ owner[q] = "other" => p = q

(* A timer that is pending without an interrupt, or has its callback in    *)
(* progress, was armed by a late edge, and what an unloaded image left     *)
(* behind has its cause.                                                   *)
CausesKnown ==
  /\ stage # "crashed" /\ (armed \/ callback # "off")
       => pc \in {"read", "store", "storeAgain", "up"} \/ "late edge" \in causes
  /\ OrphanHasCause

(* The inductive invariant. *)
DriverInd ==
  /\ DriverTypeOK /\ SensorInv
  /\ SensorFollows /\ ServoFollows /\ LoadsInOrder
  /\ Accounted /\ UndoneOnce /\ OneOther /\ CausesKnown

-----------------------------------------------------------------------------
(* The lists of calls.                                                     *)

(* What follows each step. *)
LEMMA AfterEach ==
  /\ Range(LoadOrder) = Steps /\ Last(LoadOrder) = "device"
  /\ After("led") = "servo" /\ After("servo") = "sensor" /\ After("sensor") = "oled"
  /\ After("oled") = "keys" /\ After("keys") = "chrdev" /\ After("chrdev") = "class"
  /\ After("class") = "device" /\ After("device") = "up"
<1>1. /\ Len(LoadOrder) = 8 /\ DOMAIN LoadOrder = 1..8
      /\ LoadOrder[1] = "led" /\ LoadOrder[2] = "servo" /\ LoadOrder[3] = "sensor"
      /\ LoadOrder[4] = "oled" /\ LoadOrder[5] = "keys" /\ LoadOrder[6] = "chrdev"
      /\ LoadOrder[7] = "class" /\ LoadOrder[8] = "device"
  BY DEF LoadOrder
<1>2. Last(LoadOrder) = "device"
  BY <1>1 DEF Last
<1>3. Range(LoadOrder) = Steps
  BY <1>1 DEF Range, Steps
<1>4. ASSUME NEW n \in 2..8
      PROVE  (CHOOSE i \in 2..Len(LoadOrder) : LoadOrder[i - 1] = LoadOrder[n - 1]) = n
  <2>1. \A i \in 2..8 : LoadOrder[i - 1] = LoadOrder[n - 1] => i = n
    BY <1>1
  <2> QED
    BY <1>1, <2>1
<1>5. ASSUME NEW n \in 2..8 PROVE After(LoadOrder[n - 1]) = LoadOrder[n]
  <2>1. LoadOrder[n - 1] # "device"
    BY <1>1
  <2> QED
    BY <1>2, <1>4, <2>1 DEF After
<1>6. After("device") = "up"
  BY <1>2 DEF After
<1>7. /\ After(LoadOrder[1]) = LoadOrder[2] /\ After(LoadOrder[2]) = LoadOrder[3]
      /\ After(LoadOrder[3]) = LoadOrder[4] /\ After(LoadOrder[4]) = LoadOrder[5]
      /\ After(LoadOrder[5]) = LoadOrder[6] /\ After(LoadOrder[6]) = LoadOrder[7]
      /\ After(LoadOrder[7]) = LoadOrder[8]
  <2>1. 2 - 1 = 1 /\ 3 - 1 = 2 /\ 4 - 1 = 3 /\ 5 - 1 = 4 /\ 6 - 1 = 5 /\ 7 - 1 = 6 /\ 8 - 1 = 7
    OBVIOUS
  <2>2. 2 \in 2..8 /\ 3 \in 2..8 /\ 4 \in 2..8 /\ 5 \in 2..8 /\ 6 \in 2..8
        /\ 7 \in 2..8 /\ 8 \in 2..8
    OBVIOUS
  <2> HIDE <1>1
  <2> QED
    BY <1>5, <2>1, <2>2
<1> QED
  BY <1>1, <1>2, <1>3, <1>6, <1>7

(* A list of calls none of which is made twice, but for servo_deinit. *)
Once(list) ==
  \A i, j \in DOMAIN list : i < j /\ list[i] = list[j] => list[i] = "servo"

(* The error path of a step undoes each step before it, but for the key    *)
(* matrix and, if the sensor fails, the servo.                             *)
LEMMA ErrorPaths ==
  ASSUME NEW step \in Steps
  PROVE  /\ ErrorPath(step) \in Seq(Steps) /\ Len(ErrorPath(step)) <= 8
         /\ "keys" \notin Range(ErrorPath(step))
         /\ \A past \in Steps \ {"servo", "keys"} :
              step \in Past(past) <=> past \in Range(ErrorPath(step))
         /\ step \in Past("servo") /\ step # "sensor" => "servo" \in Range(ErrorPath(step))
         /\ Once(ErrorPath(step))
<1>1. CASE step = "led"
  BY <1>1 DEF ErrorPath, Range, Past, Steps, Once
<1>2. CASE step = "servo"
  BY <1>2 DEF ErrorPath, Range, Past, Steps, Once
<1>3. CASE step = "sensor"
  BY <1>3 DEF ErrorPath, Range, Past, Steps, Once
<1>4. CASE step \in {"keys", "chrdev"}
  <2> DEFINE path == <<"oled", "sensor", "servo", "led">>
  <2>1. ErrorPath("keys") = path /\ ErrorPath("chrdev") = path
    BY DEF ErrorPath
  <2>2. /\ path \in Seq(Steps) /\ Len(path) <= 8 /\ Once(path)
        /\ Range(path) = {"oled", "sensor", "servo", "led"}
    BY DEF Range, Steps, Once
  <2> HIDE DEF path
  <2>3. \A past \in Steps \ {"servo", "keys"} :
          /\ "keys" \in Past(past) <=> past \in Range(path)
          /\ "chrdev" \in Past(past) <=> past \in Range(path)
    BY <2>2 DEF Past, Steps
  <2> QED
    BY <1>4, <2>1, <2>2, <2>3
<1>7. CASE step = "oled"
  BY <1>7 DEF ErrorPath, Range, Past, Steps, Once
<1>5. CASE step = "class"
  BY <1>5 DEF ErrorPath, Range, Past, Steps, Once
<1>6. CASE step = "device"
  BY <1>6 DEF ErrorPath, Range, Past, Steps, Once
<1> QED
  BY <1>1, <1>2, <1>3, <1>4, <1>5, <1>6, <1>7 DEF Steps

(* mydev_exit undoes every step, and once. *)
LEMMA ExitPath ==
  /\ ExitOrder \in Seq(Steps) /\ Len(ExitOrder) = 8 /\ Range(ExitOrder) = Steps
  /\ \A i, j \in DOMAIN ExitOrder : i < j => ExitOrder[i] # ExitOrder[j]
<1>1. ExitOrder \in Seq(Steps) /\ Len(ExitOrder) = 8
  BY DEF ExitOrder, Steps
<1>2. /\ DOMAIN ExitOrder = 1..8
      /\ ExitOrder[1] = "device" /\ ExitOrder[2] = "class" /\ ExitOrder[3] = "keys"
      /\ ExitOrder[4] = "oled" /\ ExitOrder[5] = "sensor" /\ ExitOrder[6] = "servo"
      /\ ExitOrder[7] = "led" /\ ExitOrder[8] = "chrdev"
  BY DEF ExitOrder
<1>3. Range(ExitOrder) = Steps
  BY <1>2 DEF Range, Steps
<1> QED
  BY <1>1, <1>2, <1>3

(* The calls that are left after the first. *)
LEMMA Rest ==
  ASSUME NEW S, NEW list \in Seq(S), list # <<>>
  PROVE  /\ Tail(list) \in Seq(S) /\ Len(Tail(list)) = Len(list) - 1
         /\ Head(list) \in S /\ Head(list) = list[1]
         /\ \A i \in DOMAIN Tail(list) : i + 1 \in DOMAIN list /\ Tail(list)[i] = list[i + 1]
         /\ Range(list) = {Head(list)} \cup Range(Tail(list))
<1>1. /\ Tail(list) \in Seq(S) /\ Len(Tail(list)) = Len(list) - 1
      /\ Head(list) \in S /\ Head(list) = list[1]
      /\ DOMAIN list = 1..Len(list) /\ DOMAIN Tail(list) = 1..Len(list) - 1
      /\ Len(list) \in Nat /\ Len(list) > 0
  OBVIOUS
<1>2. \A i \in DOMAIN Tail(list) : i + 1 \in DOMAIN list /\ Tail(list)[i] = list[i + 1]
  BY <1>1
<1>3. Range(list) = {Head(list)} \cup Range(Tail(list))
  <2>1. ASSUME NEW x \in Range(list) PROVE x \in {Head(list)} \cup Range(Tail(list))
    <3>1. PICK i \in DOMAIN list : x = list[i]
      BY DEF Range
    <3>2. CASE i = 1
      BY <1>1, <3>1, <3>2
    <3>3. CASE i # 1
      <4>1. i - 1 \in DOMAIN Tail(list) /\ (i - 1) + 1 = i
        BY <1>1, <3>3
      <4> QED
        BY <1>2, <3>1, <4>1 DEF Range
    <3> QED
      BY <3>2, <3>3
  <2>2. Head(list) \in Range(list)
    BY <1>1 DEF Range
  <2>3. Range(Tail(list)) \subseteq Range(list)
    BY <1>2 DEF Range
  <2> QED
    BY <2>1, <2>2, <2>3
<1> QED
  BY <1>1, <1>2, <1>3

(* The keypad's pins are its own, and each is a pin. *)
LEMMA PinsApart ==
  /\ Range(KeyPins) \subseteq Pins
  /\ \A r \in Range(KeyPins) : r \notin Steps \ {"keys"}
  /\ Steps \ {"keys"} \subseteq Pins \cup Objects
  /\ {"led", "servo", "sensor"} \subseteq Pins
  /\ \A i \in DOMAIN KeyPins : {KeyPins[j] : j \in 1..i} \subseteq Range(KeyPins)
  /\ Pins \cup Objects = UNION {Needs(step) : step \in Steps}
<1>1. \A i \in DOMAIN KeyPins : {KeyPins[j] : j \in 1..i} \subseteq Range(KeyPins)
  BY PinAssumption DEF Range
<1>2. /\ Range(KeyPins) \subseteq Pins /\ Steps \ {"keys"} \subseteq Pins \cup Objects
      /\ {"led", "servo", "sensor"} \subseteq Pins
      /\ Pins \cup Objects = UNION {Needs(step) : step \in Steps}
  BY DEF Pins, Objects, Steps, Needs
<1> QED
  BY <1>1, <1>2, PinAssumption DEF Steps, Objects

(* The stages after each step, one by one. *)
LEMMA PastIs ==
  /\ Past("led") = {"servo", "sensor", "oled", "keys", "chrdev", "class", "device", "up"}
  /\ Past("servo") = {"sensor", "oled", "keys", "chrdev", "class", "device", "up"}
  /\ Past("sensor") = {"oled", "keys", "chrdev", "class", "device", "up"}
  /\ Past("oled") = {"keys", "chrdev", "class", "device", "up"}
  /\ Past("keys") = {"chrdev", "class", "device", "up"}
  /\ Past("chrdev") = {"class", "device", "up"} /\ Past("class") = {"device", "up"}
  /\ Past("device") = {"up"}
BY DEF Past, Steps

(* A step that succeeds is over then, with all that were over before it.   *)
LEMMA PastAfter ==
  ASSUME NEW s \in Steps
  PROVE  /\ After(s) \in (Steps \cup {"up"}) \ {"led", s}
         /\ After(s) = "up" <=> s = "device"
         /\ \A step \in Steps : After(s) \in Past(step) <=> s = step \/ s \in Past(step)
<1>1. After(s) \in (Steps \cup {"up"}) \ {"led", s} /\ (After(s) = "up" <=> s = "device")
  BY AfterEach DEF Steps
<1>2. \A step \in Steps : After(s) \in Past(step) <=> s = step \/ s \in Past(step)
  <2>1. CASE s \in {"led", "servo", "sensor", "oled"}
    BY <2>1, AfterEach, PastIs DEF Steps
  <2>2. CASE s \in {"keys", "chrdev", "class", "device"}
    BY <2>2, AfterEach, PastIs DEF Steps
  <2> QED
    BY <2>1, <2>2 DEF Steps
<1> QED
  BY <1>1, <1>2

(* No step is over at the first stage, or on the way out. *)
LEMMA NotPast ==
  ASSUME NEW step \in Steps
  PROVE  /\ Past(step) \subseteq (Steps \cup {"up"}) \ {"led"}
         /\ step \notin Past(step) /\ "up" \in Past(step)
BY PastIs DEF Steps

(* Two steps take nothing in common. *)
LEMMA NeedsApart ==
  ASSUME NEW s \in Steps, NEW step \in Steps, s # step
  PROVE  Needs(s) \cap Needs(step) = {}
BY PinsApart DEF Needs

-----------------------------------------------------------------------------
(* Who holds what.                                                         *)

Owners == [Pins \cup Objects -> {"free", "ours", "other"}]

(* What is ours, with the types in sight. *)
LEMMA OursIs ==
  ASSUME owner \in Owners
  PROVE  Ours = {r \in Pins \cup Objects : owner[r] = "ours"}
BY DEF Owners, Ours

(* What taking changes, ... *)
LEMMA Taken ==
  ASSUME owner \in Owners, NEW rs \in SUBSET (Pins \cup Objects), Take(rs)
  PROVE  /\ owner' \in Owners /\ Ours' = Ours \cup rs
         /\ \A r \in Pins \cup Objects : owner'[r] = IF r \in rs THEN "ours" ELSE owner[r]
<1>1. owner' \in Owners
  BY DEF Owners, Take
<1>2. \A r \in Pins \cup Objects : owner'[r] = IF r \in rs THEN "ours" ELSE owner[r]
  BY DEF Owners, Take
<1>3. DOMAIN owner = Pins \cup Objects /\ DOMAIN owner' = Pins \cup Objects
  BY <1>1 DEF Owners
<1> QED
  BY <1>1, <1>2, <1>3 DEF Ours

(* ... and what giving back. *)
LEMMA Freed ==
  ASSUME owner \in Owners, NEW rs, Free(rs)
  PROVE  /\ owner' \in Owners /\ Ours' = Ours \ rs
         /\ \A r \in Pins \cup Objects : owner'[r] = IF r \in rs THEN "free" ELSE owner[r]
<1>1. owner' \in Owners
  BY DEF Owners, Free
<1>2. \A r \in Pins \cup Objects : owner'[r] = IF r \in rs THEN "free" ELSE owner[r]
  BY DEF Owners, Free
<1>3. DOMAIN owner = Pins \cup Objects /\ DOMAIN owner' = Pins \cup Objects
  BY <1>1 DEF Owners
<1> QED
  BY <1>1, <1>2, <1>3 DEF Ours

(* Nothing that is taken or freed becomes another driver's. *)
LEMMA NoNewOther ==
  ASSUME owner \in Owners, OneOther,
         (\E rs \in SUBSET (Pins \cup Objects) : Take(rs)) \/ (\E rs : Free(rs)) \/ UNCHANGED owner
  PROVE  OneOther' /\ owner' \in Owners
<1>1. CASE \E rs \in SUBSET (Pins \cup Objects) : Take(rs)
  <2>1. PICK rs \in SUBSET (Pins \cup Objects) : Take(rs)
    BY <1>1
  <2>2. owner' \in Owners /\ \A r \in Pins : owner'[r] = IF r \in rs THEN "ours" ELSE owner[r]
    BY <2>1, Taken
  <2> QED
    BY <2>2 DEF OneOther
<1>2. CASE \E rs : Free(rs)
  <2>1. PICK rs : Free(rs)
    BY <1>2
  <2>2. owner' \in Owners /\ \A r \in Pins : owner'[r] = IF r \in rs THEN "free" ELSE owner[r]
    BY <2>1, Freed
  <2> QED
    BY <2>2 DEF OneOther
<1> QED
  BY <1>1, <1>2 DEF OneOther

-----------------------------------------------------------------------------
(* What the list of calls and the resources owe each other, for the steps  *)
(* of a load, for the steps that fail, and for the calls that undo.        *)

(* The types that do not come from the sensor. *)
LEMMA TypesAre ==
  DriverTypeOK <=>
    /\ TypeOK /\ stage \in Steps \cup {"up", "undo", "out", "crashed"}
    /\ todo \in Seq(Steps) /\ Len(todo) <= 8 /\ owner \in Owners
    /\ servoUp \in BOOLEAN /\ thread \in BOOLEAN /\ loaded \in BOOLEAN
    /\ orphan \in BOOLEAN /\ causes \subseteq {"late edge", "forgotten thread"}
BY AfterEach, ExitPath DEF DriverTypeOK, Owners

Books == LoadsInOrder /\ Accounted /\ UndoneOnce

(* A step of the load is over. *)
LEMMA LoadKeepsBooks ==
  ASSUME DriverInd, NEW s \in Steps, stage = s, stage' = After(s),
         Ours' = Ours \cup Needs(s), loaded' = (s = "device"), UNCHANGED todo
  PROVE  Books'
<1>1. todo' = <<>> /\ ~loaded
  BY DEF DriverInd, UndoneOnce, Accounted, Steps
<1>2. /\ stage' \in (Steps \cup {"up"}) \ {"led", s} /\ (stage' = "up" <=> s = "device")
      /\ \A step \in Steps : stage' \in Past(step) <=> s = step \/ s \in Past(step)
  BY PastAfter
<1>3. LoadsInOrder'
  BY <1>2 DEF DriverInd, LoadsInOrder, Needs
<1>4. Accounted'
  <2>1. stage' \in Steps => ~loaded'
    BY <1>2 DEF Steps
  <2>2. ASSUME NEW r \in Ours' \ Leftover', stage' \in Steps
        PROVE  \E step \in Steps : stage' \in Past(step) /\ r \in Needs(step)
    <3>1. CASE r \in Needs(s)
      BY <1>2, <3>1
    <3>2. CASE r \notin Needs(s)
      <4>1. r \in Ours \ Leftover
        BY <1>1, <2>1, <2>2, <3>2 DEF Leftover
      <4>2. \/ \E step \in Steps : stage \in Past(step) /\ r \in Needs(step)
            \/ r = "sensor" /\ pc # "gone"
        BY <4>1 DEF DriverInd, Accounted
      <4>3. CASE r = "sensor" /\ pc # "gone"
        <5>1. s = "sensor" \/ s \in Past("sensor")
          BY <4>3, PastIs DEF DriverInd, SensorFollows, Steps
        <5> QED
          BY <1>2, <4>3, <5>1 DEF Needs, Steps
      <4> QED
        BY <1>2, <4>2, <4>3
    <3> QED
      BY <3>1, <3>2
  <2>3. stage' # "out" /\ stage' # "undo"
    BY <1>2 DEF Steps
  <2> QED
    BY <2>1, <2>2, <2>3 DEF Accounted
<1>5. UndoneOnce'
  BY <1>1, <1>2 DEF UndoneOnce, Steps
<1> QED
  BY <1>3, <1>4, <1>5 DEF Books

(* A step of the load fails, with the servo's pin taken or not, and the    *)
(* sensor's pin and some of the keypad's given back or not.                *)
LEMMA FailureKeepsBooks ==
  ASSUME DriverInd, NEW s \in Steps, Abandon(s),
         Ours' \subseteq Ours \cup {"servo"},
         Ours \subseteq Ours' \cup {"sensor"} \cup Range(KeyPins),
         s = "sensor" => "sensor" \notin Ours'
  PROVE  Books' /\ todo' \in Seq(Steps) /\ Len(todo') <= 8
<1>1. stage = s /\ stage' = "undo" /\ todo' = ErrorPath(s) /\ ~loaded /\ ~loaded'
  BY DEF Abandon, DriverInd, Accounted, Steps
<1>2. /\ todo' \in Seq(Steps) /\ Len(todo') <= 8 /\ "keys" \notin Range(todo')
      /\ \A past \in Steps \ {"servo", "keys"} : s \in Past(past) <=> past \in Range(todo')
      /\ Once(todo')
  BY <1>1, ErrorPaths
<1>3. LoadsInOrder'
  BY <1>1, NotPast DEF LoadsInOrder, Steps
<1>4. Accounted'
  <2>1. ASSUME NEW r \in Ours' \ Leftover'
        PROVE  \E call \in Range(todo') : r \in Needs(call)
    <3>1. r \in Ours \ Leftover /\ r # "servo" /\ r \notin Range(KeyPins)
      BY <1>1, <2>1 DEF Leftover
    <3>2. \/ \E step \in Steps : stage \in Past(step) /\ r \in Needs(step)
          \/ r = "sensor" /\ pc # "gone"
      BY <1>1, <3>1 DEF DriverInd, Accounted
    <3>3. CASE r = "sensor" /\ pc # "gone"
      <4>1. s \in Past("sensor")
        BY <1>1, <2>1, <3>3, PastIs DEF DriverInd, SensorFollows, Steps
      <4> QED
        BY <1>2, <3>3, <4>1 DEF Needs, Steps
    <3>4. ASSUME NEW step \in Steps, stage \in Past(step), r \in Needs(step)
          PROVE  step \in Range(todo')
      <4>1. step \notin {"servo", "keys"}
        BY <3>1, <3>4 DEF Needs
      <4> QED
        BY <1>1, <1>2, <3>4, <4>1
    <3> QED
      BY <3>2, <3>3, <3>4
  <2> QED
    BY <1>1, <2>1 DEF Accounted, Steps
<1>5. UndoneOnce'
  <2>1. "led" \in Range(todo') => Needs("led") \subseteq Ours'
    <3>1. "led" \in Range(todo') => "led" \in Ours
      BY <1>1, <1>2 DEF DriverInd, LoadsInOrder, Steps, Needs
    <3>2. "led" \notin Range(KeyPins)
      BY PinsApart DEF Steps
    <3> QED
      BY <3>1, <3>2 DEF Needs
  <2> QED
    BY <1>1, <1>2, <2>1 DEF UndoneOnce, Once
<1> QED
  BY <1>2, <1>3, <1>4, <1>5 DEF Books

(* One call of an error path or of mydev_exit. *)
LEMMA UndoKeepsBooks ==
  ASSUME DriverInd, NEW call \in Steps, Undo(call),
         \/ Ours' = Ours \ Needs(call)
         \/ call = "servo" /\ ~servoUp /\ Ours' = Ours,
         servoUp' # servoUp => call = "servo"
  PROVE  Books' /\ todo' \in Seq(Steps) /\ Len(todo') <= 8
<1>1. /\ stage = "undo" /\ stage' = "undo" /\ todo # <<>> /\ call = Head(todo)
      /\ todo' = Tail(todo) /\ loaded' = loaded
  BY DEF Undo
<1>2. todo \in Seq(Steps) /\ Len(todo) <= 8 /\ loaded \in BOOLEAN
  BY TypesAre DEF DriverInd
<1>3. /\ todo' \in Seq(Steps) /\ Len(todo') = Len(todo) - 1
      /\ call = todo[1] /\ 1 \in DOMAIN todo
      /\ DOMAIN todo \subseteq Nat /\ DOMAIN todo' \subseteq Nat \ {0}
      /\ \A i \in DOMAIN todo' : i + 1 \in DOMAIN todo /\ todo'[i] = todo[i + 1]
      /\ Range(todo) = {call} \cup Range(todo')
  <2>1. DOMAIN todo' \subseteq Nat \ {0} /\ DOMAIN todo \subseteq Nat /\ 1 \in DOMAIN todo
    BY <1>1, <1>2
  <2> QED
    BY <1>1, <1>2, <2>1, Rest
<1>4. \A i, j \in DOMAIN todo : i < j /\ todo[i] = todo[j] => todo[i] = "servo" /\ ~loaded
  BY DEF DriverInd, UndoneOnce
<1>5. call \in Range(todo') => call = "servo" /\ ~loaded
  <2> SUFFICES ASSUME NEW i \in DOMAIN todo', todo'[i] = call
               PROVE  call = "servo" /\ ~loaded
    BY DEF Range
  <2>1. 1 < i + 1 /\ i + 1 \in DOMAIN todo /\ todo[1] = todo[i + 1]
    BY <1>3
  <2> QED
    BY <1>3, <1>4, <2>1
<1>6. LoadsInOrder'
  BY <1>1, NotPast DEF LoadsInOrder, Steps
<1>7. Accounted'
  <2>1. ASSUME NEW r \in Ours' \ Leftover'
        PROVE  \E c \in Range(todo') : r \in Needs(c)
    <3>1. r \in Ours \ Leftover
      BY <1>1, <2>1 DEF Leftover
    <3>2. PICK c \in Range(todo) : r \in Needs(c)
      BY <1>1, <3>1 DEF DriverInd, Accounted
    <3>3. c # call
      <4> SUFFICES ASSUME c = call PROVE FALSE
        OBVIOUS
      <4>1. call = "servo" /\ ~servoUp /\ r = "servo"
        BY <2>1, <3>2 DEF Needs
      <4>2. ~loaded
        BY <1>1, <1>2, <1>3, <4>1 DEF DriverInd, UndoneOnce
      <4> QED
        BY <3>1, <4>1, <4>2 DEF Leftover
    <3> QED
      BY <1>3, <3>2, <3>3
  <2> QED
    BY <1>1, <2>1 DEF Accounted, Steps
<1>8. UndoneOnce'
  <2>1. ASSUME NEW i \in DOMAIN todo', NEW j \in DOMAIN todo', i < j, todo'[i] = todo'[j]
        PROVE  todo'[i] = "servo" /\ ~loaded'
    <3>1. i + 1 < j + 1 /\ i + 1 \in DOMAIN todo /\ j + 1 \in DOMAIN todo
          /\ todo[i + 1] = todo[j + 1] /\ todo'[i] = todo[i + 1]
      BY <1>3, <2>1
    <3> QED
      BY <1>1, <1>4, <3>1
  <2>2. ASSUME NEW c \in {"led", "keys"} \cap Range(todo')
        PROVE  Needs(c) \subseteq Ours'
    <3>1. c # call /\ c \in Steps
      BY <1>5 DEF Steps
    <3>2. Needs(c) \subseteq Ours /\ Needs(c) \cap Needs(call) = {}
      BY <1>1, <1>3, <3>1, NeedsApart DEF DriverInd, UndoneOnce
    <3> QED
      BY <3>2
  <2>3. "servo" \in Range(todo') /\ loaded' => servoUp'
    <3> SUFFICES ASSUME "servo" \in Range(todo'), loaded' PROVE servoUp'
      OBVIOUS
    <3>1. servoUp
      BY <1>1, <1>3 DEF DriverInd, UndoneOnce
    <3>2. call # "servo"
      BY <1>1, <1>5
    <3> QED
      BY <3>1, <3>2
  <2> QED
    BY <1>1, <2>1, <2>2, <2>3 DEF UndoneOnce
<1> QED
  BY <1>2, <1>3, <1>6, <1>7, <1>8 DEF Books

-----------------------------------------------------------------------------
(* Every step keeps the invariant.                                         *)

(* The invariant, in the parts the steps are checked for. *)
LEMMA IndIs ==
  DriverInd <=> /\ DriverTypeOK /\ SensorInv /\ SensorFollows /\ ServoFollows
                /\ Books /\ OneOther /\ CausesKnown
BY DEF DriverInd, Books

(* A machine that was booted: at most one pin is another driver's. *)
LEMMA DriverStarts == DriverInit => DriverInd
<1> SUFFICES ASSUME DriverInit PROVE DriverInd
  OBVIOUS
<1>1. PICK other \in {{}} \cup {{pin} : pin \in Foreign} :
        owner = [r \in Pins \cup Objects |-> IF r \in other THEN "other" ELSE "free"]
  BY DEF DriverInit
<1>2. owner \in Owners /\ Ours = {} /\ OneOther
  <2>1. owner \in Owners
    BY <1>1 DEF Owners
  <2>2. Ours = {}
    BY <1>1 DEF Ours
  <2>3. \A p, q \in other : p = q
    BY <1>1
  <2>4. \A p \in Pins : owner[p] = "other" => p \in other
    BY <1>1
  <2> QED
    BY <2>1, <2>2, <2>3, <2>4 DEF OneOther
<1>3. /\ stage = "out" /\ todo = <<>> /\ ~servoUp /\ ~thread /\ ~loaded /\ ~orphan
      /\ causes = {} /\ pc = "gone" /\ ~armed /\ handler = "off" /\ callback = "off"
  BY DEF DriverInit
<1>4. SensorInv
  BY DEF DriverInit, SensorInv, TypeOK, Phases, Chars, NoEarlyCallback,
         StaleIsRepaired, NobodyIsTemporary
<1>5. DriverTypeOK
  <2>1. servoUp \in BOOLEAN /\ thread \in BOOLEAN /\ loaded \in BOOLEAN /\ orphan \in BOOLEAN
    BY DEF DriverInit
  <2>2. todo \in Seq(Steps) /\ Len(todo) <= 8
    BY <1>3
  <2> QED
    BY <1>2, <1>3, <1>4, <2>1, <2>2, TypesAre DEF SensorInv
<1>6. Books
  BY <1>2, <1>3, NotPast DEF Books, LoadsInOrder, Accounted, UndoneOnce, Steps
<1>7. SensorFollows /\ ServoFollows
  BY <1>3, NotPast DEF SensorFollows, ServoFollows, Steps
<1>8. CausesKnown
  BY <1>3 DEF CausesKnown, OrphanHasCause
<1> QED
  BY <1>2, <1>4, <1>5, <1>6, <1>7, <1>8, IndIs

(* What is at work in the sensor while the module stands where it is. *)
LEMMA SensorRunsKeepsInd == DriverInd /\ (SensorRuns \/ LateTimer \/ Reads) => DriverInd'
<1> SUFFICES ASSUME DriverInd, SensorRuns \/ LateTimer \/ Reads PROVE DriverInd'
  OBVIOUS
<1>1. /\ UNCHANGED <<stage, todo, owner, servoUp, thread, loaded, orphan, pc>>
      /\ stage # "crashed" /\ causes \subseteq causes'
      /\ causes' \subseteq causes \cup {"late edge"}
  BY DEF SensorRuns, LateTimer, Reads, driverVars, Rise, Fall, Irq, Timer, Interrupt,
         HandlerStores, HandlerArms, TimerFires, CallbackStores, Read
<1>2. SensorInv'
  <2>1. CASE SensorRuns \/ Reads
    BY <2>1, SensorStep DEF SensorRuns, Reads, Next, DriverInd
  <2>2. CASE LateTimer
    BY <2>2 DEF LateTimer, SensorInv, TypeOK, Phases, Chars, NoEarlyCallback,
                StaleIsRepaired, NobodyIsTemporary, DriverInd, Level
  <2> QED
    BY <2>1, <2>2
<1>3. DriverTypeOK'
  BY <1>1, <1>2, AfterEach DEF DriverInd, SensorInv, DriverTypeOK
<1>4. SensorFollows'
  <2>1. pc \in {"request", "gone"} /\ handler = "off" => handler' = "off"
    BY DEF SensorRuns, LateTimer, Reads, driverVars, Rise, Fall, Irq, Timer, Interrupt,
           HandlerStores, HandlerArms, TimerFires, CallbackStores, Read, Hooked
  <2>2. stage # "undo" /\ pc = "gone" /\ callback = "off" => callback' = "off"
    BY DEF SensorRuns, LateTimer, Reads, driverVars, Rise, Fall, Irq, Timer, Interrupt,
           HandlerStores, HandlerArms, TimerFires, CallbackStores, Read
  <2> QED
    BY <1>1, <2>1, <2>2 DEF DriverInd, SensorFollows
<1>5. ServoFollows' /\ OneOther'
  BY <1>1 DEF DriverInd, ServoFollows, OneOther
<1>6. Books'
  <2>1. Ours' = Ours /\ Leftover' = Leftover /\ Books
    BY <1>1 DEF DriverInd, Books, Ours, Leftover
  <2>2. LoadsInOrder' /\ UndoneOnce'
    BY <1>1, <2>1 DEF Books, LoadsInOrder, UndoneOnce
  <2>3. Accounted'
    BY <1>1, <2>1 DEF Books, Accounted
  <2> QED
    BY <2>2, <2>3 DEF Books
<1>7. CausesKnown'
  <2>1. armed' \/ callback' # "off"
          => armed \/ callback # "off" \/ (SensorRuns /\ handler = "arm" /\ armed')
    BY DEF SensorRuns, LateTimer, Reads, driverVars, Rise, Fall, Irq, Timer, Interrupt,
           HandlerStores, HandlerArms, TimerFires, CallbackStores, Read
  <2>2. pc \in Phases
    BY DEF DriverInd, SensorInv, TypeOK
  <2>3. pc = "unhook" /\ armed' /\ ~armed => "late edge" \in causes'
    BY DEF SensorRuns, LateTimer, Reads, Read
  <2>4. handler = "arm" => pc \notin {"request", "gone"}
    BY <1>1 DEF DriverInd, SensorFollows
  <2>5. orphan => causes' # {}
    BY <1>1 DEF DriverInd, CausesKnown, OrphanHasCause
  <2>6. armed' \/ callback' # "off"
          => pc \in {"read", "store", "storeAgain", "up"} \/ "late edge" \in causes'
    BY <1>1, <2>1, <2>2, <2>3, <2>4 DEF DriverInd, CausesKnown, Phases
  <2> QED
    BY <1>1, <2>5, <2>6 DEF CausesKnown, OrphanHasCause
<1> QED
  BY <1>2, <1>3, <1>4, <1>5, <1>6, <1>7 DEF DriverInd, Books

(* insmod brings a fresh image into a kernel that may hold something yet. *)
LEMMA InsmodKeepsInd == DriverInd /\ Insmod => DriverInd'
<1> SUFFICES ASSUME DriverInd, Insmod PROVE DriverInd'
  OBVIOUS
<1>1. /\ stage = "out" /\ stage' = "led" /\ ~loaded' /\ ~servoUp' /\ ~thread'
      /\ UNCHANGED <<pc, line, todo, owner, orphan, causes>>
      /\ state' = "0" /\ first' = "0" /\ reported' = "0" /\ ~edge' /\ ~armed'
      /\ handler' = "off" /\ callback' = "off"
  BY DEF Insmod, ImageInit
<1>2. pc = "gone"
  BY <1>1 DEF DriverInd, SensorFollows
<1>3. SensorInv'
  <2>1. edge' \in BOOLEAN /\ armed' \in BOOLEAN
    BY DEF Insmod, ImageInit
  <2> QED
    BY <1>1, <1>2, <2>1 DEF SensorInv, TypeOK, Phases, Chars, NoEarlyCallback,
                StaleIsRepaired, NobodyIsTemporary, DriverInd
<1>4. DriverTypeOK'
  <2>1. servoUp' \in BOOLEAN /\ thread' \in BOOLEAN /\ loaded' \in BOOLEAN
    BY DEF Insmod
  <2> QED
    BY <1>1, <1>3, <2>1, AfterEach DEF DriverInd, SensorInv, DriverTypeOK, Steps
<1>5. SensorFollows' /\ ServoFollows'
  BY <1>1, <1>2, NotPast DEF SensorFollows, ServoFollows, Steps
<1>6. Books'
  <2>1. \A r \in Ours : r \in Leftover
    BY <1>1 DEF DriverInd, Accounted
  <2>2. Ours' = Ours /\ Leftover \subseteq Leftover'
    BY <1>1 DEF Ours, Leftover
  <2>3. todo' = <<>>
    BY <1>1 DEF DriverInd, UndoneOnce
  <2>4. LoadsInOrder'
    BY <1>1, NotPast DEF LoadsInOrder
  <2>5. Accounted'
    BY <1>1, <2>1, <2>2 DEF Accounted
  <2>6. UndoneOnce'
    BY <1>1, <2>3 DEF UndoneOnce
  <2> QED
    BY <2>4, <2>5, <2>6 DEF Books
<1>7. OneOther' /\ CausesKnown'
  BY <1>1 DEF OneOther, CausesKnown, OrphanHasCause, DriverInd
<1> QED
  BY <1>3, <1>4, <1>5, <1>6, <1>7 DEF DriverInd, Books

(* A step of the load that leaves the sensor alone. *)
LEMMA LoadStepKeepsInd ==
  ASSUME DriverInd, NEW s \in Steps, stage = s, s # "sensor", stage' = After(s),
         Take(Needs(s)), s # "servo" => UNCHANGED <<servoUp, thread>>,
         s = "servo" => servoUp' = TRUE /\ thread' \in BOOLEAN,
         loaded' = (s = "device"), UNCHANGED <<vars, todo, orphan, causes>>
  PROVE  DriverInd'
<1>1. /\ owner \in Owners /\ DriverTypeOK /\ Needs(s) \subseteq Pins \cup Objects
      /\ loaded' \in BOOLEAN
  BY TypesAre, PinsApart DEF DriverInd
<1>2. /\ owner' \in Owners /\ Ours' = Ours \cup Needs(s)
      /\ \A r \in Pins \cup Objects : owner'[r] = IF r \in Needs(s) THEN "ours" ELSE owner[r]
  BY <1>1, Taken
<1>3. stage' \in (Steps \cup {"up"}) \ {"led", s}
      /\ \A step \in Steps : stage' \in Past(step) <=> s = step \/ s \in Past(step)
  BY PastAfter
<1>4. Books'
  BY <1>2, LoadKeepsBooks
<1>5. DriverTypeOK' /\ SensorInv'
  <2>1. servoUp' \in BOOLEAN /\ thread' \in BOOLEAN
    BY <1>1, TypesAre
  <2>2. SensorInv'
    BY SensorStep DEF DriverInd
  <2> QED
    BY <1>1, <1>2, <1>3, <2>1, <2>2, AfterEach DEF DriverTypeOK, SensorInv, Owners
<1>6. SensorFollows'
  <2>1. owner'["sensor"] = owner["sensor"] \/ owner'["sensor"] = "ours"
    BY <1>2, PinsApart
  <2>2. s \in {"led", "servo"} => pc = "gone" /\ callback = "off" /\ stage' \in {"servo", "sensor"}
    BY AfterEach DEF DriverInd, SensorFollows
  <2>3. s \notin {"led", "servo"} => pc = "up" /\ stage' \in Past("sensor")
    BY <1>3, PastIs DEF DriverInd, SensorFollows, Steps
  <2> QED
    BY <1>3, <2>1, <2>2, <2>3, PastIs DEF DriverInd, SensorFollows, Steps, vars
<1>7. ServoFollows'
  <2>1. owner'["servo"] = owner["servo"] \/ owner'["servo"] = "ours"
    BY <1>2, PinsApart
  <2>2. s = "servo" => owner'["servo"] = "ours"
    BY <1>2, PinsApart DEF Needs
  <2>3. s = "servo" \/ s \in Past("servo") \/ s = "led"
    BY PastIs DEF Steps
  <2>4. s = "led" => stage' = "servo" /\ ~thread
    BY AfterEach DEF DriverInd, ServoFollows
  <2>5. CASE s = "servo"
    <3>1. stage' \in Past("servo") /\ servoUp'
      BY <1>3, <2>5
    <3> QED
      BY <2>2, <2>5, <3>1, PastIs DEF ServoFollows
  <2>6. CASE s = "led"
    <3>1. UNCHANGED <<servoUp, thread>>
      BY <2>6
    <3> QED
      BY <2>1, <2>4, <2>6, <3>1, PastIs DEF DriverInd, ServoFollows
  <2>7. CASE s \in Past("servo")
    <3>1. UNCHANGED <<servoUp, thread>> /\ stage' \in Past("servo")
      BY <1>3, <2>7, PastIs DEF Steps
    <3> QED
      BY <2>1, <2>7, <3>1, PastIs DEF DriverInd, ServoFollows
  <2> QED
    BY <2>3, <2>5, <2>6, <2>7
<1>8. OneOther'
  BY <1>1, NoNewOther DEF DriverInd
<1>9. CausesKnown'
  BY DEF DriverInd, CausesKnown, OrphanHasCause, vars, Steps
<1> QED
  BY <1>4, <1>5, <1>6, <1>7, <1>8, <1>9 DEF DriverInd, Books

(* led_init, oled_init, and the four steps of the character device. *)
LEMMA SucceedsKeepsInd ==
  ASSUME DriverInd, NEW s \in Range(LoadOrder), Succeeds(s)
  PROVE  DriverInd'
<1>1. /\ s \in Steps /\ s \notin {"sensor", "servo", "keys"} /\ stage = s
      /\ stage' = After(s) /\ Take({s}) /\ loaded' = (s = "device")
      /\ UNCHANGED <<vars, todo, servoUp, thread, orphan, causes>>
  BY AfterEach DEF Succeeds
<1>2. Take(Needs(s))
  BY <1>1 DEF Needs
<1> QED
  BY <1>1, <1>2, LoadStepKeepsInd

(* servo_init and key_matrix_init. *)
LEMMA ServoAndKeysKeepInd == DriverInd /\ (ServoSucceeds \/ KeysSucceed) => DriverInd'
<1> SUFFICES ASSUME DriverInd, ServoSucceeds \/ KeysSucceed PROVE DriverInd'
  OBVIOUS
<1>1. stage \in Steps => loaded = FALSE
  BY TypesAre DEF DriverInd, Accounted
<1>2. CASE ServoSucceeds
  <2>1. Take(Needs("servo"))
    BY <1>2 DEF ServoSucceeds, Needs
  <2>2. loaded' = FALSE /\ thread' \in BOOLEAN
    BY <1>1, <1>2, PinAssumption DEF ServoSucceeds, Steps
  <2> QED
    BY <1>2, <2>1, <2>2, LoadStepKeepsInd DEF ServoSucceeds, Steps
<1>3. CASE KeysSucceed
  <2>1. Take(Needs("keys"))
    BY <1>3 DEF KeysSucceed, Needs
  <2>2. loaded' = FALSE
    BY <1>1, <1>3 DEF KeysSucceed, Steps
  <2> QED
    BY <1>3, <2>1, <2>2, LoadStepKeepsInd DEF KeysSucceed, Steps
<1> QED
  BY <1>2, <1>3

(* hc_sr501_init takes its pin, and hooks its interrupt before it looks. *)
LEMMA SensorBeginsKeepsInd == DriverInd /\ SensorBegins => DriverInd'
<1> SUFFICES ASSUME DriverInd, SensorBegins PROVE DriverInd'
  OBVIOUS
<1>1. /\ stage = "sensor" /\ pc = "gone" /\ Take({"sensor"}) /\ pc' = "request"
      /\ handler = "off" /\ callback = "off" /\ todo = <<>>
      /\ UNCHANGED <<line, state, edge, handler, armed, callback, first, reported,
                     stage, todo, servoUp, thread, loaded, orphan, causes>>
  BY DEF SensorBegins, DriverInd, SensorFollows, UndoneOnce
<1>2. /\ owner' \in Owners /\ Ours' = Ours \cup {"sensor"}
      /\ \A r \in Pins \cup Objects : owner'[r] = IF r = "sensor" THEN "ours" ELSE owner[r]
  <2>1. {"sensor"} \in SUBSET (Pins \cup Objects) /\ owner \in Owners
    BY TypesAre, PinsApart DEF DriverInd
  <2> QED
    BY <1>1, <2>1, Taken
<1>3. SensorInv'
  BY <1>1 DEF SensorInv, TypeOK, Phases, Chars, NoEarlyCallback,
              StaleIsRepaired, NobodyIsTemporary, DriverInd
<1>4. DriverTypeOK'
  BY <1>1, <1>2, <1>3, AfterEach DEF DriverInd, SensorInv, DriverTypeOK, Owners
<1>5. SensorFollows'
  BY <1>1, <1>2, NotPast, PinsApart DEF SensorFollows, Steps
<1>6. ServoFollows'
  BY <1>1, <1>2, PinsApart DEF DriverInd, ServoFollows
<1>7. Books'
  <2>1. Leftover' = Leftover
    BY <1>1 DEF Leftover
  <2>2. LoadsInOrder' /\ UndoneOnce'
    BY <1>1, <1>2 DEF DriverInd, LoadsInOrder, UndoneOnce
  <2>3. Accounted'
    BY <1>1, <1>2, <2>1 DEF DriverInd, Accounted
  <2> QED
    BY <2>2, <2>3 DEF Books
<1>8. OneOther' /\ CausesKnown'
  <2>1. armed' => "late edge" \in causes'
    BY <1>1 DEF DriverInd, CausesKnown
  <2>2. OneOther'
    BY <1>1, NoNewOther, TypesAre, PinsApart DEF DriverInd
  <2> QED
    BY <1>1, <2>1, <2>2 DEF DriverInd, CausesKnown, OrphanHasCause
<1> QED
  BY <1>3, <1>4, <1>5, <1>6, <1>7, <1>8 DEF DriverInd, Books

(* The rest of hc_sr501_init; the step is over when it is. *)
LEMMA SensorWorksKeepsInd == DriverInd /\ SensorWorks => DriverInd'
<1> SUFFICES ASSUME DriverInd, SensorWorks PROVE DriverInd'
  OBVIOUS
<1>1. /\ stage = "sensor" /\ todo = <<>> /\ ~loaded
      /\ UNCHANGED <<todo, owner, servoUp, thread, loaded, orphan, causes, armed, handler>>
      /\ pc \in {"request", "read", "store", "storeAgain"}
      /\ pc' \in {"read", "store", "storeAgain", "up"}
      /\ stage' = IF pc' = "up" THEN "oled" ELSE "sensor"
  BY AfterEach DEF SensorWorks, DriverInd, UndoneOnce, Accounted, Steps,
                   RequestIrq, FirstRead, FirstStore
<1>2. SensorInv'
  BY SensorStep DEF SensorWorks, Next, Load, DriverInd
<1>3. DriverTypeOK'
  BY <1>1, <1>2, AfterEach DEF DriverInd, SensorInv, DriverTypeOK, Steps
<1>4. SensorFollows'
  BY <1>1, PastIs DEF DriverInd, SensorFollows, Steps
<1>5. ServoFollows'
  BY <1>1, PastIs DEF DriverInd, ServoFollows
<1>6. Books'
  <2>1. CASE stage' = "sensor"
    <3>1. Ours' = Ours /\ Leftover' = Leftover
      BY <1>1 DEF Ours, Leftover
    <3>2. LoadsInOrder' /\ UndoneOnce'
      BY <1>1, <2>1, <3>1 DEF DriverInd, LoadsInOrder, UndoneOnce
    <3>3. Accounted'
      BY <1>1, <2>1, <3>1 DEF DriverInd, Accounted
    <3> QED
      BY <3>2, <3>3 DEF Books
  <2>2. CASE stage' = "oled"
    <3>1. owner["sensor"] = "ours" /\ "sensor" \in DOMAIN owner
      BY <1>1, PinsApart, TypesAre DEF DriverInd, SensorFollows, Owners
    <3>2. Ours' = Ours \cup Needs("sensor")
      BY <1>1, <3>1 DEF Ours, Needs
    <3>3. loaded' = FALSE
      BY <1>1, TypesAre DEF DriverInd
    <3> QED
      BY <1>1, <2>2, <3>2, <3>3, LoadKeepsBooks, AfterEach DEF Steps
  <2> QED
    BY <1>1, <2>1, <2>2
<1>7. OneOther' /\ CausesKnown'
  BY <1>1 DEF DriverInd, OneOther, CausesKnown, OrphanHasCause
<1> QED
  BY <1>2, <1>3, <1>4, <1>5, <1>6, <1>7 DEF DriverInd, Books

(* A step of the load fails: whatever it took itself, nothing that an      *)
(* earlier step took is lost, and the error path knows it.                 *)
LEMMA FailureKeepsInd ==
  ASSUME DriverInd, NEW s \in Steps, Abandon(s), SensorInv',
         owner' \in Owners, OneOther',
         Ours' \subseteq Ours \cup {"servo"},
         Ours \subseteq Ours' \cup {"sensor"} \cup Range(KeyPins),
         s = "sensor" => /\ "sensor" \notin Ours'
                         /\ pc \in {"request", "gone"} /\ pc' = "gone",
         s # "sensor" => UNCHANGED <<pc, owner["sensor"]>>,
         UNCHANGED <<line, state, edge, handler, armed, callback, first, reported, thread>>,
         servoUp' \in BOOLEAN, servoUp => servoUp',
         servoUp' => "servo" \in Ours',
         pc' \in {"request", "gone"} => handler = "off"
  PROVE  DriverInd'
<1>1. /\ stage = s /\ stage' = "undo" /\ todo' = ErrorPath(s)
      /\ causes' = causes \cup (IF s = "sensor" /\ thread THEN {"forgotten thread"} ELSE {})
      /\ UNCHANGED <<loaded, orphan>>
  BY DEF Abandon
<1>2. Books' /\ todo' \in Seq(Steps) /\ Len(todo') <= 8
  BY FailureKeepsBooks
<1>3. DriverTypeOK'
  <2>1. causes' \subseteq {"late edge", "forgotten thread"}
    BY <1>1, TypesAre DEF DriverInd
  <2>2. thread' \in BOOLEAN /\ loaded' \in BOOLEAN /\ orphan' \in BOOLEAN
    BY <1>1, TypesAre DEF DriverInd
  <2>3. TypeOK'
    BY DEF SensorInv
  <2> QED
    BY <1>1, <1>2, <2>1, <2>2, <2>3, AfterEach, ExitPath DEF DriverTypeOK, Owners
<1>4. pc' = "gone" \/ (s \in Past("sensor") /\ pc' = "up")
  BY <1>1, PastIs DEF DriverInd, SensorFollows, Steps
<1>5. SensorFollows'
  <2>1. s \in Past("sensor") => "sensor" \in Range(todo')
    BY <1>1, ErrorPaths DEF Steps
  <2>2. s \in Past("sensor") => owner'["sensor"] = "ours"
    <3>1. s \in Past("sensor") => s # "sensor" /\ "sensor" \in Ours
      BY <1>1, NotPast DEF DriverInd, LoadsInOrder, Needs, Steps
    <3> QED
      BY <3>1 DEF Ours
  <2> QED
    BY <1>1, <1>4, <2>1, <2>2, NotPast DEF SensorFollows, Steps
<1>6. ServoFollows'
  <2>1. stage' \notin Past("servo")
    BY <1>1, NotPast DEF Steps
  <2>2. servoUp' => owner'["servo"] = "ours"
    BY DEF Ours
  <2>3. thread' => thread /\ servoUp' /\ s \in Past("servo")
    BY <1>1, PastIs DEF DriverInd, ServoFollows, Steps
  <2>4. thread' => "servo" \in Range(todo') \/ "forgotten thread" \in causes'
    BY <1>1, <2>3, ErrorPaths
  <2> QED
    BY <1>1, <2>1, <2>2, <2>3, <2>4 DEF ServoFollows
<1>7. CausesKnown'
  <2>1. armed' \/ callback' # "off" => pc' = "up" \/ "late edge" \in causes'
    BY <1>1, <1>4 DEF DriverInd, CausesKnown, Steps
  <2> QED
    BY <1>1, <2>1 DEF DriverInd, CausesKnown, OrphanHasCause
<1> QED
  BY <1>2, <1>3, <1>5, <1>6, <1>7 DEF DriverInd, Books

(* A step without resources of its own to give back. *)
LEMMA FailsKeepsInd ==
  ASSUME DriverInd, NEW s \in Range(LoadOrder), Fails(s) PROVE DriverInd'
<1>1. /\ s \in Steps /\ s \notin {"sensor", "servo", "keys"} /\ Abandon(s)
      /\ UNCHANGED <<vars, owner, servoUp, thread>>
  BY AfterEach DEF Fails
<1>2. SensorInv'
  BY <1>1, SensorStep DEF DriverInd
<1>3. owner' \in Owners /\ OneOther' /\ Ours' = Ours
  BY <1>1, TypesAre, NoNewOther DEF DriverInd, Ours
<1>4. servoUp' \in BOOLEAN
  BY <1>1, TypesAre DEF DriverInd
<1>5. servoUp' => "servo" \in Ours'
  BY <1>1, <1>3, TypesAre, PinsApart, OursIs DEF DriverInd, ServoFollows
<1>6. pc' \in {"request", "gone"} => handler = "off"
  BY <1>1 DEF DriverInd, SensorFollows, vars, Abandon, Steps
<1> QED
  BY <1>1, <1>2, <1>3, <1>4, <1>5, <1>6, FailureKeepsInd DEF vars

(* servo_init fails, before it has its pin or with its pin. *)
LEMMA ServoFailsKeepsInd == DriverInd /\ ServoFails => DriverInd'
<1> SUFFICES ASSUME DriverInd, ServoFails PROVE DriverInd'
  OBVIOUS
<1>1. Abandon("servo") /\ UNCHANGED <<vars, thread>> /\ "servo" \in Steps
  BY DEF ServoFails, Steps
<1>2. SensorInv'
  BY <1>1, SensorStep DEF DriverInd
<1>3. {"servo"} \in SUBSET (Pins \cup Objects) /\ owner \in Owners
  BY PinsApart, TypesAre DEF DriverInd
<1>4. /\ owner' \in Owners /\ OneOther'
      /\ Ours' \subseteq Ours \cup {"servo"} /\ Ours \subseteq Ours'
      /\ UNCHANGED owner["sensor"]
  <2>1. CASE UNCHANGED owner
    BY <1>3, <2>1, NoNewOther DEF DriverInd, Ours
  <2>2. CASE Take({"servo"})
    BY <1>3, <2>2, Taken, NoNewOther, PinsApart DEF DriverInd
  <2> QED
    BY <2>1, <2>2 DEF ServoFails
<1>5. servoUp' \in BOOLEAN /\ (servoUp => servoUp')
  <2>1. UNCHANGED servoUp \/ servoUp' = TRUE
    BY DEF ServoFails
  <2>2. servoUp \in BOOLEAN
    BY TypesAre DEF DriverInd
  <2>3. CASE UNCHANGED servoUp
    BY <2>2, <2>3
  <2>4. CASE servoUp' = TRUE
    BY <2>4
  <2> QED
    BY <2>1, <2>3, <2>4
<1>6. servoUp' => "servo" \in Ours'
  <2>1. CASE UNCHANGED <<owner, servoUp>>
    BY <1>3, <2>1, PinsApart, OursIs DEF DriverInd, ServoFollows, Ours
  <2>2. CASE Take({"servo"})
    BY <1>3, <2>2, Taken
  <2> QED
    BY <2>1, <2>2 DEF ServoFails
<1>7. pc' \in {"request", "gone"} => handler = "off"
  BY <1>1 DEF DriverInd, SensorFollows, vars, Abandon
<1> QED
  BY <1>1, <1>2, <1>4, <1>5, <1>6, <1>7, FailureKeepsInd DEF vars

(* hc_sr501_init fails, and gives its pin back if it has it. *)
LEMMA SensorFailsKeepsInd == DriverInd /\ SensorFails => DriverInd'
<1> SUFFICES ASSUME DriverInd, SensorFails PROVE DriverInd'
  OBVIOUS
<1>1. /\ Abandon("sensor") /\ UNCHANGED <<servoUp, thread>> /\ "sensor" \in Steps
      /\ stage = "sensor" /\ owner \in Owners
      /\ UNCHANGED <<line, state, edge, handler, armed, callback, first, reported>>
      /\ pc \in {"request", "gone"} /\ pc' = "gone" /\ handler = "off"
  BY TypesAre DEF SensorFails, Steps, Abandon, InitFails, vars, DriverInd, SensorFollows
<1>2. SensorInv'
  BY SensorStep DEF SensorFails, DriverInd, Next, Load
<1>3. /\ owner' \in Owners /\ OneOther' /\ Ours' \subseteq Ours
      /\ Ours \subseteq Ours' \cup {"sensor"} /\ "sensor" \notin Ours'
  <2>1. CASE pc = "gone" /\ UNCHANGED owner
    <3>1. owner' \in Owners /\ OneOther' /\ Ours' = Ours
      BY <1>1, <2>1, NoNewOther DEF DriverInd, Ours
    <3>2. "sensor" \notin Ours
      <4>1. "sensor" \notin Leftover
        BY PinsApart DEF Leftover, Steps
      <4>2. \A step \in Steps : "sensor" \in Needs(step) => step = "sensor"
        BY PinsApart DEF Needs, Steps
      <4>3. "sensor" \notin Past("sensor")
        BY PastIs
      <4> QED
        BY <1>1, <2>1, <4>1, <4>2, <4>3 DEF DriverInd, Accounted
    <3> QED
      BY <3>1, <3>2
  <2>2. CASE Free({"sensor"})
    BY <1>1, <2>2, Freed, NoNewOther DEF DriverInd
  <2> QED
    BY <2>1, <2>2 DEF SensorFails
<1>4. servoUp' \in BOOLEAN
  BY <1>1, TypesAre DEF DriverInd
<1>5. servoUp' => "servo" \in Ours'
  BY <1>1, <1>3, PinsApart, OursIs DEF DriverInd, ServoFollows
<1> QED
  BY <1>1, <1>2, <1>3, <1>4, <1>5, FailureKeepsInd

(* key_matrix_init fails at its i-th pin. *)
LEMMA KeysFailKeepsInd ==
  ASSUME DriverInd, NEW i \in DOMAIN KeyPins, KeysFail(i) PROVE DriverInd'
<1>1. /\ Abandon("keys") /\ UNCHANGED <<vars, servoUp, thread>> /\ "keys" \in Steps
      /\ owner \in Owners
  BY TypesAre DEF KeysFail, Steps, DriverInd
<1>2. PICK rs : rs \subseteq Range(KeyPins) /\ Free(rs)
  BY PinsApart DEF KeysFail
<1>3. "sensor" \notin rs /\ "servo" \notin rs
  BY <1>2, PinsApart DEF Steps
<1>4. /\ owner' \in Owners /\ OneOther' /\ Ours' = Ours \ rs
      /\ UNCHANGED owner["sensor"]
  BY <1>1, <1>2, <1>3, Freed, NoNewOther, PinsApart DEF DriverInd
<1>5. SensorInv'
  BY <1>1, SensorStep DEF DriverInd
<1>6. servoUp' \in BOOLEAN
  BY <1>1, TypesAre DEF DriverInd
<1>7. servoUp' => "servo" \in Ours'
  BY <1>1, <1>3, <1>4, PinsApart, OursIs DEF DriverInd, ServoFollows
<1>8. pc' \in {"request", "gone"} => handler = "off"
  BY <1>1 DEF DriverInd, SensorFollows, vars, Abandon
<1> QED
  BY <1>1, <1>2, <1>4, <1>5, <1>6, <1>7, <1>8, FailureKeepsInd DEF vars

(* Every step of insmod. *)
LEMMA LoadKeepsInd == DriverInd /\ LoadStep => DriverInd'
BY SucceedsKeepsInd, FailsKeepsInd, ServoAndKeysKeepInd, ServoFailsKeepsInd,
   SensorBeginsKeepsInd, SensorWorksKeepsInd, SensorFailsKeepsInd, KeysFailKeepsInd
   DEF LoadStep

(* rmmod: a module that is up gives back all that there is. *)
LEMMA RmmodKeepsInd == DriverInd /\ Rmmod => DriverInd'
<1> SUFFICES ASSUME DriverInd, Rmmod PROVE DriverInd'
  OBVIOUS
<1>1. /\ stage = "up" /\ stage' = "undo" /\ todo' = ExitOrder
      /\ UNCHANGED <<vars, owner, servoUp, thread, loaded, orphan, causes>>
      /\ \A step \in Steps : stage \in Past(step)
  BY PastIs DEF Rmmod, Steps
<1>2. /\ todo' \in Seq(Steps) /\ Len(todo') = 8 /\ Range(todo') = Steps
      /\ \A i, j \in DOMAIN todo' : i < j => todo'[i] # todo'[j]
  BY <1>1, ExitPath
<1>3. Ours' = Ours /\ owner' \in Owners /\ pc = "up" /\ servoUp
  BY <1>1, TypesAre, PastIs DEF DriverInd, Ours, SensorFollows, ServoFollows
<1>4. SensorInv' /\ UNCHANGED <<pc, handler, callback, armed>>
  BY <1>1, SensorStep DEF DriverInd, vars
<1>5. DriverTypeOK'
  <2>1. TypeOK'
    BY <1>4 DEF SensorInv
  <2>2. todo' \in Seq(Range(LoadOrder)) /\ Len(todo') <= Len(ExitOrder)
    BY <1>2, AfterEach, ExitPath
  <2> QED
    BY <1>1, <1>3, <2>1, <2>2 DEF DriverInd, DriverTypeOK, Owners
<1>6. SensorFollows' /\ ServoFollows'
  BY <1>1, <1>2, <1>3, <1>4, NotPast DEF DriverInd, SensorFollows, ServoFollows, Steps
<1>7. Books'
  <2>1. LoadsInOrder'
    BY <1>1, NotPast DEF LoadsInOrder, Steps
  <2>2. Accounted'
    <3>1. \A r \in Pins \cup Objects : \E call \in Range(todo') : r \in Needs(call)
      BY <1>2, PinsApart
    <3>2. Ours' \subseteq Pins \cup Objects
      BY <1>3, OursIs, TypesAre DEF DriverInd
    <3> QED
      BY <1>1, <3>1, <3>2 DEF Accounted, Steps
  <2>3. UndoneOnce'
    <3>1. \A step \in Steps : Needs(step) \subseteq Ours'
      BY <1>1, <1>3 DEF DriverInd, LoadsInOrder
    <3> QED
      BY <1>1, <1>2, <1>3, <3>1 DEF UndoneOnce, Steps
  <2> QED
    BY <2>1, <2>2, <2>3 DEF Books
<1>8. OneOther' /\ CausesKnown'
  BY <1>1, <1>3, <1>4 DEF DriverInd, OneOther, CausesKnown, OrphanHasCause
<1> QED
  BY <1>4, <1>5, <1>6, <1>7, <1>8 DEF DriverInd, Books

(* One call that undoes, except the first half of hc_sr501_deinit.         *)
LEMMA UndoKeepsInd ==
  ASSUME DriverInd, NEW call \in Steps, Undo(call), SensorInv',
         \/ Free(Needs(call)) /\ (call = "servo" => servoUp' = FALSE /\ thread' = FALSE)
         \/ call = "servo" /\ ~servoUp /\ UNCHANGED <<owner, servoUp, thread>>,
         call # "servo" => UNCHANGED <<servoUp, thread>>,
         call = "sensor" => pc = "unhook" /\ pc' = "gone" /\ handler = "off",
         call # "sensor" => UNCHANGED pc,
         UNCHANGED <<handler, callback, armed>>
  PROVE  DriverInd'
<1>1. /\ stage = "undo" /\ stage' = "undo" /\ todo # <<>> /\ call = Head(todo)
      /\ UNCHANGED <<loaded, orphan, causes>> /\ owner \in Owners
      /\ todo' = Tail(todo) /\ todo \in Seq(Steps)
  BY TypesAre DEF Undo, DriverInd
<1>2. owner' \in Owners /\ OneOther'
  BY <1>1, NoNewOther DEF DriverInd
<1>3. \/ Ours' = Ours \ Needs(call)
      \/ call = "servo" /\ ~servoUp /\ Ours' = Ours
  BY <1>1, Freed DEF Ours
<1>4. Books' /\ todo' \in Seq(Steps) /\ Len(todo') <= 8
  BY <1>3, UndoKeepsBooks
<1>5. servoUp' \in BOOLEAN /\ thread' \in BOOLEAN
  BY <1>1, TypesAre DEF DriverInd
<1>6. DriverTypeOK'
  <2>1. TypeOK'
    BY DEF SensorInv
  <2>2. todo' \in Seq(Range(LoadOrder)) /\ Len(todo') <= Len(ExitOrder)
    BY <1>4, AfterEach, ExitPath
  <2> QED
    BY <1>1, <1>2, <1>5, <2>1, <2>2 DEF DriverInd, DriverTypeOK, Owners
<1>7. \A c \in Range(todo) : c # call => c \in Range(todo')
  BY <1>1, Rest
<1>8. pc # "unhook" \/ call = "sensor"
  BY <1>1 DEF DriverInd, SensorFollows
<1>9. SensorFollows'
  <2>1. pc' \in {"up", "gone"} /\ (pc' # "gone" => pc = "up" /\ call # "sensor")
    <3>1. call = "sensor" => pc' = "gone"
      OBVIOUS
    <3>2. pc \in {"up", "unhook", "gone"}
      BY <1>1 DEF DriverInd, SensorFollows
    <3> QED
      BY <1>8, <3>1, <3>2
  <2>2. pc' # "gone" => "sensor" \in Range(todo')
    BY <1>1, <1>7, <2>1 DEF DriverInd, SensorFollows
  <2>3. pc' = "gone" => handler' = "off"
    <3>1. call = "sensor" \/ pc = "gone" \/ pc' # "gone"
      OBVIOUS
    <3> QED
      BY <1>1, <3>1 DEF DriverInd, SensorFollows
  <2>4. pc' # "gone" => owner'["sensor"] = "ours"
    <3> SUFFICES ASSUME pc' # "gone" PROVE owner'["sensor"] = "ours"
      OBVIOUS
    <3>1. owner["sensor"] = "ours" /\ call # "sensor"
      BY <2>1 DEF DriverInd, SensorFollows
    <3>2. "sensor" \notin Needs(call)
      BY <3>1, PinsApart DEF Needs, Steps
    <3> QED
      BY <1>1, <3>1, <3>2, Freed, PinsApart
  <2> QED
    BY <1>1, <2>1, <2>2, <2>3, <2>4, NotPast DEF SensorFollows, Steps
<1>10. ServoFollows'
  <2>1. CASE call = "servo"
    <3>1. CASE servoUp' = FALSE /\ thread' = FALSE
      BY <1>1, <3>1, NotPast DEF ServoFollows, Steps
    <3>2. CASE ~servoUp /\ UNCHANGED <<servoUp, thread>>
      <4>1. ~thread
        BY <3>2 DEF DriverInd, ServoFollows
      <4> QED
        BY <1>1, <3>2, <4>1, NotPast DEF ServoFollows, Steps
    <3> QED
      BY <2>1, <3>1, <3>2
  <2>2. CASE call # "servo"
    <3>1. UNCHANGED <<servoUp, thread>> /\ "servo" \notin Needs(call)
      BY <2>2, PinsApart DEF Needs, Steps
    <3>2. owner["servo"] = "ours" => owner'["servo"] = "ours"
      BY <1>1, <2>2, <3>1, Freed, PinsApart
    <3>3. "servo" \in Range(todo) => "servo" \in Range(todo')
      BY <1>7, <2>2
    <3> QED
      BY <1>1, <3>1, <3>2, <3>3, NotPast DEF DriverInd, ServoFollows, Steps
  <2> QED
    BY <2>1, <2>2
<1>11. CausesKnown'
  <2>1. armed' => pc' \in {"read", "store", "storeAgain", "up"} \/ "late edge" \in causes'
    BY <1>1 DEF DriverInd, CausesKnown
  <2> QED
    BY <1>1, <2>1 DEF DriverInd, CausesKnown, OrphanHasCause
<1> QED
  BY <1>2, <1>4, <1>6, <1>9, <1>10, <1>11 DEF DriverInd, Books

(* Every call that undoes, and the unloading after the last. *)
LEMMA UndoStepKeepsInd == DriverInd /\ UndoStep => DriverInd'
<1> SUFFICES ASSUME DriverInd, UndoStep PROVE DriverInd'
  OBVIOUS
<1>1. ASSUME NEW call \in {"led", "oled", "chrdev", "class", "device", "keys"}, Undo(call),
             Free(IF call = "keys" THEN Range(KeyPins) ELSE {call}),
             UNCHANGED <<vars, servoUp, thread>>
      PROVE  DriverInd'
  <2>1. call \in Steps /\ Free(Needs(call)) /\ call \notin {"sensor", "servo"}
    BY <1>1 DEF Needs, Steps
  <2>2. SensorInv'
    BY <1>1, SensorStep DEF DriverInd
  <2> QED
    BY <1>1, <2>1, <2>2, UndoKeepsInd DEF vars
<1>2. CASE UndoServo
  <2>1. "servo" \in Steps /\ Needs("servo") = {"servo"} /\ Undo("servo") /\ UNCHANGED vars
    BY <1>2 DEF UndoServo, Needs, Steps
  <2>2. SensorInv'
    BY <2>1, SensorStep DEF DriverInd
  <2>3. \/ Free({"servo"}) /\ servoUp' = FALSE /\ thread' = FALSE
        \/ ~servoUp /\ UNCHANGED <<owner, servoUp, thread>>
    BY <1>2 DEF UndoServo
  <2> QED
    BY <2>1, <2>2, <2>3, UndoKeepsInd DEF vars
<1>3. ASSUME Undo("sensor"), FreeIrq, Free({"sensor"}), UNCHANGED <<servoUp, thread>>
      PROVE  DriverInd'
  <2>1. "sensor" \in Steps /\ Needs("sensor") = {"sensor"}
    BY DEF Needs, Steps
  <2>2. SensorInv'
    BY <1>3, SensorStep DEF DriverInd, Next, Unload
  <2> QED
    BY <1>3, <2>1, <2>2, UndoKeepsInd DEF FreeIrq
<1>4. ASSUME stage = "undo", todo # <<>>, Head(todo) = "sensor", StopTimer, UNCHANGED driverVars
      PROVE  DriverInd'
  <2>1. /\ UNCHANGED <<stage, todo, owner, servoUp, thread, loaded, orphan, causes, handler>>
        /\ pc = "up" /\ pc' = "unhook" /\ ~armed' /\ callback' = "off"
    BY <1>4 DEF StopTimer, driverVars
  <2>2. SensorInv'
    BY <1>4, SensorStep DEF DriverInd, Next, Unload
  <2>3. DriverTypeOK'
    BY <2>1, <2>2 DEF DriverInd, SensorInv, DriverTypeOK
  <2>4. SensorFollows' /\ ServoFollows'
    BY <1>4, <2>1, NotPast DEF DriverInd, SensorFollows, ServoFollows, Steps
  <2>5. Books'
    <3>1. Ours' = Ours /\ Leftover' = Leftover
      BY <2>1 DEF Ours, Leftover
    <3>2. LoadsInOrder' /\ UndoneOnce'
      BY <2>1, <3>1 DEF DriverInd, LoadsInOrder, UndoneOnce
    <3>3. Accounted'
      BY <1>4, <2>1, <3>1 DEF DriverInd, Accounted, Steps
    <3> QED
      BY <3>2, <3>3 DEF Books
  <2>6. OneOther' /\ CausesKnown'
    BY <2>1 DEF DriverInd, OneOther, CausesKnown, OrphanHasCause
  <2> QED
    BY <2>2, <2>3, <2>4, <2>5, <2>6 DEF DriverInd, Books
<1>5. CASE Unloaded
  <2>1. /\ stage = "undo" /\ todo = <<>> /\ stage' = "out" /\ armed' = FALSE
        /\ callback' = "off" /\ thread' = FALSE
        /\ orphan' = (orphan \/ armed \/ callback # "off" \/ thread)
        /\ UNCHANGED <<pc, line, state, edge, handler, first, reported,
                       todo, owner, servoUp, loaded, causes>>
    BY <1>5 DEF Unloaded
  <2>2. Range(todo) = {}
    BY <2>1 DEF Range
  <2>3. pc = "gone"
    BY <2>1, <2>2 DEF DriverInd, SensorFollows
  <2>4. SensorInv'
    BY <2>1, <2>3 DEF SensorInv, TypeOK, Phases, Chars, NoEarlyCallback,
                      StaleIsRepaired, NobodyIsTemporary, DriverInd
  <2>5. DriverTypeOK'
    <3>1. orphan' \in BOOLEAN /\ thread' \in BOOLEAN
      BY <2>1, TypesAre DEF DriverInd
    <3> QED
      BY <2>1, <2>4, <3>1 DEF DriverInd, SensorInv, DriverTypeOK
  <2>6. SensorFollows' /\ ServoFollows'
    BY <2>1, <2>3, NotPast DEF DriverInd, SensorFollows, ServoFollows, Steps
  <2>7. Books'
    <3>1. Ours' = Ours /\ Leftover' = Leftover
      BY <2>1 DEF Ours, Leftover
    <3>2. LoadsInOrder'
      BY <2>1, NotPast DEF LoadsInOrder, Steps
    <3>3. UndoneOnce'
      BY <2>1 DEF UndoneOnce
    <3>4. Ours \subseteq Leftover
      BY <2>1, <2>2 DEF DriverInd, Accounted
    <3>5. Accounted'
      BY <2>1, <3>1, <3>4 DEF Accounted, Steps
    <3> QED
      BY <3>2, <3>3, <3>5 DEF Books
  <2>8. OneOther' /\ CausesKnown'
    <3>1. armed \/ callback # "off" \/ thread => causes # {}
      BY <2>1, <2>2, <2>3 DEF DriverInd, CausesKnown, ServoFollows
    <3>2. orphan' => causes' # {}
      BY <2>1, <3>1 DEF DriverInd, CausesKnown, OrphanHasCause
    <3> QED
      BY <2>1, <3>2 DEF DriverInd, OneOther, CausesKnown, OrphanHasCause
  <2> QED
    BY <2>4, <2>5, <2>6, <2>7, <2>8 DEF DriverInd, Books
<1> QED
  BY <1>1, <1>2, <1>3, <1>4, <1>5 DEF UndoStep, UndoPlain, UndoSensor

(* The servo thread, and what an orphan does. *)
LEMMA OthersKeepInd == DriverInd /\ (ThreadRuns \/ Crash \/ Crashed) => DriverInd'
<1> SUFFICES ASSUME DriverInd, ThreadRuns \/ Crash \/ Crashed PROVE DriverInd'
  OBVIOUS
<1>1. CASE ThreadRuns
  <2>1. /\ UNCHANGED <<vars, stage, todo, owner, servoUp, loaded, orphan, causes>>
        /\ thread' \in BOOLEAN
        /\ thread' => stage = "up" /\ thread' = TRUE
    BY <1>1 DEF ThreadRuns
  <2>2. SensorInv'
    BY <2>1, SensorStep DEF DriverInd
  <2>3. DriverTypeOK'
    BY <2>1, <2>2 DEF DriverInd, SensorInv, DriverTypeOK
  <2>4. SensorFollows'
    BY <2>1 DEF DriverInd, SensorFollows, vars
  <2>5. ServoFollows'
    BY <2>1, PastIs DEF DriverInd, ServoFollows
  <2>6. Books'
    <3>1. Ours' = Ours /\ Leftover' = Leftover
      BY <2>1 DEF Ours, Leftover
    <3>2. LoadsInOrder' /\ UndoneOnce'
      BY <2>1, <3>1 DEF DriverInd, LoadsInOrder, UndoneOnce
    <3>3. Accounted'
      BY <2>1, <3>1 DEF DriverInd, Accounted, vars
    <3> QED
      BY <3>2, <3>3 DEF Books
  <2>7. OneOther' /\ CausesKnown'
    BY <2>1 DEF DriverInd, OneOther, CausesKnown, OrphanHasCause, vars
  <2> QED
    BY <2>2, <2>3, <2>4, <2>5, <2>6, <2>7 DEF DriverInd, Books
<1>2. CASE Crash \/ Crashed
  <2>1. /\ UNCHANGED <<line, state, edge, handler, armed, callback, first, reported,
                       todo, owner, servoUp, thread, loaded, orphan, causes>>
        /\ stage' = "crashed" /\ pc' = "gone"
    BY <1>2 DEF Crash, Crashed, allVars, vars, driverVars, DriverInd, SensorFollows
  <2>2. SensorInv'
    BY <2>1 DEF SensorInv, TypeOK, Phases, Chars, NoEarlyCallback,
                StaleIsRepaired, NobodyIsTemporary, DriverInd
  <2>3. DriverTypeOK'
    BY <2>1, <2>2 DEF DriverInd, SensorInv, DriverTypeOK
  <2>4. SensorFollows' /\ ServoFollows'
    BY <2>1, NotPast DEF DriverInd, SensorFollows, ServoFollows, Steps
  <2>5. Books'
    <3>1. LoadsInOrder'
      BY <2>1, NotPast DEF LoadsInOrder, Steps
    <3>2. Accounted' /\ UndoneOnce'
      BY <2>1 DEF DriverInd, Accounted, UndoneOnce, Steps
    <3> QED
      BY <3>1, <3>2 DEF Books
  <2>6. OneOther' /\ CausesKnown'
    BY <2>1 DEF DriverInd, OneOther, CausesKnown, OrphanHasCause
  <2> QED
    BY <2>2, <2>3, <2>4, <2>5, <2>6 DEF DriverInd, Books
<1> QED
  BY <1>1, <1>2

(* Every step of the module and of what runs in it. *)
LEMMA DriverStep == DriverInd /\ [DriverNext]_allVars => DriverInd'
<1>1. DriverInd /\ UNCHANGED allVars => DriverInd'
  <2> SUFFICES ASSUME DriverInd, UNCHANGED allVars PROVE DriverInd'
    OBVIOUS
  <2>1. CASE stage = "crashed"
    BY <2>1, OthersKeepInd DEF Crashed
  <2>2. CASE stage # "crashed"
    <3>1. UNCHANGED <<stage, todo, owner, servoUp, thread, loaded, orphan, causes>>
          /\ UNCHANGED <<pc, line, state, edge, handler, armed, callback, first, reported>>
      BY DEF allVars, vars, driverVars
    <3>2. SensorInv' /\ DriverTypeOK'
      <4>1. SensorInv'
        BY SensorStep DEF DriverInd, allVars
      <4> QED
        BY <3>1, <4>1 DEF DriverInd, SensorInv, DriverTypeOK
    <3>3. Ours' = Ours /\ Leftover' = Leftover
      BY <3>1 DEF Ours, Leftover
    <3>4. SensorFollows' /\ ServoFollows' /\ OneOther' /\ CausesKnown'
      BY <3>1 DEF DriverInd, SensorFollows, ServoFollows, OneOther, CausesKnown, OrphanHasCause
    <3>5. LoadsInOrder' /\ UndoneOnce'
      BY <3>1, <3>3 DEF DriverInd, LoadsInOrder, UndoneOnce
    <3>6. Accounted'
      BY <3>1, <3>3 DEF DriverInd, Accounted
    <3> QED
      BY <3>2, <3>4, <3>5, <3>6 DEF DriverInd
  <2> QED
    BY <2>1, <2>2
<1> QED
  BY <1>1, InsmodKeepsInd, LoadKeepsInd, RmmodKeepsInd, UndoStepKeepsInd, OthersKeepInd,
     SensorRunsKeepsInd DEF DriverNext

-----------------------------------------------------------------------------
(* What follows.                                                           *)

(* The inductive invariant holds in every state, whoever loads and unloads *)
(* the module, however often, and whichever steps fail.                    *)
THEOREM DriverSafe == DriverSpec => []DriverInd
BY DriverStarts, DriverStep, PTL DEF DriverSpec

(* What the image believes it has is what the kernel holds for it.         *)
THEOREM DriverInvHolds == DriverSpec => []DriverInv
<1>1. DriverInd => DriverInv
  <2> SUFFICES ASSUME DriverInd PROVE DriverInv
    OBVIOUS
  <2>1. stage = "up" => Ours = DOMAIN owner
    <3> SUFFICES ASSUME stage = "up" PROVE Ours = DOMAIN owner
      OBVIOUS
    <3>1. owner \in Owners
      BY TypesAre DEF DriverInd
    <3>2. \A step \in Steps : Needs(step) \subseteq Ours
      BY PastIs DEF DriverInd, LoadsInOrder, Steps
    <3>3. Pins \cup Objects \subseteq Ours
      BY <3>2, PinsApart
    <3> QED
      BY <3>1, <3>3 DEF Ours, Owners
  <2> QED
    BY <2>1 DEF DriverInv, DriverInd, SensorFollows, ServoFollows
<1> QED
  BY <1>1, DriverSafe, PTL

(* Presence is never lost while the module is loaded, either. *)
THEOREM NobodyIsNeverFinalInDriver == DriverSpec => []NobodyIsTemporary
<1>1. DriverInd => NobodyIsTemporary
  BY DEF DriverInd, SensorInv
<1> QED
  BY <1>1, DriverSafe, PTL

(* An exit leaves nothing taken, a failed load the servo's or a keypad's   *)
(* pin at most.                                                            *)
THEOREM LeaksAreKnown == DriverSpec => []OnlyKnownLeaks
<1>1. DriverInd => OnlyKnownLeaks
  BY DEF DriverInd, Accounted, OnlyKnownLeaks, Leftover
<1> QED
  BY <1>1, DriverSafe, PTL

(* Code of an unloaded image runs after a late edge or a forgotten thread  *)
(* only.                                                                   *)
THEOREM OrphansHaveCauses == DriverSpec => []OrphanHasCause
<1>1. DriverInd => OrphanHasCause
  BY DEF DriverInd, CausesKnown
<1> QED
  BY <1>1, DriverSafe, PTL

(* A pin that another driver holds is only ever lost to the error path of  *)
(* the key matrix, whose request of that pin has just failed.              *)
THEOREM OthersAreLeftAlone == DriverSpec => OthersKeepTheirs
<1> DEFINE Keeps(pin) ==
      owner[pin] = "other" /\ owner'[pin] # "other"
         => /\ stage = "keys" /\ stage' = "undo"
            /\ pin \in Range(KeyPins)
            /\ \A r \in Range(KeyPins) \ {pin} : owner'[r] # "other"
<1>1. DriverInd /\ [DriverNext]_allVars => [\A pin \in Pins : Keeps(pin)]_allVars
  <2> SUFFICES ASSUME DriverInd, DriverNext, NEW pin \in Pins,
                      owner[pin] = "other", owner'[pin] # "other"
               PROVE  /\ stage = "keys" /\ stage' = "undo"
                      /\ pin \in Range(KeyPins)
                      /\ \A r \in Range(KeyPins) \ {pin} : owner'[r] # "other"
    OBVIOUS
  <2>1. owner \in Owners /\ \A r \in Pins : owner[r] = "other" => r = pin
    BY TypesAre DEF DriverInd, OneOther
  <2>2. ASSUME NEW rs \in SUBSET (Pins \cup Objects), Take(rs) PROVE pin \in rs
    BY <2>1, <2>2, Taken
  <2>3. ASSUME NEW rs, Free(rs) PROVE pin \in rs
    BY <2>1, <2>3, Freed
  <2>4. pin \notin Ours
    BY <2>1 DEF Ours
  <2>5. LoadStep \/ UndoStep
    BY DEF DriverNext, Insmod, Rmmod, Crash, Crashed, SensorRuns, LateTimer, ThreadRuns,
           Reads, allVars, driverVars
  <2>6. ~UndoStep
    <3>1. ~UndoPlain
      <4> SUFFICES ASSUME NEW call \in {"led", "oled", "chrdev", "class", "device", "keys"},
                          Undo(call), Free(IF call = "keys" THEN Range(KeyPins) ELSE {call})
                   PROVE  FALSE
        BY DEF UndoPlain
      <4>1. Free(Needs(call)) /\ call \in Range(todo) /\ stage = "undo"
        BY TypesAre, Rest DEF Needs, Undo, DriverInd
      <4>2. pin \in Needs(call)
        BY <2>3, <4>1
      <4>3. call \in {"led", "keys"}
        BY <4>2, PinsApart, PinAssumption DEF Needs, Pins, Objects
      <4> QED
        BY <2>4, <4>1, <4>2, <4>3 DEF DriverInd, UndoneOnce
    <3>2. ~UndoServo
      BY <2>3 DEF UndoServo, DriverInd, ServoFollows
    <3>3. ~UndoSensor
      BY <2>3 DEF UndoSensor, DriverInd, SensorFollows, FreeIrq, driverVars
    <3> QED
      BY <3>1, <3>2, <3>3 DEF UndoStep, Unloaded
  <2>7. \E i \in DOMAIN KeyPins : KeysFail(i)
    <3>1. ~\E step \in Range(LoadOrder) : Succeeds(step) \/ Fails(step)
      <4>1. \A step \in Steps \ {"keys"} : {step} \in SUBSET (Pins \cup Objects)
        BY PinsApart
      <4> QED
        BY <2>2, <4>1, AfterEach DEF Succeeds, Fails, Steps
    <3>2. ~ServoSucceeds /\ ~ServoFails
      BY <2>2, PinsApart DEF ServoSucceeds, ServoFails
    <3>3. ~SensorBegins /\ ~SensorWorks
      BY <2>2, PinsApart DEF SensorBegins, SensorWorks
    <3>4. ~SensorFails
      BY <2>3 DEF SensorFails, InitFails, DriverInd, SensorFollows
    <3>5. ~KeysSucceed
      BY <2>2, PinsApart DEF KeysSucceed
    <3> QED
      BY <2>5, <2>6, <3>1, <3>2, <3>3, <3>4, <3>5 DEF LoadStep
  <2>8. PICK i \in DOMAIN KeyPins : KeysFail(i)
    BY <2>7
  <2>9. pin \in Range(KeyPins)
    BY <2>3, <2>8, PinsApart DEF KeysFail
  <2>10. \A r \in Range(KeyPins) \ {pin} : owner'[r] # "other"
    <3>1. \A r \in Pins : owner'[r] = "other" => owner[r] = "other"
      BY <2>1, <2>8, Freed DEF KeysFail
    <3> QED
      BY <2>1, <3>1, PinsApart
  <2> QED
    BY <2>8, <2>9, <2>10 DEF KeysFail, Abandon
<1> QED
  BY <1>1, DriverSafe, PTL DEF DriverSpec, OthersKeepTheirs

(* The servo's pin is taken, and no flag says that it is this image's.     *)
Blocked ==
  /\ owner["servo"] = "ours"
  /\ \/ stage \in {"out", "crashed"}
     \/ stage \in {"led", "servo", "undo"} /\ ~servoUp

(* Once an image has left its servo's pin taken, no image comes up again.  *)
THEOREM ServoLeakIsFinal == DriverSpec => LeakedServoBlocks
<1>1. DriverInd /\ Blocked /\ [DriverNext]_allVars => Blocked'
  <2> SUFFICES ASSUME DriverInd, Blocked, DriverNext PROVE Blocked'
    BY DEF Blocked, allVars, driverVars
  <2>1. owner \in Owners /\ stage \notin {"sensor", "oled", "keys", "chrdev", "class", "device", "up"}
        /\ (stage # "crashed" => pc = "gone" \/ stage = "undo")
    BY TypesAre DEF DriverInd, Blocked, SensorFollows
  <2>2. ASSUME NEW rs, Free(rs), "servo" \notin rs PROVE owner'["servo"] = "ours"
    BY <2>1, <2>2, Freed, PinsApart DEF Blocked
  <2>3. ASSUME NEW rs \in SUBSET (Pins \cup Objects), Take(rs) PROVE owner'["servo"] = "ours"
    BY <2>1, <2>3, Taken, PinsApart DEF Blocked
  <2>4. CASE Insmod
    BY <2>4 DEF Insmod, Blocked
  <2>5. CASE LoadStep
    <3>1. ~ServoSucceeds /\ ~SensorBegins /\ ~SensorWorks /\ ~SensorFails /\ ~KeysSucceed
          /\ ~\E i \in DOMAIN KeyPins : KeysFail(i)
      BY <2>1 DEF Blocked, ServoSucceeds, SensorBegins, SensorWorks, SensorFails, KeysSucceed,
                  KeysFail, Abandon
    <3>2. ASSUME NEW step \in Range(LoadOrder), Succeeds(step) PROVE Blocked'
      <4>1. step = "led" /\ stage = "led" /\ stage' = "servo" /\ UNCHANGED servoUp
        BY <2>1, <3>2, AfterEach DEF Succeeds
      <4>2. owner'["servo"] = "ours"
        BY <2>3, <3>2, <4>1, PinsApart DEF Succeeds
      <4> QED
        BY <4>1, <4>2 DEF Blocked
    <3>3. ASSUME NEW step \in Range(LoadOrder), Fails(step) PROVE Blocked'
      BY <2>1, <3>3 DEF Fails, Abandon, Blocked
    <3>4. CASE ServoFails
      BY <3>4 DEF ServoFails, Abandon, Blocked
    <3> QED
      BY <2>5, <3>1, <3>2, <3>3, <3>4 DEF LoadStep
  <2>6. CASE UndoStep
    <3>1. CASE UndoPlain
      <4>1. UNCHANGED <<stage, servoUp>>
        BY <3>1 DEF UndoPlain, Undo
      <4>2. owner'["servo"] = "ours"
        <5> SUFFICES ASSUME NEW call \in {"led", "oled", "chrdev", "class", "device", "keys"},
                            Free(IF call = "keys" THEN Range(KeyPins) ELSE {call})
                     PROVE  owner'["servo"] = "ours"
          BY <3>1 DEF UndoPlain
        <5>1. Free(Needs(call)) /\ "servo" \notin Needs(call)
          BY PinsApart DEF Needs, Steps
        <5> QED
          BY <2>2, <5>1
      <4> QED
        BY <4>1, <4>2 DEF Blocked
    <3>2. CASE UndoServo
      BY <3>2 DEF UndoServo, Undo, Blocked
    <3>3. CASE UndoSensor
      BY <2>2, <3>3 DEF UndoSensor, Undo, driverVars, Blocked
    <3>4. CASE Unloaded
      BY <3>4 DEF Unloaded, Blocked
    <3> QED
      BY <2>6, <3>1, <3>2, <3>3, <3>4 DEF UndoStep
  <2>7. CASE Crash \/ Crashed
    BY <2>7 DEF Crash, Crashed, Blocked, allVars, driverVars
  <2>8. CASE Rmmod \/ SensorRuns \/ LateTimer \/ ThreadRuns \/ Reads
    <3>1. ~Rmmod
      BY <2>1 DEF Rmmod
    <3>2. UNCHANGED <<stage, owner, servoUp>>
      BY <2>8, <3>1 DEF SensorRuns, LateTimer, ThreadRuns, Reads, driverVars
    <3> QED
      BY <3>2 DEF Blocked
  <2> QED
    BY <2>4, <2>5, <2>6, <2>7, <2>8 DEF DriverNext
<1>2. stage = "out" /\ owner["servo"] = "ours" => Blocked
  BY DEF Blocked
<1>3. Blocked => stage # "up"
  BY DEF Blocked
<1> QED
  BY <1>1, <1>2, <1>3, DriverSafe, PTL DEF DriverSpec, LeakedServoBlocks
=============================================================================
