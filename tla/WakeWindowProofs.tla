-------------------------- MODULE WakeWindowProofs --------------------------
(* Theorems about WakeWindow. *)
EXTENDS WakeWindow, TLAPS

(* The configured window is asleep. *)
LEMMA WindowInit == Init => WindowInv
<1> SUFFICES ASSUME Init PROVE WindowInv
  OBVIOUS
<1>1. awake \in BOOLEAN
  BY WindowAssumption DEF Init
<1>2. deadline \in 0..Never
  BY HoldAssumption, ClockAssumption DEF Init, Always, Never
<1>3. ~(UseWindow /\ awake)
  BY DEF Init
<1> QED
  BY <1>1, <1>2, <1>3 DEF Init, WindowInv, TypeOK, OpenMeansRecent, WakeEvents

(* A wake moves the deadline along with the last signal. *)
LEMMA WakeKeepsWindow ==
  ASSUME WindowInv, NEW elapsed \in Gaps, Wake(elapsed)
  PROVE  WindowInv'
<1>1. now' \in 0..Horizon
  BY ClockAssumption DEF WindowInv, TypeOK, Wake
<1>2. deadline' \in 0..Never
  BY <1>1, HoldAssumption, ClockAssumption DEF Wake, Never
<1>3. UseWindow => now' < last' + HoldSeconds /\ deadline' = last' + HoldSeconds
  BY <1>1, HoldAssumption, ClockAssumption DEF Wake
<1>4. event' \in WakeEvents
  BY DEF Wake, WakeEvents
<1> QED
  BY <1>1, <1>2, <1>3, <1>4 DEF Wake, WindowInv, TypeOK, OpenMeansRecent, Never

(* A tick that does not close the window leaves it before its deadline. *)
LEMMA QuietKeepsWindow ==
  ASSUME WindowInv, NEW elapsed \in Gaps, Quiet(elapsed)
  PROVE  WindowInv'
<1>1. now' \in 0..Horizon /\ now' >= now
  BY ClockAssumption DEF WindowInv, TypeOK, Quiet
<1>2. CASE UseWindow /\ awake /\ now' >= deadline
  <2>1. ~awake' /\ awake' \in BOOLEAN /\ deadline' = 0 /\ event' = "Slept"
    BY <1>2 DEF Quiet, Always
  <2>2. deadline' \in 0..Never
    BY <2>1, HoldAssumption, ClockAssumption DEF Never
  <2> QED
    BY <1>1, <2>1, <2>2
       DEF Quiet, WindowInv, TypeOK, OpenMeansRecent, WakeEvents, Never
<1>3. CASE ~(UseWindow /\ awake /\ now' >= deadline)
  BY <1>1, <1>3, HoldAssumption, WindowAssumption, ClockAssumption
     DEF WindowInv, TypeOK, OpenMeansRecent, WakeEvents, Always, Never, Quiet
<1> QED
  BY <1>2, <1>3

(* Every call keeps the invariant. *)
LEMMA WindowStep == WindowInv /\ [Next]_vars => WindowInv'
<1> SUFFICES ASSUME WindowInv, [Next]_vars PROVE WindowInv'
  OBVIOUS
<1>1. ASSUME NEW elapsed \in Gaps, Wake(elapsed) PROVE WindowInv'
  BY <1>1, WakeKeepsWindow
<1>2. ASSUME NEW elapsed \in Gaps, Quiet(elapsed) PROVE WindowInv'
  BY <1>2, QuietKeepsWindow
<1>3. CASE Sleep
  <2>1. ~awake' /\ awake' \in BOOLEAN /\ event' = "Slept" /\ deadline' = 0
    BY <1>3 DEF Sleep, Always
  <2>2. deadline' \in 0..Never
    BY <2>1, HoldAssumption, ClockAssumption DEF Never
  <2> QED
    BY <1>3, <2>1, <2>2
       DEF Sleep, WindowInv, TypeOK, OpenMeansRecent, WakeEvents, Never
<1>4. CASE UNCHANGED vars
  BY <1>4 DEF vars, WindowInv, TypeOK, OpenMeansRecent, WakeEvents, Never
<1> QED
  BY <1>1, <1>2, <1>3, <1>4 DEF Next

(* A wake is a signalled step of the relative form. *)
LEMMA WakeIsRelative ==
  ASSUME WindowInv, NEW elapsed \in Gaps, Wake(elapsed)
  PROVE  RelativeStep(now' - now, TRUE)
<1>1. now' - now = elapsed /\ now' \in Nat /\ HoldSeconds \in Nat \ {0}
  BY HoldAssumption, ClockAssumption DEF Wake, WindowInv, TypeOK
<1>2. UseWindow => TimeLeft(deadline', now') = HoldSeconds
  BY <1>1 DEF Wake, TimeLeft
<1>3. View' = Woken
  BY <1>1, <1>2, WindowAssumption DEF View, Woken, Wake
<1>4. Aged(View, elapsed).awake = awake
  BY DEF View, Aged
<1>5. event' = TickEvent(Aged(View, elapsed), TRUE)
  BY <1>4 DEF Wake, TickEvent, WindowInv, TypeOK
<1> QED
  BY <1>1, <1>3, <1>5 DEF RelativeStep, Tick

(* The time left until a deadline ages with the clock. *)
LEMMA TimeLeftAges ==
  ASSUME NEW d \in Nat, NEW t \in Nat, NEW e \in Nat
  PROVE  TimeLeft(TimeLeft(d, t), e) = TimeLeft(d, t + e)
BY DEF TimeLeft

(* The deadline has passed when no time is left until it. *)
LEMMA DueIsZero ==
  ASSUME NEW d \in Nat, NEW t \in Nat
  PROVE  TimeLeft(d, t) = 0 <=> t >= d
BY DEF TimeLeft

(* A tick without a signal is a quiet step of the relative form. *)
LEMMA QuietIsRelative ==
  ASSUME WindowInv, NEW elapsed \in Gaps, Quiet(elapsed)
  PROVE  RelativeStep(now' - now, FALSE)
<1> DEFINE w == Aged(View, elapsed)
<1>1. /\ now \in Nat /\ elapsed \in Nat /\ now' = now + elapsed
      /\ deadline \in Nat /\ now' - now = elapsed /\ now' \in Nat
  BY HoldAssumption, ClockAssumption
     DEF Quiet, WindowInv, TypeOK, Never
<1>2. w = [awake |-> awake,
           left |-> IF UseWindow THEN TimeLeft(deadline, now') ELSE 0]
  <2>1. TimeLeft(0, elapsed) = 0
    BY <1>1 DEF TimeLeft
  <2>2. TimeLeft(TimeLeft(deadline, now), elapsed) = TimeLeft(deadline, now')
    BY <1>1, TimeLeftAges
  <2> QED
    BY <2>1, <2>2, WindowAssumption DEF View, Aged
<1>3. Expired(w) <=> UseWindow /\ awake /\ now' >= deadline
  BY <1>1, <1>2, DueIsZero, WindowAssumption DEF Expired
<1>4. CASE UseWindow /\ awake /\ now' >= deadline
  <2>1. awake' = FALSE /\ deadline' = 0
    BY <1>4 DEF Quiet, Always
  <2>2. TimeLeft(0, now') = 0
    BY <1>1 DEF TimeLeft
  <2>3. View' = Asleep
    BY <2>1, <2>2 DEF View, Asleep
  <2>4. event' = "Slept"
    BY <1>4 DEF Quiet
  <2> QED
    BY <2>3, <2>4, <1>1, <1>3, <1>4 DEF RelativeStep, Tick, TickEvent
<1>5. CASE ~(UseWindow /\ awake /\ now' >= deadline)
  <2>1. View' = w
    BY <1>2, <1>5 DEF Quiet, View
  <2>2. event' = "None"
    BY <1>5 DEF Quiet
  <2> QED
    BY <2>1, <2>2, <1>1, <1>3, <1>5 DEF RelativeStep, Tick, TickEvent
<1> QED
  BY <1>4, <1>5

(* For every hold time and clock: an open window has seen a signal within  *)
(* the hold time.                                                          *)
THEOREM WindowIsRecent == Spec => []OpenMeansRecent
<1>1. WindowInv => OpenMeansRecent
  BY DEF WindowInv
<1> QED
  BY <1>1, WindowInit, WindowStep, PTL DEF Spec

(* For every hold time and clock: a tick closes the window only when the   *)
(* hold time has passed since the last signal.                             *)
THEOREM ExpiryIsQuiet == Spec => ExpiryMeansQuiet
<1>1. ASSUME WindowInv, [Next]_vars
      PROVE  [event' = "Slept" /\ now' # now => now' >= last + HoldSeconds]_vars
  <2>1. ASSUME NEW elapsed \in Gaps, Wake(elapsed) PROVE event' # "Slept"
    BY <2>1 DEF Wake
  <2>2. ASSUME NEW elapsed \in Gaps, Quiet(elapsed), event' = "Slept"
        PROVE  now' >= last + HoldSeconds
    <3>1. UseWindow /\ awake /\ now' >= deadline
      BY <2>2 DEF Quiet
    <3>2. deadline = last + HoldSeconds
      BY <1>1, <3>1 DEF WindowInv, OpenMeansRecent
    <3> QED
      BY <3>1, <3>2
  <2>3. CASE Sleep
    BY <2>3 DEF Sleep
  <2> QED
    BY <1>1, <2>1, <2>2, <2>3 DEF Next
<1> QED
  BY <1>1, WindowInit, WindowStep, PTL DEF Spec, ExpiryMeansQuiet

(* For every hold time and clock: WakeCtl with absolute deadlines is what  *)
(* the control loop's model composes.                                      *)
THEOREM RelativeForm == Spec => RelativeFormIsExact
<1>1. ASSUME WindowInv, [Next]_vars
      PROVE  [\/ \E signal \in BOOLEAN : RelativeStep(now' - now, signal)
              \/ now' = now /\ View' = Asleep]_vars
  <2>1. ASSUME NEW elapsed \in Gaps, Wake(elapsed)
        PROVE  RelativeStep(now' - now, TRUE)
    BY <1>1, <2>1, WakeIsRelative
  <2>2. ASSUME NEW elapsed \in Gaps, Quiet(elapsed)
        PROVE  RelativeStep(now' - now, FALSE)
    BY <1>1, <2>2, QuietIsRelative
  <2>3. CASE Sleep
    <3>1. TimeLeft(0, now) = 0
      BY <1>1 DEF TimeLeft, WindowInv, TypeOK
    <3> QED
      BY <2>3, <3>1 DEF Sleep, View, Asleep, Always
  <2> QED
    BY <1>1, <2>1, <2>2, <2>3 DEF Next
<1> QED
  BY <1>1, WindowInit, WindowStep, PTL DEF Spec, RelativeFormIsExact
=============================================================================
