-------------------------- MODULE SmartLockProofs --------------------------
(***************************************************************************)
(* Proofs about the control loop, for every password, every hold time and  *)
(* every mode.  SafetyInv is inductive; the safety properties follow.      *)
(***************************************************************************)
EXTENDS SmartLock, SequenceTheorems, TLAPS

(* What a key leaves in the buffer is again a buffer, never longer than    *)
(* the password (HandlePasswordKey).                                       *)
LEMMA AfterKeyIsBuffer ==
  ASSUME NEW buffer \in Buffers, NEW key \in Keys
  PROVE  AfterKey(buffer, key) \in Buffers
<1>1. buffer \in Seq(Digits) /\ Len(buffer) \in Nat /\ Len(buffer) <= Len(Password)
  BY DEF Buffers
<1>2. Password \in Seq(Digits) /\ Len(Password) \in Nat
  BY PasswordAssumption
<1>3. "*" \notin Digits /\ "#" \notin Digits
  BY DigitsAssumption
<1>4. CASE key \in Digits /\ Len(buffer) < Len(Password)
  <2>1. AfterKey(buffer, key) = Append(buffer, key)
    BY <1>3, <1>4 DEF AfterKey
  <2>2. /\ Append(buffer, key) \in Seq(Digits)
        /\ Len(Append(buffer, key)) = Len(buffer) + 1
    BY <1>1, <1>4
  <2> QED
    BY <1>1, <1>2, <1>4, <2>1, <2>2 DEF Buffers
<1>5. CASE key = "*" /\ buffer # <<>>
  <2>1. AfterKey(buffer, key) = SubSeq(buffer, 1, Len(buffer) - 1)
    BY <1>3, <1>5 DEF AfterKey
  <2>2. Len(buffer) # 0
    BY <1>1, <1>5, EmptySeq
  <2>3. \A i \in 1 .. Len(buffer) - 1 : buffer[i] \in Digits
    BY <1>1
  <2>4. /\ SubSeq(buffer, 1, Len(buffer) - 1) \in Seq(Digits)
        /\ Len(SubSeq(buffer, 1, Len(buffer) - 1)) <= Len(buffer)
    BY <1>1, <2>2, <2>3, SubSeqProperties
  <2>5. Len(SubSeq(buffer, 1, Len(buffer) - 1)) \in Nat
    BY <2>4
  <2> QED
    BY <1>1, <1>2, <2>1, <2>4, <2>5 DEF Buffers
<1>6. CASE /\ ~(key \in Digits /\ Len(buffer) < Len(Password))
           /\ ~(key = "*" /\ buffer # <<>>)
  <2>1. <<>> \in Buffers
    BY <1>2 DEF Buffers
  <2> QED
    BY <1>6, <2>1 DEF AfterKey
<1> QED
  BY <1>4, <1>5, <1>6

(* The window never has more than HoldSeconds left (core/run). *)
LEMMA AgedAndTickedIsWakeState ==
  ASSUME NEW w \in WakeStates, NEW elapsed \in Nat, NEW s \in BOOLEAN
  PROVE  /\ Aged(w, elapsed) \in WakeStates
         /\ Tick(Aged(w, elapsed), s) \in WakeStates
         /\ TickEvent(Aged(w, elapsed), s) \in WakeEvents
<1>1. w.awake \in BOOLEAN /\ w.left \in 0..HoldSeconds
  BY DEF WakeStates
<1>2. TimeLeft(w.left, elapsed) \in 0..HoldSeconds
  BY <1>1, HoldAssumption DEF TimeLeft
<1>3. Aged(w, elapsed) \in WakeStates
  BY <1>1, <1>2 DEF Aged, WakeStates
<1>4. Woken \in WakeStates /\ Asleep \in WakeStates
  BY HoldAssumption DEF Woken, Asleep, WakeStates
<1>5. Tick(Aged(w, elapsed), s) \in WakeStates
  BY <1>3, <1>4 DEF Tick
<1>6. TickEvent(Aged(w, elapsed), s) \in WakeEvents
  BY DEF TickEvent, WakeEvents
<1> QED
  BY <1>3, <1>5, <1>6

(* Every status operation leads from a consistent status to one (state.cpp). *)
LEMMA CtrlKeepsConsistent ==
  ASSUME NEW s \in BootStatuses
  PROVE  /\ WakeFromMotion(s) \in BootStatuses
         /\ UnlockFromFace(s) \in BootStatuses
         /\ UnlockFromPassword(s) \in BootStatuses
         /\ ResetToIdle(s) \in BootStatuses
BY DEF BootStatuses, WakeFromMotion, UnlockFromFace, UnlockFromPassword,
       ResetToIdle, IdleStatus, Status

(* Every status the controller can be in is a well-formed one. *)
LEMMA ConsistentIsStatus == BootStatuses \subseteq Statuses
BY DEF BootStatuses, Statuses, States, WakeReasons, UnlockReasons, IdleStatus,
       Status

-----------------------------------------------------------------------------
(* The loop starts in a safe state, whatever the command line did. *)
LEMMA InitSafe == Init => SafetyInv
<1> SUFFICES ASSUME Init PROVE SafetyInv
  OBVIOUS
<1> USE DEF Init
<1>1. ctrl \in BootStatuses
  BY BootAssumption, CtrlKeepsConsistent
<1>2. <<>> \in Buffers
  BY PasswordAssumption DEF Buffers
<1>3. runtime \in WakeStates
  BY HoldAssumption, WindowAssumption DEF Configured, WakeStates
<1>4. facePending \in BOOLEAN
  BY ModeAssumption
<1>5. unlockLeft \in 0..UnlockSeconds
  BY TimeAssumption
<1>6. TypeOK
  BY <1>1, <1>2, <1>3, <1>4, <1>5, ConsistentIsStatus
     DEF TypeOK, Phases, WakeEvents, ServoStates
<1> QED
  BY <1>1, <1>6, WindowAssumption
     DEF SafetyInv, StatusConsistent, SleptMeansAsleep, AwakeMeansActive,
         SignalEmptiesBuffer, OpenWithoutCamera, FaceOpenNeedsCamera,
         StoppingIsDue, JustOpened, Configured, KeypadOnly


-----------------------------------------------------------------------------
(* Every step keeps the types. *)
LEMMA StepKeepsTypes == SafetyInv /\ [Next]_vars => TypeOK'
<1> SUFFICES ASSUME SafetyInv, [Next]_vars
             PROVE  TypeOK'
  OBVIOUS
<1> USE DEF TypeOK
<1>1. TypeOK /\ ctrl \in BootStatuses
  BY DEF SafetyInv, StatusConsistent
<1>2. /\ WakeFromMotion(ctrl) \in Statuses
      /\ UnlockFromFace(ctrl) \in Statuses
      /\ UnlockFromPassword(ctrl) \in Statuses
      /\ ResetToIdle(ctrl) \in Statuses
  BY <1>1, CtrlKeepsConsistent, ConsistentIsStatus
<1>3. <<>> \in Buffers
  BY PasswordAssumption DEF Buffers
<1>4. Asleep \in WakeStates
  BY HoldAssumption DEF Asleep, WakeStates
<1>5. UnlockSeconds \in 0..UnlockSeconds
  BY TimeAssumption
<1>6. ASSUME NEW motion \in BOOLEAN, NEW simulated \in BOOLEAN,
             NEW elapsed \in Gaps, Sense(motion, simulated, elapsed)
      PROVE  TypeOK'
  <2>1. elapsed \in Nat
    BY TimeAssumption
  <2>2. signal' \in BOOLEAN /\ facePending' \in BOOLEAN
    BY <1>6 DEF Sense
  <2>3. runtime' \in WakeStates /\ event' \in WakeEvents
    BY <1>1, <1>6, <2>1, <2>2, AgedAndTickedIsWakeState DEF Sense, Emptied
  <2>4. ctrl' \in Statuses /\ input' \in Buffers
    BY <1>1, <1>2, <1>3, <1>6 DEF Sense, Emptied
  <2>5. unlockLeft' \in 0..UnlockSeconds
    BY <1>1, <1>6, <2>1, TimeAssumption DEF Sense, Emptied, TimeLeft
  <2> QED
    BY <1>1, <1>6, <2>2, <2>3, <2>4, <2>5 DEF Sense, Emptied, Phases
<1>7. CASE LeaveCamera
  BY <1>1, <1>2, <1>7 DEF LeaveCamera, Rewoken, Phases
<1>8. CASE WakeCamera
  BY <1>1, <1>2, <1>8 DEF WakeCamera, Rewoken, Phases
<1>9. CASE CameraFails
  BY <1>1, <1>2, <1>4, <1>9 DEF CameraFails, Phases
<1>10. CASE StayOpen \/ BeginRelock \/ CallStop
  BY <1>1, <1>10 DEF StayOpen, BeginRelock, CallStop, Phases
<1>11. CASE Relock
  BY <1>1, <1>2, <1>3, <1>11 DEF Relock, Phases
<1>12. ASSUME NEW key \in Keys, PressKey(key)
       PROVE  TypeOK'
  <2>1. input' \in Buffers
    BY <1>1, <1>12, AfterKeyIsBuffer DEF PressKey
  <2> QED
    BY <1>1, <1>2, <1>5, <1>12, <2>1
       DEF PressKey, OpenDoor, StartSweep, Phases, ServoStates
<1>13. CASE SkipFace
  BY <1>1, <1>13 DEF SkipFace, Phases
<1>14. ASSUME NEW hit \in FaceHits, PollFace(hit)
       PROVE  TypeOK'
  BY <1>1, <1>2, <1>5, <1>14
     DEF PollFace, OpenDoor, StartSweep, Phases, ServoStates
<1>15. CASE SleepCamera \/ KeepCamera
  BY <1>1, <1>2, <1>3, <1>15 DEF SleepCamera, KeepCamera, Phases
<1>16. CASE Finish \/ Exit
  BY <1>1, <1>16 DEF Finish, Exit, Phases, WakeEvents, Unlocked
<1>17. CASE ServoThread
  BY <1>1, <1>17 DEF ServoThread, ServoOpens, ServoCloses, ServoEnds,
                     ServoCancelled, ServoMoves, ServoStates
<1>18. CASE UNCHANGED vars
  BY <1>1, <1>18 DEF vars
<1> QED
  BY <1>6, <1>7, <1>8, <1>9, <1>10, <1>11, <1>12, <1>13, <1>14, <1>15, <1>16,
     <1>17, <1>18 DEF Next, Iterate, Ended, Over

-----------------------------------------------------------------------------
(* What SafetyInv says besides the types. *)
Facts ==
  /\ StatusConsistent
  /\ SleptMeansAsleep
  /\ AwakeMeansActive
  /\ SignalEmptiesBuffer
  /\ OpenWithoutCamera
  /\ FaceOpenNeedsCamera
  /\ StoppingIsDue
  /\ JustOpened

(* Sense is the step that opens and closes the window: the facts about the *)
(* window hold because it starts at `top`, where they held.                *)
LEMMA SenseKeepsFacts ==
  ASSUME SafetyInv, NEW motion \in BOOLEAN, NEW simulated \in BOOLEAN,
         NEW elapsed \in Gaps, Sense(motion, simulated, elapsed)
  PROVE  Facts'
<1> USE DEF Sense, Emptied, SafetyInv, Unlocked
<1>1. StatusConsistent'
  BY CtrlKeepsConsistent DEF StatusConsistent
<1>2. Unlocked' <=> Unlocked
  BY DEF WakeFromMotion, Status
<1>3. Unlocked => ctrl' = ctrl
  BY DEF WakeFromMotion
<1>4. SleptMeansAsleep'
  BY DEF SleptMeansAsleep, TickEvent, Tick, Asleep
<1>5. AwakeMeansActive'
  <2>1. CASE signal' /\ runtime.awake
    BY <2>1 DEF AwakeMeansActive
  <2>2. CASE signal' /\ ~runtime.awake
    <3>1. event' = "Woke"
      BY <2>2 DEF TickEvent, Aged
    <3> QED
      BY <3>1 DEF AwakeMeansActive
  <2>3. CASE ~signal'
    <3>1. runtime'.awake => runtime.awake
      BY <2>3 DEF Tick, Aged, Asleep, TypeOK, WakeStates
    <3> QED
      BY <3>1 DEF AwakeMeansActive
  <2> QED
    BY <2>1, <2>2, <2>3
<1>6. SignalEmptiesBuffer'
  BY <1>2 DEF SignalEmptiesBuffer
<1>7. OpenWithoutCamera'
  BY <1>2 DEF OpenWithoutCamera
<1>8. FaceOpenNeedsCamera'
  BY <1>2, <1>3, TimeAssumption DEF FaceOpenNeedsCamera, TimeLeft
<1>9. StoppingIsDue' /\ JustOpened'
  BY DEF StoppingIsDue, JustOpened
<1> QED
  BY <1>1, <1>4, <1>5, <1>6, <1>7, <1>8, <1>9 DEF Facts

(* The camera phase: a failed wake closes the window and resets an open    *)
(* lock, whose buffer is already empty.                                    *)
LEMMA CameraPhaseKeepsFacts ==
  SafetyInv /\ (LeaveCamera \/ WakeCamera \/ CameraFails) => Facts'
<1> SUFFICES ASSUME SafetyInv, LeaveCamera \/ WakeCamera \/ CameraFails
             PROVE  Facts'
  OBVIOUS
<1> USE DEF SafetyInv, Unlocked
<1>1. StatusConsistent'
  BY CtrlKeepsConsistent
     DEF StatusConsistent, LeaveCamera, WakeCamera, CameraFails, Rewoken
<1>2. CASE LeaveCamera \/ WakeCamera
  <2>1. Unlocked' <=> Unlocked
    BY <1>2 DEF LeaveCamera, WakeCamera, Rewoken, WakeFromMotion, Status
  <2>2. Unlocked => ctrl' = ctrl
    BY <1>2 DEF LeaveCamera, WakeCamera, Rewoken
  <2> QED
    BY <1>1, <1>2, <2>1, <2>2
       DEF Facts, LeaveCamera, WakeCamera, SleptMeansAsleep, AwakeMeansActive,
           SignalEmptiesBuffer, OpenWithoutCamera, FaceOpenNeedsCamera,
           StoppingIsDue, JustOpened
<1>3. CASE CameraFails
  <2>1. ~Unlocked' /\ ~runtime'.awake
    BY <1>3 DEF CameraFails, ResetToIdle, IdleStatus, Status, Asleep
  <2>2. SignalEmptiesBuffer'
    BY <1>3 DEF CameraFails, SignalEmptiesBuffer, OpenWithoutCamera
  <2> QED
    BY <1>1, <1>3, <2>1, <2>2
       DEF Facts, CameraFails, SleptMeansAsleep, AwakeMeansActive,
           OpenWithoutCamera, FaceOpenNeedsCamera, StoppingIsDue, JustOpened
<1> QED
  BY <1>2, <1>3

(* A password leaves an empty buffer and an armed deadline behind. *)
LEMMA PressKeyKeepsFacts ==
  ASSUME SafetyInv, NEW key \in Keys, PressKey(key)
  PROVE  Facts'
<1> USE DEF SafetyInv, Unlocked, PressKey
<1>1. StatusConsistent'
  BY CtrlKeepsConsistent DEF StatusConsistent
<1>2. CASE Confirms(input, key)
  <2>1. ctrl' = UnlockFromPassword(ctrl) /\ unlockLeft' = UnlockSeconds
    BY <1>2 DEF OpenDoor
  <2>2. ctrl'.unlock = "Password"
    BY <2>1 DEF UnlockFromPassword, Status
  <2>3. input' = <<>>
    BY <1>2, DigitsAssumption DEF Confirms, AfterKey
  <2> QED
    BY <1>1, <2>1, <2>2, <2>3
       DEF Facts, SleptMeansAsleep, AwakeMeansActive, SignalEmptiesBuffer,
           OpenWithoutCamera, FaceOpenNeedsCamera, StoppingIsDue, JustOpened
<1>3. CASE ~Confirms(input, key)
  BY <1>1, <1>3
     DEF Facts, SleptMeansAsleep, AwakeMeansActive, SignalEmptiesBuffer,
         OpenWithoutCamera, FaceOpenNeedsCamera, StoppingIsDue, JustOpened
<1> QED
  BY <1>2, <1>3

(* A face is accepted only from an active camera within the window. *)
LEMMA PollFaceKeepsFacts ==
  ASSUME SafetyInv, NEW hit \in FaceHits, PollFace(hit)
  PROVE  Facts'
<1> USE DEF SafetyInv, Unlocked, PollFace
<1>1. StatusConsistent'
  BY CtrlKeepsConsistent DEF StatusConsistent
<1>2. CASE Accepts(hit)
  <2>1. camera /\ runtime.awake
    BY <1>2 DEF Accepts, FaceWanted
  <2>2. unlockLeft' = UnlockSeconds
    BY <1>2 DEF OpenDoor
  <2> QED
    BY <1>1, <2>1, <2>2
       DEF Facts, SleptMeansAsleep, AwakeMeansActive, SignalEmptiesBuffer,
           OpenWithoutCamera, FaceOpenNeedsCamera, StoppingIsDue, JustOpened
<1>3. CASE ~Accepts(hit)
  BY <1>1, <1>3
     DEF Facts, SleptMeansAsleep, AwakeMeansActive, SignalEmptiesBuffer,
         OpenWithoutCamera, FaceOpenNeedsCamera, StoppingIsDue, JustOpened
<1> QED
  BY <1>2, <1>3

(* Shutting the lock empties the buffer; the expiry may also put the       *)
(* camera to sleep because the window is closed by then.                   *)
LEMMA ShutKeepsFacts ==
  SafetyInv /\ (Relock \/ SleepCamera) => Facts'
<1> SUFFICES ASSUME SafetyInv, Relock \/ SleepCamera
             PROVE  Facts'
  OBVIOUS
<1> USE DEF SafetyInv, Unlocked
<1>1. StatusConsistent' /\ ~Unlocked'
  BY CtrlKeepsConsistent
     DEF StatusConsistent, Relock, SleepCamera, ResetToIdle, IdleStatus, Status
<1>2. AwakeMeansActive'
  BY DEF AwakeMeansActive, SleptMeansAsleep, Relock, SleepCamera
<1> QED
  BY <1>1, <1>2
     DEF Facts, Relock, SleepCamera, SleptMeansAsleep, SignalEmptiesBuffer,
         OpenWithoutCamera, FaceOpenNeedsCamera, StoppingIsDue, JustOpened

(* The steps that only move the loop on. *)
LEMMA MoveOnKeepsFacts ==
  /\ SafetyInv
  /\ \/ StayOpen \/ BeginRelock \/ CallStop \/ SkipFace \/ KeepCamera
     \/ Finish \/ Exit
  => Facts'
<1> SUFFICES ASSUME SafetyInv,
                    \/ StayOpen \/ BeginRelock \/ CallStop \/ SkipFace
                    \/ KeepCamera \/ Finish \/ Exit
             PROVE  Facts'
  OBVIOUS
<1> USE DEF SafetyInv, Unlocked, Facts, StatusConsistent, SleptMeansAsleep,
            AwakeMeansActive, SignalEmptiesBuffer, OpenWithoutCamera,
            FaceOpenNeedsCamera, StoppingIsDue, JustOpened
<1>1. CASE StayOpen
  BY <1>1 DEF StayOpen
<1>2. CASE BeginRelock
  BY <1>2 DEF BeginRelock
<1>3. CASE SkipFace
  BY <1>3 DEF SkipFace
<1>4. CASE KeepCamera
  BY <1>4 DEF KeepCamera
<1>5. CASE Finish
  BY <1>5 DEF Finish
<1>6. CASE Exit
  BY <1>6 DEF Exit
<1>7. CASE CallStop
  BY <1>7 DEF CallStop
<1> QED
  BY <1>1, <1>2, <1>3, <1>4, <1>5, <1>6, <1>7

(* The servo thread touches nothing else, and never starts by itself. *)
LEMMA ServoKeepsFacts == SafetyInv /\ ServoThread => Facts'
BY DEF SafetyInv, Unlocked, Facts, StatusConsistent, SleptMeansAsleep,
       AwakeMeansActive, SignalEmptiesBuffer, OpenWithoutCamera,
       FaceOpenNeedsCamera, StoppingIsDue, JustOpened, ServoThread, ServoOpens,
       ServoCloses, ServoEnds, ServoCancelled, ServoMoves

(* Every step of the loop and of the servo thread keeps the invariant. *)
LEMMA StepSafe == SafetyInv /\ [Next]_vars => SafetyInv'
<1> SUFFICES ASSUME SafetyInv, [Next]_vars
             PROVE  SafetyInv'
  OBVIOUS
<1>1. TypeOK'
  BY StepKeepsTypes
<1>2. Facts'
  <2>1. CASE UNCHANGED vars
    BY <2>1 DEF vars, SafetyInv, Unlocked, Facts, StatusConsistent,
                SleptMeansAsleep, AwakeMeansActive, SignalEmptiesBuffer,
                OpenWithoutCamera, FaceOpenNeedsCamera, StoppingIsDue,
                JustOpened
  <2>2. CASE Iterate
    BY <2>2, SenseKeepsFacts, CameraPhaseKeepsFacts, PressKeyKeepsFacts,
       PollFaceKeepsFacts, ShutKeepsFacts, MoveOnKeepsFacts DEF Iterate
  <2>3. CASE Exit \/ ServoThread
    BY <2>3, MoveOnKeepsFacts, ServoKeepsFacts
  <2> QED
    BY <2>1, <2>2, <2>3 DEF Next, Ended
<1> QED
  BY <1>1, <1>2 DEF SafetyInv, Facts

-----------------------------------------------------------------------------
(* The loop never leaves the safe states: the status record is consistent, *)
(* the buffer is never longer than the password, and the facts that relate *)
(* the status, the window, the camera and the buffer hold.                 *)
THEOREM Safety == Spec => []SafetyInv
<1>1. Init => SafetyInv
  BY InitSafe
<1>2. SafetyInv /\ [Next]_vars => SafetyInv'
  BY StepSafe
<1> QED
  BY <1>1, <1>2, PTL DEF Spec

(* An open window means an active camera, for every hold time and mode. *)
THEOREM OpenWindowHasCamera == Spec => []AwakeMeansActive
<1>1. SafetyInv => AwakeMeansActive
  BY DEF SafetyInv
<1> QED
  BY <1>1, Safety, PTL

(* Only a key or a face opens the lock: the command line apart, there is   *)
(* no third way.                                                           *)
LEMMA OpenedByKeyOrFace ==
  ASSUME [Next]_vars, ~Unlocked, Unlocked'
  PROVE  \/ \E key \in Keys : PressKey(key) /\ Confirms(input, key)
         \/ \E hit \in FaceHits : PollFace(hit) /\ Accepts(hit)
<1> USE DEF Unlocked
<1>1. ASSUME NEW motion \in BOOLEAN, NEW simulated \in BOOLEAN,
             NEW elapsed \in Gaps, Sense(motion, simulated, elapsed)
      PROVE  FALSE
  <2>1. ctrl' = WakeFromMotion(ctrl) \/ ctrl' = ctrl
    BY <1>1 DEF Sense
  <2> QED
    BY <2>1 DEF WakeFromMotion, Status
<1>2. ASSUME LeaveCamera \/ WakeCamera \/ CameraFails
      PROVE  FALSE
  <2>1. ctrl' = WakeFromMotion(ctrl) \/ ctrl' = ctrl \/ ctrl' = ResetToIdle(ctrl)
    BY <1>2 DEF LeaveCamera, WakeCamera, CameraFails, Rewoken
  <2> QED
    BY <2>1 DEF WakeFromMotion, ResetToIdle, IdleStatus, Status
<1>3. ASSUME NEW key \in Keys, PressKey(key)
      PROVE  Confirms(input, key)
  BY <1>3 DEF PressKey
<1>4. ASSUME NEW hit \in FaceHits, PollFace(hit)
      PROVE  Accepts(hit)
  BY <1>4 DEF PollFace
<1>5. ASSUME Relock \/ SleepCamera
      PROVE  FALSE
  BY <1>5 DEF Relock, SleepCamera, ResetToIdle, IdleStatus, Status
<1>6. ASSUME \/ StayOpen \/ BeginRelock \/ CallStop \/ SkipFace \/ KeepCamera
             \/ Finish \/ Exit \/ ServoThread \/ UNCHANGED vars
      PROVE  FALSE
  BY <1>6 DEF StayOpen, BeginRelock, CallStop, SkipFace, KeepCamera, Finish,
              Exit, ServoThread, ServoOpens, ServoCloses, ServoEnds,
              ServoCancelled, ServoMoves, vars
<1> QED
  BY <1>1, <1>2, <1>3, <1>4, <1>5, <1>6 DEF Next, Iterate, Ended, Over

(* No password, whatever it is, is accepted in an iteration that saw a     *)
(* wake signal: the buffer is empty there, and the password is not.        *)
THEOREM SignalBlocksPassword == Spec => NoPasswordWhileSignalled
<1>1. SafetyInv /\ [Next]_vars => [GrantBy("Password") => ~signal]_vars
  <2> SUFFICES ASSUME SafetyInv, [Next]_vars, GrantBy("Password"), signal
               PROVE  FALSE
    OBVIOUS
  <2>1. CASE \E key \in Keys : PressKey(key) /\ Confirms(input, key)
    BY <2>1, PasswordAssumption
       DEF PressKey, Confirms, SafetyInv, SignalEmptiesBuffer
  <2>2. ASSUME NEW hit \in FaceHits, PollFace(hit), Accepts(hit)
        PROVE  FALSE
    <3>1. ctrl.state = "Awake" /\ ctrl' = UnlockFromFace(ctrl)
      BY <2>2 DEF PollFace, FaceWanted
    <3> QED
      BY <3>1 DEF GrantBy, UnlockFromFace, Status
  <2> QED
    BY <2>1, <2>2, OpenedByKeyOrFace DEF GrantBy
<1> QED
  BY <1>1, Safety, PTL DEF Spec, NoPasswordWhileSignalled

-----------------------------------------------------------------------------
(* Three steps shut an open lock. *)
LEMMA ShutByThree ==
  ASSUME [Next]_vars, Unlocked, ~Unlocked'
  PROVE  Relock \/ CameraFails \/ SleepCamera
<1> USE DEF Unlocked
<1>1. ASSUME NEW motion \in BOOLEAN, NEW simulated \in BOOLEAN,
             NEW elapsed \in Gaps, Sense(motion, simulated, elapsed)
      PROVE  FALSE
  BY <1>1 DEF Sense, WakeFromMotion
<1>2. ASSUME LeaveCamera \/ WakeCamera
      PROVE  FALSE
  BY <1>2 DEF LeaveCamera, WakeCamera, Rewoken
<1>3. ASSUME NEW key \in Keys, PressKey(key)
      PROVE  FALSE
  BY <1>3 DEF PressKey
<1>4. ASSUME NEW hit \in FaceHits, PollFace(hit)
      PROVE  FALSE
  BY <1>4 DEF PollFace, FaceWanted
<1>5. ASSUME \/ StayOpen \/ BeginRelock \/ CallStop \/ SkipFace \/ KeepCamera
             \/ Finish \/ Exit \/ ServoThread \/ UNCHANGED vars
      PROVE  FALSE
  BY <1>5 DEF StayOpen, BeginRelock, CallStop, SkipFace, KeepCamera, Finish,
              Exit, ServoThread, ServoOpens, ServoCloses, ServoEnds,
              ServoCancelled, ServoMoves, vars
<1> QED
  BY <1>1, <1>2, <1>3, <1>4, <1>5 DEF Next, Iterate, Ended, Over

(* An open lock shuts at its deadline with the servo at rest, or because   *)
(* the camera cannot be woken, or because the window expires in the very   *)
(* iteration that took the password; the last two only after a password.   *)
THEOREM OpenLockShuts == Spec => OpenLockShutsOnlyFor
<1>1. SafetyInv /\ [Next]_vars => [Unlocked /\ ~Unlocked' => ShutsFor]_vars
  <2> SUFFICES ASSUME SafetyInv, [Next]_vars, Unlocked, ~Unlocked'
               PROVE  ShutsFor
    OBVIOUS
  <2>1. ctrl.unlock \in {"Face", "Password"}
    BY DEF SafetyInv, StatusConsistent, BootStatuses, IdleStatus, Status,
           Unlocked
  <2>2. CASE Relock
    BY <2>2 DEF Relock, ShutsFor, SafetyInv, StoppingIsDue
  <2>3. CASE CameraFails
    BY <2>1, <2>3 DEF CameraFails, ShutsFor, SafetyInv, FaceOpenNeedsCamera
  <2>4. CASE SleepCamera
    BY <2>1, <2>4
       DEF SleepCamera, ShutsFor, SafetyInv, JustOpened, SleptMeansAsleep
  <2> QED
    BY <2>2, <2>3, <2>4, ShutByThree
<1> QED
  BY <1>1, Safety, PTL DEF Spec, OpenLockShutsOnlyFor

-----------------------------------------------------------------------------
(* The loop implements an access session: its status moves only as Access  *)
(* allows, with who opened the lock and what woke it.                      *)
LEMMA InitIsAccessInit == Init => Door!Init
BY BootAssumption
   DEF Init, Door!Init, BootStatuses, IdleStatus, Status, WakeFromMotion

(* Every step from a safe state is a step of an access session or changes  *)
(* nothing it shows.                                                       *)
LEMMA StepIsAccessStep ==
  SafetyInv /\ [Next]_vars
    => [Door!Next]_<<ctrl.state = "Unlocked", ctrl.unlock, ctrl.wake = "Motion">>
<1> SUFFICES ASSUME SafetyInv, [Next]_vars, ctrl' # ctrl
             PROVE  Door!Next
  OBVIOUS
<1>1. ctrl \in BootStatuses
  BY DEF SafetyInv, StatusConsistent
<1>2. \/ ctrl' = WakeFromMotion(ctrl)
      \/ ctrl' = ResetToIdle(ctrl)
      \/ ctrl' = UnlockFromFace(ctrl) /\ ctrl.state = "Awake"
      \/ ctrl' = UnlockFromPassword(ctrl)
  <2>1. ASSUME NEW motion \in BOOLEAN, NEW simulated \in BOOLEAN,
               NEW elapsed \in Gaps, Sense(motion, simulated, elapsed)
        PROVE  ctrl' = WakeFromMotion(ctrl)
    BY <2>1 DEF Sense
  <2>2. CASE LeaveCamera \/ WakeCamera \/ CameraFails
    BY <2>2 DEF LeaveCamera, WakeCamera, CameraFails, Rewoken
  <2>3. ASSUME NEW key \in Keys, PressKey(key)
        PROVE  ctrl' = UnlockFromPassword(ctrl)
    BY <2>3 DEF PressKey
  <2>4. ASSUME NEW hit \in FaceHits, PollFace(hit)
        PROVE  ctrl' = UnlockFromFace(ctrl) /\ ctrl.state = "Awake"
    BY <2>4 DEF PollFace, FaceWanted
  <2>5. CASE Relock \/ SleepCamera
    BY <2>5 DEF Relock, SleepCamera
  <2>6. ASSUME \/ StayOpen \/ BeginRelock \/ CallStop \/ SkipFace
               \/ KeepCamera \/ Finish \/ Exit \/ ServoThread
               \/ UNCHANGED vars
        PROVE  FALSE
    BY <2>6 DEF StayOpen, BeginRelock, CallStop, SkipFace, KeepCamera,
                Finish, Exit, ServoThread, ServoOpens, ServoCloses, ServoEnds,
                ServoCancelled, ServoMoves, vars
  <2> QED
    BY <2>1, <2>2, <2>3, <2>4, <2>5, <2>6 DEF Next, Iterate, Ended, Over
<1>3. CASE ctrl' = WakeFromMotion(ctrl)
  BY <1>1, <1>3 DEF WakeFromMotion, BootStatuses, IdleStatus, Status,
                    Door!Next, Door!BeginSession
<1>4. CASE ctrl' = ResetToIdle(ctrl)
  BY <1>4 DEF ResetToIdle, IdleStatus, Status, Door!Next, Door!Shut
<1>5. CASE ctrl' = UnlockFromFace(ctrl) /\ ctrl.state = "Awake"
  BY <1>1, <1>5 DEF UnlockFromFace, BootStatuses, IdleStatus, Status,
                    Door!Next, Door!Recognise
<1>6. CASE ctrl' = UnlockFromPassword(ctrl)
  BY <1>1, <1>6 DEF UnlockFromPassword, BootStatuses, IdleStatus, Status,
                    Door!Next, Door!Enter
<1> QED
  BY <1>2, <1>3, <1>4, <1>5, <1>6

(* The control loop implements Access, for every password, every hold time *)
(* and every mode: no face opens a lock that nothing woke, no second       *)
(* credential takes over an open lock, and shutting it ends the session.   *)
THEOREM Implements == Spec => ImplementsAccess
<1>1. Init => Door!Init
  BY InitIsAccessInit
<1>2. SafetyInv /\ [Next]_vars
        => [Door!Next]_<<ctrl.state = "Unlocked", ctrl.unlock,
                         ctrl.wake = "Motion">>
  BY StepIsAccessStep
<1> QED
  BY <1>1, <1>2, Safety, PTL DEF Spec, ImplementsAccess, Door!Spec
=============================================================================
