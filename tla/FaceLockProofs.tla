--------------------------- MODULE FaceLockProofs ---------------------------
(***************************************************************************)
(* Proofs about the control loop composed with the face pipe, for every    *)
(* configuration of both.  A step of the composition is a step of the loop *)
(* and a step of the pipe, so both inductive invariants hold in it; what   *)
(* is added is how the two depend on each other.                           *)
(***************************************************************************)
EXTENDS FaceLock, SmartLockProofs

(* The pipe of FaceLock, with what FacePipeProofs proves about it. *)
Proved == INSTANCE FacePipeProofs WITH Sources <- {"camera"}

(* The pipe's constants are as its proofs assume. *)
LEMMA PipeConstants == Proved!PipeAssumption /\ Proved!SmoothingAssumption
BY VoteAssumption, RecogniserAssumption
   DEF Proved!PipeAssumption, Proved!SmoothingAssumption, Proved!Modes

-----------------------------------------------------------------------------
(* The calls the loop makes are steps of the pipe the proofs are about. *)

(* A call of wake(). *)
LEMMA WakeIsPipeStep ==
  Pipe!WakeNothing \/ Pipe!WakeOpens \/ Pipe!WakeResumes
  \/ Pipe!WakeOpenFails \/ Pipe!WakeResumeFails => Proved!Wake
BY DEF Proved!Wake, Pipe!WakeNothing, Pipe!WakeOpens, Pipe!WakeResumes,
       Pipe!WakeOpenFails, Pipe!WakeResumeFails, Pipe!Woken, Pipe!Forget,
       Pipe!IsCamera, Pipe!vars, Pipe!sourceVars, Pipe!recVars,
       Proved!WakeNothing, Proved!WakeOpens, Proved!WakeResumes,
       Proved!WakeOpenFails, Proved!WakeResumeFails, Proved!Woken,
       Proved!Forget, Proved!IsCamera, Proved!vars, Proved!sourceVars,
       Proved!recVars

(* A call of sleep(). *)
LEMMA SleepIsPipeStep == Pipe!Sleep => Proved!Sleep
BY DEF Pipe!Sleep, Pipe!SleepNothing, Pipe!SleepPauses, Pipe!SleepFails,
       Pipe!Rested, Pipe!SourceSleeps, Pipe!Forget, Pipe!IsCamera,
       Proved!Sleep, Proved!SleepNothing, Proved!SleepPauses,
       Proved!SleepFails, Proved!Rested, Proved!SourceSleeps, Proved!Forget,
       Proved!IsCamera

(* A poll that gives no result. *)
LEMMA PollIsPipeStep == Pipe!PollsInVain => Proved!PollsInVain
BY DEF Pipe!PollsInVain, Pipe!PollInactive, Pipe!PollNoFrame,
       Pipe!PollDetectorFails, Pipe!PollNoFace, Pipe!PollIncomplete,
       Pipe!PollEmptyCrop, Pipe!PollExtractFails, Pipe!PollFallsBack,
       Pipe!PollFallbackFails, Pipe!Frame, Pipe!HasFrame, Pipe!TooManyErrors,
       Pipe!Forget, Pipe!NoHit, Pipe!Hit, Pipe!sourceVars, Pipe!recVars,
       Proved!PollsInVain, Proved!PollInactive, Proved!PollNoFrame,
       Proved!PollDetectorFails, Proved!PollNoFace, Proved!PollIncomplete,
       Proved!PollEmptyCrop, Proved!PollExtractFails, Proved!PollFallsBack,
       Proved!PollFallbackFails, Proved!Frame, Proved!HasFrame,
       Proved!TooManyErrors, Proved!Forget, Proved!NoHit, Proved!Hit,
       Proved!sourceVars, Proved!recVars

(* Both read the votes and the answer alike. *)
LEMMA SameVote ==
  /\ \A h, v : Pipe!Push(h, v) = Proved!Push(h, v)
  /\ \A h, limit : Pipe!Smoothed(h, limit) = Proved!Smoothed(h, limit)
<1>1. ASSUME NEW h PROVE Pipe!BestCandidate(h) = Proved!BestCandidate(h)
  BY DEF Pipe!BestCandidate, Pipe!BestOfFirst, Pipe!Better, Pipe!Tally,
         Pipe!Tallies, Pipe!Candidate, Pipe!NoCandidate, Pipe!NoVotes,
         Proved!BestCandidate, Proved!BestOfFirst, Proved!Better, Proved!Tally,
         Proved!Tallies, Proved!Candidate, Proved!NoCandidate, Proved!NoVotes
<1> QED
  BY <1>1 DEF Pipe!Push, Proved!Push, Pipe!Smoothed, Proved!Smoothed

(* A poll that gives a result. *)
LEMMA ResultIsPipeStep == Pipe!PollsResult => Proved!PollsResult
<1> SUFFICES ASSUME NEW c \in 0..Names, NEW s \in Similarities \cup {0},
                    Pipe!PollRecognises(c, s)
             PROVE  Proved!PollRecognises(c, s)
  BY DEF Pipe!PollsResult, Proved!PollsResult
<1> QED
  BY SameVote
     DEF Pipe!PollRecognises, Pipe!Frame, Pipe!HasFrame, Pipe!Hit,
         Proved!PollRecognises, Proved!Frame, Proved!HasFrame, Proved!Hit

(* Every step of the composition is a step of the pipe, or leaves it alone. *)
LEMMA LockStepIsPipeStep == [LockNext]_lockVars => [Proved!Next]_Proved!vars
<1> SUFFICES ASSUME [LockNext]_lockVars PROVE Proved!Next \/ UNCHANGED Proved!vars
  OBVIOUS
<1>1. CASE /\ UNCHANGED setup
           /\ WakesPipe \/ PipeFails \/ PollsInVain \/ PollsResult \/ SleepsPipe
  BY <1>1, WakeIsPipeStep, SleepIsPipeStep, PollIsPipeStep, ResultIsPipeStep
     DEF WakesPipe, PipeFails, PollsInVain, PollsResult, SleepsPipe, setup,
         Proved!Next, Proved!PollRecognition
<1>2. CASE UNCHANGED pipeVars
  BY <1>2 DEF pipeVars, setup, sourceVars, recVars, voteVars, Proved!vars,
              Proved!sourceVars, Proved!recVars
<1> QED
  BY <1>1, <1>2 DEF LockNext, LoopStep, Aside, lockVars

(* ... and a step of the loop, or leaves it alone. *)
LEMMA LockStepIsLoopStep == [LockNext]_lockVars => [Next]_vars
<1> SUFFICES ASSUME [LockNext]_lockVars PROVE Next \/ UNCHANGED vars
  OBVIOUS
<1>1. \A h : KindOf(h) \in FaceHits
  BY DEF KindOf, FaceHits
<1>2. WakesPipe \/ PipeFails \/ PollsInVain \/ PollsResult \/ SleepsPipe => Next
  BY <1>1 DEF WakesPipe, PipeFails, PollsInVain, PollsResult, SleepsPipe, Next, Iterate
<1>3. Passes => Next
  BY DEF Passes, Next, Iterate
<1>4. Aside(Exit) \/ Aside(ServoThread) \/ Aside(Ended) => Next
  BY DEF Aside, Next
<1> QED
  BY <1>2, <1>3, <1>4 DEF LockNext, LoopStep, lockVars

-----------------------------------------------------------------------------
(* The pipe is initialised, its source is a camera, and the loop knows     *)
(* whether it is active.                                                   *)
Joined ==
  /\ source = "camera" /\ closes = FALSE /\ ready = TRUE /\ consumed = FALSE
  /\ camera <=> active

(* Earlier votes are among those in the window, and only a lost sleep lets *)
(* them in.                                                                *)
EarlierCounted ==
  /\ earlier \in 0..Len(history) /\ lost \in BOOLEAN
  /\ earlier > 0 => lost

(* The camera is active with the window closed only when a sleep was lost, *)
(* or between the expiry and the sleep of one iteration.                   *)
LostOrResting ==
  camera /\ ~runtime.awake /\ ~lost
    => event = "Slept" /\ pc \in {"camera", "act", "face", "expire"}

(* A window that opens finds the camera active only when a sleep was lost. *)
WokeAgain ==
  pc = "camera" /\ event = "Woke" => runtime.awake /\ (camera => lost)

(* A lock with a keypad only has no camera. *)
KeypadRests == KeypadOnly => ~camera

(* The inductive invariant of the composition. *)
LockInv ==
  /\ SafetyInv
  /\ Proved!InductiveInv
  /\ Joined /\ EarlierCounted /\ LostOrResting /\ WokeAgain /\ KeypadRests

(* The composition starts in it. *)
LEMMA InitLock == LockInit => LockInv
<1> SUFFICES ASSUME LockInit PROVE LockInv
  OBVIOUS
<1> USE DEF LockInit, PipeReady
<1>1. SafetyInv
  BY InitSafe
<1>2. /\ Proved!Modes = {"fp32", "i8"} /\ RecMode \in Proved!Modes
      /\ WindowSize \in Nat \ {0} /\ MinVotes \in Nat \ {0} /\ ErrorLimit \in Nat \ {0}
      /\ HasI8 \in BOOLEAN
  BY VoteAssumption, RecogniserAssumption DEF Proved!Modes
<1>3. /\ history \in Seq(Proved!Votes) /\ Len(history) = 0 /\ DOMAIN history = {}
      /\ Len(history) <= WindowSize
  BY <1>2
<1>4. hit \in [detected : BOOLEAN, matched : BOOLEAN] /\ ~hit.matched
  BY DEF Pipe!NoHit, Pipe!Hit
<1>5. /\ recMode \in Proved!Modes /\ extractor \in {"none"} \cup Proved!Modes
      /\ fallback \in BOOLEAN /\ errors \in 0..ErrorLimit /\ sight \in 0..MinVotes
  <2>1. 0 \in 0..ErrorLimit /\ 0 \in 0..MinVotes
    BY <1>2
  <2>2. recMode \in Proved!Modes /\ fallback \in BOOLEAN
    BY <1>2
  <2> QED
    BY <2>1, <2>2
<1>6. Proved!TypeOK
  BY <1>3, <1>4, <1>5 DEF Proved!TypeOK
<1>7. Proved!InductiveInv
  BY <1>2, <1>3, <1>4, <1>5, <1>6
     DEF Proved!InductiveInv, Proved!PipeInv, Proved!FlagsAgree,
         Proved!OneModelPerVote, Proved!FallbackInTime, Proved!Untouched,
         Proved!CountsSight, Proved!MatchNeedsSight
<1>8. Joined /\ EarlierCounted /\ LostOrResting /\ WokeAgain /\ KeypadRests
  <2>1. camera = FALSE /\ pc = "top"
    BY DEF Init
  <2>2. 0 \in 0..Len(history)
    BY <1>3
  <2>3. EarlierCounted
    <3>1. earlier = 0
      OBVIOUS
    <3>2. lost = FALSE
      OBVIOUS
    <3> HIDE DEF LockInit, PipeReady
    <3>3. earlier \in 0..Len(history) /\ ~(earlier > 0)
      BY <2>2, <3>1
    <3>4. lost \in BOOLEAN
      BY <3>2
    <3> QED
      BY <3>3, <3>4 DEF EarlierCounted
  <2>4. Joined
    BY <2>1 DEF Joined
  <2> QED
    BY <2>1, <2>3, <2>4 DEF LostOrResting, WokeAgain, KeypadRests
<1> QED
  BY <1>1, <1>7, <1>8 DEF LockInv

-----------------------------------------------------------------------------
(* What each call of the pipe does to the camera, the votes and the answer. *)

(* A wake opens the window with no votes, unless the camera was active. *)
LEMMA CallsWake ==
  Joined =>
    /\ Pipe!WakeNothing \/ Pipe!WakeOpens \/ Pipe!WakeResumes =>
         /\ active' = TRUE /\ UNCHANGED consumed
         /\ history' = <<>> \/ (active /\ UNCHANGED history)
    /\ Pipe!WakeOpenFails \/ Pipe!WakeResumeFails =>
         /\ UNCHANGED <<active, consumed, history>>
BY DEF Joined, Pipe!WakeNothing, Pipe!WakeOpens, Pipe!WakeResumes,
       Pipe!WakeOpenFails, Pipe!WakeResumeFails, Pipe!Woken, Pipe!Forget,
       Pipe!IsCamera, Pipe!vars, Pipe!sourceVars

(* A sleep rests the camera and forgets the votes. *)
LEMMA CallsSleep ==
  Pipe!Sleep => active' = FALSE /\ history' = <<>> /\ UNCHANGED consumed
BY DEF Pipe!Sleep, Pipe!SleepNothing, Pipe!SleepPauses, Pipe!SleepFails,
       Pipe!Rested, Pipe!Forget

(* A poll in vain adds no vote and matches nobody. *)
LEMMA CallsInVain ==
  Joined /\ Pipe!PollsInVain =>
    /\ UNCHANGED <<active, consumed>>
    /\ history' = <<>> \/ UNCHANGED history
    /\ ~hit'.matched
<1>1. ~Pipe!NoHit.matched /\ ~Pipe!Hit(TRUE, FALSE).matched
  BY DEF Pipe!NoHit, Pipe!Hit
<1> QED
  BY <1>1
     DEF Joined, Pipe!PollsInVain, Pipe!PollInactive, Pipe!PollNoFrame,
         Pipe!PollDetectorFails, Pipe!PollNoFace, Pipe!PollIncomplete,
         Pipe!PollEmptyCrop, Pipe!PollExtractFails, Pipe!PollFallsBack,
         Pipe!PollFallbackFails, Pipe!Frame, Pipe!Forget, Pipe!sourceVars

(* A result adds its vote, and matches only with the sight it needs. *)
LEMMA CallsResult ==
  Joined /\ UNCHANGED source /\ Proved!InductiveInv /\ Pipe!PollsResult =>
    /\ UNCHANGED <<active, consumed>>
    /\ Len(history') = IF Len(history) = WindowSize THEN WindowSize ELSE Len(history) + 1
    /\ hit'.matched => sight' = MinVotes
<1> SUFFICES ASSUME Joined, UNCHANGED source, Proved!InductiveInv, Pipe!PollsResult
             PROVE  /\ UNCHANGED <<active, consumed>>
                    /\ Len(history') = IF Len(history) = WindowSize
                                       THEN WindowSize ELSE Len(history) + 1
                    /\ hit'.matched => sight' = MinVotes
  OBVIOUS
<1>1. PICK c \in 0..Names, s \in Similarities \cup {0} : Pipe!PollRecognises(c, s)
  BY DEF Pipe!PollsResult
<1> DEFINE raw == [candidate |-> c, similarity |-> s, mode |-> recMode]
<1>2. UNCHANGED <<active, consumed>> /\ history' = Pipe!Push(history, raw)
  BY <1>1 DEF Pipe!PollRecognises, Pipe!Frame, Joined
<1>3. /\ history \in Seq(Proved!Votes) /\ Len(history) \in Nat
      /\ Len(history) <= WindowSize /\ WindowSize \in Nat \ {0}
  BY VoteAssumption DEF Proved!InductiveInv, Proved!PipeInv, Proved!TypeOK
<1>4. raw \in Proved!Votes
  BY DEF Proved!InductiveInv, Proved!PipeInv, Proved!TypeOK, Proved!Votes
<1> HIDE DEF raw
<1>5. /\ Append(history, raw) \in Seq(Proved!Votes)
      /\ Len(Append(history, raw)) = Len(history) + 1
  BY <1>3, <1>4
<1>6. Len(history') = IF Len(history) = WindowSize THEN WindowSize ELSE Len(history) + 1
  <2>1. CASE Len(history) = WindowSize
    <3>1. history' = Tail(Append(history, raw))
      BY <1>2, <1>3, <1>5, <2>1 DEF Pipe!Push
    <3>2. Append(history, raw) # <<>>
      BY <1>3, <1>5
    <3>3. Len(Tail(Append(history, raw))) = Len(Append(history, raw)) - 1
      BY <1>5, <3>2
    <3> QED
      BY <1>3, <1>5, <2>1, <3>1, <3>3
  <2>2. CASE Len(history) # WindowSize
    <3>1. history' = Append(history, raw)
      BY <1>2, <1>3, <1>5, <2>2 DEF Pipe!Push
    <3> QED
      BY <1>5, <2>2, <3>1
  <2> QED
    BY <2>1, <2>2
<1>7. hit'.matched => sight' = MinVotes
  <2>1. Proved!MatchNeedsSight'
    BY PipeConstants, ResultIsPipeStep, Proved!ResultKeepsVotes
  <2>2. history' # <<>>
    BY <1>3, <1>6
  <2> QED
    BY <2>1, <2>2 DEF Proved!MatchNeedsSight, Joined
<1> QED
  BY <1>2, <1>6, <1>7

-----------------------------------------------------------------------------
(* A step of the composition keeps what relates the two.                   *)

Relation == Joined /\ EarlierCounted /\ LostOrResting /\ WokeAgain /\ KeypadRests

(* The steps that call the pipe. *)
LEMMA WakesKeepRelation ==
  LockInv /\ UNCHANGED setup /\ (WakesPipe \/ PipeFails) => Relation'
<1> SUFFICES ASSUME LockInv, UNCHANGED setup, WakesPipe \/ PipeFails
             PROVE  Relation'
  OBVIOUS
<1> USE DEF Relation, Joined, EarlierCounted, LostOrResting, WokeAgain,
            KeypadRests, KeypadOnly
<1>1. /\ Joined /\ EarlierCounted /\ LostOrResting /\ WokeAgain /\ KeypadRests
      /\ camera \in BOOLEAN /\ history \in Seq(Proved!Votes) /\ Len(history) \in Nat
  BY DEF LockInv, SafetyInv, TypeOK, Proved!InductiveInv, Proved!PipeInv,
         Proved!TypeOK
<1>2. CASE WakesPipe
  <2>1. /\ active' = TRUE /\ UNCHANGED consumed
        /\ history' = <<>> \/ (active /\ UNCHANGED history)
    BY <1>1, <1>2, CallsWake DEF WakesPipe
  <2>2. /\ pc = "camera" /\ ~KeypadOnly /\ event = "Woke"
        /\ camera' = TRUE /\ pc' = "act" /\ UNCHANGED <<runtime, event>>
        /\ earlier' = Len(history') /\ UNCHANGED lost
    BY <1>2 DEF WakesPipe, WakeCamera
  <2>3. Len(history') \in Nat /\ (Len(history') > 0 => lost)
    <3>1. CASE history' = <<>>
      BY <3>1
    <3>2. CASE active /\ UNCHANGED history
      BY <1>1, <2>2, <3>2
    <3> QED
      BY <2>1, <3>1, <3>2
  <2>4. runtime.awake
    BY <1>1, <2>2
  <2> QED
    BY <1>1, <2>1, <2>2, <2>3, <2>4 DEF setup
<1>3. CASE PipeFails
  <2>1. UNCHANGED <<active, consumed, history>>
    BY <1>1, <1>3, CallsWake DEF PipeFails
  <2>2. ~camera /\ pc' = "act" /\ UNCHANGED <<camera, earlier, lost>>
    BY <1>3 DEF PipeFails, CameraFails
  <2> QED
    BY <1>1, <2>1, <2>2 DEF setup
<1> QED
  BY <1>2, <1>3

(* A poll, and the sleep at the end of a window. *)
LEMMA PollsKeepRelation ==
  LockInv /\ UNCHANGED setup /\ (PollsInVain \/ PollsResult \/ SleepsPipe) => Relation'
<1> SUFFICES ASSUME LockInv, UNCHANGED setup, PollsInVain \/ PollsResult \/ SleepsPipe
             PROVE  Relation'
  OBVIOUS
<1> USE DEF Relation, Joined, EarlierCounted, LostOrResting, WokeAgain,
            KeypadRests, KeypadOnly
<1>1. /\ Joined /\ EarlierCounted /\ LostOrResting /\ WokeAgain /\ KeypadRests
      /\ camera \in BOOLEAN /\ history \in Seq(Proved!Votes) /\ Len(history) \in Nat
      /\ Len(history) <= WindowSize /\ WindowSize \in Nat \ {0}
  BY VoteAssumption
     DEF LockInv, SafetyInv, TypeOK, Proved!InductiveInv, Proved!PipeInv,
         Proved!TypeOK
<1>2. CASE PollsInVain
  <2>1. /\ UNCHANGED <<active, consumed>>
        /\ history' = <<>> \/ UNCHANGED history
    BY <1>1, <1>2, CallsInVain DEF PollsInVain
  <2>2. /\ pc = "face" /\ pc' = "expire" /\ UNCHANGED <<runtime, event, camera, lost>>
        /\ earlier' = IF history' = <<>> THEN 0 ELSE earlier
    BY <1>2 DEF PollsInVain, PollFace
  <2>3. earlier' \in 0..Len(history') /\ (earlier' > 0 => lost')
    <3>1. CASE history' = <<>>
      BY <2>2, <3>1
    <3>2. CASE history' # <<>>
      BY <1>1, <2>1, <2>2, <3>2
    <3> QED
      BY <3>1, <3>2
  <2> QED
    BY <1>1, <2>1, <2>2, <2>3 DEF setup
<1>3. CASE PollsResult
  <2>1. /\ UNCHANGED <<active, consumed>>
        /\ Len(history') = IF Len(history) = WindowSize THEN WindowSize ELSE Len(history) + 1
    BY <1>1, <1>3, CallsResult DEF PollsResult, LockInv, setup
  <2>2. /\ pc = "face" /\ pc' = "expire" /\ UNCHANGED <<runtime, event, camera, lost>>
        /\ earlier' = IF Len(history) = WindowSize /\ earlier > 0
                      THEN earlier - 1 ELSE earlier
    BY <1>3 DEF PollsResult, PollFace
  <2>3. earlier' \in 0..Len(history') /\ (earlier' > 0 => lost')
    BY <1>1, <2>1, <2>2
  <2> QED
    BY <1>1, <2>1, <2>2, <2>3 DEF setup
<1>4. CASE SleepsPipe
  <2>1. active' = FALSE /\ history' = <<>> /\ UNCHANGED consumed
    BY <1>4, CallsSleep DEF SleepsPipe
  <2>2. camera' = FALSE /\ pc' = "finish" /\ earlier' = 0 /\ lost' = FALSE
    BY <1>4 DEF SleepsPipe, SleepCamera
  <2>3. earlier' \in 0..Len(history') /\ ~(earlier' > 0)
    BY <2>1, <2>2
  <2> QED
    BY <1>1, <2>1, <2>2, <2>3 DEF setup
<1> QED
  BY <1>2, <1>3, <1>4

(* The steps that do not. *)
LEMMA SenseKeepsRelation ==
  ASSUME LockInv, UNCHANGED <<pipeVars, earlier>>, NEW motion \in BOOLEAN,
         NEW simulated \in BOOLEAN, NEW elapsed \in Gaps,
         Sense(motion, simulated, elapsed), UNCHANGED lost
  PROVE  Relation'
<1>1. /\ Joined /\ EarlierCounted /\ LostOrResting /\ KeypadRests
      /\ runtime \in WakeStates /\ pc = "top" /\ pc' = "camera" /\ UNCHANGED camera
  BY DEF LockInv, SafetyInv, TypeOK, Sense
<1>2. UNCHANGED <<source, closes, ready, active, consumed, history, earlier, lost>>
  BY DEF pipeVars, setup, sourceVars, voteVars
<1>3. Joined' /\ EarlierCounted' /\ KeypadRests'
  BY <1>1, <1>2 DEF Joined, EarlierCounted, KeypadRests, KeypadOnly
<1> DEFINE aged == Aged(runtime, elapsed)
<1>4. aged.awake = runtime.awake /\ runtime.awake \in BOOLEAN
  BY <1>1 DEF Aged, WakeStates
<1>5. runtime' = Tick(aged, signal') /\ event' = TickEvent(aged, signal')
  BY DEF Sense
<1> HIDE DEF aged
<1>6. LostOrResting'
  <2> SUFFICES ASSUME camera, ~runtime'.awake, ~lost PROVE event' = "Slept"
    BY <1>1, <1>2 DEF LostOrResting
  <2>1. runtime.awake
    BY <1>1 DEF LostOrResting
  <2>2. ~signal' /\ Expired(aged)
    BY <1>4, <1>5, <2>1 DEF Tick, Woken
  <2> QED
    BY <1>5, <2>2 DEF TickEvent
<1>7. WokeAgain'
  <2> SUFFICES ASSUME event' = "Woke" PROVE runtime'.awake /\ (camera => lost)
    BY <1>1, <1>2 DEF WokeAgain
  <2>1. signal' /\ ~aged.awake
    BY <1>5 DEF TickEvent
  <2>2. runtime'.awake
    BY <1>5, <2>1 DEF Tick, Woken
  <2>3. camera => lost
    BY <1>1, <1>4, <2>1 DEF LostOrResting
  <2> QED
    BY <2>2, <2>3
<1> QED
  BY <1>3, <1>6, <1>7 DEF Relation

(* The other steps of the loop, which leave the pipe alone. *)
LEMMA PassingKeepsRelation ==
  LockInv /\ Passes /\ lost' = (lost \/ Loses) /\ UNCHANGED <<pipeVars, earlier>>
    => Relation'
<1> SUFFICES ASSUME LockInv, Passes, lost' = (lost \/ Loses),
                    UNCHANGED <<pipeVars, earlier>>
             PROVE  Relation'
  OBVIOUS
<1>1. /\ Joined /\ EarlierCounted /\ LostOrResting /\ WokeAgain /\ KeypadRests
      /\ camera \in BOOLEAN /\ StoppingIsDue
  BY DEF LockInv, SafetyInv, TypeOK
<1>2. UNCHANGED <<source, closes, ready, active, consumed, history, earlier>>
  BY DEF pipeVars, setup, sourceVars, voteVars
<1>3. lost' \in BOOLEAN /\ (lost => lost') /\ (pc # "act" => lost' = lost)
  BY <1>1 DEF EarlierCounted, Loses, StayOpen, BeginRelock
<1>4. ASSUME NEW motion \in BOOLEAN, NEW simulated \in BOOLEAN, NEW elapsed \in Gaps,
             Sense(motion, simulated, elapsed)
      PROVE  Relation'
  <2>1. UNCHANGED lost
    BY <1>3, <1>4 DEF Sense
  <2> QED
    BY <1>4, <2>1, SenseKeepsRelation
<1>5. UNCHANGED camera => Joined' /\ EarlierCounted' /\ KeypadRests'
  BY <1>1, <1>2, <1>3 DEF Joined, EarlierCounted, KeypadRests, KeypadOnly
<1> USE DEF LostOrResting, WokeAgain
<1>6. CASE LeaveCamera \/ SkipFace
  <2>1. /\ UNCHANGED <<camera, runtime, event>> /\ lost' = lost
        /\ pc \in {"camera", "face"} /\ pc' \in {"act", "expire"}
    BY <1>3, <1>6 DEF LeaveCamera, SkipFace
  <2> QED
    BY <1>1, <1>5, <2>1 DEF Relation
<1>7. CASE StayOpen \/ BeginRelock
  <2>1. /\ UNCHANGED <<camera, runtime, event>> /\ pc = "act"
        /\ pc' \in {"finish", "stopping", "reading"}
        /\ event = "Slept" => lost'
    BY <1>7 DEF Loses, StayOpen, BeginRelock
  <2> QED
    BY <1>1, <1>3, <1>5, <2>1 DEF Relation
<1>8. CASE CallStop \/ Relock \/ Finish
  <2>1. /\ UNCHANGED <<camera, runtime>> /\ lost' = lost
        /\ pc \in {"reading", "stopping", "finish"} /\ pc' # "camera"
    BY <1>3, <1>8 DEF CallStop, Relock, Finish
  <2> QED
    BY <1>1, <1>5, <2>1 DEF Relation
<1>9. ASSUME NEW key \in Keys, PressKey(key) PROVE Relation'
  <2>1. /\ UNCHANGED <<camera, runtime, event>> /\ pc = "act" /\ pc' = "face"
    BY <1>9 DEF PressKey
  <2> QED
    BY <1>1, <1>3, <1>5, <2>1 DEF Relation
<1>10. CASE KeepCamera
  <2>1. /\ UNCHANGED <<camera, runtime, event>> /\ lost' = lost
        /\ pc' = "finish"
        /\ KeypadOnly \/ event # "Slept"
    BY <1>3, <1>10 DEF KeepCamera
  <2> QED
    BY <1>1, <1>5, <2>1 DEF Relation, KeypadRests
<1> QED
  BY <1>4, <1>6, <1>7, <1>8, <1>9, <1>10 DEF Passes

(* The exit of the process and the servo thread. *)
LEMMA AsideKeepsRelation ==
  LockInv /\ (Aside(Exit) \/ Aside(ServoThread) \/ Aside(Ended) \/ UNCHANGED lockVars)
    => Relation'
<1> SUFFICES ASSUME LockInv,
                    Aside(Exit) \/ Aside(ServoThread) \/ Aside(Ended) \/ UNCHANGED lockVars
             PROVE  Relation'
  OBVIOUS
<1>1. /\ UNCHANGED <<camera, runtime, event, pipeVars, earlier, lost>>
      /\ pc' = pc \/ (pc = "top" /\ pc' = "exited")
  BY DEF Aside, Exit, ServoThread, ServoOpens, ServoCloses, ServoEnds,
         ServoCancelled, ServoMoves, Ended, lockVars, vars
<1>2. UNCHANGED <<source, closes, ready, active, consumed, history>>
  BY <1>1 DEF pipeVars, setup, sourceVars, voteVars
<1> QED
  BY <1>1, <1>2
     DEF LockInv, Relation, Joined, EarlierCounted, LostOrResting, WokeAgain,
         KeypadRests, KeypadOnly

(* Every step keeps the invariant. *)
LEMMA StepLock == LockInv /\ [LockNext]_lockVars => LockInv'
<1> SUFFICES ASSUME LockInv, [LockNext]_lockVars PROVE LockInv'
  OBVIOUS
<1>1. SafetyInv'
  BY LockStepIsLoopStep, StepSafe DEF LockInv
<1>2. Proved!InductiveInv'
  BY LockStepIsPipeStep, PipeConstants, Proved!StepPipe DEF LockInv
<1>3. Relation'
  BY WakesKeepRelation, PollsKeepRelation, PassingKeepsRelation, AsideKeepsRelation
     DEF LockNext, LoopStep
<1> QED
  BY <1>1, <1>2, <1>3 DEF LockInv, Relation

(* The inductive invariant holds in every state. *)
THEOREM LockSafe == LockSpec => []LockInv
BY InitLock, StepLock, PTL DEF LockSpec

(* A step of the composition is a step of the control loop: with the pipe  *)
(* in the place of free choices, the loop does nothing that SmartLock does *)
(* not allow, and its safety holds here too.                               *)
THEOREM LockRefinesLoop == LockSpec => Init /\ [][Next]_vars /\ []SafetyInv
<1>1. LockInit => Init
  BY DEF LockInit
<1>2. LockInv => SafetyInv
  BY DEF LockInv
<1> QED
  BY <1>1, <1>2, LockSafe, LockStepIsLoopStep, PTL DEF LockSpec

(* The types of both, and that the loop's camera is the pipe's source.     *)
THEOREM LockTypes == LockSpec => []LockTypeOK
<1>1. LockInv => LockTypeOK
  <2> SUFFICES ASSUME LockInv PROVE LockTypeOK
    OBVIOUS
  <2>1. TypeOK /\ Proved!TypeOK /\ Joined /\ EarlierCounted
    BY DEF LockInv, SafetyInv, Proved!InductiveInv, Proved!PipeInv
  <2>2. Proved!Modes = Pipe!Modes /\ Proved!Votes = Pipe!Votes
    BY DEF Proved!Modes, Pipe!Modes, Proved!Votes, Pipe!Votes
  <2>3. open \in BOOLEAN /\ active \in BOOLEAN /\ sleeping \in BOOLEAN /\ fallback \in BOOLEAN
    BY <2>1 DEF Proved!TypeOK
  <2>4. [open |-> open, active |-> active, sleeping |-> sleeping, fallback |-> fallback]
          \in [{"open", "active", "sleeping", "fallback"} -> BOOLEAN]
    BY <2>3
  <2> QED
    BY <2>1, <2>2, <2>4 DEF LockTypeOK, Proved!TypeOK, Joined, EarlierCounted, setup
<1> QED
  BY <1>1, LockSafe, PTL

(* The pipe rests while the window is closed, unless a sleep was lost.     *)
THEOREM PipeRests == LockSpec => []RestsUnlessLost
<1>1. LockInv => RestsUnlessLost
  BY DEF LockInv, LostOrResting, Joined, RestsUnlessLost
<1> QED
  BY <1>1, LockSafe, PTL

(* A face is judged by the votes of its own window, with that exception.   *)
THEOREM VotesAreOfThisWindow == LockSpec => []VotesOfThisWindow
<1>1. LockInv => VotesOfThisWindow
  BY DEF LockInv, EarlierCounted, VotesOfThisWindow
<1> QED
  BY <1>1, LockSafe, PTL

-----------------------------------------------------------------------------
(* A face opens the lock in a poll, with a hit the loop accepts.           *)
LEMMA FaceGrantIsPoll ==
  ASSUME LockInv, LockNext, GrantBy("Face")
  PROVE  /\ UNCHANGED setup
         /\ PollsInVain \/ PollsResult
         /\ Accepts(KindOf(hit'))
<1> USE DEF GrantBy, Unlocked
<1>1. /\ ctrl \in BootStatuses /\ ctrl.state # "Unlocked"
      /\ ctrl'.state = "Unlocked" /\ ctrl'.unlock = "Face"
  BY DEF LockInv, SafetyInv, StatusConsistent
<1>2. /\ ctrl' # ctrl
      /\ ctrl' # WakeFromMotion(ctrl) /\ ctrl' # ResetToIdle(ctrl)
      /\ ctrl' # UnlockFromPassword(ctrl)
  BY <1>1 DEF BootStatuses, WakeFromMotion, ResetToIdle, UnlockFromPassword,
              IdleStatus, Status
<1>3. ~WakesPipe /\ ~PipeFails /\ ~SleepsPipe
  BY <1>2 DEF WakesPipe, PipeFails, SleepsPipe, WakeCamera, CameraFails,
              SleepCamera, Rewoken
<1>4. ~Passes
  BY <1>2 DEF Passes, Sense, LeaveCamera, StayOpen, BeginRelock, CallStop, Relock,
              PressKey, SkipFace, KeepCamera, Finish, Rewoken
<1>5. ~Aside(Exit) /\ ~Aside(ServoThread) /\ ~Aside(Ended)
  BY <1>2 DEF Aside, Exit, ServoThread, ServoOpens, ServoCloses, ServoEnds,
              ServoCancelled, ServoMoves, Ended, vars
<1>6. UNCHANGED setup /\ (PollsInVain \/ PollsResult)
  BY <1>3, <1>4, <1>5 DEF LockNext, LoopStep
<1>7. Accepts(KindOf(hit'))
  BY <1>2, <1>6 DEF PollsInVain, PollsResult, PollFace
<1> QED
  BY <1>6, <1>7

(* Where a match is required, a face opens the lock only with the          *)
(* recognised frames a vote needs.                                         *)
THEOREM FaceGrantIsSeen ==
  ASSUME MatchRequired
  PROVE  LockSpec => GrantNeedsSight
<1>1. LockInv /\ [LockNext]_lockVars
        => [GrantBy("Face") => hit'.matched /\ sight' = MinVotes]_lockVars
  <2> SUFFICES ASSUME LockInv, LockNext, GrantBy("Face")
               PROVE  hit'.matched /\ sight' = MinVotes
    OBVIOUS
  <2>1. UNCHANGED setup /\ (PollsInVain \/ PollsResult) /\ Accepts(KindOf(hit'))
    BY FaceGrantIsPoll
  <2>2. hit'.matched
    BY <2>1 DEF Accepts, KindOf
  <2>3. ~PollsInVain
    BY <2>2, CallsInVain DEF PollsInVain, LockInv
  <2> QED
    BY <2>1, <2>2, <2>3, CallsResult DEF PollsResult, LockInv, setup
<1> QED
  BY <1>1, LockSafe, PTL DEF LockSpec, GrantNeedsSight
=============================================================================
