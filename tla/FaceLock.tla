------------------------------ MODULE FaceLock ------------------------------
(***************************************************************************)
(* The control loop (SmartLock) composed with the face pipe it drives      *)
(* (FacePipe): where SmartLock only knows a camera that is active or not   *)
(* and a hit that comes from nowhere, here face.Wake, face.Sleep and       *)
(* face.PollRecognition are the calls of the pipe, so that a grant can be  *)
(* traced back to the frames it rests on.  The loop's source is a camera,  *)
(* the pipe is initialised before the loop starts, and the loop never      *)
(* calls Deactivate.                                                       *)
(***************************************************************************)
EXTENDS SmartLock, Integers

CONSTANTS Names, WindowSize, MinVotes, RecMode, HasI8, ErrorLimit, Threshold,
          Similarities

ASSUME VoteAssumption ==
  /\ Names \in Nat
  /\ WindowSize \in Nat \ {0}
  /\ MinVotes \in Nat \ {0}

ASSUME RecogniserAssumption ==
  /\ RecMode \in {"fp32", "i8"}
  /\ HasI8 \in BOOLEAN
  /\ ErrorLimit \in Nat \ {0}
  /\ Threshold \in [{"fp32", "i8"} -> Int]
  /\ Similarities \subseteq Int

VARIABLES
  source, closes, ready,                       \* fixed: see PipeReady
  open, active, pipeline, sleeping, consumed,  \* the pipe's frame source
  extractor, recMode, fallback, errors,        \* its recogniser
  history, hit, sight,                         \* its vote
  earlier,  \* votes in the history from before the window last opened
  lost      \* the window has expired under an open lock: no sleep was called

Pipe == INSTANCE FacePipe WITH Sources <- {"camera"}

setup      == <<source, closes, ready>>
sourceVars == <<open, active, pipeline, sleeping, consumed>>
recVars    == <<extractor, recMode, fallback, errors>>
voteVars   == <<history, hit, sight>>
pipeVars   == <<setup, sourceVars, recVars, voteVars>>
lockVars   == <<vars, pipeVars, earlier, lost>>

(* FacePipe::Initialize has succeeded, with the configured model or, when  *)
(* that did not load, with the i8 one.                                     *)
PipeReady ==
  /\ source = "camera" /\ closes = FALSE /\ ready = TRUE
  /\ open = FALSE /\ active = FALSE
  /\ pipeline = "none" /\ sleeping = FALSE /\ consumed = FALSE
  /\ \/ recMode = RecMode /\ fallback = FALSE
     \/ RecMode = "fp32" /\ HasI8 /\ recMode = "i8" /\ fallback = TRUE
  /\ extractor = recMode /\ errors = 0
  /\ history = <<>> /\ hit = Pipe!NoHit /\ sight = 0

LockInit == Init /\ PipeReady /\ earlier = 0 /\ lost = FALSE

-----------------------------------------------------------------------------
(* The steps of the loop that call the pipe.                               *)

(* Opening the window makes what the history still holds earlier votes. *)
WakesPipe ==
  /\ Pipe!WakeNothing \/ Pipe!WakeOpens \/ Pipe!WakeResumes
  /\ WakeCamera
  /\ earlier' = Len(history')
  /\ UNCHANGED lost

PipeFails ==
  /\ Pipe!WakeOpenFails \/ Pipe!WakeResumeFails
  /\ CameraFails
  /\ UNCHANGED <<earlier, lost>>

KindOf(h) ==
  IF h.matched THEN "matched" ELSE IF h.detected THEN "detected" ELSE "none"

PollsInVain ==
  /\ Pipe!PollsInVain
  /\ PollFace(KindOf(hit'))
  /\ earlier' = IF history' = <<>> THEN 0 ELSE earlier
  /\ UNCHANGED lost

(* A vote that is pushed out of a full window is the oldest. *)
PollsResult ==
  /\ Pipe!PollsResult
  /\ PollFace(KindOf(hit'))
  /\ earlier' = IF Len(history) = WindowSize /\ earlier > 0
                 THEN earlier - 1 ELSE earlier
  /\ UNCHANGED lost

SleepsPipe ==
  /\ Pipe!Sleep
  /\ SleepCamera
  /\ earlier' = 0
  /\ lost' = FALSE

-----------------------------------------------------------------------------
(* The steps that do not. *)

Loses == event = "Slept" /\ (StayOpen \/ BeginRelock)

Passes ==
  \/ \E motion, simulated \in BOOLEAN, elapsed \in Gaps :
       Sense(motion, simulated, elapsed)
  \/ LeaveCamera \/ StayOpen \/ BeginRelock \/ CallStop \/ Relock
  \/ \E key \in Keys : PressKey(key)
  \/ SkipFace \/ KeepCamera \/ Finish

LoopStep ==
  \/ /\ WakesPipe \/ PipeFails \/ PollsInVain \/ PollsResult \/ SleepsPipe
     /\ UNCHANGED setup
  \/ Passes /\ lost' = (lost \/ Loses) /\ UNCHANGED <<pipeVars, earlier>>

Aside(step) == step /\ UNCHANGED <<pipeVars, earlier, lost>>

LockNext == LoopStep \/ Aside(Exit) \/ Aside(ServoThread) \/ Aside(Ended)

LockSpec ==
  /\ LockInit /\ [][LockNext]_lockVars
  /\ WF_lockVars(LoopStep) /\ WF_lockVars(Aside(ServoThread))

-----------------------------------------------------------------------------
(* The type invariant.  What the loop may conclude about the camera from   *)
(* its own calls is what the pipe holds: the pipe is active exactly between *)
(* a wake that succeeded and the sleep at the expiry.                      *)
LockTypeOK ==
  /\ TypeOK
  /\ setup = <<"camera", FALSE, TRUE>>
  /\ [open |-> open, active |-> active, sleeping |-> sleeping,
      fallback |-> fallback] \in
        [{"open", "active", "sleeping", "fallback"} -> BOOLEAN]
  /\ pipeline \in {"none", "playing", "paused"} /\ consumed = FALSE
  /\ extractor \in {"none"} \cup Pipe!Modes /\ recMode \in Pipe!Modes
  /\ errors \in 0..ErrorLimit
  /\ history \in Seq(Pipe!Votes) /\ Len(history) <= WindowSize
  /\ hit \in [detected : BOOLEAN, matched : BOOLEAN] /\ sight \in 0..MinVotes
  /\ earlier \in 0..Len(history) /\ lost \in BOOLEAN
  /\ camera <=> active

-----------------------------------------------------------------------------
(* Properties of the composition.                                          *)

(* The pipe rests while the window is closed, unless a window expired      *)
(* while the lock was open: the loop does not act on that expiry.          *)
RestsUnlessLost ==
  pc = "top" /\ ~runtime.awake /\ ~lost => ~active

(* A face is judged by the frames of the current window alone, with the    *)
(* same exception: the source stayed active, so the next face.Wake returns *)
(* early and keeps the votes for whoever stood there before.               *)
VotesOfThisWindow == earlier > 0 => lost

(* A face opens the lock only with the recognised frames a vote needs,     *)
(* counted from when the face was last lost, the model replaced or the     *)
(* camera woken.                                                           *)
GrantNeedsSight == [][GrantBy("Face") => hit'.matched /\ sight' = MinVotes]_lockVars

(* Each iteration sees a wake signal, the camera wakes, and every frame    *)
(* polled shows the first enrolled person clearly.                         *)
Favourable ==
  /\ pc = "top" /\ pc' = "camera" => signal'
  /\ pc = "camera" /\ pc' = "act" => runtime'.awake
  /\ pc = "face" /\ pc' = "expire" /\ FaceWanted =>
       \E s \in Similarities :
         s >= Threshold[recMode] /\ Pipe!PollRecognises(1, s)

(* Somebody known who stays in front of a lock that is kept awake is let   *)
(* in, and again after every relock.                                       *)
KnownFaceGetsIn ==
  <>[][Favourable]_lockVars => ([]<>Unlocked \/ <>Over)
=============================================================================
