------------------------------- MODULE Vision -------------------------------
(***************************************************************************)
(* From a frame to a name: the models on the NPU, the search for the face  *)
(* and the enrolled people, as one process uses them.  The pipe's process  *)
(* loads the people and the models and then looks at frames; another       *)
(* process may enrol people before it, with the same database class.       *)
(***************************************************************************)
EXTENDS FaceFinder, FaceDb, NpuModel

VARIABLE role   \* "enrol", or how far the pipe's process is

vars == <<role, finderVars, dbVars, npuVars>>

VisionInit == role = "enrol" /\ FinderInit /\ DbInit /\ NpuInit

Progress == {"enrol", "start", "people", "detector", "ready", "failed"}

(* The next process finds the file, and everything else is new. *)
NextProcess ==
  /\ pc = "idle"
  /\ role' \in {"enrol", "start"}
  /\ Restart /\ Unload
  /\ UNCHANGED finderVars

Enrolment ==
  /\ role = "enrol"
  /\ \/ \E count \in 1..Len(rows) : Load(count)
     \/ LoadFails \/ Initialise \/ Clear
     \/ \E name \in People, feature \in RawFeatures : Upsert(name, feature)
     \/ UpsertFails
  /\ UNCHANGED <<role, finderVars, npuVars>>

-----------------------------------------------------------------------------
(* The pipe's Initialize: people, detector, extractor (for i8 when it does *)
(* not load for fp32), and a copy of the people for the recogniser.        *)
(* Without any of them the process gives up.                               *)

StartPeople ==
  /\ role = "start"
  /\ \/ role' = "people" /\ \E count \in 1..Len(rows) : Load(count)
     \/ role' = "failed" /\ LoadFails
  /\ UNCHANGED <<finderVars, npuVars>>

StartDetector ==
  /\ role = "people"
  /\ \/ role' = "detector" /\ LoadModel("detector")
     \/ role' = "failed" /\ LoadModelFails("detector")
  /\ UNCHANGED <<finderVars, dbVars>>

StartExtractor ==
  /\ role = "detector"
  /\ \/ role' = "ready" /\ LoadModel("extractor") /\ Reset
     \/ role' = "failed" /\ LoadModelFails("extractor") /\ UNCHANGED dbVars
  /\ UNCHANGED finderVars

-----------------------------------------------------------------------------
(* One poll. *)

Poll(next) ==
  /\ role = "ready"
  /\ Grab(next)
  /\ answer' = Unknown
  /\ UNCHANGED <<role, table, rows, hasPath, records, featureSize, known, view,
                 mixed, npuVars>>

PollDetectFails == DetectFails /\ UNCHANGED <<role, dbVars, npuVars>>

PollInfers(some) ==
  /\ Infer(some)
  /\ Infers("detector")
  /\ UNCHANGED <<role, dbVars>>

PollSuppresses(p) == Suppress(p) /\ UNCHANGED <<role, dbVars, npuVars>>

PollDecodes ==
  /\ Decode
  /\ ReleasesOutputs
  /\ UNCHANGED <<role, dbVars>>

PollChooses ==
  /\ Choose \/ Cut \/ NoFace \/ Incomplete
  /\ UNCHANGED <<role, dbVars, npuVars>>

PollExtractFails == Extracted /\ UNCHANGED <<role, dbVars, npuVars>>

(* After too many failures the extractor is loaded again, for i8, over the *)
(* one that is loaded, and the recogniser gets another copy.               *)
PollFallsBack ==
  /\ crop # "empty" /\ Extracted
  /\ \/ LoadModel("extractor") /\ Reset
     \/ LoadModelFails("extractor") /\ UNCHANGED dbVars
  /\ UNCHANGED role

(* Extract takes its outputs and gives them back. *)
PollRecognises(feature) ==
  /\ crop # "empty" /\ Ready("extractor")
  /\ Extracted
  /\ Recognise(feature)
  /\ UNCHANGED <<role, npuVars>>

-----------------------------------------------------------------------------
VisionNext ==
  \/ NextProcess \/ Enrolment
  \/ StartPeople \/ StartDetector \/ StartExtractor
  \/ \E next \in Frames : Poll(next)
  \/ PollDetectFails
  \/ \E n \in 0..MaxCandidates : \E some \in kSubset(n, Candidates) :
       PollInfers(some)
  \/ \E p \in pending : PollSuppresses(p)
  \/ PollDecodes \/ PollChooses \/ PollExtractFails \/ PollFallsBack
  \/ \E feature \in RawFeatures : PollRecognises(feature)

VisionSpec == VisionInit /\ [][VisionNext]_vars

-----------------------------------------------------------------------------
(* The type invariant of the three parts; and whoever looks at frames has  *)
(* a detector and people to compare with, those of its database.           *)
VisionTypeOK ==
  /\ role = "ready" => known = records /\ known # <<>> /\ Ready("detector")
  /\ role \in Progress
  /\ FinderTypeOK /\ DbTypeOK /\ NpuTypeOK

(* That; every context the runtime has handed out is a model's; and a poll *)
(* gives back the outputs it took, by whichever way it ends.               *)
VisionInv ==
  /\ VisionTypeOK
  /\ ContextsOwned
  /\ (outputs # 0) <=> (pc = "suppress")
=============================================================================
