------------------------------ MODULE NpuModel ------------------------------
(***************************************************************************)
(* The two models of the pipe on the NPU: the detector (yolo_face.cpp) and *)
(* the feature extractor (mobilefacenet.cpp), which live alike.  Loading,  *)
(* running and reading a model may each be refused by the runtime; what it *)
(* hands out, contexts and output buffers, is counted.                     *)
(***************************************************************************)
EXTENDS Naturals, FiniteSets

Roles == {"detector", "extractor"}

VARIABLES
  models,     \* for each model: ctx_ is set, initialized_
  contexts,   \* the contexts that the runtime has handed out
  outputs     \* the output buffers it has handed out

npuVars == <<models, contexts, outputs>>

NoModel == [context |-> FALSE, ready |-> FALSE]

NpuTypeOK ==
  /\ models \in [Roles -> [context : BOOLEAN, ready : BOOLEAN]]
  /\ contexts \in Nat /\ outputs \in Nat

NpuInit ==
  /\ models = [role \in Roles |-> NoModel]
  /\ contexts = 0 /\ outputs = 0

Ready(role) == models[role].ready

(* Release, with which Init begins, also when a model is loaded. *)
AfterRelease(role) == contexts - (IF models[role].context THEN 1 ELSE 0)

(* Mutant: a model that is loaded is not released. *)
LoadModelOver(role) ==
  /\ models' = [models EXCEPT ![role] = [context |-> TRUE, ready |-> TRUE]]
  /\ contexts' = contexts + 1
  /\ UNCHANGED outputs

LoadModel(role) ==
  /\ models' = [models EXCEPT ![role] = [context |-> TRUE, ready |-> TRUE]]
  /\ contexts' = AfterRelease(role) + 1
  /\ UNCHANGED outputs

(* The file cannot be read or rknn_init refuses it; or its inputs and      *)
(* outputs are not those of such a model, and the new context is released. *)
LoadModelFails(role) ==
  /\ models' = [models EXCEPT ![role] = NoModel]
  /\ contexts' = AfterRelease(role)
  /\ UNCHANGED outputs

(* The process ends and takes its contexts with it. *)
Unload ==
  /\ models' = [role \in Roles |-> NoModel]
  /\ contexts' = 0 /\ outputs' = 0

(* RunInference; when a step of it fails there are no outputs. *)
Infers(role) ==
  /\ Ready(role)
  /\ outputs' = outputs + 1
  /\ UNCHANGED <<models, contexts>>

ReleasesOutputs == outputs' = outputs - 1 /\ UNCHANGED <<models, contexts>>

-----------------------------------------------------------------------------
(* However often the models are loaded, over one that is loaded too, and   *)
(* whatever fails, every context handed out is that of one of the models,  *)
(* and a model that is ready has one.                                      *)
ContextsOwned ==
  /\ contexts = Cardinality({role \in Roles : models[role].context})
  /\ \A role \in Roles : models[role].ready => models[role].context
=============================================================================
