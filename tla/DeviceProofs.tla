---------------------------- MODULE DeviceProofs ----------------------------
(***************************************************************************)
(* What the processes that use the character device at a time can do to    *)
(* each other, for any number of them: with the servo, where a stop may    *)
(* come from any process (Servo), with the keypad, whose scans and inputs  *)
(* interleave step by step (KeyMatrix), and with the screen, whose updates *)
(* share a frame buffer and a bus (Oled).                                  *)
(*                                                                         *)
(* Each part has its inductive invariant: ServoInv (in Servo) and AloneInv *)
(* below for the servo with one process, MatrixInd for the keypad and      *)
(* ScreenInd for the screen.                                               *)
(***************************************************************************)
EXTENDS Device, Servo, FiniteSetTheorems, SequenceTheorems, TLAPS
(* The module has moved the servo to the lock position. *)
LEMMA ServoInit == Init => ServoInv
BY NoneAssumption
   DEF Init, ServoInv, TypeOK, ThreadStates, ClientStates, OpenIsHeld

(* Whatever a client does, it moves to the lock or a test position and     *)
(* changes no running thread.                                              *)
LEMMA ClientKeepsInv ==
  ASSUME ServoInv, NEW c \in Clients, ClientWorks(c) \/ ClientCalls(c)
  PROVE  ServoInv'
<1> USE DEF ServoInv, TypeOK, ThreadStates, ClientStates, OpenIsHeld,
            ClientGoes, ThreadGoes
<1>1. CASE StoreTask(c)
  BY <1>1 DEF StoreTask
<1>2. CASE CreateFails(c) \/ ClearError(c) \/ EndLock(c) \/ EndTest(c)
  BY <1>2 DEF CreateFails, ClearError, EndLock, EndTest
<1>3. CASE ForgetTask(c) \/ LockOnly(c) \/ TestMove(c)
  BY <1>3 DEF ForgetTask, LockOnly, TestMove
<1>4. CASE ReadTask(c)
  BY <1>4 DEF ReadTask
<1>5. CASE CallStop(c)
  BY <1>5 DEF CallStop
<1>6. ASSUME NEW t \in Threads, Create(c, t) PROVE ServoInv'
  <2>1. \A u \in Threads : thread[u] = "open" => thread'[u] = "open"
    BY <1>6 DEF Create
  <2>2. TypeOK'
    BY <1>6 DEF Create
  <2> QED
    BY <1>6, <2>1, <2>2 DEF Create
<1> QED
  BY <1>1, <1>2, <1>3, <1>4, <1>5, <1>6 DEF ClientWorks, ClientCalls

(* Waking the waiting clients leaves them in a known state. *)
LEMMA StoppersAreTyped ==
  ASSUME TypeOK, NEW t \in Threads, WakeStoppers(t)
  PROVE  client' \in [Clients -> ClientStates]
BY DEF TypeOK, WakeStoppers, ClientStates

(* A thread is at the unlock position from its Opens to its Closes. *)
LEMMA ThreadKeepsInv ==
  ASSUME ServoInv, NEW t \in Threads, ThreadRuns(t)
  PROVE  ServoInv'
<1>1. CASE Opens(t)
  BY <1>1 DEF Opens, ServoInv, TypeOK, ThreadStates, OpenIsHeld, ThreadGoes
<1>2. CASE Closes(t)
  BY <1>2 DEF Closes, ServoInv, TypeOK, ThreadStates, OpenIsHeld, ThreadGoes
<1>3. CASE Ends(t) \/ Exits(t) \/ Cancelled(t)
  <2>1. thread[t] # "open" /\ UNCHANGED <<position, target>>
    BY <1>3 DEF Ends, Exits, Cancelled, ThreadGoes
  <2>2. \A u \in Threads : thread[u] = "open" => thread'[u] = "open"
    BY <1>3, <2>1 DEF Ends, Exits, Cancelled, ThreadGoes, ServoInv, TypeOK
  <2>3. client' \in [Clients -> ClientStates]
    BY <1>3, StoppersAreTyped DEF Ends, Exits, Cancelled, ServoInv, TypeOK
  <2>4. TypeOK'
    BY <1>3, <2>1, <2>3
       DEF Ends, Exits, Cancelled, ThreadGoes, ServoInv, TypeOK, ThreadStates
  <2> QED
    BY <2>1, <2>2, <2>4 DEF ServoInv, OpenIsHeld
<1> QED
  BY <1>1, <1>2, <1>3 DEF ThreadRuns

(* Every step of every client and thread keeps the invariant. *)
LEMMA ServoStep == ServoInv /\ [Next]_vars => ServoInv'
<1>1. ServoInv /\ UNCHANGED vars => ServoInv'
  BY DEF vars, ServoInv, TypeOK, OpenIsHeld
<1> QED
  BY <1>1, ClientKeepsInv, ThreadKeepsInv DEF Next

(* However many clients start, stop and move the servo at the same time,   *)
(* it is not left at the unlock position.                                  *)
THEOREM ServoIsNeverLeftOpen == Spec => []NeverLeftOpen
<1>1. ServoInv => NeverLeftOpen
  BY DEF ServoInv, OpenIsHeld, NeverLeftOpen, Sweeping
<1> QED
  BY <1>1, ServoInit, ServoStep, PTL DEF Spec

(* What the only client may rely on.  A thread is at work exactly while    *)
(* servo_task points to it, apart from the moment between its creation and *)
(* the store of its pointer.                                               *)
Runs(t)     == thread[t] \in {"ready", "open", "close"}
OnlyRuns(u) == \A t \in Threads : Runs(t) <=> t = u
NoneRuns    == \A t \in Threads : ~Runs(t)

(* servo_task shows what is at work. *)
TaskRuns ==
  \/ task = "NULL" /\ NoneRuns
  \/ task \in Threads /\ OnlyRuns(task)

SingleInv(c) ==
  /\ \A d \in Clients \ {c} : client[d] = "idle"
  /\ client[c] = "idle" => TaskRuns
  /\ client[c] = "created" =>
       task = "NULL" /\ target[c] \in Threads /\ OnlyRuns(target[c])
  /\ client[c] = "failed" => task = "error" /\ NoneRuns
  /\ client[c] \in {"reading", "stopping"} =>
       TaskRuns /\ target[c] \in Threads /\ task \in {"NULL", target[c]}
  /\ client[c] = "stopped" => NoneRuns
  /\ client[c] \in {"crashed", "locking", "testing"} => task = "NULL" /\ NoneRuns

(* The inductive invariant behind the refinement. *)
AloneInv == ServoInv /\ \A c \in Clients : users = {c} => SingleInv(c)

(* A client is the only one only if no other has the device open. *)
LEMMA OneUser ==
  ASSUME NEW c \in Clients, users = {c}, NEW d \in users PROVE d = c
OBVIOUS

(* Nothing runs at the start. *)
LEMMA AloneAtFirst == Init => AloneInv
<1> SUFFICES ASSUME Init PROVE AloneInv
  OBVIOUS
<1>1. ServoInv
  BY ServoInit
<1>2. ASSUME NEW c \in Clients PROVE SingleInv(c)
  <2>1. task = "NULL" /\ thread = [t \in Threads |-> "free"]
        /\ client = [d \in Clients |-> "idle"]
    BY DEF Init
  <2>2. NoneRuns
    BY <2>1 DEF NoneRuns, Runs
  <2> QED
    BY <2>1, <2>2 DEF SingleInv, TaskRuns
<1> QED
  BY <1>1, <1>2 DEF AloneInv

(* What the only client does keeps to it. *)
LEMMA ClientAlone ==
  ASSUME TypeOK, NEW c \in Clients, users = {c}, SingleInv(c), NEW d \in Clients,
         ClientWorks(d) \/ ClientCalls(d)
  PROVE  SingleInv(c)'
<1>1. d = c /\ users' = users
  BY DEF ClientWorks, ClientCalls, StoreTask, ClearError, CallStop, ForgetTask,
         EndLock, EndTest, Create, CreateFails, ReadTask, LockOnly, TestMove,
         ClientGoes
<1>2. client \in [Clients -> ClientStates] /\ target \in [Clients -> Threads \cup {"NULL", "error"}]
      /\ thread \in [Threads -> ThreadStates] /\ task \in Threads \cup {"NULL", "error"}
  BY DEF TypeOK
<1> USE DEF ClientGoes, ThreadGoes
<1>3. CASE StoreTask(c)
  <2>1. client[c] = "created" /\ task = "NULL" /\ target[c] \in Threads /\ OnlyRuns(target[c])
    BY <1>3 DEF StoreTask, SingleInv
  <2>2. client' = [client EXCEPT ![c] = "idle"] /\ task' = target[c] /\ thread' = thread
    BY <1>3 DEF StoreTask
  <2>3. TaskRuns'
    BY <2>1, <2>2 DEF TaskRuns, OnlyRuns, Runs
  <2> QED
    BY <1>2, <2>2, <2>3 DEF SingleInv
<1>4. CASE ClearError(c)
  <2>1. client[c] = "failed" /\ NoneRuns
    BY <1>4 DEF ClearError, SingleInv
  <2>2. client' = [client EXCEPT ![c] = "idle"] /\ task' = "NULL" /\ thread' = thread
    BY <1>4 DEF ClearError
  <2>3. TaskRuns'
    <3>1. NoneRuns' /\ task' = "NULL"
      BY <2>1, <2>2 DEF NoneRuns, Runs
    <3> QED
      BY <3>1 DEF TaskRuns
  <2> QED
    BY <1>2, <2>2, <2>3 DEF SingleInv
<1>5. CASE CallStop(c)
  <2>1. /\ client[c] = "reading" /\ target[c] \in Threads /\ TaskRuns
        /\ task \in {"NULL", target[c]}
    BY <1>5 DEF CallStop, SingleInv
  <2>2. /\ UNCHANGED <<task, thread, target>>
        /\ IF thread[target[c]] # "free"
           THEN client' = [client EXCEPT ![c] = "stopping"]
           ELSE \/ client' = [client EXCEPT ![c] = "stopped"]
                \/ client' = [client EXCEPT ![c] = "crashed"]
    BY <1>5, <2>1, NoneAssumption DEF CallStop
  <2>3. thread[target[c]] = "free" => task = "NULL" /\ NoneRuns
    BY <2>1, NoneAssumption DEF TaskRuns, OnlyRuns, Runs
  <2>4. TaskRuns' = TaskRuns /\ NoneRuns' = NoneRuns
    BY <2>2 DEF TaskRuns, OnlyRuns, NoneRuns, Runs
  <2>5. CASE thread[target[c]] # "free"
    BY <1>2, <2>1, <2>2, <2>4, <2>5 DEF SingleInv
  <2>6. CASE thread[target[c]] = "free"
    BY <1>2, <2>1, <2>2, <2>3, <2>4, <2>6 DEF SingleInv
  <2> QED
    BY <2>5, <2>6
<1>6. CASE ForgetTask(c) \/ LockOnly(c)
  <2>1. NoneRuns
    BY <1>6, NoneAssumption DEF ForgetTask, LockOnly, SingleInv, TaskRuns
  <2>2. client' = [client EXCEPT ![c] = "locking"] /\ task' = "NULL" /\ thread' = thread
    BY <1>6 DEF ForgetTask, LockOnly
  <2>3. NoneRuns'
    BY <2>1, <2>2 DEF NoneRuns, Runs
  <2> QED
    BY <1>2, <2>2, <2>3 DEF SingleInv
<1>7. CASE EndLock(c) \/ EndTest(c)
  <2>1. task = "NULL" /\ NoneRuns
    BY <1>7 DEF EndLock, EndTest, SingleInv
  <2>2. client' = [client EXCEPT ![c] = "idle"] /\ UNCHANGED <<task, thread>>
    BY <1>7 DEF EndLock, EndTest
  <2>3. TaskRuns'
    <3>1. NoneRuns' /\ task' = "NULL"
      BY <2>1, <2>2 DEF NoneRuns, Runs
    <3> QED
      BY <3>1 DEF TaskRuns
  <2> QED
    BY <1>2, <2>2, <2>3 DEF SingleInv
<1>8. CASE TestMove(c)
  <2>1. task = "NULL" /\ NoneRuns
    BY <1>8 DEF TestMove, SingleInv
  <2>2. client' = [client EXCEPT ![c] = "testing"] /\ UNCHANGED <<task, thread>>
    BY <1>8 DEF TestMove
  <2>3. NoneRuns'
    BY <2>1, <2>2 DEF NoneRuns, Runs
  <2> QED
    BY <1>2, <2>1, <2>2, <2>3 DEF SingleInv
<1>9. ASSUME NEW t \in Threads, Create(c, t) PROVE SingleInv(c)'
  <2>1. client[c] = "idle" /\ task = "NULL" /\ NoneRuns
    BY <1>9, NoneAssumption DEF Create, SingleInv, TaskRuns
  <2>2. /\ client' = [client EXCEPT ![c] = "created"] /\ task' = "NULL"
        /\ thread' = [thread EXCEPT ![t] = "ready"] /\ target' = [target EXCEPT ![c] = t]
    BY <1>9, <2>1 DEF Create
  <2>3. target'[c] = t
    BY <1>2, <2>2
  <2>4. OnlyRuns(t)'
    BY <1>2, <2>1, <2>2 DEF OnlyRuns, NoneRuns, Runs
  <2>5. OnlyRuns(target[c])'
    BY <2>3, <2>4 DEF OnlyRuns, Runs
  <2> QED
    BY <1>2, <2>2, <2>3, <2>5 DEF SingleInv
<1>10. CASE CreateFails(c)
  <2>1. NoneRuns
    BY <1>10, NoneAssumption DEF CreateFails, SingleInv, TaskRuns
  <2>2. client' = [client EXCEPT ![c] = "failed"] /\ task' = "error" /\ thread' = thread
    BY <1>10 DEF CreateFails
  <2>3. NoneRuns'
    BY <2>1, <2>2 DEF NoneRuns, Runs
  <2> QED
    BY <1>2, <2>2, <2>3 DEF SingleInv
<1>11. CASE ReadTask(c)
  <2>1. client[c] = "idle" /\ TaskRuns /\ task \in Threads
    BY <1>11 DEF ReadTask, SingleInv, TaskRuns
  <2>2. /\ client' = [client EXCEPT ![c] = "reading"] /\ UNCHANGED <<task, thread>>
        /\ target' = [target EXCEPT ![c] = task]
    BY <1>11 DEF ReadTask
  <2>3. TaskRuns' /\ target'[c] = task
    BY <1>2, <2>1, <2>2 DEF TaskRuns, OnlyRuns, NoneRuns, Runs
  <2> QED
    BY <1>2, <2>1, <2>2, <2>3 DEF SingleInv
<1> QED
  BY <1>1, <1>3, <1>4, <1>5, <1>6, <1>7, <1>8, <1>9, <1>10, <1>11
     DEF ClientWorks, ClientCalls

(* What the threads do keeps to it. *)
LEMMA ThreadAlone ==
  ASSUME TypeOK, NEW c \in Clients, users = {c}, SingleInv(c), NEW t \in Threads,
         ThreadRuns(t)
  PROVE  SingleInv(c)'
<1>1. client \in [Clients -> ClientStates] /\ target \in [Clients -> Threads \cup {"NULL", "error"}]
      /\ thread \in [Threads -> ThreadStates] /\ task \in Threads \cup {"NULL", "error"}
  BY DEF TypeOK
<1>2. CASE Opens(t) \/ Closes(t)
  <2>1. /\ UNCHANGED <<task, client, target>>
        /\ \/ thread[t] = "ready" /\ thread' = [thread EXCEPT ![t] = "open"]
           \/ thread[t] = "open" /\ thread' = [thread EXCEPT ![t] = "close"]
    BY <1>2 DEF Opens, Closes, ThreadGoes
  <2>2. \A u \in Threads : Runs(u)' <=> Runs(u)
    BY <1>1, <2>1 DEF Runs
  <2>3. TaskRuns' = TaskRuns /\ NoneRuns' = NoneRuns
        /\ \A u \in Threads : OnlyRuns(u)' = OnlyRuns(u)
    BY <2>1, <2>2 DEF TaskRuns, NoneRuns, OnlyRuns
  <2>4. client[c] = "created" => OnlyRuns(target[c])'
    <3> SUFFICES ASSUME client[c] = "created"
                 PROVE  \A u \in Threads : Runs(u)' <=> u = target'[c]
      BY DEF OnlyRuns
    <3>1. \A u \in Threads : Runs(u) <=> u = target[c]
      BY DEF SingleInv, OnlyRuns
    <3>2. target'[c] = target[c]
      BY <2>1
    <3> QED
      BY <2>2, <3>1, <3>2
  <2> QED
    BY <2>1, <2>3, <2>4 DEF SingleInv
<1>3. CASE Ends(t)
  <2>1. /\ UNCHANGED <<client, target>> /\ task' = "NULL" /\ thread[t] = "close"
        /\ thread' = [thread EXCEPT ![t] = "ended"]
        /\ client[c] = "created" => target[c] # t
    BY <1>3 DEF Ends, ThreadGoes
  <2>2. Runs(t)
    BY <2>1 DEF Runs
  <2>3. client[c] \in {"idle", "reading", "stopping"} /\ TaskRuns
    BY <1>1, <2>1, <2>2 DEF SingleInv, OnlyRuns, NoneRuns, ClientStates
  <2>4. OnlyRuns(t)
    BY <2>2, <2>3 DEF TaskRuns, NoneRuns, OnlyRuns
  <2>5. NoneRuns'
    BY <1>1, <2>1, <2>4 DEF NoneRuns, OnlyRuns, Runs
  <2>6. TaskRuns'
    BY <2>1, <2>5 DEF TaskRuns
  <2> QED
    BY <2>1, <2>3, <2>6 DEF SingleInv
<1>4. ASSUME WakeStoppers(t)
      PROVE  /\ \A d \in Clients \ {c} : client'[d] = "idle"
             /\ \/ client'[c] = client[c]
                \/ client[c] = "stopping" /\ target[c] = t /\ client'[c] = "stopped"
  <2>1. client' = [d \in Clients |->
                     IF client[d] = "stopping" /\ target[d] = t THEN "stopped"
                     ELSE client[d]]
    BY <1>4 DEF WakeStoppers
  <2>2. \A d \in Clients \ {c} : client[d] = "idle"
    BY DEF SingleInv
  <2>3. \A d \in Clients :
          \/ client'[d] = client[d]
          \/ client[d] = "stopping" /\ target[d] = t /\ client'[d] = "stopped"
    BY <2>1
  <2>4. \A d \in Clients \ {c} : client'[d] = "idle"
    BY <2>2, <2>3
  <2>5. \/ client'[c] = client[c]
        \/ client[c] = "stopping" /\ target[c] = t /\ client'[c] = "stopped"
    BY <2>3
  <2> QED
    BY <2>4, <2>5
<1>5. CASE Exits(t)
  <2>1. /\ UNCHANGED <<task, target>> /\ thread[t] = "ended" /\ WakeStoppers(t)
        /\ thread' = [thread EXCEPT ![t] = "free"]
    BY <1>5 DEF Exits, ThreadGoes
  <2>2. \A u \in Threads : Runs(u)' <=> Runs(u)
    BY <1>1, <2>1 DEF Runs
  <2>3. TaskRuns' = TaskRuns /\ NoneRuns' = NoneRuns
        /\ \A u \in Threads : OnlyRuns(u)' = OnlyRuns(u)
    BY <2>1, <2>2 DEF TaskRuns, NoneRuns, OnlyRuns
  <2>4. CASE client'[c] = client[c]
    <3>1. client[c] = "created" => OnlyRuns(target[c])'
      <4> SUFFICES ASSUME client[c] = "created"
                   PROVE  \A u \in Threads : Runs(u)' <=> u = target'[c]
        BY DEF OnlyRuns
      <4>1. \A u \in Threads : Runs(u) <=> u = target[c]
        BY DEF SingleInv, OnlyRuns
      <4>2. target'[c] = target[c]
        BY <2>1
      <4> QED
        BY <2>2, <4>1, <4>2
    <3> QED
      BY <1>4, <2>1, <2>3, <2>4, <3>1 DEF SingleInv
  <2>5. CASE client[c] = "stopping" /\ target[c] = t /\ client'[c] = "stopped"
    <3>1. ~Runs(t) /\ TaskRuns /\ task \in {"NULL", t}
      BY <2>1, <2>5 DEF Runs, SingleInv
    <3>2. NoneRuns
      BY <3>1, NoneAssumption DEF TaskRuns, OnlyRuns
    <3> QED
      BY <1>4, <2>1, <2>3, <2>5, <3>2 DEF SingleInv
  <2> QED
    BY <1>4, <2>1, <2>4, <2>5
<1>6. CASE Cancelled(t)
  <2>1. /\ UNCHANGED <<task, target>> /\ thread[t] = "ready" /\ WakeStoppers(t)
        /\ thread' = [thread EXCEPT ![t] = "free"]
        /\ \E d \in Clients : client[d] = "stopping" /\ target[d] = t
    BY <1>6 DEF Cancelled, ThreadGoes
  <2>2. client[c] = "stopping" /\ target[c] = t
    BY <2>1 DEF SingleInv
  <2>3. client'[c] = "stopped" /\ \A d \in Clients \ {c} : client'[d] = "idle"
    BY <1>1, <1>4, <2>1, <2>2 DEF WakeStoppers
  <2>4. Runs(t) /\ TaskRuns
    BY <2>1, <2>2 DEF Runs, SingleInv
  <2>5. OnlyRuns(t)
    BY <2>4 DEF TaskRuns, NoneRuns, OnlyRuns
  <2>6. NoneRuns'
    BY <1>1, <2>1, <2>5 DEF NoneRuns, OnlyRuns, Runs
  <2> QED
    BY <2>3, <2>6 DEF SingleInv
<1> QED
  BY <1>2, <1>3, <1>5, <1>6 DEF ThreadRuns

(* Every step keeps to it, and no step gives the device to another client. *)
LEMMA StepAlone ==
  AloneInv /\ [Next]_vars => AloneInv' /\ users' = users
<1> SUFFICES ASSUME AloneInv, [Next]_vars PROVE AloneInv' /\ users' = users
  OBVIOUS
<1>1. users' = users
  <2>1. CASE UNCHANGED vars
    BY <2>1 DEF vars
  <2>2. ASSUME NEW d \in Clients, ClientWorks(d) \/ ClientCalls(d) PROVE users' = users
    BY <2>2 DEF ClientWorks, ClientCalls, StoreTask, ClearError, CallStop, ForgetTask,
       EndLock, EndTest, Create, CreateFails, ReadTask, LockOnly, TestMove, ClientGoes
  <2>3. ASSUME NEW t \in Threads, ThreadRuns(t) PROVE users' = users
    BY <2>3 DEF ThreadRuns, Opens, Closes, Ends, Exits, Cancelled, ThreadGoes
  <2> QED
    BY <2>1, <2>2, <2>3 DEF Next
<1>2. ServoInv'
  BY ServoStep DEF AloneInv
<1>3. ASSUME NEW c \in Clients, users' = {c} PROVE SingleInv(c)'
  <2>1. users = {c} /\ SingleInv(c) /\ TypeOK
    BY <1>1, <1>3 DEF AloneInv, ServoInv
  <2>2. CASE UNCHANGED vars
    BY <2>1, <2>2 DEF vars, SingleInv, TaskRuns, NoneRuns, OnlyRuns, Runs
  <2>3. ASSUME NEW d \in Clients, ClientWorks(d) \/ ClientCalls(d) PROVE SingleInv(c)'
    BY <2>1, <2>3, ClientAlone
  <2>4. ASSUME NEW t \in Threads, ThreadRuns(t) PROVE SingleInv(c)'
    BY <2>1, <2>4, ThreadAlone
  <2> QED
    BY <2>2, <2>3, <2>4 DEF Next
<1> QED
  BY <1>1, <1>2, <1>3 DEF AloneInv

(* With one client at most one thing drives the servo. *)
LEMMA OneDrives == AloneInv => OneDriver
<1> SUFFICES ASSUME AloneInv, NEW c \in Clients, users = {c}
             PROVE  Cardinality(Sweeping) + Cardinality(Moving) <= 1
  BY DEF OneDriver, Alone, AloneInv, ServoInv, TypeOK
<1>1. TypeOK /\ SingleInv(c)
  BY DEF AloneInv, ServoInv
<1>2. Moving \subseteq {c}
  BY <1>1 DEF Moving, SingleInv
<1>3. \A t \in Sweeping : t \in Threads /\ Runs(t)
  BY DEF Sweeping, Runs
<1>4. CASE Moving # {}
  <2>1. Moving = {c}
    BY <1>2, <1>4
  <2>2. NoneRuns
    BY <1>1, <2>1 DEF Moving, SingleInv
  <2>3. Sweeping = {}
    BY <1>3, <2>2 DEF NoneRuns
  <2> QED
    BY <2>1, <2>3, FS_EmptySet, FS_Singleton
<1>5. CASE Moving = {}
  <2>1. \A t, u \in Sweeping : t = u
    <3>1. \A t, u \in Threads : Runs(t) /\ Runs(u) => t = u
      <4>1. NoneRuns \/ (\E w \in Threads : OnlyRuns(w))
        BY <1>1 DEF SingleInv, TaskRuns, TypeOK, ClientStates
      <4> QED
        BY <4>1 DEF NoneRuns, OnlyRuns
    <3> QED
      BY <1>3, <3>1
  <2>2. CASE Sweeping = {}
    BY <1>5, <2>2, FS_EmptySet
  <2>3. CASE Sweeping # {}
    <3>1. PICK t \in Sweeping : TRUE
      BY <2>3
    <3>2. Sweeping = {t}
      BY <2>1, <3>1
    <3> QED
      BY <1>5, <3>2, FS_EmptySet, FS_Singleton
  <2> QED
    BY <2>2, <2>3
<1> QED
  BY <1>4, <1>5

(* What is shown of the servo. *)
LEMMA ShownIs ==
  /\ NoneRuns => Shown = "idle"
  /\ \A u \in Threads : OnlyRuns(u) => Shown = thread[u]
<1>1. Live = {t \in Threads : Runs(t)}
  BY DEF Live, Runs
<1>2. NoneRuns => Shown = "idle"
  BY <1>1 DEF NoneRuns, Shown
<1>3. ASSUME NEW u \in Threads, OnlyRuns(u) PROVE Shown = thread[u]
  <2>1. Live = {u}
    BY <1>1, <1>3 DEF OnlyRuns
  <2>2. (CHOOSE t \in Live : TRUE) = u
    BY <2>1
  <2> QED
    BY <2>1, <2>2 DEF Shown
<1> QED
  BY <1>2, <1>3

(* The same after a step. *)
LEMMA ShownBecomes ==
  /\ NoneRuns' => Shown' = "idle"
  /\ \A u \in Threads : OnlyRuns(u)' => Shown' = thread'[u]
<1>1. Live' = {t \in Threads : Runs(t)'}
  BY DEF Live, Runs
<1>2. NoneRuns' => Shown' = "idle"
  BY <1>1 DEF NoneRuns, Shown
<1>3. ASSUME NEW u \in Threads, OnlyRuns(u)' PROVE Shown' = thread'[u]
  <2>1. Live' = {u}
    BY <1>1, <1>3 DEF OnlyRuns
  <2>2. (CHOOSE t \in Live' : TRUE) = u
    BY <2>1
  <2> QED
    BY <2>1, <2>2 DEF Shown
<1> QED
  BY <1>2, <1>3

(* What is shown depends on the threads alone. *)
LEMMA ShownStays == thread' = thread => Shown' = Shown
BY DEF Shown, Live

(* Every step of the one client or of a thread is one of a sweep. *)
LEMMA StepSweeps ==
  AloneInv /\ [Next]_vars => [Alone => OneSweep!Next]_Shown
<1> SUFFICES ASSUME AloneInv, [Next]_vars, NEW c \in Clients, users = {c}
             PROVE  OneSweep!Next \/ Shown' = Shown
  BY DEF Alone, AloneInv, ServoInv, TypeOK
<1>1. TypeOK /\ SingleInv(c)
  BY DEF AloneInv, ServoInv
<1>2. thread \in [Threads -> ThreadStates]
  BY <1>1 DEF TypeOK
<1>3. CASE UNCHANGED vars
  BY <1>3, ShownStays DEF vars
<1>4. ASSUME NEW d \in Clients, ClientWorks(d) \/ ClientCalls(d)
      PROVE  OneSweep!Next \/ Shown' = Shown
  <2>1. CASE thread' = thread
    BY <2>1, ShownStays
  <2>2. ASSUME NEW t \in Threads, Create(d, t) PROVE OneSweep!Next
    <3>1. /\ d = c /\ client[c] = "idle" /\ task = "NULL"
          /\ thread' = [thread EXCEPT ![t] = "ready"]
      BY <2>2 DEF Create, ClientGoes, ThreadGoes
    <3>2. NoneRuns
      BY <1>1, <3>1, NoneAssumption DEF SingleInv, TaskRuns
    <3>3. OnlyRuns(t)'
      BY <1>2, <3>1, <3>2 DEF OnlyRuns, NoneRuns, Runs
    <3>4. Shown = "idle" /\ Shown' = "ready"
      BY <1>2, <3>1, <3>2, <3>3, ShownIs, ShownBecomes
    <3> QED
      BY <3>4 DEF OneSweep!Next, OneSweep!Start, OneSweep!Goes
  <2> QED
    BY <1>4, <2>1, <2>2 DEF ClientWorks, ClientCalls, StoreTask, ClearError, CallStop,
       ForgetTask, EndLock, EndTest, CreateFails, ReadTask, LockOnly, TestMove
<1>5. ASSUME NEW t \in Threads, ThreadRuns(t) PROVE OneSweep!Next \/ Shown' = Shown
  <2>1. Runs(t) => OnlyRuns(t)
    <3>1. NoneRuns \/ (\E w \in Threads : OnlyRuns(w))
      BY <1>1 DEF SingleInv, TaskRuns, TypeOK, ClientStates
    <3> QED
      BY <3>1 DEF NoneRuns, OnlyRuns
  <2>2. ASSUME NEW from, NEW to, ThreadGoes(t, from, to), from \in {"ready", "open", "close"}
        PROVE  /\ Shown = from
               /\ to \in {"ready", "open", "close"} => Shown' = to
               /\ to \notin {"ready", "open", "close"} => Shown' = "idle"
    <3>1. thread[t] = from /\ thread' = [thread EXCEPT ![t] = to]
      BY <2>2 DEF ThreadGoes
    <3>2. OnlyRuns(t)
      BY <2>1, <2>2, <3>1 DEF Runs
    <3>3. thread'[t] = to /\ \A u \in Threads \ {t} : thread'[u] = thread[u]
      BY <1>2, <3>1
    <3>4. to \in {"ready", "open", "close"} => OnlyRuns(t)'
      BY <3>2, <3>3 DEF OnlyRuns, Runs
    <3>5. to \notin {"ready", "open", "close"} => NoneRuns'
      BY <3>2, <3>3 DEF OnlyRuns, NoneRuns, Runs
    <3> QED
      BY <3>1, <3>2, <3>3, <3>4, <3>5, ShownIs, ShownBecomes
  <2> USE DEF OneSweep!Next, OneSweep!Goes
  <2>3. CASE Opens(t)
    BY <2>2, <2>3 DEF Opens, OneSweep!Opens
  <2>4. CASE Closes(t)
    BY <2>2, <2>4 DEF Closes, OneSweep!Closes
  <2>5. CASE Ends(t)
    BY <2>2, <2>5 DEF Ends, OneSweep!Ends
  <2>6. CASE Cancelled(t)
    BY <2>2, <2>6 DEF Cancelled, OneSweep!Cancelled
  <2>7. CASE Exits(t)
    <3>1. thread[t] = "ended" /\ thread' = [thread EXCEPT ![t] = "free"]
      BY <2>7 DEF Exits, ThreadGoes
    <3>2. \A u \in Threads : /\ Runs(u)' <=> Runs(u)
                             /\ Runs(u) => thread'[u] = thread[u]
      BY <1>2, <3>1 DEF Runs
    <3>3. Live' = Live
      BY <3>2 DEF Live, Runs
    <3>4. Live # {} => (CHOOSE u \in Live : TRUE) \in Threads /\ Runs(CHOOSE u \in Live : TRUE)
      BY DEF Live, Runs
    <3>5. Shown' = Shown
      BY <3>2, <3>3, <3>4 DEF Shown
    <3> QED
      BY <3>5
  <2> QED
    BY <1>5, <2>3, <2>4, <2>5, <2>6, <2>7 DEF ThreadRuns
<1> QED
  BY <1>3, <1>4, <1>5 DEF Next

(* The control loop, as the only client, sees of the driver what SmartLock *)
(* assumes: one sweep at a time, never cut short, and nothing else that    *)
(* drives the line meanwhile; whatever the other clients may do when they  *)
(* are there.                                                              *)
THEOREM ServoImplementsSweep == Spec => ImplementsSweep
<1>1. Init => (Alone => OneSweep!Init)
  <2> SUFFICES ASSUME Init PROVE OneSweep!Init
    OBVIOUS
  <2>1. NoneRuns
    BY DEF Init, NoneRuns, Runs
  <2> QED
    BY <2>1, ShownIs DEF OneSweep!Init
<1>2. AloneInv /\ [Next]_vars => AloneInv'
  BY StepAlone
<1>3. Spec => []AloneInv /\ [][Next]_vars /\ Init
  BY <1>2, AloneAtFirst, PTL DEF Spec
<1>4. AloneInv /\ [Next]_vars => [Alone => OneSweep!Next]_Shown
  BY StepSweeps
<1> QED
  BY <1>1, <1>3, <1>4, OneDrives, PTL DEF ImplementsSweep

-----------------------------------------------------------------------------
(* The keypad.                                                             *)

(* What a process in the driver keeps. *)
Procs ==
  [at : Steps, call : {"get", "scan"}, row : 0..Rows, i : Nat,
   got : Keys \cup {Nothing}, first : SUBSET Keys, firm : BOOLEAN,
   held : SUBSET Keys, alone : BOOLEAN, loaded : Int]

(* Where it is, its counters count rows or columns.  What it processes is  *)
(* a key, and what it scans for has not been found before it raises.       *)
Proper(r) ==
  /\ r.at \in {"drive", "read", "again"} => r.row \in 1..Rows /\ r.got = Nothing
  /\ r.at \in {"drive", "raise"} => r.i \in 1..Rows
  /\ r.at \in {"read", "again"} => r.i \in 1..Cols
  /\ r.at \in {"compare", "advance", "test", "put", "delete"} => r.got \in Keys
  /\ r.at \in {"advance", "test"} => r.loaded \in Nat

MatrixTypes ==
  /\ down \in SUBSET Keys /\ \A k, l \in down : k = l
  /\ low \in SUBSET (1..Rows)
  /\ proc \in [Scanners -> Procs] /\ \A p \in Scanners : Proper(proc[p])
  /\ index \in Int /\ progress \in Nat /\ slots \in SUBSET Int
  /\ changing \in BOOLEAN /\ shared \in BOOLEAN /\ called \in Nat

(* A row that is low has a process that will raise it. *)
RowsAreRaised ==
  \A r \in low : \E p \in Scanners :
    Scanning(p) /\ (proc[p].at = "raise" => proc[p].i <= r)

(* A scan that met no other is the only one. *)
LoneIsOnly ==
  \A p, q \in Scanners : Scanning(p) /\ proc[p].alone /\ Scanning(q) => p = q

(* The rows a scan that met no other has driven low: the one it scans, and *)
(* until that is written the one before it.                                *)
DrivesItsRow(p) ==
  /\ proc[p].at \in {"read", "again"} => low = {proc[p].row}
  /\ proc[p].at = "drive" =>
       /\ \A r \in low : \/ r = proc[p].row /\ r < proc[p].i
                         \/ r = proc[p].row - 1 /\ proc[p].i <= r
       /\ proc[p].row < proc[p].i => proc[p].row \in low

(* What it has seen once, it has seen in this place. *)
SawItHere(p) == proc[p].at = "again" => <<proc[p].row, proc[p].i>> \in proc[p].first

(* A key that was down all the time is still ahead of it. *)
HeldIsAhead(p) ==
  proc[p].at \in {"drive", "read", "again"} =>
    \A k \in proc[p].held :
      \/ proc[p].row < k[1]
      \/ proc[p].row = k[1] /\ (proc[p].at = "drive" \/ proc[p].i <= k[2])

(* What it has found is as LoneScanIsTrue says. *)
FoundIsTrue(p) ==
  proc[p].at = "raise" =>
    /\ proc[p].got # Nothing => proc[p].firm
    /\ proc[p].held # {} => proc[p].got \in proc[p].held

(* All of this for one process. *)
SoundScan(p) ==
  /\ proc[p].held \subseteq down
  /\ proc[p].alone => DrivesItsRow(p) /\ SawItHere(p) /\ HeldIsAhead(p) /\ FoundIsTrue(p)

(* The scans. *)
ScanInd == RowsAreRaised /\ LoneIsOnly /\ \A p \in Scanners : SoundScan(p)

(* What a process has loaded is what is there, and its check still holds. *)
LoadedIsThere(p) ==
  /\ proc[p].at \in {"advance", "test"} => proc[p].loaded = progress
  /\ proc[p].at \in {"put", "delete"}   => proc[p].loaded = index
  /\ proc[p].at = "advance" => progress < SequenceLength
  /\ proc[p].at = "put"     => index < PasswordLength
  /\ proc[p].at = "delete"  => 0 < index

(* As long as no two were in key_process_input. *)
AloneInd ==
  ~shared =>
    /\ \A p, q \in Scanners : Processing(p) /\ Processing(q) => p = q
    /\ \A p \in Scanners : LoadedIsThere(p)

(* Where the index and the slots are. *)
IndexIn ==
  /\ index <= PasswordLength + Callers - 1 /\ 1 - Callers <= index
  /\ \A s \in slots : 1 - Callers <= s /\ s <= PasswordLength + Callers - 2

(* What a process has seen of the index before it moves it, and what room  *)
(* that leaves.                                                            *)
RoomFor(p) ==
  /\ proc[p].at = "put" =>
       /\ index <= PasswordLength + Callers - 2
       /\ 1 - Callers <= proc[p].loaded /\ proc[p].loaded < PasswordLength
  /\ proc[p].at = "delete" =>
       /\ 2 - Callers <= index
       /\ 0 < proc[p].loaded /\ proc[p].loaded <= PasswordLength + Callers - 1

(* Two that are about to move it the same way both have room. *)
RoomForBoth(p, q) ==
  /\ proc[p].at = "put" /\ proc[q].at = "put" => index < PasswordLength
  /\ proc[p].at = "delete" /\ proc[q].at = "delete" => 0 < index

(* Of two processes. *)
StrayInd ==
  Callers <= 2 =>
    /\ IndexIn
    /\ \A p \in Scanners : RoomFor(p)
    /\ \A p, q \in Scanners : p # q => RoomForBoth(p, q)

(* The inductive invariant of the keypad. *)
MatrixInd == MatrixTypes /\ ScanInd /\ AloneInd /\ AloneInRange /\ StrayInd

(* The matrix has rows, columns and keys, and "nothing" is no key. *)
LEMMA MatrixHas ==
  /\ Rows \in Nat /\ 1 <= Rows /\ Cols \in Nat /\ 1 <= Cols
  /\ PasswordLength \in Nat /\ 1 <= PasswordLength
  /\ SequenceLength \in Nat /\ 1 <= SequenceLength /\ Beyond \in Nat /\ Calls \in Nat
  /\ Nothing \notin Keys
BY MatrixAssumption DEF Keys, Nothing

(* A key has a row and a column, and each pair of them is a key. *)
LEMMA KeyHasPlace ==
  /\ \A k \in Keys : k = <<k[1], k[2]>> /\ k[1] \in 1..Rows /\ k[2] \in 1..Cols
  /\ \A r \in 1..Rows, c \in 1..Cols : <<r, c>> \in Keys
BY DEF Keys

(* One process goes on, the others stay where they are. *)
LEMMA Went ==
  ASSUME proc \in [Scanners -> Procs], NEW p \in Scanners, NEW s \in Procs, Go(p, s)
  PROVE  /\ proc' \in [Scanners -> Procs] /\ proc'[p] = s
         /\ \A q \in Scanners \ {p} : proc'[q] = proc[q]
BY DEF Go

(* The record of a process in which only the place has changed. *)
MovedTo(r, a, w, n) == [r EXCEPT !.at = a, !.row = w, !.i = n]

(* Such a record is one of a process again, with all else as it was.       *)
LEMMA Moved ==
  ASSUME NEW r, NEW a, NEW w, NEW n, r \in Procs, a \in Steps, w \in 0..Rows, n \in Nat
  PROVE  LET s == MovedTo(r, a, w, n) IN
         /\ s \in Procs /\ s.at = a /\ s.row = w /\ s.i = n
         /\ s.call = r.call /\ s.got = r.got /\ s.first = r.first
         /\ s.firm = r.firm /\ s.held = r.held /\ s.alone = r.alone
         /\ s.loaded = r.loaded
<1> DEFINE s == MovedTo(r, a, w, n)
<1>0. s = [r EXCEPT !.at = a, !.row = w, !.i = n]
  BY DEF MovedTo
<1> HIDE DEF s
<1>1. /\ s.at = a /\ s.row = w /\ s.i = n
      /\ s.call = r.call /\ s.got = r.got /\ s.first = r.first
      /\ s.firm = r.firm /\ s.held = r.held /\ s.alone = r.alone
      /\ s.loaded = r.loaded
  BY <1>0 DEF Procs
<1>2. s = [at |-> a, call |-> r.call, row |-> w, i |-> n, got |-> r.got,
           first |-> r.first, firm |-> r.firm, held |-> r.held, alone |-> r.alone,
           loaded |-> r.loaded]
  BY <1>0 DEF Procs
<1>3. /\ r.call \in {"get", "scan"} /\ r.got \in Keys \cup {Nothing}
      /\ r.first \in SUBSET Keys /\ r.firm \in BOOLEAN /\ r.held \in SUBSET Keys
      /\ r.alone \in BOOLEAN /\ r.loaded \in Int
  BY DEF Procs
<1>4. s \in Procs
  BY <1>2, <1>3 DEF Procs
<1> QED
  BY <1>1, <1>4 DEF s

(* The same with the row left as it is. *)
LEMMA MovedInRow ==
  ASSUME NEW r \in Procs, NEW a \in Steps, NEW n \in Nat
  PROVE  /\ [r EXCEPT !.at = a, !.i = n] = MovedTo(r, a, r.row, n)
         /\ r.row \in 0..Rows
BY DEF Procs, MovedTo

(* A process in no call. *)
LEMMA OutsideIsProc ==
  /\ Outside \in Procs /\ Proper(Outside) /\ Outside.at = "outside"
  /\ Outside.held = {} /\ Outside.got = Nothing
BY MatrixHas DEF Outside, Procs, Proper, Steps

(* The steps have names. *)
LEMMA StepNames ==
  ASSUME NEW p \in Scanners, MatrixTypes
  PROVE  /\ proc[p] \in Procs /\ Proper(proc[p]) /\ proc[p].at \in Steps
         /\ ~(Scanning(p) /\ Processing(p))
BY DEF MatrixTypes, Procs, Scanning, Processing

(* The next place of a scan: the next column, the first of the next row,   *)
(* or the end.                                                             *)
LEMMA Onwards ==
  ASSUME NEW r \in Procs, Proper(r), r.at \in {"read", "again"}
  PROVE  LET s == Onward(r)
         IN  /\ s \in Procs /\ Proper(s)
             /\ s.held = r.held /\ s.alone = r.alone /\ s.got = Nothing
             /\ s.call = r.call
             /\ \/ r.i < Cols /\ s.at = "read" /\ s.row = r.row /\ s.i = r.i + 1
                \/ r.i = Cols /\ r.row < Rows /\ s.at = "drive" /\ s.row = r.row + 1
                   /\ s.i = 1
                \/ r.i = Cols /\ r.row = Rows /\ s.at = "raise" /\ s.i = 1
<1> DEFINE s == Onward(r)
<1>1. /\ r.row \in Nat /\ r.row <= Rows /\ 1 <= r.row /\ r.got = Nothing
      /\ r.i \in Nat /\ r.i <= Cols /\ 1 <= r.i
  BY MatrixHas DEF Proper
<1>2. "read" \in Steps /\ "drive" \in Steps /\ "raise" \in Steps
  BY DEF Steps
<1>3. r.row \in 0..Rows /\ 1 \in Nat /\ 1 \in 1..Rows /\ r.i + 1 \in Nat
      /\ r.row + 1 \in Nat
  BY <1>1, MatrixHas
<1>4. CASE r.i < Cols
  <2>1. s = MovedTo(r, "read", r.row, r.i + 1)
    <3>1. s = [r EXCEPT !.at = "read", !.i = r.i + 1]
      BY <1>4 DEF Onward
    <3> QED
      BY <1>2, <1>3, <3>1, MovedInRow
  <2>2. r.i + 1 \in 1..Cols /\ r.row \in 1..Rows
    BY <1>1, <1>4, MatrixHas
  <2> HIDE DEF s
  <2>3. /\ s \in Procs /\ s.at = "read" /\ s.i = r.i + 1 /\ s.row = r.row
        /\ s.got = r.got /\ s.held = r.held /\ s.alone = r.alone /\ s.call = r.call
    BY <1>2, <1>3, <2>1, Moved
  <2>4. Proper(s)
    BY <1>1, <2>2, <2>3 DEF Proper
  <2> QED
    BY <1>1, <1>4, <2>3, <2>4 DEF s
<1>5. CASE r.i = Cols /\ r.row < Rows
  <2>1. s = MovedTo(r, "drive", r.row + 1, 1)
    <3>1. ~(r.i < Cols)
      BY <1>1, <1>5
    <3> QED
      BY <1>5, <3>1 DEF Onward, MovedTo
  <2>2. r.row + 1 \in 1..Rows /\ r.row + 1 \in 0..Rows
    BY <1>1, <1>5, MatrixHas
  <2> HIDE DEF s
  <2>3. /\ s \in Procs /\ s.at = "drive" /\ s.i = 1 /\ s.row = r.row + 1
        /\ s.got = r.got /\ s.held = r.held /\ s.alone = r.alone /\ s.call = r.call
    BY <1>2, <1>3, <2>1, <2>2, Moved
  <2>4. Proper(s)
    BY <1>1, <1>3, <2>2, <2>3 DEF Proper
  <2> QED
    BY <1>1, <1>5, <2>3, <2>4 DEF s
<1>6. CASE r.i = Cols /\ r.row = Rows
  <2>1. s = MovedTo(r, "raise", r.row, 1)
    <3>1. ~(r.i < Cols) /\ ~(r.row < Rows)
      BY <1>1, <1>6
    <3>2. s = [r EXCEPT !.at = "raise", !.i = 1]
      BY <3>1 DEF Onward
    <3> QED
      BY <1>2, <1>3, <3>2, MovedInRow
  <2> HIDE DEF s
  <2>2. /\ s \in Procs /\ s.at = "raise" /\ s.i = 1 /\ s.row = r.row
        /\ s.got = r.got /\ s.held = r.held /\ s.alone = r.alone /\ s.call = r.call
    BY <1>2, <1>3, <2>1, Moved
  <2>3. Proper(s)
    BY <1>1, <1>3, <2>2 DEF Proper
  <2> QED
    BY <1>1, <1>6, <2>2, <2>3 DEF s
<1> QED
  BY <1>1, <1>4, <1>5, <1>6, MatrixHas

(* The finger changes what is down, and what was down all the time. *)
LEMMA FingerMoves ==
  ASSUME MatrixTypes, Presses \/ Releases
  PROVE  /\ MatrixTypes'
         /\ low' = low /\ UNCHANGED inputVars
         /\ \A q \in Scanners :
              /\ proc'[q].at = proc[q].at /\ proc'[q].row = proc[q].row
              /\ proc'[q].i = proc[q].i /\ proc'[q].got = proc[q].got
              /\ proc'[q].first = proc[q].first /\ proc'[q].firm = proc[q].firm
              /\ proc'[q].alone = proc[q].alone /\ proc'[q].loaded = proc[q].loaded
              /\ proc'[q].held = {}
<1>1. PICK keys \in SUBSET Keys : Changes(keys) /\ \A k, l \in keys : k = l
  <2>1. CASE Presses
    <3>1. PICK key \in Keys : Changes({key})
      BY <2>1 DEF Presses
    <3>2. {key} \in SUBSET Keys /\ \A k, l \in {key} : k = l
      OBVIOUS
    <3> QED
      BY <3>1, <3>2
  <2>2. CASE Releases
    <3>1. {} \in SUBSET Keys /\ \A k, l \in {} : k = l
      OBVIOUS
    <3> QED
      BY <2>2, <3>1 DEF Releases
  <2> QED
    BY <2>1, <2>2
<1>2. /\ down' = keys /\ low' = low /\ called' = called /\ UNCHANGED inputVars
      /\ proc' = [q \in Scanners |-> [proc[q] EXCEPT !.held = {}]]
  BY <1>1 DEF Changes
<1>3. ASSUME NEW q \in Scanners
      PROVE  /\ proc'[q] \in Procs /\ proc'[q].held = {}
             /\ proc'[q].at = proc[q].at /\ proc'[q].row = proc[q].row
             /\ proc'[q].i = proc[q].i /\ proc'[q].got = proc[q].got
             /\ proc'[q].first = proc[q].first /\ proc'[q].firm = proc[q].firm
             /\ proc'[q].alone = proc[q].alone /\ proc'[q].loaded = proc[q].loaded
  <2>1. proc[q] \in Procs
    BY DEF MatrixTypes
  <2>2. proc'[q] = [proc[q] EXCEPT !.held = {}]
    BY <1>2
  <2>3. {} \in SUBSET Keys
    OBVIOUS
  <2> DEFINE s == proc'[q]  r == proc[q]
  <2>4. s = [r EXCEPT !.held = {}] /\ r \in Procs
    BY <2>1, <2>2
  <2> HIDE DEF s, r
  <2>5. /\ s.held = {} /\ s.at = r.at /\ s.row = r.row /\ s.i = r.i /\ s.got = r.got
        /\ s.first = r.first /\ s.firm = r.firm /\ s.alone = r.alone
        /\ s.loaded = r.loaded
    BY <2>4 DEF Procs
  <2>6. s \in Procs
    BY <2>3, <2>4 DEF Procs
  <2> QED
    BY <2>5, <2>6 DEF s, r
<1>4. proc' \in [Scanners -> Procs]
  <2>1. \A q \in Scanners : proc'[q] \in Procs
    BY <1>3
  <2>2. DOMAIN proc' = Scanners /\ proc' = [q \in Scanners |-> proc'[q]]
    BY <1>2
  <2> QED
    BY <2>1, <2>2
<1>5. \A q \in Scanners : Proper(proc'[q])
  BY <1>3 DEF MatrixTypes, Proper
<1>6. UNCHANGED <<index, progress, changing, slots, shared, called, low>>
  BY <1>2 DEF inputVars
<1>7. MatrixTypes'
  BY <1>1, <1>2, <1>4, <1>5, <1>6 DEF MatrixTypes
<1> QED
  BY <1>2, <1>3, <1>7

(* The record of a process that begins a scan. *)
Started(r, c, d, a) ==
  [r EXCEPT !.at = "drive", !.call = c, !.row = 1, !.i = 1, !.held = d, !.alone = a]

(* Field by field. *)
LEMMA StartedFields ==
  ASSUME NEW r, NEW c, NEW d, NEW a, r \in Procs
  PROVE  Started(r, c, d, a) =
           [at |-> "drive", call |-> c, row |-> 1, i |-> 1, got |-> r.got,
            first |-> r.first, firm |-> r.firm, held |-> d, alone |-> a,
            loaded |-> r.loaded]
<1> DEFINE s == Started(r, c, d, a)
<1>1. s = [r EXCEPT !.at = "drive", !.call = c, !.row = 1, !.i = 1,
             !.held = d, !.alone = a]
  BY DEF Started
<1> HIDE DEF s
<1>2. s = [at |-> "drive", call |-> c, row |-> 1, i |-> 1, got |-> r.got,
           first |-> r.first, firm |-> r.firm, held |-> d, alone |-> a,
           loaded |-> r.loaded]
  BY <1>1 DEF Procs
<1> QED
  BY <1>2 DEF s

(* A call begins a scan, and marks those that are scanning. *)
LEMMA CallBegins ==
  ASSUME MatrixTypes, NEW p \in Scanners, NEW call \in {"get", "scan"}, Call(p, call)
  PROVE  /\ MatrixTypes'
         /\ UNCHANGED <<down, low>> /\ UNCHANGED inputVars /\ proc[p].at = "outside"
         /\ proc'[p].at = "drive" /\ proc'[p].row = 1 /\ proc'[p].i = 1
         /\ proc'[p].held = down
         /\ proc'[p].alone => \A q \in Scanners \ {p} : ~Scanning(q)
         /\ \A q \in Scanners \ {p} :
              /\ proc'[q].at = proc[q].at /\ proc'[q].row = proc[q].row
              /\ proc'[q].i = proc[q].i /\ proc'[q].got = proc[q].got
              /\ proc'[q].first = proc[q].first /\ proc'[q].firm = proc[q].firm
              /\ proc'[q].held = proc[q].held /\ proc'[q].loaded = proc[q].loaded
              /\ proc'[q].alone => proc[q].alone
              /\ Scanning(q) => ~proc'[q].alone
<1> DEFINE others == {q \in Scanners \ {p} : Scanning(q)}
           lone   == IF others = {} THEN TRUE ELSE FALSE
           s      == [Outside EXCEPT !.at = "drive", !.call = call, !.row = 1,
                        !.i = 1, !.held = down, !.alone = lone]
<1>1. (others = {}) = lone /\ lone \in BOOLEAN
  OBVIOUS
<1>2. /\ proc[p] = Outside /\ UNCHANGED <<down, low>> /\ UNCHANGED inputVars
      /\ called' = called + 1
      /\ proc' = [q \in Scanners |->
           CASE q = p -> [Outside EXCEPT !.at = "drive", !.call = call, !.row = 1,
                            !.i = 1, !.held = down, !.alone = (others = {})]
             [] q \in others -> [proc[q] EXCEPT !.alone = FALSE]
             [] OTHER        -> proc[q]]
  BY DEF Call
<1>3. proc'[p] = s
  <2>1. proc'[p] = [Outside EXCEPT !.at = "drive", !.call = call, !.row = 1,
                            !.i = 1, !.held = down, !.alone = (others = {})]
    BY <1>2
  <2> HIDE DEF others
  <2> QED
    BY <1>1, <2>1
<1>4. down \in SUBSET Keys /\ low \in SUBSET (1..Rows) /\ Outside \in Procs
      /\ proc \in [Scanners -> Procs]
  BY OutsideIsProc DEF MatrixTypes
<1>5. /\ s.at = "drive" /\ s.row = 1 /\ s.i = 1 /\ s.held = down /\ s.alone = lone
      /\ s.got = Nothing /\ s \in Procs
  <2> HIDE DEF lone
  <2>1. "drive" \in Steps /\ 1 \in 0..Rows
    BY MatrixHas DEF Steps
  <2>2. s = [at |-> "drive", call |-> call, row |-> 1, i |-> 1, got |-> Nothing,
             first |-> {}, firm |-> FALSE, held |-> down, alone |-> lone, loaded |-> 0]
    <3>2. /\ Outside.got = Nothing /\ Outside.first = {} /\ Outside.firm = FALSE
          /\ Outside.loaded = 0
      BY DEF Outside
    <3>3. s = Started(Outside, call, down, lone)
      BY DEF Started
    <3> HIDE DEF s
    <3>4. s = [at |-> "drive", call |-> call, row |-> 1, i |-> 1, got |-> Outside.got,
               first |-> Outside.first, firm |-> Outside.firm, held |-> down,
               alone |-> lone, loaded |-> Outside.loaded]
      BY <1>4, <3>3, StartedFields
    <3> QED
      BY <3>2, <3>4
  <2> HIDE DEF s
  <2>3. s \in Procs
    BY <1>1, <1>4, <2>1, <2>2 DEF Procs
  <2> QED
    BY <2>2, <2>3
<1> HIDE DEF s
<1>6. ASSUME NEW q \in Scanners \ {p}
      PROVE  /\ proc'[q] \in Procs /\ proc'[q].at = proc[q].at
             /\ proc'[q].row = proc[q].row
             /\ proc'[q].i = proc[q].i /\ proc'[q].got = proc[q].got
             /\ proc'[q].first = proc[q].first /\ proc'[q].firm = proc[q].firm
             /\ proc'[q].held = proc[q].held /\ proc'[q].loaded = proc[q].loaded
             /\ proc'[q].alone => proc[q].alone
             /\ Scanning(q) => ~proc'[q].alone
  <2>1. proc[q] \in Procs
    BY <1>4
  <2>2. CASE q \in others
    <3> DEFINE t == proc'[q]  r == proc[q]
    <3>1. t = [r EXCEPT !.alone = FALSE] /\ r \in Procs
      BY <1>2, <2>1, <2>2
    <3> HIDE DEF t, r
    <3>2. /\ t.alone = FALSE /\ t.at = r.at /\ t.row = r.row /\ t.i = r.i
          /\ t.got = r.got /\ t.first = r.first /\ t.firm = r.firm /\ t.held = r.held
          /\ t.loaded = r.loaded
      BY <3>1 DEF Procs
    <3>3. t \in Procs
      BY <3>1 DEF Procs
    <3> QED
      BY <3>2, <3>3 DEF t, r
  <2>3. CASE q \notin others
    <3>1. proc'[q] = proc[q] /\ ~Scanning(q)
      BY <1>2, <2>3
    <3> QED
      BY <2>1, <3>1
  <2> QED
    BY <2>2, <2>3
<1>7. proc' \in [Scanners -> Procs]
  <2>1. \A q \in Scanners : proc'[q] \in Procs
    BY <1>3, <1>5, <1>6
  <2>2. DOMAIN proc' = Scanners /\ proc' = [q \in Scanners |-> proc'[q]]
    BY <1>2
  <2> QED
    BY <2>1, <2>2
<1>8. \A q \in Scanners : Proper(proc'[q])
  <2>1. Proper(s)
    BY <1>5, MatrixHas DEF Proper
  <2>2. ASSUME NEW q \in Scanners \ {p} PROVE Proper(proc'[q])
    BY <1>6 DEF MatrixTypes, Proper
  <2> QED
    BY <1>3, <2>1, <2>2
<1>9. UNCHANGED <<index, progress, changing, slots, shared, low, down>>
  BY <1>2 DEF inputVars
<1>10. MatrixTypes'
  <2>1. /\ down' \in SUBSET Keys /\ \A k, l \in down' : k = l
        /\ low' \in SUBSET (1..Rows)
    BY <1>9 DEF MatrixTypes
  <2>2. /\ index' \in Int /\ progress' \in Nat /\ slots' \in SUBSET Int
        /\ changing' \in BOOLEAN /\ shared' \in BOOLEAN
    BY <1>9 DEF MatrixTypes
  <2>3. called \in Nat /\ called' = called + 1
    BY <1>2 DEF MatrixTypes
  <2>4. called' \in Nat
    BY <2>3
  <2> QED
    BY <1>7, <1>8, <2>1, <2>2, <2>4 DEF MatrixTypes
<1>11. lone => \A q \in Scanners \ {p} : ~Scanning(q)
  OBVIOUS
<1>12. proc[p].at = "outside"
  BY <1>2, OutsideIsProc
<1> HIDE DEF lone
<1> QED
  BY <1>2, <1>3, <1>5, <1>6, <1>9, <1>10, <1>11, <1>12

(* What a step of one process has to show for the types. *)
LEMMA TypesAfter ==
  ASSUME MatrixTypes, NEW p \in Scanners, NEW s \in Procs, Proper(s), Go(p, s),
         down' = down, low' \in SUBSET (1..Rows), called' = called,
         index' \in Int, progress' \in Nat, slots' \in SUBSET Int,
         changing' \in BOOLEAN, shared' \in BOOLEAN
  PROVE  /\ MatrixTypes' /\ proc'[p] = s
         /\ \A q \in Scanners \ {p} : proc'[q] = proc[q]
<1>1. /\ proc' \in [Scanners -> Procs] /\ proc'[p] = s
      /\ \A q \in Scanners \ {p} : proc'[q] = proc[q]
  BY Went DEF MatrixTypes
<1>2. \A q \in Scanners : Proper(proc'[q])
  BY <1>1 DEF MatrixTypes
<1>3. /\ down' \in SUBSET Keys /\ \A k, l \in down' : k = l
      /\ called' \in Nat
  BY DEF MatrixTypes
<1> QED
  BY <1>1, <1>2, <1>3 DEF MatrixTypes

(* The inputs and the rows are of their types. *)
LEMMA RestIsTyped ==
  ASSUME MatrixTypes
  PROVE  /\ low \in SUBSET (1..Rows) /\ index \in Int /\ progress \in Nat
         /\ slots \in SUBSET Int /\ changing \in BOOLEAN /\ shared \in BOOLEAN
BY DEF MatrixTypes

(* One row is written. *)
LEMMA DriveWrites ==
  ASSUME MatrixTypes, NEW p \in Scanners, Drive(p)
  PROVE  LET r == proc[p]  s == proc'[p]
         IN  /\ MatrixTypes'
             /\ r.at = "drive" /\ down' = down /\ UNCHANGED inputVars
             /\ low' = IF r.i = r.row THEN low \cup {r.i} ELSE low \ {r.i}
             /\ s.row = r.row /\ s.got = r.got /\ s.first = r.first /\ s.firm = r.firm
             /\ s.held = r.held /\ s.alone = r.alone
             /\ \/ r.i = Rows /\ s.at = "read" /\ s.i = 1
                \/ r.i < Rows /\ s.at = "drive" /\ s.i = r.i + 1
             /\ \A q \in Scanners \ {p} : proc'[q] = proc[q]
<1> DEFINE r == proc[p]
           s == IF r.i = Rows THEN [r EXCEPT !.at = "read", !.i = 1]
                              ELSE [r EXCEPT !.i = r.i + 1]
<1>1. /\ r.at = "drive" /\ down' = down /\ called' = called /\ UNCHANGED inputVars
      /\ low' = IF r.i = r.row THEN low \cup {r.i} ELSE low \ {r.i}
      /\ Go(p, s)
  BY DEF Drive
<1>2. r \in Procs /\ Proper(r)
  BY StepNames
<1>3. /\ r.i \in Nat /\ r.i <= Rows /\ 1 <= r.i /\ r.i \in 1..Rows
      /\ r.row \in 1..Rows /\ r.got = Nothing
  BY <1>1, <1>2, MatrixHas DEF Proper
<1>4. s = IF r.i = Rows THEN MovedTo(r, "read", r.row, 1)
                        ELSE MovedTo(r, "drive", r.row, r.i + 1)
  <2>1. [r EXCEPT !.at = "read", !.i = 1] = MovedTo(r, "read", r.row, 1)
    BY <1>2, MovedInRow DEF Steps
  <2>2. [r EXCEPT !.i = r.i + 1] = MovedTo(r, "drive", r.row, r.i + 1)
    BY <1>1, <1>2 DEF MovedTo, Procs
  <2> QED
    BY <2>1, <2>2
<1> HIDE DEF s
<1>5. /\ s \in Procs /\ s.row = r.row /\ s.got = r.got /\ s.first = r.first
      /\ s.firm = r.firm /\ s.held = r.held /\ s.alone = r.alone
      /\ \/ r.i = Rows /\ s.at = "read" /\ s.i = 1
         \/ r.i < Rows /\ s.at = "drive" /\ s.i = r.i + 1
  <2>1. "read" \in Steps /\ "drive" \in Steps /\ r.row \in 0..Rows /\ 1 \in Nat
        /\ r.i + 1 \in Nat
    BY <1>3, MatrixHas DEF Steps
  <2>2. CASE r.i = Rows
    <3>1. s = MovedTo(r, "read", r.row, 1)
      BY <1>4, <2>2
    <3> QED
      BY <1>2, <2>1, <2>2, <3>1, Moved
  <2>3. CASE r.i # Rows
    <3>1. s = MovedTo(r, "drive", r.row, r.i + 1) /\ r.i < Rows
      BY <1>3, <1>4, <2>3, MatrixHas
    <3> QED
      BY <1>2, <2>1, <3>1, Moved
  <2> QED
    BY <2>2, <2>3
<1>6. Proper(s)
  <2>1. s.i \in 1..Rows /\ (s.at = "read" => s.i \in 1..Cols) /\ s.at \in {"drive", "read"}
    BY <1>3, <1>5, MatrixHas
  <2> QED
    BY <1>3, <1>5, <2>1 DEF Proper
<1>7. low' \in SUBSET (1..Rows)
  BY <1>1, <1>3, RestIsTyped
<1>8. /\ index' \in Int /\ progress' \in Nat /\ slots' \in SUBSET Int
      /\ changing' \in BOOLEAN /\ shared' \in BOOLEAN
  BY <1>1, RestIsTyped DEF inputVars
<1>9. MatrixTypes' /\ proc'[p] = s /\ \A q \in Scanners \ {p} : proc'[q] = proc[q]
  BY <1>1, <1>5, <1>6, <1>7, <1>8, TypesAfter
<1> QED
  BY <1>1, <1>5, <1>9

(* A column is read. *)
LEMMA ReadLooks ==
  ASSUME MatrixTypes, NEW p \in Scanners, Read(p)
  PROVE  LET r == proc[p]  s == proc'[p]
         IN  /\ MatrixTypes'
             /\ r.at = "read" /\ down' = down /\ low' = low /\ UNCHANGED inputVars
             /\ \A q \in Scanners \ {p} : proc'[q] = proc[q]
             /\ s.held = r.held /\ s.alone = r.alone
             /\ \/ IsLow(r.i) /\ s.at = "again" /\ s.i = r.i /\ s.row = r.row
                   /\ s.first = down /\ s.got = Nothing
                \/ ~IsLow(r.i) /\ s = Onward(r)
<1> DEFINE r == proc[p]
           s == IF IsLow(r.i) THEN [r EXCEPT !.at = "again", !.first = down]
                              ELSE Onward(r)
<1>1. /\ r.at = "read" /\ down' = down /\ low' = low /\ called' = called
      /\ UNCHANGED inputVars /\ Go(p, s)
  BY DEF Read, padVars
<1>2. r \in Procs /\ Proper(r) /\ down \in SUBSET Keys
  BY StepNames DEF MatrixTypes
<1>3. /\ s \in Procs /\ Proper(s) /\ s.held = r.held /\ s.alone = r.alone
      /\ \/ IsLow(r.i) /\ s.at = "again" /\ s.i = r.i /\ s.row = r.row
            /\ s.first = down /\ s.got = Nothing
         \/ ~IsLow(r.i) /\ s = Onward(r)
  <2>1. CASE ~IsLow(r.i)
    <3>1. s = Onward(r)
      BY <2>1
    <3> HIDE DEF s, r
    <3> QED
      BY <1>1, <1>2, <2>1, <3>1, Onwards DEF r
  <2>2. CASE IsLow(r.i)
    <3>1. s = [r EXCEPT !.at = "again", !.first = down]
      BY <2>2
    <3> HIDE DEF s
    <3>2. /\ s.at = "again" /\ s.i = r.i /\ s.row = r.row /\ s.first = down
          /\ s.got = r.got /\ s.held = r.held /\ s.alone = r.alone
      BY <1>2, <3>1 DEF Procs
    <3>3. "again" \in Steps
      BY DEF Steps
    <3>4. s \in Procs
      BY <1>2, <3>1, <3>3 DEF Procs
    <3>5. Proper(s) /\ s.got = Nothing
      BY <1>1, <1>2, <3>2 DEF Proper
    <3> QED
      BY <2>2, <3>2, <3>4, <3>5
  <2> QED
    BY <2>1, <2>2
<1> HIDE DEF s
<1>4. /\ index' \in Int /\ progress' \in Nat /\ slots' \in SUBSET Int
      /\ changing' \in BOOLEAN /\ shared' \in BOOLEAN /\ low' \in SUBSET (1..Rows)
  BY <1>1, RestIsTyped DEF inputVars
<1>5. MatrixTypes' /\ proc'[p] = s /\ \A q \in Scanners \ {p} : proc'[q] = proc[q]
  BY <1>1, <1>3, <1>4, TypesAfter
<1> QED
  BY <1>1, <1>3, <1>5

(* The same column is read again. *)
LEMMA ReadAgainLooks ==
  ASSUME MatrixTypes, NEW p \in Scanners, ReadAgain(p)
  PROVE  LET r == proc[p]  s == proc'[p]
         IN  /\ MatrixTypes'
             /\ r.at = "again" /\ down' = down /\ low' = low /\ UNCHANGED inputVars
             /\ \A q \in Scanners \ {p} : proc'[q] = proc[q]
             /\ s.held = r.held /\ s.alone = r.alone
             /\ \/ IsLow(r.i) /\ s.at = "raise" /\ s.i = 1 /\ s.got = <<r.row, r.i>>
                   /\ (s.firm <=> <<r.row, r.i>> \in r.first \cap down)
                \/ ~IsLow(r.i) /\ s = Onward(r)
<1> DEFINE r    == proc[p]
           key  == <<r.row, r.i>>
           firm == key \in r.first \cap down
           s    == IF IsLow(r.i) THEN [r EXCEPT !.at = "raise", !.i = 1, !.got = key,
                                         !.firm = firm]
                                 ELSE Onward(r)
<1>1. /\ r.at = "again" /\ down' = down /\ low' = low /\ called' = called
      /\ UNCHANGED inputVars /\ Go(p, s)
  BY DEF ReadAgain, padVars
<1>2. r \in Procs /\ Proper(r) /\ down \in SUBSET Keys
  BY StepNames DEF MatrixTypes
<1>3. r.row \in 1..Rows /\ r.i \in 1..Cols /\ key \in Keys
  BY <1>1, <1>2, KeyHasPlace DEF Proper
<1>4. /\ s \in Procs /\ Proper(s) /\ s.held = r.held /\ s.alone = r.alone
      /\ \/ IsLow(r.i) /\ s.at = "raise" /\ s.i = 1 /\ s.got = key
            /\ s.firm = firm
         \/ ~IsLow(r.i) /\ s = Onward(r)
  <2>1. CASE ~IsLow(r.i)
    <3>1. s = Onward(r)
      BY <2>1
    <3> HIDE DEF s, r
    <3> QED
      BY <1>1, <1>2, <2>1, <3>1, Onwards DEF r
  <2>2. CASE IsLow(r.i)
    <3>1. firm \in BOOLEAN
      OBVIOUS
    <3>3. s = [r EXCEPT !.at = "raise", !.i = 1, !.got = key, !.firm = firm]
      BY <2>2
    <3> HIDE DEF s, firm, key
    <3>4. /\ s.at = "raise" /\ s.i = 1 /\ s.row = r.row /\ s.got = key
          /\ s.firm = firm /\ s.held = r.held /\ s.alone = r.alone
      BY <1>2, <3>3 DEF Procs
    <3>5. "raise" \in Steps /\ 1 \in 1..Rows
      BY MatrixHas DEF Steps
    <3>6. s \in Procs
      BY <1>2, <1>3, <3>1, <3>3, <3>5 DEF Procs
    <3>7. Proper(s)
      BY <3>4, <3>5 DEF Proper
    <3> QED
      BY <2>2, <3>4, <3>6, <3>7
  <2> QED
    BY <2>1, <2>2
<1> HIDE DEF s
<1>5. /\ index' \in Int /\ progress' \in Nat /\ slots' \in SUBSET Int
      /\ changing' \in BOOLEAN /\ shared' \in BOOLEAN /\ low' \in SUBSET (1..Rows)
  BY <1>1, RestIsTyped DEF inputVars
<1>6. MatrixTypes' /\ proc'[p] = s /\ \A q \in Scanners \ {p} : proc'[q] = proc[q]
  BY <1>1, <1>4, <1>5, TypesAfter
<1> QED
  BY <1>1, <1>4, <1>6

(* The rows go up again, one after the other; the key is then processed,   *)
(* or handed out.                                                          *)
LEMMA RaiseWrites ==
  ASSUME MatrixTypes, NEW p \in Scanners, Raise(p)
  PROVE  LET r == proc[p]  s == proc'[p]
         IN  /\ MatrixTypes'
             /\ r.at = "raise" /\ down' = down /\ low' = low \ {r.i}
             /\ UNCHANGED <<index, progress, slots>>
             /\ \A q \in Scanners \ {p} : proc'[q] = proc[q]
             /\ \/ /\ r.i < Rows /\ s.at = "raise" /\ s.i = r.i + 1
                   /\ s.got = r.got /\ s.firm = r.firm /\ s.held = r.held
                   /\ s.alone = r.alone /\ shared' = shared
                \/ /\ r.i = Rows /\ s.held = {}
                   /\ \/ s.at = "outside" /\ shared' = shared
                      \/ s.at = "compare"
                         /\ (shared' <=> shared \/ \E q \in Scanners \ {p} : Processing(q))
<1> DEFINE r == proc[p]
           s == IF r.i < Rows THEN [r EXCEPT !.i = r.i + 1]
                ELSE IF r.call = "scan" /\ r.got # Nothing
                THEN [Outside EXCEPT !.at = "compare", !.got = r.got]
                ELSE Outside
           met == \E q \in Scanners \ {p} : Processing(q)
<1>1. /\ r.at = "raise" /\ down' = down /\ low' = low \ {r.i} /\ called' = called
      /\ UNCHANGED <<index, progress, changing, slots>> /\ Go(p, s)
      /\ shared' = (shared \/ (proc'[p].at = "compare" /\ met))
  BY DEF Raise
<1>2. r \in Procs /\ Proper(r) /\ shared \in BOOLEAN
  BY StepNames DEF MatrixTypes
<1>3. r.i \in Nat /\ r.i <= Rows /\ 1 <= r.i /\ r.got \in Keys \cup {Nothing}
  BY <1>1, <1>2, MatrixHas DEF Proper, Procs
<1>4. /\ s \in Procs /\ Proper(s)
      /\ \/ /\ r.i < Rows /\ s.at = "raise" /\ s.i = r.i + 1
            /\ s.got = r.got /\ s.firm = r.firm /\ s.held = r.held
            /\ s.alone = r.alone
         \/ r.i = Rows /\ s.held = {} /\ s.at \in {"compare", "outside"}
  <2>1. CASE r.i < Rows
    <3>1. s = [r EXCEPT !.i = r.i + 1]
      BY <2>1
    <3>2. r.i + 1 \in 1..Rows /\ r.i + 1 \in Nat
      BY <1>3, <2>1, MatrixHas
    <3> HIDE DEF s
    <3>3. /\ s.at = "raise" /\ s.i = r.i + 1 /\ s.row = r.row
          /\ s.got = r.got /\ s.firm = r.firm /\ s.held = r.held /\ s.alone = r.alone
      BY <1>1, <1>2, <3>1 DEF Procs
    <3>4. s \in Procs
      BY <1>2, <3>1, <3>2 DEF Procs
    <3>5. Proper(s)
      BY <3>2, <3>3 DEF Proper
    <3> QED
      BY <2>1, <3>3, <3>4, <3>5
  <2>2. CASE ~(r.i < Rows) /\ r.call = "scan" /\ r.got # Nothing
    <3>1. s = [Outside EXCEPT !.at = "compare", !.got = r.got] /\ r.got \in Keys
      BY <1>3, <2>2
    <3>2. r.i = Rows /\ "compare" \in Steps /\ Outside \in Procs /\ Outside.held = {}
      BY <1>3, <2>2, MatrixHas, OutsideIsProc DEF Steps
    <3> HIDE DEF s
    <3>3. s.at = "compare" /\ s.got = r.got /\ s.held = {}
      BY <3>1, <3>2 DEF Procs
    <3>4. s \in Procs
      BY <3>1, <3>2 DEF Procs
    <3>5. Proper(s)
      BY <3>1, <3>3 DEF Proper
    <3> QED
      BY <3>2, <3>3, <3>4, <3>5
  <2>3. CASE ~(r.i < Rows) /\ ~(r.call = "scan" /\ r.got # Nothing)
    <3>1. s = Outside /\ r.i = Rows
      BY <1>3, <2>3, MatrixHas
    <3> QED
      BY <3>1, OutsideIsProc
  <2> QED
    BY <2>1, <2>2, <2>3
<1> HIDE DEF s, met
<1>5. /\ index' \in Int /\ progress' \in Nat /\ slots' \in SUBSET Int
      /\ changing' \in BOOLEAN /\ low' \in SUBSET (1..Rows)
  BY <1>1, RestIsTyped
<1>6. shared' \in BOOLEAN
  BY <1>1, <1>2
<1>7. MatrixTypes' /\ proc'[p] = s /\ \A q \in Scanners \ {p} : proc'[q] = proc[q]
  BY <1>1, <1>4, <1>5, <1>6, TypesAfter
<1>8. /\ s.at # "compare" => shared' = shared
      /\ s.at = "compare" => (shared' <=> shared \/ met)
  BY <1>1, <1>2, <1>7
<1>9. \/ /\ r.i < Rows /\ s.at = "raise" /\ s.i = r.i + 1
         /\ s.got = r.got /\ s.firm = r.firm /\ s.held = r.held
         /\ s.alone = r.alone /\ shared' = shared
      \/ /\ r.i = Rows /\ s.held = {}
         /\ \/ s.at = "outside" /\ shared' = shared
            \/ s.at = "compare" /\ (shared' <=> shared \/ met)
  BY <1>4, <1>8
<1> QED
  BY <1>1, <1>7, <1>9 DEF met

(* A process that processes its key, and what it has loaded. *)
Loads(r, a, n) == [r EXCEPT !.at = a, !.loaded = n]

(* Such a record is one of a process again. *)
LEMMA Loaded ==
  ASSUME NEW r, NEW a, NEW n, r \in Procs, n \in Int, r.got \in Keys,
         a \in {"advance", "test", "put", "delete"},
         a \in {"advance", "test"} => n \in Nat
  PROVE  LET s == Loads(r, a, n)
         IN  s \in Procs /\ Proper(s) /\ s.at = a /\ s.loaded = n /\ s.held = r.held
<1> DEFINE s == Loads(r, a, n)
<1>1. s = [r EXCEPT !.at = a, !.loaded = n] /\ a \in Steps
  BY DEF Loads, Steps
<1> HIDE DEF s
<1>2. s.at = a /\ s.loaded = n /\ s.held = r.held /\ s.got = r.got
  BY <1>1 DEF Procs
<1>3. s \in Procs
  BY <1>1 DEF Procs
<1>4. Proper(s)
  BY <1>2 DEF Proper
<1> QED
  BY <1>2, <1>3, <1>4 DEF s

(* A process in key_process_input has a key. *)
LEMMA WorkerHasKey ==
  ASSUME MatrixTypes, NEW p \in Scanners, Processing(p)
  PROVE  /\ proc[p] \in Procs /\ proc[p].got \in Keys
         /\ KeyOf(p) \in {Digit, Star, Hash} \cup (1..SequenceLength)
         /\ proc[p].loaded \in Int
         /\ proc[p].at \in {"advance", "test"} => proc[p].loaded \in Nat
<1>1. proc[p] \in Procs /\ Proper(proc[p])
  BY StepNames
<1>2. proc[p].got \in Keys /\ (proc[p].at \in {"advance", "test"} => proc[p].loaded \in Nat)
  BY <1>1 DEF Processing, Proper
<1>3. KeyOf(p) \in {Digit, Star, Hash} \cup (1..SequenceLength)
  BY <1>2, MatrixAssumption DEF KeyOf
<1> QED
  BY <1>1, <1>2, <1>3 DEF Procs

(* What a step of key_process_input leaves alone: the finger, the rows and *)
(* the other processes.                                                    *)
Works(p) ==
  /\ Processing(p) /\ down' = down /\ low' = low /\ shared' = shared
  /\ proc'[p].at \in {"outside", "advance", "test", "put", "delete"}
  /\ proc'[p].held \subseteq proc[p].held
  /\ \A q \in Scanners \ {p} : proc'[q] = proc[q]

(* And what it has to show for the types. *)
LEMMA WorkTypes ==
  ASSUME MatrixTypes, NEW p \in Scanners, NEW s \in Procs, Proper(s), Go(p, s),
         UNCHANGED padVars, shared' = shared, s.held \subseteq proc[p].held,
         s.at \in {"outside", "advance", "test", "put", "delete"}, Processing(p),
         index' \in Int, progress' \in Nat, slots' \in SUBSET Int, changing' \in BOOLEAN
  PROVE  MatrixTypes' /\ proc'[p] = s /\ Works(p)
<1>1. low' \in SUBSET (1..Rows) /\ shared' \in BOOLEAN
      /\ down' = down /\ low' = low /\ called' = called
  BY RestIsTyped DEF padVars
<1>2. /\ MatrixTypes' /\ proc'[p] = s
      /\ \A q \in Scanners \ {p} : proc'[q] = proc[q]
  BY <1>1, TypesAfter
<1> QED
  BY <1>1, <1>2 DEF Works

(* A letter that does not match ends the sequence, one that does is what   *)
(* is to come; past its end anything may seem to match.                    *)
LEMMA LetterCompared ==
  ASSUME MatrixTypes, NEW p \in Scanners, CompareLetter(p)
  PROVE  /\ MatrixTypes' /\ Works(p) /\ index' = index /\ slots' = slots
         /\ \/ /\ proc'[p].at = "advance" /\ proc'[p].loaded = progress
               /\ progress' = progress
               /\ progress < SequenceLength \/ SequenceLength < progress
            \/ proc'[p].at = "outside" /\ progress' \in {0, 1}
<1>1. /\ proc[p].at = "compare" /\ Letter(p) /\ UNCHANGED padVars
      /\ UNCHANGED <<index, changing, slots, shared>>
  BY DEF CompareLetter
<1>2. Processing(p)
  BY <1>1 DEF Processing
<1>3. PICK match \in Matches(KeyOf(p)) :
        IF match
        THEN /\ Go(p, [proc[p] EXCEPT !.at = "advance", !.loaded = progress])
             /\ UNCHANGED progress
        ELSE /\ progress' = IF KeyOf(p) = 1 THEN 1 ELSE 0
             /\ Go(p, Outside)
  BY DEF CompareLetter
<1>4. /\ proc[p] \in Procs /\ proc[p].got \in Keys
      /\ KeyOf(p) \in 1..SequenceLength /\ KeyOf(p) \in Nat
      /\ progress \in Nat
  <2>1. KeyOf(p) \in {Digit, Star, Hash} \cup (1..SequenceLength) /\ KeyOf(p) > 0
    BY <1>1, <1>2, WorkerHasKey DEF Letter
  <2>2. KeyOf(p) \in 1..SequenceLength
    BY <2>1 DEF Digit, Star, Hash
  <2> QED
    BY <1>2, <2>2, MatrixHas, WorkerHasKey DEF MatrixTypes
<1>5. /\ index' \in Int /\ slots' \in SUBSET Int /\ changing' \in BOOLEAN
      /\ index' = index /\ slots' = slots /\ shared' = shared
  BY <1>1, RestIsTyped
<1>6. CASE match
  <2>1. Go(p, Loads(proc[p], "advance", progress)) /\ progress' = progress
    BY <1>3, <1>6 DEF Loads
  <2> DEFINE s == Loads(proc[p], "advance", progress)
  <2>2. s \in Procs /\ Proper(s) /\ s.at = "advance" /\ s.loaded = progress
        /\ s.held = proc[p].held
    BY <1>4, Loaded
  <2> HIDE DEF s
  <2>3. MatrixTypes' /\ Works(p) /\ proc'[p] = s
    BY <1>1, <1>2, <1>4, <1>5, <2>1, <2>2, WorkTypes DEF s
  <2>4. progress < SequenceLength \/ SequenceLength < progress
    <3>1. CASE progress \in SequenceLength + 1 .. SequenceLength + Beyond
      BY <3>1, <1>4, MatrixHas
    <3>2. CASE progress \notin SequenceLength + 1 .. SequenceLength + Beyond
      <4>1. match = (KeyOf(p) = progress + 1)
        BY <3>2 DEF Matches
      <4>2. KeyOf(p) = progress + 1
        BY <1>6, <4>1, Zenon
      <4> QED
        BY <1>4, <4>2, MatrixHas
    <3> QED
      BY <3>1, <3>2
  <2> QED
    BY <1>5, <2>1, <2>2, <2>3, <2>4
<1>7. CASE ~match
  <2>1. Go(p, Outside) /\ progress' \in {0, 1}
    BY <1>3, <1>7
  <2>2. progress' \in Nat /\ Outside.held \subseteq proc[p].held
    BY <2>1, OutsideIsProc
  <2>3. MatrixTypes' /\ Works(p) /\ proc'[p] = Outside
    BY <1>1, <1>2, <1>5, <2>1, <2>2, OutsideIsProc, WorkTypes
  <2> QED
    BY <1>5, <2>1, <2>3, OutsideIsProc
<1> QED
  BY <1>6, <1>7

(* reset_index++ *)
LEMMA Advanced ==
  ASSUME MatrixTypes, NEW p \in Scanners, Advance(p)
  PROVE  /\ MatrixTypes' /\ Works(p) /\ index' = index /\ slots' = slots
         /\ proc[p].at = "advance" /\ proc'[p].at = "test"
         /\ progress' \in {progress + 1, proc[p].loaded + 1}
         /\ proc'[p].loaded = progress'
<1>1. /\ proc[p].at = "advance" /\ UNCHANGED padVars
      /\ UNCHANGED <<index, changing, slots, shared>>
      /\ progress' \in {progress + 1, proc[p].loaded + 1}
      /\ Go(p, Loads(proc[p], "test", progress'))
  BY DEF Advance, Loads
<1>2. Processing(p)
  BY <1>1 DEF Processing
<1>3. proc[p] \in Procs /\ proc[p].got \in Keys /\ proc[p].loaded \in Nat
  BY <1>1, <1>2, WorkerHasKey
<1>4. progress' \in Nat
  BY <1>1, <1>3, RestIsTyped
<1>5. /\ index' \in Int /\ slots' \in SUBSET Int /\ changing' \in BOOLEAN
      /\ index' = index /\ slots' = slots /\ shared' = shared
  BY <1>1, RestIsTyped
<1> DEFINE s == Loads(proc[p], "test", progress')
<1>6. s \in Procs /\ Proper(s) /\ s.at = "test" /\ s.loaded = progress'
      /\ s.held = proc[p].held
  BY <1>3, <1>4, Loaded
<1> HIDE DEF s
<1>7. MatrixTypes' /\ Works(p) /\ proc'[p] = s
  BY <1>1, <1>2, <1>4, <1>5, <1>6, WorkTypes DEF s
<1> QED
  BY <1>1, <1>5, <1>6, <1>7

(* The sequence is complete, or not. *)
LEMMA Completed ==
  ASSUME MatrixTypes, NEW p \in Scanners, Complete(p)
  PROVE  /\ MatrixTypes' /\ Works(p) /\ slots' = slots
         /\ proc'[p].at = "outside"
         /\ \/ progress' = progress /\ index' = index
            \/ progress' = 0 /\ index' = 0
<1>1. /\ proc[p].at = "test" /\ UNCHANGED padVars
      /\ slots' = slots /\ shared' = shared /\ Go(p, Outside)
      /\ \/ progress' = progress /\ index' = index /\ changing' = changing
         \/ progress' = 0 /\ index' = 0 /\ changing' = TRUE
  BY DEF Complete
<1>2. Processing(p)
  BY <1>1 DEF Processing
<1>3. index' \in Int /\ progress' \in Nat
  BY <1>1, RestIsTyped
<1>4. changing' \in BOOLEAN /\ slots' \in SUBSET Int
  BY <1>1, RestIsTyped
<1>5. MatrixTypes' /\ Works(p) /\ proc'[p] = Outside
  <2>1. Outside.held \subseteq proc[p].held
    BY OutsideIsProc
  <2> QED
    BY <1>1, <1>2, <1>3, <1>4, <2>1, OutsideIsProc, WorkTypes
<1> QED
  BY <1>1, <1>5, OutsideIsProc

(* A look at input_index, for a digit or for a *. *)
LEMMA IndexCompared ==
  ASSUME MatrixTypes, NEW p \in Scanners, CompareDigit(p) \/ CompareDelete(p)
  PROVE  /\ MatrixTypes' /\ Works(p) /\ index' = index /\ slots' = slots
         /\ progress' = 0
         /\ \/ proc'[p].at = "put" /\ proc'[p].loaded = index /\ index < PasswordLength
            \/ proc'[p].at = "delete" /\ proc'[p].loaded = index /\ 0 < index
            \/ proc'[p].at = "outside"
<1>1. /\ proc[p].at = "compare" /\ UNCHANGED padVars
      /\ UNCHANGED <<index, changing, slots, shared>>
      /\ progress' = 0
      /\ \/ Go(p, Loads(proc[p], "put", index)) /\ index < PasswordLength
         \/ Go(p, Loads(proc[p], "delete", index)) /\ index > 0
         \/ Go(p, Outside)
  BY DEF CompareDigit, CompareDelete, Loads
<1>2. Processing(p)
  BY <1>1 DEF Processing
<1>3. proc[p] \in Procs /\ proc[p].got \in Keys /\ index \in Int
  BY <1>2, WorkerHasKey, RestIsTyped
<1>4. /\ index' \in Int /\ slots' \in SUBSET Int /\ changing' \in BOOLEAN
      /\ progress' \in Nat
      /\ index' = index /\ slots' = slots /\ shared' = shared
  BY <1>1, RestIsTyped
<1>5. ASSUME NEW a \in {"put", "delete"}, Go(p, Loads(proc[p], a, index))
      PROVE  /\ MatrixTypes' /\ Works(p)
             /\ proc'[p].at = a /\ proc'[p].loaded = index
  <2> DEFINE s == Loads(proc[p], a, index)
  <2>1. s \in Procs /\ Proper(s) /\ s.at = a /\ s.loaded = index
        /\ s.held = proc[p].held
    BY <1>3, Loaded
  <2> HIDE DEF s
  <2>2. MatrixTypes' /\ Works(p) /\ proc'[p] = s
    BY <1>1, <1>2, <1>4, <1>5, <2>1, WorkTypes DEF s
  <2> QED
    BY <2>1, <2>2
<1>6. CASE Go(p, Outside)
  <2>1. Outside.held \subseteq proc[p].held
    BY OutsideIsProc
  <2>2. MatrixTypes' /\ Works(p) /\ proc'[p] = Outside
    BY <1>1, <1>2, <1>4, <1>6, <2>1, OutsideIsProc, WorkTypes
  <2> QED
    BY <1>1, <1>4, <2>2, OutsideIsProc
<1> QED
  BY <1>1, <1>3, <1>4, <1>5, <1>6

(* The slot is written and the index moved. *)
LEMMA IndexMoved ==
  ASSUME MatrixTypes, NEW p \in Scanners, Put(p) \/ Delete(p)
  PROVE  /\ MatrixTypes' /\ Works(p) /\ progress' = progress
         /\ proc'[p].at = "outside"
         /\ \/ /\ proc[p].at = "put"
               /\ \E slot \in {index, proc[p].loaded} :
                    slots' = slots \cup {slot} /\ index' = slot + 1
            \/ /\ proc[p].at = "delete"
               /\ \E slot \in {index - 1, proc[p].loaded - 1} :
                    slots' = slots \cup {slot} /\ index' = slot
<1>1. /\ proc[p].at \in {"put", "delete"} /\ UNCHANGED padVars
      /\ UNCHANGED <<progress, changing, shared>> /\ Go(p, Outside)
      /\ \/ /\ proc[p].at = "put"
            /\ \E slot \in {index, proc[p].loaded} :
                 slots' = slots \cup {slot} /\ index' = slot + 1
         \/ /\ proc[p].at = "delete"
            /\ \E slot \in {index - 1, proc[p].loaded - 1} :
                 slots' = slots \cup {slot} /\ index' = slot
  BY DEF Put, Delete
<1>2. Processing(p)
  BY <1>1 DEF Processing
<1>3. proc[p].loaded \in Int /\ index \in Int /\ slots \in SUBSET Int
  BY <1>2, WorkerHasKey, RestIsTyped
<1>4. index' \in Int /\ slots' \in SUBSET Int
  <2>1. PICK slot \in Int : slots' = slots \cup {slot} /\ index' \in {slot, slot + 1}
    <3>1. /\ index - 1 \in Int /\ proc[p].loaded - 1 \in Int
      BY <1>3
    <3> QED
      BY <1>1, <1>3, <3>1
  <2> QED
    BY <1>3, <2>1
<1>5. changing' \in BOOLEAN /\ progress' \in Nat /\ Outside.held \subseteq proc[p].held
  BY <1>1, RestIsTyped, OutsideIsProc
<1>6. MatrixTypes' /\ Works(p) /\ proc'[p] = Outside
  BY <1>1, <1>2, <1>4, <1>5, OutsideIsProc, WorkTypes
<1> QED
  BY <1>1, <1>6, OutsideIsProc

(* # ends the input. *)
LEMMA Confirmed ==
  ASSUME MatrixTypes, NEW p \in Scanners, Confirm(p)
  PROVE  /\ MatrixTypes' /\ Works(p) /\ slots' = slots
         /\ proc'[p].at = "outside" /\ progress' = 0 /\ index' = 0
<1>1. /\ proc[p].at = "compare" /\ UNCHANGED padVars
      /\ slots' = slots /\ shared' = shared /\ Go(p, Outside)
      /\ progress' = 0 /\ index' = 0 /\ changing' = (changing /\ index # PasswordLength)
  BY DEF Confirm
<1>2. Processing(p)
  BY <1>1 DEF Processing
<1>3. changing' \in BOOLEAN
  BY <1>1
<1>4. /\ index' \in Int /\ slots' \in SUBSET Int
      /\ progress' \in Nat /\ Outside.held \subseteq proc[p].held
  BY <1>1, RestIsTyped, OutsideIsProc
<1>5. MatrixTypes' /\ Works(p) /\ proc'[p] = Outside
  BY <1>1, <1>2, <1>3, <1>4, OutsideIsProc, WorkTypes
<1> QED
  BY <1>1, <1>5, OutsideIsProc

(* KEY_IOCTL_CLEAR *)
LEMMA Cleared ==
  ASSUME MatrixTypes, NEW p \in Scanners, Clear(p)
  PROVE  /\ MatrixTypes' /\ UNCHANGED <<down, low, proc, progress, slots>> /\ index' = 0
         /\ shared' <=> shared \/ \E q \in Scanners : Processing(q)
<1> DEFINE met == \E q \in Scanners : Processing(q)
<1>1. /\ UNCHANGED <<down, low, proc, progress, changing, slots>> /\ index' = 0
      /\ shared' = (shared \/ met) /\ called' = called + 1
  BY DEF Clear
<1>2. called \in Nat /\ shared \in BOOLEAN
  BY DEF MatrixTypes
<1> HIDE DEF met
<1>3. called' \in Nat /\ shared' \in BOOLEAN /\ index' \in Int
  BY <1>1, <1>2
<1>4. MatrixTypes'
  BY <1>1, <1>3 DEF MatrixTypes
<1> QED
  BY <1>1, <1>2, <1>4 DEF met

(* While a process scans, no other has a scan that met no other. *)
LEMMA OthersMet ==
  ASSUME ScanInd, NEW p \in Scanners, Scanning(p), NEW q \in Scanners, q # p
  PROVE  ~(Scanning(q) /\ proc[q].alone)
BY DEF ScanInd, LoneIsOnly

(* Of a process that does not scan there is only one thing to say. *)
LEMMA SoundAtRest ==
  ASSUME NEW q \in Scanners, proc[q].held \subseteq down, ~(Scanning(q) /\ proc[q].alone)
  PROVE  SoundScan(q)
BY DEF SoundScan, DrivesItsRow, SawItHere, HeldIsAhead, FoundIsTrue, Scanning

(* A process that stays where it is while another scans is as sound as it  *)
(* was, the rows being the other's.                                        *)
LEMMA OthersStaySound ==
  ASSUME ScanInd, NEW p \in Scanners, Scanning(p), NEW q \in Scanners, q # p,
         proc'[q] = proc[q], down' = down
  PROVE  SoundScan(q)'
<1>1. ~(Scanning(q) /\ proc[q].alone)' /\ (proc[q].held \subseteq down)'
  BY OthersMet DEF ScanInd, SoundScan, Scanning
<1> QED
  BY <1>1 DEF SoundScan, DrivesItsRow, SawItHere, HeldIsAhead, FoundIsTrue, Scanning

(* Who scans and was alone before a step of one process is so after it. *)
LEMMA OnlyStays ==
  ASSUME ScanInd, NEW p \in Scanners, Scanning(p),
         proc'[p].at \in {"drive", "read", "again", "raise"} => proc'[p].alone = proc[p].alone,
         \A q \in Scanners \ {p} : proc'[q] = proc[q]
  PROVE  LoneIsOnly'
<1>1. \A q \in Scanners : Scanning(q)' => Scanning(q) /\ proc'[q].alone = proc[q].alone
  BY DEF Scanning
<1> QED
  BY <1>1 DEF ScanInd, LoneIsOnly

(* The finger takes the keys away that scans have seen all the time. *)
LEMMA FingerKeepsScans ==
  ASSUME MatrixTypes, ScanInd, Presses \/ Releases
  PROVE  ScanInd'
<1>1. /\ low' = low
      /\ \A q \in Scanners :
              /\ proc'[q].at = proc[q].at /\ proc'[q].row = proc[q].row
              /\ proc'[q].i = proc[q].i /\ proc'[q].got = proc[q].got
              /\ proc'[q].first = proc[q].first /\ proc'[q].firm = proc[q].firm
              /\ proc'[q].alone = proc[q].alone
              /\ proc'[q].held = {}
  BY FingerMoves
<1>2. RowsAreRaised'
  BY <1>1 DEF ScanInd, RowsAreRaised, Scanning
<1>3. LoneIsOnly'
  BY <1>1 DEF ScanInd, LoneIsOnly, Scanning
<1>4. ASSUME NEW q \in Scanners PROVE SoundScan(q)'
  <2>1. (proc[q].held \subseteq down)'
    BY <1>1
  <2>2. ASSUME proc[q].alone
        PROVE  (DrivesItsRow(q) /\ SawItHere(q) /\ HeldIsAhead(q) /\ FoundIsTrue(q))'
    <3>1. DrivesItsRow(q) /\ SawItHere(q) /\ FoundIsTrue(q)
      BY <2>2 DEF ScanInd, SoundScan
    <3>2. DrivesItsRow(q)'
      BY <1>1, <3>1 DEF DrivesItsRow
    <3>3. SawItHere(q)'
      BY <1>1, <3>1 DEF SawItHere
    <3>4. HeldIsAhead(q)'
      BY <1>1 DEF HeldIsAhead
    <3>5. FoundIsTrue(q)'
      BY <1>1, <3>1 DEF FoundIsTrue
    <3> QED
      BY <3>2, <3>3, <3>4, <3>5
  <2> QED
    BY <1>1, <2>1, <2>2 DEF SoundScan
<1> QED
  BY <1>2, <1>3, <1>4 DEF ScanInd

(* A scan begins: if it is the only one, all rows are high. *)
LEMMA CallKeepsScans ==
  ASSUME MatrixTypes, ScanInd, NEW p \in Scanners, NEW call \in {"get", "scan"},
         Call(p, call)
  PROVE  ScanInd'
<1>1. /\ down' = down /\ low' = low /\ proc[p].at = "outside"
      /\ proc'[p].at = "drive" /\ proc'[p].row = 1 /\ proc'[p].i = 1
      /\ proc'[p].held = down
      /\ proc'[p].alone => \A q \in Scanners \ {p} : ~Scanning(q)
      /\ \A q \in Scanners \ {p} :
           /\ proc'[q].at = proc[q].at /\ proc'[q].row = proc[q].row
           /\ proc'[q].i = proc[q].i /\ proc'[q].got = proc[q].got
           /\ proc'[q].first = proc[q].first /\ proc'[q].firm = proc[q].firm
           /\ proc'[q].held = proc[q].held
           /\ proc'[q].alone => proc[q].alone
           /\ Scanning(q) => ~proc'[q].alone
  BY CallBegins
<1>2. ~Scanning(p) /\ Scanning(p)'
  BY <1>1 DEF Scanning
<1>3. \A q \in Scanners \ {p} : Scanning(q)' <=> Scanning(q)
  BY <1>1 DEF Scanning
<1>4. RowsAreRaised'
  BY <1>1, <1>2, <1>3 DEF ScanInd, RowsAreRaised
<1>5. LoneIsOnly'
  BY <1>1, <1>2, <1>3 DEF ScanInd, LoneIsOnly
<1>6. proc'[p].alone => low = {}
  BY <1>1, <1>2 DEF ScanInd, RowsAreRaised
<1>7. SoundScan(p)'
  <2>1. DrivesItsRow(p)' \/ ~proc'[p].alone
    BY <1>1, <1>6 DEF DrivesItsRow
  <2>2. SawItHere(p)' /\ FoundIsTrue(p)'
    BY <1>1 DEF SawItHere, FoundIsTrue
  <2>3. HeldIsAhead(p)'
    <3>1. \A k \in down : k[1] \in 1..Rows
      BY KeyHasPlace DEF MatrixTypes
    <3>2. \A k \in down : 1 < k[1] \/ 1 = k[1]
      BY <3>1, MatrixHas
    <3> QED
      BY <1>1, <3>2 DEF HeldIsAhead
  <2> QED
    BY <1>1, <2>1, <2>2, <2>3 DEF SoundScan
<1>8. ASSUME NEW q \in Scanners, q # p PROVE SoundScan(q)'
  <2>1. (proc[q].held \subseteq down)' /\ ~(Scanning(q) /\ proc[q].alone)'
    BY <1>1, <1>3, <1>8 DEF ScanInd, SoundScan
  <2> QED
    BY <2>1 DEF SoundScan, DrivesItsRow, SawItHere, HeldIsAhead, FoundIsTrue, Scanning
<1> QED
  BY <1>4, <1>5, <1>7, <1>8 DEF ScanInd

(* A row is written. *)
LEMMA DriveKeepsScans ==
  ASSUME MatrixTypes, ScanInd, NEW p \in Scanners, Drive(p)
  PROVE  ScanInd'
<1> DEFINE r == proc[p]  s == proc'[p]
<1>1. /\ r.at = "drive" /\ down' = down
      /\ low' = IF r.i = r.row THEN low \cup {r.i} ELSE low \ {r.i}
      /\ s.row = r.row /\ s.got = r.got /\ s.first = r.first /\ s.firm = r.firm
      /\ s.held = r.held /\ s.alone = r.alone
      /\ \/ r.i = Rows /\ s.at = "read" /\ s.i = 1
         \/ r.i < Rows /\ s.at = "drive" /\ s.i = r.i + 1
      /\ \A q \in Scanners \ {p} : proc'[q] = proc[q]
  BY DriveWrites
<1>2. Scanning(p) /\ Scanning(p)' /\ proc'[p].at # "raise"
  BY <1>1 DEF Scanning
<1>3. /\ r.i \in Nat /\ 1 <= r.i /\ r.i <= Rows /\ r.row \in Nat /\ 1 <= r.row
      /\ r.row <= Rows /\ low \subseteq Nat /\ \A x \in low : x <= Rows
  BY <1>1, StepNames, RestIsTyped, MatrixHas DEF Proper
<1>4. RowsAreRaised'
  <2>1. SUFFICES ASSUME NEW x \in low'
                 PROVE  \E q \in Scanners :
                          Scanning(q)' /\ (proc'[q].at = "raise" => proc'[q].i <= x)
    BY DEF RowsAreRaised
  <2>2. CASE x \in low
    <3>1. PICK q \in Scanners : Scanning(q) /\ (proc[q].at = "raise" => proc[q].i <= x)
      BY <2>2 DEF ScanInd, RowsAreRaised
    <3>2. CASE q = p
      BY <1>2, <3>2
    <3>3. CASE q # p
      BY <1>1, <3>1, <3>3 DEF Scanning
    <3> QED
      BY <3>2, <3>3
  <2>3. CASE x \notin low
    BY <1>2
  <2> QED
    BY <2>2, <2>3
<1>5. LoneIsOnly'
  BY <1>1, <1>2, OnlyStays
<1>6. ASSUME NEW q \in Scanners, q # p PROVE SoundScan(q)'
  BY <1>1, <1>2, <1>6, OthersStaySound
<1>7. SoundScan(p)'
  <2>1. SUFFICES ASSUME r.alone
                 PROVE  (DrivesItsRow(p) /\ SawItHere(p) /\ HeldIsAhead(p) /\ FoundIsTrue(p))'
    BY <1>1 DEF ScanInd, SoundScan
  <2>2. DrivesItsRow(p) /\ HeldIsAhead(p) /\ r.held \subseteq down
    BY <2>1 DEF ScanInd, SoundScan
  <2>3. /\ \A x \in low : \/ x = r.row /\ r.row < r.i
                          \/ x = r.row - 1 /\ r.i <= x
        /\ r.row < r.i => r.row \in low
    BY <1>1, <2>2 DEF DrivesItsRow
  <2>4. CASE r.i = Rows
    <3>1. s.at = "read" /\ s.i = 1
      BY <1>1, <1>3, <2>4, MatrixHas
    <3>2. low' = {r.row}
      <4>1. r.row \in low'
        <5>1. CASE r.i = r.row
          BY <1>1, <5>1
        <5>2. CASE r.i # r.row
          <6>1. r.row < r.i
            BY <1>3, <2>4, <5>2, MatrixHas
          <6> QED
            BY <1>1, <2>3, <5>2, <6>1
        <5> QED
          BY <5>1, <5>2
      <4>2. ASSUME NEW x \in low' PROVE x = r.row
        <5>1. x \in low \/ x = r.row
          BY <1>1
        <5>2. CASE x \in low
          <6>1. x \in Nat /\ x <= Rows
            BY <1>3, <5>2
          <6> QED
            BY <1>3, <2>3, <2>4, <5>2, <6>1, MatrixHas
        <5> QED
          BY <5>1, <5>2
      <4> QED
        BY <4>1, <4>2
    <3>3. DrivesItsRow(p)' /\ SawItHere(p)' /\ FoundIsTrue(p)'
      BY <1>1, <3>1, <3>2 DEF DrivesItsRow, SawItHere, FoundIsTrue
    <3>4. HeldIsAhead(p)'
      <4>1. ASSUME NEW k \in r.held
            PROVE  s.row < k[1] \/ (s.row = k[1] /\ s.i <= k[2])
        <5>1. k \in Keys
          BY <2>2 DEF MatrixTypes
        <5>2. 1 <= k[2]
          BY <5>1, KeyHasPlace, MatrixHas
        <5>3. r.row < k[1] \/ r.row = k[1]
          BY <1>1, <2>2 DEF HeldIsAhead
        <5> QED
          BY <1>1, <3>1, <5>2, <5>3
      <4> QED
        BY <1>1, <4>1 DEF HeldIsAhead
    <3> QED
      BY <3>3, <3>4
  <2>5. CASE r.i < Rows
    <3>1. s.at = "drive" /\ s.i = r.i + 1
      BY <1>1, <1>3, <2>5, MatrixHas
    <3>2. ASSUME NEW x \in low'
          PROVE  \/ x = s.row /\ x < s.i
                 \/ x = s.row - 1 /\ s.i <= x
      <4>1. x \in low \/ (x = r.i /\ r.i = r.row)
        BY <1>1
      <4>2. CASE x \in low
        <5>1. x \in Nat /\ (x = r.i => r.i = r.row)
          BY <1>1, <1>3, <4>2
        <5> QED
          BY <1>1, <1>3, <2>3, <3>1, <4>2, <5>1
      <4>3. CASE x = r.i /\ r.i = r.row
        BY <1>1, <1>3, <3>1, <4>3
      <4> QED
        BY <4>1, <4>2, <4>3
    <3>3. s.row < s.i => s.row \in low'
      <4>1. SUFFICES ASSUME r.row < r.i + 1 PROVE r.row \in low'
        BY <1>1, <3>1
      <4>2. CASE r.i = r.row
        BY <1>1, <4>2
      <4>3. CASE r.i # r.row
        <5>1. r.row < r.i
          BY <1>3, <4>1, <4>3
        <5> QED
          BY <1>1, <2>3, <4>3, <5>1
      <4> QED
        BY <4>2, <4>3
    <3>4. DrivesItsRow(p)'
      BY <3>1, <3>2, <3>3 DEF DrivesItsRow
    <3>5. SawItHere(p)' /\ FoundIsTrue(p)'
      BY <3>1 DEF SawItHere, FoundIsTrue
    <3>6. HeldIsAhead(p)'
      BY <1>1, <2>2, <3>1 DEF HeldIsAhead
    <3> QED
      BY <3>4, <3>5, <3>6
  <2> QED
    BY <1>3, <2>4, <2>5, MatrixHas
<1> QED
  BY <1>4, <1>5, <1>6, <1>7 DEF ScanInd

(* A look leaves every row with a process that will raise it. *)
LEMMA LooksKeepRows ==
  ASSUME ScanInd, NEW p \in Scanners, low' = low, low \subseteq 1..Rows,
         \/ proc'[p].at \in {"drive", "read", "again"}
         \/ proc'[p].at = "raise" /\ proc'[p].i = 1,
         \A q \in Scanners \ {p} : proc'[q] = proc[q]
  PROVE  RowsAreRaised'
<1>1. SUFFICES ASSUME NEW x \in low'
               PROVE  \E q \in Scanners :
                        Scanning(q)' /\ (proc'[q].at = "raise" => proc'[q].i <= x)
  BY DEF RowsAreRaised
<1>2. 1 <= x
  BY MatrixHas
<1>3. Scanning(p)' /\ (proc'[p].at = "raise" => proc'[p].i <= x)
  BY <1>2 DEF Scanning
<1> QED
  BY <1>3

(* A lone scan that goes on from a column that is not low has passed no    *)
(* key that was down all the time.                                         *)
LEMMA OnwardKeepsSound ==
  ASSUME MatrixTypes, ScanInd, NEW p \in Scanners, proc[p].at \in {"read", "again"},
         ~IsLow(proc[p].i), proc'[p] = Onward(proc[p]), down' = down, low' = low
  PROVE  SoundScan(p)'
<1> DEFINE r == proc[p]  s == proc'[p]
<1>1. /\ r \in Procs /\ Proper(r) /\ s = Onward(r)
  BY StepNames
<1>2. /\ s.held = r.held /\ s.alone = r.alone /\ s.got = Nothing
      /\ \/ r.i < Cols /\ s.at = "read" /\ s.row = r.row /\ s.i = r.i + 1
         \/ r.i = Cols /\ r.row < Rows /\ s.at = "drive" /\ s.row = r.row + 1
            /\ s.i = 1
         \/ r.i = Cols /\ r.row = Rows /\ s.at = "raise" /\ s.i = 1
  <2> HIDE DEF r, s
  <2> QED
    BY <1>1, Onwards DEF r
<1>3. /\ r.i \in Nat /\ r.i <= Cols /\ r.row \in Nat /\ r.row <= Rows /\ 1 <= r.row
  BY <1>1, MatrixHas DEF Proper
<1>4. SUFFICES ASSUME r.alone
               PROVE  (DrivesItsRow(p) /\ SawItHere(p) /\ HeldIsAhead(p) /\ FoundIsTrue(p))'
  BY <1>2 DEF ScanInd, SoundScan
<1>5. DrivesItsRow(p) /\ HeldIsAhead(p) /\ r.held \subseteq down
  BY <1>4 DEF ScanInd, SoundScan
<1>6. low = {r.row}
  BY <1>5 DEF DrivesItsRow
<1>7. ASSUME NEW k \in r.held
      PROVE  /\ k[1] \in Nat /\ k[2] \in Nat /\ k[1] <= Rows /\ k[2] <= Cols
             /\ r.row < k[1] \/ (r.row = k[1] /\ r.i < k[2])
  <2>1. k \in Keys /\ k \in down
    BY <1>5 DEF MatrixTypes
  <2>2. /\ k = <<k[1], k[2]>> /\ k[1] \in Nat /\ k[2] \in Nat /\ k[1] <= Rows
        /\ k[2] <= Cols
    BY <2>1, KeyHasPlace, MatrixHas
  <2>3. r.row < k[1] \/ (r.row = k[1] /\ r.i <= k[2])
    BY <1>5 DEF HeldIsAhead
  <2>4. <<r.row, r.i>> \notin down
    BY <1>6 DEF IsLow
  <2>5. ~(r.row = k[1] /\ r.i = k[2])
    BY <2>1, <2>2, <2>4
  <2> QED
    BY <1>3, <2>2, <2>3, <2>5
<1>8. CASE r.i < Cols /\ s.at = "read" /\ s.row = r.row /\ s.i = r.i + 1
  <2>1. DrivesItsRow(p)' /\ SawItHere(p)' /\ FoundIsTrue(p)'
    BY <1>6, <1>8 DEF DrivesItsRow, SawItHere, FoundIsTrue
  <2>2. ASSUME NEW k \in s.held
        PROVE  s.row < k[1] \/ (s.row = k[1] /\ s.i <= k[2])
    BY <1>2, <1>3, <1>7, <1>8
  <2>3. HeldIsAhead(p)'
    BY <2>2 DEF HeldIsAhead
  <2> QED
    BY <2>1, <2>3
<1>9. CASE r.i = Cols /\ r.row < Rows /\ s.at = "drive" /\ s.row = r.row + 1 /\ s.i = 1
  <2>1. ASSUME NEW x \in low'
        PROVE  x = s.row - 1 /\ s.i <= x
    BY <1>3, <1>6, <1>9
  <2>2. ~(s.row < s.i)
    BY <1>3, <1>9
  <2>3. DrivesItsRow(p)' /\ SawItHere(p)' /\ FoundIsTrue(p)'
    BY <1>9, <2>1, <2>2 DEF DrivesItsRow, SawItHere, FoundIsTrue
  <2>4. ASSUME NEW k \in s.held
        PROVE  s.row < k[1] \/ s.row = k[1]
    BY <1>2, <1>3, <1>7, <1>9, MatrixHas
  <2>5. HeldIsAhead(p)'
    BY <1>9, <2>4 DEF HeldIsAhead
  <2> QED
    BY <2>3, <2>5
<1>10. CASE r.i = Cols /\ r.row = Rows /\ s.at = "raise" /\ s.i = 1
  <2>1. s.held = {}
    BY <1>2, <1>3, <1>7, <1>10, MatrixHas
  <2>2. FoundIsTrue(p)'
    BY <1>2, <2>1 DEF FoundIsTrue
  <2> QED
    BY <1>10, <2>2 DEF DrivesItsRow, SawItHere, HeldIsAhead
<1> QED
  BY <1>2, <1>8, <1>9, <1>10

(* A column is looked at. *)
LEMMA ReadKeepsScans ==
  ASSUME MatrixTypes, ScanInd, NEW p \in Scanners, Read(p)
  PROVE  ScanInd'
<1> DEFINE r == proc[p]  s == proc'[p]
<1>1. /\ r.at = "read" /\ down' = down /\ low' = low
      /\ \A q \in Scanners \ {p} : proc'[q] = proc[q]
      /\ s.held = r.held /\ s.alone = r.alone
      /\ \/ IsLow(r.i) /\ s.at = "again" /\ s.i = r.i /\ s.row = r.row
            /\ s.first = down /\ s.got = Nothing
         \/ ~IsLow(r.i) /\ s = Onward(r)
  BY ReadLooks
<1>2. Scanning(p)
  BY <1>1 DEF Scanning
<1>3. \/ s.at \in {"drive", "read", "again"}
      \/ s.at = "raise" /\ s.i = 1
  <2>1. r \in Procs /\ Proper(r)
    BY StepNames
  <2> HIDE DEF r, s
  <2> QED
    BY <1>1, <2>1, Onwards
<1>4. RowsAreRaised'
  BY <1>1, <1>3, RestIsTyped, LooksKeepRows
<1>5. LoneIsOnly'
  BY <1>1, <1>2, OnlyStays
<1>6. ASSUME NEW q \in Scanners, q # p PROVE SoundScan(q)'
  BY <1>1, <1>2, <1>6, OthersStaySound
<1>7. SoundScan(p)'
  <2>1. CASE ~IsLow(r.i)
    BY <1>1, <2>1, OnwardKeepsSound
  <2>2. CASE IsLow(r.i)
    <3>1. /\ s.at = "again" /\ s.i = r.i /\ s.row = r.row /\ s.first = down
      BY <1>1, <2>2
    <3>2. SUFFICES ASSUME r.alone
                   PROVE  (DrivesItsRow(p) /\ SawItHere(p) /\ HeldIsAhead(p)
                           /\ FoundIsTrue(p))'
      BY <1>1 DEF ScanInd, SoundScan
    <3>3. DrivesItsRow(p) /\ HeldIsAhead(p)
      BY <3>2 DEF ScanInd, SoundScan
    <3>4. low = {r.row}
      BY <1>1, <3>3 DEF DrivesItsRow
    <3>5. DrivesItsRow(p)' /\ FoundIsTrue(p)'
      BY <1>1, <3>1, <3>4 DEF DrivesItsRow, FoundIsTrue
    <3>6. SawItHere(p)'
      BY <2>2, <3>1, <3>4 DEF SawItHere, IsLow
    <3>7. HeldIsAhead(p)'
      BY <1>1, <3>1, <3>3 DEF HeldIsAhead
    <3> QED
      BY <3>5, <3>6, <3>7
  <2> QED
    BY <2>1, <2>2
<1> QED
  BY <1>4, <1>5, <1>6, <1>7 DEF ScanInd

(* And again: what a lone scan finds now it has seen twice, and no other   *)
(* key can be down.                                                        *)
LEMMA ReadAgainKeepsScans ==
  ASSUME MatrixTypes, ScanInd, NEW p \in Scanners, ReadAgain(p)
  PROVE  ScanInd'
<1> DEFINE r == proc[p]  s == proc'[p]
<1>1. /\ r.at = "again" /\ down' = down /\ low' = low
      /\ \A q \in Scanners \ {p} : proc'[q] = proc[q]
      /\ s.held = r.held /\ s.alone = r.alone
      /\ \/ IsLow(r.i) /\ s.at = "raise" /\ s.i = 1 /\ s.got = <<r.row, r.i>>
            /\ (s.firm <=> <<r.row, r.i>> \in r.first \cap down)
         \/ ~IsLow(r.i) /\ s = Onward(r)
  BY ReadAgainLooks
<1>2. Scanning(p)
  BY <1>1 DEF Scanning
<1>3. \/ s.at \in {"drive", "read", "again"}
      \/ s.at = "raise" /\ s.i = 1
  <2>1. r \in Procs /\ Proper(r)
    BY StepNames
  <2> HIDE DEF r, s
  <2> QED
    BY <1>1, <2>1, Onwards
<1>4. RowsAreRaised'
  BY <1>1, <1>3, RestIsTyped, LooksKeepRows
<1>5. LoneIsOnly'
  BY <1>1, <1>2, OnlyStays
<1>6. ASSUME NEW q \in Scanners, q # p PROVE SoundScan(q)'
  BY <1>1, <1>2, <1>6, OthersStaySound
<1>7. SoundScan(p)'
  <2>1. CASE ~IsLow(r.i)
    BY <1>1, <2>1, OnwardKeepsSound
  <2>2. CASE IsLow(r.i)
    <3> DEFINE key == <<r.row, r.i>>
    <3>1. s.at = "raise" /\ s.got = key /\ (s.firm <=> key \in r.first \cap down)
      BY <1>1, <2>2
    <3>2. SUFFICES ASSUME r.alone
                   PROVE  (DrivesItsRow(p) /\ SawItHere(p) /\ HeldIsAhead(p)
                           /\ FoundIsTrue(p))'
      BY <1>1 DEF ScanInd, SoundScan
    <3>3. DrivesItsRow(p) /\ SawItHere(p) /\ r.held \subseteq down
      BY <3>2 DEF ScanInd, SoundScan
    <3>4. low = {r.row} /\ key \in r.first
      BY <1>1, <3>3 DEF DrivesItsRow, SawItHere
    <3>5. key \in down
      BY <2>2, <3>4 DEF IsLow
    <3>6. r.held # {} => key \in r.held
      BY <3>3, <3>5 DEF MatrixTypes
    <3> HIDE DEF key
    <3>7. FoundIsTrue(p)'
      BY <1>1, <3>1, <3>4, <3>5, <3>6 DEF FoundIsTrue
    <3> QED
      BY <3>1, <3>7 DEF DrivesItsRow, SawItHere, HeldIsAhead
  <2> QED
    BY <2>1, <2>2
<1> QED
  BY <1>4, <1>5, <1>6, <1>7 DEF ScanInd

(* A row is raised. *)
LEMMA RaiseKeepsScans ==
  ASSUME MatrixTypes, ScanInd, NEW p \in Scanners, Raise(p)
  PROVE  ScanInd'
<1> DEFINE r == proc[p]  s == proc'[p]
<1>1. /\ r.at = "raise" /\ down' = down /\ low' = low \ {r.i}
      /\ \A q \in Scanners \ {p} : proc'[q] = proc[q]
      /\ \/ /\ r.i < Rows /\ s.at = "raise" /\ s.i = r.i + 1
            /\ s.got = r.got /\ s.firm = r.firm /\ s.held = r.held
            /\ s.alone = r.alone
         \/ r.i = Rows /\ s.held = {} /\ s.at \in {"outside", "compare"}
  BY RaiseWrites
<1>2. Scanning(p) /\ r.i \in Nat /\ r.i <= Rows
  BY <1>1, StepNames, MatrixHas DEF Scanning, Proper
<1>3. RowsAreRaised'
  <2>1. SUFFICES ASSUME NEW x \in low'
                 PROVE  \E q \in Scanners :
                          Scanning(q)' /\ (proc'[q].at = "raise" => proc'[q].i <= x)
    BY DEF RowsAreRaised
  <2>2. x \in low /\ x # r.i /\ x \in Nat /\ x <= Rows
    BY <1>1, RestIsTyped, MatrixHas
  <2>3. PICK q \in Scanners : Scanning(q) /\ (proc[q].at = "raise" => proc[q].i <= x)
    BY <2>2 DEF ScanInd, RowsAreRaised
  <2>4. CASE q = p
    <3>1. r.i < x
      BY <1>1, <1>2, <2>2, <2>3, <2>4
    <3>2. s.at = "raise" /\ s.i <= x
      BY <1>1, <1>2, <2>2, <3>1, MatrixHas
    <3> QED
      BY <3>2 DEF Scanning
  <2>5. CASE q # p
    BY <1>1, <2>3, <2>5 DEF Scanning
  <2> QED
    BY <2>4, <2>5
<1>4. LoneIsOnly'
  BY <1>1, <1>2, OnlyStays
<1>5. ASSUME NEW q \in Scanners, q # p PROVE SoundScan(q)'
  BY <1>1, <1>2, <1>5, OthersStaySound
<1>6. SoundScan(p)'
  <2>1. r.held \subseteq down /\ (r.alone => FoundIsTrue(p))
    BY DEF ScanInd, SoundScan
  <2>2. CASE s.at = "raise"
    <3>1. s.got = r.got /\ s.firm = r.firm /\ s.held = r.held /\ s.alone = r.alone
      BY <1>1, <2>2
    <3>2. s.alone => FoundIsTrue(p)'
      BY <1>1, <2>1, <3>1 DEF FoundIsTrue
    <3> QED
      BY <1>1, <2>1, <2>2, <3>1, <3>2
      DEF SoundScan, DrivesItsRow, SawItHere, HeldIsAhead
  <2>3. CASE s.at \in {"outside", "compare"} /\ s.held = {}
    BY <2>3 DEF SoundScan, DrivesItsRow, SawItHere, HeldIsAhead, FoundIsTrue
  <2> QED
    BY <1>1, <2>2, <2>3
<1> QED
  BY <1>3, <1>4, <1>5, <1>6 DEF ScanInd

(* The scans do not notice what is processed. *)
LEMMA WorkKeepsScans ==
  ASSUME ScanInd, NEW p \in Scanners, Works(p)
  PROVE  ScanInd'
<1>1. /\ down' = down /\ low' = low /\ ~Scanning(p) /\ ~Scanning(p)'
      /\ proc'[p].held \subseteq proc[p].held
      /\ \A q \in Scanners \ {p} : proc'[q] = proc[q]
  BY DEF Works, Processing, Scanning
<1>2. RowsAreRaised'
  BY <1>1 DEF ScanInd, RowsAreRaised, Scanning
<1>3. LoneIsOnly'
  BY <1>1 DEF ScanInd, LoneIsOnly, Scanning
<1>4. SoundScan(p)'
  <2>1. (proc[p].held \subseteq down)'
    BY <1>1 DEF ScanInd, SoundScan
  <2> QED
    BY <1>1, <2>1
    DEF SoundScan, DrivesItsRow, SawItHere, HeldIsAhead, FoundIsTrue, Scanning
<1>5. ASSUME NEW q \in Scanners, q # p PROVE SoundScan(q)'
  <2>1. proc'[q] = proc[q] /\ SoundScan(q)
    BY <1>1, <1>5 DEF ScanInd
  <2> QED
    BY <1>1, <2>1 DEF SoundScan, DrivesItsRow, SawItHere, HeldIsAhead, FoundIsTrue
<1> QED
  BY <1>2, <1>3, <1>4, <1>5 DEF ScanInd

(* A step that neither processes nor lets anybody begin to. *)
LEMMA IdleKeepsAlone ==
  ASSUME AloneInd, AloneInRange, UNCHANGED <<index, progress, slots, shared>>,
         \A q \in Scanners :
           /\ Processing(q)' => Processing(q)
           /\ proc'[q].at \in {"advance", "test", "put", "delete"} =>
                proc'[q].at = proc[q].at /\ proc'[q].loaded = proc[q].loaded
  PROVE  AloneInd' /\ AloneInRange'
<1>1. AloneInRange'
  BY DEF AloneInRange
<1>2. AloneInd'
  <2>1. SUFFICES ASSUME ~shared
                 PROVE  /\ \A p, q \in Scanners : Processing(p)' /\ Processing(q)' => p = q
                        /\ \A p \in Scanners : LoadedIsThere(p)'
    BY DEF AloneInd
  <2>2. \A p, q \in Scanners : Processing(p)' /\ Processing(q)' => p = q
    BY <2>1 DEF AloneInd
  <2>3. ASSUME NEW p \in Scanners PROVE LoadedIsThere(p)'
    <3>1. LoadedIsThere(p)
      BY <2>1 DEF AloneInd
    <3> QED
      BY <3>1 DEF LoadedIsThere
  <2> QED
    BY <2>2, <2>3
<1> QED
  BY <1>1, <1>2

(* When only one is in key_process_input after a step, it is all there is  *)
(* to say.                                                                 *)
LEMMA OneKeepsAlone ==
  ASSUME NEW p \in Scanners, \A q \in Scanners \ {p} : ~Processing(q)',
         LoadedIsThere(p)'
  PROVE  AloneInd'
<1>1. \A q \in Scanners : LoadedIsThere(q)'
  <2>1. ASSUME NEW q \in Scanners, q # p PROVE LoadedIsThere(q)'
    <3>1. ~Processing(q)'
      BY <2>1
    <3> QED
      BY <3>1 DEF LoadedIsThere, Processing
  <2> QED
    BY <2>1
<1>2. \A q, x \in Scanners : Processing(q)' /\ Processing(x)' => q = x
  OBVIOUS
<1> QED
  BY <1>1, <1>2 DEF AloneInd

(* What is to be shown of a step of key_process_input that is alone. *)
LEMMA WorkAlone ==
  ASSUME MatrixTypes, AloneInd, AloneInRange, NEW p \in Scanners, Works(p),
         ~shared /\ LoadedIsThere(p)
         /\ index \in 0..PasswordLength /\ slots \subseteq 0..PasswordLength - 1
         /\ progress \in 0..SequenceLength
         => /\ LoadedIsThere(p)'
            /\ index' \in 0..PasswordLength /\ slots' \subseteq 0..PasswordLength - 1
            /\ progress' \in 0..SequenceLength
  PROVE  AloneInd' /\ AloneInRange'
<1>1. CASE shared
  BY <1>1 DEF Works, AloneInd, AloneInRange
<1>2. CASE ~shared
  <2>1. /\ LoadedIsThere(p)
        /\ index \in 0..PasswordLength /\ slots \subseteq 0..PasswordLength - 1
        /\ progress \in 0..SequenceLength
    BY <1>2 DEF AloneInd, AloneInRange
  <2>2. ASSUME NEW q \in Scanners \ {p} PROVE ~Processing(q)'
    <3>1. ~Processing(q) /\ proc'[q] = proc[q]
      BY <1>2 DEF AloneInd, Works
    <3> QED
      BY <3>1 DEF Processing
  <2>3. AloneInd'
    BY <1>2, <2>1, <2>2, OneKeepsAlone
  <2>4. AloneInRange'
    BY <1>2, <2>1 DEF AloneInRange
  <2> QED
    BY <2>3, <2>4
<1> QED
  BY <1>1, <1>2

(* Steps of key_process_input. *)
LEMMA WorkKeepsAlone ==
  ASSUME MatrixTypes, AloneInd, AloneInRange, NEW p \in Scanners,
         \/ CompareLetter(p) \/ Advance(p) \/ Complete(p)
         \/ CompareDigit(p) \/ Put(p) \/ CompareDelete(p) \/ Delete(p) \/ Confirm(p)
  PROVE  AloneInd' /\ AloneInRange'
<1> USE MatrixHas
<1>0. index \in Int /\ progress \in Nat /\ slots \subseteq Int
  BY RestIsTyped
<1>1. CASE CompareLetter(p)
  <2>1. /\ Works(p) /\ index' = index /\ slots' = slots
        /\ \/ /\ proc'[p].at = "advance" /\ proc'[p].loaded = progress
              /\ progress' = progress
              /\ progress < SequenceLength \/ SequenceLength < progress
           \/ proc'[p].at = "outside" /\ progress' \in {0, 1}
    BY <1>1, LetterCompared
  <2>2. ASSUME progress \in 0..SequenceLength
        PROVE  LoadedIsThere(p)' /\ progress' \in 0..SequenceLength
    <3>1. CASE proc'[p].at = "outside" /\ progress' \in {0, 1}
      BY <3>1 DEF LoadedIsThere
    <3>2. CASE /\ proc'[p].at = "advance" /\ proc'[p].loaded = progress
               /\ progress' = progress /\ progress < SequenceLength
      BY <2>2, <3>2 DEF LoadedIsThere
    <3> QED
      BY <2>1, <2>2, <3>1, <3>2
  <2> QED
    BY <2>1, <2>2, WorkAlone
<1>2. CASE Advance(p)
  <2>1. /\ Works(p) /\ index' = index /\ slots' = slots
        /\ proc[p].at = "advance" /\ proc'[p].at = "test"
        /\ progress' \in {progress + 1, proc[p].loaded + 1}
        /\ proc'[p].loaded = progress'
    BY <1>2, Advanced
  <2>2. ASSUME LoadedIsThere(p), progress \in 0..SequenceLength
        PROVE  LoadedIsThere(p)' /\ progress' \in 0..SequenceLength
    BY <1>0, <2>1, <2>2 DEF LoadedIsThere
  <2> QED
    BY <2>1, <2>2, WorkAlone
<1>3. CASE Complete(p) \/ Confirm(p)
  <2>1. /\ Works(p) /\ slots' = slots /\ proc'[p].at = "outside"
        /\ progress' \in {progress, 0} /\ index' \in {index, 0}
    BY <1>3, Completed, Confirmed
  <2>2. LoadedIsThere(p)'
    BY <2>1 DEF LoadedIsThere
  <2>3. /\ progress \in 0..SequenceLength => progress' \in 0..SequenceLength
        /\ index \in 0..PasswordLength => index' \in 0..PasswordLength
    BY <2>1
  <2> QED
    BY <2>1, <2>2, <2>3, WorkAlone
<1>4. CASE CompareDigit(p) \/ CompareDelete(p)
  <2>1. /\ Works(p) /\ index' = index /\ slots' = slots
        /\ progress' = 0
        /\ \/ proc'[p].at = "put" /\ proc'[p].loaded = index /\ index < PasswordLength
           \/ proc'[p].at = "delete" /\ proc'[p].loaded = index /\ 0 < index
           \/ proc'[p].at = "outside"
    BY <1>4, IndexCompared
  <2>2. LoadedIsThere(p)'
    BY <2>1 DEF LoadedIsThere
  <2> QED
    BY <2>1, <2>2, WorkAlone
<1>5. CASE Put(p) \/ Delete(p)
  <2>1. /\ Works(p) /\ progress' = progress /\ proc'[p].at = "outside"
        /\ \/ /\ proc[p].at = "put"
              /\ \E slot \in {index, proc[p].loaded} :
                   slots' = slots \cup {slot} /\ index' = slot + 1
           \/ /\ proc[p].at = "delete"
              /\ \E slot \in {index - 1, proc[p].loaded - 1} :
                   slots' = slots \cup {slot} /\ index' = slot
    BY <1>5, IndexMoved
  <2>2. LoadedIsThere(p)'
    BY <2>1 DEF LoadedIsThere
  <2>3. ASSUME LoadedIsThere(p), index \in 0..PasswordLength,
               slots \subseteq 0..PasswordLength - 1
        PROVE  index' \in 0..PasswordLength /\ slots' \subseteq 0..PasswordLength - 1
    <3>1. CASE proc[p].at = "put"
      <4>1. proc[p].loaded = index /\ index < PasswordLength
        BY <2>3, <3>1 DEF LoadedIsThere
      <4>2. slots' = slots \cup {index} /\ index' = index + 1
        BY <2>1, <3>1, <4>1
      <4>3. index + 1 \in 0..PasswordLength /\ index \in 0..PasswordLength - 1
        BY <1>0, <2>3, <4>1
      <4> QED
        BY <2>3, <4>2, <4>3
    <3>2. CASE proc[p].at = "delete"
      <4>1. proc[p].loaded = index /\ 0 < index
        BY <2>3, <3>2 DEF LoadedIsThere
      <4>2. slots' = slots \cup {index - 1} /\ index' = index - 1
        BY <2>1, <3>2, <4>1
      <4>3. index - 1 \in 0..PasswordLength /\ index - 1 \in 0..PasswordLength - 1
        BY <1>0, <2>3, <4>1
      <4> QED
        BY <2>3, <4>2, <4>3
    <3> QED
      BY <2>1, <3>1, <3>2
  <2> QED
    BY <2>1, <2>2, <2>3, WorkAlone
<1> QED
  BY <1>1, <1>2, <1>3, <1>4, <1>5

(* A key goes from its scan to key_process_input. *)
LEMMA RaiseKeepsAlone ==
  ASSUME MatrixTypes, AloneInd, AloneInRange, NEW p \in Scanners, Raise(p)
  PROVE  AloneInd' /\ AloneInRange'
<1>1. /\ proc[p].at = "raise" /\ UNCHANGED <<index, progress, slots>>
      /\ \A q \in Scanners \ {p} : proc'[q] = proc[q]
      /\ \/ proc'[p].at \in {"raise", "outside"} /\ shared' = shared
         \/ proc'[p].at = "compare"
            /\ (shared' <=> shared \/ \E q \in Scanners \ {p} : Processing(q))
  BY RaiseWrites
<1>2. CASE proc'[p].at \in {"raise", "outside"} /\ shared' = shared
  <2>1. \A q \in Scanners :
           /\ Processing(q)' => Processing(q)
           /\ proc'[q].at \in {"advance", "test", "put", "delete"} =>
                proc'[q].at = proc[q].at /\ proc'[q].loaded = proc[q].loaded
    BY <1>1, <1>2 DEF Processing
  <2> QED
    BY <1>1, <1>2, <2>1, IdleKeepsAlone
<1>3. CASE /\ proc'[p].at = "compare"
           /\ shared' <=> shared \/ \E q \in Scanners \ {p} : Processing(q)
  <2>1. ASSUME shared' PROVE AloneInd' /\ AloneInRange'
    BY <2>1 DEF AloneInd, AloneInRange
  <2>2. ASSUME ~shared' PROVE AloneInd' /\ AloneInRange'
    <3>1. ~shared /\ \A q \in Scanners \ {p} : ~Processing(q)
      BY <1>3, <2>2
    <3>2. \A q \in Scanners \ {p} : ~Processing(q)'
      BY <1>1, <3>1 DEF Processing
    <3>3. LoadedIsThere(p)'
      BY <1>3 DEF LoadedIsThere
    <3>4. AloneInd'
      BY <3>2, <3>3, OneKeepsAlone
    <3>5. AloneInRange'
      BY <1>1, <3>1 DEF AloneInRange
    <3> QED
      BY <3>4, <3>5
  <2> QED
    BY <2>1, <2>2
<1> QED
  BY <1>1, <1>2, <1>3

(* The input is cleared from outside. *)
LEMMA ClearKeepsAlone ==
  ASSUME MatrixTypes, AloneInd, AloneInRange, NEW p \in Scanners, Clear(p)
  PROVE  AloneInd' /\ AloneInRange'
<1>1. /\ UNCHANGED <<proc, progress, slots>> /\ index' = 0
      /\ shared' <=> shared \/ \E q \in Scanners : Processing(q)
  BY Cleared
<1>2. CASE shared'
  BY <1>2 DEF AloneInd, AloneInRange
<1>3. CASE ~shared'
  <2>1. ~shared /\ \A q \in Scanners : ~Processing(q)
    BY <1>1, <1>3
  <2>2. \A q \in Scanners : ~Processing(q)'
    BY <1>1, <2>1 DEF Processing
  <2>3. LoadedIsThere(p)'
    BY <2>2 DEF LoadedIsThere, Processing
  <2>4. AloneInd'
    BY <2>2, <2>3, OneKeepsAlone
  <2>5. AloneInRange'
    BY <1>1, <2>1, MatrixHas DEF AloneInRange
  <2> QED
    BY <2>4, <2>5
<1> QED
  BY <1>2, <1>3

(* With two processes at most, two are all there are. *)
LEMMA TwoAreAll ==
  ASSUME Callers <= 2
  PROVE  /\ Callers \in Nat /\ 1 <= Callers
         /\ \A p, q \in Scanners : p # q => Callers = 2 /\ Scanners = {p, q}
<1>1. Callers \in Nat /\ Callers # 0
  BY MatrixAssumption, FS_CardinalityType, FS_EmptySet DEF Callers
<1>2. ASSUME NEW p \in Scanners, NEW q \in Scanners, p # q
      PROVE  Callers = 2 /\ Scanners = {p, q}
  <2>1. /\ IsFiniteSet({p, q}) /\ Cardinality({p, q}) = 2
    <3>1. IsFiniteSet({p}) /\ Cardinality({p}) = 1
      BY FS_Singleton
    <3>2. q \notin {p} /\ {p} \cup {q} = {p, q}
      BY <1>2
    <3>3. IsFiniteSet({p} \cup {q}) /\ Cardinality({p} \cup {q}) = Cardinality({p}) + 1
      BY <3>1, <3>2, FS_AddElement
    <3> QED
      BY <3>1, <3>2, <3>3
  <2>2. {p, q} \subseteq Scanners /\ IsFiniteSet(Scanners)
    BY MatrixAssumption
  <2>3. Cardinality({p, q}) <= Cardinality(Scanners)
    BY <2>2, FS_Subset
  <2>4. Callers = 2
    BY <1>1, <2>1, <2>3 DEF Callers
  <2>5. Scanners = {p, q}
    BY <2>1, <2>2, <2>4, FS_Subset DEF Callers
  <2> QED
    BY <2>4, <2>5
<1> QED
  BY <1>1, <1>2

(* A step that leaves the index and what was loaded of it. *)
LEMMA IdleKeepsStray ==
  ASSUME StrayInd, UNCHANGED <<index, slots>>,
         \A q \in Scanners : proc'[q].at \in {"put", "delete"} =>
           proc'[q].at = proc[q].at /\ proc'[q].loaded = proc[q].loaded
  PROVE  StrayInd'
<1>1. SUFFICES ASSUME Callers <= 2
               PROVE  (/\ IndexIn
                       /\ \A p \in Scanners : RoomFor(p)
                       /\ \A p, q \in Scanners : p # q => RoomForBoth(p, q))'
  BY DEF StrayInd, Callers
<1>2. /\ IndexIn
      /\ \A p \in Scanners : RoomFor(p)
      /\ \A p, q \in Scanners : p # q => RoomForBoth(p, q)
  BY <1>1 DEF StrayInd
<1>3. IndexIn'
  BY <1>2 DEF IndexIn, Callers
<1>4. ASSUME NEW p \in Scanners PROVE RoomFor(p)'
  <2>1. RoomFor(p)
    BY <1>2
  <2> QED
    BY <2>1 DEF RoomFor, Callers
<1>5. ASSUME NEW p \in Scanners, NEW q \in Scanners, p # q PROVE RoomForBoth(p, q)'
  <2>1. RoomForBoth(p, q)
    BY <1>2, <1>5
  <2> QED
    BY <2>1 DEF RoomForBoth
<1> QED
  BY <1>3, <1>4, <1>5

(* What is to be shown of a step of one process with two at most. *)
LEMMA StepKeepsStray ==
  ASSUME StrayInd, NEW p \in Scanners,
         \A q \in Scanners \ {p} : proc'[q] = proc[q],
         ASSUME Callers <= 2, Callers \in Nat, 1 <= Callers, IndexIn, RoomFor(p)
         PROVE  IndexIn' /\ RoomFor(p)',
         ASSUME Callers = 2, NEW q \in Scanners, q # p, RoomFor(q), RoomFor(p), IndexIn,
                RoomForBoth(p, q)
         PROVE  RoomFor(q)' /\ RoomForBoth(p, q)'
  PROVE  StrayInd'
<1>1. SUFFICES ASSUME Callers <= 2
               PROVE  (/\ IndexIn
                       /\ \A q \in Scanners : RoomFor(q)
                       /\ \A q, x \in Scanners : q # x => RoomForBoth(q, x))'
  BY DEF StrayInd, Callers
<1>2. /\ IndexIn
      /\ \A q \in Scanners : RoomFor(q)
      /\ \A q, x \in Scanners : q # x => RoomForBoth(q, x)
  BY <1>1 DEF StrayInd
<1>3. /\ Callers \in Nat /\ 1 <= Callers
      /\ \A q, x \in Scanners : q # x => Callers = 2 /\ Scanners = {q, x}
  BY <1>1, TwoAreAll
<1>4. IndexIn' /\ RoomFor(p)'
  BY <1>1, <1>2, <1>3
<1>5. ASSUME NEW q \in Scanners, q # p PROVE RoomFor(q)' /\ RoomForBoth(p, q)'
  BY <1>2, <1>3, <1>5
<1>6. \A q \in Scanners : RoomFor(q)'
  BY <1>4, <1>5
<1>7. ASSUME NEW q \in Scanners, NEW x \in Scanners, q # x PROVE RoomForBoth(q, x)'
  <2>1. CASE q = p
    BY <1>5, <1>7, <2>1
  <2>2. CASE x = p
    <3>1. RoomForBoth(p, q)'
      BY <1>5, <1>7, <2>2
    <3> QED
      BY <2>2, <3>1 DEF RoomForBoth
  <2>3. p = q \/ p = x
    BY <1>3, <1>7
  <2> QED
    BY <2>1, <2>2, <2>3
<1> QED
  BY <1>4, <1>6, <1>7

(* Steps of key_process_input: each moves the index at most by the one     *)
(* step for which there is room.                                           *)
LEMMA WorkKeepsStray ==
  ASSUME MatrixTypes, StrayInd, NEW p \in Scanners,
         \/ CompareLetter(p) \/ Advance(p) \/ Complete(p)
         \/ CompareDigit(p) \/ Put(p) \/ CompareDelete(p) \/ Delete(p) \/ Confirm(p)
  PROVE  StrayInd'
<1> USE MatrixHas
<1>0. /\ index \in Int /\ slots \subseteq Int
      /\ \A q \in Scanners : proc[q].loaded \in Int
  BY RestIsTyped, StepNames DEF Procs
<1>1. CASE CompareLetter(p) \/ Advance(p)
  <2>1. /\ Works(p) /\ index' = index /\ slots' = slots
        /\ proc'[p].at \in {"outside", "advance", "test"}
    BY <1>1, LetterCompared, Advanced
  <2> QED
    BY <2>1, IdleKeepsStray DEF Works
<1>2. CASE Complete(p) \/ Confirm(p)
  <2>1. /\ Works(p) /\ slots' = slots /\ proc'[p].at = "outside"
        /\ index' \in {index, 0}
    BY <1>2, Completed, Confirmed
  <2>2. ASSUME Callers <= 2, Callers \in Nat, 1 <= Callers, IndexIn, RoomFor(p)
        PROVE  IndexIn' /\ RoomFor(p)'
    BY <1>0, <2>1, <2>2 DEF IndexIn, RoomFor, Callers
  <2>3. ASSUME Callers = 2, NEW q \in Scanners, q # p, RoomFor(q), RoomFor(p), IndexIn,
               RoomForBoth(p, q)
        PROVE  RoomFor(q)' /\ RoomForBoth(p, q)'
    <3>1. proc'[q] = proc[q]
      BY <2>1, <2>3 DEF Works
    <3>2. RoomFor(q)'
      BY <1>0, <2>1, <2>3, <3>1 DEF RoomFor, Callers
    <3> QED
      BY <2>1, <3>2 DEF RoomForBoth
  <2>4. \A q \in Scanners \ {p} : proc'[q] = proc[q]
    BY <2>1 DEF Works
  <2> QED
    BY <2>2, <2>3, <2>4, StepKeepsStray
<1>3. CASE CompareDigit(p) \/ CompareDelete(p)
  <2>1. /\ Works(p) /\ index' = index /\ slots' = slots
        /\ \/ proc'[p].at = "put" /\ proc'[p].loaded = index /\ index < PasswordLength
           \/ proc'[p].at = "delete" /\ proc'[p].loaded = index /\ 0 < index
           \/ proc'[p].at = "outside"
    BY <1>3, IndexCompared
  <2>2. ASSUME Callers <= 2, Callers \in Nat, 1 <= Callers, IndexIn, RoomFor(p)
        PROVE  IndexIn' /\ RoomFor(p)'
    BY <1>0, <2>1, <2>2 DEF IndexIn, RoomFor, Callers
  <2>3. ASSUME Callers = 2, NEW q \in Scanners, q # p, RoomFor(q), RoomFor(p), IndexIn,
               RoomForBoth(p, q)
        PROVE  RoomFor(q)' /\ RoomForBoth(p, q)'
    <3>1. proc'[q] = proc[q]
      BY <2>1, <2>3 DEF Works
    <3>2. RoomFor(q)'
      BY <2>1, <2>3, <3>1 DEF RoomFor, Callers
    <3> QED
      BY <2>1, <3>2 DEF RoomForBoth
  <2>4. \A q \in Scanners \ {p} : proc'[q] = proc[q]
    BY <2>1 DEF Works
  <2> QED
    BY <2>2, <2>3, <2>4, StepKeepsStray
<1>4. CASE Put(p) \/ Delete(p)
  <2>1. /\ Works(p) /\ proc'[p].at = "outside"
        /\ \/ /\ proc[p].at = "put"
              /\ \E slot \in {index, proc[p].loaded} :
                   slots' = slots \cup {slot} /\ index' = slot + 1
           \/ /\ proc[p].at = "delete"
              /\ \E slot \in {index - 1, proc[p].loaded - 1} :
                   slots' = slots \cup {slot} /\ index' = slot
    BY <1>4, IndexMoved
  <2>2. ASSUME Callers <= 2, Callers \in Nat, 1 <= Callers, IndexIn, RoomFor(p)
        PROVE  IndexIn' /\ RoomFor(p)'
    <3>1. RoomFor(p)'
      BY <2>1 DEF RoomFor
    <3>2. CASE proc[p].at = "put"
      <4>1. PICK slot \in {index, proc[p].loaded} :
              slots' = slots \cup {slot} /\ index' = slot + 1
        BY <2>1, <3>2
      <4>2. /\ slot \in Int /\ 1 - Callers <= slot /\ slot <= PasswordLength + Callers - 2
        BY <1>0, <2>2, <3>2, <4>1 DEF IndexIn, RoomFor
      <4> QED
        BY <2>2, <3>1, <4>1, <4>2 DEF IndexIn, Callers
    <3>3. CASE proc[p].at = "delete"
      <4>1. PICK slot \in {index - 1, proc[p].loaded - 1} :
              slots' = slots \cup {slot} /\ index' = slot
        BY <2>1, <3>3
      <4>2. /\ slot \in Int /\ 1 - Callers <= slot /\ slot <= PasswordLength + Callers - 2
        BY <1>0, <2>2, <3>3, <4>1 DEF IndexIn, RoomFor
      <4> QED
        BY <2>2, <3>1, <4>1, <4>2 DEF IndexIn, Callers
    <3> QED
      BY <2>1, <3>2, <3>3
  <2>3. ASSUME Callers = 2, NEW q \in Scanners, q # p, RoomFor(q), RoomFor(p), IndexIn,
               RoomForBoth(p, q)
        PROVE  RoomFor(q)' /\ RoomForBoth(p, q)'
    <3>1. proc'[q] = proc[q] /\ Callers' = 2
      BY <2>1, <2>3 DEF Works, Callers
    <3>2. CASE proc[p].at = "put"
      <4>1. PICK slot \in {index, proc[p].loaded} : index' = slot + 1
        BY <2>1, <3>2
      <4>2. /\ slot \in Int /\ -1 <= slot /\ slot <= PasswordLength
            /\ proc[q].at = "put" => slot < PasswordLength
        BY <1>0, <2>3, <3>2, <4>1 DEF IndexIn, RoomFor, RoomForBoth
      <4>3. RoomFor(q)'
        BY <2>3, <3>1, <4>1, <4>2 DEF RoomFor
      <4> QED
        BY <2>1, <4>3 DEF RoomForBoth
    <3>3. CASE proc[p].at = "delete"
      <4>1. PICK slot \in {index - 1, proc[p].loaded - 1} : index' = slot
        BY <2>1, <3>3
      <4>2. /\ slot \in Int /\ -1 <= slot /\ slot <= PasswordLength
            /\ proc[q].at = "delete" => 0 <= slot
        BY <1>0, <2>3, <3>3, <4>1 DEF IndexIn, RoomFor, RoomForBoth
      <4>3. RoomFor(q)'
        BY <2>3, <3>1, <4>1, <4>2 DEF RoomFor
      <4> QED
        BY <2>1, <4>3 DEF RoomForBoth
    <3> QED
      BY <2>1, <3>2, <3>3
  <2>4. \A q \in Scanners \ {p} : proc'[q] = proc[q]
    BY <2>1 DEF Works
  <2> QED
    BY <2>2, <2>3, <2>4, StepKeepsStray
<1> QED
  BY <1>1, <1>2, <1>3, <1>4

(* The input is cleared from outside: of two processes one at most is      *)
(* about to move the index.                                                *)
LEMMA ClearKeepsStray ==
  ASSUME MatrixTypes, StrayInd, NEW p \in Scanners, Clear(p)
  PROVE  StrayInd'
<1>1. /\ UNCHANGED <<proc, slots>> /\ index' = 0 /\ proc[p].at = "outside"
  BY Cleared, OutsideIsProc DEF Clear
<1>2. ASSUME Callers <= 2, Callers \in Nat, 1 <= Callers, IndexIn, RoomFor(p)
      PROVE  IndexIn' /\ RoomFor(p)'
  BY <1>1, <1>2, MatrixHas DEF IndexIn, RoomFor, Callers
<1>3. ASSUME Callers = 2, NEW q \in Scanners, q # p, RoomFor(q), RoomFor(p), IndexIn,
             RoomForBoth(p, q)
      PROVE  RoomFor(q)' /\ RoomForBoth(p, q)'
  <2>1. RoomFor(q)'
    BY <1>1, <1>3, MatrixHas DEF RoomFor, Callers
  <2> QED
    BY <1>1, <2>1 DEF RoomForBoth
<1> QED
  BY <1>1, <1>2, <1>3, StepKeepsStray

-----------------------------------------------------------------------------
(* The invariant of the keypad is inductive. *)

(* It holds of the device that was just loaded. *)
LEMMA MatrixStarts ==
  ASSUME MatrixInit
  PROVE  MatrixInd
<1>1. \A p \in Scanners : proc[p] = Outside
  BY DEF MatrixInit
<1>2. \A p \in Scanners : proc[p].at = "outside" /\ proc[p].held = {}
  BY <1>1, OutsideIsProc
<1>3. MatrixTypes
  <2>1. proc \in [Scanners -> Procs] /\ \A p \in Scanners : Proper(proc[p])
    BY OutsideIsProc DEF MatrixInit
  <2>2. /\ down \in SUBSET Keys /\ \A k, l \in down : k = l
        /\ low \in SUBSET (1..Rows) /\ slots \in SUBSET Int
    BY DEF MatrixInit
  <2>3. index \in Int /\ progress \in Nat /\ called \in Nat
    BY DEF MatrixInit
  <2>4. changing \in BOOLEAN /\ shared \in BOOLEAN
    BY DEF MatrixInit
  <2> QED
    BY <2>1, <2>2, <2>3, <2>4 DEF MatrixTypes
<1>4. ScanInd
  <2>1. RowsAreRaised /\ LoneIsOnly
    BY <1>2 DEF MatrixInit, RowsAreRaised, LoneIsOnly, Scanning
  <2> QED
    BY <1>2, <2>1
    DEF ScanInd, SoundScan, DrivesItsRow, SawItHere, HeldIsAhead, FoundIsTrue
<1>5. AloneInd /\ AloneInRange
  <2>1. \A p \in Scanners : ~Processing(p) /\ LoadedIsThere(p)
    BY <1>2 DEF Processing, LoadedIsThere
  <2> QED
    BY <2>1, MatrixHas DEF MatrixInit, AloneInd, AloneInRange
<1>6. StrayInd
  <2>1. SUFFICES ASSUME Callers <= 2
                 PROVE  /\ IndexIn
                        /\ \A p \in Scanners : RoomFor(p)
                        /\ \A p, q \in Scanners : p # q => RoomForBoth(p, q)
    BY DEF StrayInd
  <2>2. IndexIn
    BY <2>1, TwoAreAll, MatrixHas DEF MatrixInit, IndexIn
  <2> QED
    BY <1>2, <2>2 DEF RoomFor, RoomForBoth
<1> QED
  BY <1>3, <1>4, <1>5, <1>6 DEF MatrixInd

(* A step that only scans, or only moves the finger, leaves what is        *)
(* processed.                                                              *)
LEMMA ScanKeepsWork ==
  ASSUME AloneInd, AloneInRange, StrayInd, UNCHANGED inputVars,
         \A q \in Scanners :
           \/ proc'[q].at = proc[q].at /\ proc'[q].loaded = proc[q].loaded
           \/ proc'[q].at \in {"drive", "read", "again", "raise"}
  PROVE  AloneInd' /\ AloneInRange' /\ StrayInd'
<1>1. UNCHANGED <<index, progress, slots, shared>>
  BY DEF inputVars
<1>2. \A q \in Scanners :
        /\ Processing(q)' => Processing(q)
        /\ proc'[q].at \in {"advance", "test", "put", "delete"} =>
             proc'[q].at = proc[q].at /\ proc'[q].loaded = proc[q].loaded
  BY DEF Processing
<1> QED
  BY <1>1, <1>2, IdleKeepsAlone, IdleKeepsStray

(* And every step keeps it. *)
LEMMA MatrixGoesOn ==
  ASSUME MatrixInd, MatrixNext
  PROVE  MatrixInd'
<1> USE DEF MatrixInd
<1>1. CASE Presses \/ Releases
  <2>1. /\ MatrixTypes' /\ UNCHANGED inputVars
        /\ \A q \in Scanners :
             proc'[q].at = proc[q].at /\ proc'[q].loaded = proc[q].loaded
    BY <1>1, FingerMoves
  <2> QED
    BY <1>1, <2>1, FingerKeepsScans, ScanKeepsWork
<1>2. ASSUME NEW p \in Scanners, NEW call \in {"get", "scan"}, Call(p, call)
      PROVE  MatrixInd'
  <2>1. /\ MatrixTypes' /\ UNCHANGED inputVars /\ proc'[p].at = "drive"
        /\ \A q \in Scanners \ {p} :
             proc'[q].at = proc[q].at /\ proc'[q].loaded = proc[q].loaded
    BY <1>2, CallBegins
  <2> QED
    BY <1>2, <2>1, CallKeepsScans, ScanKeepsWork
<1>3. ASSUME NEW p \in Scanners, Clear(p)
      PROVE  MatrixInd'
  <2>1. MatrixTypes' /\ UNCHANGED <<down, low, proc>>
    BY <1>3, Cleared
  <2>2. ScanInd'
    BY <2>1 DEF ScanInd, RowsAreRaised, LoneIsOnly, SoundScan, DrivesItsRow, SawItHere,
                HeldIsAhead, FoundIsTrue, Scanning
  <2> QED
    BY <1>3, <2>1, <2>2, ClearKeepsAlone, ClearKeepsStray
<1>4. ASSUME NEW p \in Scanners, Drive(p)
      PROVE  MatrixInd'
  <2>1. /\ MatrixTypes' /\ UNCHANGED inputVars /\ proc'[p].at \in {"drive", "read"}
        /\ \A q \in Scanners \ {p} : proc'[q] = proc[q]
    BY <1>4, DriveWrites
  <2> QED
    BY <1>4, <2>1, DriveKeepsScans, ScanKeepsWork
<1>5. ASSUME NEW p \in Scanners, Read(p) \/ ReadAgain(p)
      PROVE  MatrixInd'
  <2> DEFINE r == proc[p]  s == proc'[p]
  <2>1. /\ MatrixTypes' /\ UNCHANGED inputVars
        /\ s.at \in {"again", "raise"} \/ s = Onward(r)
        /\ r.at \in {"read", "again"}
        /\ \A q \in Scanners \ {p} : proc'[q] = proc[q]
    BY <1>5, ReadLooks, ReadAgainLooks
  <2>2. r \in Procs /\ Proper(r)
    BY StepNames
  <2>3. s.at \in {"drive", "read", "again", "raise"}
    <3> HIDE DEF r, s
    <3> QED
      BY <2>1, <2>2, Onwards
  <2>4. ScanInd'
    BY <1>5, ReadKeepsScans, ReadAgainKeepsScans
  <2> QED
    BY <2>1, <2>3, <2>4, ScanKeepsWork
<1>6. ASSUME NEW p \in Scanners, Raise(p)
      PROVE  MatrixInd'
  <2>1. /\ MatrixTypes' /\ UNCHANGED <<index, slots>>
        /\ proc'[p].at \in {"raise", "outside", "compare"}
        /\ \A q \in Scanners \ {p} : proc'[q] = proc[q]
    BY <1>6, RaiseWrites
  <2>2. StrayInd'
    BY <2>1, IdleKeepsStray
  <2> QED
    BY <1>6, <2>1, <2>2, RaiseKeepsScans, RaiseKeepsAlone
<1>7. ASSUME NEW p \in Scanners,
             \/ CompareLetter(p) \/ Advance(p) \/ Complete(p)
             \/ CompareDigit(p) \/ Put(p) \/ CompareDelete(p) \/ Delete(p) \/ Confirm(p)
      PROVE  MatrixInd'
  <2>1. MatrixTypes' /\ Works(p)
    BY <1>7, LetterCompared, Advanced, Completed, IndexCompared, IndexMoved, Confirmed
  <2> QED
    BY <1>7, <2>1, WorkKeepsScans, WorkKeepsAlone, WorkKeepsStray
<1> QED
  BY <1>1, <1>2, <1>3, <1>4, <1>5, <1>6, <1>7 DEF MatrixNext

(* It speaks of nothing but the variables of the keypad. *)
LEMMA MatrixRests ==
  ASSUME MatrixInd, UNCHANGED matrixVars
  PROVE  MatrixInd'
<1>1. UNCHANGED <<down, low, called, proc, index, progress, changing, slots, shared>>
  BY DEF matrixVars, padVars, inputVars
<1>2. MatrixTypes'
  BY <1>1 DEF MatrixInd, MatrixTypes
<1>3. ScanInd'
  BY <1>1 DEF MatrixInd, ScanInd, RowsAreRaised, LoneIsOnly, SoundScan, DrivesItsRow,
              SawItHere, HeldIsAhead, FoundIsTrue, Scanning
<1>4. AloneInd' /\ AloneInRange' /\ StrayInd'
  BY <1>1, IdleKeepsAlone, IdleKeepsStray DEF MatrixInd, Processing
<1> QED
  BY <1>2, <1>3, <1>4 DEF MatrixInd

(* Of the device: nothing the processes do to the screen touches it. *)
THEOREM KeypadSafe == DeviceSpec => []MatrixInd
<1>1. DeviceInit => MatrixInd
  BY MatrixStarts DEF DeviceInit
<1>2. MatrixInd /\ [DeviceNext]_deviceVars => MatrixInd'
  BY MatrixGoesOn, MatrixRests DEF DeviceNext, UsesKeypad, UsesScreen, deviceVars
<1> QED
  BY <1>1, <1>2, PTL DEF DeviceSpec

(* A scan that no other overlaps reports the key that was down, however    *)
(* many processes have the device open (key_scan_debug).                   *)
THEOREM LoneScans == DeviceSpec => []LoneScanIsTrue
<1>1. MatrixInd => LoneScanIsTrue
  BY DEF MatrixInd, ScanInd, SoundScan, FoundIsTrue, LoneScanIsTrue
<1> QED
  BY <1>1, KeypadSafe, PTL

(* Two processes move input_index out of its range by one at most, and     *)
(* then write one slot before or behind input_buffer (key_process_input).  *)
THEOREM TwoStrayByOne == DeviceSpec => []IndexStrays
<1>1. MatrixInd => IndexStrays
  <2>1. SUFFICES ASSUME MatrixInd, Callers <= 2
                 PROVE  /\ index \in 1 - Callers .. PasswordLength + Callers - 1
                        /\ slots \subseteq 1 - Callers .. PasswordLength + Callers - 2
    BY DEF IndexStrays
  <2>2. IndexIn /\ index \in Int /\ slots \subseteq Int /\ Callers \in Nat
    BY <2>1, TwoAreAll, RestIsTyped DEF MatrixInd, StrayInd
  <2> QED
    BY <2>2, MatrixHas DEF IndexIn
<1> QED
  BY <1>1, KeypadSafe, PTL

(* And as long as no two were in key_process_input at a time, no index     *)
(* leaves its array or the sequence, however many there are.               *)
THEOREM OneStaysInRange == DeviceSpec => []AloneInRange
<1>1. MatrixInd => AloneInRange
  BY DEF MatrixInd
<1> QED
  BY <1>1, KeypadSafe, PTL

-----------------------------------------------------------------------------
(* The screen.                                                             *)

(* What a task in an update keeps. *)
Jobs ==
  [at : {"rest", "clear", "draw", "commands", "copy", "send"},
   line : Lines \cup {"none"}, text : Texts \cup {SelfTest}, sent : Nat,
   alone : BOOLEAN, copy : Contents \cup {<<>>}]

(* Where it is, it has a line and a text, or has sent so many commands and *)
(* holds a copy or none.                                                   *)
ProperJob(j) ==
  /\ j.at = "rest" => j = Rest
  /\ j.at \in {"clear", "draw"} => j.line \in Lines /\ j.text \in Texts /\ j.sent = 0
  /\ j.at = "commands" => j.sent < 6
  /\ j.at \in {"copy", "send"} => j.sent = 6
  /\ j.at = "send" => j.copy \in Contents
  /\ j.at # "send" => j.copy = <<>>
  /\ j.at \in {"commands", "copy", "send"} => Lines # {}

(* The bytes a command may wait with. *)
Waits == {<<>>} \cup {<<a>> : a \in Nat} \cup {<<a, b>> : a \in Nat, b \in Nat}

Panels ==
  [wait : Waits, cols : Nat \X Nat, pages : Nat \X Nat,
   home : SUBSET {"col", "page"}, shifted : BOOLEAN, garbled : BOOLEAN,
   shown : Contents]

OledTypes ==
  /\ buf \in Contents /\ panel \in Panels
  /\ job \in [Tasks -> Jobs] /\ \A t \in Tasks : ProperJob(job[t])
  /\ last \in [Lines -> Texts \cup {SelfTest, -1}]
  /\ disturbed \in BOOLEAN /\ clean \in {0, 1, 2} /\ begun \in Nat /\ lost \in Nat

(* Two that draw on a line know of each other. *)
DrawersMeet ==
  \A t, u \in Tasks :
    t # u /\ Drawing(t) /\ Drawing(u) /\ job[t].line = job[u].line => ~job[t].alone

(* Who is alone on its line has it cleared. *)
LineIsClear ==
  \A t \in Tasks : job[t].at = "draw" /\ job[t].alone => buf[job[t].line] = {}

LineInd == DrawersMeet /\ LineIsClear /\ LinesIndependent

(* Who has begun to send and met no other is the only one that has. *)
LoneSends ==
  \A t, u \in Tasks :
    t # u /\ Sending(t) /\ Sending(u) /\ job[t].alone /\ 0 < job[t].sent
      => job[u].sent = 0

(* What the panel waits with after n commands of one task alone.           *)
WaitsFor(n) ==
  /\ n = 1 => panel.wait = <<ColumnAddr>> \/ panel.wait = <<>>
              \/ \E a \in Nat : panel.wait = <<a, ColumnAddr>>
  /\ n = 2 => panel.wait = <<ColumnAddr, 0>> \/ panel.wait = <<>>
  /\ n = 3 => panel.wait = <<>>
  /\ n = 4 => panel.wait = <<PageAddr>>
  /\ n = 5 => panel.wait = <<PageAddr, 0>>
  /\ n = 6 => panel.wait = <<>>

(* And what it has taken from them if it waited for a command at first.    *)
HasTaken(n) ==
  /\ n = 1 => panel.wait = <<ColumnAddr>>
  /\ n = 2 => panel.wait = <<ColumnAddr, 0>>
  /\ 3 <= n => panel.cols = <<0, 127>> /\ "col" \in panel.home
  /\ n = 6  => panel.pages = <<0, 7>> /\ "page" \in panel.home

LoneIsHeard ==
  \A t \in Tasks : Sending(t) /\ job[t].alone /\ 0 < job[t].sent =>
    WaitsFor(job[t].sent) /\ (0 < clean => HasTaken(job[t].sent))

(* Nobody has sent a byte of a display that is not over. *)
Between == \A t \in Tasks : Sending(t) => job[t].sent = 0

(* Then the panel is as the displays that are over have left it. *)
PanelIsSet ==
  Between =>
    /\ 0 < clean => panel.wait = <<>>
    /\ clean = 2 => /\ panel.cols = <<0, 127>> /\ panel.pages = <<0, 7>>
                    /\ panel.home = {"col", "page"} /\ ~panel.garbled

(* It shows the buffer, or who has changed it has still to send.           *)
Busy(t) == Drawing(t) \/ Sending(t)
ShowsOrWill == Between /\ clean = 2 => panel.shown = buf \/ \E t \in Tasks : Busy(t)
CopyIsNew ==
  \A t \in Tasks : job[t].at = "send" /\ job[t].alone =>
    job[t].copy = buf \/ \E u \in Tasks \ {t} : Busy(u)

(* As long as nothing has gone wrong. *)
Undisturbed ==
  ~disturbed => /\ clean = 2 /\ ~panel.shifted
                /\ \A t \in Tasks : Sending(t) => job[t].alone

PanelInd ==
  LoneSends /\ LoneIsHeard /\ PanelIsSet /\ ShowsOrWill /\ CopyIsNew /\ Undisturbed

(* The inductive invariant of the screen. *)
ScreenInd == OledTypes /\ LineInd /\ PanelInd

(* What the constants of the screen say. *)
LEMMA OledHas ==
  /\ SelfTest \in Nat /\ SelfTest \notin Texts /\ Texts \subseteq Nat /\ -1 \notin Texts
  /\ ColumnAddr = 33 /\ PageAddr = 34 /\ Len(DisplayCommands) = 6
  /\ DisplayCommands[1] = 33 /\ DisplayCommands[2] = 0 /\ DisplayCommands[3] = 127
  /\ DisplayCommands[4] = 34 /\ DisplayCommands[5] = 0 /\ DisplayCommands[6] = 7
<1>1. SelfTest \in Nat /\ SelfTest \notin Texts /\ Texts \subseteq Nat /\ -1 \notin Texts
  BY OledAssumption DEF SelfTest
<1>2. ColumnAddr = 33 /\ PageAddr = 34
  BY DEF ColumnAddr, PageAddr
<1> QED
  BY <1>1, <1>2 DEF DisplayCommands

(* A task at rest. *)
LEMMA RestIsJob ==
  /\ Rest \in Jobs /\ ProperJob(Rest) /\ Rest.at = "rest" /\ Rest.sent = 0
  /\ Rest.alone = TRUE
BY OledHas DEF Rest, Jobs, ProperJob

(* What a task is at. *)
LEMMA JobNames ==
  ASSUME OledTypes, NEW t \in Tasks
  PROVE  /\ job[t] \in Jobs /\ ProperJob(job[t]) /\ job[t].sent \in Nat
         /\ job[t].alone \in BOOLEAN
         /\ ~(Drawing(t) /\ Sending(t))
         /\ Sending(t) => job[t].sent <= 6
         /\ job[t].at = "rest" <=> job[t] = Rest
<1>1. job[t] \in Jobs /\ ProperJob(job[t])
  BY DEF OledTypes
<1>2. job[t].sent \in Nat /\ job[t].alone \in BOOLEAN
  BY <1>1 DEF Jobs
<1>3. ~(Drawing(t) /\ Sending(t))
  BY DEF Drawing, Sending
<1>4. Sending(t) => job[t].sent <= 6
  BY <1>1, <1>2 DEF ProperJob, Sending
<1>5. job[t].at = "rest" <=> job[t] = Rest
  BY <1>1, RestIsJob DEF ProperJob
<1> QED
  BY <1>1, <1>2, <1>3, <1>4, <1>5

(* The same place, with or without company. *)
SameJob(j, k) ==
  /\ j.at = k.at /\ j.line = k.line /\ j.text = k.text /\ j.sent = k.sent
  /\ j.copy = k.copy

(* Who is met in the middle of something is not alone any more.            *)
LEMMA Met ==
  ASSUME OledTypes, NEW t \in Tasks, NEW step \in Jobs, NEW others \in SUBSET (Tasks \ {t}),
         job' = Meet(t, step, others), ProperJob(step), step.at # "rest",
         \A u \in others : job[u].at # "rest"
  PROVE  /\ job' \in [Tasks -> Jobs] /\ \A u \in Tasks : ProperJob(job'[u])
         /\ SameJob(job'[t], step) /\ (job'[t].alone <=> step.alone /\ others = {})
         /\ \A u \in Tasks \ {t} :
              /\ SameJob(job'[u], job[u])
              /\ job'[u].alone <=> job[u].alone /\ u \notin others
<1>1. job' = [u \in Tasks |->
                CASE u = t         -> [step EXCEPT !.alone = step.alone /\ others = {}]
                  [] u \in others  -> [job[u] EXCEPT !.alone = FALSE]
                  [] OTHER         -> job[u]]
  BY DEF Meet
<1>2. /\ job'[t] \in Jobs /\ ProperJob(job'[t]) /\ SameJob(job'[t], step)
      /\ job'[t].alone <=> step.alone /\ others = {}
  <2> DEFINE j == job'[t]
             lone == step.alone /\ others = {}
  <2>1. lone \in BOOLEAN
    OBVIOUS
  <2>2. j = [step EXCEPT !.alone = lone]
    BY <1>1
  <2> HIDE DEF j, lone
  <2>3. j.alone = lone /\ SameJob(j, step)
    BY <2>2 DEF Jobs, SameJob
  <2>4. j \in Jobs
    BY <2>1, <2>2 DEF Jobs
  <2>5. ProperJob(j)
    BY <2>3 DEF ProperJob, SameJob
  <2> QED
    BY <2>3, <2>4, <2>5 DEF j, lone
<1>3. ASSUME NEW u \in Tasks \ {t}
      PROVE  /\ job'[u] \in Jobs /\ ProperJob(job'[u]) /\ SameJob(job'[u], job[u])
             /\ job'[u].alone <=> job[u].alone /\ u \notin others
  <2>1. job[u] \in Jobs /\ ProperJob(job[u])
    BY JobNames
  <2>2. CASE u \in others
    <3> DEFINE j == job'[u]  k == job[u]
    <3>1. j = [k EXCEPT !.alone = FALSE] /\ k \in Jobs /\ ProperJob(k) /\ k.at # "rest"
      BY <1>1, <2>1, <2>2
    <3> HIDE DEF j, k
    <3>2. j.alone = FALSE /\ SameJob(j, k)
      BY <3>1 DEF Jobs, SameJob
    <3>3. j \in Jobs
      BY <3>1 DEF Jobs
    <3>4. ProperJob(j)
      BY <3>1, <3>2 DEF ProperJob, SameJob
    <3> QED
      BY <2>2, <3>2, <3>3, <3>4 DEF j, k
  <2>3. CASE u \notin others
    <3>1. job'[u] = job[u]
      BY <1>1, <2>3
    <3> QED
      BY <2>1, <2>3, <3>1 DEF SameJob
  <2> QED
    BY <2>2, <2>3
<1>4. job' \in [Tasks -> Jobs]
  <2>1. \A u \in Tasks : job'[u] \in Jobs
    BY <1>2, <1>3
  <2>2. DOMAIN job' = Tasks /\ job' = [u \in Tasks |-> job'[u]]
    BY <1>1
  <2> QED
    BY <2>1, <2>2
<1> QED
  BY <1>2, <1>3, <1>4

(* One task goes on, the others stay where they are. *)
LEMMA JobWent ==
  ASSUME OledTypes, NEW t \in Tasks, NEW j \in Jobs, ProperJob(j),
         job' = [job EXCEPT ![t] = j]
  PROVE  /\ job' \in [Tasks -> Jobs] /\ \A u \in Tasks : ProperJob(job'[u])
         /\ job'[t] = j
         /\ \A u \in Tasks \ {t} : job'[u] = job[u]
BY DEF OledTypes

(* An update begins. *)
LEMMA UpdateBegins ==
  ASSUME OledTypes, NEW t \in Tasks, NEW line \in Lines, NEW text \in Texts,
         Update(t, line, text)
  PROVE  /\ OledTypes' /\ UNCHANGED <<buf, panel, last, disturbed, clean>>
         /\ job[t].at = "rest" /\ job'[t].at = "clear" /\ job'[t].line = line
         /\ job'[t].alone =>
              \A u \in Tasks \ {t} : ~(Drawing(u) /\ job[u].line = line)
         /\ \A u \in Tasks \ {t} :
              /\ SameJob(job'[u], job[u])
              /\ job'[u].alone => job[u].alone
              /\ ~Drawing(u) => (job'[u].alone <=> job[u].alone)
              /\ Drawing(u) /\ job[u].line = line => ~job'[u].alone
<1> DEFINE step   == [Rest EXCEPT !.at = "clear", !.line = line, !.text = text]
           others == {u \in Tasks : Drawing(u) /\ job[u].line = line}
<1>1. /\ job[t] = Rest /\ UNCHANGED <<buf, panel, last, disturbed, clean, lost>>
      /\ begun' = begun + 1
      /\ job' = Meet(t, step, others)
  BY DEF Update
<1>2. /\ step.at = "clear" /\ step.line = line /\ step.alone = TRUE /\ step.sent = 0
      /\ step.copy = <<>> /\ step.text = text /\ step \in Jobs
  BY RestIsJob DEF Rest, Jobs
<1>3. ProperJob(step)
  <2> HIDE DEF step
  <2> QED
    BY <1>2 DEF ProperJob
<1>4. others \in SUBSET (Tasks \ {t}) /\ \A u \in others : job[u].at # "rest"
  BY <1>1, RestIsJob DEF Drawing
<1> HIDE DEF step
<1>5. /\ job' \in [Tasks -> Jobs] /\ \A u \in Tasks : ProperJob(job'[u])
      /\ SameJob(job'[t], step) /\ (job'[t].alone <=> step.alone /\ others = {})
      /\ \A u \in Tasks \ {t} :
           /\ SameJob(job'[u], job[u])
           /\ job'[u].alone <=> job[u].alone /\ u \notin others
  <2> HIDE DEF others
  <2> QED
    BY <1>1, <1>2, <1>3, <1>4, Met
<1>6. OledTypes'
  <2>1. begun' \in Nat
    BY <1>1 DEF OledTypes
  <2>2. /\ UNCHANGED buf /\ UNCHANGED panel /\ UNCHANGED last /\ UNCHANGED disturbed
        /\ UNCHANGED clean /\ UNCHANGED lost
    BY <1>1
  <2> QED
    BY <1>5, <2>1, <2>2 DEF OledTypes, Contents
<1>7. job[t].at = "rest"
  BY <1>1, RestIsJob
<1> QED
  BY <1>1, <1>2, <1>5, <1>6, <1>7 DEF SameJob

(* The line is cleared. *)
LEMMA LineCleared ==
  ASSUME OledTypes, NEW t \in Tasks, ClearLine(t)
  PROVE  /\ OledTypes' /\ UNCHANGED <<panel, last, disturbed, clean>>
         /\ job[t].at = "clear" /\ job'[t].at = "draw" /\ job'[t].line = job[t].line
         /\ job'[t].alone = job[t].alone /\ job'[t].sent = 0
         /\ job[t].line \in Lines /\ buf'[job[t].line] = {}
         /\ \A l \in Lines : l # job[t].line => buf'[l] = buf[l]
         /\ \A u \in Tasks \ {t} : job'[u] = job[u]
<1> DEFINE j == [job[t] EXCEPT !.at = "draw"]
<1>1. /\ job[t].at = "clear" /\ UNCHANGED <<panel, last, disturbed, clean, begun, lost>>
      /\ buf' = [buf EXCEPT ![job[t].line] = {}]
      /\ job' = [job EXCEPT ![t] = j]
  <2>1. job' = [job EXCEPT ![t].at = "draw"]
    BY DEF ClearLine
  <2>2. job' = [job EXCEPT ![t] = j]
    BY <2>1
  <2> QED
    BY <2>2 DEF ClearLine
<1>2. /\ job[t] \in Jobs /\ job[t].line \in Lines /\ job[t].text \in Texts
      /\ job[t].sent = 0 /\ job[t].copy = <<>>
  BY <1>1, JobNames DEF ProperJob
<1>3. /\ j \in Jobs /\ j.at = "draw" /\ j.line = job[t].line /\ j.text = job[t].text
      /\ j.sent = 0 /\ j.alone = job[t].alone /\ j.copy = <<>>
  BY <1>2 DEF Jobs
<1> HIDE DEF j
<1>4. ProperJob(j)
  BY <1>2, <1>3 DEF ProperJob
<1>5. /\ job' \in [Tasks -> Jobs] /\ \A u \in Tasks : ProperJob(job'[u])
      /\ job'[t] = j
      /\ \A u \in Tasks \ {t} : job'[u] = job[u]
  BY <1>1, <1>3, <1>4, JobWent
<1>6. /\ buf' \in Contents /\ buf'[job[t].line] = {}
      /\ \A l \in Lines : l # job[t].line => buf'[l] = buf[l]
  BY <1>1, <1>2 DEF OledTypes, Contents
<1>7. OledTypes'
  BY <1>1, <1>5, <1>6 DEF OledTypes
<1> QED
  BY <1>1, <1>2, <1>3, <1>5, <1>6, <1>7

(* The text is drawn. *)
LEMMA TextDrawn ==
  ASSUME OledTypes, NEW t \in Tasks, DrawString(t)
  PROVE  /\ OledTypes' /\ UNCHANGED <<panel, disturbed, clean>>
         /\ job[t].at = "draw" /\ job'[t].at = "commands" /\ job'[t].sent = 0
         /\ job'[t].alone = TRUE
         /\ job[t].line \in Lines /\ job[t].text \in Texts
         /\ buf'[job[t].line] = buf[job[t].line] \cup {job[t].text}
         /\ last'[job[t].line] = IF job[t].alone THEN job[t].text ELSE -1
         /\ \A l \in Lines : l # job[t].line => buf'[l] = buf[l] /\ last'[l] = last[l]
         /\ \A u \in Tasks \ {t} : job'[u] = job[u]
<1> DEFINE j == [job[t] EXCEPT !.at = "commands", !.alone = TRUE, !.line = "none",
                   !.text = SelfTest]
<1>1. /\ job[t].at = "draw" /\ UNCHANGED <<panel, disturbed, clean, begun, lost>>
      /\ buf' = [buf EXCEPT ![job[t].line] = buf[job[t].line] \cup {job[t].text}]
      /\ last' = [last EXCEPT ![job[t].line] = IF job[t].alone THEN job[t].text ELSE -1]
      /\ job' = [job EXCEPT ![t] = j]
  BY DEF DrawString
<1>2. /\ job[t] \in Jobs /\ job[t].line \in Lines /\ job[t].text \in Texts
      /\ job[t].sent = 0 /\ job[t].copy = <<>>
  BY <1>1, JobNames DEF ProperJob
<1>3. /\ j \in Jobs /\ j.at = "commands" /\ j.alone = TRUE
      /\ j.sent = 0 /\ j.copy = <<>>
  BY <1>2 DEF Jobs
<1> HIDE DEF j
<1>4. ProperJob(j)
  BY <1>2, <1>3 DEF ProperJob
<1>5. /\ job' \in [Tasks -> Jobs] /\ \A u \in Tasks : ProperJob(job'[u])
      /\ job'[t] = j
      /\ \A u \in Tasks \ {t} : job'[u] = job[u]
  BY <1>1, <1>3, <1>4, JobWent
<1>6. /\ buf' \in Contents
      /\ buf'[job[t].line] = buf[job[t].line] \cup {job[t].text}
      /\ \A l \in Lines : l # job[t].line => buf'[l] = buf[l]
  <2>1. buf \in [Lines -> SUBSET (Texts \cup {SelfTest})]
    BY DEF OledTypes, Contents
  <2>2. buf[job[t].line] \cup {job[t].text} \in SUBSET (Texts \cup {SelfTest})
    BY <1>2, <2>1
  <2> QED
    BY <1>1, <1>2, <2>1, <2>2 DEF Contents
<1>7. /\ last' \in [Lines -> Texts \cup {SelfTest, -1}]
      /\ last'[job[t].line] = IF job[t].alone THEN job[t].text ELSE -1
      /\ \A l \in Lines : l # job[t].line => last'[l] = last[l]
  <2>1. (IF job[t].alone THEN job[t].text ELSE -1) \in Texts \cup {SelfTest, -1}
    BY <1>2
  <2> QED
    BY <1>1, <1>2, <2>1 DEF OledTypes
<1>8. OledTypes'
  BY <1>1, <1>5, <1>6, <1>7 DEF OledTypes
<1> QED
  BY <1>1, <1>2, <1>3, <1>5, <1>6, <1>7, <1>8

(* The buffer is copied. *)
LEMMA BufferCopied ==
  ASSUME OledTypes, NEW t \in Tasks, CopyBuffer(t)
  PROVE  /\ OledTypes' /\ UNCHANGED <<buf, panel, last, disturbed, clean>>
         /\ job[t].at = "copy" /\ job'[t].at = "send" /\ job'[t].sent = job[t].sent
         /\ job'[t].alone = job[t].alone /\ job'[t].copy = buf
         /\ \A u \in Tasks \ {t} : job'[u] = job[u]
<1> DEFINE j == [job[t] EXCEPT !.at = "send", !.copy = buf]
<1>1. /\ job[t].at = "copy"
      /\ UNCHANGED <<buf, panel, last, disturbed, clean, begun, lost>>
      /\ job' = [job EXCEPT ![t] = j]
  <2>1. job' = [job EXCEPT ![t].at = "send", ![t].copy = buf]
    BY DEF CopyBuffer
  <2>2. [[job EXCEPT ![t].at = "send"] EXCEPT ![t].copy = buf] = [job EXCEPT ![t] = j]
    BY DEF OledTypes
  <2>3. job' = [job EXCEPT ![t] = j]
    BY <2>1, <2>2
  <2> QED
    BY <2>3 DEF CopyBuffer
<1>2. /\ job[t] \in Jobs /\ job[t].sent = 6 /\ buf \in Contents /\ Lines # {}
  BY <1>1, JobNames DEF ProperJob, OledTypes
<1>3. /\ j \in Jobs /\ j.at = "send" /\ j.alone = job[t].alone
      /\ j.sent = job[t].sent /\ j.copy = buf
  BY <1>2 DEF Jobs
<1> HIDE DEF j
<1>4. ProperJob(j)
  BY <1>2, <1>3 DEF ProperJob
<1>5. /\ job' \in [Tasks -> Jobs] /\ \A u \in Tasks : ProperJob(job'[u])
      /\ job'[t] = j
      /\ \A u \in Tasks \ {t} : job'[u] = job[u]
  BY <1>1, <1>3, <1>4, JobWent
<1>6. OledTypes'
  BY <1>1, <1>5 DEF OledTypes
<1> QED
  BY <1>1, <1>3, <1>5, <1>6

(* A sequence of one element becomes one of two. *)
LEMMA AppendToOne ==
  ASSUME NEW a \in Nat, NEW b \in Nat
  PROVE  Append(<<a>>, b) = <<a, b>>
<1> DEFINE s == <<a>>  t == Append(s, b)  u == <<a, b>>
<1>1. s \in Seq(Nat) /\ Len(s) = 1 /\ s[1] = a
  OBVIOUS
<1>2. u \in Seq(Nat) /\ Len(u) = 2 /\ u[1] = a /\ u[2] = b
  OBVIOUS
<1> HIDE DEF s, u
<1>3. t \in Seq(Nat) /\ Len(t) = 2 /\ t[1] = a /\ t[2] = b
  <2>1. /\ t \in Seq(Nat) /\ Len(t) = Len(s) + 1
        /\ \A i \in 1..Len(s) : t[i] = s[i]
        /\ t[Len(s) + 1] = b
    <3>1. ASSUME NEW S, NEW x \in Seq(S), NEW y \in S
          PROVE  /\ Append(x, y) \in Seq(S) /\ Len(Append(x, y)) = Len(x) + 1
                 /\ \A i \in 1..Len(x) : Append(x, y)[i] = x[i]
                 /\ Append(x, y)[Len(x) + 1] = y
      BY AppendProperties
    <3> QED
      BY <1>1, <3>1
  <2>2. 1 \in 1..Len(s) /\ Len(s) + 1 = 2
    BY <1>1
  <2> HIDE DEF t
  <2> QED
    BY <1>1, <2>1, <2>2
<1> HIDE DEF t
<1>4. \A i \in 1..Len(t) : t[i] = u[i]
  BY <1>2, <1>3
<1>5. t = u
  BY <1>2, <1>3, <1>4, SeqEqual
<1> QED
  BY <1>5 DEF s, t, u

(* What the panel makes of a byte, by how many it waits with. *)
LEMMA Received ==
  ASSUME NEW p, NEW byte, p \in Panels, byte \in Nat
  PROVE  LET s == Receive(p, byte)
         IN  /\ s \in Panels /\ s.shown = p.shown /\ s.garbled = p.garbled
             /\ p.wait = <<>> =>
                  /\ s.cols = p.cols /\ s.pages = p.pages /\ s.home = p.home
                  /\ byte \in {33, 34} => s.wait = <<byte>> /\ s.shifted = p.shifted
                  /\ byte = 127 => s.wait = <<>>
                  /\ byte \notin {33, 34, 127} => s.wait = <<>> /\ s.shifted = p.shifted
             /\ \A a \in Nat : p.wait = <<a>> =>
                  /\ s.wait = <<a, byte>> /\ s.shifted = p.shifted
                  /\ s.cols = p.cols /\ s.pages = p.pages /\ s.home = p.home
             /\ \A a, b \in Nat : p.wait = <<a, b>> =>
                  /\ s.wait = <<>> /\ s.shifted = p.shifted
                  /\ a = 33 => s.cols = <<b, byte>> /\ s.home = p.home \cup {"col"}
                               /\ s.pages = p.pages
                  /\ a # 33 => s.pages = <<b % 8, byte % 8>> /\ s.home = p.home \cup {"page"}
                               /\ s.cols = p.cols
<1> DEFINE s == Receive(p, byte)
<1>0. ColumnAddr = 33 /\ PageAddr = 34
  BY OledHas
<1>1. CASE p.wait = <<>>
  <2>1. s = IF byte \in {33, 34} THEN [p EXCEPT !.wait = <<byte>>]
            ELSE IF byte = 127 THEN [p EXCEPT !.shifted = TRUE]
            ELSE p
    BY <1>0, <1>1 DEF Receive
  <2> HIDE DEF s
  <2>2. CASE byte \in {33, 34}
    <3>1. s = [p EXCEPT !.wait = <<byte>>]
      BY <2>1, <2>2
    <3>2. <<byte>> \in Waits
      BY DEF Waits
    <3>3. /\ s.wait = <<byte>> /\ s.shifted = p.shifted /\ s.shown = p.shown
          /\ s.garbled = p.garbled /\ s.cols = p.cols /\ s.pages = p.pages
          /\ s.home = p.home
      BY <3>1 DEF Panels
    <3>4. s \in Panels
      BY <3>1, <3>2 DEF Panels
    <3> QED
      BY <1>1, <2>2, <3>3, <3>4 DEF s
  <2>3. CASE byte = 127
    <3>1. s = [p EXCEPT !.shifted = TRUE]
      BY <2>1, <2>3
    <3>3. /\ s.wait = <<>> /\ s.shown = p.shown
          /\ s.garbled = p.garbled /\ s.cols = p.cols /\ s.pages = p.pages
          /\ s.home = p.home
      BY <1>1, <3>1 DEF Panels
    <3>4. s \in Panels
      BY <3>1 DEF Panels
    <3> QED
      BY <1>1, <2>3, <3>3, <3>4 DEF s
  <2>4. CASE byte \notin {33, 34, 127}
    <3>1. s = p
      BY <2>1, <2>4
    <3> QED
      BY <1>1, <2>4, <3>1 DEF s
  <2> QED
    BY <2>2, <2>3, <2>4
<1>2. ASSUME NEW a \in Nat, p.wait = <<a>>
      PROVE  /\ s \in Panels /\ s.shown = p.shown /\ s.garbled = p.garbled
             /\ s.wait = <<a, byte>> /\ s.shifted = p.shifted
             /\ s.cols = p.cols /\ s.pages = p.pages /\ s.home = p.home
  <2>1. Len(p.wait) = 1 /\ Append(p.wait, byte) = <<a, byte>>
    BY <1>2, AppendToOne
  <2>2. s = [p EXCEPT !.wait = <<a, byte>>]
    BY <2>1 DEF Receive
  <2>3. <<a, byte>> \in Waits
    BY DEF Waits
  <2> HIDE DEF s
  <2>4. /\ s.shown = p.shown /\ s.garbled = p.garbled
        /\ s.wait = <<a, byte>> /\ s.shifted = p.shifted
        /\ s.cols = p.cols /\ s.pages = p.pages /\ s.home = p.home
    BY <2>2 DEF Panels
  <2>5. s \in Panels
    BY <2>2, <2>3 DEF Panels
  <2> QED
    BY <2>4, <2>5
<1>3. ASSUME NEW a \in Nat, NEW b \in Nat, p.wait = <<a, b>>
      PROVE  /\ s \in Panels /\ s.shown = p.shown /\ s.garbled = p.garbled
             /\ s.wait = <<>> /\ s.shifted = p.shifted
             /\ a = 33 => s.cols = <<b, byte>> /\ s.home = p.home \cup {"col"}
                          /\ s.pages = p.pages
             /\ a # 33 => s.pages = <<b % 8, byte % 8>> /\ s.home = p.home \cup {"page"}
                          /\ s.cols = p.cols
  <2>1. Len(p.wait) = 2 /\ p.wait[1] = a /\ p.wait[2] = b
    BY <1>3
  <2>2. s = IF a = 33 THEN [p EXCEPT !.wait = <<>>, !.cols = <<b, byte>>,
                                     !.home = p.home \cup {"col"}]
            ELSE [p EXCEPT !.wait = <<>>, !.pages = <<b % 8, byte % 8>>,
                           !.home = p.home \cup {"page"}]
    BY <1>0, <2>1 DEF Receive
  <2>3. <<>> \in Waits
    BY DEF Waits
  <2> HIDE DEF s
  <2>4. CASE a = 33
    <3>1. s = [p EXCEPT !.wait = <<>>, !.cols = <<b, byte>>, !.home = p.home \cup {"col"}]
      BY <2>2, <2>4
    <3>2. <<b, byte>> \in Nat \X Nat
      OBVIOUS
    <3> DEFINE c == <<b, byte>>
               h == p.home \cup {"col"}
    <3>3. h \in SUBSET {"col", "page"}
      BY DEF Panels
    <3>4. s = [p EXCEPT !.wait = <<>>, !.cols = c, !.home = h]
      BY <3>1
    <3> HIDE DEF c, h
    <3>5. /\ s.wait = <<>> /\ s.cols = c /\ s.home = h /\ s.pages = p.pages
          /\ s.shifted = p.shifted /\ s.shown = p.shown /\ s.garbled = p.garbled
      BY <3>4 DEF Panels
    <3>6. s \in Panels
      BY <2>3, <3>2, <3>3, <3>4 DEF Panels, c
    <3> QED
      BY <2>4, <3>5, <3>6 DEF c, h
  <2>5. CASE a # 33
    <3>1. s = [p EXCEPT !.wait = <<>>, !.pages = <<b % 8, byte % 8>>,
                        !.home = p.home \cup {"page"}]
      BY <2>2, <2>5
    <3>2. <<b % 8, byte % 8>> \in Nat \X Nat
      OBVIOUS
    <3> DEFINE c == <<b % 8, byte % 8>>
               h == p.home \cup {"page"}
    <3>3. h \in SUBSET {"col", "page"}
      BY DEF Panels
    <3>4. s = [p EXCEPT !.wait = <<>>, !.pages = c, !.home = h] /\ c \in Nat \X Nat
      BY <3>1, <3>2
    <3> HIDE DEF c, h
    <3>5. /\ s.wait = <<>> /\ s.cols = p.cols /\ s.home = h /\ s.pages = c
          /\ s.shifted = p.shifted /\ s.shown = p.shown /\ s.garbled = p.garbled
      BY <3>4 DEF Panels
    <3>6. s \in Panels
      BY <2>3, <3>3, <3>4 DEF Panels
    <3> QED
      BY <2>5, <3>5, <3>6 DEF c, h
  <2> QED
    BY <2>4, <2>5
<1>4. p.wait = <<>> \/ (\E a \in Nat : p.wait = <<a>>)
      \/ \E a, b \in Nat : p.wait = <<a, b>>
  BY DEF Panels, Waits
<1>5. /\ s \in Panels /\ s.shown = p.shown /\ s.garbled = p.garbled
  BY <1>1, <1>2, <1>3, <1>4
<1>6. \A a \in Nat : p.wait = <<a>> =>
                  /\ s.wait = <<a, byte>> /\ s.shifted = p.shifted
                  /\ s.cols = p.cols /\ s.pages = p.pages /\ s.home = p.home
  BY <1>2
<1>7. \A a, b \in Nat : p.wait = <<a, b>> =>
                  /\ s.wait = <<>> /\ s.shifted = p.shifted
                  /\ a = 33 => s.cols = <<b, byte>> /\ s.home = p.home \cup {"col"}
                               /\ s.pages = p.pages
                  /\ a # 33 => s.pages = <<b % 8, byte % 8>> /\ s.home = p.home \cup {"page"}
                               /\ s.cols = p.cols
  BY <1>3
<1> HIDE DEF s
<1> QED
  BY <1>1, <1>5, <1>6, <1>7 DEF s

(* A command is sent, or lost. *)
LEMMA CommandSent ==
  ASSUME OledTypes, NEW t \in Tasks, NEW arrives \in BOOLEAN, SendCommand(t, arrives)
  PROVE  LET n == job[t].sent + 1
         IN  /\ OledTypes' /\ UNCHANGED <<buf, last, clean>>
             /\ job[t].at = "commands" /\ n \in 1..6
             /\ panel' = IF arrives THEN Receive(panel, DisplayCommands[n]) ELSE panel
             /\ job'[t].at \in {"commands", "copy"} /\ job'[t].sent = n
             /\ job'[t].alone <=> job[t].alone /\ arrives /\ Senders(t) = {}
             /\ disturbed' <=> disturbed \/ ~job'[t].alone
             /\ \A u \in Tasks \ {t} :
                  /\ SameJob(job'[u], job[u])
                  /\ job'[u].alone <=> job[u].alone /\ ~Sending(u)
<1> DEFINE n      == job[t].sent + 1
           lone   == job[t].alone /\ arrives
           step   == [job[t] EXCEPT !.sent = n,
                        !.at = IF n = Len(DisplayCommands) THEN "copy" ELSE job[t].at,
                        !.alone = lone]
           others == Senders(t)
<1>1. /\ job[t].at = "commands" /\ UNCHANGED <<buf, last, clean, begun>>
      /\ panel' = IF arrives THEN Receive(panel, DisplayCommands[n]) ELSE panel
      /\ job' = Meet(t, step, others)
      /\ disturbed' = (disturbed \/ ~job'[t].alone)
      /\ lost' = IF arrives THEN lost ELSE lost + 1
  BY DEF SendCommand, Refuses
<1>2. /\ job[t] \in Jobs /\ job[t].sent \in Nat /\ job[t].sent < 6 /\ job[t].copy = <<>>
      /\ Lines # {}
  BY <1>1, JobNames DEF ProperJob
<1>3. n \in 1..6 /\ n \in Nat
  BY <1>2
<1>4. /\ step \in Jobs /\ step.sent = n /\ step.copy = <<>>
      /\ step.at = IF n = 6 THEN "copy" ELSE "commands"
      /\ step.alone = lone
  <2> DEFINE at == IF n = Len(DisplayCommands) THEN "copy" ELSE job[t].at
  <2>1. at = IF n = 6 THEN "copy" ELSE "commands"
    BY <1>1, OledHas
  <2>2. step = [job[t] EXCEPT !.sent = n, !.at = at, !.alone = lone] /\ lone \in BOOLEAN
    OBVIOUS
  <2> HIDE DEF at, lone, n, step
  <2>3. step.sent = n /\ step.at = at /\ step.alone = lone /\ step.copy = job[t].copy
    BY <1>2, <2>2 DEF Jobs
  <2>4. step \in Jobs
    BY <1>2, <1>3, <2>1, <2>2 DEF Jobs
  <2> QED
    BY <1>2, <2>1, <2>3, <2>4
<1> HIDE DEF step, lone
<1>5. ProperJob(step) /\ step.at # "rest" /\ step.at \in {"commands", "copy"}
  BY <1>2, <1>3, <1>4 DEF ProperJob
<1>6. others \in SUBSET (Tasks \ {t}) /\ \A u \in others : job[u].at # "rest"
  BY DEF Senders, Sending
<1> HIDE DEF others
<1>7. /\ job' \in [Tasks -> Jobs] /\ \A u \in Tasks : ProperJob(job'[u])
      /\ SameJob(job'[t], step) /\ (job'[t].alone <=> step.alone /\ others = {})
      /\ \A u \in Tasks \ {t} :
           /\ SameJob(job'[u], job[u])
           /\ job'[u].alone <=> job[u].alone /\ u \notin others
  BY <1>1, <1>4, <1>5, <1>6, Met
<1>8. panel' \in Panels
  <2>1. DisplayCommands[n] \in Nat
    BY <1>3, OledHas
  <2>2. panel \in Panels
    BY DEF OledTypes
  <2>3. Receive(panel, DisplayCommands[n]) \in Panels
    BY <2>1, <2>2, Received
  <2> QED
    BY <1>1, <2>2, <2>3
<1>9. /\ disturbed' \in BOOLEAN
      /\ disturbed' <=> disturbed \/ ~job'[t].alone
  BY <1>1 DEF OledTypes
<1>10. lost' \in Nat
  BY <1>1 DEF OledTypes
<1>11. OledTypes'
  <2>1. UNCHANGED buf /\ UNCHANGED last /\ UNCHANGED clean /\ UNCHANGED begun
    BY <1>1
  <2> QED
    BY <1>7, <1>8, <1>9, <1>10, <2>1 DEF OledTypes
<1>12. \A u \in Tasks \ {t} : u \in others <=> Sending(u)
  BY DEF others, Senders
<1>13. job'[t].alone <=> job[t].alone /\ arrives /\ others = {}
  BY <1>4, <1>7 DEF lone
<1> QED
  BY <1>1, <1>3, <1>4, <1>5, <1>7, <1>9, <1>11, <1>12, <1>13 DEF SameJob, others

(* What the panel makes of the picture. *)
LEMMA PictureReceived ==
  ASSUME NEW p, NEW content, NEW wait, p \in Panels, content \in Contents, wait \in Waits
  PROVE  LET s == [ReceiveData(p, content) EXCEPT !.wait = wait]
         IN  /\ s \in Panels /\ s.wait = wait /\ s.cols = p.cols /\ s.pages = p.pages
             /\ s.shifted = p.shifted
             /\ p.cols = <<0, 127>> /\ p.pages = <<0, 7>> /\ p.home = {"col", "page"} =>
                  s.home = {"col", "page"} /\ s.shown = content /\ ~s.garbled
<1> DEFINE set == p.cols = <<0, 127>> /\ p.pages = <<0, 7>> /\ p.home = {"col", "page"}
           r == ReceiveData(p, content)
           s == [r EXCEPT !.wait = wait]
<1>1. r = IF set THEN [p EXCEPT !.shown = content, !.garbled = FALSE]
                 ELSE [p EXCEPT !.garbled = TRUE, !.home = {}]
  BY DEF ReceiveData
<1> HIDE DEF r
<1>2. /\ r \in Panels /\ r.cols = p.cols /\ r.pages = p.pages /\ r.shifted = p.shifted
      /\ set => r.home = p.home /\ r.shown = content /\ ~r.garbled
  <2> HIDE DEF set
  <2>1. CASE set
    <3>1. r = [p EXCEPT !.shown = content, !.garbled = FALSE]
      BY <1>1, <2>1
    <3>2. /\ r.cols = p.cols /\ r.pages = p.pages /\ r.shifted = p.shifted
          /\ r.home = p.home /\ r.shown = content /\ r.garbled = FALSE
      BY <3>1 DEF Panels
    <3>3. r \in Panels
      BY <3>1 DEF Panels
    <3> QED
      BY <3>2, <3>3
  <2>2. CASE ~set
    <3>1. r = [p EXCEPT !.garbled = TRUE, !.home = {}]
      BY <1>1, <2>2
    <3>2. r.cols = p.cols /\ r.pages = p.pages /\ r.shifted = p.shifted
      BY <3>1 DEF Panels
    <3>3. r \in Panels
      BY <3>1 DEF Panels
    <3> QED
      BY <2>2, <3>2, <3>3
  <2> QED
    BY <2>1, <2>2
<1>3. s = [r EXCEPT !.wait = wait]
  OBVIOUS
<1> HIDE DEF s
<1>4. /\ s.wait = wait /\ s.cols = r.cols /\ s.pages = r.pages /\ s.shifted = r.shifted
      /\ s.home = r.home /\ s.shown = r.shown /\ s.garbled = r.garbled
  BY <1>2, <1>3 DEF Panels
<1>5. s \in Panels
  BY <1>2, <1>3 DEF Panels
<1> QED
  BY <1>2, <1>4, <1>5 DEF s, r

(* The picture is sent, or lost. *)
LEMMA DataSent ==
  ASSUME OledTypes, NEW t \in Tasks, NEW arrives \in BOOLEAN, SendData(t, arrives)
  PROVE  LET quiet == job[t].alone /\ arrives /\ Senders(t) = {}
         IN  /\ OledTypes' /\ UNCHANGED <<buf, last>>
             /\ job[t].at = "send" /\ job'[t].at = "rest"
             /\ arrives => \E wait \in {panel.wait, <<>>} :
                  panel' = [ReceiveData(panel, job[t].copy) EXCEPT !.wait = wait]
             /\ ~arrives => panel' = panel
             /\ disturbed' <=> disturbed \/ ~quiet
             /\ clean' = IF ~quiet THEN 0 ELSE IF clean < 2 THEN clean + 1 ELSE 2
             /\ \A u \in Tasks \ {t} :
                  /\ SameJob(job'[u], job[u])
                  /\ job'[u].alone <=> job[u].alone /\ ~Sending(u)
<1> DEFINE quiet  == job[t].alone /\ arrives /\ Senders(t) = {}
           others == Senders(t)
           met    == Meet(t, Rest, others)
<1>1. /\ job[t].at = "send" /\ UNCHANGED <<buf, last, begun>>
      /\ \E wait \in {panel.wait, <<>>} :
           panel' = IF arrives
                    THEN [ReceiveData(panel, job[t].copy) EXCEPT !.wait = wait]
                    ELSE panel
      /\ job' = [met EXCEPT ![t] = Rest]
      /\ disturbed' = (disturbed \/ ~quiet)
      /\ clean' = IF ~quiet THEN 0 ELSE IF clean < 2 THEN clean + 1 ELSE 2
      /\ lost' = IF arrives THEN lost ELSE lost + 1
  BY DEF SendData, Refuses
<1>2. job[t].copy \in Contents
  BY <1>1, JobNames DEF ProperJob
<1>3. /\ \A u \in Tasks \ {t} : u \in others <=> Sending(u)
      /\ t \notin others
  BY DEF Senders
<1>4. \A u \in Tasks \ {t} :
        job'[u] = IF Sending(u) THEN [job[u] EXCEPT !.alone = FALSE] ELSE job[u]
  <2> HIDE DEF others
  <2>1. \A u \in Tasks \ {t} : job'[u] = met[u]
    BY <1>1 DEF Meet
  <2>2. \A u \in Tasks \ {t} :
          met[u] = IF u \in others THEN [job[u] EXCEPT !.alone = FALSE] ELSE job[u]
    BY <1>3 DEF Meet
  <2> QED
    BY <1>3, <2>1, <2>2
<1>5. job'[t] = Rest /\ DOMAIN job' = Tasks /\ job' = [u \in Tasks |-> job'[u]]
  BY <1>1 DEF Meet
<1>6. ASSUME NEW u \in Tasks \ {t}
      PROVE  /\ job'[u] \in Jobs /\ ProperJob(job'[u])
             /\ SameJob(job'[u], job[u])
             /\ job'[u].alone <=> job[u].alone /\ ~Sending(u)
  <2>1. job[u] \in Jobs /\ ProperJob(job[u])
    BY JobNames
  <2>2. CASE Sending(u)
    <3> DEFINE j == job'[u]  k == job[u]
    <3>1. j = [k EXCEPT !.alone = FALSE] /\ k \in Jobs /\ ProperJob(k) /\ k.at # "rest"
      BY <1>4, <2>1, <2>2 DEF Sending
    <3> HIDE DEF j, k
    <3>2. j.alone = FALSE /\ SameJob(j, k)
      BY <3>1 DEF Jobs, SameJob
    <3>3. j \in Jobs
      BY <3>1 DEF Jobs
    <3>4. ProperJob(j)
      BY <3>1, <3>2 DEF ProperJob, SameJob
    <3> QED
      BY <2>2, <3>2, <3>3, <3>4 DEF j, k
  <2>3. CASE ~Sending(u)
    <3>1. job'[u] = job[u]
      BY <1>4, <2>3
    <3> QED
      BY <2>1, <2>3, <3>1 DEF SameJob
  <2> QED
    BY <2>2, <2>3
<1>7. job' \in [Tasks -> Jobs] /\ \A u \in Tasks : ProperJob(job'[u])
  <2>1. \A u \in Tasks : job'[u] \in Jobs /\ ProperJob(job'[u])
    BY <1>5, <1>6, RestIsJob
  <2> QED
    BY <1>5, <2>1
<1>8. panel' \in Panels
  <2>1. panel \in Panels /\ panel.wait \in Waits /\ <<>> \in Waits
    BY DEF OledTypes, Panels, Waits
  <2>2. PICK wait \in Waits :
           panel' = IF arrives
                    THEN [ReceiveData(panel, job[t].copy) EXCEPT !.wait = wait]
                    ELSE panel
    BY <1>1, <2>1
  <2>3. [ReceiveData(panel, job[t].copy) EXCEPT !.wait = wait] \in Panels
    BY <1>2, <2>1, PictureReceived
  <2> QED
    BY <2>1, <2>2, <2>3
<1> HIDE DEF quiet
<1>9. disturbed' \in BOOLEAN /\ (disturbed' <=> disturbed \/ ~quiet)
  BY <1>1 DEF OledTypes
<1>10. clean' \in {0, 1, 2} /\ lost' \in Nat
  BY <1>1 DEF OledTypes
<1>11. OledTypes'
  <2>1. UNCHANGED buf /\ UNCHANGED last /\ UNCHANGED begun
    BY <1>1
  <2> QED
    BY <1>7, <1>8, <1>9, <1>10, <2>1 DEF OledTypes
<1>12. /\ arrives => \E wait \in {panel.wait, <<>>} :
                  panel' = [ReceiveData(panel, job[t].copy) EXCEPT !.wait = wait]
       /\ ~arrives => panel' = panel
  BY <1>1
<1> QED
  BY <1>1, <1>5, <1>6, <1>9, <1>11, <1>12, RestIsJob DEF quiet

(* The updates of the lines. *)

(* A step that neither draws nor begins to. *)
LEMMA SendsKeepLines ==
  ASSUME LineInd, UNCHANGED <<buf, last>>,
         \A u \in Tasks :
           /\ Drawing(u)' <=> Drawing(u)
           /\ Drawing(u) => SameJob(job'[u], job[u]) /\ (job'[u].alone <=> job[u].alone)
  PROVE  LineInd'
<1>1. DrawersMeet'
  BY DEF LineInd, DrawersMeet, SameJob
<1>2. LineIsClear'
  BY DEF LineInd, LineIsClear, Drawing, SameJob
<1>3. LinesIndependent'
  BY DEF LineInd, LinesIndependent, SameJob
<1> QED
  BY <1>1, <1>2, <1>3 DEF LineInd

(* An update begins: no line loses one that draws on it. *)
LEMMA UpdateKeepsLines ==
  ASSUME OledTypes, LineInd, NEW t \in Tasks, NEW line \in Lines, NEW text \in Texts,
         Update(t, line, text)
  PROVE  LineInd'
<1>1. /\ UNCHANGED <<buf, last>>
      /\ job[t].at = "rest" /\ job'[t].at = "clear" /\ job'[t].line = line
      /\ job'[t].alone =>
           \A u \in Tasks \ {t} : ~(Drawing(u) /\ job[u].line = line)
      /\ \A u \in Tasks \ {t} :
           /\ SameJob(job'[u], job[u])
           /\ job'[u].alone => job[u].alone
           /\ Drawing(u) /\ job[u].line = line => ~job'[u].alone
  BY UpdateBegins
<1>2. \A u \in Tasks \ {t} : (Drawing(u)' <=> Drawing(u)) /\ job'[u].line = job[u].line
                             /\ job'[u].at = job[u].at
  BY <1>1 DEF Drawing, SameJob
<1>3. DrawersMeet'
  <2>1. SUFFICES ASSUME NEW u \in Tasks, NEW v \in Tasks, u # v,
                        Drawing(u)', Drawing(v)', job'[u].line = job'[v].line
                 PROVE  ~job'[u].alone
    BY DEF DrawersMeet
  <2>2. CASE u = t
    BY <1>1, <1>2, <2>1, <2>2
  <2>3. CASE u # t /\ v = t
    BY <1>1, <1>2, <2>1, <2>3
  <2>4. CASE u # t /\ v # t
    BY <1>1, <1>2, <2>1, <2>4 DEF LineInd, DrawersMeet
  <2> QED
    BY <2>2, <2>3, <2>4
<1>4. LineIsClear'
  BY <1>1, <1>2 DEF LineInd, LineIsClear
<1>5. LinesIndependent'
  <2>1. ~Drawing(t)
    BY <1>1 DEF Drawing
  <2>2. \A l \in Lines :
          (\A u \in Tasks : Drawing(u)' => job'[u].line # l)
             => \A u \in Tasks : Drawing(u) => job[u].line # l
    BY <1>2, <2>1
  <2> QED
    BY <1>1, <2>2 DEF LineInd, LinesIndependent
<1> QED
  BY <1>3, <1>4, <1>5 DEF LineInd

(* A line is cleared. *)
LEMMA ClearKeepsLines ==
  ASSUME OledTypes, LineInd, NEW t \in Tasks, ClearLine(t)
  PROVE  LineInd'
<1>1. /\ last' = last
      /\ job[t].at = "clear" /\ job'[t].at = "draw" /\ job'[t].line = job[t].line
      /\ job'[t].alone = job[t].alone
      /\ job[t].line \in Lines /\ buf'[job[t].line] = {}
      /\ \A l \in Lines : l # job[t].line => buf'[l] = buf[l]
      /\ \A u \in Tasks \ {t} : job'[u] = job[u]
  BY LineCleared
<1>2. \A u \in Tasks : (Drawing(u)' <=> Drawing(u)) /\ job'[u].line = job[u].line
                       /\ job'[u].alone = job[u].alone
  BY <1>1 DEF Drawing
<1>3. DrawersMeet'
  BY <1>2 DEF LineInd, DrawersMeet
<1>4. LineIsClear'
  <2>1. SUFFICES ASSUME NEW u \in Tasks, job'[u].at = "draw", job'[u].alone
                 PROVE  buf'[job'[u].line] = {}
    BY DEF LineIsClear
  <2>2. CASE job'[u].line = job[t].line
    BY <1>1, <2>2
  <2>3. CASE job'[u].line # job[t].line
    <3>1. u # t /\ job'[u] = job[u]
      BY <1>1, <2>3
    <3>2. job[u].line \in Lines /\ buf[job[u].line] = {}
      BY <2>1, <3>1, JobNames DEF LineInd, LineIsClear, ProperJob
    <3> QED
      BY <1>1, <2>3, <3>1, <3>2
  <2> QED
    BY <2>2, <2>3
<1>5. LinesIndependent'
  <2>1. SUFFICES ASSUME NEW l \in Lines, last[l] # -1,
                        \A u \in Tasks : Drawing(u)' => job'[u].line # l
                 PROVE  buf'[l] = {last[l]}
    BY <1>1 DEF LinesIndependent
  <2>2. l # job[t].line
    BY <1>1, <2>1 DEF Drawing
  <2>3. \A u \in Tasks : Drawing(u) => job[u].line # l
    BY <1>2, <2>1
  <2> QED
    BY <1>1, <2>1, <2>2, <2>3 DEF LineInd, LinesIndependent
<1> QED
  BY <1>3, <1>4, <1>5 DEF LineInd

(* A text is drawn: on a line of its own it is the only one. *)
LEMMA DrawKeepsLines ==
  ASSUME OledTypes, LineInd, NEW t \in Tasks, DrawString(t)
  PROVE  LineInd'
<1>1. /\ job[t].at = "draw" /\ job'[t].at = "commands"
      /\ job[t].line \in Lines /\ job[t].text \in Texts
      /\ buf'[job[t].line] = buf[job[t].line] \cup {job[t].text}
      /\ last'[job[t].line] = IF job[t].alone THEN job[t].text ELSE -1
      /\ \A l \in Lines : l # job[t].line => buf'[l] = buf[l] /\ last'[l] = last[l]
      /\ \A u \in Tasks \ {t} : job'[u] = job[u]
  BY TextDrawn
<1>2. ~Drawing(t)' /\ Drawing(t)
  BY <1>1 DEF Drawing
<1>3. \A u \in Tasks : Drawing(u)' => u # t /\ Drawing(u) /\ job'[u] = job[u]
  BY <1>1, <1>2 DEF Drawing
<1>4. DrawersMeet'
  BY <1>3 DEF LineInd, DrawersMeet
<1>5. LineIsClear'
  <2>1. SUFFICES ASSUME NEW u \in Tasks, job'[u].at = "draw", job'[u].alone
                 PROVE  buf'[job'[u].line] = {}
    BY DEF LineIsClear
  <2>2. u # t /\ job'[u] = job[u] /\ Drawing(u)
    BY <1>1, <2>1 DEF Drawing
  <2>3. job[u].line # job[t].line
    BY <1>2, <2>1, <2>2 DEF LineInd, DrawersMeet
  <2>4. job[u].line \in Lines /\ buf[job[u].line] = {}
    BY <2>1, <2>2, JobNames DEF LineInd, LineIsClear, ProperJob
  <2> QED
    BY <1>1, <2>2, <2>3, <2>4
<1>6. LinesIndependent'
  <2>1. SUFFICES ASSUME NEW l \in Lines, last'[l] # -1,
                        \A u \in Tasks : Drawing(u)' => job'[u].line # l
                 PROVE  buf'[l] = {last'[l]}
    BY DEF LinesIndependent
  <2>2. CASE l = job[t].line
    <3>1. job[t].alone /\ last'[l] = job[t].text
      BY <1>1, <2>1, <2>2
    <3>2. buf[l] = {}
      BY <1>1, <2>2, <3>1 DEF LineInd, LineIsClear
    <3> QED
      BY <1>1, <2>2, <3>1, <3>2
  <2>3. CASE l # job[t].line
    <3>1. \A u \in Tasks : Drawing(u) => job[u].line # l
      <4>1. ASSUME NEW u \in Tasks, Drawing(u), u # t PROVE job[u].line # l
        BY <1>1, <2>1, <4>1 DEF Drawing
      <4> QED
        BY <2>3, <4>1
    <3> QED
      BY <1>1, <2>1, <2>3, <3>1 DEF LineInd, LinesIndependent
  <2> QED
    BY <2>2, <2>3
<1> QED
  BY <1>4, <1>5, <1>6 DEF LineInd

(* What a step of a display leaves alone: the buffer and those that draw.  *)
Sends(t) ==
  /\ buf' = buf /\ last' = last
  /\ job[t].at \in {"commands", "copy", "send"}
  /\ job'[t].at \in {"commands", "copy", "send", "rest"}
  /\ \A u \in Tasks \ {t} :
       \/ job'[u] = job[u]
       \/ /\ SameJob(job'[u], job[u])
          /\ job'[u].alone <=> job[u].alone /\ ~Sending(u)

(* All of them do. *)
LEMMA DisplaySends ==
  ASSUME OledTypes, NEW t \in Tasks,
         CopyBuffer(t) \/ \E arrives \in BOOLEAN : SendCommand(t, arrives) \/ SendData(t, arrives)
  PROVE  Sends(t)
<1>1. CASE CopyBuffer(t)
  BY <1>1, BufferCopied DEF Sends
<1>2. ASSUME NEW arrives \in BOOLEAN, SendCommand(t, arrives)
      PROVE  Sends(t)
  BY <1>2, CommandSent DEF Sends
<1>3. ASSUME NEW arrives \in BOOLEAN, SendData(t, arrives)
      PROVE  Sends(t)
  BY <1>3, DataSent DEF Sends
<1> QED
  BY <1>1, <1>2, <1>3

(* What is sent draws nothing. *)
LEMMA SendingKeepsLines ==
  ASSUME OledTypes, LineInd, NEW t \in Tasks,
         CopyBuffer(t) \/ \E arrives \in BOOLEAN : SendCommand(t, arrives) \/ SendData(t, arrives)
  PROVE  LineInd'
<1>1. Sends(t)
  BY DisplaySends
<1>2. ~Drawing(t) /\ ~Drawing(t)'
  BY <1>1 DEF Sends, Drawing
<1>3. ASSUME NEW u \in Tasks, u # t
      PROVE  /\ Drawing(u)' <=> Drawing(u)
             /\ Drawing(u) => SameJob(job'[u], job[u]) /\ (job'[u].alone <=> job[u].alone)
  <2>1. SameJob(job'[u], job[u])
    BY <1>1, <1>3 DEF Sends, SameJob
  <2>2. Drawing(u)' <=> Drawing(u)
    BY <2>1 DEF Drawing, SameJob
  <2>3. Drawing(u) => ~Sending(u)
    BY DEF Drawing, Sending
  <2> QED
    BY <1>1, <1>3, <2>1, <2>2, <2>3 DEF Sends
<1> QED
  BY <1>1, <1>2, <1>3, SendsKeepLines DEF Sends

(* What the panel is sent. *)

(* A task that draws, or has drawn, and has not sent anything yet.         *)
LEMMA UpdatesKeepPanel ==
  ASSUME PanelInd, NEW t \in Tasks, UNCHANGED <<panel, disturbed, clean>>,
         ~Sending(t), Busy(t)', job'[t].at # "send",
         Sending(t)' => job'[t].sent = 0 /\ job'[t].alone,
         \A u \in Tasks \ {t} :
           /\ SameJob(job'[u], job[u])
           /\ Sending(u) => (job'[u].alone <=> job[u].alone)
  PROVE  PanelInd'
<1>1. /\ \A u \in Tasks \ {t} : Sending(u)' <=> Sending(u)
      /\ \A u \in Tasks \ {t} : job'[u].sent = job[u].sent
  BY DEF Sending, SameJob
<1>2. Between' <=> Between
  BY <1>1 DEF Between
<1>3. LoneSends'
  <2>1. SUFFICES ASSUME NEW u \in Tasks, NEW v \in Tasks, u # v, Sending(u)', Sending(v)',
                        job'[u].alone, 0 < job'[u].sent
                 PROVE  job'[v].sent = 0
    BY DEF LoneSends
  <2>2. u # t
    BY <2>1
  <2> QED
    BY <1>1, <2>1, <2>2 DEF PanelInd, LoneSends
<1>4. LoneIsHeard'
  <2>1. SUFFICES ASSUME NEW u \in Tasks, Sending(u)', job'[u].alone, 0 < job'[u].sent
                 PROVE  (WaitsFor(job[u].sent) /\ (0 < clean => HasTaken(job[u].sent)))'
    BY DEF LoneIsHeard
  <2>2. u # t
    BY <2>1
  <2>3. WaitsFor(job[u].sent) /\ (0 < clean => HasTaken(job[u].sent))
    BY <1>1, <2>1, <2>2 DEF PanelInd, LoneIsHeard
  <2>4. job'[u].sent = job[u].sent
    BY <1>1, <2>2
  <2> QED
    BY <2>3, <2>4 DEF WaitsFor, HasTaken
<1>5. PanelIsSet'
  BY <1>2 DEF PanelInd, PanelIsSet
<1>6. ShowsOrWill'
  BY DEF ShowsOrWill
<1>7. CopyIsNew'
  <2>1. SUFFICES ASSUME NEW u \in Tasks, job'[u].at = "send", job'[u].alone,
                        job'[u].copy # buf'
                 PROVE  \E v \in Tasks \ {u} : Busy(v)'
    BY DEF CopyIsNew
  <2>2. CASE u # t
    BY <2>2
  <2>3. CASE u = t
    BY <2>1, <2>3
  <2> QED
    BY <2>2, <2>3
<1>8. Undisturbed'
  BY <1>1 DEF PanelInd, Undisturbed
<1> QED
  BY <1>3, <1>4, <1>5, <1>6, <1>7, <1>8 DEF PanelInd

(* The buffer is copied as it is. *)
LEMMA CopyKeepsPanel ==
  ASSUME OledTypes, PanelInd, NEW t \in Tasks, CopyBuffer(t)
  PROVE  PanelInd'
<1>1. /\ UNCHANGED <<buf, panel, last, disturbed, clean>>
      /\ job[t].at = "copy" /\ job'[t].at = "send" /\ job'[t].sent = job[t].sent
      /\ job'[t].alone = job[t].alone /\ job'[t].copy = buf
      /\ \A u \in Tasks \ {t} : job'[u] = job[u]
  BY BufferCopied
<1>2. \A u \in Tasks : (Sending(u)' <=> Sending(u)) /\ job'[u].sent = job[u].sent
                       /\ job'[u].alone = job[u].alone /\ (Busy(u)' <=> Busy(u))
  BY <1>1 DEF Sending, Drawing, Busy
<1>3. Between' <=> Between
  BY <1>2 DEF Between
<1>4. LoneSends'
  BY <1>2 DEF PanelInd, LoneSends
<1>5. LoneIsHeard'
  <2>1. SUFFICES ASSUME NEW u \in Tasks, Sending(u)', job'[u].alone, 0 < job'[u].sent
                 PROVE  (WaitsFor(job[u].sent) /\ (0 < clean => HasTaken(job[u].sent)))'
    BY DEF LoneIsHeard
  <2>2. WaitsFor(job[u].sent) /\ (0 < clean => HasTaken(job[u].sent))
    BY <1>2, <2>1 DEF PanelInd, LoneIsHeard
  <2>3. job'[u].sent = job[u].sent
    BY <1>2
  <2> QED
    BY <1>1, <2>2, <2>3 DEF WaitsFor, HasTaken
<1>6. PanelIsSet'
  BY <1>1, <1>3 DEF PanelInd, PanelIsSet
<1>7. ShowsOrWill'
  BY <1>1, <1>2, <1>3 DEF PanelInd, ShowsOrWill
<1>8. CopyIsNew'
  <2>1. SUFFICES ASSUME NEW u \in Tasks, job'[u].at = "send", job'[u].alone,
                        job'[u].copy # buf'
                 PROVE  \E v \in Tasks \ {u} : Busy(v)'
    BY DEF CopyIsNew
  <2>2. u # t
    BY <1>1, <2>1
  <2> QED
    BY <1>1, <1>2, <2>1, <2>2 DEF PanelInd, CopyIsNew
<1>9. Undisturbed'
  BY <1>1, <1>2 DEF PanelInd, Undisturbed
<1> QED
  BY <1>4, <1>5, <1>6, <1>7, <1>8, <1>9 DEF PanelInd

(* One more command of a task that has met no other. *)
LEMMA PanelHears ==
  ASSUME OledTypes, NEW n \in 0..5,
         panel' = Receive(panel, DisplayCommands[n + 1]), clean' = clean,
         0 < n => WaitsFor(n) /\ (0 < clean => HasTaken(n)),
         n = 0 /\ 0 < clean => panel.wait = <<>>
  PROVE  /\ WaitsFor(n + 1)' /\ (0 < clean => HasTaken(n + 1)')
         /\ 0 < clean /\ ~panel.shifted => ~panel'.shifted
<1> DEFINE p == panel
           s == panel'
<1>1. p \in Panels
  BY DEF OledTypes
<1>2. /\ n \in {0, 1, 2, 3, 4, 5}
      /\ ColumnAddr = 33 /\ PageAddr = 34
  BY OledHas
<1>3. ASSUME NEW byte \in Nat, s = Receive(p, byte)
      PROVE  /\ p.wait = <<>> =>
                  /\ s.cols = p.cols /\ s.pages = p.pages /\ s.home = p.home
                  /\ byte \in {33, 34} => s.wait = <<byte>> /\ s.shifted = p.shifted
                  /\ byte = 127 => s.wait = <<>>
                  /\ byte \notin {33, 34, 127} => s.wait = <<>> /\ s.shifted = p.shifted
             /\ \A a \in Nat : p.wait = <<a>> =>
                  /\ s.wait = <<a, byte>> /\ s.shifted = p.shifted
                  /\ s.cols = p.cols /\ s.pages = p.pages /\ s.home = p.home
             /\ \A a, b \in Nat : p.wait = <<a, b>> =>
                  /\ s.wait = <<>> /\ s.shifted = p.shifted
                  /\ a = 33 => s.cols = <<b, byte>> /\ s.home = p.home \cup {"col"}
                               /\ s.pages = p.pages
                  /\ a # 33 => s.pages = <<b % 8, byte % 8>> /\ s.home = p.home \cup {"page"}
                               /\ s.cols = p.cols
  BY <1>1, <1>3, Received
<1> HIDE DEF p, s
<1>4. CASE n = 0
  <2>1. s = Receive(p, 33)
    BY <1>4, OledHas DEF p, s
  <2>2. p.wait = <<>> \/ (\E a \in Nat : p.wait = <<a>>)
        \/ \E a, b \in Nat : p.wait = <<a, b>>
    BY <1>1 DEF Panels, Waits
  <2>3. s.wait = <<33>> \/ s.wait = <<>> \/ \E a \in Nat : s.wait = <<a, 33>>
    BY <1>3, <2>1, <2>2
  <2>4. 0 < clean => s.wait = <<33>> /\ s.shifted = p.shifted
    BY <1>3, <1>4, <2>1 DEF p
  <2> QED
    BY <1>2, <1>4, <2>3, <2>4 DEF WaitsFor, HasTaken, p, s
<1>5. CASE n = 1
  <2>1. s = Receive(p, 0)
    BY <1>5, OledHas DEF p, s
  <2>2. p.wait = <<33>> \/ p.wait = <<>> \/ \E a \in Nat : p.wait = <<a, 33>>
    BY <1>2, <1>5 DEF WaitsFor, p
  <2>3. s.wait = <<33, 0>> \/ s.wait = <<>>
    BY <1>3, <2>1, <2>2
  <2>4. 0 < clean => s.wait = <<33, 0>> /\ s.shifted = p.shifted
    BY <1>2, <1>3, <1>5, <2>1 DEF HasTaken, p
  <2> QED
    BY <1>2, <1>5, <2>3, <2>4 DEF WaitsFor, HasTaken, p, s
<1>6. CASE n = 2
  <2>1. s = Receive(p, 127)
    BY <1>6, OledHas DEF p, s
  <2>2. p.wait = <<33, 0>> \/ p.wait = <<>>
    BY <1>2, <1>6 DEF WaitsFor, p
  <2>3. s.wait = <<>>
    BY <1>3, <2>1, <2>2
  <2>4. 0 < clean => s.cols = <<0, 127>> /\ "col" \in s.home /\ s.shifted = p.shifted
    BY <1>2, <1>3, <1>6, <2>1 DEF HasTaken, p
  <2> QED
    BY <1>2, <1>6, <2>3, <2>4 DEF WaitsFor, HasTaken, p, s
<1>7. CASE n = 3
  <2>1. s = Receive(p, 34)
    BY <1>7, OledHas DEF p, s
  <2>2. p.wait = <<>>
    BY <1>7 DEF WaitsFor, p
  <2>3. s.wait = <<34>> /\ s.shifted = p.shifted /\ s.cols = p.cols /\ s.home = p.home
    BY <1>3, <2>1, <2>2
  <2>4. 0 < clean => p.cols = <<0, 127>> /\ "col" \in p.home
    BY <1>7 DEF HasTaken, p
  <2> QED
    BY <1>2, <1>7, <2>3, <2>4 DEF WaitsFor, HasTaken, p, s
<1>8. CASE n = 4
  <2>1. s = Receive(p, 0)
    BY <1>8, OledHas DEF p, s
  <2>2. p.wait = <<34>>
    BY <1>2, <1>8 DEF WaitsFor, p
  <2>3. s.wait = <<34, 0>> /\ s.shifted = p.shifted /\ s.cols = p.cols /\ s.home = p.home
    BY <1>3, <2>1, <2>2
  <2>4. 0 < clean => p.cols = <<0, 127>> /\ "col" \in p.home
    BY <1>8 DEF HasTaken, p
  <2> QED
    BY <1>2, <1>8, <2>3, <2>4 DEF WaitsFor, HasTaken, p, s
<1>9. CASE n = 5
  <2>1. s = Receive(p, 7)
    BY <1>9, OledHas DEF p, s
  <2>2. p.wait = <<34, 0>>
    BY <1>2, <1>9 DEF WaitsFor, p
  <2>3. /\ s.wait = <<>> /\ s.shifted = p.shifted /\ s.cols = p.cols
        /\ s.home = p.home \cup {"page"} /\ s.pages = <<0 % 8, 7 % 8>>
    BY <1>3, <2>1, <2>2
  <2>4. 0 % 8 = 0 /\ 7 % 8 = 7
    OBVIOUS
  <2>5. 0 < clean => p.cols = <<0, 127>> /\ "col" \in p.home
    BY <1>9 DEF HasTaken, p
  <2> QED
    BY <1>2, <1>9, <2>3, <2>4, <2>5 DEF WaitsFor, HasTaken, p, s
<1> QED
  BY <1>2, <1>4, <1>5, <1>6, <1>7, <1>8, <1>9 DEF p, s

(* A command: those that meet are not alone any more. *)
LEMMA CommandKeepsPanel ==
  ASSUME OledTypes, PanelInd, NEW t \in Tasks, NEW arrives \in BOOLEAN,
         SendCommand(t, arrives)
  PROVE  PanelInd'
<1> DEFINE m == job[t].sent
           n == m + 1
<1>1. /\ UNCHANGED <<buf, last, clean>>
      /\ job[t].at = "commands" /\ n \in 1..6
      /\ panel' = IF arrives THEN Receive(panel, DisplayCommands[n]) ELSE panel
      /\ job'[t].at \in {"commands", "copy"} /\ job'[t].sent = n
      /\ job'[t].alone <=> job[t].alone /\ arrives /\ Senders(t) = {}
      /\ disturbed' <=> disturbed \/ ~job'[t].alone
      /\ \A u \in Tasks \ {t} :
           /\ SameJob(job'[u], job[u])
           /\ job'[u].alone <=> job[u].alone /\ ~Sending(u)
  BY CommandSent
<1>2. Sending(t) /\ Sending(t)' /\ job'[t].at # "send" /\ m \in 0..5 /\ 0 < n
  BY <1>1, JobNames DEF Sending
<1>3. \A u \in Tasks \ {t} : (Sending(u)' <=> Sending(u)) /\ job'[u].sent = job[u].sent
  BY <1>1 DEF Sending, SameJob
<1>4. ASSUME NEW u \in Tasks, Sending(u)', job'[u].alone
      PROVE  /\ u = t /\ job[t].alone /\ arrives
             /\ \A v \in Tasks \ {t} : ~Sending(v)
  <2>1. u = t
    BY <1>1, <1>3, <1>4
  <2> QED
    BY <1>1, <1>4, <2>1 DEF Senders
<1>5. ~Between'
  BY <1>1, <1>2 DEF Between
<1>6. LoneSends'
  <2>1. SUFFICES ASSUME NEW u \in Tasks, NEW v \in Tasks, u # v, Sending(u)', Sending(v)',
                        job'[u].alone
                 PROVE  FALSE
    BY DEF LoneSends
  <2>2. u = t /\ ~Sending(v)
    BY <1>4, <2>1
  <2> QED
    BY <1>3, <2>1, <2>2
<1>7. ASSUME job'[t].alone
      PROVE  /\ (WaitsFor(job[t].sent) /\ (0 < clean => HasTaken(job[t].sent)))'
             /\ 0 < clean /\ ~panel.shifted => ~panel'.shifted
  <2>1. job[t].alone /\ arrives /\ \A v \in Tasks \ {t} : ~Sending(v)
    BY <1>2, <1>4, <1>7
  <2>2. PICK k \in 0..5 : k = job[t].sent
    BY <1>2
  <2>3. panel' = Receive(panel, DisplayCommands[k + 1]) /\ clean' = clean
    BY <1>1, <2>1, <2>2
  <2>4. 0 < k => WaitsFor(k) /\ (0 < clean => HasTaken(k))
    BY <1>2, <2>1, <2>2 DEF PanelInd, LoneIsHeard
  <2>5. k = 0 /\ 0 < clean => panel.wait = <<>>
    <3>1. k = 0 => Between
      BY <2>1, <2>2 DEF Between
    <3> QED
      BY <3>1 DEF PanelInd, PanelIsSet
  <2>6. /\ WaitsFor(k + 1)' /\ (0 < clean => HasTaken(k + 1)')
        /\ 0 < clean /\ ~panel.shifted => ~panel'.shifted
    BY <2>3, <2>4, <2>5, PanelHears
  <2>7. job'[t].sent = k + 1
    BY <1>1, <2>2
  <2> QED
    BY <2>3, <2>6, <2>7 DEF WaitsFor, HasTaken
<1>8. LoneIsHeard'
  BY <1>4, <1>7 DEF LoneIsHeard
<1>9. PanelIsSet' /\ ShowsOrWill'
  BY <1>5 DEF PanelIsSet, ShowsOrWill
<1>10. CopyIsNew'
  <2>1. \A u \in Tasks : job'[u].at = "send" => ~job'[u].alone
    BY <1>2, <1>4 DEF Sending
  <2> QED
    BY <2>1 DEF CopyIsNew
<1>11. Undisturbed'
  <2>1. SUFFICES ASSUME ~disturbed, job'[t].alone
                 PROVE  /\ clean' = 2 /\ ~panel'.shifted
                        /\ \A u \in Tasks : Sending(u)' => job'[u].alone
    BY <1>1 DEF Undisturbed
  <2>2. clean = 2 /\ ~panel.shifted
    BY <2>1 DEF PanelInd, Undisturbed
  <2>3. \A u \in Tasks : Sending(u)' => u = t
    BY <1>2, <1>3, <1>4, <2>1
  <2> QED
    BY <1>1, <1>7, <2>1, <2>2, <2>3
<1> QED
  BY <1>6, <1>8, <1>9, <1>10, <1>11 DEF PanelInd

(* The picture: a display that met no other leaves the panel waiting for a *)
(* command, and the second one leaves it as it should be.                  *)
LEMMA DataKeepsPanel ==
  ASSUME OledTypes, PanelInd, NEW t \in Tasks, NEW arrives \in BOOLEAN,
         SendData(t, arrives)
  PROVE  PanelInd'
<1> DEFINE quiet == job[t].alone /\ arrives /\ Senders(t) = {}
<1>1. /\ UNCHANGED <<buf, last>>
      /\ job[t].at = "send" /\ job'[t].at = "rest"
      /\ arrives => \E wait \in {panel.wait, <<>>} :
           panel' = [ReceiveData(panel, job[t].copy) EXCEPT !.wait = wait]
      /\ ~arrives => panel' = panel
      /\ disturbed' <=> disturbed \/ ~quiet
      /\ clean' = IF ~quiet THEN 0 ELSE IF clean < 2 THEN clean + 1 ELSE 2
      /\ \A u \in Tasks \ {t} :
           /\ SameJob(job'[u], job[u])
           /\ job'[u].alone <=> job[u].alone /\ ~Sending(u)
  BY DataSent
<1>2. /\ Sending(t) /\ ~Sending(t)' /\ job[t].sent = 6 /\ job[t].copy \in Contents
      /\ clean \in {0, 1, 2} /\ panel \in Panels
  BY <1>1, JobNames DEF Sending, ProperJob, OledTypes
<1>3. \A u \in Tasks \ {t} : (Sending(u)' <=> Sending(u)) /\ (Drawing(u)' <=> Drawing(u))
  BY <1>1 DEF Sending, Drawing, SameJob
<1>4. \A u \in Tasks : Sending(u)' => ~job'[u].alone
  BY <1>1, <1>2, <1>3
<1>5. LoneSends' /\ LoneIsHeard'
  BY <1>4 DEF LoneSends, LoneIsHeard
<1>6. CopyIsNew'
  <2>1. \A u \in Tasks : job'[u].at = "send" => ~job'[u].alone
    BY <1>4 DEF Sending
  <2> QED
    BY <2>1 DEF CopyIsNew
<1>7. ASSUME quiet
      PROVE  /\ panel'.wait = <<>> /\ panel'.shifted = panel.shifted
             /\ 0 < clean => /\ panel'.cols = <<0, 127>> /\ panel'.pages = <<0, 7>>
                             /\ panel'.home = {"col", "page"} /\ ~panel'.garbled
                             /\ panel'.shown = job[t].copy
             /\ job[t].copy = buf \/ \E u \in Tasks : Busy(u)'
             /\ \A u \in Tasks : ~Sending(u)'
  <2>1. panel.wait = <<>> /\ (0 < clean => HasTaken(6))
    BY <1>2, <1>7 DEF PanelInd, LoneIsHeard, WaitsFor
  <2>2. panel' = [ReceiveData(panel, job[t].copy) EXCEPT !.wait = <<>>]
    BY <1>1, <1>7, <2>1
  <2>3. <<>> \in Waits
    BY DEF Waits
  <2>4. /\ panel'.wait = <<>> /\ panel'.cols = panel.cols /\ panel'.pages = panel.pages
        /\ panel'.shifted = panel.shifted
        /\ panel.cols = <<0, 127>> /\ panel.pages = <<0, 7>> /\ panel.home = {"col", "page"}
             => panel'.home = {"col", "page"} /\ panel'.shown = job[t].copy /\ ~panel'.garbled
    BY <1>2, <2>2, <2>3, PictureReceived
  <2>5. 0 < clean => /\ panel.cols = <<0, 127>> /\ panel.pages = <<0, 7>>
                     /\ panel.home = {"col", "page"}
    <3>1. panel.home \subseteq {"col", "page"}
      BY <1>2 DEF Panels
    <3> QED
      BY <2>1, <3>1 DEF HasTaken
  <2>6. \A u \in Tasks \ {t} : ~Sending(u)
    BY <1>7 DEF Senders
  <2>7. job[t].copy = buf \/ \E u \in Tasks : Busy(u)'
    <3>1. job[t].copy = buf \/ \E u \in Tasks \ {t} : Busy(u)
      BY <1>1, <1>7 DEF PanelInd, CopyIsNew
    <3> QED
      BY <1>3, <3>1 DEF Busy
  <2>8. \A u \in Tasks : ~Sending(u)'
    BY <1>2, <1>3, <2>6
  <2> QED
    BY <2>4, <2>5, <2>7, <2>8
<1>8. 0 < clean' => quiet
  BY <1>1
<1>9. clean' = 2 => 0 < clean
  BY <1>1, <1>2
<1>10. PanelIsSet' /\ ShowsOrWill'
  <2>1. 0 < clean' => panel'.wait = <<>>
    BY <1>7, <1>8
  <2>2. clean' = 2 => /\ panel'.cols = <<0, 127>> /\ panel'.pages = <<0, 7>>
                      /\ panel'.home = {"col", "page"} /\ ~panel'.garbled
                      /\ panel'.shown = buf' \/ \E u \in Tasks : Busy(u)'
    BY <1>1, <1>7, <1>8, <1>9
  <2> QED
    BY <2>1, <2>2 DEF PanelIsSet, ShowsOrWill
<1>11. Undisturbed'
  <2>1. SUFFICES ASSUME ~disturbed, quiet
                 PROVE  /\ clean' = 2 /\ ~panel'.shifted
                        /\ \A u \in Tasks : Sending(u)' => job'[u].alone
    BY <1>1 DEF Undisturbed
  <2>2. clean = 2 /\ ~panel.shifted
    BY <2>1 DEF PanelInd, Undisturbed
  <2> QED
    BY <1>1, <1>7, <2>1, <2>2
<1> QED
  BY <1>5, <1>6, <1>10, <1>11 DEF PanelInd

-----------------------------------------------------------------------------
(* The invariant of the screen is inductive. *)

(* It holds of the device that was just loaded. *)
LEMMA ScreenStarts ==
  ASSUME OledInit
  PROVE  ScreenInd
<1>1. \A t \in Tasks : job[t] = Rest /\ job[t].at = "rest" /\ ~Drawing(t) /\ ~Sending(t)
  BY RestIsJob DEF OledInit, Drawing, Sending
<1>2. buf \in Contents /\ \A l \in Lines : buf[l] = {SelfTest} /\ last[l] = SelfTest
  BY DEF OledInit, Contents
<1>3. /\ panel = Powered(buf) /\ Powered(buf) \in Panels
      /\ panel.wait = <<>> /\ panel.cols = <<0, 127>> /\ panel.pages = <<0, 7>>
      /\ panel.home = {"col", "page"} /\ panel.shifted = FALSE /\ panel.garbled = FALSE
      /\ panel.shown = buf
  <2>1. <<>> \in Waits /\ <<0, 127>> \in Nat \X Nat /\ <<0, 7>> \in Nat \X Nat
    BY DEF Waits
  <2>2. Powered(buf) \in Panels
    BY <1>2, <2>1 DEF Powered, Panels
  <2> QED
    BY <2>2 DEF OledInit, Powered
<1>4. OledTypes
  <2>1. job \in [Tasks -> Jobs] /\ \A t \in Tasks : ProperJob(job[t])
    BY RestIsJob DEF OledInit
  <2>2. last \in [Lines -> Texts \cup {SelfTest, -1}]
    BY DEF OledInit
  <2>3. disturbed \in BOOLEAN /\ clean \in {0, 1, 2} /\ begun \in Nat /\ lost \in Nat
    BY DEF OledInit
  <2> QED
    BY <1>2, <1>3, <2>1, <2>2, <2>3 DEF OledTypes
<1>5. LineInd
  BY <1>1, <1>2 DEF LineInd, DrawersMeet, LineIsClear, LinesIndependent
<1>6. PanelInd
  <2>1. clean = 2
    BY DEF OledInit
  <2>2. LoneSends /\ LoneIsHeard /\ CopyIsNew
    BY <1>1 DEF LoneSends, LoneIsHeard, CopyIsNew
  <2> QED
    BY <1>1, <1>3, <2>1, <2>2 DEF PanelInd, PanelIsSet, ShowsOrWill, Undisturbed
<1> QED
  BY <1>4, <1>5, <1>6 DEF ScreenInd

(* And every step keeps it. *)
LEMMA ScreenGoesOn ==
  ASSUME ScreenInd, OledNext
  PROVE  ScreenInd'
<1> USE DEF ScreenInd
<1>1. ASSUME NEW t \in Tasks, NEW line \in Lines, NEW text \in Texts, Update(t, line, text)
      PROVE  ScreenInd'
  <2>1. /\ OledTypes' /\ UNCHANGED <<panel, disturbed, clean>>
        /\ job[t].at = "rest" /\ job'[t].at = "clear"
        /\ \A u \in Tasks \ {t} :
             /\ SameJob(job'[u], job[u])
             /\ ~Drawing(u) => (job'[u].alone <=> job[u].alone)
    BY <1>1, UpdateBegins
  <2>2. /\ ~Sending(t) /\ ~Sending(t)' /\ Busy(t)'
        /\ \A u \in Tasks : Sending(u) => ~Drawing(u)
    BY <2>1 DEF Sending, Drawing, Busy
  <2>3. PanelInd'
    BY <2>1, <2>2, UpdatesKeepPanel
  <2> QED
    BY <1>1, <2>1, <2>3, UpdateKeepsLines
<1>2. ASSUME NEW t \in Tasks, ClearLine(t)
      PROVE  ScreenInd'
  <2>1. /\ OledTypes' /\ UNCHANGED <<panel, disturbed, clean>>
        /\ job[t].at = "clear" /\ job'[t].at = "draw"
        /\ \A u \in Tasks \ {t} : job'[u] = job[u]
    BY <1>2, LineCleared
  <2>2. /\ ~Sending(t) /\ ~Sending(t)' /\ Busy(t)'
        /\ \A u \in Tasks \ {t} : SameJob(job'[u], job[u])
    BY <2>1 DEF Sending, Drawing, Busy, SameJob
  <2>3. PanelInd'
    BY <2>1, <2>2, UpdatesKeepPanel
  <2> QED
    BY <1>2, <2>1, <2>3, ClearKeepsLines
<1>3. ASSUME NEW t \in Tasks, DrawString(t)
      PROVE  ScreenInd'
  <2>1. /\ OledTypes' /\ UNCHANGED <<panel, disturbed, clean>>
        /\ job[t].at = "draw" /\ job'[t].at = "commands" /\ job'[t].sent = 0
        /\ job'[t].alone = TRUE
        /\ \A u \in Tasks \ {t} : job'[u] = job[u]
    BY <1>3, TextDrawn
  <2>2. /\ ~Sending(t) /\ Busy(t)'
        /\ \A u \in Tasks \ {t} : SameJob(job'[u], job[u])
    BY <2>1 DEF Sending, Drawing, Busy, SameJob
  <2>3. PanelInd'
    BY <2>1, <2>2, UpdatesKeepPanel
  <2> QED
    BY <1>3, <2>1, <2>3, DrawKeepsLines
<1>4. ASSUME NEW t \in Tasks, CopyBuffer(t)
      PROVE  ScreenInd'
  BY <1>4, BufferCopied, SendingKeepsLines, CopyKeepsPanel
<1>5. ASSUME NEW t \in Tasks, NEW arrives \in BOOLEAN, SendCommand(t, arrives)
      PROVE  ScreenInd'
  BY <1>5, CommandSent, SendingKeepsLines, CommandKeepsPanel
<1>6. ASSUME NEW t \in Tasks, NEW arrives \in BOOLEAN, SendData(t, arrives)
      PROVE  ScreenInd'
  BY <1>6, DataSent, SendingKeepsLines, DataKeepsPanel
<1> QED
  BY <1>1, <1>2, <1>3, <1>4, <1>5, <1>6 DEF OledNext

(* It speaks of nothing but the variables of the screen. *)
LEMMA ScreenRests ==
  ASSUME ScreenInd, UNCHANGED oledVars
  PROVE  ScreenInd'
<1>1. UNCHANGED <<buf, job, panel, last, disturbed, clean, begun, lost>>
  BY DEF oledVars
<1>2. OledTypes'
  BY <1>1 DEF ScreenInd, OledTypes
<1>3. LineInd'
  BY <1>1 DEF ScreenInd, LineInd, DrawersMeet, LineIsClear, LinesIndependent, Drawing
<1>4. LoneSends' /\ LoneIsHeard'
  BY <1>1 DEF ScreenInd, PanelInd, LoneSends, LoneIsHeard, Sending, WaitsFor, HasTaken
<1>5. PanelIsSet' /\ ShowsOrWill'
  BY <1>1 DEF ScreenInd, PanelInd, PanelIsSet, ShowsOrWill, Between, Busy, Sending, Drawing
<1>6. CopyIsNew' /\ Undisturbed'
  BY <1>1 DEF ScreenInd, PanelInd, CopyIsNew, Undisturbed, Busy, Sending, Drawing
<1> QED
  BY <1>2, <1>3, <1>4, <1>5, <1>6 DEF ScreenInd, PanelInd

(* Of the device: nothing the processes do to the keypad touches it.       *)
THEOREM ScreenSafe == DeviceSpec => []ScreenInd
<1>1. DeviceInit => ScreenInd
  BY ScreenStarts DEF DeviceInit
<1>2. ScreenInd /\ [DeviceNext]_deviceVars => ScreenInd'
  BY ScreenGoesOn, ScreenRests DEF DeviceNext, UsesKeypad, UsesScreen, deviceVars
<1> QED
  BY <1>1, <1>2, PTL DEF DeviceSpec

(* A line shows its last update, whatever the other lines' updates do      *)
(* meanwhile (oled_update_..._status).                                     *)
THEOREM LinesAreIndependent == DeviceSpec => []LinesIndependent
<1>1. ScreenInd => LinesIndependent
  BY DEF ScreenInd, LineInd
<1> QED
  BY <1>1, ScreenSafe, PTL

(* The panel shows the buffer when no update is under way, unless displays *)
(* have overlapped or sends were lost; two undisturbed displays bring the  *)
(* picture back (oled_display, oled_command, oled_data).                   *)
THEOREM PanelIsRight == DeviceSpec => []PanelShows
<1>1. ScreenInd => PanelShows
  <2>1. SUFFICES ASSUME ScreenInd, AllRest, ~disturbed \/ clean = 2
                 PROVE  /\ ~panel.garbled /\ panel.shown = buf
                        /\ ~disturbed => ~panel.shifted
    BY DEF PanelShows
  <2>2. \A t \in Tasks : ~Busy(t) /\ ~Sending(t)
    BY <2>1, RestIsJob DEF AllRest, Busy, Drawing, Sending
  <2>3. Between
    BY <2>2 DEF Between
  <2>4. clean = 2 /\ (~disturbed => ~panel.shifted)
    BY <2>1 DEF ScreenInd, PanelInd, Undisturbed
  <2>5. ~panel.garbled
    BY <2>1, <2>3, <2>4 DEF ScreenInd, PanelInd, PanelIsSet
  <2>6. panel.shown = buf
    BY <2>1, <2>2, <2>3, <2>4 DEF ScreenInd, PanelInd, ShowsOrWill
  <2> QED
    BY <2>4, <2>5, <2>6
<1> QED
  BY <1>1, ScreenSafe, PTL

-----------------------------------------------------------------------------
(* The type invariant of the device follows from the two.                  *)

(* A finger presses one key at most. *)
LEMMA OneKeyIsDown ==
  ASSUME MatrixTypes
  PROVE  Cardinality(down) <= 1
<1>1. CASE down = {}
  BY <1>1, FS_EmptySet
<1>2. CASE down # {}
  <2>1. PICK k \in down : TRUE
    BY <1>2
  <2>2. down = {k}
    BY <2>1 DEF MatrixTypes
  <2> QED
    BY <2>2, FS_Singleton
<1> QED
  BY <1>1, <1>2

(* A task that sends nothing has not sent all the commands. *)
LEMMA SentIsPlace ==
  ASSUME OledTypes, NEW t \in Tasks
  PROVE  /\ job[t].at \in {"rest", "clear", "draw", "commands", "copy", "send"}
         /\ (job[t].at \in {"copy", "send"}) <=> (job[t].sent = Len(DisplayCommands))
         /\ (job[t].copy # <<>>) <=> (job[t].at = "send")
<1>1. job[t] \in Jobs /\ ProperJob(job[t]) /\ job[t].sent \in Nat
  BY JobNames
<1>2. job[t].at \in {"rest", "clear", "draw", "commands", "copy", "send"}
  BY <1>1 DEF Jobs
<1>3. job[t].at = "rest" => job[t].sent = 0
  BY <1>1, RestIsJob DEF ProperJob
<1>4. (job[t].at \in {"copy", "send"}) <=> (job[t].sent = 6)
  BY <1>1, <1>2, <1>3 DEF ProperJob
<1>5. job[t].at = "send" => job[t].copy # <<>>
  <2>1. SUFFICES ASSUME job[t].at = "send", job[t].copy = <<>>
                 PROVE  FALSE
    OBVIOUS
  <2>2. job[t].copy \in Contents /\ Lines # {}
    BY <1>1, <2>1 DEF ProperJob
  <2>3. DOMAIN job[t].copy = Lines /\ DOMAIN <<>> = {}
    BY <2>2 DEF Contents
  <2> QED
    BY <2>1, <2>2, <2>3
<1>6. job[t].at # "send" => job[t].copy = <<>>
  BY <1>1 DEF ProperJob
<1> QED
  BY <1>2, <1>4, <1>5, <1>6, OledHas

(* Both halves have their types, at every number of processes, keys and    *)
(* lines (my_ioctl, my_read and my_write).                                 *)
THEOREM DeviceInvHolds == DeviceSpec => []DeviceInv
<1>1. MatrixInd /\ ScreenInd => DeviceTypeOK
  <2>1. SUFFICES ASSUME MatrixTypes, RowsAreRaised, OledTypes
                 PROVE  DeviceTypeOK
    BY DEF MatrixInd, ScanInd, ScreenInd
  <2>2. down \subseteq Keys /\ Cardinality(down) <= 1 /\ low \subseteq 1..Rows
    BY <2>1, OneKeyIsDown DEF MatrixTypes
  <2>3. (\A p \in Scanners : ~Scanning(p)) => low = {}
    BY <2>1 DEF RowsAreRaised
  <2>4. ASSUME NEW p \in Scanners
        PROVE  /\ proc[p].at \in Steps
               /\ proc[p].got \in Keys \cup {Nothing}
               /\ Processing(p) => proc[p].got # Nothing
    <3>1. proc[p] \in Procs /\ Proper(proc[p])
      BY <2>1, StepNames
    <3>2. proc[p].at \in Steps /\ proc[p].got \in Keys \cup {Nothing}
      BY <3>1 DEF Procs
    <3>3. Processing(p) => proc[p].got \in Keys
      BY <3>1 DEF Proper, Processing
    <3> QED
      BY <3>2, <3>3, MatrixHas
  <2>5. {changing, shared} \subseteq BOOLEAN
    BY <2>1 DEF MatrixTypes
  <2>6. buf \in Contents /\ panel.shown \in Contents
    BY <2>1 DEF OledTypes, Panels
  <2> QED
    BY <2>1, <2>2, <2>3, <2>4, <2>5, <2>6, SentIsPlace DEF DeviceTypeOK
<1> QED
  BY <1>1, KeypadSafe, ScreenSafe, TwoStrayByOne, OneStaysInRange, PTL DEF DeviceInv
=============================================================================
