------------------------------- MODULE Servo -------------------------------
(***************************************************************************)
(* The servo of the kernel module (servo.c): the thread that sweeps to the *)
(* unlock position and back, and the clients whose my_write starts it      *)
(* ('S'), stops it ('P') or moves the servo for a test ('C', 'L', 'R').    *)
(* Nothing but servo_task is shared between them, and no lock guards it.   *)
(* The pulse widths are valid for the period, so a hold takes its time: a  *)
(* thread does not end before its creator has stored its pointer.          *)
(***************************************************************************)
EXTENDS Naturals, FiniteSets

CONSTANTS
  Clients,   \* the processes that may write to the device
  Threads    \* the threads there can be at a time

VARIABLES
  users,     \* the clients that have the device open
  task,      \* servo_task: a thread, "NULL" or an error pointer
  thread,    \* what each thread does
  client,    \* what each client does in the driver
  target,    \* what a client has created or gives to kthread_stop
  position   \* the position of the hold that began last

vars == <<users, task, thread, client, target, position>>

ASSUME NoneAssumption == Threads \cap {"NULL", "error"} = {}

ThreadStates == {"free", "ready", "open", "close", "ended"}
ClientStates == {"idle", "created", "failed", "reading", "stopping", "stopped",
                 "crashed", "locking", "testing"}

(* The type invariant. *)
TypeOK ==
  /\ users \in SUBSET Clients
  /\ task \in Threads \cup {"NULL", "error"}
  /\ thread \in [Threads -> ThreadStates]
  /\ client \in [Clients -> ClientStates]
  /\ target \in [Clients -> Threads \cup {"NULL", "error"}]
  /\ position \in {"lock", "unlock", "test"}

(* servo_init has moved to the lock position; servo_autostart is 0. *)
Init ==
  /\ users \in SUBSET Clients \ {{}}
  /\ task = "NULL"
  /\ thread = [t \in Threads |-> "free"]
  /\ client = [c \in Clients |-> "idle"]
  /\ target = [c \in Clients |-> "NULL"]
  /\ position = "lock"

ClientGoes(c, from, to) ==
  /\ c \in users /\ client[c] = from
  /\ client' = [client EXCEPT ![c] = to]
  /\ UNCHANGED users

ThreadGoes(t, from, to) ==
  /\ thread[t] = from
  /\ thread' = [thread EXCEPT ![t] = to]
  /\ UNCHANGED users

-----------------------------------------------------------------------------
(* Mutant: a start does not look whether there is a thread. *)
CreateAnyway(c, t) ==
  /\ ClientGoes(c, "idle", "created")
  /\ ThreadGoes(t, "free", "ready")
  /\ target' = [target EXCEPT ![c] = t]
  /\ UNCHANGED <<task, position>>

(* servo_start_sweep.  With servo_task set it returns at once. *)

Create(c, t) ==
  /\ task = "NULL"
  /\ ClientGoes(c, "idle", "created")
  /\ ThreadGoes(t, "free", "ready")
  /\ target' = [target EXCEPT ![c] = t]
  /\ UNCHANGED <<task, position>>

StoreTask(c) ==
  /\ ClientGoes(c, "created", "idle")
  /\ task' = target[c]
  /\ target' = [target EXCEPT ![c] = "NULL"]
  /\ UNCHANGED <<thread, position>>

CreateFails(c) ==
  /\ task = "NULL"
  /\ ClientGoes(c, "idle", "failed")
  /\ task' = "error"
  /\ UNCHANGED <<thread, target, position>>

ClearError(c) ==
  /\ ClientGoes(c, "failed", "idle")
  /\ task' = "NULL"
  /\ UNCHANGED <<thread, target, position>>

-----------------------------------------------------------------------------
(* servo_stop_sweep: servo_task is read, be it a thread or the error       *)
(* pointer of a start that is about to clear it, ...                       *)
ReadTask(c) ==
  /\ task # "NULL"
  /\ ClientGoes(c, "idle", "reading")
  /\ target' = [target EXCEPT ![c] = task]
  /\ UNCHANGED <<task, thread, position>>

(* ... kthread_stop waits for the thread it is given, and what it does to  *)
(* one that has exited in the meantime is undefined: it may find the       *)
(* remains of the thread and return, or never return; the error pointer it *)
(* cannot dereference, ...                                                 *)
CallStop(c) ==
  /\ \/ /\ target[c] \in Threads /\ thread[target[c]] # "free"
        /\ ClientGoes(c, "reading", "stopping")
     \/ /\ target[c] \in Threads /\ thread[target[c]] = "free"
        /\ \E to \in {"stopped", "crashed"} : ClientGoes(c, "reading", to)
     \/ target[c] = "error" /\ ClientGoes(c, "reading", "crashed")
  /\ UNCHANGED <<task, thread, target, position>>

(* ... then servo_task is cleared, whatever it points to by now.           *)
ForgetTask(c) ==
  /\ ClientGoes(c, "stopped", "locking")
  /\ task' = "NULL"
  /\ target' = [target EXCEPT ![c] = "NULL"]
  /\ position' = "lock"
  /\ UNCHANGED thread

(* Without a thread the servo is only moved to the lock position. *)
LockOnly(c) ==
  /\ task = "NULL"
  /\ ClientGoes(c, "idle", "locking")
  /\ position' = "lock"
  /\ UNCHANGED <<task, thread, target>>

(* 'P' is done when the lock hold is; 'C', 'L' and 'R' hold once more. *)
EndLock(c) ==
  /\ ClientGoes(c, "locking", "idle")
  /\ UNCHANGED <<task, thread, target, position>>

TestMove(c) ==
  /\ ClientGoes(c, "locking", "testing")
  /\ position' = "test"
  /\ UNCHANGED <<task, thread, target>>

EndTest(c) ==
  /\ ClientGoes(c, "testing", "idle")
  /\ UNCHANGED <<task, thread, target, position>>

-----------------------------------------------------------------------------
(* servo_thread_fn *)

Opens(t) ==
  /\ ThreadGoes(t, "ready", "open")
  /\ position' = "unlock"
  /\ UNCHANGED <<task, client, target>>

(* Mutant: a thread that is being stopped quits at the unlock position. *)
ClosesUnlessStopped(t) ==
  IF \E c \in Clients : client[c] = "stopping" /\ target[c] = t
  THEN /\ ThreadGoes(t, "open", "ended")
       /\ task' = "NULL"
       /\ UNCHANGED <<client, target, position>>
  ELSE /\ ThreadGoes(t, "open", "close")
       /\ position' = "lock"
       /\ UNCHANGED <<task, client, target>>

Closes(t) ==
  /\ ThreadGoes(t, "open", "close")
  /\ position' = "lock"
  /\ UNCHANGED <<task, client, target>>

(* It clears servo_task, also when that is another thread by now. *)
Ends(t) ==
  /\ ThreadGoes(t, "close", "ended")
  /\ \A c \in Clients : client[c] = "created" => target[c] # t
  /\ task' = "NULL"
  /\ UNCHANGED <<client, target, position>>

(* Mutant: only a thread that servo_task still points to reports its end. *)
WakeStoppersOfTask(t) ==
  client' = [c \in Clients |->
               IF client[c] = "stopping" /\ target[c] = t /\ task = t
               THEN "stopped" ELSE client[c]]

(* Whoever waits in kthread_stop for this thread goes on. *)
WakeStoppers(t) ==
  client' = [c \in Clients |->
               IF client[c] = "stopping" /\ target[c] = t THEN "stopped"
               ELSE client[c]]

Exits(t) ==
  /\ ThreadGoes(t, "ended", "free")
  /\ WakeStoppers(t)
  /\ UNCHANGED <<task, target, position>>

(* A thread that is stopped before it ran never runs its function. *)
Cancelled(t) ==
  /\ \E c \in Clients : client[c] = "stopping" /\ target[c] = t
  /\ ThreadGoes(t, "ready", "free")
  /\ WakeStoppers(t)
  /\ UNCHANGED <<task, target, position>>

-----------------------------------------------------------------------------
ClientWorks(c) ==
  \/ StoreTask(c) \/ ClearError(c) \/ CallStop(c)
  \/ ForgetTask(c) \/ EndLock(c) \/ EndTest(c)

ClientCalls(c) ==
  \/ \E t \in Threads : Create(c, t)
  \/ CreateFails(c) \/ ReadTask(c) \/ LockOnly(c) \/ TestMove(c)

ThreadRuns(t) == Opens(t) \/ Closes(t) \/ Ends(t) \/ Exits(t) \/ Cancelled(t)

Next ==
  \/ \E c \in Clients : ClientWorks(c) \/ ClientCalls(c)
  \/ \E t \in Threads : ThreadRuns(t)

(* Threads are scheduled and calls in progress go on; nobody has to call.  *)
Fairness ==
  /\ \A c \in Clients : WF_vars(ClientWorks(c))
  /\ \A t \in Threads : WF_vars(ThreadRuns(t))

Spec == Init /\ [][Next]_vars /\ Fairness

-----------------------------------------------------------------------------
Sweeping == {t \in Threads : thread[t] \in {"open", "close"}}
Moving   == {c \in Clients : client[c] \in {"locking", "testing"}}
Live     == {t \in Threads : thread[t] \in {"ready", "open", "close"}}

(* The control loop is the only client. *)
Alone == \E c \in Clients : users = {c}

(* One client keeps the servo to itself: never do a sweep and a move, or   *)
(* two sweeps, drive the line at the same time.                            *)
OneDriver == Alone => Cardinality(Sweeping) + Cardinality(Moving) <= 1

(* However many clients interleave: when nothing drives the servo any      *)
(* more, it was not left at the unlock position.                           *)
NeverLeftOpen == Sweeping = {} /\ Moving = {} => position # "unlock"

(* The servo is at the unlock position only while a thread holds it there. *)
OpenIsHeld == position = "unlock" => \E t \in Threads : thread[t] = "open"

(* The inductive invariant. *)
ServoInv == TypeOK /\ OpenIsHeld

(* A stop ends, unless kthread_stop is given a thread that is gone or an   *)
(* error pointer.                                                          *)
StopEnds ==
  \A c \in Clients :
    client[c] = "reading" ~> client[c] \in {"idle", "crashed"}

Shown == IF Live = {} THEN "idle" ELSE thread[CHOOSE t \in Live : TRUE]

OneSweep == INSTANCE Sweep WITH servo <- Shown

(* What SmartLock assumes of the driver: with one client there is one      *)
(* sweep at a time, it is never cut short, and nothing else drives the     *)
(* line meanwhile.                                                         *)
ImplementsSweep ==
  /\ []OneDriver
  /\ Alone => OneSweep!Init
  /\ [][Alone => OneSweep!Next]_Shown
=============================================================================
