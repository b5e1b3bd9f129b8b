---------------------------- MODULE SocketWorker ----------------------------
(***************************************************************************)
(* The background worker every socket adapter derives from                 *)
(* (ESPressio_SocketWorker.hpp), driven the way the adapters drive it: an  *)
(* Initialize that ends in StartWorker, a Shutdown that calls StopWorker,  *)
(* a destructor that shuts down, destroys the members and then runs the    *)
(* base destructor.                                                        *)
(*                                                                         *)
(* One application thread owns the adapter.  The worker's tasks come and   *)
(* go; a callback that runs on a task may itself call Shutdown, which the  *)
(* code foresees by comparing Current() with the stored handle.            *)
(***************************************************************************)

CONSTANTS Tasks,          \* execution handles the platform can hand out
          App,            \* the application thread that owns the adapter
          NoHandle,       \* InvalidExecutionHandle
          CallbackStops   \* may a callback running on the worker call Shutdown?

ASSUME WorkerAssumption == /\ App \notin Tasks
                           /\ NoHandle \notin Tasks
                           /\ NoHandle # App
                           /\ CallbackStops \in BOOLEAN

Callers == Tasks \cup {App}

VARIABLES
  running,          \* _running
  executionHandle,  \* _executionHandle
  initialized,      \* the adapter's _initialized
  task,             \* where each task is in TaskEntry and Run
  pc,               \* where each caller is in Initialize, Shutdown or ~SocketWorker
  seen,             \* App: the handle Create returned
  wasRunning,       \* each caller's wasRunning of StopWorker
  object,           \* how far the adapter's destruction has got
  announced,        \* the last lifecycle notification observers received
  selfStopped,      \* live tasks from which a Shutdown has run to its end
  restartedEarly    \* the owner restarted while such a task was still alive

vars == <<running, executionHandle, initialized, task, pc, seen, wasRunning,
          object, announced, selfStopped, restartedEarly>>

TaskStates == {"absent", "check", "iterate", "clear", "destroy"}
StopSteps  == {"exchange", "loadHandle", "wait", "announceStopped", "release"}
StartSteps == {"loadRunning", "storeRunning", "create", "failRunning",
               "failHandle", "storeHandle", "announceStarted", "setInitialized"}

\* A task that may still touch the worker object.
Live == {t \in Tasks : task[t] \in {"check", "iterate", "clear"}}

TypeOK ==
  /\ running \in BOOLEAN
  /\ executionHandle \in Tasks \cup {NoHandle}
  /\ initialized \in BOOLEAN
  /\ task \in [Tasks -> TaskStates]
  /\ pc \in [Callers -> {"none"} \cup StopSteps \cup StartSteps]
  /\ seen \in Tasks \cup {NoHandle}
  /\ wasRunning \in [Callers -> BOOLEAN]
  /\ object \in {"live", "closing", "gutted", "dead"}
  /\ announced \in {"started", "stopped"}
  /\ selfStopped \subseteq Tasks
  /\ restartedEarly \in BOOLEAN

Init ==
  /\ running = FALSE
  /\ executionHandle = NoHandle
  /\ initialized = FALSE
  /\ task = [t \in Tasks |-> "absent"]
  /\ pc = [c \in Callers |-> "none"]
  /\ seen = NoHandle
  /\ wasRunning = [c \in Callers |-> FALSE]
  /\ object = "live"
  /\ announced = "stopped"
  /\ selfStopped = {}
  /\ restartedEarly = FALSE

Goto(c, from, to) == pc[c] = from /\ pc' = [pc EXCEPT ![c] = to]

-----------------------------------------------------------------------------
(* Initialize of an adapter and StartWorker, one step per shared access.   *)

\* An initialised adapter returns true at once; otherwise StartWorker runs.
Initialize ==
  /\ object = "live" /\ ~initialized
  /\ Goto(App, "none", "loadRunning")
  /\ UNCHANGED <<running, executionHandle, initialized, task, seen, wasRunning,
                 object, announced, selfStopped, restartedEarly>>

LoadRunning ==
  /\ Goto(App, "loadRunning", IF running THEN "setInitialized" ELSE "storeRunning")
  /\ UNCHANGED <<running, executionHandle, initialized, task, seen, wasRunning,
                 object, announced, selfStopped, restartedEarly>>

StoreRunning ==
  /\ Goto(App, "storeRunning", "create")
  /\ running' = TRUE
  /\ restartedEarly' = (restartedEarly \/ selfStopped # {})
  /\ UNCHANGED <<executionHandle, initialized, task, seen, wasRunning, object,
                 announced, selfStopped>>

\* The task exists, and may run, before its handle is stored.
CreateSucceeds(t) ==
  /\ task[t] = "absent"
  /\ Goto(App, "create", "storeHandle")
  /\ task' = [task EXCEPT ![t] = "check"]
  /\ seen' = t
  /\ UNCHANGED <<running, executionHandle, initialized, wasRunning, object,
                 announced, selfStopped, restartedEarly>>

CreateFails ==
  /\ Goto(App, "create", "failRunning")
  /\ UNCHANGED <<running, executionHandle, initialized, task, seen, wasRunning,
                 object, announced, selfStopped, restartedEarly>>

StartFailsRunning ==
  /\ Goto(App, "failRunning", "failHandle")
  /\ running' = FALSE
  /\ UNCHANGED <<executionHandle, initialized, task, seen, wasRunning, object,
                 announced, selfStopped, restartedEarly>>

\* StartFailed is notified and Initialize returns false.
StartFailsHandle ==
  /\ Goto(App, "failHandle", "none")
  /\ executionHandle' = NoHandle
  /\ UNCHANGED <<running, initialized, task, seen, wasRunning, object,
                 announced, selfStopped, restartedEarly>>

\* Mutation: the handle stored is Current(), the thread that created the task.
StoreHandleOfCaller ==
  /\ Goto(App, "storeHandle", "announceStarted")
  /\ executionHandle' = App
  /\ seen' = NoHandle
  /\ UNCHANGED <<running, initialized, task, wasRunning, object, announced,
                 selfStopped, restartedEarly>>

StoreHandle ==
  /\ Goto(App, "storeHandle", "announceStarted")
  /\ executionHandle' = seen
  /\ seen' = NoHandle
  /\ UNCHANGED <<running, initialized, task, wasRunning, object, announced,
                 selfStopped, restartedEarly>>

AnnounceStarted ==
  /\ Goto(App, "announceStarted", "setInitialized")
  /\ announced' = "started"
  /\ UNCHANGED <<running, executionHandle, initialized, task, seen, wasRunning,
                 object, selfStopped, restartedEarly>>

SetInitialized ==
  /\ Goto(App, "setInitialized", "none")
  /\ initialized' = TRUE
  /\ UNCHANGED <<running, executionHandle, task, seen, wasRunning, object,
                 announced, selfStopped, restartedEarly>>

-----------------------------------------------------------------------------
(* Shutdown of an adapter and StopWorker.  The owner calls it while the    *)
(* object is live; a task calls it from a callback inside an iteration.    *)

Shutdown(c) ==
  /\ initialized
  /\ IF c = App THEN object = "live" ELSE CallbackStops /\ task[c] = "iterate"
  /\ Goto(c, "none", "exchange")
  /\ UNCHANGED <<running, executionHandle, initialized, task, seen, wasRunning,
                 object, announced, selfStopped, restartedEarly>>

\* Mutation: _running is stored, and taken for set, without an exchange.
ExchangeBlindly(c) ==
  /\ Goto(c, "exchange", "loadHandle")
  /\ wasRunning' = [wasRunning EXCEPT ![c] = TRUE]
  /\ running' = FALSE
  /\ UNCHANGED <<executionHandle, initialized, task, seen, object, announced,
                 selfStopped, restartedEarly>>

Exchange(c) ==
  /\ Goto(c, "exchange", "loadHandle")
  /\ wasRunning' = [wasRunning EXCEPT ![c] = running]
  /\ running' = FALSE
  /\ UNCHANGED <<executionHandle, initialized, task, seen, object, announced,
                 selfStopped, restartedEarly>>

\* Mutation: StopWorker does not wait.
LoadHandleWithoutWait(c) ==
  /\ Goto(c, "loadHandle", "announceStopped")
  /\ UNCHANGED <<running, executionHandle, initialized, task, seen, wasRunning,
                 object, announced, selfStopped, restartedEarly>>

\* Mutation: StopWorker waits for its own task.
LoadHandleWaitsForItself(c) ==
  /\ Goto(c, "loadHandle", IF executionHandle # NoHandle THEN "wait" ELSE "announceStopped")
  /\ UNCHANGED <<running, executionHandle, initialized, task, seen, wasRunning,
                 object, announced, selfStopped, restartedEarly>>

LoadHandle(c) ==
  /\ Goto(c, "loadHandle",
          IF executionHandle \notin {NoHandle, c} THEN "wait" ELSE "announceStopped")
  /\ UNCHANGED <<running, executionHandle, initialized, task, seen, wasRunning,
                 object, announced, selfStopped, restartedEarly>>

\* The polling loop ends when the handle is seen invalid.
Wait(c) ==
  /\ executionHandle = NoHandle
  /\ Goto(c, "wait", "announceStopped")
  /\ UNCHANGED <<running, executionHandle, initialized, task, seen, wasRunning,
                 object, announced, selfStopped, restartedEarly>>

AnnounceStopped(c) ==
  /\ Goto(c, "announceStopped", "release")
  /\ announced' = IF wasRunning[c] THEN "stopped" ELSE announced
  /\ wasRunning' = [wasRunning EXCEPT ![c] = FALSE]
  /\ UNCHANGED <<running, executionHandle, initialized, task, seen, object,
                 selfStopped, restartedEarly>>

\* StopWorker has returned: the rest of Shutdown, or of the base destructor.
Release(c) ==
  /\ Goto(c, "release", "none")
  /\ IF c = App /\ object = "gutted"
     THEN object' = "dead" /\ UNCHANGED <<initialized, selfStopped>>
     ELSE /\ initialized' = FALSE
          /\ object' = IF c = App /\ object = "closing" THEN "gutted" ELSE object
          /\ selfStopped' = IF c = App THEN selfStopped ELSE selfStopped \cup {c}
  /\ UNCHANGED <<running, executionHandle, task, seen, wasRunning, announced, restartedEarly>>

-----------------------------------------------------------------------------
(* Destruction: ~Adapter is Shutdown, the members follow, then             *)
(* ~SocketWorker is StopWorker.                                            *)

\* Mutation: the adapter's destructor does not call Shutdown.
DestroyAdapterWithoutShutdown ==
  /\ object = "live"
  /\ Goto(App, "none", "none")
  /\ object' = "gutted"
  /\ UNCHANGED <<running, executionHandle, initialized, task, seen, wasRunning,
                 announced, selfStopped, restartedEarly>>

DestroyAdapter ==
  /\ object = "live"
  /\ Goto(App, "none", IF initialized THEN "exchange" ELSE "none")
  /\ object' = IF initialized THEN "closing" ELSE "gutted"
  /\ UNCHANGED <<running, executionHandle, initialized, task, seen, wasRunning,
                 announced, selfStopped, restartedEarly>>

\* Mutation: ~SocketWorker does not call StopWorker.
DestroyBaseWithoutStop ==
  /\ object = "gutted"
  /\ Goto(App, "none", "release")
  /\ UNCHANGED <<running, executionHandle, initialized, task, seen, wasRunning,
                 object, announced, selfStopped, restartedEarly>>

DestroyBase ==
  /\ object = "gutted"
  /\ Goto(App, "none", "exchange")
  /\ UNCHANGED <<running, executionHandle, initialized, task, seen, wasRunning,
                 object, announced, selfStopped, restartedEarly>>

-----------------------------------------------------------------------------
(* TaskEntry and Run.                                                      *)

CheckRunning(t) ==
  /\ task[t] = "check"
  /\ task' = [task EXCEPT ![t] = IF running THEN "iterate" ELSE "clear"]
  /\ UNCHANGED <<running, executionHandle, initialized, pc, seen, wasRunning,
                 object, announced, selfStopped, restartedEarly>>

\* OnWorkerIteration has returned and the task has slept or yielded.
EndIteration(t) ==
  /\ task[t] = "iterate" /\ pc[t] = "none"
  /\ task' = [task EXCEPT ![t] = "check"]
  /\ UNCHANGED <<running, executionHandle, initialized, pc, seen, wasRunning,
                 object, announced, selfStopped, restartedEarly>>

ClearHandle(t) ==
  /\ task[t] = "clear"
  /\ task' = [task EXCEPT ![t] = "destroy"]
  /\ executionHandle' = NoHandle
  /\ selfStopped' = selfStopped \ {t}
  /\ UNCHANGED <<running, initialized, pc, seen, wasRunning, object, announced, restartedEarly>>

\* Destroy(Current()): the platform may hand the handle out again.
DestroyTask(t) ==
  /\ task[t] = "destroy"
  /\ task' = [task EXCEPT ![t] = "absent"]
  /\ UNCHANGED <<running, executionHandle, initialized, pc, seen, wasRunning,
                 object, announced, selfStopped, restartedEarly>>

-----------------------------------------------------------------------------
Start == \/ Initialize \/ LoadRunning \/ StoreRunning
         \/ (\E t \in Tasks : CreateSucceeds(t)) \/ CreateFails
         \/ StartFailsRunning \/ StartFailsHandle
         \/ StoreHandle \/ AnnounceStarted \/ SetInitialized

StopStep(c) == Exchange(c) \/ LoadHandle(c) \/ Wait(c) \/ AnnounceStopped(c) \/ Release(c)

TaskStep(t) == CheckRunning(t) \/ EndIteration(t) \/ ClearHandle(t) \/ DestroyTask(t)

Next == \/ Start
        \/ \E c \in Callers : Shutdown(c) \/ StopStep(c)
        \/ DestroyAdapter \/ DestroyBase
        \/ \E t \in Tasks : TaskStep(t)

Spec == Init /\ [][Next]_vars

\* The scheduler runs every task, callbacks return, and a call once made runs on.
Fairness == /\ \A t \in Tasks : WF_vars(TaskStep(t))
            /\ \A c \in Callers : WF_vars(StopStep(c))
            /\ WF_vars(DestroyBase)

FairSpec == Spec /\ Fairness

-----------------------------------------------------------------------------
(* The iterations of every adapter assume that a single task runs them.    *)
(* Shutdown joins that task, or, on the task itself, leaves it to end by   *)
(* itself: as long as the owner does not start again before it has, no two *)
(* tasks are in Run at the same time.                                      *)
OneWorker == ~restartedEarly => \A t, u \in Live : t = u

(* When the adapter's members are destroyed no task can reach them, unless *)
(* a callback shut the adapter down and its task has not left Run yet      *)
(* (Shutdown of the destructor then returns at its _initialized guard).    *)
JoinBeforeTeardown ==
  (object \in {"gutted", "dead"} /\ ~restartedEarly /\ selfStopped = {}) => Live = {}

(* ~SocketWorker waits for the task even after a Shutdown from a callback. *)
BaseDestructorJoins == (object = "dead" /\ ~restartedEarly) => Live = {}

(* Observers see Started and Stopped alternate, one Stopped per Started,   *)
(* even when the owner and a callback shut down at the same time.          *)
AnnouncementsAlternate ==
  ~restartedEarly =>
    /\ pc[App] = "announceStarted" => announced = "stopped"
    /\ \A c \in Callers :
         (wasRunning[c] /\ pc[c] = "announceStopped") => announced = "started"

(* Every StopWorker returns, because the handle a caller waits on is       *)
(* cleared when its task leaves Run; only an early restart can leave a     *)
(* handle behind that no task will clear.                                  *)
StopReturns == \A c \in Callers : pc[c] = "exchange" ~> (pc[c] = "none" \/ restartedEarly)
=============================================================================
