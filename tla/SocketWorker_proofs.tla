------------------------ MODULE SocketWorker_proofs ------------------------
(***************************************************************************)
(* Proofs about SocketWorker, for any set of execution handles and whether *)
(* or not callbacks shut the adapter down.                                 *)
(***************************************************************************)
EXTENDS SocketWorker, TLAPS

\* Steps of Initialize at which StartWorker has stored _running but not Started.
Unannounced == {"create", "failRunning", "storeHandle", "announceStarted"}

\* Holds whatever the callbacks do.
Shape ==
  /\ \A t \in Tasks : pc[t] # "none" => (pc[t] \in StopSteps /\ task[t] = "iterate")
  /\ selfStopped \subseteq Live
  /\ pc[App] \in StartSteps => object = "live"
  /\ object = "closing" => pc[App] \in StopSteps

\* The rest holds until the owner restarts under a self-stopped task.

\* The handle names the only live task.
Identity ==
  /\ \A t \in Live : t = executionHandle \/ (pc[App] = "storeHandle" /\ t = seen)
  /\ executionHandle # NoHandle => executionHandle \in Live
  /\ pc[App] = "storeHandle" =>
       /\ executionHandle = NoHandle
       /\ seen \in Live /\ task[seen] # "clear"
  /\ pc[App] \in {"create", "failRunning", "failHandle", "announceStopped", "release"}
       => Live = {}

\* Who may find _initialized and _running set.
Flags ==
  /\ pc[App] \in StartSteps => ~initialized
  /\ \A t \in Tasks : pc[t] # "none" => initialized
  /\ running => initialized \/ pc[App] \in Unannounced \cup {"setInitialized"}
  /\ pc[App] \in Unannounced \cup {"setInitialized"} =>
       (running \/ pc[App] = "failHandle")
  /\ \A c \in Callers :
       pc[c] \in {"loadHandle", "wait", "announceStopped", "release"} => ~running
  /\ object \in {"gutted", "dead"} => ~initialized

\* A live task is owned by an initialised adapter, being created, or shut down.
Ownership ==
  /\ \A t \in Live : \/ t \in selfStopped
                     \/ initialized
                     \/ pc[App] \in {"storeHandle", "announceStarted", "setInitialized"}
  /\ object = "dead" => Live = {}

\* The last notification agrees with _running and the Stopped still to come.
Announced ==
  /\ \A c \in Callers : wasRunning[c] =>
       /\ pc[c] \in {"loadHandle", "wait", "announceStopped"}
       /\ announced = "started" /\ ~running
       /\ \A d \in Callers : wasRunning[d] => d = c
  /\ running => announced = (IF pc[App] \in Unannounced THEN "stopped" ELSE "started")
  /\ (~running /\ \A c \in Callers : ~wasRunning[c]) => announced = "stopped"

Discipline == Identity /\ Flags /\ Ownership /\ Announced

IInv == TypeOK /\ Shape /\ (~restartedEarly => Discipline)

(* Every step keeps the types of the variables. *)
LEMMA TypingStep ==
  ASSUME TypeOK, [Next]_vars
  PROVE  TypeOK'
<1> USE WorkerAssumption DEF TypeOK, Goto, Callers, TaskStates, StopSteps, StartSteps
<1>1. CASE Initialize
  BY <1>1 DEF Initialize
<1>2. CASE LoadRunning
  BY <1>2 DEF LoadRunning
<1>3. CASE StoreRunning
  BY <1>3 DEF StoreRunning
<1>4. ASSUME NEW t \in Tasks, CreateSucceeds(t) PROVE TypeOK'
  BY <1>4 DEF CreateSucceeds
<1>5. CASE CreateFails
  BY <1>5 DEF CreateFails
<1>6. CASE StartFailsRunning
  BY <1>6 DEF StartFailsRunning
<1>7. CASE StartFailsHandle
  BY <1>7 DEF StartFailsHandle
<1>8. CASE StoreHandle
  BY <1>8 DEF StoreHandle
<1>9. CASE AnnounceStarted
  BY <1>9 DEF AnnounceStarted
<1>10. CASE SetInitialized
  BY <1>10 DEF SetInitialized
<1>11. ASSUME NEW c \in Callers, Shutdown(c) PROVE TypeOK'
  BY <1>11 DEF Shutdown
<1>12. ASSUME NEW c \in Callers, Exchange(c) PROVE TypeOK'
  BY <1>12 DEF Exchange
<1>13. ASSUME NEW c \in Callers, LoadHandle(c) PROVE TypeOK'
  BY <1>13 DEF LoadHandle
<1>14. ASSUME NEW c \in Callers, Wait(c) PROVE TypeOK'
  BY <1>14 DEF Wait
<1>15. ASSUME NEW c \in Callers, AnnounceStopped(c) PROVE TypeOK'
  BY <1>15 DEF AnnounceStopped
<1>16. ASSUME NEW c \in Callers, Release(c) PROVE TypeOK'
  BY <1>16 DEF Release
<1>17. CASE DestroyAdapter
  BY <1>17 DEF DestroyAdapter
<1>18. CASE DestroyBase
  BY <1>18 DEF DestroyBase
<1>19. ASSUME NEW t \in Tasks, CheckRunning(t) PROVE TypeOK'
  BY <1>19 DEF CheckRunning
<1>20. ASSUME NEW t \in Tasks, EndIteration(t) PROVE TypeOK'
  BY <1>20 DEF EndIteration
<1>21. ASSUME NEW t \in Tasks, ClearHandle(t) PROVE TypeOK'
  BY <1>21 DEF ClearHandle
<1>22. ASSUME NEW t \in Tasks, DestroyTask(t) PROVE TypeOK'
  BY <1>22 DEF DestroyTask
<1>23. CASE UNCHANGED vars
  BY <1>23 DEF vars
<1>q. QED
  BY <1>1, <1>2, <1>3, <1>4, <1>5, <1>6, <1>7, <1>8, <1>9, <1>10, <1>11, <1>12, <1>13, <1>14, <1>15, <1>16, <1>17, <1>18, <1>19, <1>20, <1>21, <1>22, <1>23 DEF Next, Start, StopStep, TaskStep

(* Every step keeps what holds whatever the callbacks do. *)
LEMMA ShapeStep ==
  ASSUME TypeOK, Shape, [Next]_vars
  PROVE  Shape'
<1> USE WorkerAssumption DEF TypeOK, Shape, Goto, Callers, Live, StopSteps, StartSteps
<1>1. CASE Initialize
  BY <1>1 DEF Initialize
<1>2. CASE LoadRunning
  BY <1>2 DEF LoadRunning
<1>3. CASE StoreRunning
  BY <1>3 DEF StoreRunning
<1>4. ASSUME NEW t \in Tasks, CreateSucceeds(t) PROVE Shape'
  BY <1>4 DEF CreateSucceeds
<1>5. CASE CreateFails
  BY <1>5 DEF CreateFails
<1>6. CASE StartFailsRunning
  BY <1>6 DEF StartFailsRunning
<1>7. CASE StartFailsHandle
  BY <1>7 DEF StartFailsHandle
<1>8. CASE StoreHandle
  BY <1>8 DEF StoreHandle
<1>9. CASE AnnounceStarted
  BY <1>9 DEF AnnounceStarted
<1>10. CASE SetInitialized
  BY <1>10 DEF SetInitialized
<1>11. ASSUME NEW c \in Callers, Shutdown(c) PROVE Shape'
  BY <1>11 DEF Shutdown
<1>12. ASSUME NEW c \in Callers, Exchange(c) PROVE Shape'
  BY <1>12 DEF Exchange
<1>13. ASSUME NEW c \in Callers, LoadHandle(c) PROVE Shape'
  BY <1>13 DEF LoadHandle
<1>14. ASSUME NEW c \in Callers, Wait(c) PROVE Shape'
  BY <1>14 DEF Wait
<1>15. ASSUME NEW c \in Callers, AnnounceStopped(c) PROVE Shape'
  BY <1>15 DEF AnnounceStopped
<1>16. ASSUME NEW c \in Callers, Release(c) PROVE Shape'
  BY <1>16 DEF Release
<1>17. CASE DestroyAdapter
  BY <1>17 DEF DestroyAdapter
<1>18. CASE DestroyBase
  BY <1>18 DEF DestroyBase
<1>19. ASSUME NEW t \in Tasks, CheckRunning(t) PROVE Shape'
  BY <1>19 DEF CheckRunning
<1>20. ASSUME NEW t \in Tasks, EndIteration(t) PROVE Shape'
  BY <1>20 DEF EndIteration
<1>21. ASSUME NEW t \in Tasks, ClearHandle(t) PROVE Shape'
  BY <1>21 DEF ClearHandle
<1>22. ASSUME NEW t \in Tasks, DestroyTask(t) PROVE Shape'
  BY <1>22 DEF DestroyTask
<1>23. CASE UNCHANGED vars
  BY <1>23 DEF vars
<1>q. QED
  BY <1>1, <1>2, <1>3, <1>4, <1>5, <1>6, <1>7, <1>8, <1>9, <1>10, <1>11, <1>12, <1>13, <1>14, <1>15, <1>16, <1>17, <1>18, <1>19, <1>20, <1>21, <1>22, <1>23 DEF Next, Start, StopStep, TaskStep

(* A step that is no early restart keeps the handle naming the only live task. *)
LEMMA IdentityStep ==
  ASSUME TypeOK, Shape, ~restartedEarly, Discipline, ~restartedEarly', [Next]_vars
  PROVE  Identity'
<1> USE WorkerAssumption DEF TypeOK, Shape, Discipline, Identity, Flags, Ownership, Goto, Callers, Live, StopSteps, StartSteps, Unannounced
<1>1. CASE Initialize
  BY <1>1 DEF Initialize
<1>2. CASE LoadRunning
  BY <1>2 DEF LoadRunning
<1>3. CASE StoreRunning
  BY <1>3 DEF StoreRunning
<1>4. ASSUME NEW t \in Tasks, CreateSucceeds(t) PROVE Identity'
  BY <1>4 DEF CreateSucceeds
<1>5. CASE CreateFails
  BY <1>5 DEF CreateFails
<1>6. CASE StartFailsRunning
  BY <1>6 DEF StartFailsRunning
<1>7. CASE StartFailsHandle
  BY <1>7 DEF StartFailsHandle
<1>8. CASE StoreHandle
  BY <1>8 DEF StoreHandle
<1>9. CASE AnnounceStarted
  BY <1>9 DEF AnnounceStarted
<1>10. CASE SetInitialized
  BY <1>10 DEF SetInitialized
<1>11. ASSUME NEW c \in Callers, Shutdown(c) PROVE Identity'
  BY <1>11 DEF Shutdown
<1>12. ASSUME NEW c \in Callers, Exchange(c) PROVE Identity'
  BY <1>12 DEF Exchange
<1>13. ASSUME NEW c \in Callers, LoadHandle(c) PROVE Identity'
  BY <1>13 DEF LoadHandle
<1>14. ASSUME NEW c \in Callers, Wait(c) PROVE Identity'
  BY <1>14 DEF Wait
<1>15. ASSUME NEW c \in Callers, AnnounceStopped(c) PROVE Identity'
  BY <1>15 DEF AnnounceStopped
<1>16. ASSUME NEW c \in Callers, Release(c) PROVE Identity'
  BY <1>16 DEF Release
<1>17. CASE DestroyAdapter
  BY <1>17 DEF DestroyAdapter
<1>18. CASE DestroyBase
  BY <1>18 DEF DestroyBase
<1>19. ASSUME NEW t \in Tasks, CheckRunning(t) PROVE Identity'
  BY <1>19 DEF CheckRunning
<1>20. ASSUME NEW t \in Tasks, EndIteration(t) PROVE Identity'
  BY <1>20 DEF EndIteration
<1>21. ASSUME NEW t \in Tasks, ClearHandle(t) PROVE Identity'
  BY <1>21 DEF ClearHandle
<1>22. ASSUME NEW t \in Tasks, DestroyTask(t) PROVE Identity'
  BY <1>22 DEF DestroyTask
<1>23. CASE UNCHANGED vars
  BY <1>23 DEF vars
<1>q. QED
  BY <1>1, <1>2, <1>3, <1>4, <1>5, <1>6, <1>7, <1>8, <1>9, <1>10, <1>11, <1>12, <1>13, <1>14, <1>15, <1>16, <1>17, <1>18, <1>19, <1>20, <1>21, <1>22, <1>23 DEF Next, Start, StopStep, TaskStep

(* It keeps the reading of _initialized and _running. *)
LEMMA FlagsStep ==
  ASSUME TypeOK, Shape, ~restartedEarly, Discipline, ~restartedEarly', [Next]_vars
  PROVE  Flags'
<1> USE WorkerAssumption DEF TypeOK, Shape, Discipline, Identity, Flags, Goto, Callers, Live, StopSteps, StartSteps, Unannounced
<1>1. CASE Initialize
  BY <1>1 DEF Initialize
<1>2. CASE LoadRunning
  BY <1>2 DEF LoadRunning
<1>3. CASE StoreRunning
  BY <1>3 DEF StoreRunning
<1>4. ASSUME NEW t \in Tasks, CreateSucceeds(t) PROVE Flags'
  BY <1>4 DEF CreateSucceeds
<1>5. CASE CreateFails
  BY <1>5 DEF CreateFails
<1>6. CASE StartFailsRunning
  BY <1>6 DEF StartFailsRunning
<1>7. CASE StartFailsHandle
  BY <1>7 DEF StartFailsHandle
<1>8. CASE StoreHandle
  BY <1>8 DEF StoreHandle
<1>9. CASE AnnounceStarted
  BY <1>9 DEF AnnounceStarted
<1>10. CASE SetInitialized
  BY <1>10 DEF SetInitialized
<1>11. ASSUME NEW c \in Callers, Shutdown(c) PROVE Flags'
  BY <1>11 DEF Shutdown
<1>12. ASSUME NEW c \in Callers, Exchange(c) PROVE Flags'
  BY <1>12 DEF Exchange
<1>13. ASSUME NEW c \in Callers, LoadHandle(c) PROVE Flags'
  BY <1>13 DEF LoadHandle
<1>14. ASSUME NEW c \in Callers, Wait(c) PROVE Flags'
  BY <1>14 DEF Wait
<1>15. ASSUME NEW c \in Callers, AnnounceStopped(c) PROVE Flags'
  BY <1>15 DEF AnnounceStopped
<1>16. ASSUME NEW c \in Callers, Release(c) PROVE Flags'
  BY <1>16 DEF Release
<1>17. CASE DestroyAdapter
  BY <1>17 DEF DestroyAdapter
<1>18. CASE DestroyBase
  BY <1>18 DEF DestroyBase
<1>19. ASSUME NEW t \in Tasks, CheckRunning(t) PROVE Flags'
  BY <1>19 DEF CheckRunning
<1>20. ASSUME NEW t \in Tasks, EndIteration(t) PROVE Flags'
  BY <1>20 DEF EndIteration
<1>21. ASSUME NEW t \in Tasks, ClearHandle(t) PROVE Flags'
  BY <1>21 DEF ClearHandle
<1>22. ASSUME NEW t \in Tasks, DestroyTask(t) PROVE Flags'
  BY <1>22 DEF DestroyTask
<1>23. CASE UNCHANGED vars
  BY <1>23 DEF vars
<1>q. QED
  BY <1>1, <1>2, <1>3, <1>4, <1>5, <1>6, <1>7, <1>8, <1>9, <1>10, <1>11, <1>12, <1>13, <1>14, <1>15, <1>16, <1>17, <1>18, <1>19, <1>20, <1>21, <1>22, <1>23 DEF Next, Start, StopStep, TaskStep

(* It keeps every live task owned. *)
LEMMA OwnershipStep ==
  ASSUME TypeOK, Shape, ~restartedEarly, Discipline, ~restartedEarly', [Next]_vars
  PROVE  Ownership'
<1> USE WorkerAssumption DEF TypeOK, Shape, Discipline, Identity, Flags, Ownership, Goto, Callers, Live, StopSteps, StartSteps, Unannounced
<1>1. CASE Initialize
  BY <1>1 DEF Initialize
<1>2. CASE LoadRunning
  BY <1>2 DEF LoadRunning
<1>3. CASE StoreRunning
  BY <1>3 DEF StoreRunning
<1>4. ASSUME NEW t \in Tasks, CreateSucceeds(t) PROVE Ownership'
  BY <1>4 DEF CreateSucceeds
<1>5. CASE CreateFails
  BY <1>5 DEF CreateFails
<1>6. CASE StartFailsRunning
  BY <1>6 DEF StartFailsRunning
<1>7. CASE StartFailsHandle
  BY <1>7 DEF StartFailsHandle
<1>8. CASE StoreHandle
  BY <1>8 DEF StoreHandle
<1>9. CASE AnnounceStarted
  BY <1>9 DEF AnnounceStarted
<1>10. CASE SetInitialized
  BY <1>10 DEF SetInitialized
<1>11. ASSUME NEW c \in Callers, Shutdown(c) PROVE Ownership'
  BY <1>11 DEF Shutdown
<1>12. ASSUME NEW c \in Callers, Exchange(c) PROVE Ownership'
  BY <1>12 DEF Exchange
<1>13. ASSUME NEW c \in Callers, LoadHandle(c) PROVE Ownership'
  BY <1>13 DEF LoadHandle
<1>14. ASSUME NEW c \in Callers, Wait(c) PROVE Ownership'
  BY <1>14 DEF Wait
<1>15. ASSUME NEW c \in Callers, AnnounceStopped(c) PROVE Ownership'
  BY <1>15 DEF AnnounceStopped
<1>16. ASSUME NEW c \in Callers, Release(c) PROVE Ownership'
  BY <1>16 DEF Release
<1>17. CASE DestroyAdapter
  BY <1>17 DEF DestroyAdapter
<1>18. CASE DestroyBase
  BY <1>18 DEF DestroyBase
<1>19. ASSUME NEW t \in Tasks, CheckRunning(t) PROVE Ownership'
  BY <1>19 DEF CheckRunning
<1>20. ASSUME NEW t \in Tasks, EndIteration(t) PROVE Ownership'
  BY <1>20 DEF EndIteration
<1>21. ASSUME NEW t \in Tasks, ClearHandle(t) PROVE Ownership'
  BY <1>21 DEF ClearHandle
<1>22. ASSUME NEW t \in Tasks, DestroyTask(t) PROVE Ownership'
  BY <1>22 DEF DestroyTask
<1>23. CASE UNCHANGED vars
  BY <1>23 DEF vars
<1>q. QED
  BY <1>1, <1>2, <1>3, <1>4, <1>5, <1>6, <1>7, <1>8, <1>9, <1>10, <1>11, <1>12, <1>13, <1>14, <1>15, <1>16, <1>17, <1>18, <1>19, <1>20, <1>21, <1>22, <1>23 DEF Next, Start, StopStep, TaskStep

(* It keeps the last notification in agreement with _running. *)
LEMMA AnnouncedStep ==
  ASSUME TypeOK, Shape, ~restartedEarly, Discipline, ~restartedEarly', [Next]_vars
  PROVE  Announced'
<1> USE WorkerAssumption DEF TypeOK, Shape, Discipline, Flags, Announced, Goto, Callers, StopSteps, StartSteps, Unannounced
<1>1. CASE Initialize
  BY <1>1 DEF Initialize
<1>2. CASE LoadRunning
  BY <1>2 DEF LoadRunning
<1>3. CASE StoreRunning
  BY <1>3 DEF StoreRunning
<1>4. ASSUME NEW t \in Tasks, CreateSucceeds(t) PROVE Announced'
  BY <1>4 DEF CreateSucceeds
<1>5. CASE CreateFails
  BY <1>5 DEF CreateFails
<1>6. CASE StartFailsRunning
  BY <1>6 DEF StartFailsRunning
<1>7. CASE StartFailsHandle
  BY <1>7 DEF StartFailsHandle
<1>8. CASE StoreHandle
  BY <1>8 DEF StoreHandle
<1>9. CASE AnnounceStarted
  BY <1>9 DEF AnnounceStarted
<1>10. CASE SetInitialized
  BY <1>10 DEF SetInitialized
<1>11. ASSUME NEW c \in Callers, Shutdown(c) PROVE Announced'
  BY <1>11 DEF Shutdown
<1>12. ASSUME NEW c \in Callers, Exchange(c) PROVE Announced'
  BY <1>12 DEF Exchange
<1>13. ASSUME NEW c \in Callers, LoadHandle(c) PROVE Announced'
  BY <1>13 DEF LoadHandle
<1>14. ASSUME NEW c \in Callers, Wait(c) PROVE Announced'
  BY <1>14 DEF Wait
<1>15. ASSUME NEW c \in Callers, AnnounceStopped(c) PROVE Announced'
  BY <1>15 DEF AnnounceStopped
<1>16. ASSUME NEW c \in Callers, Release(c) PROVE Announced'
  BY <1>16 DEF Release
<1>17. CASE DestroyAdapter
  BY <1>17 DEF DestroyAdapter
<1>18. CASE DestroyBase
  BY <1>18 DEF DestroyBase
<1>19. ASSUME NEW t \in Tasks, CheckRunning(t) PROVE Announced'
  BY <1>19 DEF CheckRunning
<1>20. ASSUME NEW t \in Tasks, EndIteration(t) PROVE Announced'
  BY <1>20 DEF EndIteration
<1>21. ASSUME NEW t \in Tasks, ClearHandle(t) PROVE Announced'
  BY <1>21 DEF ClearHandle
<1>22. ASSUME NEW t \in Tasks, DestroyTask(t) PROVE Announced'
  BY <1>22 DEF DestroyTask
<1>23. CASE UNCHANGED vars
  BY <1>23 DEF vars
<1>q. QED
  BY <1>1, <1>2, <1>3, <1>4, <1>5, <1>6, <1>7, <1>8, <1>9, <1>10, <1>11, <1>12, <1>13, <1>14, <1>15, <1>16, <1>17, <1>18, <1>19, <1>20, <1>21, <1>22, <1>23 DEF Next, Start, StopStep, TaskStep

-----------------------------------------------------------------------------
(* The inductive invariant holds in every reachable state. *)
LEMMA Inductive == Spec => []IInv
<1>1. Init => IInv
  BY WorkerAssumption
     DEF Init, IInv, TypeOK, Shape, Discipline, Identity, Flags, Ownership, Announced,
         Callers, Live, TaskStates, StopSteps, StartSteps, Unannounced
<1>2. IInv /\ [Next]_vars => IInv'
  <2>1. SUFFICES ASSUME IInv, [Next]_vars PROVE IInv'
    OBVIOUS
  <2>2. TypeOK'
    BY <2>1, TypingStep DEF IInv
  <2>3. Shape'
    BY <2>1, ShapeStep DEF IInv
  <2>4. ~restartedEarly' => ~restartedEarly
    BY <2>1 DEF Next, Start, StopStep, TaskStep, vars, Initialize, LoadRunning,
       StoreRunning, CreateSucceeds, CreateFails, StartFailsRunning, StartFailsHandle,
       StoreHandle, AnnounceStarted, SetInitialized, Shutdown, Exchange, LoadHandle, Wait,
       AnnounceStopped, Release, DestroyAdapter, DestroyBase, CheckRunning, EndIteration,
       ClearHandle, DestroyTask
  <2>5. ~restartedEarly' => Discipline'
    <3>1. SUFFICES ASSUME ~restartedEarly' PROVE Discipline'
      OBVIOUS
    <3>2. Identity'
      BY <2>1, <2>4, <3>1, IdentityStep DEF IInv
    <3>3. Flags'
      BY <2>1, <2>4, <3>1, FlagsStep DEF IInv
    <3>4. Ownership'
      BY <2>1, <2>4, <3>1, OwnershipStep DEF IInv
    <3>5. Announced'
      BY <2>1, <2>4, <3>1, AnnouncedStep DEF IInv
    <3> QED
      BY <3>2, <3>3, <3>4, <3>5 DEF Discipline
  <2> QED
    BY <2>2, <2>3, <2>5 DEF IInv
<1> QED
  BY <1>1, <1>2, PTL DEF Spec

(* The variables keep their types. *)
THEOREM Typing == Spec => []TypeOK
<1>1. IInv => TypeOK
  BY DEF IInv
<1> QED
  BY <1>1, Inductive, PTL

(* At most one task runs the adapter's iterations. *)
THEOREM WorkerIsUnique == Spec => []OneWorker
<1>1. IInv => OneWorker
  BY WorkerAssumption DEF IInv, Discipline, Identity, Live, OneWorker
<1> QED
  BY <1>1, Inductive, PTL

(* No task can reach the members once they are destroyed. *)
THEOREM TeardownIsJoined == Spec => []JoinBeforeTeardown
<1>1. IInv => JoinBeforeTeardown
  BY DEF IInv, TypeOK, Shape, Discipline, Ownership, Flags, StartSteps, JoinBeforeTeardown
<1> QED
  BY <1>1, Inductive, PTL

(* The base destructor waits for the task whatever shut the adapter down. *)
THEOREM DestructorJoins == Spec => []BaseDestructorJoins
<1>1. IInv => BaseDestructorJoins
  BY DEF IInv, Discipline, Ownership, BaseDestructorJoins
<1> QED
  BY <1>1, Inductive, PTL

(* Observers see Started and Stopped alternate. *)
THEOREM NotificationsAlternate == Spec => []AnnouncementsAlternate
<1>1. IInv => AnnouncementsAlternate
  BY WorkerAssumption
     DEF IInv, TypeOK, Discipline, Flags, Announced, Unannounced, Callers, AnnouncementsAlternate
<1> QED
  BY <1>1, Inductive, PTL
=============================================================================
