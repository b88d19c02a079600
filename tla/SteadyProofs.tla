---------------------------- MODULE SteadyProofs ----------------------------
(***************************************************************************)
(* Proofs about EtcdScheduler where the faults are restricted further: the *)
(* process does not die either.  Its tasks, its record in ZooKeeper and    *)
(* the slaves it uses.                                                     *)
(***************************************************************************)
EXTENDS EtcdSchedulerProofs

USE ClusterAssumption, SchedulerAssumption

(* One process, which registers once.  Tasks may still die, and launches,  *)
(* calls and health checks fail.                                           *)
OneProcess == OneRegistration /\ "crash" \notin Faults

\* The states of a task whose TASK_RUNNING has been sent.
Ran == {"running", "failing", "dead"}

\* The first synchronisation is not over: nothing can have been launched.
Syncing == ~registered \/ \E g \in Syncs : syncPc[g] # "off"

Idle == {"drain", "select", "prune", "should1"}

(* The scheduler keeps track of its tasks: each task the master knows is   *)
(* pending or running, so that no status update surprises the scheduler,   *)
(* and the task launchOne is about to send is pending and was told of all  *)
(* the running nodes.                                                      *)
Tracking ==
  /\ \A g \in Syncs : syncPrev[g] = {}
  /\ Syncing => launchPc \in Idle /\ \A n \in Ids : task[n] = "none"
  /\ \A n \in Ids : task[n] # "refused"
  /\ \A n \in Ids : Known(n) => n \in running \cup pending
  /\ \A n \in owed : task[n] # "none"
  /\ \A n \in running \cup zk \cup reconciliationInfo : task[n] \in Ran
  /\ launchPc = "send" => /\ launchTask \in pending
                          /\ task[launchTask] = "none"
                          /\ running \subseteq data[launchTask]

LEMMA TrackingInit == Init => Tracking
  BY DEF Init, ClusterInit, Tracking, Syncing, Idle, Known, Syncs

\* What the steps of executors, etcd nodes and master do to a task.
LEMMA ClusterStepEffect ==
  ASSUME IInv, NEW n \in Ids, ClusterStep(n)
  PROVE  /\ Known(n)
         /\ task' \in [Ids -> TaskStates]
         /\ \A k \in Ids \ {n} : task'[k] = task[k] /\ data'[k] = data[k]
         /\ task'[n] \in {"joining", "running", "failing", "dead"}
         /\ task[n] \in {"running", "failing"} => task'[n] \in Ran
         /\ owed' \subseteq owed \cup {n}
         /\ UNCHANGED <<connected, slaveOf, zk>>
<1> USE DEF IInv, TypeOK, ClusterTypeOK, TaskStates, SetTask, Bury, Known, Ran
<1>1. CASE ExecutorConfigures(n)
  BY <1>1 DEF ExecutorConfigures
<1>2. CASE ExecutorRuns(n)
  BY <1>2 DEF ExecutorRuns
<1>3. CASE ExecutorFails(n)
  BY <1>3 DEF ExecutorFails
<1>4. CASE EtcdStarts(n)
  BY <1>4 DEF EtcdStarts
<1>5. CASE EtcdGivesUp(n)
  BY <1>5 DEF EtcdGivesUp
<1>6. CASE TaskDies(n)
  BY <1>6 DEF TaskDies
<1>7. CASE MasterLearns(n)
  BY <1>7 DEF MasterLearns
<1> QED
  BY <1>1, <1>2, <1>3, <1>4, <1>5, <1>6, <1>7 DEF ClusterStep, ClusterProgress

LEMMA TrackingEnvironment ==
  ASSUME IInv, Tracking, Environment
  PROVE  Tracking'
<1>1. PICK n \in Ids : ClusterStep(n) /\ UNCHANGED schedulerVars
  BY DEF Environment
<1>2. /\ Known(n)
      /\ \A k \in Ids \ {n} : task'[k] = task[k] /\ data'[k] = data[k]
      /\ task'[n] \in {"joining", "running", "failing", "dead"}
      /\ task[n] \in {"running", "failing"} => task'[n] \in Ran
      /\ owed' \subseteq owed \cup {n}
      /\ zk' = zk
  BY <1>1, ClusterStepEffect
<1>3. UNCHANGED <<running, pending, reconciliationInfo, launchPc, launchTask,
                  registered, syncPc, syncPrev>>
  BY <1>1 DEF schedulerVars, stateVars, launchVars, syncVars
<1>4. ~Syncing /\ Syncing' = Syncing
  BY <1>2, <1>3 DEF Tracking, Syncing, Known
<1>5. \A k \in Ids : /\ task'[k] # "refused"
                     /\ Known(k)' => Known(k)
                     /\ task[k] # "none" => task'[k] # "none"
                     /\ task[k] \in Ran => task'[k] \in Ran
  BY <1>2 DEF Tracking, Known, Ran
<1>6. /\ running \cup zk \cup reconciliationInfo \subseteq Ids
      /\ owed \subseteq Ids /\ pending \subseteq Ids
  BY DEF IInv, TypeOK, ClusterTypeOK
<1>7. launchPc = "send" => /\ launchTask # n
                           /\ task'[launchTask] = "none"
                           /\ data'[launchTask] = data[launchTask]
  BY <1>2, <1>6 DEF Tracking, Known
<1> QED
  BY <1>2, <1>3, <1>4, <1>5, <1>6, <1>7 DEF Tracking

\* Steps that leave the tasks and the maps alone.
LEMMA TrackingFrame ==
  ASSUME Tracking,
         UNCHANGED <<task, data, owed, zk, running, pending,
                     reconciliationInfo, syncPrev>>,
         Syncing' => Syncing /\ launchPc' \in Idle,
         launchPc' = "send" => launchPc = "send" /\ launchTask' = launchTask
  PROVE  Tracking'
  BY DEF Tracking, Known

\* The task of a status update: one the master has on record, or a dead one.
LEMMA UpdatedTask ==
  ASSUME IInv, Tracking, NEW n \in Ids, StatusUpdate(n)
  PROVE  /\ ~Syncing
         /\ task' = task
         /\ Known(n) \/ task[n] = "dead"
         /\ task[n] \in {"running", "failing"} => NowRunning(n)
         /\ task[n] \in {"staging", "joining"} => Unhandled
         /\ task[n] = "dead" => Contraction(n)
         /\ task[n] # "none"
<1>1. task[n] # "none" /\ task[n] # "refused"
  BY DEF StatusUpdate, Tracking
<1>2. ~Syncing
  BY <1>1 DEF Tracking
<1>3. task' = task
  BY <1>1 DEF StatusUpdate, IInv, TypeOK, ClusterTypeOK
<1>4. Known(n) \/ task[n] = "dead"
  BY <1>1 DEF IInv, TypeOK, ClusterTypeOK, TaskStates, Known
<1>5. /\ task[n] \in {"running", "failing"} => NowRunning(n)
      /\ task[n] \in {"staging", "joining"} => Unhandled
      /\ task[n] = "dead" => Contraction(n)
  BY DEF StatusUpdate
<1> QED
  BY <1>1, <1>2, <1>3, <1>4, <1>5

\* A status update takes no task of the master's out of the maps, and adds
\* none to them.
LEMMA UpdatedMaps ==
  ASSUME IInv, Tracking, NEW n \in Ids, StatusUpdate(n)
  PROVE  /\ pending' \subseteq pending
         /\ running' \cup pending' \subseteq running \cup pending
         /\ (running \cup pending) \ (running' \cup pending') \subseteq {n}
         /\ Known(n) => running' \cup pending' = running \cup pending
         /\ running' \subseteq running \cup (pending \cap {n})
<1>1. CASE task[n] \in {"running", "failing"}
  <2>1. NowRunning(n) /\ Known(n) /\ n \in running \cup pending
    BY <1>1, UpdatedTask DEF Tracking, Known
  <2> QED
    BY <2>1 DEF NowRunning
<1>2. CASE task[n] \in {"staging", "joining"}
  BY <1>2, UpdatedTask DEF Unhandled
<1>3. CASE task[n] = "dead"
  <2>1. Contraction(n) /\ ~Known(n)
    BY <1>3, UpdatedTask DEF Known
  <2> QED
    BY <2>1 DEF Contraction
<1> QED
  BY <1>1, <1>2, <1>3, UpdatedTask DEF Known

LEMMA TrackingCallbacks ==
  ASSUME OneRegistration, IInv, OneSync, Tracking, Callbacks
  PROVE  Tracking'
<1>1. CASE Registered
  <2>1. Syncing /\ \A n \in Ids : task[n] = "none"
    BY <1>1 DEF Registered, Syncing, Tracking
  <2>2. /\ UNCHANGED <<task, data, owed, zk, pending, launchPc, launchTask>>
        /\ running' = {} /\ reconciliationInfo' = {}
        /\ \A g \in Syncs : syncPrev'[g] = {}
    BY <1>1 DEF Registered, Initialize, launchVars, Tracking, IInv, TypeOK
  <2> QED
    BY <2>1, <2>2 DEF Tracking, Known, Idle, IInv, TypeOK, ClusterTypeOK
<1>2. CASE Reregistered \/ Disconnected
  BY <1>2, NoFailover
<1>3. ASSUME NEW s \in Slaves, ResourceOffers(s) \/ OfferLeaves(s)
      PROVE  Tracking'
  <2>1. UNCHANGED <<clusterVars, stateVars, launchVars, syncVars>>
    BY <1>3 DEF ResourceOffers, OfferLeaves
  <2> QED
    BY <2>1, TrackingFrame DEF clusterVars, stateVars, launchVars, syncVars,
       Syncing, Tracking
<1>4. ASSUME NEW n \in Ids, StatusUpdate(n)
      PROVE  Tracking'
  <2>1. /\ ~Syncing
        /\ task' = task
        /\ Known(n) \/ task[n] = "dead"
        /\ task[n] # "none"
    BY <1>4, UpdatedTask
  <2>2. /\ owed' \subseteq owed
        /\ UNCHANGED <<data, launchPc, launchTask, registered, syncPc,
                       syncPrev>>
    BY <1>4 DEF StatusUpdate, launchVars, syncVars
  <2>3. ~Syncing'
    BY <2>1, <2>2 DEF Syncing
  <2>4. \A k \in Ids : Known(k)' => k \in running' \cup pending'
    BY <1>4, <2>1, UpdatedMaps DEF Tracking, Known
  <2>5. \A k \in running' \cup zk' \cup reconciliationInfo' : task[k] \in Ran
    BY <1>4, <2>1, UpdatedTask DEF Tracking, Known, NowRunning, Contraction,
       Unhandled, Ran
  <2>6. ASSUME launchPc = "send"
        PROVE  launchTask \in pending' /\ running' \subseteq data[launchTask]
    <3>1. launchTask \in pending /\ launchTask # n
      BY <2>1, <2>6 DEF Tracking
    <3>2. n \notin pending
      BY <3>1 DEF IInv, AtMostOnePending
    <3>3. launchTask \in pending'
      BY <1>4, <3>1, UpdatedTask DEF Known, NowRunning, Contraction, Unhandled
    <3> QED
      BY <1>4, <2>6, <3>2, <3>3, UpdatedMaps DEF Tracking
  <2> QED
    BY <2>1, <2>2, <2>3, <2>4, <2>5, <2>6 DEF Tracking
<1> QED
  BY <1>1, <1>2, <1>3, <1>4 DEF Callbacks

\* A process that exits has launched nothing: it fails to synchronise.
LEMMA TrackingExit ==
  ASSUME IInv, Tracking, Syncing, Exit
  PROVE  Tracking'
<1>1. \A n \in Ids : task'[n] = "none"
  BY DEF Exit, Tracking
<1>2. owed = {} /\ zk = {}
  BY DEF Tracking, Ran, IInv, TypeOK, ClusterTypeOK
<1> QED
  BY <1>1, <1>2 DEF Exit, Tracking, Idle, Known

LEMMA TrackingMasterSync ==
  ASSUME IInv, OneSync, Tracking, NEW g \in Syncs, MasterSync(g)
  PROVE  Tracking'
<1>1. syncPc[g] # "off"
  BY DEF MasterSync, SyncRead, SyncReadFails, SyncStore, SyncReconcile,
     SyncReconcileFails, SyncWaitOk, SyncWaitFails, SyncCommit, SyncStep
<1>2. /\ Syncing /\ launchPc \in Idle /\ \A n \in Ids : task[n] = "none"
      /\ owed = {} /\ zk = {}
  BY <1>1 DEF Syncing, Tracking, Ran, IInv, TypeOK, ClusterTypeOK
<1>3. CASE SyncAgain(g)
  <2>1. CASE syncRetry[g] + 1 < SyncRetries
    BY <1>2, <1>3, <2>1, TrackingFrame DEF SyncAgain, clusterVars, stateVars,
       launchVars
  <2> QED
    BY <1>2, <1>3, <2>1, TrackingExit DEF SyncAgain
<1>4. ASSUME SyncRead(g) \/ SyncStore(g) \/ SyncReconcile(g) \/ SyncWaitOk(g)
               \/ SyncCommit(g)
      PROVE  Tracking'
  <2>1. /\ UNCHANGED <<task, data, zk, running, pending, launchPc, launchTask>>
        /\ owed' \subseteq owed \cup {n \in Ids : Known(n)} \cup syncPrev[g]
        /\ \A h \in Syncs : syncPrev'[h] \in {syncPrev[h], zk}
        /\ reconciliationInfo' \in {reconciliationInfo, syncPrev[g]}
    BY <1>4 DEF SyncRead, SyncStore, SyncReconcile, SyncWaitOk, SyncCommit,
       clusterVars, stateVars, launchVars, IInv, TypeOK
  <2>2. owed' = {} /\ reconciliationInfo' = {}
    BY <1>2, <2>1 DEF Known, Tracking, Ran, IInv, TypeOK
  <2> QED
    BY <1>2, <2>1, <2>2 DEF Tracking, Known, Idle
<1> QED
  BY <1>3, <1>4 DEF MasterSync, SyncReadFails, SyncReconcileFails,
     SyncWaitFails

\* A launcher that is past shouldLaunch belongs to a scheduler that is
\* connected and has synchronised.
LEMMA LauncherConnected ==
  ASSUME OneSync, Tracking, launchPc \in {"pop", "should2", "commit", "send"}
  PROVE  connected /\ ~Syncing
  BY DEF OneSync, Tracking, Syncing, Idle

\* shouldLaunch says yes only when the scheduler is Mutable, and it changes
\* nothing but what the launcher does next.
LEMMA ShouldLaunchEffect ==
  ASSUME IInv, OneSync, NEW pc, NEW next, ShouldLaunch(pc, next)
  PROVE  /\ UNCHANGED <<clusterVars, state, running, pending,
                        reconciliationInfo, syncVars>>
         /\ \/ launchPc' = "drain"
            \/ /\ launchPc' = next /\ UNCHANGED <<launchOffer, launchTask>>
               /\ ~Syncing
               /\ ~(Cardinality(running) >= desiredInstanceCount)
<1>1. UNCHANGED <<clusterVars, state, running, pending, reconciliationInfo,
                  syncVars>>
  BY DEF ShouldLaunch
<1>2. ASSUME launchPc' # "drain"
      PROVE  /\ launchPc' = next /\ UNCHANGED <<launchOffer, launchTask>>
             /\ state = "Mutable"
             /\ ~(Cardinality(running) >= desiredInstanceCount)
  BY <1>2 DEF ShouldLaunch, shouldLaunch, LaunchReturn, Goto, CannotLaunch
<1>3. ASSUME state = "Mutable" PROVE ~Syncing
  BY <1>3 DEF OneSync, Syncing
<1> QED
  BY <1>1, <1>2, <1>3

LEMMA TrackingLauncher ==
  ASSUME IInv, OneSync, Tracking, SerialLauncher
  PROVE  Tracking'
<1>1. CASE Drain \/ SelectPause \/ SelectLaunch \/ Prune
  <2>1. /\ UNCHANGED <<task, data, owed, zk, stateVars, syncVars>>
        /\ launchPc' \in Idle
    BY <1>1 DEF Drain, SelectPause, SelectLaunch, Prune, Goto, LauncherOnly,
       clusterVars, launchVars, Idle
  <2> QED
    BY <2>1, TrackingFrame DEF stateVars, syncVars, Syncing, Idle
<1>2. ASSUME NEW pc, NEW next \in {"pop", "commit"}, ShouldLaunch(pc, next)
      PROVE  Tracking'
  <2>1. /\ UNCHANGED <<clusterVars, state, running, pending,
                       reconciliationInfo, syncVars>>
        /\ \/ launchPc' = "drain"
           \/ launchPc' = next /\ ~Syncing
    BY <1>2, ShouldLaunchEffect
  <2> QED
    BY <2>1, TrackingFrame DEF clusterVars, syncVars, Syncing, Idle
<1>3. ASSUME NEW s \in Slaves, Pop(s) PROVE Tracking'
  <2>1. ~Syncing
    BY <1>3, LauncherConnected DEF Pop
  <2> QED
    BY <1>3, <2>1, TrackingFrame DEF Pop, clusterVars, stateVars, syncVars,
       launchVars, Syncing
<1>4. CASE Commit
  <2> DEFINE n == highestInstanceID + 1
  <2>1. /\ n \in Ids /\ pending = {} /\ pending' = {n}
        /\ launchPc' = "send" /\ launchTask' = n
        /\ data' = [data EXCEPT ![n] = running]
        /\ UNCHANGED <<task, owed, zk, running, reconciliationInfo, syncVars>>
    BY <1>4 DEF Commit, IInv, LaunchGate
  <2>2. task[n] = "none"
    BY <2>1 DEF IInv, NamesFresh, TypeOK
  <2>3. ~Syncing /\ ~Syncing'
    BY <1>4, <2>1, LauncherConnected DEF Commit, Syncing, syncVars
  <2>4. data'[n] = running
    BY <2>1 DEF IInv, TypeOK, ClusterTypeOK
  <2> QED
    BY <2>1, <2>2, <2>3, <2>4 DEF Tracking, Known, syncVars
<1>5. CASE LaunchTasks
  <2>1. connected /\ ~Syncing
    BY <1>5, LauncherConnected DEF LaunchTasks
  <2>2. /\ launchTask \in Ids /\ launchTask \in pending
        /\ task[launchTask] = "none"
    BY <1>5 DEF LaunchTasks, Tracking, IInv, LaunchGate
  <2>3. /\ task' \in [Ids -> TaskStates]
        /\ task'[launchTask] \in {"none", "staging", "dead"}
        /\ \A k \in Ids : k # launchTask => task'[k] = task[k]
        /\ \/ owed' = owed
           \/ owed' = owed \cup {launchTask} /\ task'[launchTask] = "dead"
    <3>1. task \in [Ids -> TaskStates]
      BY DEF IInv, TypeOK, ClusterTypeOK
    <3>2. \/ UNCHANGED <<task, owed>>
          \/ SetTask(launchTask, "staging") /\ owed' = owed
          \/ SetTask(launchTask, "dead") /\ owed' = owed \cup {launchTask}
      BY <1>5, <2>1 DEF LaunchTasks
    <3> QED
      BY <2>2, <3>1, <3>2 DEF SetTask, TaskStates
  <2>4. /\ launchPc' = "drain"
        /\ UNCHANGED <<zk, running, pending, reconciliationInfo, syncVars>>
    BY <1>5 DEF LaunchTasks, LaunchReturn, stateVars
  <2>5. ~Syncing'
    BY <2>1, <2>4 DEF Syncing, syncVars
  <2>6. /\ launchTask \notin running \cup zk \cup reconciliationInfo \cup owed
        /\ running \cup zk \cup reconciliationInfo \cup owed \subseteq Ids
    BY <2>2 DEF Tracking, Ran, IInv, TypeOK, ClusterTypeOK
  <2> QED
    BY <2>2, <2>3, <2>4, <2>5, <2>6 DEF Tracking, Known, syncVars
<1> QED
  BY <1>1, <1>2, <1>3, <1>4, <1>5 DEF SerialLauncher

LEMMA TrackingStep ==
  ASSUME OneProcess, IInv, OneSync, Tracking, [Next]_vars
  PROVE  Tracking'
<1>1. CASE Periodic
  <2>1. /\ UNCHANGED <<task, data, zk, running, pending, reconciliationInfo,
                       launchVars, syncVars>>
        /\ owed' \subseteq owed \cup {n \in Ids : Known(n)}
    BY <1>1 DEF Periodic, PeriodicReconciler, PeriodicLaunchRequestor,
       LivelockExpires, clusterVars, stateVars
  <2> QED
    BY <2>1 DEF Tracking, Known, Syncing, launchVars, syncVars
<1>2. CASE Reseed \/ Crash
  BY <1>2, NoFailover DEF Crash, OneProcess
<1>3. CASE UNCHANGED vars
  BY <1>3, TrackingFrame DEF vars, clusterVars, schedulerVars, stateVars,
     launchVars, syncVars, Syncing, Tracking
<1> QED
  BY <1>1, <1>2, <1>3, TrackingEnvironment, TrackingCallbacks,
     TrackingMasterSync, TrackingLauncher DEF Next, OneProcess

(* A scheduler whose process lives and keeps its master tracks its tasks:  *)
(* every task the master knows is in s.running or s.pending.               *)
THEOREM TasksTracked == ASSUME OneProcess PROVE Spec => []Tracking
<1>1. IInv /\ OneSync /\ Tracking /\ [Next]_vars => Tracking'
  BY TrackingStep
<1>2. Spec => []OneSync
  BY RegistersOnce DEF OneProcess
<1> QED
  BY <1>1, <1>2, TrackingInit, SchedulerInvariant, PTL DEF Spec

-----------------------------------------------------------------------------
(* The steps of such a scheduler, by what they do to the tasks, the maps   *)
(* and the members: most do nothing to them, and those of the first        *)
(* synchronisation come before the first launch.                           *)
QuietStep ==
  UNCHANGED <<task, slaveOf, data, view, named, zk, running, pending,
              reconciliationInfo, highestInstanceID, syncVars>>

FirstSyncStep ==
  /\ Syncing
  /\ UNCHANGED <<slaveOf, data, view, named, zk>>
  /\ running' \subseteq running /\ pending' \subseteq pending
  /\ UNCHANGED <<task, highestInstanceID>> \/ Exit

LEMMA FirstSyncSteps ==
  ASSUME Registered \/ \E g \in Syncs : MasterSync(g)
  PROVE  FirstSyncStep
<1>1. CASE Registered
  BY <1>1 DEF Registered, Initialize, Syncing, FirstSyncStep, stateVars
<1>2. ASSUME NEW g \in Syncs, MasterSync(g) PROVE FirstSyncStep
  <2>1. Syncing
    BY <1>2 DEF MasterSync, SyncRead, SyncReadFails, SyncStore, SyncReconcile,
       SyncReconcileFails, SyncWaitOk, SyncWaitFails, SyncCommit, SyncStep,
       Syncing
  <2>2. CASE Exit
    BY <2>1, <2>2 DEF Exit, FirstSyncStep
  <2>3. CASE ~Exit
    BY <1>2, <2>1, <2>3 DEF MasterSync, SyncRead, SyncReadFails, SyncStore,
       SyncReconcile, SyncReconcileFails, SyncWaitOk, SyncWaitFails,
       SyncCommit, SyncAgain, clusterVars, stateVars, FirstSyncStep
  <2> QED
    BY <2>2, <2>3
<1> QED
  BY <1>1, <1>2

LEMMA QuietSteps ==
  ASSUME \/ \E s \in Slaves : ResourceOffers(s) \/ OfferLeaves(s) \/ Pop(s)
         \/ Drain \/ SelectPause \/ SelectLaunch
         \/ ShouldLaunch("should1", "pop") \/ ShouldLaunch("should2", "commit")
         \/ Periodic \/ UNCHANGED vars
  PROVE  QuietStep
<1> USE DEF QuietStep, clusterVars, stateVars
<1>1. ASSUME NEW s \in Slaves, ResourceOffers(s) \/ OfferLeaves(s) \/ Pop(s)
      PROVE  QuietStep
  BY <1>1 DEF ResourceOffers, OfferLeaves, Pop
<1>2. CASE Drain \/ SelectPause \/ SelectLaunch
  BY <1>2 DEF Drain, SelectPause, SelectLaunch, LauncherOnly
<1>3. ASSUME NEW pc, NEW next, ShouldLaunch(pc, next)
      PROVE  QuietStep
  BY <1>3 DEF ShouldLaunch
<1>4. CASE Periodic
  BY <1>4 DEF Periodic, PeriodicReconciler, PeriodicLaunchRequestor,
     LivelockExpires
<1>5. CASE UNCHANGED vars
  BY <1>5 DEF vars, schedulerVars
<1> QED
  BY <1>1, <1>2, <1>3, <1>4, <1>5

LEMMA StepKinds ==
  ASSUME OneProcess, OneSync, [Next]_vars
  PROVE  \/ Environment \/ \E n \in Ids : StatusUpdate(n)
         \/ Prune \/ Commit \/ LaunchTasks
         \/ FirstSyncStep \/ QuietStep
<1>1. ~Reregistered /\ ~Disconnected /\ ~Reseed /\ ~Crash
  BY NoFailover DEF OneProcess, Crash
<1> QED
  BY <1>1, FirstSyncSteps, QuietSteps DEF Next, Callbacks, SerialLauncher

-----------------------------------------------------------------------------
(* What a step may do to the maps.  Only launchOne's critical section adds *)
(* a task; and from the check of the offer and the last shouldLaunch until *)
(* that section nothing starts to run.                                     *)
MapsStep ==
  /\ running' \cup pending' \subseteq running \cup pending
  /\ slaveOf' = slaveOf
  /\ launchPc' \in {"should2", "commit"} =>
       /\ running' \subseteq running
       /\ \/ launchPc \in {"should2", "commit"} /\ launchOffer' = launchOffer
          \/ launchOffer' \in Slaves /\ ~SlaveInUse(launchOffer')
       /\ launchPc' = "commit" =>
            \/ launchPc = "commit"
            \/ ~(Cardinality(running) >= desiredInstanceCount)

LEMMA MapsStepOrCommit ==
  ASSUME OneProcess, IInv, OneSync, Tracking, [Next]_vars, ~Commit
  PROVE  MapsStep
<1>1. CASE Environment
  BY <1>1, ClusterStepEffect DEF Environment, schedulerVars, stateVars,
     launchVars, MapsStep
<1>2. CASE Registered
  BY <1>2 DEF Registered, Initialize, launchVars, MapsStep
<1>3. CASE Reregistered \/ Disconnected \/ Reseed \/ Crash
  BY <1>3, NoFailover DEF Crash, OneProcess
<1>4. ASSUME NEW n \in Ids, StatusUpdate(n) PROVE MapsStep
  <2>1. UNCHANGED <<slaveOf, launchPc, launchOffer>>
    BY <1>4 DEF StatusUpdate, launchVars
  <2>2. launchPc \in {"should2", "commit"} => pending = {}
    BY DEF IInv, LaunchGate
  <2> QED
    BY <1>4, <2>1, <2>2, UpdatedMaps DEF MapsStep
<1>5. ASSUME NEW g \in Syncs, MasterSync(g) PROVE MapsStep
  <2>1. CASE Exit
    BY <2>1 DEF Exit, MapsStep
  <2>2. CASE ~Exit
    BY <1>5, <2>2 DEF MasterSync, SyncRead, SyncReadFails, SyncStore,
       SyncReconcile, SyncReconcileFails, SyncWaitOk, SyncWaitFails,
       SyncCommit, SyncAgain, clusterVars, stateVars, launchVars, MapsStep
  <2> QED
    BY <2>1, <2>2
<1>6. ASSUME NEW pc, NEW next \in {"pop", "commit"}, ShouldLaunch(pc, next),
             next = "commit" => pc = "should2"
      PROVE  MapsStep
  <2>1. launchPc = pc
    BY <1>6 DEF ShouldLaunch
  <2> QED
    BY <1>6, <2>1, ShouldLaunchEffect DEF clusterVars, MapsStep
<1>7. CASE \/ \E s \in Slaves : ResourceOffers(s) \/ OfferLeaves(s) \/ Pop(s)
           \/ Drain \/ SelectPause \/ SelectLaunch \/ Prune \/ LaunchTasks
           \/ Periodic \/ UNCHANGED vars
  <2>1. UNCHANGED <<slaveOf, running, pending>>
    BY <1>7, QuietSteps DEF QuietStep, Prune, LaunchTasks, stateVars
  <2>2. ASSUME NEW s \in Slaves, Pop(s)
        PROVE  \/ launchPc' \notin {"should2", "commit"}
               \/ /\ launchPc' = "should2"
                  /\ launchOffer' \in Slaves /\ ~SlaveInUse(launchOffer')
    BY <2>2 DEF Pop, launchVars
  <2>3. CASE Drain \/ SelectPause \/ SelectLaunch \/ Prune \/ LaunchTasks
    <3>1. launchPc' \notin {"should2", "commit"}
      BY <2>3 DEF Drain, SelectPause, SelectLaunch, Prune, LaunchTasks,
         LaunchReturn, Goto, launchVars
    <3> QED
      BY <2>1, <3>1 DEF MapsStep
  <2>4. CASE \/ \E s \in Slaves : ResourceOffers(s) \/ OfferLeaves(s)
             \/ Periodic \/ UNCHANGED vars
    <3>1. UNCHANGED <<launchPc, launchOffer>>
      BY <2>4 DEF ResourceOffers, OfferLeaves, Periodic, PeriodicReconciler,
         PeriodicLaunchRequestor, LivelockExpires, vars, schedulerVars,
         launchVars
    <3> QED
      BY <2>1, <3>1 DEF MapsStep
  <2> QED
    BY <1>7, <2>1, <2>2, <2>3, <2>4 DEF MapsStep
<1> QED
  BY <1>1, <1>2, <1>3, <1>4, <1>5, <1>6, <1>7
     DEF Next, Callbacks, SerialLauncher

-----------------------------------------------------------------------------
(* No two tasks of the scheduler share a slave, nor would the one that     *)
(* launchOne has an offer for.                                             *)
SlavesApart ==
  /\ \A a, b \in running \cup pending : slaveOf[a] = slaveOf[b] => a = b
  /\ launchPc \in {"should2", "commit"} =>
       launchOffer \in Slaves /\ ~SlaveInUse(launchOffer)

LEMMA SlavesApartStep ==
  ASSUME OneProcess, IInv, OneSync, Tracking, SlavesApart, [Next]_vars
  PROVE  SlavesApart'
<1>1. CASE Commit
  <2> DEFINE n == highestInstanceID + 1
  <2>1. /\ n \in Ids /\ pending = {} /\ pending' = {n} /\ running' = running
        /\ launchPc = "commit" /\ launchPc' = "send"
        /\ slaveOf' = [slaveOf EXCEPT ![n] = launchOffer]
    BY <1>1 DEF Commit, IInv, LaunchGate
  <2>2. n \notin running /\ running \subseteq Ids
    BY <2>1 DEF IInv, NamesFresh, TypeOK
  <2>3. /\ slaveOf'[n] = launchOffer
        /\ \A k \in running : slaveOf'[k] = slaveOf[k]
    BY <2>1, <2>2 DEF IInv, TypeOK, ClusterTypeOK
  <2> QED
    BY <2>1, <2>3 DEF SlavesApart, SlaveInUse
<1>2. CASE ~Commit
  BY <1>2, MapsStepOrCommit DEF MapsStep, SlavesApart, SlaveInUse
<1> QED
  BY <1>1, <1>2

(* The offer that launchOne has popped and checked is of a slave that none *)
(* of its tasks is on, until it is used.                                   *)
THEOREM SlavesKeptApart == ASSUME OneProcess PROVE Spec => []SlavesApart
<1>1. Init => SlavesApart
  BY DEF Init, SlavesApart
<1>2. IInv /\ OneSync /\ Tracking /\ SlavesApart /\ [Next]_vars => SlavesApart'
  BY SlavesApartStep
<1>3. Spec => []OneSync
  BY RegistersOnce DEF OneProcess
<1>4. Spec => []Tracking
  BY TasksTracked
<1> QED
  BY <1>1, <1>2, <1>3, <1>4, SchedulerInvariant, PTL DEF Spec

(* A scheduler whose process lives and keeps its master never has two live *)
(* tasks on one slave: the offer that launchOne pops is checked against    *)
(* s.running while nothing is pending, and used later.                     *)
THEOREM SlavesNotShared == ASSUME OneProcess PROVE Spec => []OneTaskPerSlave
<1>1. Tracking /\ SlavesApart => OneTaskPerSlave
  BY DEF Tracking, SlavesApart, OneTaskPerSlave, Live, Known
<1>2. Spec => []Tracking
  BY TasksTracked
<1>3. Spec => []SlavesApart
  BY SlavesKeptApart
<1> QED
  BY <1>1, <1>2, <1>3, PTL

-----------------------------------------------------------------------------
(* The ZooKeeper record holds nothing that reconciliationInfo has lost, if *)
(* it is not dead.                                                         *)
RecordKept == \A n \in zk : task[n] = "dead" \/ n \in reconciliationInfo

LEMMA RecordKeptStep ==
  ASSUME OneProcess, IInv, OneSync, Tracking, RecordKept, [Next]_vars
  PROVE  /\ RecordKept'
         /\ \A n \in zk : task[n] # "dead" => n \in zk'
<1>1. zk \subseteq Ids /\ (Syncing => zk = {})
  BY DEF IInv, TypeOK, ClusterTypeOK, Tracking, Ran
<1>2. ASSUME NEW n \in Ids, StatusUpdate(n)
      PROVE  /\ RecordKept'
             /\ \A k \in zk : task[k] # "dead" => k \in zk'
  BY <1>2, UpdatedTask DEF RecordKept, NowRunning, Contraction, Unhandled, Known
<1>3. ASSUME zk' = zk, \A k \in zk : task[k] = "dead" => task'[k] = "dead",
             Syncing \/ reconciliationInfo' = reconciliationInfo
      PROVE  /\ RecordKept'
             /\ \A k \in zk : task[k] # "dead" => k \in zk'
  BY <1>1, <1>3 DEF RecordKept
<1>4. CASE Environment
  <2>1. PICK n \in Ids : ClusterStep(n) /\ UNCHANGED schedulerVars
    BY <1>4 DEF Environment
  <2>2. /\ zk' = zk /\ task[n] # "dead"
        /\ \A k \in Ids \ {n} : task'[k] = task[k]
    BY <2>1, ClusterStepEffect DEF Known
  <2> QED
    BY <1>1, <1>3, <2>1, <2>2 DEF schedulerVars, stateVars
<1>5. CASE LaunchTasks
  <2>1. task[launchTask] = "none" /\ UNCHANGED <<zk, reconciliationInfo>>
    BY <1>5 DEF LaunchTasks, Tracking, stateVars
  <2>2. \A k \in Ids : k # launchTask => task'[k] = task[k]
    BY <1>5 DEF LaunchTasks, SetTask, IInv, TypeOK, ClusterTypeOK
  <2> QED
    BY <1>1, <1>3, <2>1, <2>2
<1>6. CASE FirstSyncStep
  BY <1>1, <1>3, <1>6 DEF FirstSyncStep
<1>7. CASE Prune \/ Commit \/ QuietStep
  <2>1. UNCHANGED <<task, zk, reconciliationInfo>>
    BY <1>7 DEF Prune, Commit, QuietStep, stateVars
  <2> QED
    BY <1>3, <2>1
<1> QED
  BY <1>2, <1>4, <1>5, <1>6, <1>7, StepKinds

(* A running task stays in the ZooKeeper record, which NowRunning writes   *)
(* from reconciliationInfo each time, while other tasks come and go.       *)
THEOREM RecordKeepsTasks == ASSUME OneProcess PROVE Spec => RecordKeepsRunning
<1>1. Init => RecordKept
  BY DEF Init, ClusterInit, RecordKept
<1>2. IInv /\ OneSync /\ Tracking /\ RecordKept /\ [Next]_vars
        => /\ RecordKept'
           /\ [\A n \in zk : task[n] = "running" => n \in zk']_vars
  BY RecordKeptStep
<1>3. Spec => []OneSync
  BY RegistersOnce DEF OneProcess
<1>4. Spec => []Tracking
  BY TasksTracked
<1> QED
  BY <1>1, <1>2, <1>3, <1>4, SchedulerInvariant, PTL
     DEF Spec, RecordKeepsRunning
=============================================================================
