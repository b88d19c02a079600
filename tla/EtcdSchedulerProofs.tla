------------------------ MODULE EtcdSchedulerProofs ------------------------
(***************************************************************************)
(* Proofs about EtcdScheduler, for every number of slaves and tasks, every *)
(* set of faults, and every desired size; and, at the end, about one that  *)
(* registers once per process.                                             *)
(***************************************************************************)
EXTENDS EtcdScheduler, TLAPS

(* What makes the launches serial: from the moment shouldLaunch has said   *)
(* yes nothing is pending until launchOne's critical section, and the task *)
(* it sends is one that the section has named.                             *)
LaunchGate ==
  /\ launchPc \in {"pop", "should2", "commit"} => pending = {}
  /\ launchPc = "send" => launchTask \in Ids /\ launchTask <= highestInstanceID

IInv ==
  /\ TypeOK
  /\ LaunchGate
  /\ NamesFresh
  /\ PendingNotRunning
  /\ RunningHaveTasks
  /\ AtMostOnePending

USE ClusterAssumption, SchedulerAssumption

\* The state of a scheduler process that has just started is fine.
LEMMA InitFine == Init => IInv
<1> SUFFICES ASSUME Init PROVE IInv
  OBVIOUS
<1>1. ClusterTypeOK
  BY DEF Init, ClusterInit, ClusterTypeOK, TaskStates
<1>2. /\ syncPc \in [Syncs -> SyncPcs]
      /\ syncPrev \in [Syncs -> SUBSET Ids]
      /\ syncRetry \in [Syncs -> Nat]
  BY DEF Init, SyncPcs
<1>3. /\ state \in {"Immutable", "Mutable"}
      /\ livelockWindow \in {"nil", "recent", "expired"}
      /\ launchChan \in 0..ChanCap /\ pauseChan \in 0..ChanCap
      /\ launchPc \in LaunchPcs
      /\ launchOffer \in Slaves \cup {NoSlave}
      /\ launchTask \in Ids \cup {0} /\ lastSync \in Syncs \cup {0}
  BY DEF Init, LaunchPcs
<1>4. TypeOK
  <2>1. registered \in BOOLEAN
    BY DEF Init
  <2>2. reseeding \in BOOLEAN
    BY DEF Init
  <2>3. /\ pending = {} /\ running = {} /\ tasks = {} /\ offers = {}
        /\ heardFrom = {} /\ reconciliationInfo = {} /\ reseedWaiting = 0
        /\ highestInstanceID = 0
    BY DEF Init
  <2> QED
    BY <1>1, <1>2, <1>3, <2>1, <2>2, <2>3 DEF TypeOK
<1>5. NamesFresh
  BY DEF Init, ClusterInit, NamesFresh
<1> QED
  BY <1>4, <1>5 DEF Init, IInv, LaunchGate, PendingNotRunning,
                    RunningHaveTasks, AtMostOnePending

\* Exit, the restart of the process: the clock is past every name in use.
LEMMA ExitFine == IInv /\ Exit => IInv'
<1> SUFFICES ASSUME IInv, Exit PROVE IInv'
  OBVIOUS
<1>1. highestInstanceID' \in Nat
  BY DEF Exit, ClockReadings
<1>2. task' \in [Ids -> TaskStates]
  BY DEF Exit, IInv, TypeOK, ClusterTypeOK, TaskStates
<1>3. TypeOK'
  <2>1. ClusterTypeOK'
    BY <1>2 DEF Exit, IInv, TypeOK, ClusterTypeOK
  <2>2. /\ syncPc' \in [Syncs -> SyncPcs]
        /\ syncPrev' \in [Syncs -> SUBSET Ids]
        /\ syncRetry' \in [Syncs -> Nat]
    BY DEF Exit, SyncPcs
  <2>3. /\ state' \in {"Immutable", "Mutable"}
        /\ livelockWindow' \in {"nil", "recent", "expired"}
        /\ launchChan' \in 0..ChanCap /\ pauseChan' \in 0..ChanCap
        /\ launchPc' \in LaunchPcs
        /\ launchOffer' \in Slaves \cup {NoSlave}
        /\ launchTask' \in Ids \cup {0} /\ lastSync' \in Syncs \cup {0}
    BY DEF Exit, LaunchPcs
  <2>4. registered' \in BOOLEAN
    BY DEF Exit
  <2>5. reseeding' \in BOOLEAN
    BY DEF Exit
  <2>6. /\ pending' = {} /\ running' = {} /\ tasks' = {} /\ offers' = {}
        /\ heardFrom' = {} /\ reconciliationInfo' = {} /\ reseedWaiting' = 0
    BY DEF Exit
  <2> QED
    BY <1>1, <2>1, <2>2, <2>3, <2>4, <2>5, <2>6 DEF TypeOK
<1>4. NamesFresh'
  <2> SUFFICES ASSUME NEW n \in Ids, n > highestInstanceID'
               PROVE  task'[n] = "none"
    BY DEF Exit, NamesFresh
  <2>1. task[n] = "none"
    BY <1>1 DEF Exit, ClockReadings, Ids
  <2> QED
    BY <2>1 DEF Exit, IInv, TypeOK, ClusterTypeOK
<1> QED
  BY <1>3, <1>4 DEF Exit, IInv, LaunchGate, PendingNotRunning,
                    RunningHaveTasks, AtMostOnePending

\* Steps of the executors, the etcd nodes and the master.
LEMMA EnvironmentFine == IInv /\ Environment => IInv'
<1> SUFFICES ASSUME IInv, NEW n \in Ids, ClusterStep(n), UNCHANGED schedulerVars
             PROVE  IInv'
  BY DEF Environment
<1>1. task[n] # "none" /\ \A k \in Ids : k # n => task'[k] = task[k]
  BY DEF ClusterStep, ClusterProgress, ExecutorConfigures, ExecutorRuns,
         ExecutorFails, EtcdStarts, EtcdGivesUp, TaskDies, MasterLearns,
         SetTask, Bury, IInv, TypeOK, ClusterTypeOK
<1>2. ClusterTypeOK'
  <2> USE DEF IInv, TypeOK, ClusterTypeOK, TaskStates, SetTask, Bury
  <2>1. CASE ExecutorConfigures(n)
    <3>1. view' \in [Ids -> SUBSET Ids]
      <4>1. CASE data[n] = {}
        BY <2>1, <4>1 DEF ExecutorConfigures
      <4>2. CASE data[n] # {}
        <5> PICK m \in Reachable(data[n]) :
                   IF Quorum(m) THEN AddMember(m, n) ELSE UNCHANGED view
          BY <2>1, <4>2 DEF ExecutorConfigures
        <5>1. m \in Ids
          BY DEF Reachable
        <5> QED
          BY <5>1 DEF AddMember
      <4> QED
        BY <4>1, <4>2
    <3> QED
      BY <2>1, <3>1 DEF ExecutorConfigures
  <2>2. CASE ExecutorRuns(n)
    BY <2>2 DEF ExecutorRuns
  <2>3. CASE ExecutorFails(n)
    BY <2>3 DEF ExecutorFails
  <2>4. CASE EtcdStarts(n)
    BY <2>4 DEF EtcdStarts, Reachable
  <2>5. CASE EtcdGivesUp(n)
    BY <2>5 DEF EtcdGivesUp
  <2>6. CASE TaskDies(n)
    BY <2>6 DEF TaskDies
  <2>7. CASE MasterLearns(n)
    BY <2>7 DEF MasterLearns
  <2> QED
    BY <2>1, <2>2, <2>3, <2>4, <2>5, <2>6, <2>7
       DEF ClusterStep, ClusterProgress
<1>3. TypeOK'
  BY <1>2 DEF IInv, TypeOK, schedulerVars, stateVars, chanVars, launchVars,
              syncVars, reseedVars
<1>4. NamesFresh'
  BY <1>1 DEF IInv, NamesFresh, TypeOK, schedulerVars, stateVars
<1> QED
  BY <1>3, <1>4 DEF IInv, LaunchGate, PendingNotRunning, RunningHaveTasks,
                    AtMostOnePending, schedulerVars, stateVars, launchVars

\* The callbacks that say something of the driver's connection.
LEMMA RegistrationFine ==
  IInv /\ (Registered \/ Reregistered \/ Disconnected) => IInv'
<1> SUFFICES ASSUME IInv, Registered \/ Reregistered \/ Disconnected
             PROVE  IInv'
  OBVIOUS
<1>1. TypeOK'
  <2>1. CASE Registered
    BY <2>1 DEF Registered, Initialize, IInv, TypeOK, ClusterTypeOK, SyncPcs,
                chanVars, launchVars, reseedVars
  <2>2. CASE Reregistered
    BY <2>2 DEF Reregistered, Initialize, IInv, TypeOK, ClusterTypeOK, SyncPcs,
                chanVars, launchVars, reseedVars
  <2>3. CASE Disconnected
    BY <2>3 DEF Disconnected, IInv, TypeOK, ClusterTypeOK,
                chanVars, launchVars, syncVars, reseedVars
  <2> QED
    BY <2>1, <2>2, <2>3
<1> QED
  BY <1>1 DEF IInv, LaunchGate, NamesFresh, PendingNotRunning,
              RunningHaveTasks, AtMostOnePending, Registered, Reregistered,
              Disconnected, Initialize, launchVars

\* Offers come and go.
LEMMA OffersFine ==
  ASSUME IInv, NEW s \in Slaves, ResourceOffers(s) \/ OfferLeaves(s)
  PROVE  IInv'
<1>1. TypeOK'
  BY DEF ResourceOffers, OfferLeaves, QueueLaunchAttempt, Signal, IInv, TypeOK,
         ClusterTypeOK, clusterVars, stateVars, chanVars, launchVars, syncVars,
         reseedVars
<1> QED
  BY <1>1 DEF IInv, LaunchGate, NamesFresh, PendingNotRunning,
              RunningHaveTasks, AtMostOnePending, ResourceOffers, OfferLeaves,
              clusterVars, stateVars, launchVars

(* StatusUpdate.  A task that was refused has a name already, so its       *)
(* becoming dead leaves the unused names unused; TASK_RUNNING moves a task *)
(* out of pending, and highestInstanceID past its id.                      *)
LEMMA StatusUpdateFine ==
  ASSUME IInv, NEW n \in Ids, StatusUpdate(n)
  PROVE  IInv'
<1>1. /\ task' \in [Ids -> TaskStates]
      /\ \A k \in Ids : task[k] = "none" => task'[k] = "none"
  BY DEF StatusUpdate, IInv, TypeOK, ClusterTypeOK, TaskStates
<1>2. Contraction(n) \/ NowRunning(n) \/ Unhandled
  BY DEF StatusUpdate
<1>3. /\ state' \in {"Immutable", "Mutable"}
      /\ pending' \in SUBSET Ids /\ running' \in SUBSET Ids
      /\ tasks' \in SUBSET Ids /\ reconciliationInfo' \in SUBSET Ids
      /\ zk' \in SUBSET Ids
      /\ highestInstanceID' \in Nat
      /\ launchChan' \in 0..ChanCap /\ pauseChan' \in 0..ChanCap
  <2>1. CASE Contraction(n)
    BY <2>1 DEF Contraction, PumpTheBrakes, QueueLaunchAttempt, Signal, IInv,
                TypeOK, ClusterTypeOK
  <2>2. CASE NowRunning(n)
    <3>1. /\ pending' \in SUBSET Ids /\ running' \in SUBSET Ids
          /\ tasks' \in SUBSET Ids /\ reconciliationInfo' \in SUBSET Ids
      BY <2>2 DEF NowRunning, IInv, TypeOK
    <3>2. zk' \in SUBSET Ids
      BY <2>2, <3>1 DEF NowRunning, IInv, TypeOK, ClusterTypeOK
    <3>3. highestInstanceID' \in Nat
      BY <2>2 DEF NowRunning, IInv, TypeOK, Ids
    <3> QED
      BY <2>2, <3>1, <3>2, <3>3 DEF NowRunning, IInv, TypeOK, chanVars
  <2>3. CASE Unhandled
    BY <2>3 DEF Unhandled, IInv, TypeOK, ClusterTypeOK, chanVars
  <2> QED
    BY <1>2, <2>1, <2>2, <2>3
<1>4. TypeOK'
  BY <1>1, <1>3 DEF StatusUpdate, IInv, TypeOK, ClusterTypeOK, launchVars,
                    syncVars, reseedVars
<1>5. highestInstanceID' >= highestInstanceID /\ pending' \subseteq pending
  BY <1>2 DEF Contraction, NowRunning, Unhandled, IInv, TypeOK, Ids
<1>6. NamesFresh'
  <2> SUFFICES ASSUME NEW k \in Ids, k > highestInstanceID'
               PROVE  /\ task'[k] = "none"
                      /\ k \notin pending' \cup running' \cup tasks'
    BY DEF NamesFresh
  <2>1. k > highestInstanceID
    BY <1>3, <1>5 DEF IInv, TypeOK, Ids
  <2>2. task[k] = "none" /\ k \notin pending \cup running \cup tasks
    BY <2>1 DEF IInv, NamesFresh
  <2>3. k \notin running' \cup tasks'
    BY <1>2, <2>1, <2>2 DEF Contraction, NowRunning, Unhandled, IInv, TypeOK,
                            Ids
  <2> QED
    BY <1>1, <1>5, <2>2, <2>3
<1>7. PendingNotRunning' /\ RunningHaveTasks'
  BY <1>2 DEF Contraction, NowRunning, Unhandled, IInv, PendingNotRunning,
              RunningHaveTasks
<1>8. LaunchGate'
  BY <1>3, <1>5 DEF StatusUpdate, IInv, TypeOK, LaunchGate, launchVars, Ids
<1> QED
  BY <1>4, <1>5, <1>6, <1>7, <1>8 DEF IInv, AtMostOnePending

\* attemptMasterSync touches none of the maps the invariant is about.
LEMMA MasterSyncFine ==
  ASSUME IInv, NEW g \in Syncs, MasterSync(g)
  PROVE  IInv'
<1>1. CASE SyncAgain(g)
  <2>1. CASE syncRetry[g] + 1 < SyncRetries
    BY <1>1, <2>1 DEF SyncAgain, IInv, TypeOK, ClusterTypeOK, LaunchGate,
       NamesFresh, PendingNotRunning, RunningHaveTasks, AtMostOnePending,
       clusterVars, stateVars, chanVars, launchVars, reseedVars, SyncPcs
  <2>2. CASE ~(syncRetry[g] + 1 < SyncRetries)
    BY <1>1, <2>2, ExitFine DEF SyncAgain
  <2> QED
    BY <2>1, <2>2
<1>2. CASE SyncRead(g) \/ SyncWaitOk(g)
  BY <1>2 DEF SyncRead, SyncWaitOk, SyncStep, IInv, TypeOK, ClusterTypeOK,
     LaunchGate, NamesFresh, PendingNotRunning, RunningHaveTasks,
     AtMostOnePending, clusterVars, stateVars, chanVars, launchVars,
     reseedVars, SyncPcs
<1>3. CASE SyncStore(g)
  BY <1>3 DEF SyncStore, SyncStep, IInv, TypeOK, ClusterTypeOK,
     LaunchGate, NamesFresh, PendingNotRunning, RunningHaveTasks,
     AtMostOnePending, clusterVars, chanVars, launchVars, reseedVars, SyncPcs
<1>4. CASE SyncReconcile(g)
  BY <1>4 DEF SyncReconcile, SyncStep, IInv, TypeOK, ClusterTypeOK,
     LaunchGate, NamesFresh, PendingNotRunning, RunningHaveTasks,
     AtMostOnePending, stateVars, chanVars, launchVars, reseedVars, SyncPcs
<1>5. CASE SyncCommit(g)
  BY <1>5 DEF SyncCommit, SyncStep, IInv, TypeOK, ClusterTypeOK,
     LaunchGate, NamesFresh, PendingNotRunning, RunningHaveTasks,
     AtMostOnePending, clusterVars, chanVars, launchVars, reseedVars, SyncPcs
<1> QED
  BY <1>1, <1>2, <1>3, <1>4, <1>5
     DEF MasterSync, SyncReadFails, SyncReconcileFails, SyncWaitFails

(* SerialLauncher.  shouldLaunch goes on only when nothing is pending, and *)
(* only the launcher adds to pending, so nothing is when Commit adds its   *)
(* task.                                                                   *)
LEMMA ShouldLaunchFine ==
  ASSUME IInv, NEW pc, NEW next \in {"pop", "commit"}, ShouldLaunch(pc, next)
  PROVE  IInv'
<1>1. /\ launchPc' \in LaunchPcs
      /\ launchOffer' \in Slaves \cup {NoSlave}
      /\ launchTask' \in Ids \cup {0}
      /\ livelockWindow' \in {"nil", "recent", "expired"}
      /\ reseedWaiting' \in Nat
      /\ launchPc' \in {"pop", "should2", "commit"} => pending = {}
      /\ launchPc' # "send"
  BY DEF ShouldLaunch, shouldLaunch, CannotLaunch, LaunchReturn, Goto, IInv,
         TypeOK, LaunchPcs
<1>2. TypeOK'
  BY <1>1 DEF ShouldLaunch, IInv, TypeOK, ClusterTypeOK, clusterVars, chanVars,
              syncVars
<1> QED
  BY <1>1, <1>2 DEF ShouldLaunch, IInv, LaunchGate, NamesFresh,
     PendingNotRunning, RunningHaveTasks, AtMostOnePending, clusterVars

LEMMA SerialLauncherFine == IInv /\ SerialLauncher => IInv'
<1> SUFFICES ASSUME IInv, SerialLauncher PROVE IInv'
  OBVIOUS
<1>1. CASE Drain \/ SelectPause \/ SelectLaunch
  <2>1. /\ launchPc' \in {"drain", "select", "prune"}
        /\ launchOffer' = launchOffer /\ launchTask' = launchTask
        /\ launchChan' \in 0..ChanCap /\ pauseChan' \in 0..ChanCap
    BY <1>1 DEF Drain, SelectPause, SelectLaunch, Goto, launchVars, IInv, TypeOK
  <2>2. UNCHANGED <<clusterVars, stateVars, offers, syncVars, reseedVars>>
    BY <1>1 DEF Drain, SelectPause, SelectLaunch, LauncherOnly
  <2>3. TypeOK'
    BY <2>1, <2>2 DEF IInv, TypeOK, ClusterTypeOK, clusterVars, stateVars,
                      syncVars, reseedVars, LaunchPcs
  <2> QED
    BY <2>1, <2>2, <2>3 DEF IInv, LaunchGate, NamesFresh, PendingNotRunning,
       RunningHaveTasks, AtMostOnePending, clusterVars, stateVars
<1>2. CASE Prune
  <2>1. view' \in [Ids -> SUBSET Ids]
    BY <1>2 DEF Prune, RemoveMember, Reachable, IInv, TypeOK, ClusterTypeOK
  <2>2. TypeOK'
    BY <1>2, <2>1 DEF Prune, Goto, IInv, TypeOK, ClusterTypeOK, stateVars,
                      chanVars, syncVars, reseedVars, LaunchPcs
  <2> QED
    BY <1>2, <2>2 DEF Prune, Goto, IInv, LaunchGate, NamesFresh,
       PendingNotRunning, RunningHaveTasks, AtMostOnePending, stateVars
<1>3. CASE ShouldLaunch("should1", "pop")
  BY <1>3, ShouldLaunchFine
<1>4. CASE ShouldLaunch("should2", "commit")
  BY <1>4, ShouldLaunchFine
<1>5. ASSUME NEW s \in Slaves, Pop(s) PROVE IInv'
  <2>1. TypeOK'
    BY <1>5 DEF Pop, IInv, TypeOK, ClusterTypeOK, clusterVars, stateVars,
                chanVars, launchVars, syncVars, reseedVars, LaunchPcs
  <2> QED
    BY <1>5, <2>1 DEF Pop, IInv, LaunchGate, NamesFresh, PendingNotRunning,
       RunningHaveTasks, AtMostOnePending, clusterVars, stateVars, launchVars
<1>6. CASE Commit
  <2> DEFINE n == highestInstanceID + 1
  <2>1. /\ n \in Ids /\ highestInstanceID' = n /\ pending' = {n}
        /\ launchPc' = "send" /\ launchTask' = n
    BY <1>6 DEF Commit, IInv, LaunchGate
  <2>2. n > highestInstanceID
    BY DEF IInv, TypeOK
  <2>3. n \notin running
    BY <2>1, <2>2 DEF IInv, NamesFresh
  <2>4. TypeOK'
    <3>1. ClusterTypeOK'
      BY <1>6 DEF Commit, IInv, TypeOK, ClusterTypeOK
    <3> QED
      BY <1>6, <2>1, <3>1 DEF Commit, IInv, TypeOK, chanVars, syncVars,
                              reseedVars, LaunchPcs, Ids
  <2>5. NamesFresh'
    <3> SUFFICES ASSUME NEW k \in Ids, k > n
                 PROVE  /\ task'[k] = "none"
                        /\ k \notin pending' \cup running' \cup tasks'
      BY <2>1 DEF NamesFresh
    <3>1. k > highestInstanceID /\ k # n
      BY DEF IInv, TypeOK, Ids
    <3> QED
      BY <1>6, <2>1, <3>1 DEF Commit, IInv, NamesFresh
  <2>6. LaunchGate'
    BY <2>1 DEF LaunchGate, Ids
  <2> QED
    BY <1>6, <2>1, <2>3, <2>4, <2>5, <2>6 DEF Commit, IInv, PendingNotRunning,
       RunningHaveTasks, AtMostOnePending
<1>7. CASE LaunchTasks
  <2>1. launchTask \in Ids /\ ~(launchTask > highestInstanceID)
    BY <1>7 DEF LaunchTasks, IInv, LaunchGate, TypeOK, Ids
  <2>2. /\ task' \in [Ids -> TaskStates] /\ owed' \in SUBSET Ids
        /\ \A k \in Ids : k # launchTask => task'[k] = task[k]
    BY <1>7, <2>1 DEF LaunchTasks, SetTask, IInv, TypeOK, ClusterTypeOK,
                      TaskStates
  <2>3. TypeOK'
    BY <1>7, <2>2 DEF LaunchTasks, LaunchReturn, IInv, TypeOK, ClusterTypeOK,
                      stateVars, chanVars, syncVars, reseedVars, LaunchPcs
  <2>4. NamesFresh'
    BY <1>7, <2>1, <2>2 DEF LaunchTasks, IInv, NamesFresh, stateVars
  <2> QED
    BY <1>7, <2>3, <2>4 DEF LaunchTasks, LaunchReturn, IInv, LaunchGate,
       PendingNotRunning, RunningHaveTasks, AtMostOnePending, stateVars
<1> QED
  BY <1>1, <1>2, <1>3, <1>4, <1>5, <1>6, <1>7 DEF SerialLauncher

\* The periodic goroutines.
LEMMA PeriodicFine == IInv /\ Periodic => IInv'
<1> SUFFICES ASSUME IInv, Periodic PROVE IInv'
  OBVIOUS
<1>1. TypeOK'
  <2>1. CASE PeriodicReconciler
    BY <2>1 DEF PeriodicReconciler, IInv, TypeOK, ClusterTypeOK, stateVars,
                chanVars, launchVars, syncVars, reseedVars
  <2>2. CASE PeriodicLaunchRequestor
    BY <2>2 DEF PeriodicLaunchRequestor, QueueLaunchAttempt, Signal, IInv,
                TypeOK, ClusterTypeOK, clusterVars, stateVars, launchVars,
                syncVars, reseedVars
  <2>3. CASE LivelockExpires
    BY <2>3 DEF LivelockExpires, IInv, TypeOK, ClusterTypeOK, clusterVars,
                chanVars, launchVars, syncVars, reseedVars
  <2> QED
    BY <2>1, <2>2, <2>3 DEF Periodic
<1>2. UNCHANGED <<task, pending, running, tasks, highestInstanceID, launchPc,
                  launchTask>>
  BY DEF Periodic, PeriodicReconciler, PeriodicLaunchRequestor,
         LivelockExpires, clusterVars, stateVars, launchVars
<1> QED
  BY <1>1, <1>2 DEF IInv, LaunchGate, NamesFresh, PendingNotRunning,
     RunningHaveTasks, AtMostOnePending

(* reseedCluster.  It kills tasks that are in s.tasks, whose names are in  *)
(* use, and leaves the scheduler's maps alone.                             *)
LEMMA ReseedFine == IInv /\ Reseed => IInv'
<1> SUFFICES ASSUME IInv, Reseed, ~Exit PROVE IInv'
  BY ExitFine
<1>1. CASE AdminReseed \/ ReseedCas
  <2>1. reseedWaiting' \in Nat
    BY <1>1 DEF AdminReseed, ReseedCas, IInv, TypeOK
  <2>2. reseeding' \in BOOLEAN
    BY <1>1 DEF AdminReseed, ReseedCas, IInv, TypeOK
  <2>3. UNCHANGED <<clusterVars, stateVars, chanVars, offers, launchVars,
                    syncVars>>
    BY <1>1 DEF AdminReseed, ReseedCas
  <2>4. TypeOK'
    BY <2>1, <2>2, <2>3 DEF IInv, TypeOK, ClusterTypeOK, clusterVars,
       stateVars, chanVars, launchVars, syncVars
  <2> QED
    BY <2>3, <2>4 DEF IInv, LaunchGate, NamesFresh, PendingNotRunning,
       RunningHaveTasks, AtMostOnePending, clusterVars, stateVars, launchVars
<1>2. CASE ReseedCluster
  <2>1. /\ state' = "Mutable"
        /\ reseeding' = FALSE
        /\ UNCHANGED <<connected, slaveOf, data, named, zk, pending, running,
                       tasks, heardFrom, reconciliationInfo,
                       highestInstanceID, livelockWindow, chanVars, offers,
                       launchVars, syncVars, reseedWaiting>>
    BY <1>2 DEF ReseedCluster
  <2>2. \E nodes \in SUBSET Ids : ForceNewCluster(nodes)
    <3>1. \A c \in Candidates : c \subseteq Ids
      BY DEF Candidates, Reachable, IInv, TypeOK
    <3> QED
      BY <1>2, <3>1 DEF ReseedCluster
  <2>3. \/ \E killed \in SUBSET tasks : KillTasks(killed)
        \/ UNCHANGED <<task, owed>>
    BY <1>2 DEF ReseedCluster
  <2>4. /\ task' \in [Ids -> TaskStates] /\ owed' \in SUBSET Ids
        /\ \A k \in Ids : task[k] = "none" => task'[k] = "none"
    BY <2>3 DEF KillTasks, IInv, TypeOK, ClusterTypeOK, TaskStates
  <2>5. view' \in [Ids -> SUBSET Ids]
    BY <2>2 DEF ForceNewCluster, IInv, TypeOK, ClusterTypeOK
  <2>6. TypeOK'
    <3>1. ClusterTypeOK'
      BY <2>1, <2>4, <2>5 DEF IInv, TypeOK, ClusterTypeOK
    <3>2. reseeding' \in BOOLEAN
      BY <2>1
    <3> QED
      BY <2>1, <3>1, <3>2 DEF IInv, TypeOK, chanVars, launchVars, syncVars
  <2>7. NamesFresh'
    BY <2>1, <2>4 DEF IInv, NamesFresh
  <2> QED
    BY <2>1, <2>6, <2>7 DEF IInv, LaunchGate, PendingNotRunning,
       RunningHaveTasks, AtMostOnePending, launchVars
<1> QED
  BY <1>1, <1>2 DEF Reseed

-----------------------------------------------------------------------------
(* IInv is an invariant of the scheduler, whatever crashes, disconnections *)
(* and failed calls occur.                                                 *)
THEOREM SchedulerInvariant == Spec => []IInv
<1>1. IInv /\ [Next]_vars => IInv'
  <2> SUFFICES ASSUME IInv, [Next]_vars PROVE IInv'
    OBVIOUS
  <2>1. CASE Environment
    BY <2>1, EnvironmentFine
  <2>2. CASE Callbacks
    BY <2>2, RegistrationFine, OffersFine, StatusUpdateFine DEF Callbacks
  <2>3. CASE \E g \in Syncs : MasterSync(g)
    BY <2>3, MasterSyncFine
  <2>4. CASE SerialLauncher
    BY <2>4, SerialLauncherFine
  <2>5. CASE Periodic
    BY <2>5, PeriodicFine
  <2>6. CASE Reseed
    BY <2>6, ReseedFine
  <2>7. CASE Crash
    BY <2>7, ExitFine DEF Crash
  <2>8. CASE UNCHANGED vars
    <3>1. UNCHANGED clusterVars /\ UNCHANGED schedulerVars
      BY <2>8 DEF vars
    <3>2. ClusterTypeOK'
      BY <3>1 DEF clusterVars, IInv, TypeOK, ClusterTypeOK
    <3>3. TypeOK'
      BY <3>1, <3>2 DEF schedulerVars, stateVars, chanVars, launchVars,
         syncVars, reseedVars, IInv, TypeOK
    <3>4. LaunchGate' /\ NamesFresh' /\ PendingNotRunning'
            /\ RunningHaveTasks' /\ AtMostOnePending'
      BY <3>1 DEF clusterVars, schedulerVars, stateVars, launchVars, IInv,
         LaunchGate, NamesFresh, PendingNotRunning, RunningHaveTasks,
         AtMostOnePending
    <3> QED
      BY <3>3, <3>4 DEF IInv
  <2> QED
    BY <2>1, <2>2, <2>3, <2>4, <2>5, <2>6, <2>7, <2>8 DEF Next
<1> QED
  BY <1>1, InitFine, PTL DEF Spec

(* launchOne's launches are serial: at most one task is between LaunchTasks *)
(* and its first status update, although shouldLaunch and the critical      *)
(* section that adds to s.pending are two separate holds of s.mut.          *)
THEOREM LaunchesSerial == Spec => []AtMostOnePending
<1>1. IInv => AtMostOnePending
  BY DEF IInv
<1> QED
  BY <1>1, SchedulerInvariant, PTL

(* launchOne never reuses a name, across status updates of tasks of earlier *)
(* schedulers and across restarts, which start from the clock.              *)
THEOREM NamesNeverReused == Spec => []NamesFresh
<1>1. IInv => NamesFresh
  BY DEF IInv
<1> QED
  BY <1>1, SchedulerInvariant, PTL

(* s.pending and s.running stay disjoint through StatusUpdate, Initialize   *)
(* and launchOne.                                                           *)
THEOREM PendingApartFromRunning == Spec => []PendingNotRunning
<1>1. IInv => PendingNotRunning
  BY DEF IInv
<1> QED
  BY <1>1, SchedulerInvariant, PTL

(* reseedCluster, which kills the tasks in s.tasks, reaches every node in   *)
(* s.running.                                                               *)
THEOREM RunningKillable == Spec => []RunningHaveTasks
<1>1. IInv => RunningHaveTasks
  BY DEF IInv
<1> QED
  BY <1>1, SchedulerInvariant, PTL

(* Every variable of the scheduler keeps its type; launchChan and pauseChan *)
(* stay within their capacity.                                              *)
THEOREM SchedulerTypes == Spec => []TypeOK
<1>1. IInv => TypeOK
  BY DEF IInv
<1> QED
  BY <1>1, SchedulerInvariant, PTL
-----------------------------------------------------------------------------
(* The driver keeps its master, and nobody asks for a reseed.              *)
OneRegistration ==
  /\ "disconnect" \notin Faults
  /\ "reseed" \notin Faults
  /\ ~autoReseedEnabled

(* What is left of it then: one attemptMasterSync, that of the only        *)
(* registration of the process; the scheduler is Immutable while it runs;  *)
(* a task it has read is still to be heard of, and in reconciliationInfo   *)
(* until it is; and it has heard of all of them when it has waited.        *)
OneSync ==
  /\ connected <=> registered
  /\ reseedWaiting = 0 /\ ~reseeding
  /\ lastSync = 0 <=> ~registered
  /\ ~registered => state = "Immutable"
  /\ \A g \in Syncs :
       /\ syncPc[g] # "off" => g = lastSync /\ state = "Immutable"
       /\ syncPc[g] \in {"reconcile", "wait"} =>
            syncPrev[g] \subseteq reconciliationInfo \cup heardFrom
       /\ g = lastSync /\ syncPc[g] \in {"commit", "off"} =>
            syncPrev[g] \subseteq heardFrom

LEMMA OneSyncInit == Init => OneSync
  BY DEF Init, ClusterInit, OneSync, Syncs

LEMMA OneSyncExit == Exit => OneSync'
  BY DEF Exit, OneSync, Syncs

\* What such a scheduler never does.
LEMMA NoFailover ==
  ASSUME OneRegistration, OneSync
  PROVE  ~Reregistered /\ ~Disconnected /\ ~Reseed
<1>1. ~Reregistered
  BY DEF Reregistered, OneSync
<1>2. ~Disconnected
  BY DEF Disconnected, OneRegistration
<1>3. ~AdminReseed
  BY DEF AdminReseed, OneRegistration
<1>4. ~ReseedCas
  BY DEF ReseedCas, OneSync
<1>5. ~ReseedCluster
  BY DEF ReseedCluster, OneSync
<1> QED
  BY <1>1, <1>2, <1>3, <1>4, <1>5 DEF Reseed

\* Steps that touch none of what OneSync is about.
LEMMA OneSyncFrame ==
  ASSUME OneSync, UNCHANGED <<connected, state, heardFrom, reconciliationInfo,
                              registered, syncPc, syncPrev, lastSync,
                              reseedVars>>
  PROVE  OneSync'
  BY DEF OneSync, reseedVars

LEMMA OneSyncEnvironment == ASSUME OneSync, Environment PROVE OneSync'
<1>1. UNCHANGED <<connected, schedulerVars>>
  BY DEF Environment, ClusterStep, ClusterProgress, ExecutorConfigures,
     ExecutorRuns, ExecutorFails, EtcdStarts, EtcdGivesUp, TaskDies,
     MasterLearns
<1> QED
  BY <1>1, OneSyncFrame DEF schedulerVars, stateVars, syncVars

LEMMA OneSyncCallbacks ==
  ASSUME OneRegistration, IInv, OneSync, Callbacks
  PROVE  OneSync'
<1>1. CASE Registered
  <2>1. PICK g \in Syncs :
          /\ syncPc[g] = "off"
          /\ syncPc' = [syncPc EXCEPT ![g] = "read"]
          /\ syncPrev' = [syncPrev EXCEPT ![g] = {}]
          /\ lastSync' = g
    BY <1>1 DEF Registered, Initialize
  <2>2. /\ ~registered /\ connected' /\ registered' /\ state' = state
        /\ UNCHANGED reseedVars
    BY <1>1 DEF Registered, Initialize
  <2>3. \A h \in Syncs : h # g => syncPc'[h] = "off"
    <3>1. \A h \in Syncs : syncPc[h] = "off"
      BY <2>2 DEF OneSync, Syncs
    <3> QED
      BY <2>1, <3>1 DEF IInv, TypeOK
  <2>4. syncPc'[g] = "read"
    BY <2>1 DEF IInv, TypeOK
  <2> QED
    BY <2>1, <2>2, <2>3, <2>4 DEF OneSync, reseedVars, Syncs
<1>2. CASE Reregistered \/ Disconnected
  BY <1>2, NoFailover
<1>3. ASSUME NEW s \in Slaves, ResourceOffers(s) \/ OfferLeaves(s)
      PROVE  OneSync'
  BY <1>3, OneSyncFrame DEF ResourceOffers, OfferLeaves, clusterVars,
     stateVars, syncVars
<1>4. ASSUME NEW n \in Ids, StatusUpdate(n)
      PROVE  OneSync'
  <2>1. /\ heardFrom' = heardFrom \cup {n}
        /\ reconciliationInfo \subseteq reconciliationInfo' \cup {n}
        /\ state' \in {state, "Immutable"}
    BY <1>4 DEF StatusUpdate, Contraction, NowRunning, Unhandled
  <2>2. UNCHANGED <<connected, syncVars, reseedVars>>
    BY <1>4 DEF StatusUpdate
  <2> QED
    BY <2>1, <2>2 DEF OneSync, syncVars, reseedVars
<1> QED
  BY <1>1, <1>2, <1>3, <1>4 DEF Callbacks

LEMMA OneSyncMasterSync ==
  ASSUME IInv, OneSync, NEW g \in Syncs, MasterSync(g)
  PROVE  OneSync'
<1>1. CASE SyncAgain(g) /\ syncPc[g] # "off"
  <2>1. CASE syncRetry[g] + 1 < SyncRetries
    BY <1>1, <2>1 DEF SyncAgain, OneSync, IInv, TypeOK, clusterVars, stateVars,
       reseedVars
  <2> QED
    BY <1>1, <2>1, OneSyncExit DEF SyncAgain
<1>2. CASE SyncRead(g)
  BY <1>2 DEF SyncRead, SyncStep, OneSync, IInv, TypeOK, clusterVars,
     stateVars, reseedVars
<1>3. CASE SyncStore(g)
  BY <1>3 DEF SyncStore, SyncStep, OneSync, IInv, TypeOK, clusterVars,
     reseedVars
<1>4. CASE SyncReconcile(g)
  BY <1>4 DEF SyncReconcile, SyncStep, OneSync, IInv, TypeOK, stateVars,
     reseedVars
<1>5. CASE SyncWaitOk(g)
  BY <1>5 DEF SyncWaitOk, isInSync, SyncStep, OneSync, IInv, TypeOK,
     clusterVars, stateVars, reseedVars
<1>6. CASE SyncCommit(g)
  <2>1. g = lastSync /\ registered /\ syncPrev[g] \subseteq heardFrom
    <3>1. syncPc[g] = "commit"
      BY <1>6 DEF SyncCommit, SyncStep
    <3>2. g = lastSync /\ g # 0
      BY <3>1 DEF OneSync, Syncs
    <3> QED
      BY <3>1, <3>2 DEF OneSync
  <2>2. \A h \in Syncs : syncPc'[h] = "off"
    BY <1>6, <2>1 DEF SyncCommit, SyncStep, OneSync, IInv, TypeOK
  <2> QED
    BY <1>6, <2>1, <2>2 DEF SyncCommit, OneSync, clusterVars, reseedVars
<1> QED
  BY <1>1, <1>2, <1>3, <1>4, <1>5, <1>6
     DEF MasterSync, SyncReadFails, SyncReconcileFails, SyncWaitFails

LEMMA OneSyncOthers ==
  ASSUME OneRegistration, IInv, OneSync,
         SerialLauncher \/ Periodic \/ UNCHANGED vars
  PROVE  OneSync'
<1>1. CASE SerialLauncher
  <2>1. UNCHANGED <<connected, state, heardFrom, reconciliationInfo, syncVars,
                    reseedVars>>
    <3>1. ASSUME NEW pc, NEW next, ShouldLaunch(pc, next)
          PROVE  UNCHANGED reseedVars
      BY <3>1 DEF ShouldLaunch, shouldLaunch, OneRegistration, reseedVars
    <3> QED
      BY <1>1, <3>1 DEF SerialLauncher, Drain, SelectPause, SelectLaunch,
         LauncherOnly, Prune, Pop, Commit, LaunchTasks, ShouldLaunch,
         clusterVars, stateVars
  <2> QED
    BY <2>1, OneSyncFrame DEF syncVars
<1>2. CASE Periodic
  BY <1>2, OneSyncFrame DEF Periodic, PeriodicReconciler,
     PeriodicLaunchRequestor, LivelockExpires, clusterVars, stateVars, syncVars
<1>3. CASE UNCHANGED vars
  BY <1>3, OneSyncFrame DEF vars, schedulerVars, clusterVars, stateVars,
     syncVars
<1> QED
  BY <1>1, <1>2, <1>3

LEMMA OneSyncStep ==
  ASSUME OneRegistration, IInv, OneSync, [Next]_vars
  PROVE  OneSync'
  BY NoFailover, OneSyncEnvironment, OneSyncCallbacks, OneSyncMasterSync,
     OneSyncOthers, OneSyncExit DEF Next, Crash

(* Where the scheduler registers once per process there is one             *)
(* attemptMasterSync, which keeps it Immutable until it has heard of all   *)
(* it has read.                                                            *)
THEOREM RegistersOnce == ASSUME OneRegistration PROVE Spec => []OneSync
<1>1. IInv /\ OneSync /\ [Next]_vars => OneSync'
  BY OneSyncStep
<1> QED
  BY <1>1, OneSyncInit, SchedulerInvariant, PTL DEF Spec

(* A scheduler that registers once per process is Mutable only when it has *)
(* heard of every task in the ZooKeeper record, across crashes, failed     *)
(* attempts and whatever status updates arrive in between.                 *)
THEOREM SyncBeforeLaunch ==
  ASSUME OneRegistration
  PROVE  Spec => []SyncedBeforeMutable
<1>1. IInv /\ OneSync => SyncedBeforeMutable
  BY DEF OneSync, SyncedBeforeMutable, IInv, TypeOK, Syncs
<1> QED
  BY <1>1, SchedulerInvariant, RegistersOnce, PTL

-----------------------------------------------------------------------------
(* From here on the process does not die either.                           *)
=============================================================================
