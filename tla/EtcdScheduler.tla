--------------------------- MODULE EtcdScheduler ---------------------------
(***************************************************************************)
(* The scheduler, scheduler/scheduler.go, with the tasks, the etcd cluster *)
(* and the ZooKeeper record it manages (module Cluster).                   *)
(*                                                                         *)
(* Goroutines of the scheduler process and the steps they take:            *)
(*   - the driver's callbacks, one at a time, each one step;               *)
(*   - SerialLauncher: launchOne takes s.mut several times, and everything *)
(*     may change between two critical sections;                           *)
(*   - one attemptMasterSync per (re)registration; an old one goes on      *)
(*     running after a new registration;                                   *)
(*   - reseedCluster, and the periodic goroutines.                         *)
(* A section under s.mut is one step, calls to etcd and ZooKeeper that it  *)
(* makes included.  Sleeps and timeouts are steps that may happen at any   *)
(* time.  The offer cache is the set of slaves with a cached offer (one    *)
(* per slave, -single-instance-per-slave being the default; OfferFlow has  *)
(* the details); an offer that is declined leaves no trace here.           *)
(***************************************************************************)
EXTENDS Cluster

CONSTANTS
  desiredInstanceCount,
  autoReseedEnabled,
  MaxSyncs,    \* bound: attemptMasterSync goroutines at any one time
  SyncRetries, \* attempts of attemptMasterSync (5 in the code)
  ChanCap,     \* capacity of launchChan and pauseChan (2048 in the code)
  MaxReseeds   \* bound: reseedCluster goroutines that have yet to start

ASSUME SchedulerAssumption ==
  /\ desiredInstanceCount \in Nat \ {0}
  /\ autoReseedEnabled \in BOOLEAN
  /\ MaxSyncs \in Nat
  /\ SyncRetries \in Nat \ {0}
  /\ ChanCap \in Nat \ {0}
  /\ MaxReseeds \in Nat

VARIABLES
  state,              \* "Immutable" or "Mutable"
  pending, running, tasks, heardFrom, reconciliationInfo,
  highestInstanceID,
  livelockWindow,     \* "nil", "recent", or "expired": past reseedTimeout
  launchChan, pauseChan,
  offers,             \* slaves with an offer in the cache
  launchPc, launchOffer, launchTask,   \* SerialLauncher and its locals
  registered,         \* this process has registered before
  syncPc, syncPrev, syncRetry,         \* per attemptMasterSync goroutine
  lastSync,           \* the goroutine of the last registration
  reseedWaiting,      \* reseedCluster goroutines that have yet to do the CAS
  reseeding           \* the CAS flag

stateVars == <<state, pending, running, tasks, heardFrom, reconciliationInfo,
               highestInstanceID, livelockWindow>>
chanVars == <<launchChan, pauseChan>>
launchVars == <<launchPc, launchOffer, launchTask>>
syncVars == <<registered, syncPc, syncPrev, syncRetry, lastSync>>
reseedVars == <<reseedWaiting, reseeding>>

schedulerVars == <<stateVars, chanVars, offers, launchVars, syncVars,
                   reseedVars>>

vars == <<clusterVars, schedulerVars>>

LaunchPcs == {"drain", "select", "prune", "should1", "pop", "should2",
              "commit", "send"}

SyncPcs == {"off", "read", "store", "reconcile", "wait", "commit"}

Syncs == 1..MaxSyncs

TypeOK ==
  /\ ClusterTypeOK
  /\ state \in {"Immutable", "Mutable"}
  /\ pending \in SUBSET Ids
  /\ running \in SUBSET Ids
  /\ tasks \in SUBSET Ids
  /\ heardFrom \in SUBSET Ids
  /\ reconciliationInfo \in SUBSET Ids
  /\ highestInstanceID \in Nat
  /\ livelockWindow \in {"nil", "recent", "expired"}
  /\ launchChan \in 0..ChanCap
  /\ pauseChan \in 0..ChanCap
  /\ offers \in SUBSET Slaves
  /\ launchPc \in LaunchPcs
  /\ launchOffer \in Slaves \cup {NoSlave}
  /\ launchTask \in Ids \cup {0}
  /\ registered \in BOOLEAN
  /\ syncPc \in [Syncs -> SyncPcs]
  /\ syncPrev \in [Syncs -> SUBSET Ids]
  /\ syncRetry \in [Syncs -> Nat]
  /\ lastSync \in Syncs \cup {0}
  /\ reseedWaiting \in Nat
  /\ reseeding \in BOOLEAN

(* NewEtcdScheduler and main.                                              *)
Init ==
  /\ ClusterInit
  /\ state = "Immutable"
  /\ pending = {} /\ running = {} /\ tasks = {}
  /\ heardFrom = {} /\ reconciliationInfo = {}
  /\ highestInstanceID = 0
  /\ livelockWindow = "nil"
  /\ launchChan = 0 /\ pauseChan = 0
  /\ offers = {}
  /\ launchPc = "drain" /\ launchOffer = NoSlave /\ launchTask = 0
  /\ registered = FALSE
  /\ syncPc = [g \in Syncs |-> "off"]
  /\ syncPrev = [g \in Syncs |-> {}]
  /\ syncRetry = [g \in Syncs |-> 0]
  /\ lastSync = 0
  /\ reseedWaiting = 0 /\ reseeding = FALSE

(* The process exits, by shutdown, driver.Abort or a crash, and is started *)
(* again.  Ids start from the seconds since the epoch and launches are     *)
(* further apart, so the clock is past every id a task has.                *)
ClockReadings ==
  {c \in 0..MaxId : /\ c = 0 \/ task[c] # "none"
                    /\ \A n \in Ids : task[n] # "none" => n <= c}

Exit ==
  /\ connected' = FALSE
  /\ task' = [n \in Ids |-> IF task[n] = "refused" THEN "dead" ELSE task[n]]
  /\ state' = "Immutable"
  /\ pending' = {} /\ running' = {} /\ tasks' = {}
  /\ heardFrom' = {} /\ reconciliationInfo' = {}
  /\ highestInstanceID' \in ClockReadings
  /\ livelockWindow' = "nil"
  /\ launchChan' = 0 /\ pauseChan' = 0
  /\ offers' = {}
  /\ launchPc' = "drain" /\ launchOffer' = NoSlave /\ launchTask' = 0
  /\ registered' = FALSE
  /\ syncPc' = [g \in Syncs |-> "off"]
  /\ syncPrev' = [g \in Syncs |-> {}]
  /\ syncRetry' = [g \in Syncs |-> 0]
  /\ lastSync' = 0
  /\ reseedWaiting' = 0 /\ reseeding' = FALSE
  /\ UNCHANGED <<slaveOf, data, owed, view, named, zk>>

Crash == "crash" \in Faults /\ registered /\ Exit

-----------------------------------------------------------------------------
(* Sends that drop the signal when the channel is full.                    *)

\* Mutant: the send does not look whether the channel is full.
SignalUnbounded(c) == c + 1

Signal(c) == IF c < ChanCap THEN c + 1 ELSE c

QueueLaunchAttempt == launchChan' = Signal(launchChan)

PumpTheBrakes == pauseChan' = Signal(pauseChan)

-----------------------------------------------------------------------------
(* Driver callbacks.                                                       *)

Initialize ==
  /\ running' = {}
  /\ heardFrom' = {}
  /\ reconciliationInfo' = {}
  /\ \E g \in Syncs :
       /\ syncPc[g] = "off"
       /\ syncPc' = [syncPc EXCEPT ![g] = "read"]
       /\ syncPrev' = [syncPrev EXCEPT ![g] = {}]
       /\ syncRetry' = [syncRetry EXCEPT ![g] = 0]
       /\ lastSync' = g
  /\ UNCHANGED <<state, pending, tasks, highestInstanceID, livelockWindow>>

\* The first registration of a process.  (When the framework id cannot be
\* persisted the process exits.)
Registered ==
  /\ ~connected
  /\ ~registered
  /\ connected' = TRUE
  /\ registered' = TRUE
  /\ Initialize
  /\ UNCHANGED <<task, slaveOf, data, owed, view, named, zk, chanVars, offers,
                 launchVars, reseedVars>>

Reregistered ==
  /\ ~connected
  /\ registered
  /\ connected' = TRUE
  /\ Initialize
  /\ UNCHANGED <<task, slaveOf, data, owed, view, named, zk, chanVars, offers,
                 launchVars, registered, reseedVars>>

Disconnected ==
  /\ "disconnect" \in Faults
  /\ connected
  /\ connected' = FALSE
  /\ state' = "Immutable"
  /\ UNCHANGED <<task, slaveOf, data, owed, view, named, zk, pending, running,
                 tasks, heardFrom, reconciliationInfo, highestInstanceID,
                 livelockWindow, chanVars, offers, launchVars, syncVars,
                 reseedVars>>

SlaveInUse(s) == \E n \in running : slaveOf[n] = s

\* An offer of slave s is cached; in all other cases it is declined.
ResourceOffers(s) ==
  /\ connected
  /\ state = "Mutable"
  /\ ~SlaveInUse(s)
  /\ Cardinality(offers) < desiredInstanceCount
  /\ s \notin offers
  /\ offers' = offers \cup {s}
  /\ QueueLaunchAttempt
  /\ UNCHANGED <<clusterVars, stateVars, pauseChan, launchVars, syncVars,
                 reseedVars>>

\* The timer of a cached offer declines it, or OfferRescinded drops it.
OfferLeaves(s) ==
  /\ s \in offers
  /\ offers' = offers \ {s}
  /\ UNCHANGED <<clusterVars, stateVars, chanVars, launchVars, syncVars,
                 reseedVars>>

-----------------------------------------------------------------------------
(* StatusUpdate.                                                           *)

\* Mutant: the task is not deleted from s.running.
ContractionKeepsRunning(n) ==
  /\ PumpTheBrakes
  /\ pending' = pending \ {n}
  /\ tasks' = tasks \ {n}
  /\ reconciliationInfo' = reconciliationInfo \ {n}
  /\ QueueLaunchAttempt
  /\ UNCHANGED <<state, running, highestInstanceID, zk>>

\* A terminal state: the task is forgotten, and the scheduler locks itself
\* if it was the last one running.
Contraction(n) ==
  /\ PumpTheBrakes
  /\ pending' = pending \ {n}
  /\ running' = running \ {n}
  /\ tasks' = tasks \ {n}
  /\ reconciliationInfo' = reconciliationInfo \ {n}
  /\ QueueLaunchAttempt
  /\ state' = IF running \ {n} = {} THEN "Immutable" ELSE state
  /\ UNCHANGED <<highestInstanceID, zk>>

\* Mutants: only the new task is persisted; the task stays pending.
NowRunningPersistsOne(n) ==
  /\ reconciliationInfo' = reconciliationInfo \cup {n}
  /\ zk' = {n}
  /\ pending' = pending \ {n}
  /\ running' = running \cup {n}
  /\ tasks' = tasks \cup {n}
  /\ UNCHANGED <<highestInstanceID, state, chanVars>>

NowRunningStaysPending(n) ==
  /\ reconciliationInfo' = reconciliationInfo \cup {n}
  /\ zk' = reconciliationInfo'
  /\ running' = running \cup {n}
  /\ tasks' = tasks \cup {n}
  /\ UNCHANGED <<pending, highestInstanceID, state, chanVars>>

\* TASK_RUNNING: recorded, persisted (a failure is only logged), and no
\* longer pending.
NowRunning(n) ==
  /\ reconciliationInfo' = reconciliationInfo \cup {n}
  /\ \/ zk' = reconciliationInfo'
     \/ Flaky /\ UNCHANGED zk
  /\ pending' = pending \ {n}
  /\ running' = running \cup {n}
  /\ tasks' = IF n \in running THEN tasks ELSE tasks \cup {n}
  /\ highestInstanceID' =
       IF n > highestInstanceID THEN n + 1 ELSE highestInstanceID
  /\ UNCHANGED <<state, chanVars>>

\* TASK_STAGING, which the master may report when asked, is not handled.
Unhandled ==
  UNCHANGED <<state, pending, running, tasks, reconciliationInfo,
              highestInstanceID, zk, chanVars>>

(* The master, or for a refused launch the driver, reports task n's state. *)
StatusUpdate(n) ==
  /\ n \in owed
  /\ connected \/ task[n] = "refused"
  /\ owed' = owed \ {n}
  /\ heardFrom' = heardFrom \cup {n}
  /\ task' = [task EXCEPT ![n] = IF @ = "refused" THEN "dead" ELSE @]
  /\ CASE task[n] \in {"running", "failing"} -> NowRunning(n)
       [] task[n] \in {"staging", "joining"} -> Unhandled
       [] OTHER -> Contraction(n)
  /\ UNCHANGED <<connected, slaveOf, data, view, named, livelockWindow, offers,
                 launchVars, syncVars, reseedVars>>

-----------------------------------------------------------------------------
(* attemptMasterSync, goroutine g.                                         *)

SyncStep(g, from, to) ==
  /\ syncPc[g] = from
  /\ syncPc' = [syncPc EXCEPT ![g] = to]

\* The attempt failed; after the last one the process exits.
SyncAgain(g) ==
  IF syncRetry[g] + 1 < SyncRetries
  THEN /\ syncPc' = [syncPc EXCEPT ![g] = "read"]
       /\ syncRetry' = [syncRetry EXCEPT ![g] = @ + 1]
       /\ UNCHANGED <<clusterVars, stateVars, chanVars, offers, launchVars,
                      registered, syncPrev, lastSync, reseedVars>>
  ELSE Exit

SyncRead(g) ==
  /\ SyncStep(g, "read", "store")
  /\ syncPrev' = [syncPrev EXCEPT ![g] = zk]
  /\ UNCHANGED <<clusterVars, stateVars, chanVars, offers, launchVars,
                 registered, syncRetry, lastSync, reseedVars>>

SyncReadFails(g) == syncPc[g] = "read" /\ Flaky /\ SyncAgain(g)

SyncStore(g) ==
  /\ SyncStep(g, "store", "reconcile")
  /\ reconciliationInfo' = syncPrev[g]
  /\ UNCHANGED <<clusterVars, state, pending, running, tasks, heardFrom,
                 highestInstanceID, livelockWindow, chanVars, offers,
                 launchVars, registered, syncPrev, syncRetry, lastSync,
                 reseedVars>>

\* Implicit and explicit reconciliation.
SyncReconcile(g) ==
  /\ connected
  /\ SyncStep(g, "reconcile", "wait")
  /\ owed' = owed \cup {n \in Ids : Known(n)} \cup syncPrev[g]
  /\ UNCHANGED <<connected, task, slaveOf, data, view, named, zk, stateVars,
                 chanVars, offers, launchVars, registered, syncPrev,
                 syncRetry, lastSync, reseedVars>>

\* ReconcileTasks returns an error when the driver is not connected.
SyncReconcileFails(g) ==
  syncPc[g] = "reconcile" /\ ~connected /\ SyncAgain(g)

\* Mutant: one answer is enough.
isInSyncAny == reconciliationInfo = {} \/ reconciliationInfo \cap heardFrom # {}

isInSync == reconciliationInfo \subseteq heardFrom

SyncWaitOk(g) ==
  /\ isInSync
  /\ SyncStep(g, "wait", "commit")
  /\ UNCHANGED <<clusterVars, stateVars, chanVars, offers, launchVars,
                 registered, syncPrev, syncRetry, lastSync, reseedVars>>

\* waitForMasterSync gives up.
SyncWaitFails(g) == syncPc[g] = "wait" /\ ~isInSync /\ SyncAgain(g)

SyncCommit(g) ==
  /\ SyncStep(g, "commit", "off")
  /\ state' = "Mutable"
  /\ UNCHANGED <<clusterVars, pending, running, tasks, heardFrom,
                 reconciliationInfo, highestInstanceID, livelockWindow,
                 chanVars, offers, launchVars, registered, syncPrev,
                 syncRetry, lastSync, reseedVars>>

MasterSync(g) ==
  \/ SyncRead(g) \/ SyncReadFails(g) \/ SyncStore(g) \/ SyncReconcile(g)
  \/ SyncReconcileFails(g) \/ SyncWaitOk(g) \/ SyncWaitFails(g)
  \/ SyncCommit(g)

-----------------------------------------------------------------------------
(* SerialLauncher and launchOne.                                           *)

Goto(pc) ==
  /\ launchPc' = pc
  /\ UNCHANGED <<launchOffer, launchTask>>

\* launchOne returns.
LaunchReturn == launchPc' = "drain" /\ launchOffer' = NoSlave /\ launchTask' = 0

LauncherOnly ==
  UNCHANGED <<clusterVars, stateVars, offers, syncVars, reseedVars>>

\* Pause signals come first ...
Drain ==
  /\ launchPc = "drain"
  /\ IF pauseChan > 0
     THEN pauseChan' = pauseChan - 1 /\ UNCHANGED launchVars
     ELSE Goto("select") /\ UNCHANGED pauseChan
  /\ UNCHANGED launchChan
  /\ LauncherOnly

\* ... then pause and launch signals in any order.
SelectPause ==
  /\ launchPc = "select"
  /\ pauseChan > 0
  /\ pauseChan' = pauseChan - 1
  /\ Goto("drain")
  /\ UNCHANGED launchChan
  /\ LauncherOnly

SelectLaunch ==
  /\ launchPc = "select"
  /\ launchChan > 0
  /\ launchChan' = launchChan - 1
  /\ Goto("prune")
  /\ UNCHANGED pauseChan
  /\ LauncherOnly

\* Mutants: s.running is not looked at; tasks once heard of are spared.
UnknownIgnoresRunning(list) == {k \in list : k \in named => k \notin pending}

UnknownSparesDead(list) ==
  {k \in list : k \in named => k \notin running \cup pending \cup heardFrom}

\* Members that Prune takes to be unknown.  The name "" of a member that has
\* not started is never that of a running or pending task.
Unknown(list) == {k \in list : k \in named => k \notin running \cup pending}

(* Prune removes one unknown member, if there is one and its cluster       *)
(* commits the change.                                                     *)
Prune ==
  /\ launchPc = "prune"
  /\ Goto("should1")
  /\ \/ /\ state = "Mutable"
        /\ \E m \in Reachable(running) : \E k \in Unknown(view[m]) :
             Quorum(m) /\ RemoveMember(m, k)
     \/ /\ \/ state # "Mutable"
           \/ Flaky
           \/ Reachable(running) = {}
           \/ \E m \in Reachable(running) : Unknown(view[m]) = {} \/ ~Quorum(m)
        /\ UNCHANGED view
  /\ UNCHANGED <<connected, task, slaveOf, data, owed, named, zk, stateVars,
                 chanVars, offers, syncVars, reseedVars>>

\* Mutant: pending tasks are not waited for.
CannotLaunchHasty(members) ==
  \/ state # "Mutable"
  \/ reseeding
  \/ Cardinality(running) >= desiredInstanceCount
  \/ ListLen(members) = desiredInstanceCount

CannotLaunch(members) ==
  \/ state # "Mutable"
  \/ reseeding
  \/ pending # {}
  \/ Cardinality(running) >= desiredInstanceCount
  \/ ListLen(members) = desiredInstanceCount

(* shouldLaunch: when it says yes launchOne goes on at next, else it       *)
(* returns (declining the offer, if it has one).                           *)
shouldLaunch(next) ==
  \E members \in MemberList(running), zkUp \in {TRUE, ~Flaky},
     healthy \in HealthCheck(running) :
    IF CannotLaunch(members) \/ ~zkUp
    THEN LaunchReturn /\ UNCHANGED <<livelockWindow, reseedWaiting>>
    ELSE IF healthy
    THEN Goto(next) /\ livelockWindow' = "nil" /\ UNCHANGED reseedWaiting
    ELSE /\ LaunchReturn
         /\ livelockWindow' =
              IF livelockWindow = "nil" THEN "recent" ELSE livelockWindow
         /\ IF livelockWindow = "expired" /\ autoReseedEnabled
            THEN /\ reseedWaiting < MaxReseeds
                 /\ reseedWaiting' = reseedWaiting + 1
            ELSE UNCHANGED reseedWaiting

ShouldLaunch(pc, next) ==
  /\ launchPc = pc
  /\ shouldLaunch(next)
  /\ UNCHANGED <<clusterVars, state, pending, running, tasks, heardFrom,
                 reconciliationInfo, highestInstanceID, chanVars, offers,
                 syncVars, reseeding>>

\* Mutant: validOffer is not asked.
PopAnyOffer(s) ==
  /\ launchPc = "pop"
  /\ s \in offers
  /\ offers' = offers \ {s}
  /\ launchPc' = "should2" /\ launchOffer' = s /\ UNCHANGED launchTask
  /\ UNCHANGED <<clusterVars, stateVars, chanVars, syncVars, reseedVars>>

\* BlockingPop and validOffer: an offer of a slave in use is declined.
Pop(s) ==
  /\ launchPc = "pop"
  /\ s \in offers
  /\ offers' = offers \ {s}
  /\ IF SlaveInUse(s)
     THEN UNCHANGED launchVars
     ELSE launchPc' = "should2" /\ launchOffer' = s /\ UNCHANGED launchTask
  /\ UNCHANGED <<clusterVars, stateVars, chanVars, syncVars, reseedVars>>

\* Mutant: the id is used but not counted.
CommitReusesId ==
  LET n == highestInstanceID + 1 IN
  /\ launchPc = "commit"
  /\ n \in Ids
  /\ pending' = pending \cup {n}
  /\ data' = [data EXCEPT ![n] = running]
  /\ slaveOf' = [slaveOf EXCEPT ![n] = launchOffer]
  /\ launchPc' = "send" /\ launchTask' = n
  /\ UNCHANGED <<connected, task, owed, view, named, zk, state, running, tasks,
                 heardFrom, reconciliationInfo, highestInstanceID,
                 livelockWindow, chanVars, offers, launchOffer, syncVars,
                 reseedVars>>

\* The task is named, told of the running nodes, and pending.
Commit ==
  LET n == highestInstanceID + 1 IN
  /\ launchPc = "commit"
  /\ n \in Ids
  /\ highestInstanceID' = n
  /\ pending' = pending \cup {n}
  /\ data' = [data EXCEPT ![n] = running]
  /\ slaveOf' = [slaveOf EXCEPT ![n] = launchOffer]
  /\ launchPc' = "send" /\ launchTask' = n
  /\ UNCHANGED <<connected, task, owed, view, named, zk, state, running, tasks,
                 heardFrom, reconciliationInfo, livelockWindow, chanVars,
                 offers, launchOffer, syncVars, reseedVars>>

(* LaunchTasks.  A driver that is not connected reports the task lost; the *)
(* master may reject it; the message may be lost.                          *)
LaunchTasks ==
  /\ launchPc = "send"
  /\ \/ connected /\ SetTask(launchTask, "staging") /\ UNCHANGED owed
     \/ /\ IF connected
           THEN "reject" \in Faults /\ SetTask(launchTask, "dead")
           ELSE SetTask(launchTask, "refused")
        /\ owed' = owed \cup {launchTask}
     \/ connected /\ "lost" \in Faults /\ UNCHANGED <<task, owed>>
  /\ LaunchReturn
  /\ UNCHANGED <<connected, slaveOf, data, view, named, zk, stateVars, chanVars,
                 offers, syncVars, reseedVars>>

-----------------------------------------------------------------------------
(* Periodic goroutines.                                                    *)

\* Implicit reconciliation: the master sends the state of all it knows.
PeriodicReconciler ==
  /\ state = "Mutable"
  /\ connected
  /\ owed' = owed \cup {n \in Ids : Known(n)}
  /\ UNCHANGED <<connected, task, slaveOf, data, view, named, zk, stateVars,
                 chanVars, offers, launchVars, syncVars, reseedVars>>

PeriodicLaunchRequestor ==
  /\ Cardinality(running) < desiredInstanceCount
  /\ state = "Mutable"
  /\ QueueLaunchAttempt
  /\ UNCHANGED <<clusterVars, stateVars, pauseChan, offers, launchVars,
                 syncVars, reseedVars>>

\* reseedTimeout passes.
LivelockExpires ==
  /\ livelockWindow = "recent"
  /\ livelockWindow' = "expired"
  /\ UNCHANGED <<clusterVars, state, pending, running, tasks, heardFrom,
                 reconciliationInfo, highestInstanceID, chanVars, offers,
                 launchVars, syncVars, reseedVars>>

-----------------------------------------------------------------------------
(* reseedCluster.                                                          *)

\* An operator asks AdminHTTP for a reseed.
AdminReseed ==
  /\ "reseed" \in Faults
  /\ registered
  /\ reseedWaiting < MaxReseeds
  /\ reseedWaiting' = reseedWaiting + 1
  /\ UNCHANGED <<clusterVars, stateVars, chanVars, offers, launchVars,
                 syncVars, reseeding>>

\* The compare-and-swap; a second reseed at the same time returns.
ReseedCas ==
  /\ reseedWaiting > 0
  /\ reseedWaiting' = reseedWaiting - 1
  /\ reseeding' = TRUE
  /\ UNCHANGED <<clusterVars, stateVars, chanVars, offers, launchVars, syncVars>>

\* RankReseedCandidates: the nodes that answer.
Candidates ==
  IF Flaky THEN SUBSET Reachable(running) ELSE {Reachable(running)}

\* The nodes that restart with --force-new-cluster.
ForceNewCluster(nodes) ==
  view' = [n \in Ids |-> IF n \in nodes THEN {n} ELSE view[n]]

\* driver.KillTask for each: dropped when the driver is not connected, and
\* answered with TASK_LOST for a task the master does not know.
KillTasks(killed) ==
  IF connected
  THEN /\ task' = [n \in Ids |->
             IF n \in killed /\ task[n] = "running" THEN "failing" ELSE task[n]]
       /\ owed' = owed \cup {n \in killed : ~Known(n)}
  ELSE UNCHANGED <<task, owed>>

(* The rest of reseedCluster, all of it under s.mut: the best candidate    *)
(* that restarts and passes its health check is the new seed and all other *)
(* tasks are killed; the deferred function then unlocks the scheduler.     *)
(* Without a candidate the driver is aborted and the process ends.         *)
ReseedCluster ==
  /\ reseeding
  /\ \E candidates \in Candidates :
       IF candidates = {}
       THEN Exit
       ELSE /\ \/ \E newSeed \in candidates, failed \in SUBSET candidates :
                    /\ failed # {} => Flaky
                    /\ ForceNewCluster(failed \cup {newSeed})
                    /\ KillTasks(tasks \ {newSeed})
               \/ /\ Flaky
                  /\ \E failed \in SUBSET candidates : ForceNewCluster(failed)
                  /\ UNCHANGED <<task, owed>>
            /\ state' = "Mutable"
            /\ reseeding' = FALSE
            /\ UNCHANGED <<connected, slaveOf, data, named, zk, pending,
                           running, tasks, heardFrom, reconciliationInfo,
                           highestInstanceID, livelockWindow, chanVars,
                           offers, launchVars, syncVars, reseedWaiting>>

-----------------------------------------------------------------------------
Environment == \E n \in Ids : ClusterStep(n) /\ UNCHANGED schedulerVars

Callbacks ==
  \/ Registered \/ Reregistered \/ Disconnected
  \/ \E s \in Slaves : ResourceOffers(s) \/ OfferLeaves(s)
  \/ \E n \in Ids : StatusUpdate(n)

SerialLauncher ==
  \/ Drain \/ SelectPause \/ SelectLaunch \/ Prune
  \/ ShouldLaunch("should1", "pop")
  \/ \E s \in Slaves : Pop(s)
  \/ ShouldLaunch("should2", "commit")
  \/ Commit \/ LaunchTasks

Periodic == PeriodicReconciler \/ PeriodicLaunchRequestor \/ LivelockExpires

Reseed == AdminReseed \/ ReseedCas \/ ReseedCluster

Next ==
  \/ Environment \/ Callbacks \/ \E g \in Syncs : MasterSync(g)
  \/ SerialLauncher \/ Periodic \/ Reseed \/ Crash

Spec == Init /\ [][Next]_vars

(* Goroutines, executors and the master do not stop.  A cached offer that  *)
(* SerialLauncher waits for is taken before it expires, and the master     *)
(* offers the resources of a slave again and again.                        *)
Fairness ==
  /\ WF_vars(Registered) /\ WF_vars(Reregistered)
  /\ \A n \in Ids :
       WF_vars(ClusterProgress(n) /\ UNCHANGED schedulerVars)
         /\ WF_vars(StatusUpdate(n))
  /\ \A g \in Syncs : WF_vars(MasterSync(g))
  /\ \A s \in Slaves : WF_vars(ResourceOffers(s)) /\ SF_vars(Pop(s))
  /\ WF_vars(Drain) /\ WF_vars(SelectPause) /\ WF_vars(SelectLaunch)
  /\ WF_vars(Prune) /\ WF_vars(Commit) /\ WF_vars(LaunchTasks)
  /\ WF_vars(ShouldLaunch("should1", "pop"))
  /\ WF_vars(ShouldLaunch("should2", "commit"))
  /\ WF_vars(PeriodicReconciler) /\ WF_vars(PeriodicLaunchRequestor)
  /\ WF_vars(LivelockExpires) /\ WF_vars(ReseedCas) /\ WF_vars(ReseedCluster)

FairSpec == Spec /\ Fairness

-----------------------------------------------------------------------------
(* Properties that hold whatever fails.                                    *)

(* Launches are serial: shouldLaunch finds no pending task, and nothing    *)
(* becomes pending between its last call and launchOne's critical section, *)
(* so at most one task is between launch and its first status update.      *)
AtMostOnePending == \A m, n \in pending : m = n

(* The name launchOne is about to give was never that of a task Mesos has  *)
(* seen, nor is it in the scheduler's maps, across restarts, failovers and *)
(* launches that failed.                                                   *)
NamesFresh ==
  \A n \in Ids : n > highestInstanceID =>
    task[n] = "none" /\ n \notin pending \cup running \cup tasks

(* pending and running are disjoint: StatusUpdate moves a task from one to *)
(* the other, and Initialize, which empties running, leaves pending alone. *)
PendingNotRunning == pending \cap running = {}

(* Every running node can be killed: reseedCluster kills by s.tasks, which *)
(* Initialize does not reset.                                              *)
RunningHaveTasks == running \subseteq tasks

(* Properties that hold while the scheduler neither restarts nor loses the *)
(* master.                                                                 *)

(* No more tasks than asked for, even while offers, signals and status     *)
(* updates are in flight.                                                  *)
NeverOvershoots == Cardinality(running \cup pending) <= desiredInstanceCount

(* All live etcd nodes are in one cluster: a task founds a cluster only    *)
(* when no other is live, and a reseed leaves no survivor of the old one.  *)
OneCluster == \A a, b \in Reachable(Ids) : view[a] = view[b]

(* At most one live task per slave (-single-instance-per-slave).           *)
OneTaskPerSlave ==
  \A a, b \in Ids : Live(a) /\ Live(b) /\ slaveOf[a] = slaveOf[b] => a = b

(* Prune never removes a member whose etcd is up.                          *)
PruneSparesMembers ==
  [][launchPc = "prune" =>
       \A m \in Reachable(Ids) : \A k \in view[m] \ view'[m] :
         k \notin Reachable(Ids)]_vars

(* A task that is in the ZooKeeper record stays in it while it runs, so    *)
(* that the next failover will ask for it.                                 *)
RecordKeepsRunning ==
  [][\A n \in zk : task[n] = "running" => n \in zk']_vars

Pool == INSTANCE TaskPool WITH Names <- Ids, Size <- desiredInstanceCount,
                               pool <- running \cup pending, on <- slaveOf

(* The scheduler implements the task pool: a task gets into s.pending only *)
(* by launchOne, with room for it, a slave of its own and a new name; no   *)
(* status update, reconciliation or registration brings one back.          *)
PoolImplemented == Pool!PoolSpec

(* A Mutable scheduler has completed the synchronisation of its last       *)
(* registration: it has heard of every task that attemptMasterSync read    *)
(* from ZooKeeper, whatever updates came in between.                       *)
SyncedBeforeMutable ==
  state = "Mutable" =>
    /\ lastSync # 0
    /\ syncPc[lastSync] = "off"
    /\ syncPrev[lastSync] \subseteq heardFrom

-----------------------------------------------------------------------------
(* Liveness.                                                               *)

Full ==
  Cardinality({n \in running : task[n] = "running"}) = desiredInstanceCount

\* The scheduler has locked itself, or the model has no id for a launch.
Stopped == state = "Immutable" \/ (launchPc = "commit" /\ highestInstanceID >= MaxId)

QuorumLost == \E m \in Reachable(Ids) : ~Quorum(m)

(* The scheduler replaces nodes that die, unless it locks itself or the    *)
(* cluster has lost its quorum for good.                                   *)
ReplacesDead == <>[](Stopped \/ QuorumLost) \/ []<>Full

(* The same after reseeds, which kill all nodes but one: once the operator *)
(* stops asking for them the cluster grows back to its size.               *)
RegrowsAfterReseed == []<>reseeding \/ ReplacesDead

-----------------------------------------------------------------------------
(* What the repository says of the program, and the program does not do.   *)

(* docs/response.md:31: the scheduler "locks when it detects a total       *)
(* cluster loss, preventing it from launching any more tasks".             *)
NoLaunchWhenLocked == [][pending' \subseteq pending \/ state = "Mutable"]_vars

(* docs/bugs:55: Prune no longer kills a starting node whose name in the   *)
(* member list is "".                                                      *)
PruneSparesPending ==
  [][launchPc = "prune" =>
       \A m \in Reachable(Ids) : (view[m] \ view'[m]) \cap pending = {}]_vars

(* docs/response.md:25: when a majority of nodes is lost "the scheduler    *)
(* will perform an automatic reseed attempt after reseed-timeout seconds". *)
AutoReseeds == <>[]QuorumLost => []<>(reseeding \/ Stopped)
=============================================================================
