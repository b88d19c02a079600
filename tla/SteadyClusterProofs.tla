------------------------ MODULE SteadyClusterProofs ------------------------
(***************************************************************************)
(* Proofs about the etcd cluster of a scheduler that registers once and    *)
(* whose process does not die: its size, and what its members know of one  *)
(* another.                                                                *)
(***************************************************************************)
EXTENDS SteadyProofs, FiniteSetTheorems

USE ClusterAssumption, SchedulerAssumption

\* Sets of tasks can be counted.
LEMMA IdsFinite ==
  ASSUME NEW S \in SUBSET Ids
  PROVE  IsFiniteSet(S) /\ Cardinality(S) \in Nat
<1>1. IsFiniteSet(Ids)
  BY FS_Interval DEF Ids
<1>2. IsFiniteSet(S)
  BY <1>1, FS_Subset
<1> QED
  BY <1>2, FS_CardinalityType

(* The tasks are never more than asked for, and launchOne's critical       *)
(* section finds room for one.                                             *)
LaunchRoom ==
  /\ NeverOvershoots
  /\ launchPc = "commit" => Cardinality(running) < desiredInstanceCount

LEMMA LaunchRoomStep ==
  ASSUME OneProcess, IInv, IInv', OneSync, Tracking, LaunchRoom, [Next]_vars
  PROVE  LaunchRoom'
<1>1. /\ IsFiniteSet(running) /\ Cardinality(running) \in Nat
      /\ Cardinality(running') \in Nat
      /\ IsFiniteSet(running \cup pending)
      /\ Cardinality(running \cup pending) \in Nat
      /\ Cardinality(running' \cup pending') \in Nat
  BY IdsFinite DEF IInv, TypeOK
<1>2. CASE Commit
  <2> DEFINE n == highestInstanceID + 1
  <2>1. /\ pending = {} /\ pending' = {n} /\ running' = running
        /\ launchPc = "commit" /\ launchPc' = "send"
    BY <1>2 DEF Commit, IInv, LaunchGate
  <2>2. Cardinality(running \cup {n}) <= Cardinality(running) + 1
    <3> HIDE DEF n
    <3>1. Cardinality(running \cup {n}) = IF n \in running
            THEN Cardinality(running) ELSE Cardinality(running) + 1
      BY <1>1, FS_AddElement
    <3> QED
      BY <1>1, <3>1
  <2> QED
    BY <1>1, <2>1, <2>2 DEF LaunchRoom, NeverOvershoots
<1>3. CASE ~Commit
  <2>1. MapsStep
    BY <1>3, MapsStepOrCommit
  <2>2. Cardinality(running' \cup pending') <= Cardinality(running \cup pending)
    BY <1>1, <2>1, FS_Subset DEF MapsStep
  <2>3. launchPc' = "commit" => Cardinality(running') <= Cardinality(running)
    BY <1>1, <2>1, FS_Subset DEF MapsStep
  <2> QED
    <3>1. NeverOvershoots'
      BY <1>1, <2>2 DEF LaunchRoom, NeverOvershoots
    <3>2. launchPc' = "commit" => Cardinality(running) < desiredInstanceCount
      BY <1>1, <2>1 DEF MapsStep, LaunchRoom
    <3> QED
      BY <1>1, <2>3, <3>1, <3>2 DEF LaunchRoom
<1> QED
  BY <1>2, <1>3

(* launchOne's critical section finds room, and never more tasks than      *)
(* asked for, in every state.                                              *)
THEOREM RoomToLaunch == ASSUME OneProcess PROVE Spec => []LaunchRoom
<1>1. Init => LaunchRoom
  BY FS_EmptySet DEF Init, LaunchRoom, NeverOvershoots
<1>2. IInv /\ IInv' /\ OneSync /\ Tracking /\ LaunchRoom /\ [Next]_vars
        => LaunchRoom'
  BY LaunchRoomStep
<1>3. Spec => []OneSync
  BY RegistersOnce DEF OneProcess
<1>4. Spec => []Tracking
  BY TasksTracked
<1> QED
  BY <1>1, <1>2, <1>3, <1>4, SchedulerInvariant, PTL DEF Spec

(* A scheduler whose process lives and keeps its master never has more     *)
(* tasks than desiredInstanceCount between launchOne and the status        *)
(* updates, whatever tasks die and whatever launches and calls fail.       *)
THEOREM DesiredSizeKept == ASSUME OneProcess PROVE Spec => []NeverOvershoots
<1>1. LaunchRoom => NeverOvershoots
  BY DEF LaunchRoom
<1>2. Spec => []LaunchRoom
  BY RoomToLaunch
<1> QED
  BY <1>1, <1>2, PTL

-----------------------------------------------------------------------------
(* The task pool.  Only names that have been given have a slave; and until *)
(* the first synchronisation is over none has been given.                  *)
PoolFacts ==
  /\ Syncing => pending = {} /\ \A n \in Ids : slaveOf[n] = NoSlave
  /\ \A n \in Ids : n > highestInstanceID => slaveOf[n] = NoSlave

LEMMA PoolFactsStep ==
  ASSUME OneProcess, IInv, IInv', OneSync, Tracking, PoolFacts, [Next]_vars
  PROVE  PoolFacts'
<1>1. highestInstanceID \in Nat /\ highestInstanceID' \in Nat
  BY DEF IInv, TypeOK
<1>2. CASE Commit
  <2> DEFINE n == highestInstanceID + 1
  <2>1. /\ n \in Ids /\ highestInstanceID' = n
        /\ slaveOf' = [slaveOf EXCEPT ![n] = launchOffer]
        /\ UNCHANGED syncVars
    BY <1>2 DEF Commit
  <2>2. ~Syncing'
    BY <1>2, <2>1, LauncherConnected DEF Commit, Syncing, syncVars
  <2>3. \A k \in Ids : k > n => k > highestInstanceID /\ k # n
    BY <1>1 DEF Ids
  <2>4. \A k \in Ids \ {n} : slaveOf'[k] = slaveOf[k]
    BY <2>1 DEF IInv, TypeOK, ClusterTypeOK
  <2> HIDE DEF n
  <2> QED
    BY <2>1, <2>2, <2>3, <2>4 DEF PoolFacts
<1>3. ASSUME NEW n \in Ids, StatusUpdate(n) PROVE PoolFacts'
  <2>1. ~Syncing' /\ slaveOf' = slaveOf
    BY <1>3, UpdatedTask DEF StatusUpdate, Syncing, syncVars
  <2>2. highestInstanceID <= highestInstanceID'
    BY <1>1, <1>3 DEF StatusUpdate, Contraction, NowRunning, Unhandled, Ids
  <2>3. \A k \in Ids : k > highestInstanceID' => k > highestInstanceID
    BY <1>1, <2>2 DEF Ids
  <2> QED
    BY <2>1, <2>3 DEF PoolFacts
<1>4. CASE FirstSyncStep
  BY <1>4 DEF FirstSyncStep, PoolFacts
<1>5. CASE Environment \/ Prune \/ LaunchTasks \/ QuietStep
  <2>1. UNCHANGED <<slaveOf, pending, highestInstanceID, syncVars>>
    <3>1. CASE Environment
      BY <3>1, ClusterStepEffect DEF Environment, schedulerVars, stateVars
    <3>2. CASE Prune \/ LaunchTasks \/ QuietStep
      BY <3>2 DEF Prune, LaunchTasks, QuietStep, stateVars
    <3> QED
      BY <1>5, <3>1, <3>2
  <2>2. Syncing' = Syncing
    BY <2>1 DEF Syncing, syncVars
  <2> QED
    BY <2>1, <2>2 DEF PoolFacts
<1> QED
  BY <1>2, <1>3, <1>4, <1>5, StepKinds

\* The pool counts its tasks as the scheduler does.
LEMMA PoolCardinality == \A S : Pool!Cardinality(S) = Cardinality(S)
BY DEF Pool!Cardinality, Cardinality

LEMMA PoolStep ==
  ASSUME OneProcess, IInv, OneSync, Tracking, LaunchRoom, SlavesApart,
         PoolFacts, [Next]_vars
  PROVE  [Pool!PoolNext]_(Pool!poolVars)
<1>1. CASE Commit
  <2> DEFINE n == highestInstanceID + 1
  <2>1. /\ n \in Ids /\ n > highestInstanceID /\ launchPc = "commit"
        /\ pending = {} /\ pending' = {n} /\ running' = running
        /\ slaveOf' = [slaveOf EXCEPT ![n] = launchOffer]
    BY <1>1 DEF Commit, IInv, LaunchGate, TypeOK
  <2>2. slaveOf[n] = NoSlave
    BY <2>1 DEF PoolFacts
  <2>3. launchOffer \in Slaves /\ \A m \in running : slaveOf[m] # launchOffer
    BY <2>1 DEF SlavesApart, SlaveInUse
  <2>4. Cardinality(running \cup pending) < desiredInstanceCount
    <3>1. running \cup pending = running
      BY <2>1
    <3> QED
      BY <2>1, <3>1 DEF LaunchRoom
  <2> HIDE DEF n
  <2>5. Pool!Launch(n, launchOffer)
    BY <2>1, <2>2, <2>3, <2>4, PoolCardinality DEF Pool!Launch
  <2> QED
    BY <2>1, <2>3, <2>5 DEF Pool!PoolNext
<1>2. ASSUME NEW n \in Ids, StatusUpdate(n)
      PROVE  [Pool!PoolNext]_(Pool!poolVars)
  <2> DEFINE p == running \cup pending
  <2>1. slaveOf' = slaveOf
    BY <1>2 DEF StatusUpdate
  <2>2. p' \subseteq p /\ p \ p' \subseteq {n}
    BY <1>2, UpdatedMaps
  <2>3. CASE p' = p
    BY <2>1, <2>3 DEF Pool!poolVars
  <2>4. CASE p' # p
    <3>1. n \in p /\ p' = p \ {n}
      BY <2>2, <2>4
    <3>2. Pool!Remove(n)
      BY <2>1, <3>1 DEF Pool!Remove
    <3> QED
      BY <3>1, <3>2 DEF Pool!PoolNext
  <2> QED
    BY <2>3, <2>4
<1>3. CASE FirstSyncStep
  <2>1. running = {} /\ pending = {}
    BY <1>3 DEF FirstSyncStep, Tracking, Ran, PoolFacts, IInv, TypeOK
  <2> QED
    BY <1>3, <2>1 DEF FirstSyncStep, Pool!poolVars
<1>4. CASE Environment \/ Prune \/ LaunchTasks \/ QuietStep
  <2>1. CASE Environment
    BY <2>1, ClusterStepEffect DEF Environment, schedulerVars, stateVars,
       Pool!poolVars
  <2>2. CASE Prune \/ LaunchTasks \/ QuietStep
    BY <2>2 DEF Prune, LaunchTasks, QuietStep, stateVars, Pool!poolVars
  <2> QED
    BY <1>4, <2>1, <2>2
<1> QED
  BY <1>1, <1>2, <1>3, <1>4, StepKinds

(* Each step of a scheduler whose process lives and keeps its master       *)
(* launches one task, with room, a free slave and a new name, or takes one *)
(* out of the maps, or changes nothing of the pool.                        *)
THEOREM SchedulerImplementsPool ==
  ASSUME OneProcess
  PROVE  Spec => PoolImplemented
<1>1. Init => PoolFacts /\ Pool!PoolInit
  BY DEF Init, ClusterInit, PoolFacts, Pool!PoolInit
<1>2. IInv /\ IInv' /\ OneSync /\ Tracking /\ PoolFacts /\ [Next]_vars
        => PoolFacts'
  BY PoolFactsStep
<1>3. IInv /\ OneSync /\ Tracking /\ LaunchRoom /\ SlavesApart /\ PoolFacts
        /\ [Next]_vars => [Pool!PoolNext]_(Pool!poolVars)
  BY PoolStep
<1>4. Spec => []OneSync
  BY RegistersOnce DEF OneProcess
<1>5. Spec => []Tracking
  BY TasksTracked
<1>6. Spec => []LaunchRoom
  BY RoomToLaunch
<1>7. Spec => []SlavesApart
  BY SlavesKeptApart
<1> QED
  BY <1>1, <1>2, <1>3, <1>4, <1>5, <1>6, <1>7, SchedulerInvariant, PTL
     DEF Spec, PoolImplemented, Pool!PoolSpec

-----------------------------------------------------------------------------
(* The members.  Nodes that answer list themselves and agree; a task that  *)
(* has yet to configure itself was told of every other task there is; and  *)
(* a founder that has not started is alone.                                *)
Membership ==
  /\ \A n \in Ids : view[n] # {} => task[n] \in {"joining", "running", "failing"}
  /\ \A n \in named : task[n] \in Ran
  /\ \A n \in Reachable(Ids) : n \in view[n]
  /\ OneCluster
  /\ \A n \in Ids : task[n] = "staging" =>
       \A k \in Ids : Known(k) => k = n \/ k \in data[n]
  /\ \A n \in Ids \ named : view[n] # {} =>
       \A k \in Ids \ {n} : Known(k) => k \notin named /\ view[k] = {}

LEMMA MembershipInit == Init => Membership
  BY DEF Init, ClusterInit, Membership, Reachable, OneCluster

LEMMA MembershipFrame ==
  ASSUME Membership, UNCHANGED <<task, data, view, named>>
  PROVE  Membership'
  BY DEF Membership, Reachable, OneCluster, Known

\* All nodes that answer are peers of each of them.
LEMMA AllPeers ==
  ASSUME IInv, Membership, NEW m \in Reachable(Ids)
  PROVE  /\ Peers(m) = Reachable(Ids)
         /\ \A x \in Reachable(Ids) : view[x] = view[m]
<1>1. \A x \in Reachable(Ids) : view[x] = view[m] /\ x \in view[x]
  BY DEF Membership, OneCluster
<1>2. view[m] \subseteq Ids
  BY DEF IInv, TypeOK, ClusterTypeOK, Reachable
<1> QED
  BY <1>1, <1>2 DEF Peers, Reachable

\* The task ends: its etcd is gone.
LEMMA MembershipBury ==
  ASSUME IInv, Membership, NEW n \in Ids, Bury(n), named' = named
  PROVE  Membership'
<1>1. /\ task'[n] = "dead" /\ view'[n] = {}
      /\ \A k \in Ids \ {n} : /\ task'[k] = task[k] /\ view'[k] = view[k]
                              /\ data'[k] = data[k]
  BY DEF Bury, SetTask, IInv, TypeOK, ClusterTypeOK
<1>2. named \subseteq Ids
  BY DEF IInv, TypeOK, ClusterTypeOK
<1> QED
  BY <1>1, <1>2 DEF Membership, Reachable, OneCluster, Known, Ran

LEMMA MembershipConfigures ==
  ASSUME IInv, Membership, NEW n \in Ids, ExecutorConfigures(n)
  PROVE  Membership'
<1>1. /\ task[n] = "staging" /\ task'[n] = "joining" /\ named' = named
      /\ \A k \in Ids \ {n} : task'[k] = task[k] /\ data'[k] = data[k]
      /\ named \subseteq Ids
  BY DEF ExecutorConfigures, SetTask, IInv, TypeOK, ClusterTypeOK
<1>2. view[n] = {} /\ n \notin named /\ Reachable(Ids)' = Reachable(Ids)
  BY <1>1 DEF Membership, Ran, Reachable
<1>3. CASE data[n] = {}
  <2>1. /\ view'[n] = {n}
        /\ \A k \in Ids \ {n} : view'[k] = view[k] /\ ~Known(k)
    BY <1>1, <1>3 DEF ExecutorConfigures, Membership, IInv, TypeOK,
       ClusterTypeOK
  <2> QED
    BY <1>1, <1>2, <2>1 DEF Membership, Reachable, OneCluster, Known, Ran
<1>4. CASE data[n] # {} /\ view' = view
  BY <1>1, <1>2, <1>4 DEF Membership, OneCluster, Known, Ran
<1>5. ASSUME NEW m \in Reachable(data[n]), AddMember(m, n) PROVE Membership'
  <2>1. m \in Reachable(Ids)
    BY DEF Reachable, IInv, TypeOK, ClusterTypeOK
  <2>2. /\ \A x \in Reachable(Ids) : view'[x] = view[m] \cup {n}
                                     /\ view[x] = view[m]
        /\ \A x \in Ids \ Reachable(Ids) : view'[x] = view[x]
    BY <1>5, <2>1, AllPeers DEF AddMember, Reachable
  <2>3. \A x \in Ids \ named : view[x] = {}
    BY <2>1 DEF Membership, Reachable, Known
  <2>4. \A x \in Ids : view'[x] # {} =>
                         task'[x] \in {"joining", "running", "failing"}
    BY <1>1, <2>2 DEF Membership, Reachable
  <2>5. /\ \A x \in Reachable(Ids)' : x \in view'[x]
        /\ OneCluster'
    <3>1. \A x \in Reachable(Ids) : x \in view'[x]
      BY <2>2 DEF Membership
    <3>2. \A a, b \in Reachable(Ids) : view'[a] = view'[b]
      BY <2>2
    <3> QED
      BY <1>2, <3>1, <3>2 DEF OneCluster
  <2>6. \A x \in Ids \ named : view'[x] = {}
    BY <2>2, <2>3 DEF Reachable
  <2>7. \A x \in named : task'[x] \in Ran
    BY <1>1, <1>2 DEF Membership
  <2>8. \A x \in Ids : task'[x] = "staging" =>
          \A k \in Ids : Known(k)' => k = x \/ k \in data'[x]
    BY <1>1 DEF Membership, Known
  <2> QED
    BY <1>1, <2>4, <2>5, <2>6, <2>7, <2>8 DEF Membership
<1> QED
  BY <1>3, <1>4, <1>5 DEF ExecutorConfigures

LEMMA MembershipStarts ==
  ASSUME IInv, Membership, NEW n \in Ids, EtcdStarts(n)
  PROVE  Membership'
<1>1. PICK m \in Reachable(Ids) \cup {n} :
        n \in view[m] /\ view' = [view EXCEPT ![n] = view[m]]
  BY DEF EtcdStarts
<1>2. /\ task[n] = "running" /\ n \notin named /\ named' = named \cup {n}
      /\ UNCHANGED <<task, data>>
      /\ n \in view'[n] /\ view'[n] = view[m]
      /\ \A k \in Ids \ {n} : view'[k] = view[k]
      /\ Reachable(Ids)' = Reachable(Ids) \cup {n}
  <2>1. /\ task[n] = "running" /\ n \notin named /\ named' = named \cup {n}
        /\ UNCHANGED <<task, data>>
    BY DEF EtcdStarts
  <2>2. view \in [Ids -> SUBSET Ids]
    BY DEF IInv, TypeOK, ClusterTypeOK
  <2>3. Reachable(Ids)' = Reachable(Ids) \cup {n}
    BY <2>1 DEF Reachable
  <2> QED
    BY <1>1, <2>1, <2>2, <2>3
<1>3. m = n => Reachable(Ids) = {}
  BY <1>1, <1>2 DEF Membership, Reachable, Known
<1>4. \A a, b \in Reachable(Ids)' : view'[a] = view'[b]
  BY <1>1, <1>2, <1>3 DEF Membership, OneCluster, Reachable
<1>5. \A k \in Ids \ {n} : k \notin named => view[k] = {}
  <2> SUFFICES ASSUME NEW k \in Ids \ {n}, k \notin named, view[k] # {}
               PROVE  FALSE
    OBVIOUS
  <2>1. \A x \in Ids \ {k} : Known(x) => x \notin named /\ view[x] = {}
    BY DEF Membership
  <2>2. m # k /\ Known(m) /\ m \in Ids
    BY <1>2 DEF Reachable, Known
  <2> QED
    BY <1>1, <2>1, <2>2
<1> QED
  BY <1>2, <1>4, <1>5 DEF Membership, OneCluster, Known, Reachable, Ran

LEMMA MembershipEnvironment ==
  ASSUME IInv, Membership, Environment
  PROVE  Membership'
<1>1. PICK n \in Ids : ClusterStep(n)
  BY DEF Environment
<1>2. CASE ExecutorRuns(n) \/ TaskDies(n)
  <2>1. /\ task' \in [Ids -> TaskStates]
        /\ \A k \in Ids \ {n} : task'[k] = task[k]
        /\ \/ task[n] = "joining" /\ task'[n] = "running"
           \/ task[n] = "running" /\ task'[n] = "failing"
        /\ UNCHANGED <<data, view, named>>
        /\ named \subseteq Ids
    <3>1. task \in [Ids -> TaskStates] /\ named \subseteq Ids
      BY DEF IInv, TypeOK, ClusterTypeOK
    <3>2. /\ \/ task[n] = "joining" /\ SetTask(n, "running")
             \/ task[n] = "running" /\ SetTask(n, "failing")
          /\ UNCHANGED <<data, view, named>>
      BY <1>2 DEF ExecutorRuns, TaskDies
    <3> QED
      BY <3>1, <3>2 DEF SetTask, TaskStates
  <2>2. Reachable(Ids)' \subseteq Reachable(Ids)
    BY <2>1 DEF Reachable, Membership, Ran
  <2> QED
    BY <2>1, <2>2 DEF Membership, OneCluster, Known, Ran
<1> QED
  BY <1>1, <1>2, MembershipConfigures, MembershipStarts, MembershipBury
     DEF ClusterStep, ClusterProgress, ExecutorFails, EtcdGivesUp, MasterLearns

\* Prune takes only nodes that do not answer, for the scheduler tracks the
\* ones that do.
LEMMA PrunedUnreachable ==
  ASSUME IInv, Tracking, Membership, NEW m \in Reachable(running),
         NEW k \in Unknown(view[m]), RemoveMember(m, k)
  PROVE  /\ k \in Ids \ Reachable(Ids)
         /\ \A x \in Reachable(Ids) : view[x] = view[m]
                                      /\ view'[x] = view[m] \ {k}
         /\ \A x \in Ids \ Reachable(Ids) : view'[x] = view[x]
<1>1. m \in Reachable(Ids)
  BY DEF Reachable, IInv, TypeOK
<1>2. k \in Ids
  BY <1>1 DEF Unknown, Reachable, IInv, TypeOK, ClusterTypeOK
<1>3. k \notin Reachable(Ids)
  BY <1>2 DEF Unknown, Reachable, Tracking, Known
<1> QED
  BY <1>1, <1>2, <1>3, AllPeers DEF RemoveMember, Reachable

LEMMA MembershipPrune ==
  ASSUME IInv, Tracking, Membership, Prune
  PROVE  Membership'
<1>1. UNCHANGED <<task, data, named>>
  BY DEF Prune
<1>2. CASE view' = view
  BY <1>1, <1>2, MembershipFrame
<1>3. ASSUME NEW m \in Reachable(running), NEW k \in Unknown(view[m]),
             RemoveMember(m, k)
      PROVE  Membership'
  <2>1. /\ k \in Ids \ Reachable(Ids)
        /\ \A x \in Reachable(Ids) : view[x] = view[m]
                                     /\ view'[x] = view[m] \ {k}
        /\ \A x \in Ids \ Reachable(Ids) : view'[x] = view[x]
    BY <1>3, PrunedUnreachable
  <2>2. Reachable(Ids)' = Reachable(Ids)
    BY <1>1 DEF Reachable
  <2>3. /\ \A x \in Reachable(Ids)' : x \in view'[x]
        /\ OneCluster'
    <3>1. \A x \in Reachable(Ids) : x \in view'[x]
      BY <2>1 DEF Membership
    <3>2. \A a, b \in Reachable(Ids) : view'[a] = view'[b]
      BY <2>1
    <3> QED
      BY <2>2, <3>1, <3>2 DEF OneCluster
  <2>4. \A x \in Ids : view'[x] \subseteq view[x]
    BY <2>1
  <2> QED
    BY <1>1, <2>3, <2>4 DEF Membership, Known
<1> QED
  BY <1>2, <1>3 DEF Prune

\* The task that is launched was told of all tasks there are.
LEMMA MembershipLaunch ==
  ASSUME IInv, OneSync, Tracking, Membership, LaunchTasks
  PROVE  Membership'
<1> DEFINE n == launchTask
<1>1. /\ n \in Ids /\ task[n] = "none" /\ n \in pending
      /\ running \subseteq data[n]
  BY DEF LaunchTasks, Tracking, IInv, LaunchGate
<1>2. connected
  BY LauncherConnected DEF LaunchTasks
<1>3. /\ task'[n] \in {"none", "staging", "dead"}
      /\ \A k \in Ids \ {n} : task'[k] = task[k]
      /\ UNCHANGED <<data, view, named>>
      /\ named \subseteq Ids
  BY <1>1, <1>2 DEF LaunchTasks, SetTask, IInv, TypeOK, ClusterTypeOK
<1>4. view[n] = {} /\ n \notin named
  BY <1>1 DEF Membership, Ran
<1>5. \A k \in Ids \ {n} : Known(k) => k \in running
  BY <1>1 DEF Tracking, IInv, AtMostOnePending
<1>6. \A k \in Ids \ {n} : task[k] # "staging"
  BY <1>5 DEF Tracking, Ran, Known
<1>7. Reachable(Ids)' = Reachable(Ids)
  BY <1>1, <1>3 DEF Reachable
<1>8. \A x \in Ids : task'[x] = "staging" =>
        \A k \in Ids : Known(k)' => k = x \/ k \in data'[x]
  BY <1>1, <1>3, <1>5, <1>6 DEF Known
<1> HIDE DEF n
<1> QED
  <2>1. /\ \A x \in Ids : view'[x] # {} =>
                             task'[x] \in {"joining", "running", "failing"}
        /\ \A x \in named' : task'[x] \in Ran
    BY <1>3, <1>4 DEF Membership
  <2>2. /\ \A x \in Reachable(Ids)' : x \in view'[x]
        /\ OneCluster'
    <3>1. \A x \in Reachable(Ids) : x \in view'[x]
      BY <1>3 DEF Membership
    <3>2. \A a, b \in Reachable(Ids) : view'[a] = view'[b]
      BY <1>3 DEF Membership, OneCluster
    <3> QED
      BY <1>7, <3>1, <3>2 DEF OneCluster
  <2>3. \A x \in Ids \ named : view[x] # {} =>
          \A k \in Ids \ {x} : Known(k)' => k \notin named /\ view[k] = {}
    BY <1>3, <1>4 DEF Membership, Known
  <2> QED
    BY <1>3, <1>8, <2>1, <2>2, <2>3 DEF Membership

LEMMA MembershipStep ==
  ASSUME OneProcess, IInv, OneSync, Tracking, Membership, [Next]_vars
  PROVE  Membership'
<1>1. ASSUME NEW n \in Ids, StatusUpdate(n) PROVE Membership'
  <2>1. UNCHANGED <<task, data, view, named>>
    BY <1>1, UpdatedTask DEF StatusUpdate
  <2> QED
    BY <2>1, MembershipFrame
<1>2. CASE FirstSyncStep
  <2>1. \A n \in Ids : task[n] = "none"
    BY <1>2 DEF FirstSyncStep, Tracking
  <2>2. task' = task
    BY <1>2, <2>1 DEF FirstSyncStep, Exit, IInv, TypeOK, ClusterTypeOK
  <2> QED
    BY <1>2, <2>2, MembershipFrame DEF FirstSyncStep
<1>3. CASE Commit
  <2>1. /\ task[highestInstanceID + 1] = "none"
        /\ UNCHANGED <<task, view, named>>
        /\ \A k \in Ids \ {highestInstanceID + 1} : data'[k] = data[k]
    BY <1>3 DEF Commit, IInv, NamesFresh, TypeOK, ClusterTypeOK
  <2> QED
    BY <2>1 DEF Membership, Reachable, OneCluster, Known
<1>4. CASE QuietStep
  BY <1>4, MembershipFrame DEF QuietStep
<1> QED
  BY <1>1, <1>2, <1>3, <1>4, StepKinds, MembershipEnvironment,
     MembershipPrune, MembershipLaunch

(* The nodes that answer list themselves and agree on the members, and a   *)
(* task that has yet to configure itself knows of all the others.          *)
THEOREM MembersAgree == ASSUME OneProcess PROVE Spec => []Membership
<1>1. IInv /\ OneSync /\ Tracking /\ Membership /\ [Next]_vars => Membership'
  BY MembershipStep
<1>2. Spec => []OneSync
  BY RegistersOnce DEF OneProcess
<1>3. Spec => []Tracking
  BY TasksTracked
<1> QED
  BY <1>1, <1>2, <1>3, MembershipInit, SchedulerInvariant, PTL DEF Spec

(* The live etcd nodes of a scheduler whose process lives and keeps its    *)
(* master are always one cluster: no task founds one beside another, and   *)
(* Prune and ConfigureInstance change the list of all nodes that answer.   *)
THEOREM ClusterNeverSplits == ASSUME OneProcess PROVE Spec => []OneCluster
<1>1. Membership => OneCluster
  BY DEF Membership
<1>2. Spec => []Membership
  BY MembersAgree
<1> QED
  BY <1>1, <1>2, PTL

\* While the launcher is about to prune, no step of an executor, an etcd node
\* or the master takes a member off the list of a node that answers.
LEMMA EnvironmentSparesMembers ==
  ASSUME IInv, Membership, NEW n \in Ids, ClusterStep(n),
         NEW m \in Reachable(Ids)
  PROVE  view[m] \subseteq view'[m]
<1>1. m \in Ids /\ task[m] = "running" /\ m \in named /\ m \in view[m]
  BY DEF Reachable, Membership
<1>2. CASE ExecutorConfigures(n)
  <2>1. m # n
    BY <1>1, <1>2 DEF ExecutorConfigures
  <2>2. CASE data[n] = {} \/ view' = view
    BY <1>1, <1>2, <2>1, <2>2 DEF ExecutorConfigures, IInv, TypeOK,
       ClusterTypeOK
  <2>3. ASSUME NEW x \in Reachable(data[n]), AddMember(x, n)
        PROVE  view[m] \subseteq view'[m]
    <3>1. x \in Reachable(Ids)
      BY DEF Reachable, IInv, TypeOK, ClusterTypeOK
    <3>2. m \in Peers(x) /\ view[m] = view[x]
      BY <3>1, AllPeers
    <3> QED
      BY <1>1, <2>3, <3>2 DEF AddMember
  <2> QED
    BY <1>2, <2>2, <2>3 DEF ExecutorConfigures
<1>3. CASE ExecutorRuns(n) \/ TaskDies(n)
  BY <1>3 DEF ExecutorRuns, TaskDies
<1>4. CASE ExecutorFails(n) \/ EtcdStarts(n) \/ EtcdGivesUp(n) \/ MasterLearns(n)
  <2>1. m # n
    BY <1>1, <1>4 DEF ExecutorFails, EtcdStarts, EtcdGivesUp, MasterLearns
  <2> QED
    BY <1>1, <1>4, <2>1 DEF ExecutorFails, EtcdStarts, EtcdGivesUp,
       MasterLearns, Bury, IInv, TypeOK, ClusterTypeOK
<1> QED
  BY <1>2, <1>3, <1>4 DEF ClusterStep, ClusterProgress

LEMMA StepSparesMembers ==
  ASSUME OneProcess, IInv, OneSync, Tracking, Membership, [Next]_vars,
         NEW m \in Reachable(Ids), NEW k \in view[m] \ view'[m]
  PROVE  k \notin Reachable(Ids)
<1>1. CASE Environment
  BY <1>1, EnvironmentSparesMembers DEF Environment
<1>2. CASE Prune
  <2>1. \/ view' = view
        \/ \E x \in Reachable(running) :
             \E y \in Unknown(view[x]) : RemoveMember(x, y)
    BY <1>2 DEF Prune
  <2>2. ASSUME NEW x \in Reachable(running), NEW y \in Unknown(view[x]),
               RemoveMember(x, y)
        PROVE  k \notin Reachable(Ids)
    <3>1. y \notin Reachable(Ids) /\ view'[m] = view[m] \ {y}
      BY <2>2, PrunedUnreachable
    <3> QED
      BY <3>1
  <2> QED
    BY <2>1, <2>2
<1>3. ASSUME NEW n \in Ids, StatusUpdate(n) PROVE view' = view
  BY <1>3 DEF StatusUpdate
<1>4. CASE Commit \/ LaunchTasks \/ FirstSyncStep \/ QuietStep
  BY <1>4 DEF Commit, LaunchTasks, FirstSyncStep, QuietStep
<1> QED
  BY <1>1, <1>2, <1>3, <1>4, StepKinds

(* Prune, which knows members by name only, never removes one whose etcd   *)
(* is up: a node that answers is in s.running or s.pending.                *)
THEOREM PruneSpares == ASSUME OneProcess PROVE Spec => PruneSparesMembers
<1>1. IInv /\ OneSync /\ Tracking /\ Membership /\ [Next]_vars
        => [launchPc = "prune" =>
              \A m \in Reachable(Ids) : \A k \in view[m] \ view'[m] :
                k \notin Reachable(Ids)]_vars
  BY StepSparesMembers
<1>2. Spec => []OneSync
  BY RegistersOnce DEF OneProcess
<1>3. Spec => []Tracking
  BY TasksTracked
<1>4. Spec => []Membership
  BY MembersAgree
<1> QED
  BY <1>1, <1>2, <1>3, <1>4, SchedulerInvariant, PTL DEF Spec, PruneSparesMembers
=============================================================================
