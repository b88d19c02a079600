------------------------------ MODULE Cluster ------------------------------
(***************************************************************************)
(* What the scheduler manages and talks to: the tasks Mesos runs for it,   *)
(* the etcd cluster their executors form, and the reconciliation record in *)
(* ZooKeeper.                                                              *)
(*                                                                         *)
(* A task is named by its instance id (etcd-<id>).  Its state is           *)
(*   none     never seen by the master                                     *)
(*   refused  launched while the driver was disconnected; the driver       *)
(*            itself reports it lost                                       *)
(*   staging  the executor has not configured its instance                 *)
(*   joining  configured, but TASK_RUNNING has not been sent               *)
(*   running                                                               *)
(*   failing  gone, but the master does not know and reports it running    *)
(*   dead     terminal for the master                                      *)
(* An etcd cluster is known by its member list: nodes with equal views     *)
(* form one cluster, and there may be several.                             *)
(***************************************************************************)
EXTENDS Naturals, FiniteSets

CONSTANTS
  MaxId,    \* bound: instance ids are 1..MaxId
  Slaves,
  NoSlave,
  Faults,   \* which faults happen: a set of the names below
  MaxDeaths \* bound: no task dies by itself when so many are gone

Ids == 1..MaxId

FaultNames ==
  {"crash",       \* the scheduler process dies and is started again
   "disconnect",  \* the driver loses the master
   "death",       \* a running task dies
   "reject",      \* the master rejects a launch, or an executor fails early
   "lost",        \* a LaunchTasks message is lost
   "net",         \* a call to ZooKeeper or to a live etcd node fails
   "reseed"}      \* an operator asks for a reseed

ASSUME ClusterAssumption ==
  /\ MaxId \in Nat
  /\ NoSlave \notin Slaves
  /\ Faults \subseteq FaultNames
  /\ MaxDeaths \in Nat

VARIABLES
  connected,  \* the driver is connected to the master
  task,       \* the state of each task
  slaveOf,    \* the slave each task was launched on
  data,       \* TaskInfo.Data of a staging task: the nodes it is to join
  owed,       \* tasks whose state the master will send
  view,       \* the member list each etcd node has; {} when it has none
  named,      \* nodes that have started once; others are listed as ""
  zk          \* the reconciliation record in ZooKeeper

clusterVars == <<connected, task, slaveOf, data, owed, view, named, zk>>

TaskStates ==
  {"none", "refused", "staging", "joining", "running", "failing", "dead"}

ClusterTypeOK ==
  /\ connected \in BOOLEAN
  /\ task \in [Ids -> TaskStates]
  /\ slaveOf \in [Ids -> Slaves \cup {NoSlave}]
  /\ data \in [Ids -> SUBSET Ids]
  /\ owed \in SUBSET Ids
  /\ view \in [Ids -> SUBSET Ids]
  /\ named \in SUBSET Ids
  /\ zk \in SUBSET Ids

ClusterInit ==
  /\ connected = FALSE
  /\ task = [n \in Ids |-> "none"]
  /\ slaveOf = [n \in Ids |-> NoSlave]
  /\ data = [n \in Ids |-> {}]
  /\ owed = {}
  /\ view = [n \in Ids |-> {}]
  /\ named = {}
  /\ zk = {}

\* The master has the task on record; the task is really there.
Known(n) == task[n] \in {"staging", "joining", "running", "failing"}

Live(n) == task[n] \in {"staging", "joining", "running"}

-----------------------------------------------------------------------------
(* The calls of rpc/ to the etcd nodes.                                    *)

\* Nodes of r that answer HTTP requests.
Reachable(r) == {n \in r : task[n] = "running" /\ n \in named}

\* The live nodes of the cluster of node m.
Peers(m) == {n \in Reachable(view[m]) : view[n] = view[m]}

\* The cluster of node m commits entries.
Quorum(m) == 2 * Cardinality(Peers(m)) > Cardinality(view[m])

Flaky == "net" \in Faults

(* HealthCheck(r): nil for no nodes at all; otherwise it asks the first    *)
(* node that answers whether its cluster makes progress.                   *)
HealthCheck(r) ==
  IF r = {} THEN {TRUE}
  ELSE {Quorum(m) : m \in Reachable(r)}
         \cup (IF Flaky \/ Reachable(r) = {} THEN {FALSE} ELSE {})

(* MemberList(r): the members as the first node that answers lists them.   *)
(* The error of its inner scope shadows the result, so when none answers   *)
(* it returns an empty list and no error.                                  *)
MemberList(r) ==
  {view[m] : m \in Reachable(r)}
    \cup (IF Flaky \/ Reachable(r) = {} THEN {{}} ELSE {})

\* The number of keys of MemberList's map: all unstarted members have the
\* name "", and share one.
ListLen(list) ==
  Cardinality(list \cap named) + (IF list \subseteq named THEN 0 ELSE 1)

\* The cluster of m adds n to, or removes k from, its member list.
AddMember(m, n) ==
  view' = [x \in Ids |-> IF x \in Peers(m) THEN view[m] \cup {n} ELSE view[x]]

RemoveMember(m, k) ==
  view' = [x \in Ids |-> IF x \notin Peers(m) THEN view[x]
                         ELSE IF x = k THEN {} ELSE view[m] \ {k}]

-----------------------------------------------------------------------------
(* The executor: LaunchTask and etcdHarness.                               *)

SetTask(n, st) == task' = [task EXCEPT ![n] = st]

\* A terminal task: its etcd and its data are gone.
Bury(n) ==
  /\ SetTask(n, "dead")
  /\ data' = [data EXCEPT ![n] = {}]
  /\ view' = [view EXCEPT ![n] = {}]

(* ConfigureInstance: a task that was given no running nodes founds a      *)
(* cluster; any other checks the health of one node of its list and asks   *)
(* another to be added.  (The answer of a cluster that cannot commit the   *)
(* change is not told from success.)                                       *)
ExecutorConfigures(n) ==
  /\ task[n] = "staging"
  /\ TRUE \in HealthCheck(data[n])
  /\ IF data[n] = {}
     THEN view' = [view EXCEPT ![n] = {n}]
     ELSE \E m \in Reachable(data[n]) :
            IF Quorum(m) THEN AddMember(m, n) ELSE UNCHANGED view
  /\ SetTask(n, "joining")
  /\ data' = [data EXCEPT ![n] = {}]
  /\ UNCHANGED <<connected, slaveOf, owed, named, zk>>

\* TASK_RUNNING is sent, before etcd is started.
ExecutorRuns(n) ==
  /\ task[n] = "joining"
  /\ SetTask(n, "running")
  /\ owed' = owed \cup {n}
  /\ UNCHANGED <<connected, slaveOf, data, view, named, zk>>

\* handleFailure before TASK_RUNNING: ConfigureInstance failed (the cluster
\* is unhealthy, or the node that was asked is gone), or something else did.
ExecutorFails(n) ==
  /\ \/ /\ task[n] \in {"staging", "joining"}
        /\ "reject" \in Faults
     \/ /\ task[n] = "staging"
        /\ FALSE \in HealthCheck(data[n]) \/ Reachable(data[n]) # data[n]
  /\ Bury(n)
  /\ owed' = owed \cup {n}
  /\ UNCHANGED <<connected, slaveOf, named, zk>>

\* etcd comes up with the list of a member, or as the founder.
EtcdStarts(n) ==
  /\ task[n] = "running"
  /\ n \notin named
  /\ \E m \in Reachable(Ids) \cup {n} :
       /\ n \in view[m]
       /\ view' = [view EXCEPT ![n] = view[m]]
  /\ named' = named \cup {n}
  /\ UNCHANGED <<connected, task, slaveOf, data, owed, zk>>

\* A node that was removed from its cluster, or finds no member to start
\* from, exits; after launchTimeout the harness reports the failure.
EtcdGivesUp(n) ==
  /\ task[n] = "running"
  /\ \A m \in Reachable(Ids) \cup {n} : n \notin view[m]
  /\ Bury(n)
  /\ owed' = owed \cup {n}
  /\ UNCHANGED <<connected, slaveOf, named, zk>>

TaskDies(n) ==
  /\ "death" \in Faults
  /\ task[n] = "running"
  /\ Cardinality({k \in Ids : task[k] \in {"failing", "dead"}}) < MaxDeaths
  /\ SetTask(n, "failing")
  /\ UNCHANGED <<connected, slaveOf, data, owed, view, named, zk>>

\* The master gives a slave up.  Its TASK_LOST is sent once, to a framework
\* that is connected.
MasterLearns(n) ==
  /\ task[n] = "failing"
  /\ Bury(n)
  /\ owed' = IF connected THEN owed \cup {n} ELSE owed
  /\ UNCHANGED <<connected, slaveOf, named, zk>>

ClusterProgress(n) ==
  \/ ExecutorConfigures(n) \/ ExecutorRuns(n) \/ ExecutorFails(n)
  \/ EtcdStarts(n) \/ EtcdGivesUp(n) \/ MasterLearns(n)

ClusterStep(n) == ClusterProgress(n) \/ TaskDies(n)
=============================================================================
