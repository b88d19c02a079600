------------------------------- MODULE Proxy --------------------------------
(***************************************************************************)
(* The command etcd-mesos-proxy: it looks the leading master up in         *)
(* ZooKeeper, asks that master for its state, and executes etcd with the   *)
(* running nodes as its peers.  Meanwhile masters join and leave the       *)
(* election and tasks of the etcd framework start and end; masters and     *)
(* tasks are external.                                                     *)
(***************************************************************************)
EXTENDS Lookup

CONSTANTS
  Masters,
  NoMaster,
  Tasks,         \* the tasks of the etcd framework
  RPC_RETRIES,
  MaxEvents      \* bound: joins and leaves of masters, answers that are not
                 \* JSON, starts and ends of tasks together

ASSUME ProxyConstants ==
  /\ NoMaster \notin Masters
  /\ Tasks \subseteq Nat
  /\ RPC_RETRIES \in Nat \ {0}
  /\ MaxEvents \in Nat

VARIABLES
  pc,            \* of main: the call that comes next
  uri,           \* the argument -master, when it is a ZooKeeper URI
  topNode,       \* the node that masterInfoFromZKNodes picks
  master,        \* the master whose address was found
  address,       \* and where the address was found
  retries,       \* of GetState
  state,         \* the state that GetState returns
  peers,         \* --initial-cluster
  versions,      \* for each master, its version
  election,      \* the masters in the election, with their numbers
  nextSeq,       \* the next number of ZooKeeper
  tasks,         \* for each task, its state in the leading master
  led,           \* history: the leader when the children were listed
  events         \* how many of the bounded events have happened

mainVars == <<pc, uri, topNode, master, address, retries, state, peers, led>>
worldVars == <<versions, election, nextSeq, tasks, events>>
vars == <<mainVars, worldVars>>

States == {"TASK_STAGING", "TASK_RUNNING", "TASK_FINISHED"}

TypeOK ==
  /\ pc \in {"Children", "Get", "state", "state.json", "peers", "exec",
             "fatal"}
  /\ uri \in Uris
  /\ topNode.seq \in Nat
  /\ master \in Masters \cup {NoMaster}
  /\ retries \in 0 .. RPC_RETRIES
  /\ versions \in [Masters -> {"0.22", "0.23", "0.24"}]
  /\ election \in [Masters -> Nat]
  /\ nextSeq \in Nat
  /\ tasks \in [Tasks -> States]
  /\ led \in Masters \cup {NoMaster}
  /\ events \in 0 .. MaxEvents

-----------------------------------------------------------------------------
(* The world.                                                              *)

Candidates == {m \in Masters : election[m] # 0}

Leads(m) ==
  m \in Candidates /\ \A n \in Candidates : election[m] <= election[n]

Leader ==
  IF Candidates = {} THEN NoMaster ELSE CHOOSE m \in Masters : Leads(m)

\* "mesos v0.24 writes JSON only, v0.23 writes json and protobuf, v0.22 and
\* prior only write protobuf"
Formats(version) ==
  CASE version = "0.22" -> {"info_"}
    [] version = "0.23" -> {"info_", "json.info_"}
    [] version = "0.24" -> {"json.info_"}

Children ==
  {LogReplicas} \cup UNION {{Node(p, election[m]) : p \in Formats(versions[m])}
                            : m \in Candidates}

\* The master that registered a node.
Owner(node) ==
  IF \E m \in Candidates : election[m] = node.seq /\ node \in Children
    THEN CHOOSE m \in Candidates : election[m] = node.seq
    ELSE NoMaster

\* The node of a task, whose printed form is the id of the task.
NodeOf(t) == [Name |-> t, Host |-> t, RPCPort |-> 3 * t,
              ClientPort |-> 3 * t + 1, ReseedPort |-> 3 * t + 2]

\* The state of a master: another framework, and etcd.  A master that does
\* not lead has no frameworks.
StateOf(m) ==
  IF m # Leader THEN <<>>
  ELSE <<[name |-> "other", tasks |-> <<[id |-> <<Word(FALSE, 0)>>,
                                         state |-> "TASK_RUNNING"]>>],
         [name |-> "etcd",
          tasks |-> LET ts == SetToSeq(Tasks) IN
                    [i \in DOMAIN ts |-> [id |-> String(NodeOf(ts[i])),
                                          state |-> tasks[ts[i]]]]]>>

\* The argument -master is a URI, or the address of a master.
Init ==
  /\ \/ pc = "Children" /\ master = NoMaster
     \/ pc = "state" /\ master \in Masters
  /\ led = master
  /\ uri \in Uris
  /\ topNode = NoNode
  /\ address = NoAddress
  /\ retries = 0
  /\ state = <<>> /\ peers = <<>>
  /\ versions \in [Masters -> {"0.22", "0.23", "0.24"}]
  /\ election = [m \in Masters |-> 0]
  /\ nextSeq = 1
  /\ tasks = [t \in Tasks |-> "TASK_STAGING"]
  /\ events = 0

Event == events < MaxEvents /\ events' = events + 1

MasterJoins(m) ==
  /\ election[m] = 0 /\ Event
  /\ election' = [election EXCEPT ![m] = nextSeq]
  /\ nextSeq' = nextSeq + 1
  /\ UNCHANGED <<mainVars, versions, tasks>>

MasterLeaves(m) ==
  /\ election[m] # 0 /\ Event
  /\ election' = [election EXCEPT ![m] = 0]
  /\ UNCHANGED <<mainVars, versions, nextSeq, tasks>>

TaskChanges(t) ==
  /\ tasks[t] # "TASK_FINISHED" /\ Event
  /\ tasks' = [tasks EXCEPT ![t] = IF @ = "TASK_STAGING" THEN "TASK_RUNNING"
                                                         ELSE "TASK_FINISHED"]
  /\ UNCHANGED <<mainVars, versions, election, nextSeq>>

-----------------------------------------------------------------------------
(* main.  A call that fails ends the process with log.Fatal.               *)

Fatal ==
  /\ pc' = "fatal"
  /\ UNCHANGED <<uri, topNode, master, address, retries, state, peers, led>>

\* GetMasterFromZK does not look at the error of ParseZKURI: without servers
\* zk.Connect fails, and without a chroot the children cannot be listed.
ListChildren ==
  /\ pc = "Children"
  /\ UNCHANGED worldVars
  /\ \/ Fatal
     \/ /\ ParseZKURIOk(uri) /\ uri.path # <<>>
        /\ masterInfoFromZKNodes(Children) # NoNode
        /\ topNode' = masterInfoFromZKNodes(Children)
        /\ led' = Leader
        /\ pc' = "Get"
        /\ UNCHANGED <<uri, master, address, retries, state, peers>>

\* The node may be gone by now.
GetMasterFromZK ==
  /\ pc = "Get"
  /\ UNCHANGED worldVars
  /\ \/ Fatal
     \/ /\ Owner(topNode) # NoMaster
        /\ master' = Owner(topNode)
        /\ \E info \in Infos :
             address' = IF addressFrom(info) # NoAddress THEN addressFrom(info)
                                                         ELSE addressFromRaw
        /\ pc' = "state"
        /\ UNCHANGED <<uri, topNode, retries, state, peers, led>>

\* Mutant: a request that fails is repeated for ever.
RequestFailsUncounted ==
  /\ pc \in {"state", "state.json"}
  /\ pc' = "state"
  /\ UNCHANGED <<uri, topNode, master, address, retries, state, peers, led,
                 worldVars>>

\* No answer: GetState backs off, and gives up after RPC_RETRIES rounds.
RequestFails ==
  /\ pc \in {"state", "state.json"}
  /\ retries' = retries + 1
  /\ pc' = IF retries' = RPC_RETRIES THEN "fatal" ELSE "state"
  /\ UNCHANGED <<uri, topNode, master, address, state, peers, led, worldVars>>

\* Status 404: the other endpoint is asked.
NotFound ==
  /\ pc = "state" /\ election[master] # 0
  /\ pc' = "state.json"
  /\ UNCHANGED <<uri, topNode, master, address, retries, state, peers, led,
                 worldVars>>

\* An answer that is not JSON: the request is repeated, at once and without
\* being counted.
NotJSON ==
  /\ pc \in {"state", "state.json"} /\ election[master] # 0 /\ Event
  /\ pc' = "state"
  /\ UNCHANGED <<uri, topNode, master, address, retries, state, peers, led,
                 versions, election, nextSeq, tasks>>

GetState ==
  /\ pc \in {"state", "state.json"} /\ election[master] # 0
  /\ state' = StateOf(master)
  /\ pc' = "peers"
  /\ UNCHANGED <<uri, topNode, master, address, retries, peers, led,
                 worldVars>>

\* The peers are taken from the state and etcd is executed.
Exec ==
  /\ pc = "peers"
  /\ UNCHANGED worldVars
  /\ IF GetPeersOk(state, "etcd")
       THEN /\ peers' = GetPeersFromState(state, "etcd")
            /\ pc' = "exec"
            /\ UNCHANGED <<uri, topNode, master, address, retries, state, led>>
       ELSE Fatal

-----------------------------------------------------------------------------
Main ==
  \/ ListChildren \/ GetMasterFromZK
  \/ RequestFails \/ NotFound \/ NotJSON \/ GetState \/ Exec

World ==
  \/ \E m \in Masters : MasterJoins(m) \/ MasterLeaves(m)
  \/ \E t \in Tasks : TaskChanges(t)

Next == Main \/ World

Spec == Init /\ [][Next]_vars

(* The process runs.                                                       *)
FairSpec == Spec /\ WF_vars(Main)

-----------------------------------------------------------------------------
(* Properties.                                                             *)

\* GetMasterFromZK finds the master that led the election when the children
\* were listed, whatever versions of Mesos the masters have and whatever else
\* is in that directory (masterInfoFromZKNodes).
LookupFollowsElection == master # NoMaster => master = led

\* Host and port of the address are taken from the same place of the
\* MasterInfo (addressFrom), or from the pid in the raw data.
AddressWhole == address.host = address.port

\* The detector of the scheduler (selectTopNode) and the lookup of the proxy
\* (masterInfoFromZKNodes) find the same master, if the masters all have the
\* same version: selectTopNode looks at the json nodes first.
DetectorAgrees ==
  (\A m, n \in Candidates : versions[m] = versions[n]) =>
    /\ Owner(selectTopNode(Children)) = Leader
    /\ Owner(masterInfoFromZKNodes(Children)) = Leader

\* etcd is executed with exactly the nodes that ran when a leading master was
\* asked: their ids have become nodes again (GetPeersFromState, Parse), tasks
\* that do not run and other frameworks are left out.
PeersAreNodes ==
  pc' = "exec" /\ pc # "exec" =>
    /\ state # <<>>
    /\ \A t \in Tasks :
         LET task == state[2].tasks[CHOOSE i \in DOMAIN state[2].tasks :
                       state[2].tasks[i].id = String(NodeOf(t))]
         IN  Peer(NodeOf(t)) \in Range(peers') <=> task.state = "TASK_RUNNING"

PeersRight == [][PeersAreNodes]_vars

\* The proxy gives up or executes etcd: however often the master does not
\* answer (GetState), though not if it goes on answering with something that
\* is not JSON, of which there is a bounded number.
ProxyEnds == <>(pc \in {"exec", "fatal"})
=============================================================================
