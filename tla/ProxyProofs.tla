---------------------------- MODULE ProxyProofs ----------------------------
(***************************************************************************)
(* Proofs about the lookup of the leading master and about the proxy, for  *)
(* any number of masters, whatever their versions.                         *)
(***************************************************************************)
EXTENDS Proxy, WellFoundedInduction, TLAPS

\* A set of numbers that is not empty has a smallest one.
LEMMA SmallestNat ==
  ASSUME NEW S \in SUBSET Nat, S # {}
  PROVE  \E x \in S : \A y \in S : x <= y
<1> DEFINE R == OpToRel(<, Nat)
<1>1. PICK x \in S : \A y \in S : ~(<<y, x>> \in R)
  BY NatLessThanWellFounded, WFMin
<1>2. R = {ss \in Nat \X Nat : ss[1] < ss[2]}
  BY DEF OpToRel
<1> HIDE DEF R
<1>3. ASSUME NEW y \in S PROVE x <= y
  <2>1. ~(y < x)
    BY <1>1, <1>2
  <2> QED
    BY <2>1
<1> QED
  BY <1>3

\* Min picks it.
LEMMA MinIsLeast ==
  ASSUME NEW S \in SUBSET Nat, S # {}
  PROVE  Min(S) \in S /\ \A y \in S : Min(S) <= y
<1>1. \E x \in S : \A y \in S : x <= y
  BY SmallestNat
<1> QED
  BY <1>1, Zenon DEF Min

-----------------------------------------------------------------------------
(* The election.  Each number of ZooKeeper is given once.                  *)
Numbered ==
  /\ versions \in [Masters -> {"0.22", "0.23", "0.24"}]
  /\ election \in [Masters -> Nat]
  /\ nextSeq \in Nat \ {0}
  /\ \A m \in Masters : election[m] < nextSeq
  /\ \A m, n \in Masters :
       election[m] = election[n] /\ election[m] # 0 => m = n

LEMMA LeaderIsFirst ==
  ASSUME Numbered, Candidates # {}
  PROVE  /\ Leader \in Candidates
         /\ \A n \in Candidates : election[Leader] <= election[n]
<1> DEFINE S == {election[m] : m \in Candidates}
<1>1. S \in SUBSET Nat /\ S # {}
  BY DEF Numbered, Candidates
<1>2. PICK x \in S : \A y \in S : x <= y
  <2> HIDE DEF S
  <2> QED
    BY <1>1, SmallestNat
<1>3. PICK m \in Candidates : x = election[m]
  BY <1>2
<1>4. \E n \in Masters : Leads(n)
  <2>1. \A n \in Candidates : election[m] <= election[n]
    BY <1>2, <1>3
  <2> QED
    BY <2>1 DEF Leads, Candidates
<1>5. Leads(Leader)
  BY <1>4, Zenon DEF Leader
<1> QED
  BY <1>5 DEF Leads

\* The nodes that masters have registered.
LEMMA RegisteredNodes ==
  ASSUME Numbered
  PROVE  /\ \A m \in Candidates : \A p \in Formats(versions[m]) :
              Node(p, election[m]) \in Keyed(Children)
         /\ \A c \in Keyed(Children) : \E m \in Candidates :
              \E p \in Formats(versions[m]) : c = Node(p, election[m])
         /\ Keyed(Children) \subseteq Children
<1>1. \A m \in Candidates :
        Formats(versions[m]) \subseteq {"info_", "json.info_"}
  BY DEF Formats, Numbered, Candidates
<1>2. LogReplicas \notin Keyed(Children)
  BY DEF LogReplicas, Node, Keyed
<1> QED
  BY <1>1, <1>2 DEF Keyed, Children, Node

\* Of the two nodes of a master one is taken.
LEMMA OneNodeEach ==
  ASSUME Numbered, NEW m \in Candidates
  PROVE  \E c \in Keyed(Children) :
           /\ c.seq = election[m]
           /\ \A d \in Keyed(Children) :
                d.seq = c.seq => d = c \/ NameBefore(d, c)
<1>1. CASE "json.info_" \in Formats(versions[m])
  <2> DEFINE c == Node("json.info_", election[m])
  <2>1. c \in Keyed(Children) /\ c.seq = election[m]
    BY <1>1, RegisteredNodes DEF Node
  <2>2. ASSUME NEW d \in Keyed(Children), d.seq = c.seq
        PROVE  d = c \/ NameBefore(d, c)
    <3>1. PICK n \in Candidates :
            \E p \in Formats(versions[n]) : d = Node(p, election[n])
      BY RegisteredNodes
    <3>2. d.prefix \in {"info_", "json.info_"}
      BY DEF Keyed
    <3>3. d.prefix = "json.info_" => d = c
      BY <2>2, <3>1 DEF Node
    <3>4. d.prefix = "info_" => NameBefore(d, c)
      BY DEF NameBefore, Node
    <3> QED
      BY <3>2, <3>3, <3>4
  <2> QED
    BY <2>1, <2>2
<1>2. CASE "json.info_" \notin Formats(versions[m])
  <2>1. Formats(versions[m]) = {"info_"}
    BY <1>2 DEF Formats, Numbered, Candidates
  <2> DEFINE c == Node("info_", election[m])
  <2>2. c \in Keyed(Children) /\ c.seq = election[m]
    BY <2>1, RegisteredNodes DEF Node
  <2>3. ASSUME NEW d \in Keyed(Children), d.seq = c.seq
        PROVE  d = c
    <3>1. PICK n \in Candidates :
            \E p \in Formats(versions[n]) : d = Node(p, election[n])
      BY RegisteredNodes
    <3>2. n = m
      BY <2>3, <3>1 DEF Node, Numbered, Candidates
    <3> QED
      BY <2>1, <3>1, <3>2
  <2> QED
    BY <2>2, <2>3
<1> QED
  BY <1>1, <1>2

(* masterInfoFromZKNodes picks a node of the leader, when there is one.    *)
LEMMA LookupFindsLeader ==
  ASSUME Numbered, Candidates # {}
  PROVE  /\ masterInfoFromZKNodes(Children) \in Children
         /\ masterInfoFromZKNodes(Children).seq = election[Leader]
<1> DEFINE K == Keyed(Children)
           mapped == {c \in K : \A d \in K :
                        d.seq = c.seq => d = c \/ NameBefore(d, c)}
           seqs == {c.seq : c \in mapped}
           found == CHOOSE c \in mapped : c.seq = Min(seqs)
<1>1. \A m \in Candidates : \E c \in mapped : c.seq = election[m]
  BY OneNodeEach
<1>2. \A c \in mapped :
        c \in Children /\ \E m \in Candidates : c.seq = election[m]
  BY RegisteredNodes DEF Node
<1>3. /\ Leader \in Candidates
      /\ \A n \in Candidates : election[Leader] <= election[n]
  BY LeaderIsFirst
<1>4. mapped # {} /\ seqs # {} /\ seqs \in SUBSET Nat
  BY <1>1, <1>2 DEF Numbered, Candidates
<1>5. masterInfoFromZKNodes(Children) = found
  BY <1>4 DEF masterInfoFromZKNodes
<1> HIDE DEF mapped
<1>6. Min(seqs) \in seqs /\ \A y \in seqs : Min(seqs) <= y
  <2> HIDE DEF seqs
  <2> QED
    BY <1>4, MinIsLeast
<1>7. found \in mapped /\ found.seq = Min(seqs)
  <2>1. \E c \in mapped : c.seq = Min(seqs)
    BY <1>6
  <2> QED
    BY <2>1, Zenon
<1>8. Min(seqs) = election[Leader]
  <2>1. election[Leader] \in seqs
    BY <1>1, <1>3
  <2>2. PICK m \in Candidates : Min(seqs) = election[m]
    BY <1>2, <1>6
  <2>3. Min(seqs) <= election[Leader] /\ election[Leader] <= Min(seqs)
    BY <1>3, <1>6, <2>1, <2>2
  <2>4. election[Leader] \in Nat /\ Min(seqs) \in Nat
    BY <1>3, <1>4, <1>6 DEF Numbered, Candidates
  <2> QED
    BY <2>3, <2>4
<1> QED
  BY <1>2, <1>5, <1>7, <1>8

\* Without candidates there is nothing to find.
LEMMA NoMastersNoNode ==
  ASSUME Candidates = {}
  PROVE  /\ masterInfoFromZKNodes(Children) = NoNode
         /\ selectTopNode(Children) = NoNode
<1>1. Children = {LogReplicas}
  BY DEF Children
<1>2. \A p \in {"info_", "json.info_"} : {c \in Children : c.prefix = p} = {}
  BY <1>1 DEF LogReplicas, Node
<1>3. Keyed(Children) = {}
  BY <1>1 DEF Keyed, LogReplicas, Node
<1>4. \A p \in {"info_", "json.info_"} :
        selectTopNodePrefix(Children, p) = NoNode
  BY <1>2 DEF selectTopNodePrefix
<1> QED
  BY <1>3, <1>4 DEF masterInfoFromZKNodes, selectTopNode

\* The master behind a node with the number of the leader is the leader.
LEMMA OwnerIsLeader ==
  ASSUME Numbered, Candidates # {}, NEW node \in Children,
         node.seq = election[Leader]
  PROVE  Owner(node) = Leader
<1>1. Leader \in Candidates
  BY LeaderIsFirst
<1>2. \E m \in Candidates : election[m] = node.seq
  BY <1>1
<1>3. Owner(node) \in Candidates /\ election[Owner(node)] = node.seq
  BY <1>2, Zenon DEF Owner
<1> QED
  BY <1>1, <1>3 DEF Numbered, Candidates

\* The detector, where all masters write nodes of one kind or none does.
LEMMA DetectorPrefix ==
  ASSUME Numbered, Candidates # {}, NEW pre \in {"info_", "json.info_"},
         \A m \in Candidates : pre \in Formats(versions[m])
  PROVE  /\ selectTopNodePrefix(Children, pre) \in Children
         /\ selectTopNodePrefix(Children, pre).seq = election[Leader]
         /\ selectTopNodePrefix(Children, pre).prefix = pre
<1> DEFINE nodes == {c \in Children : c.prefix = pre}
           found == CHOOSE c \in nodes : \A d \in nodes : c.seq <= d.seq
           first == Node(pre, election[Leader])
<1>1. /\ Leader \in Candidates
      /\ \A n \in Candidates : election[Leader] <= election[n]
  BY LeaderIsFirst
<1>2. first \in nodes /\ first.seq = election[Leader]
  BY <1>1, RegisteredNodes DEF Node
<1>3. \A c \in nodes : \E m \in Candidates : c.seq = election[m]
  BY RegisteredNodes DEF Keyed, Node
<1>4. selectTopNodePrefix(Children, pre) = found
  BY <1>2 DEF selectTopNodePrefix
<1>5. \A d \in nodes : first.seq <= d.seq
  BY <1>1, <1>2, <1>3
<1>6. found \in nodes /\ \A d \in nodes : found.seq <= d.seq
  <2> HIDE DEF nodes, first
  <2> QED
    BY <1>2, <1>5, Zenon
<1>7. found.seq = election[Leader]
  <2>1. PICK m \in Candidates : found.seq = election[m]
    BY <1>3, <1>6
  <2>2. found.seq <= election[Leader] /\ election[Leader] <= found.seq
    BY <1>1, <1>2, <1>6, <2>1
  <2>3. election[Leader] \in Nat /\ election[m] \in Nat
    BY <1>1 DEF Numbered, Candidates
  <2> QED
    BY <2>1, <2>2, <2>3
<1> QED
  BY <1>4, <1>6, <1>7

(* selectTopNode picks a node of the leader, if all masters have the same  *)
(* version.                                                                *)
LEMMA DetectorFindsLeader ==
  ASSUME Numbered, Candidates # {},
         \A m, n \in Candidates : versions[m] = versions[n]
  PROVE  /\ selectTopNode(Children) \in Children
         /\ selectTopNode(Children).seq = election[Leader]
<1>1. PICK l \in Candidates : TRUE
  OBVIOUS
<1>2. \A m \in Candidates : Formats(versions[m]) = Formats(versions[l])
  <2>1. \A m \in Candidates : versions[m] = versions[l]
    OBVIOUS
  <2> QED
    BY <2>1
<1>3. CASE "json.info_" \in Formats(versions[l])
  <2>1. /\ selectTopNodePrefix(Children, "json.info_") \in Children
        /\ selectTopNodePrefix(Children, "json.info_").seq = election[Leader]
        /\ selectTopNodePrefix(Children, "json.info_").prefix = "json.info_"
    BY <1>2, <1>3, DetectorPrefix
  <2>2. selectTopNodePrefix(Children, "json.info_") # NoNode
    <3>1. NoNode.prefix = ""
      BY DEF NoNode, Node
    <3> QED
      BY <2>1, <3>1
  <2> QED
    BY <2>1, <2>2 DEF selectTopNode
<1>4. CASE "json.info_" \notin Formats(versions[l])
  <2>1. "info_" \in Formats(versions[l])
    BY <1>4 DEF Formats, Numbered, Candidates
  <2>2. /\ selectTopNodePrefix(Children, "info_") \in Children
        /\ selectTopNodePrefix(Children, "info_").seq = election[Leader]
    BY <1>2, <2>1, DetectorPrefix
  <2>3. {c \in Children : c.prefix = "json.info_"} = {}
    <3> SUFFICES ASSUME NEW c \in Children, c.prefix = "json.info_"
                 PROVE  FALSE
      OBVIOUS
    <3>1. c \in Keyed(Children)
      BY DEF Keyed
    <3>2. PICK m \in Candidates :
            \E p \in Formats(versions[m]) : c = Node(p, election[m])
      BY <3>1, RegisteredNodes
    <3>3. "json.info_" \in Formats(versions[m])
      BY <3>2 DEF Node
    <3> QED
      BY <1>2, <1>4, <3>3
  <2>4. selectTopNodePrefix(Children, "json.info_") = NoNode
    BY <2>3 DEF selectTopNodePrefix
  <2> QED
    BY <2>2, <2>4 DEF selectTopNode
<1> QED
  BY <1>3, <1>4

LEMMA FindersAgree == ASSUME Numbered PROVE DetectorAgrees
<1>1. CASE Candidates = {}
  <2>1. Owner(NoNode) = NoMaster
    BY <1>1 DEF Owner
  <2>2. Leader = NoMaster
    BY <1>1 DEF Leader
  <2> QED
    BY <1>1, <2>1, <2>2, NoMastersNoNode DEF DetectorAgrees
<1>2. CASE Candidates # {}
  <2>1. Owner(masterInfoFromZKNodes(Children)) = Leader
    BY <1>2, LookupFindsLeader, OwnerIsLeader
  <2>2. ASSUME \A m, n \in Candidates : versions[m] = versions[n]
        PROVE  Owner(selectTopNode(Children)) = Leader
    BY <1>2, <2>2, DetectorFindsLeader, OwnerIsLeader
  <2> QED
    BY <2>1, <2>2 DEF DetectorAgrees
<1> QED
  BY <1>1, <1>2

-----------------------------------------------------------------------------
(* The proxy.  Between the list of children and the read of one of them    *)
(* masters come and go, but only the one that led can have the number of   *)
(* that node.                                                              *)
ProxyInv ==
  /\ TypeOK
  /\ Numbered
  /\ pc \in {"Children", "Get"} => master = NoMaster
  /\ pc = "Get" =>
       /\ topNode.seq # 0 /\ topNode.seq < nextSeq
       /\ \A m \in Masters : election[m] = topNode.seq => m = led
  /\ pc \notin {"exec", "fatal"} => retries < RPC_RETRIES
  /\ LookupFollowsElection
  /\ AddressWhole

USE ProxyConstants

LEMMA ProxyInit == Init => ProxyInv
<1> SUFFICES ASSUME Init PROVE ProxyInv
  OBVIOUS
<1>1. Numbered
  BY DEF Init, Numbered
<1>2. NoNode.seq = 0
  BY DEF NoNode, Node
<1>3. TypeOK
  BY <1>2 DEF Init, TypeOK, States
<1>4. NoAddress.host = NoAddress.port
  BY DEF NoAddress, Address
<1> QED
  BY <1>1, <1>3, <1>4 DEF Init, ProxyInv, LookupFollowsElection, AddressWhole

LEMMA ProxyWorld == ASSUME ProxyInv, World PROVE ProxyInv'
<1>1. UNCHANGED <<mainVars, versions>>
  BY DEF World, MasterJoins, MasterLeaves, TaskChanges
<1>2. events' \in 0 .. MaxEvents
  <2>1. Event
    BY DEF World, MasterJoins, MasterLeaves, TaskChanges
  <2> QED
    BY <2>1 DEF Event, ProxyInv, TypeOK
<1>3. tasks' \in [Tasks -> States]
  <2>1. \/ tasks' = tasks
        \/ \E t \in Tasks : tasks' = [tasks EXCEPT ![t] =
             IF @ = "TASK_STAGING" THEN "TASK_RUNNING" ELSE "TASK_FINISHED"]
    BY DEF World, MasterJoins, MasterLeaves, TaskChanges
  <2>2. tasks \in [Tasks -> States]
    BY DEF ProxyInv, TypeOK
  <2> QED
    BY <2>1, <2>2 DEF States
<1>4. /\ nextSeq' \in Nat /\ nextSeq <= nextSeq'
      /\ \A m \in Masters : election'[m] \in {election[m], 0, nextSeq}
      /\ \A m, n \in Masters : election'[m] = election'[n] /\ election'[m] # 0
                                => m = n
      /\ \A m \in Masters : election'[m] < nextSeq'
      /\ election' \in [Masters -> Nat]
  <2>1. ASSUME NEW m \in Masters, MasterJoins(m) PROVE <1>4!:
    BY <2>1 DEF MasterJoins, ProxyInv, Numbered
  <2>2. ASSUME NEW m \in Masters, MasterLeaves(m) PROVE <1>4!:
    BY <2>2 DEF MasterLeaves, ProxyInv, Numbered
  <2>3. ASSUME NEW t \in Tasks, TaskChanges(t) PROVE <1>4!:
    BY <2>3 DEF TaskChanges, ProxyInv, Numbered
  <2> QED
    BY <2>1, <2>2, <2>3 DEF World
<1>5. Numbered'
  BY <1>1, <1>4 DEF ProxyInv, Numbered
<1>6. TypeOK'
  BY <1>1, <1>2, <1>3, <1>4 DEF ProxyInv, TypeOK, mainVars
<1>7. pc' = "Get" =>
        /\ topNode'.seq # 0 /\ topNode'.seq < nextSeq'
        /\ \A m \in Masters : election'[m] = topNode'.seq => m = led'
  BY <1>1, <1>4 DEF ProxyInv, TypeOK, mainVars
<1> QED
  BY <1>1, <1>5, <1>6, <1>7 DEF ProxyInv, mainVars, LookupFollowsElection,
     AddressWhole

LEMMA NumberedKept ==
  ASSUME Numbered, UNCHANGED <<versions, election, nextSeq>>
  PROVE  Numbered'
  BY DEF Numbered

LEMMA ProxyFatal ==
  ASSUME ProxyInv, Fatal, UNCHANGED worldVars
  PROVE  ProxyInv'
<1>1. Numbered'
  BY NumberedKept DEF ProxyInv, worldVars
<1>2. TypeOK'
  BY DEF Fatal, ProxyInv, TypeOK, worldVars
<1> QED
  BY <1>1, <1>2 DEF Fatal, ProxyInv, LookupFollowsElection, AddressWhole

LEMMA ProxyLists == ASSUME ProxyInv, ListChildren PROVE ProxyInv'
<1>1. UNCHANGED worldVars /\ pc = "Children"
  BY DEF ListChildren
<1>2. CASE Fatal
  BY <1>1, <1>2, ProxyFatal
<1>3. CASE ~Fatal
  <2>1. /\ masterInfoFromZKNodes(Children) # NoNode
        /\ topNode' = masterInfoFromZKNodes(Children)
        /\ led' = Leader /\ pc' = "Get"
        /\ UNCHANGED <<uri, master, address, retries, state, peers>>
    BY <1>3 DEF ListChildren
  <2>2. Numbered
    BY DEF ProxyInv
  <2>3. Candidates # {}
    BY <2>1, NoMastersNoNode
  <2>4. topNode'.seq = election[Leader] /\ Leader \in Candidates
    BY <2>1, <2>2, <2>3, LookupFindsLeader, LeaderIsFirst
  <2>5. /\ topNode'.seq \in Nat \ {0} /\ topNode'.seq < nextSeq
        /\ \A m \in Masters : election[m] = topNode'.seq => m = led'
        /\ led' \in Masters
    BY <2>1, <2>2, <2>4 DEF Numbered, Candidates
  <2>6. Numbered'
    BY <1>1, <2>2, NumberedKept DEF worldVars
  <2>7. TypeOK'
    BY <1>1, <2>1, <2>5 DEF ProxyInv, TypeOK, worldVars
  <2> QED
    BY <1>1, <2>1, <2>5, <2>6, <2>7 DEF ProxyInv, worldVars,
       LookupFollowsElection, AddressWhole
<1> QED
  BY <1>2, <1>3

\* Host and port go together.
LEMMA AddressFromWhole ==
  ASSUME NEW fields PROVE addressFrom(fields).host = addressFrom(fields).port
  BY DEF addressFrom, NoAddress, Address

LEMMA ProxyGets == ASSUME ProxyInv, GetMasterFromZK PROVE ProxyInv'
<1>1. UNCHANGED worldVars /\ pc = "Get"
  BY DEF GetMasterFromZK
<1>2. CASE Fatal
  BY <1>1, <1>2, ProxyFatal
<1>3. CASE ~Fatal
  <2>1. /\ Owner(topNode) # NoMaster /\ master' = Owner(topNode)
        /\ \E info \in Infos : address' \in {addressFrom(info), addressFromRaw}
        /\ pc' = "state"
        /\ UNCHANGED <<uri, topNode, retries, state, peers, led>>
    BY <1>3 DEF GetMasterFromZK
  <2>2. \E m \in Candidates : election[m] = topNode.seq
    BY <2>1 DEF Owner
  <2>3. Owner(topNode) \in Candidates /\ election[Owner(topNode)] = topNode.seq
    BY <2>1, <2>2, Zenon DEF Owner
  <2>4. master' = led /\ master' \in Masters
    BY <1>1, <2>1, <2>3 DEF ProxyInv, Candidates
  <2>5. address'.host = address'.port
    BY <2>1, AddressFromWhole DEF addressFromRaw, Address
  <2>6. Numbered'
    BY <1>1, NumberedKept DEF ProxyInv, worldVars
  <2>7. TypeOK'
    BY <1>1, <2>1, <2>4 DEF ProxyInv, TypeOK, worldVars
  <2> QED
    BY <1>1, <2>1, <2>4, <2>5, <2>6, <2>7 DEF ProxyInv, LookupFollowsElection,
       AddressWhole
<1> QED
  BY <1>2, <1>3

LEMMA ProxyAsks ==
  ASSUME ProxyInv, RequestFails \/ NotFound \/ NotJSON \/ GetState
  PROVE  ProxyInv'
<1>1. /\ pc \in {"state", "state.json"}
      /\ pc' \in {"state", "state.json", "peers", "fatal"}
      /\ UNCHANGED <<uri, topNode, master, address, led, versions, election,
                     nextSeq, tasks>>
  BY DEF RequestFails, NotFound, NotJSON, GetState, worldVars
<1>2. events' \in 0 .. MaxEvents
  BY DEF RequestFails, NotFound, NotJSON, GetState, worldVars, Event, ProxyInv,
     TypeOK
<1>3. /\ retries' \in 0 .. RPC_RETRIES
      /\ pc' # "fatal" => retries' < RPC_RETRIES
  <2>1. CASE RequestFails
    BY <2>1 DEF RequestFails, ProxyInv, TypeOK
  <2>2. CASE ~RequestFails
    <3>1. retries' = retries
      BY <2>2 DEF NotFound, NotJSON, GetState
    <3> QED
      BY <1>1, <3>1 DEF ProxyInv, TypeOK
  <2> QED
    BY <2>1, <2>2
<1>4. Numbered'
  BY <1>1, NumberedKept DEF ProxyInv
<1>5. TypeOK'
  BY <1>1, <1>2, <1>3 DEF ProxyInv, TypeOK
<1> QED
  BY <1>1, <1>3, <1>4, <1>5 DEF ProxyInv, LookupFollowsElection, AddressWhole

LEMMA ProxyExecs == ASSUME ProxyInv, Exec PROVE ProxyInv'
<1>1. UNCHANGED worldVars
  BY DEF Exec
<1>2. CASE Fatal
  BY <1>1, <1>2, ProxyFatal
<1>3. CASE ~Fatal
  <2>1. /\ pc' = "exec"
        /\ UNCHANGED <<uri, topNode, master, address, retries, led>>
    BY <1>3 DEF Exec
  <2>2. Numbered'
    BY <1>1, NumberedKept DEF ProxyInv, worldVars
  <2>3. TypeOK'
    BY <1>1, <2>1 DEF ProxyInv, TypeOK, worldVars
  <2> QED
    BY <2>1, <2>2, <2>3 DEF ProxyInv, LookupFollowsElection, AddressWhole
<1> QED
  BY <1>2, <1>3

LEMMA ProxyStep == ASSUME ProxyInv, [Next]_vars PROVE ProxyInv'
<1>1. CASE UNCHANGED vars
  <2>1. Numbered'
    BY <1>1, NumberedKept DEF ProxyInv, vars, worldVars
  <2>2. TypeOK'
    BY <1>1 DEF ProxyInv, TypeOK, vars, mainVars, worldVars
  <2> QED
    BY <1>1, <2>1, <2>2 DEF ProxyInv, LookupFollowsElection, AddressWhole,
       vars, mainVars, worldVars
<1> QED
  BY <1>1, ProxyWorld, ProxyLists, ProxyGets, ProxyAsks, ProxyExecs
     DEF Next, Main

(* The lookup keeps its invariant while masters and tasks come and go.     *)
THEOREM ProxyInvariant == Spec => []ProxyInv
<1>1. ProxyInv /\ [Next]_vars => ProxyInv'
  BY ProxyStep
<1> QED
  BY <1>1, ProxyInit, PTL DEF Spec

(* Every variable of the proxy keeps its type: GetState counts its retries *)
(* up to RPC_RETRIES.                                                      *)
THEOREM ProxyTypes == Spec => []TypeOK
<1>1. ProxyInv => TypeOK
  BY DEF ProxyInv
<1> QED
  BY <1>1, ProxyInvariant, PTL

(* GetMasterFromZK finds the master that led when the children were        *)
(* listed, though masters join and leave before the node is read.          *)
THEOREM LookupCorrect == Spec => []LookupFollowsElection
<1>1. ProxyInv => LookupFollowsElection
  BY DEF ProxyInv
<1> QED
  BY <1>1, ProxyInvariant, PTL

(* The address GetMasterFromZK returns never has its host from one place   *)
(* of the MasterInfo and its port from another.                            *)
THEOREM AddressNotMixed == Spec => []AddressWhole
<1>1. ProxyInv => AddressWhole
  BY DEF ProxyInv
<1> QED
  BY <1>1, ProxyInvariant, PTL

(* The detector of the scheduler and the lookup of the proxy find the same *)
(* master in every state of an election between masters of one version.    *)
THEOREM DetectorCorrect == Spec => []DetectorAgrees
<1>1. ProxyInv => DetectorAgrees
  BY FindersAgree DEF ProxyInv
<1> QED
  BY <1>1, ProxyInvariant, PTL
=============================================================================
