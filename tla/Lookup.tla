------------------------------- MODULE Lookup -------------------------------
(***************************************************************************)
(* The functions by which the commands find the leading Mesos master in    *)
(* ZooKeeper and the etcd nodes in the state of that master, and the one   *)
(* by which the detector of mesos-go finds the same master.  They hold no  *)
(* state.                                                                  *)
(***************************************************************************)
EXTENDS Naturals, Sequences, SequencesExt, FiniteSetsExt

-----------------------------------------------------------------------------
(* ZooKeeper URIs.                                                         *)

\* A URI, split: for each server between "," the number of its fields between
\* ":", and the parts after each "/".
Uris == [servers : {<<2>>, <<2, 2>>, <<2, 1>>},
         path : {<<>>, <<"">>, <<"mesos">>, <<"path", "mesos">>}]

ParseZKURIOk(uri) ==
  /\ Len(uri.path) <= 1
  /\ uri.path # <<"">>
  /\ \A i \in DOMAIN uri.servers : uri.servers[i] = 2

-----------------------------------------------------------------------------
(* The nodes in which masters register for the election.                   *)

\* The name of a node: a prefix and the sequence number of ZooKeeper, ten
\* digits long.  The log replicas have a node of their own there.
Node(prefix, seq) == [prefix |-> prefix, seq |-> seq]
LogReplicas == Node("log_replicas", 0)

NoNode == Node("", 0)

\* By name: "info_" before "json.info_", and then by the digits.
NameBefore(a, b) ==
  LET rank(prefix) == CASE prefix = "info_" -> 1
                        [] prefix = "json.info_" -> 2
                        [] prefix = "log_replicas" -> 3
  IN  \/ rank(a.prefix) < rank(b.prefix)
      \/ a.prefix = b.prefix /\ a.seq < b.seq

Keyed(children) == {c \in children : c.prefix \in {"info_", "json.info_"}}

\* Mutant: the order is not reversed, and protobuf comes before json.
masterInfoFromHighest(children) ==
  LET mapped == Keyed(children) IN
  IF mapped = {} THEN NoNode
  ELSE CHOOSE c \in mapped : \A d \in mapped : d = c \/ NameBefore(d, c)

\* The children are taken in the reverse order of their names; the first one
\* with a sequence number stands for it.  The lowest sequence number wins.
masterInfoFromZKNodes(children) ==
  LET mapped == {c \in Keyed(children) :
                   \A d \in Keyed(children) :
                     d.seq = c.seq => d = c \/ NameBefore(d, c)}
      lowest == Min({c.seq : c \in mapped})
  IN  IF mapped = {} THEN NoNode
      ELSE CHOOSE c \in mapped : c.seq = lowest

\* The detector: the lowest number with this prefix.
selectTopNodePrefix(list, pre) ==
  LET nodes == {c \in list : c.prefix = pre} IN
  IF nodes = {} THEN NoNode
  ELSE CHOOSE c \in nodes : \A d \in nodes : c.seq <= d.seq

\* Mutant: the latest registration instead of the first.
selectTopNodeLatest(list) ==
  LET nodes == Keyed(list) IN
  IF nodes = {} THEN NoNode
  ELSE CHOOSE c \in nodes : \A d \in nodes : d.seq <= c.seq

selectTopNode(list) ==
  LET json == selectTopNodePrefix(list, "json.info_") IN
  IF json # NoNode THEN json ELSE selectTopNodePrefix(list, "info_")

-----------------------------------------------------------------------------
(* The address in a MasterInfo: which of its fields are set, and from      *)
(* which of them host and port are taken.                                  *)

Infos == {fields \in SUBSET {"address", "address.hostname", "address.ip",
                             "hostname", "ip"} :
            "address" \notin fields =>
              fields \cap {"address.hostname", "address.ip"} = {}}

Address(host, port) == [host |-> host, port |-> port]
NoAddress == Address("", "")

\* Mutant: a port that was found is kept.
addressFromKeepsPort(fields) ==
  LET outer == fields \cap {"hostname", "ip"} # {}
      host == IF fields \cap {"address.hostname", "address.ip"} # {}
                THEN "address" ELSE IF outer THEN "info" ELSE ""
  IN  IF host = "" THEN NoAddress
      ELSE Address(host, IF "address" \in fields THEN "address" ELSE "info")

addressFrom(fields) ==
  LET inner == fields \cap {"address.hostname", "address.ip"} # {}
      outer == fields \cap {"hostname", "ip"} # {}
      host == IF inner THEN "address" ELSE IF outer THEN "info" ELSE ""
      port == IF inner THEN "address" ELSE "info"
  IN  IF host = "" THEN NoAddress ELSE Address(host, port)

\* What is scraped from the raw data is the pid of the master.
addressFromRaw == Address("pid", "pid")

-----------------------------------------------------------------------------
(* Task ids and the peers in the state of a master.                        *)

\* A printed node is a sequence of words; a word is a number or it is not.
Word(number, value) == [number |-> number, value |-> value]

\* String prints neither the type nor the id of the slave.
String(n) ==
  <<Word(FALSE, n.Name), Word(FALSE, n.Host), Word(TRUE, n.RPCPort),
    Word(TRUE, n.ClientPort), Word(TRUE, n.ReseedPort)>>

ParseOk(text) == Len(text) = 5 /\ \A i \in 3..5 : text[i].number

\* Mutant: the ports in another order than String prints them.
ParseSwapped(text) ==
  [Name |-> text[1].value, Host |-> text[2].value,
   RPCPort |-> text[4].value, ClientPort |-> text[3].value,
   ReseedPort |-> text[5].value]

Parse(text) ==
  [Name |-> text[1].value, Host |-> text[2].value,
   RPCPort |-> text[3].value, ClientPort |-> text[4].value,
   ReseedPort |-> text[5].value]

Named(state, frameworkName) ==
  SelectSeq(state, LAMBDA f : f.name = frameworkName)

RunningIds(framework) ==
  LET running == SelectSeq(framework.tasks,
                           LAMBDA t : t.state = "TASK_RUNNING")
  IN  [i \in DOMAIN running |-> running[i].id]

\* The first framework of that name counts, and all its running tasks must
\* have ids that parse.
GetPeersOk(state, frameworkName) ==
  LET named == Named(state, frameworkName) IN
  /\ named # <<>>
  /\ \A i \in DOMAIN RunningIds(named[1]) : ParseOk(RunningIds(named[1])[i])

\* A peer: the name, the host and the port of --initial-cluster.
Peer(n) == <<n.Name, n.Host, n.RPCPort>>

GetPeersFromState(state, frameworkName) ==
  LET ids == RunningIds(Named(state, frameworkName)[1]) IN
  [i \in DOMAIN ids |-> Peer(Parse(ids[i]))]
=============================================================================
