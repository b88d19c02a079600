-------------------------- MODULE MCEtcdScheduler --------------------------
(* Instances of EtcdScheduler for TLC.                                     *)
EXTENDS EtcdScheduler, TLC

\* Slaves are interchangeable.
SlaveSymmetry == Permutations(Slaves)

(* A cluster of the desired size that has been running for a while: one    *)
(* of the states Spec reaches from Init by launching node after node.      *)
First == 1..desiredInstanceCount

Established ==
  /\ connected = TRUE
  /\ task = [n \in Ids |-> IF n \in First THEN "running" ELSE "none"]
  /\ slaveOf = CHOOSE f \in [Ids -> Slaves \cup {NoSlave}] :
                 \A m, n \in Ids : /\ f[n] # NoSlave <=> n \in First
                                   /\ m \in First /\ f[m] = f[n] => m = n
  /\ data = [n \in Ids |-> {}]
  /\ owed = {}
  /\ view = [n \in Ids |-> IF n \in First THEN First ELSE {}]
  /\ named = First
  /\ zk = First
  /\ state = "Mutable"
  /\ pending = {} /\ running = First /\ tasks = First
  /\ heardFrom = First /\ reconciliationInfo = First
  /\ highestInstanceID = desiredInstanceCount
  /\ livelockWindow = "nil"
  /\ launchChan = 0 /\ pauseChan = 0
  /\ offers = {}
  /\ launchPc = "select" /\ launchOffer = NoSlave /\ launchTask = 0
  /\ registered = TRUE
  /\ syncPc = [g \in Syncs |-> "off"]
  /\ syncPrev = [g \in Syncs |-> {}]
  /\ syncRetry = [g \in Syncs |-> 0]
  /\ lastSync = 1
  /\ reseedWaiting = 0 /\ reseeding = FALSE

EstablishedSpec == Established /\ [][Next]_vars /\ Fairness
=============================================================================
