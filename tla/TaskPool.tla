------------------------------ MODULE TaskPool ------------------------------
(***************************************************************************)
(* What the scheduler promises about its tasks while its process lives and *)
(* keeps its master: a task is launched under a name that was never used,  *)
(* on a slave that has none, and only when there is room for it; and it    *)
(* leaves the pool once.  Nothing is said of offers, signals, status       *)
(* updates or etcd.                                                        *)
(***************************************************************************)
EXTENDS Naturals, FiniteSets

CONSTANTS Names, Slaves, NoSlave, Size

VARIABLES pool,   \* the tasks that are pending or running
          on      \* for each name, the slave its task was launched on

poolVars == <<pool, on>>

PoolInit ==
  /\ pool = {}
  /\ on = [n \in Names |-> NoSlave]

Launch(n, s) ==
  /\ on[n] = NoSlave
  /\ \A m \in pool : on[m] # s
  /\ Cardinality(pool) < Size
  /\ pool' = pool \cup {n}
  /\ on' = [on EXCEPT ![n] = s]

Remove(n) ==
  /\ pool' = pool \ {n}
  /\ UNCHANGED on

PoolNext ==
  \/ \E n \in Names, s \in Slaves : Launch(n, s)
  \/ \E n \in pool : Remove(n)

PoolSpec == PoolInit /\ [][PoolNext]_poolVars
=============================================================================
