--------------------------- MODULE ExecutorProofs ---------------------------
(***************************************************************************)
(* Proofs about the executor, for every MaxEvents and MaxUnreaped: what a  *)
(* reseed does to the data of etcd, with the failures of every call of     *)
(* stripPersistedMetadata and the interleavings with the driver, the       *)
(* callbacks and the timers.                                               *)
(***************************************************************************)
EXTENDS Executor, TLAPS

reseedState == <<harness, etcd, command, data, backup>>

-----------------------------------------------------------------------------
(* The steps that keep the state of the reseed.                            *)

\* A step of the driver or of the slave changes nothing of the executor, and
\* never makes the driver start.
LEMMA DriverKeeps ==
  ASSUME InDriver(DriverStep)
  PROVE  /\ UNCHANGED <<reseedState, process>>
         /\ status' \in {"NotStarted", "Running"} => status' = status
<1>1. UNCHANGED <<reseedState, process>>
  BY DEF InDriver, ownVars, harnessVars, reseedState
<1>2. CASE Handlers
  BY <1>1, <1>2 DEF Handlers, registered, reregistered, reconnect, runTask, killTask,
     shutdown, Connect, localVars
<1>3. CASE \E u \in Updates : statusUpdateAcknowledgement(u)
  BY <1>1, <1>3 DEF statusUpdateAcknowledgement
<1>4. CASE \E s \in Sessions : networkError(s)
  BY <1>1, <1>4 DEF networkError, Abort
<1>5. CASE recoveryTimedOut
  BY <1>1, <1>5 DEF recoveryTimedOut
<1>6. CASE SlaveReceives \/ SendFails \/ Slave
  BY <1>1, <1>6 DEF SlaveReceives, SendFails, Slave, SlaveGoesDown, SlaveRecovers,
     SlaveOrders, idleVars, localVars
<1> QED
  BY <1>1, <1>2, <1>3, <1>4, <1>5, <1>6 DEF InDriver, Up, DriverStep

\* The callbacks, the timers, the listener and runUntilClosed do not touch the
\* data of etcd.
LEMMA OthersKeep ==
  ASSUME \/ Up(MainReturns)
         \/ Up(Reregistered \/ Disconnected \/ KillTask)
         \/ Up(SuicideWaits \/ SuicideTimeout)
         \/ \E e \in Etcds : Up(Reap(e))
         \/ Up(ReseedRequest \/ ListenFails)
  PROVE  UNCHANGED <<reseedState, status>> /\ process = "up"
<1> USE DEF Up, reseedState, harnessVars, driverVars, localVars, NoDriverCall
<1>1. CASE Up(MainReturns)
  BY <1>1 DEF MainReturns
<1>2. CASE Up(Reregistered \/ Disconnected \/ KillTask)
  BY <1>2 DEF Reregistered, Disconnected, KillTask
<1>3. CASE Up(SuicideWaits \/ SuicideTimeout)
  BY <1>3 DEF SuicideWaits, SuicideTimeout
<1>4. CASE \E e \in Etcds : Up(Reap(e))
  BY <1>4 DEF Reap
<1>5. CASE Up(ReseedRequest \/ ListenFails)
  BY <1>5 DEF ReseedRequest, ListenFails, idleVars
<1> QED
  BY <1>1, <1>2, <1>3, <1>4, <1>5

\* Every step of the executor, in the groups the proofs go through.
LEMMA Steps ==
  ASSUME Next
  PROVE  \/ MainStarts
         \/ InDriver(DriverStep)
         \/ \/ Up(MainReturns)
            \/ Up(Reregistered \/ Disconnected \/ KillTask)
            \/ Up(SuicideWaits \/ SuicideTimeout)
            \/ \E e \in Etcds : Up(Reap(e))
            \/ Up(ReseedRequest \/ ListenFails)
         \/ Up(LaunchTask) \/ Up(EtcdExits)
         \/ Up(Configure) \/ Up(Report) \/ Up(StartEtcd)
         \/ Up(SelectReseed) \/ Up(SelectShutdown)
         \/ Up(SelectExit(TRUE) \/ SelectExit(FALSE))
         \/ Up(Backup) \/ Up(RemoveData) \/ Up(RenameBackup)
         \/ \E here \in {"backup", "remove", "rename"} : Up(StripFails(here))
BY DEF Next, Up, CallbackStep, HarnessStep, Strip

-----------------------------------------------------------------------------
(* The order of the calls of stripPersistedMetadata.                       *)

\* The order of stripPersistedMetadata holds at first.
LEMMA StripOrderInit == Init => StripOrder
BY DEF Init, StripOrder

\* Every step preserves it.
LEMMA StripOrderStep == StripOrder /\ [Next]_vars => StripOrder'
<1> SUFFICES ASSUME StripOrder, [Next]_vars PROVE StripOrder'
  OBVIOUS
<1> USE DEF StripOrder, Stripped, Up
<1>0. CASE UNCHANGED reseedState
  BY <1>0 DEF reseedState
<1>1. CASE UNCHANGED vars
  BY <1>1 DEF vars, ownVars, harnessVars
<1>2. CASE MainStarts
  BY <1>2 DEF MainStarts, harnessVars
<1>3. CASE Up(LaunchTask) \/ Up(EtcdExits)
  BY <1>3 DEF LaunchTask, EtcdExits
<1>4. CASE Up(Configure) \/ Up(Report) \/ Up(StartEtcd)
  BY <1>4 DEF Configure, Report, StartEtcd
<1>5. CASE Up(SelectReseed) \/ Up(SelectShutdown)
  BY <1>5 DEF SelectReseed, SelectShutdown
<1>6. CASE Up(SelectExit(TRUE) \/ SelectExit(FALSE))
  BY <1>6 DEF SelectExit
<1>7. CASE Up(Backup)
  BY <1>7 DEF Backup, StripStep
<1>8. CASE Up(RemoveData)
  BY <1>8 DEF RemoveData, StripStep
<1>9. CASE Up(RenameBackup)
  BY <1>9 DEF RenameBackup, StripStep, NextRound
<1>10. CASE \E here \in {"backup", "remove", "rename"} : Up(StripFails(here))
  BY <1>10 DEF StripFails, NextRound
<1> QED
  BY <1>0, <1>1, <1>2, <1>3, <1>4, <1>5, <1>6, <1>7, <1>8, <1>9, <1>10, Steps,
     DriverKeeps, OthersKeep

\* The data directory is removed only while its backup exists, and renamed over
\* only when it is gone: in every behaviour of the executor.
THEOREM StripInOrder == Spec => []StripOrder
BY StripOrderInit, StripOrderStep, PTL DEF Spec

\* ReseedKeepsData: no step of the executor loses the last copy of the data of
\* etcd, whatever call of stripPersistedMetadata fails.
THEOREM DataKept == Spec => ReseedKeepsData
<1>1. StripOrder /\ [Next]_vars => [Copy => Copy']_vars
  <2> SUFFICES ASSUME StripOrder, Next, Copy PROVE Copy'
    BY DEF vars
  <2> USE DEF Copy, Up
  <2>0. CASE UNCHANGED reseedState
    BY <2>0 DEF reseedState
  <2>1. CASE MainStarts
    BY <2>1 DEF MainStarts, harnessVars
  <2>2. CASE Up(LaunchTask) \/ Up(EtcdExits)
    BY <2>2 DEF LaunchTask, EtcdExits
  <2>3. CASE Up(Configure) \/ Up(Report) \/ Up(StartEtcd)
    BY <2>3 DEF Configure, Report, StartEtcd
  <2>4. CASE Up(SelectReseed) \/ Up(SelectShutdown)
    BY <2>4 DEF SelectReseed, SelectShutdown
  <2>5. CASE Up(SelectExit(TRUE) \/ SelectExit(FALSE))
    BY <2>5 DEF SelectExit
  <2>6. CASE Up(Backup)
    BY <2>6 DEF Backup, Stripped
  <2>7. CASE Up(RemoveData)
    BY <2>7 DEF RemoveData, StripStep, StripOrder, Stripped
  <2>8. CASE Up(RenameBackup)
    BY <2>8 DEF RenameBackup, StripStep, StripOrder
  <2>9. CASE \E here \in {"backup", "remove", "rename"} : Up(StripFails(here))
    BY <2>9 DEF StripFails, StripOrder, Stripped
  <2> QED
    BY <2>0, <2>1, <2>2, <2>3, <2>4, <2>5, <2>6, <2>7, <2>8, <2>9, Steps,
       DriverKeeps, OthersKeep
<1> QED
  BY <1>1, StripInOrder, PTL DEF Spec, ReseedKeepsData

-----------------------------------------------------------------------------
(* What an etcd with --force-new-cluster runs on.                          *)

\* Nothing is forced at first.
LEMMA ForcedInit == Init => ForcedFacts
BY DEF Init, DriverInit, ForcedFacts, Dirs

\* Every step preserves what is known of an etcd that was forced.
LEMMA ForcedStep == StripOrder /\ ForcedFacts /\ [Next]_vars => ForcedFacts'
<1> SUFFICES ASSUME StripOrder, ForcedFacts, [Next]_vars PROVE ForcedFacts'
  OBVIOUS
<1> USE DEF ForcedFacts, Up, Dirs
<1>1. CASE UNCHANGED vars
  BY <1>1 DEF vars, ownVars, harnessVars, driverVars, localVars
<1>2. CASE MainStarts
  BY <1>2 DEF MainStarts, Start, harnessVars, driverVars, localVars
<1>3. CASE InDriver(DriverStep)
  <2>1. UNCHANGED <<reseedState, process>>
    BY <1>3, DriverKeeps
  <2>2. status' \in {"NotStarted", "Running"} => status' = status
    BY <1>3, DriverKeeps
  <2> QED
    BY <2>1, <2>2 DEF reseedState
<1>4. CASE UNCHANGED <<reseedState, status>> /\ process = "up"
  BY <1>4 DEF reseedState
<1>5. CASE Up(LaunchTask)
  BY <1>5 DEF LaunchTask, handleFailure, Abort, NoDriverCall
<1>6. CASE Up(EtcdExits)
  BY <1>6 DEF EtcdExits, driverVars, localVars
<1>7. CASE Up(Configure)
  BY <1>7 DEF Configure, handleFailure, Abort, NoDriverCall
<1>8. CASE Up(Report)
  BY <1>8 DEF Report
<1>9. CASE Up(StartEtcd)
  <2>1. harness = "start" /\ harness' = "select"
        /\ UNCHANGED <<command, backup>>
    BY <1>9 DEF StartEtcd
  <2>2. UNCHANGED <<status, process>>
    BY <1>9 DEF StartEtcd, driverVars, localVars
  <2>3. data' = data \/ (data = "none" /\ command = "join" /\ data' = "members")
                     \/ (data = "none" /\ command # "join" /\ data' = "empty")
    BY <1>9 DEF StartEtcd
  <2>4. command \in {"join", "force"}
    OBVIOUS
  <2> QED
    BY <2>1, <2>2, <2>3, <2>4
<1>10. CASE Up(SelectReseed) \/ Up(SelectShutdown)
  BY <1>10 DEF SelectReseed, SelectShutdown, CloseKillChan, driverVars,
     localVars
<1>11. CASE Up(SelectExit(TRUE) \/ SelectExit(FALSE))
  BY <1>11 DEF SelectExit, handleFailure, Abort, NoDriverCall
<1>12. CASE Up(Backup)
  BY <1>12 DEF Backup, Stripped, StripStep, reseedRest, NoDriverCall
<1>13. CASE Up(RemoveData)
  BY <1>13 DEF RemoveData, StripStep, StripOrder, Stripped, reseedRest,
     NoDriverCall
<1>14. CASE Up(RenameBackup)
  BY <1>14 DEF RenameBackup, StripStep, NextRound, reseedRest, NoDriverCall
<1>15. CASE \E here \in {"backup", "remove", "rename"} : Up(StripFails(here))
  BY <1>15 DEF StripFails, NextRound, handleFailure, Abort, reseedRest
<1> QED
  BY <1>1, <1>2, <1>3, <1>4, <1>5, <1>6, <1>7, <1>8, <1>9, <1>10, <1>11, <1>12,
     <1>13, <1>14, <1>15, Steps, OthersKeep

\* ForcedOnBackup: while the driver runs, an etcd that forces a new cluster
\* runs on the stripped data, in every behaviour of the executor.
THEOREM ForcedNewClusterSafe == Spec => []ForcedOnBackup
<1>1. ForcedFacts => ForcedOnBackup
  BY DEF ForcedFacts, ForcedOnBackup
<1> QED
  BY <1>1, ForcedInit, ForcedStep, StripInOrder, PTL DEF Spec
=============================================================================
