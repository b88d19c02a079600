------------------------------ MODULE Executor ------------------------------
(***************************************************************************)
(* The executor process: executor/executor.go on top of the executor       *)
(* driver.  Its goroutines are the callbacks of the driver, the timers     *)
(* that Disconnected starts, the harness of the task, the listener for     *)
(* reseed requests and, for each etcd that the harness starts, a           *)
(* runUntilClosed.  One round of the harness is                            *)
(*   start etcd; wait for a reseed request, the shutdown or the exit of    *)
(*   etcd; act on it; start again.                                         *)
(* The data directory of etcd and its backup are the state a reseed works  *)
(* on: "members" (etcd's data), "stripped" (the same data, without the     *)
(* membership), "empty" (made by an etcd that found no data), "damaged"    *)
(* (not all of it could be removed) or "none".                             *)
(***************************************************************************)
EXTENDS ExecutorDriver

CONSTANT
  MaxUnreaped   \* bound: runUntilClosed calls that have not killed their etcd

ASSUME UnreapedBound == MaxUnreaped \in Nat \ {0}

VARIABLES
  process,        \* of the executor; the last three values are how it ended
  shutdownChan,   \* it is closed
  suicides,       \* goroutines of Disconnected: not yet, or in, their select
  harness,        \* where etcdHarness is
  listening,      \* reseedListener serves requests
  reseedChan,     \* holds a request
  etcd,           \* the etcd of this round
  command,        \* its flags: "join" or "force" (--force-new-cluster)
  unreaped,       \* etcds of earlier rounds that are still to be killed
  data, backup    \* etcd_data and etcd_backup

harnessVars == <<harness, listening, reseedChan, etcd, command,
                 unreaped, data, backup>>
ownVars == <<process, shutdownChan, suicides, harnessVars>>
vars == <<driverVars, ownVars>>

\* The state of an etcd that runUntilClosed has called Start for.
Etcds == {"running", "exited", "notstarted"}
Dirs == {"none", "members", "stripped", "empty", "damaged"}

TypeOK ==
  /\ DriverTypeOK
  /\ process \in {"main", "up", "returned", "exited", "panicked"}
  /\ shutdownChan \in BOOLEAN
  /\ suicides \in [{"begun", "waiting"} -> Nat]
  /\ harness \in {"idle", "configure", "report", "start", "select", "backup",
                  "remove", "rename", "gaveup"}
  /\ listening \in BOOLEAN
  /\ reseedChan \in BOOLEAN
  /\ etcd \in Etcds \cup {"none"}
  /\ command \in {"join", "force"}
  /\ unreaped \in [Etcds -> 0 .. MaxUnreaped]
  /\ data \in Dirs
  /\ backup \in Dirs

Init ==
  /\ DriverInit
  /\ process = "main"
  /\ shutdownChan = FALSE
  /\ suicides = [x \in {"begun", "waiting"} |-> 0]
  /\ harness = "idle"
  /\ listening = FALSE
  /\ reseedChan = FALSE
  /\ etcd = "none"
  /\ command = "join"
  /\ unreaped = [e \in Etcds |-> 0]
  /\ data = "none"
  /\ backup = "none"

-----------------------------------------------------------------------------
\* The rest of the driver, for a step that calls SendStatusUpdate or Abort.
driverRest == <<connected, connection, tasks, callbacks, recovery, errors,
                inbox, slaveVars>>

\* e.shutdown closes shutdownChan; closing it again panics.
Shutdown ==
  /\ shutdownChan' = TRUE
  /\ process' = IF shutdownChan THEN "panicked" ELSE process

\* Mutant: the driver goes on after the failure.
handleFailureWithoutAbort ==
  /\ SendStatusUpdate("FAILED")
  /\ UNCHANGED status

handleFailure ==
  /\ SendStatusUpdate("FAILED")
  /\ Abort

-----------------------------------------------------------------------------
(* main of cmd/etcd-mesos-executor.                                        *)

MainStarts ==
  /\ process = "main"
  /\ \/ Start /\ process' = "up"
     \/ process' = "returned" /\ UNCHANGED driverVars
  /\ UNCHANGED <<shutdownChan, suicides, harnessVars>>

\* Join returns once stopCh is closed, and main with it.
MainReturns ==
  /\ stopCh
  /\ process' = "returned"
  /\ UNCHANGED <<driverVars, shutdownChan, suicides, harnessVars>>

-----------------------------------------------------------------------------
(* Callbacks.                                                              *)

Callback(c) ==
  /\ callbacks[c] > 0
  /\ callbacks' = [callbacks EXCEPT ![c] = @ - 1]
  /\ UNCHANGED <<connected, connection, tasks, recovery, errors,
                 inbox, slaveVars>>

NoDriverCall == UNCHANGED <<status, updates, outbox>>

\* Sends on cancelSuicide until no goroutine receives: the ones that are not
\* yet in their select are not reached.
Reregistered ==
  /\ Callback("Reregistered")
  /\ suicides' = [suicides EXCEPT !["waiting"] = 0]
  /\ NoDriverCall
  /\ UNCHANGED <<process, shutdownChan, harnessVars>>

Disconnected ==
  /\ Callback("Disconnected")
  /\ suicides' = [suicides EXCEPT !["begun"] = @ + 1]
  /\ NoDriverCall
  /\ UNCHANGED <<process, shutdownChan, harnessVars>>

\* The list of nodes can be read and is not empty, or the task fails.  The
\* slave gives an executor one task, so there is one harness.
LaunchTask ==
  /\ Callback("LaunchTask") /\ harness = "idle"
  /\ \/ harness' = "configure" /\ NoDriverCall
     \/ harness' = "gaveup" /\ handleFailure
  /\ UNCHANGED <<process, shutdownChan, suicides, listening, reseedChan,
                 etcd, command, unreaped, data, backup>>

KillTask ==
  /\ Callback("KillTask")
  /\ Shutdown
  /\ NoDriverCall
  /\ UNCHANGED <<suicides, harnessVars>>

-----------------------------------------------------------------------------
(* The goroutine of Disconnected.                                          *)

SuicideWaits ==
  /\ suicides["begun"] > 0
  /\ suicides' = [begun   |-> suicides["begun"] - 1,
                  waiting |-> suicides["waiting"] + 1]
  /\ UNCHANGED <<driverVars, process, shutdownChan, harnessVars>>

SuicideTimeout ==
  /\ suicides["waiting"] > 0
  /\ suicides' = [suicides EXCEPT !["waiting"] = @ - 1]
  /\ Shutdown
  /\ UNCHANGED <<driverVars, harnessVars>>

-----------------------------------------------------------------------------
(* etcdHarness.                                                            *)

\* command and ConfigureInstance, then the listener for reseed requests.
Configure ==
  /\ harness = "configure"
  /\ \/ /\ harness' = "report" /\ listening' = TRUE
        /\ NoDriverCall
     \/ /\ harness' = "gaveup" /\ UNCHANGED listening
        /\ handleFailure
  /\ UNCHANGED <<driverRest, process, shutdownChan, suicides, reseedChan,
                 etcd, command, unreaped, data, backup>>

\* TASK_RUNNING.  It is refused only when the driver is no longer running, and
\* then handleFailure changes nothing either; the harness goes on.
Report ==
  /\ harness = "report"
  /\ SendStatusUpdate("RUNNING")
  /\ harness' = "start"
  /\ UNCHANGED <<status, driverRest, process, shutdownChan, suicides,
                 listening, reseedChan, etcd, command,
                 unreaped, data, backup>>

\* The top of the loop.  Start of runUntilClosed may fail.  An etcd without a
\* data directory makes one: it joins its cluster, or forces a new one.
StartEtcd ==
  /\ harness = "start"
  /\ harness' = "select"
  /\ \/ /\ etcd' = "running"
        /\ data' = CASE data # "none" -> data
                     [] data = "none" /\ command = "join" -> "members"
                     [] OTHER -> "empty"
     \/ /\ etcd' = "notstarted"
        /\ UNCHANGED data
  /\ UNCHANGED <<driverVars, process, shutdownChan, suicides, listening,
                 reseedChan, command, unreaped, backup>>

\* The etcd of this round exits, and exitChan is closed.
EtcdExits ==
  /\ etcd = "running"
  /\ etcd' = "exited"
  /\ UNCHANGED <<driverVars, process, shutdownChan, suicides, harness,
                 listening, reseedChan, command, unreaped,
                 data, backup>>

\* close(killChan): the runUntilClosed of this round will kill its etcd.
CloseKillChan ==
  /\ \A e \in Etcds : unreaped[e] < MaxUnreaped
  /\ etcd' = "none"
  /\ unreaped' = [unreaped EXCEPT ![etcd] = @ + 1]

SelectReseed ==
  /\ harness = "select" /\ reseedChan
  /\ CloseKillChan
  /\ reseedChan' = FALSE
  /\ harness' = "backup"
  /\ UNCHANGED <<driverVars, process, shutdownChan, suicides, listening,
                 command, data, backup>>

SelectShutdown ==
  /\ harness = "select" /\ shutdownChan
  /\ CloseKillChan
  /\ harness' = "start"
  /\ UNCHANGED <<driverVars, process, shutdownChan, suicides, listening,
                 reseedChan, command, data, backup>>

\* The runUntilClosed of this round will wait for its killChan for ever.
\* Past the launch timeout the task fails and the executor shuts down.
SelectExit(late) ==
  /\ harness = "select" /\ etcd \in {"exited", "notstarted"}
  /\ IF late THEN handleFailure /\ Shutdown
             ELSE NoDriverCall /\ UNCHANGED <<process, shutdownChan>>
  /\ etcd' = "none"
  /\ harness' = "start"
  /\ UNCHANGED <<driverRest, suicides, listening, reseedChan, command,
                 unreaped, data, backup>>

-----------------------------------------------------------------------------
(* The reseed: stripPersistedMetadata, and the new command.                *)

\* Mutant: etcd starts again with the flags it had.
NextRoundSameCommand ==
  /\ harness' = "start"
  /\ UNCHANGED command

\* What the harness does after stripPersistedMetadata, failed or not.
NextRound ==
  /\ harness' = "start"
  /\ command' = "force"

reseedRest == <<driverRest, process, shutdownChan, suicides, listening,
                reseedChan, etcd, unreaped>>

\* One call of stripPersistedMetadata: on to the next, or give up.
StripStep(here, next) ==
  /\ harness = here
  /\ IF next = "start" THEN NextRound
                       ELSE harness' = next /\ UNCHANGED command
  /\ NoDriverCall

\* Mutant: the failure is only logged.
StripFailsQuietly(here) ==
  /\ harness = here
  /\ NoDriverCall
  /\ NextRound
  /\ UNCHANGED <<reseedRest, data, backup>>

\* A RemoveAll that fails may have removed a part.
StripFails(here) ==
  /\ harness = here
  /\ handleFailure
  /\ NextRound
  /\ data' \in IF here = "remove" THEN {data, "damaged"} ELSE {data}
  /\ UNCHANGED <<reseedRest, backup>>

\* What etcdctl backup makes of the data directory.
Stripped == IF data = "members" THEN "stripped" ELSE data

\* Mutant: the result of etcdctl is not looked at.
BackupUnchecked ==
  /\ StripStep("backup", "remove")
  /\ backup' \in {backup, Stripped}
  /\ UNCHANGED <<reseedRest, data>>

\* etcdctl backup, which needs the data directory and makes its own.
Backup ==
  /\ data # "none" /\ backup = "none"
  /\ StripStep("backup", "remove")
  /\ backup' = Stripped
  /\ UNCHANGED <<reseedRest, data>>

RemoveData ==
  /\ StripStep("remove", "rename")
  /\ data' = "none"
  /\ UNCHANGED <<reseedRest, backup>>

RenameBackup ==
  /\ StripStep("rename", "start")
  /\ data' = backup
  /\ backup' = "none"
  /\ UNCHANGED reseedRest

Strip ==
  \/ Backup \/ RemoveData \/ RenameBackup
  \/ \E here \in {"backup", "remove", "rename"} : StripFails(here)

-----------------------------------------------------------------------------
(* runUntilClosed, once its killChan is closed, and reseedListener.        *)

\* Process.Kill, a nil dereference when Start failed; then the exit.
Reap(e) ==
  /\ unreaped[e] > 0
  /\ unreaped' = [unreaped EXCEPT ![e] = @ - 1]
  /\ process' = CASE e = "notstarted" -> "panicked"
                  [] e # "notstarted" /\ shutdownChan -> "exited"
                  [] OTHER -> process
  /\ UNCHANGED <<driverVars, shutdownChan, suicides, harness, listening,
                 reseedChan, etcd, command, data, backup>>

\* The handler of /reseed blocks while reseedChan is full.
ReseedRequest ==
  /\ listening /\ ~reseedChan /\ Event
  /\ reseedChan' = TRUE
  /\ UNCHANGED <<idleVars, outbox, errors, inbox, slave, seen, process,
                 shutdownChan, suicides, harness, listening, etcd,
                 command, unreaped, data, backup>>

\* ListenAndServe returns with an error.
ListenFails ==
  /\ listening /\ Event
  /\ listening' = FALSE
  /\ Shutdown
  /\ UNCHANGED <<idleVars, outbox, errors, inbox, slave, seen, suicides,
                 harness, reseedChan, etcd, command, unreaped, data, backup>>

-----------------------------------------------------------------------------
CallbackStep ==
  Reregistered \/ Disconnected \/ LaunchTask \/ KillTask

HarnessStep ==
  \/ Configure \/ Report \/ StartEtcd \/ SelectReseed \/ SelectShutdown
  \/ SelectExit(TRUE) \/ SelectExit(FALSE) \/ Strip

Up(A) == process = "up" /\ A

InDriver(A) == Up(A) /\ UNCHANGED ownVars

Next ==
  \/ MainStarts
  \/ Up(MainReturns)
  \/ InDriver(DriverStep)
  \/ Up(CallbackStep)
  \/ Up(SuicideWaits \/ SuicideTimeout)
  \/ Up(HarnessStep)
  \/ Up(EtcdExits)
  \/ \E e \in Etcds : Up(Reap(e))
  \/ Up(ReseedRequest \/ ListenFails)

Spec == Init /\ [][Next]_vars

\* Every goroutine that can take a step takes one, the network answers or
\* fails, and time passes.  A select with several ready cases picks one at
\* random, so it does not pass over the shutdown for ever.  Nothing is assumed
\* of the slave, of reseed or of the exit of an etcd.
Fairness ==
  /\ WF_vars(Up(MainReturns))
  /\ WF_vars(InDriver(Handlers))
  /\ WF_vars(InDriver(SlaveReceives \/ SendFails))
  /\ WF_vars(InDriver(\E s \in Sessions : networkError(s)))
  /\ WF_vars(InDriver(recoveryTimedOut))
  /\ WF_vars(Up(CallbackStep))
  /\ WF_vars(Up(SuicideWaits \/ SuicideTimeout))
  /\ WF_vars(Up(HarnessStep))
  /\ SF_vars(Up(SelectShutdown)) /\ SF_vars(Up(SelectExit(TRUE)))
  /\ WF_vars(Up(\E e \in Etcds : Reap(e)))

FairSpec == Spec /\ Fairness

-----------------------------------------------------------------------------
(* Properties.                                                             *)

Ended == process \in {"returned", "exited", "panicked"}

Copy == data \in {"members", "stripped"} \/ backup = "stripped"

\* A reseed never leaves the task without its data: the data directory is
\* removed only when there is a backup, whatever call of
\* stripPersistedMetadata fails and whatever the harness goes on to do.
ReseedKeepsData == [][Copy => Copy']_vars

\* As long as the driver runs, an etcd that was told --force-new-cluster runs
\* on data without the old membership, in whatever round it was started: where
\* stripPersistedMetadata fails the harness goes on, but the driver is aborted.
ForcedOnBackup ==
  etcd = "running" /\ command = "force" /\ status = "Running" =>
    data = "stripped"

\* The executor of a launched task ends once e.shutdown was called, at whatever
\* point the harness is: it starts etcd again until a runUntilClosed exits.  A
\* task that failed ends it as well, although the harness goes on.
ShutdownEnds ==
  (shutdownChan /\ harness # "idle") \/ "FAILED" \in updates ~> Ended

\* TASK_RUNNING reaches the slave even if the slave is away when it is sent,
\* or the executor ends: the update is kept, and sent again on reconnect.  A
\* slave that checkpoints has to come back for this, the error of a send of an
\* earlier session is not answered with a timer.
RunningReported ==
  (checkpoint => []<>(slave = "up")) =>
    ("RUNNING" \in updates ~> "RUNNING" \in seen \/ Ended)

\* A driver that waits for its slave to recover is connected again, or the
\* executor ends, even if the slave never comes back (networkError,
\* recoveryTimedOut) and although Reregistered may cancel the suicide timer of
\* a later disconnection.
DisconnectResolved ==
  ~connected /\ recovery # 0 /\ recovery = connection ~> connected \/ Ended

\* A reseed request the harness has taken ends in an etcd that was forced to
\* be a new cluster, on the old data, with the old etcd gone.
ReseedCompletes ==
  harness = "backup" ~>
    \/ Ended
    \/ /\ etcd = "running" /\ command = "force" /\ data = "stripped"
       /\ unreaped["running"] = 0

\* The inductive invariants behind the two properties of the reseed.
StripOrder ==
  /\ harness = "remove" => data # "none" /\ backup = Stripped
  /\ harness = "rename" => data = "none"

ForcedFacts ==
  /\ command \in {"join", "force"} /\ data \in Dirs /\ backup \in Dirs
  /\ status = "NotStarted" => process # "up"
  /\ etcd = "running" => harness = "select"
  /\ status \in {"NotStarted", "Running"} =>
       /\ data \notin {"empty", "damaged"}
       /\ command = "force" /\ harness # "rename" => data = "stripped"
       /\ harness \in {"remove", "rename"} => backup = "stripped"

\* The comment in etcdHarness: "then we must terminate the process, configure
\* it to be the only node, and tell it to re-seed as a new instance."
BackupOfStoppedEtcd == [][Backup => unreaped["running"] = 0]_vars
=============================================================================
