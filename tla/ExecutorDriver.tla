--------------------------- MODULE ExecutorDriver ---------------------------
(***************************************************************************)
(* The executor driver of mesos-go and the Mesos slave it talks to, for an *)
(* executor of etcd-mesos: an executor that runs one task.                 *)
(*   - Messages from the slave are handled one at a time, in order, by the *)
(*     decode loop of the messenger (inbox).                               *)
(*   - Messages to the slave wait in the messenger's sending queue         *)
(*     (outbox).  A send that fails comes back as a network error, handled *)
(*     by a goroutine of its own: network errors have no order, neither    *)
(*     among themselves nor with the messages of the slave.                *)
(*   - A callback of the executor runs in a goroutine of its own, under    *)
(*     execLock: callbacks exclude each other and have no order.           *)
(* The slave is external: it checkpoints the updates it has seen, and asks *)
(* the executor to reconnect when it comes back from a restart.            *)
(***************************************************************************)
EXTENDS Naturals, Sequences, SequencesExt

CONSTANT
  MaxEvents   \* bound: restarts of the slave, KillTask and ShutdownExecutor
              \* messages, reseed requests and the end of their listener
              \* together

ASSUME EventsBound == MaxEvents \in Nat

VARIABLES
  checkpoint,   \* MESOS_CHECKPOINT: the slave recovers from its restarts
  status,       \* driver.status
  connected,    \* driver.connected
  connection,   \* driver.connection: the session, 0 for the empty UUID
  updates,      \* driver.updates: status updates that are not acknowledged
  tasks,        \* driver.tasks: the task is in it
  callbacks,    \* for each callback, the goroutines of withExecutor
  recovery,     \* the session whose recovery timer runs, 0 if none does
  outbox,       \* messenger.sendingQueue
  errors,       \* for each session, the network errors not yet handled
  slave,        \* "up" or "down"
  inbox,        \* messages of the slave that are not yet handled
  seen,         \* updates the slave has received
  events        \* how many of the bounded events have happened

localVars == <<status, connected, connection, updates, tasks, callbacks,
               recovery>>
idleVars == <<checkpoint, localVars>>   \* what a step of the slave keeps
slaveVars == <<checkpoint, slave, seen, events>>
driverVars == <<localVars, outbox, errors, inbox, slaveVars>>

Updates == {"RUNNING", "FAILED"}

\* Every registration but the first follows a restart of the slave.
Sessions == 0 .. MaxEvents + 1

\* The callbacks that do more than write to the log: not Registered,
\* Shutdown, FrameworkMessage and Error.
Callbacks == {"Reregistered", "Disconnected", "LaunchTask", "KillTask"}

ToSlave == [kind : {"Register", "Update", "Reregister"},
            updates : SUBSET Updates, session : Sessions]

FromSlave == [kind : {"Registered", "Reregistered", "Reconnect", "RunTask",
                      "KillTask", "Shutdown"},
              updates : SUBSET Updates]

DriverTypeOK ==
  /\ checkpoint \in BOOLEAN
  /\ status \in {"NotStarted", "Running", "Stopped", "Aborted"}
  /\ connected \in BOOLEAN
  /\ connection \in Sessions
  /\ updates \in SUBSET Updates
  /\ tasks \in BOOLEAN
  /\ callbacks \in [Callbacks -> Nat]
  /\ recovery \in Sessions
  /\ outbox \in Seq(ToSlave)
  /\ errors \in [Sessions -> Nat]
  /\ slave \in {"up", "down"}
  /\ inbox \in Seq(FromSlave)
  /\ seen \in SUBSET Updates
  /\ events \in 0 .. MaxEvents

DriverInit ==
  /\ checkpoint \in BOOLEAN
  /\ status = "NotStarted"
  /\ connected = FALSE
  /\ connection = 0
  /\ updates = {}
  /\ tasks = FALSE
  /\ callbacks = [c \in Callbacks |-> 0]
  /\ recovery = 0
  /\ outbox = <<>>
  /\ errors = [s \in Sessions |-> 0]
  /\ slave = "up"
  /\ inbox = <<>>
  /\ seen = {}
  /\ events = 0

-----------------------------------------------------------------------------
(* What the handlers and the calls of the executor are made of.            *)

withExecutor(c) == callbacks' = [callbacks EXCEPT ![c] = @ + 1]

\* stopCh is closed, and messenger.Stop has ended the send and decode loops.
stopCh == status \in {"Stopped", "Aborted"}

Send(kind, us) ==
  outbox' = Append(outbox, [kind |-> kind, updates |-> us,
                            session |-> connection])

Reply(kind, us) == [kind |-> kind, updates |-> us]

\* start: registers with the slave.  The driver does not get to run when the
\* messenger cannot listen.
Start ==
  /\ status = "NotStarted"
  /\ status' = "Running"
  /\ Send("Register", {})
  /\ UNCHANGED <<connected, connection, updates, tasks, callbacks, recovery,
                 errors, inbox, slaveVars>>

\* What Abort and _stop make of the status.
Abort == status' = IF status = "Running" THEN "Aborted" ELSE status

\* sendStatusUpdate keeps the update until it is acknowledged.
SendStatusUpdate(u) ==
  IF status = "Running"
    THEN updates' = updates \cup {u} /\ Send("Update", {u})
    ELSE UNCHANGED <<updates, outbox>>

-----------------------------------------------------------------------------
(* Handlers of the messages of the slave.                                  *)

\* The handlers that return early unless the driver is running.
Handle(kind) ==
  /\ status = "Running"
  /\ inbox # <<>> /\ Head(inbox).kind = kind
  /\ inbox' = Tail(inbox)
  /\ UNCHANGED <<slaveVars, errors>>

\* A session begins; it is a new one.
Connect ==
  /\ connected' = TRUE
  /\ connection' = connection + 1
  /\ UNCHANGED <<status, updates, tasks, recovery, outbox>>

registered ==
  /\ Handle("Registered")
  /\ Connect
  /\ UNCHANGED callbacks

reregistered ==
  /\ Handle("Reregistered")
  /\ Connect
  /\ withExecutor("Reregistered")

\* Mutant: the updates that are not acknowledged are left out.
reconnectWithoutUpdates ==
  /\ Handle("Reconnect")
  /\ Send("Reregister", {})
  /\ UNCHANGED localVars

reconnect ==
  /\ Handle("Reconnect")
  /\ Send("Reregister", updates)
  /\ UNCHANGED localVars

\* A task that is in driver.tasks already ends the process (log.Fatalf): the
\* slave runs a task once.
runTask ==
  /\ Handle("RunTask")
  /\ ~tasks
  /\ tasks' = TRUE
  /\ withExecutor("LaunchTask")
  /\ UNCHANGED <<status, connected, connection, updates, recovery, outbox>>

killTask ==
  /\ Handle("KillTask")
  /\ withExecutor("KillTask")
  /\ UNCHANGED <<status, connected, connection, updates, tasks, recovery,
                 outbox>>

\* The acknowledgement of an update the slave has seen; the one handler that
\* goes on when the driver is stopped.
statusUpdateAcknowledgement(u) ==
  /\ status # "Aborted"
  /\ u \in seen \cap updates
  /\ updates' = updates \ {u}
  /\ tasks' = FALSE
  /\ UNCHANGED <<status, connected, connection, callbacks, recovery, outbox,
                 errors, inbox, slaveVars>>

shutdown ==
  /\ Handle("Shutdown")
  /\ status' = "Stopped"
  /\ UNCHANGED <<connected, connection, updates, tasks, callbacks, recovery,
                 outbox>>

-----------------------------------------------------------------------------
(* Network errors and the recovery timer.                                  *)

\* The error of a send of session s.  While the driver is connected, an
\* error of an older session leaves no more than connected = FALSE behind.
\* Otherwise the driver waits for the slave to recover, if it checkpoints;
\* it aborts when it does not, or when it is not connected anyhow.
networkError(s) ==
  /\ errors[s] > 0
  /\ errors' = [errors EXCEPT ![s] = @ - 1]
  /\ UNCHANGED <<connection, updates, tasks, outbox, inbox,
                 slaveVars>>
  /\ \/ /\ status = "Aborted"
        /\ UNCHANGED <<status, connected, callbacks, recovery>>
     \/ /\ status # "Aborted" /\ connected
        /\ connected' = FALSE
        /\ \/ /\ s # connection
              /\ UNCHANGED <<status, callbacks, recovery>>
           \/ /\ s = connection /\ checkpoint
              /\ withExecutor("Disconnected")
              /\ recovery' = s
              /\ UNCHANGED status
           \/ /\ s = connection /\ ~checkpoint
              /\ Abort
              /\ UNCHANGED <<callbacks, recovery>>
     \/ /\ status # "Aborted" /\ ~connected
        /\ Abort
        /\ UNCHANGED <<connected, callbacks, recovery>>

\* Mutant: the timer goes off and the driver waits on.
recoveryTimerIgnored ==
  /\ recovery # 0 /\ ~stopCh
  /\ recovery' = 0
  /\ UNCHANGED <<status, connected, connection, updates, tasks, callbacks,
                 outbox, errors, inbox, slaveVars>>

\* The recovery timer goes off.  The driver stops, unless it has been
\* reregistered.
recoveryTimedOut ==
  /\ recovery # 0 /\ ~stopCh
  /\ recovery' = 0
  /\ status' = IF ~connected /\ recovery = connection THEN "Stopped"
                                                     ELSE status
  /\ UNCHANGED <<connected, connection, updates, tasks, callbacks, outbox,
                 errors, inbox, slaveVars>>

-----------------------------------------------------------------------------
(* The send loop and the slave.                                            *)

\* One of the events that are bounded.
Event == events < MaxEvents /\ events' = events + 1

\* The slave is up, and the transport of the driver still listens.
SlaveUp == slave = "up" /\ ~stopCh

\* A message reaches the slave, which answers a registration with the task.
SlaveReceives ==
  /\ SlaveUp /\ outbox # <<>>
  /\ outbox' = Tail(outbox)
  /\ seen' = seen \cup Head(outbox).updates
  /\ inbox' = inbox \o
       CASE Head(outbox).kind = "Register"   -> <<Reply("Registered", {}),
                                                  Reply("RunTask", {})>>
         [] Head(outbox).kind = "Reregister" -> <<Reply("Reregistered", {})>>
         [] OTHER                            -> <<>>
  /\ UNCHANGED <<idleVars, errors, slave, events>>

\* A send fails because the slave is down: "the slave process must be
\* dying/dead" is what networkError assumes as well.
SendFails ==
  /\ slave = "down" /\ ~stopCh /\ outbox # <<>>
  /\ outbox' = Tail(outbox)
  /\ errors' = [errors EXCEPT ![Head(outbox).session] = @ + 1]
  /\ UNCHANGED <<idleVars, inbox, slave, seen, events>>

SlaveGoesDown ==
  /\ SlaveUp /\ Event
  /\ slave' = "down"
  /\ UNCHANGED <<idleVars, outbox, errors, inbox, seen>>

SlaveRecovers ==
  /\ slave = "down" /\ ~stopCh /\ checkpoint
  /\ slave' = "up"
  /\ inbox' = Append(inbox, Reply("Reconnect", {}))
  /\ UNCHANGED <<idleVars, outbox, errors, seen, events>>

\* The slave passes on a KillTask, or shuts the executor down.
SlaveOrders(kind) ==
  /\ SlaveUp /\ connection > 0 /\ Event
  /\ inbox' = Append(inbox, Reply(kind, {}))
  /\ UNCHANGED <<idleVars, outbox, errors, slave, seen>>

-----------------------------------------------------------------------------
Handlers ==
  \/ registered \/ reregistered \/ reconnect \/ runTask \/ killTask
  \/ shutdown

Slave ==
  \/ SlaveGoesDown \/ SlaveRecovers
  \/ SlaveOrders("KillTask") \/ SlaveOrders("Shutdown")

DriverStep ==
  \/ Handlers
  \/ \E u \in Updates : statusUpdateAcknowledgement(u)
  \/ \E s \in Sessions : networkError(s)
  \/ recoveryTimedOut
  \/ SlaveReceives \/ SendFails
  \/ Slave
=============================================================================
