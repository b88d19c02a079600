------------------------------ MODULE Framework ------------------------------
(***************************************************************************)
(* The scheduler process as a Mesos framework: main of                     *)
(* cmd/etcd-mesos-scheduler, the scheduler driver, the callbacks of        *)
(* EtcdScheduler as far as they concern the framework id, and the id in    *)
(* ZooKeeper.  A process that ends is started again by its supervisor.     *)
(***************************************************************************)
EXTENDS SchedulerDriver

VARIABLES
  process,   \* "up" or "down"
  zkId       \* <chroot>/<name>_framework_id, 0 if the node does not exist

vars == <<driverVars, process, zkId>>

TypeOK ==
  /\ DriverTypeOK
  /\ process \in {"up", "down"}
  /\ zkId \in Ids

Init ==
  /\ DriverInit
  /\ process = "down"
  /\ zkId = 0

-----------------------------------------------------------------------------
(* main.                                                                   *)

\* GetPreviousFrameworkID finds an id or no node, and the driver is started.
\* A process that cannot read from ZooKeeper, or whose driver does not start,
\* ends and is started again.
Main ==
  /\ process = "down"
  /\ process' = "up"
  /\ driver' = start(NewMesosSchedulerDriver(zkId))
  /\ given' = 0
  /\ delivered' = acked
  /\ UNCHANGED <<credential, leader, nextId, completed, acked, events, zkId>>

\* The process ends, and the driver with it.
Exit ==
  /\ process' = "down"
  /\ driver' = NewMesosSchedulerDriver(0)
  /\ UNCHANGED <<credential, masterVars, acked, delivered>>

\* driver.Run returns, or a panic ends the process.
MainEnds ==
  /\ driver.done \/ driver.panicked
  /\ Exit
  /\ UNCHANGED <<events, zkId>>

Crash ==
  /\ Event /\ Exit
  /\ UNCHANGED zkId

-----------------------------------------------------------------------------
(* The callbacks of EtcdScheduler.                                         *)

\* PersistFrameworkID creates the node, or finds that it exists; s.shutdown
\* when it fails.
Registered ==
  /\ driver.current.f = "Registered"
  /\ \/ /\ zkId' = IF zkId = 0 THEN driver.current.n ELSE zkId
        /\ DriverBecomes([driver EXCEPT !.current = NoCall])
        /\ UNCHANGED process
     \/ Event /\ Exit /\ UNCHANGED zkId

\* "Completed framework attempted to re-register": ClearZKState, whose errors
\* are not looked at, and s.shutdown.
Error ==
  /\ driver.current.f = "Error"
  /\ zkId' \in {0, zkId}
  /\ Exit
  /\ UNCHANGED events

\* The other callbacks; what they do with the tasks is not a matter of this
\* module.
CallbackReturns ==
  /\ driver.current.f \in {"Reregistered", "Disconnected", "Update", "Lost",
                           "Noop"}
  /\ DriverBecomes([driver EXCEPT !.current = NoCall])
  /\ UNCHANGED <<process, zkId>>

\* A framework that is away for longer than its failover timeout is removed.
FrameworkCompletes(id) ==
  /\ process = "down" /\ Event
  /\ id \in 1 .. nextId - 1 /\ id \notin completed
  /\ completed' = completed \cup {id}
  /\ UNCHANGED <<driver, credential, leader, nextId, given, acked,
                 delivered, process, zkId>>

-----------------------------------------------------------------------------
Callbacks == Registered \/ Error \/ CallbackReturns

SelfHandlers ==
  \/ \E s \in Sessions : handleNetworkError(s)
  \/ \E m \in Pids : handleMasterChanged(m)
  \/ MasterChangedAuthenticates
  \/ \E m \in Masters, o \in Outcomes : handleAuthenticationResult(m, o)

Authentication ==
  \/ \E o \in Outcomes : AuthenticationEnds(o)
  \/ AuthenticationDone
  \/ \E m \in Masters, o \in Outcomes : CanceledEnds(m, o)

HandsOver == DecodeHandsOver \/ (\E w \in Waiters : WaiterHandsOver(w))

Up(A) == process = "up" /\ ~driver.panicked /\ A
InDriver(A) == Up(A) /\ UNCHANGED <<process, zkId>>

Next ==
  \/ Main
  \/ process = "up" /\ MainEnds
  \/ Up(Crash)
  \/ Up(Callbacks)
  \/ InDriver(SelfHandlers)
  \/ InDriver(Authentication)
  \/ InDriver(registerOnce)
  \/ InDriver(Handlers)
  \/ InDriver(LaunchTasks \/ pushLostTask \/ Abort)
  \/ InDriver(HandsOver)
  \/ InDriver(LastAttempt \/ QueueDone)
  \/ InDriver(notifyMasterChanged \/ NotifyWithoutInfo \/ WatchEnds)
  \/ InDriver(SendFails \/ MasterForwards)
  \/ LeaderChanges /\ UNCHANGED <<process, zkId>>
  \/ \E id \in Ids : FrameworkCompletes(id)

Spec == Init /\ [][Next]_vars

(***************************************************************************)
(* A goroutine that can go on does so: main, the goroutine of the          *)
(* callbacks, the registration loop, the decode loop, the goroutine of a   *)
(* lost launch, and the attempt that closes the queue.  Of the goroutines  *)
(* that wait to hand a callback over, some one succeeds when it is         *)
(* possible to.  Nothing is assumed of the handlers of master changes and  *)
(* authentication results, of the detector, of the masters and of the      *)
(* supervisor that starts the process.                                     *)
(***************************************************************************)
Fairness ==
  /\ WF_vars(process = "up" /\ MainEnds)
  /\ WF_vars(Up(Callbacks))
  /\ WF_vars(InDriver(registerOnce))
  /\ WF_vars(InDriver(Handlers))
  /\ WF_vars(InDriver(pushLostTask))
  /\ WF_vars(InDriver(LastAttempt \/ QueueDone))
  /\ WF_vars(InDriver(HandsOver))

FairSpec == Spec /\ Fairness

-----------------------------------------------------------------------------
(* Properties.                                                             *)

Alive == process = "up" /\ ~driver.panicked
Running == Alive /\ driver.status = "Running"

\* A driver that is connected knows its master and runs: "we don't want
\* inconsistent connection facts", though the handlers that change them give
\* eventLock up half-way (handleNetworkError, handleMasterChanged, _stop).
ConnectionFacts ==
  driver.connected => driver.masterPid # NoMaster /\ driver.status = "Running"

\* An authenticated driver that is not connected has a master and a goroutine
\* in doReliableRegistration: no order of master changes, network errors and
\* authentication results leaves it waiting for an answer nobody asks for.
RegistrationPursued ==
  Running /\ driver.authenticated /\ ~driver.connected =>
    driver.masterPid # NoMaster /\ driver.registering > 0

\* statusUpdated acknowledges an update before the scheduler is called with
\* it: while the driver runs there is at most one such update, and the decode
\* loop is about to hand it over.
AckedNotDropped ==
  Running /\ acked > delivered =>
    acked = delivered + 1 /\ driver.decode = Call("Update", acked)

\* makeWithScheduler keeps "the order in which status updates are processed":
\* the scheduler is called with the next update or, when its acknowledgement
\* was lost, once more with the last.
UpdatesInOrder ==
  [][driver'.current # driver.current /\ driver'.current.f = "Update" =>
       driver'.current.n \in {delivered, delivered + 1}]_vars

\* The framework id in ZooKeeper is what a later process takes over with.
\* Registered never replaces it (PersistFrameworkID only creates the node),
\* and Error removes it only when the masters have removed that framework.
PersistedIdKept ==
  [][zkId # 0 => zkId' = zkId \/ (zkId' = 0 /\ zkId \in completed)]_vars

\* Once the driver is told to stop, driver.Run returns and the process ends,
\* whatever callbacks wait for each other at that time: the queue of
\* withScheduler is closed by one of them and done is closed after it.
JoinReturns == Alive /\ driver.stopCh ~> ~Alive

\* A task launched while the driver is not connected is reported as lost to
\* the scheduler, which would wait for its status otherwise (LaunchTasks,
\* pushLostTask), unless the driver stops first.
LostLaunchReported ==
  Running /\ driver.pushing > 0 ~> driver.current.f = "Lost" \/ ~Running

\* Authenticated with the leading master, the driver gets connected, unless
\* it hears of another master or of none, or stops (doReliableRegistration).
RegistrationSucceeds ==
  Running /\ driver.authenticated /\ driver.masterPid = leader ~>
    \/ driver.connected
    \/ driver.masterPid # leader \/ ~driver.authenticated \/ ~Running

\* "detector callbacks are routed over the messenger bus, maintaining serial
\* (concurrency-safe) callback execution" (start): if the master changes were
\* handled one after the other, no handler would find the driver already
\* authenticated when it comes to authenticate (tryAuthentication).
NoPanic == ~driver.panicked

-----------------------------------------------------------------------------
(* Inductive invariants, for the proofs.                                   *)

FieldNames ==
  {"status", "panicked", "masterPid", "connected", "connection", "id",
   "authenticated", "authenticating", "routed", "reauthenticate", "canceled",
   "results", "registering", "leaderNode", "changes", "errors", "inbox",
   "decode", "waiting", "retrying", "pushing", "current", "stopCh", "abort",
   "last", "done"}

IsDriver(d) ==
  /\ d = [x \in FieldNames |-> d[x]]
  /\ d.waiting = [w \in Waiters |-> d.waiting[w]]

\* Of the driver of a process that is up: what it knows of its connection,
\* and that somebody asks for one.
Connecting(d) ==
  /\ IsDriver(d)
  /\ d.registering \in Nat
  /\ d.masterPid \in Pids
  /\ d.id \in Nat
  /\ d.inbox \in Seq(Messages)
  /\ d.status = IF d.stopCh THEN "Aborted" ELSE "Running"
  /\ d.abort => d.stopCh
  /\ d.connected => d.masterPid # NoMaster /\ ~d.stopCh
  /\ d.authenticated /\ ~d.connected /\ ~d.stopCh =>
       d.masterPid # NoMaster /\ d.registering > 0

IsCall(c) == c = Call(c.f, c.n) /\ c.n \in Nat

CallsTyped(d) ==
  /\ IsCall(d.decode) /\ IsCall(d.current) /\ IsCall(d.last)
  /\ d.decode.f # "Error"

DriverFacts ==
  /\ leader \in Pids
  /\ given \in Nat /\ nextId \in Nat /\ acked \in Nat /\ zkId \in Nat
  /\ given # 0 => leader # NoMaster
  /\ IF process = "up" THEN Connecting(driver) /\ CallsTyped(driver)
     ELSE process = "down" /\ driver = NewMesosSchedulerDriver(0)

\* The masters have never removed an id that this process could use, but the
\* one it has read from ZooKeeper; and only that makes them send an error.
ErrorPending(d) ==
  \/ \E i \in DOMAIN d.inbox : d.inbox[i].kind = "Error"
  \/ d.waiting["Error"] # 0
  \/ d.current.f = "Error" \/ d.last.f = "Error"

IdFacts ==
  /\ completed \subseteq 1 .. nextId - 1
  /\ process = "up" =>
       /\ given \notin completed
       /\ driver.id \in completed => driver.id = zkId
       /\ \A i \in DOMAIN driver.inbox :
            driver.inbox[i].kind = "Registered" =>
              driver.inbox[i].n \notin completed
       /\ ErrorPending(driver) => zkId \in completed

\* The updates on their way to the scheduler are in order: those in the inbox
\* come after the one that is handed over, and that after the delivered one.
IsUpdate(d, i) == d.inbox[i].kind = "Update"

InOrder(d) ==
  /\ \A i \in DOMAIN d.inbox : IsUpdate(d, i) /\ ~d.stopCh =>
       /\ d.inbox[i].n \in {acked, acked + 1}
       /\ delivered <= d.inbox[i].n
       /\ d.decode.f = "Update" => d.decode.n <= d.inbox[i].n
  /\ \A i, j \in DOMAIN d.inbox :
       IsUpdate(d, i) /\ IsUpdate(d, j) /\ i < j /\ ~d.stopCh =>
         d.inbox[i].n <= d.inbox[j].n
  /\ d.decode.f = "Update" => /\ d.decode.n \in {acked, acked + 1}
                              /\ d.decode.n \in {delivered, delivered + 1}
  /\ d.last.f = "Update" => /\ d.last.n \in {delivered, delivered + 1}
                            /\ d.decode.f # "Update" /\ d.stopCh
  /\ d.current.f = "Update" => d.current.n = delivered
  /\ d.decode.f # "Update" /\ ~d.stopCh => delivered \in {acked, acked + 1}

UpdateFacts ==
  /\ delivered \in Nat
  /\ process = "up" => InOrder(driver)
=============================================================================
