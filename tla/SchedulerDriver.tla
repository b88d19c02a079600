--------------------------- MODULE SchedulerDriver ---------------------------
(***************************************************************************)
(* The scheduler driver of mesos-go, with its master detector, and the     *)
(* Mesos masters it talks to.                                              *)
(*   - Messages from the masters are handled one at a time, in order, by   *)
(*     the decode loop of the messenger (inbox).  A handler that calls the *)
(*     scheduler blocks the loop until the call is handed over (decode).   *)
(*   - Messages to itself (a master change, the result of an               *)
(*     authentication, a network error) are handled each by a goroutine of *)
(*     its own: they have no order.                                        *)
(*   - A handler gives up eventLock while it hands a callback over, so     *)
(*     that several can wait to do so; the callbacks themselves are run by *)
(*     one goroutine, one after the other (current).                       *)
(* The masters and ZooKeeper are external.  The leading master answers     *)
(* registrations and forwards status updates, one at a time and each until *)
(* it is acknowledged.                                                     *)
(***************************************************************************)
EXTENDS Naturals, Sequences, SequencesExt

CONSTANTS
  Masters,
  NoMaster,     \* the nil UPID
  MaxEvents     \* bound: changes of the leading master, status updates,
                \* failures, lost launches, aborts, completions and crashes
                \* together

ASSUME MasterAssumption == Masters # {} /\ NoMaster \notin Masters
ASSUME EventsBound == MaxEvents \in Nat

VARIABLES
  driver,       \* the driver and its goroutines
  credential,   \* the scheduler was given a credential
  leader,       \* the leading master
  nextId,       \* the framework id the masters will give next
  given,        \* the id under which the leader has registered this process
  completed,    \* the framework ids they have removed
  acked,        \* the last status update that was acknowledged
  delivered,    \* the last status update the scheduler was called with
  events        \* how many of the bounded events have happened

masterVars == <<leader, nextId, given, completed>>
driverVars == <<driver, credential, masterVars, acked, delivered, events>>

Pids == Masters \cup {NoMaster}
Ids == 0 .. MaxEvents + 1
Sessions == 0 .. MaxEvents + 1
Outcomes == {"success", "refused", "incomplete"}

Message(from, kind, n) == [from |-> from, kind |-> kind, n |-> n]
Messages == [from : Masters, n : Nat,
             kind : {"Registered", "Reregistered", "Update", "Error"}]

\* The callbacks that goroutines other than the decode loop hand over.
Waiters == {"Disconnected", "DisconnectedThenAuthenticate", "Lost", "Error",
            "Noop"}

\* A callback, with the framework id or the number of the update it is about.
Call(f, n) == [f |-> f, n |-> n]
NoCall == Call("none", 0)
Calls == [f : Waiters \cup {"none", "Registered", "Reregistered", "Update"},
          n : Ids]

Drivers ==
  [status : {"NotStarted", "Running", "Aborted"},
   panicked : BOOLEAN,
   masterPid : Pids,
   connected : BOOLEAN,
   connection : Sessions,      \* the session, 0 for the empty UUID
   id : Ids,                   \* frameworkInfo.Id, 0 if there is none
   authenticated : BOOLEAN,
   authenticating : Pids,      \* the master of the attempt in progress
   routed : BOOLEAN,           \* whose goroutine has sent its result
   reauthenticate : BOOLEAN,
   canceled : [Masters -> Nat],                \* attempts, by master
   results : [Masters \X Outcomes -> Nat],     \* not yet handled
   registering : Nat,          \* goroutines in doReliableRegistration
   leaderNode : Pids,          \* of the detector
   changes : [Pids -> Nat],    \* master changes that are not yet handled
   errors : SUBSET Sessions,   \* network errors that are not yet handled
   inbox : Seq(Messages),
   decode : Calls,             \* what the decode loop waits to hand over
   waiting : [Waiters -> Nat], \* other goroutines in withScheduler
   retrying : Nat,             \* goroutines back from it, to authenticate
   pushing : Nat,              \* goroutines of LaunchTasks for a lost task
   current : Calls,            \* the callback that runs
   stopCh : BOOLEAN,
   abort : BOOLEAN,            \* of withScheduler
   last : Calls,               \* its last attempt
   done : BOOLEAN]

DriverTypeOK ==
  /\ driver \in Drivers
  /\ credential \in BOOLEAN
  /\ leader \in Pids
  /\ nextId \in Nat \ {0}
  /\ given \in Ids
  /\ completed \in SUBSET Ids
  /\ acked \in 0 .. MaxEvents
  /\ delivered \in 0 .. MaxEvents
  /\ events \in 0 .. MaxEvents

NewMesosSchedulerDriver(id) ==
  [status |-> "NotStarted", panicked |-> FALSE, masterPid |-> NoMaster,
   connected |-> FALSE, connection |-> 0, id |-> id,
   authenticated |-> FALSE, authenticating |-> NoMaster, routed |-> FALSE,
   reauthenticate |-> FALSE, canceled |-> [m \in Masters |-> 0],
   results |-> [r \in Masters \X Outcomes |-> 0], registering |-> 0,
   leaderNode |-> NoMaster, changes |-> [m \in Pids |-> 0], errors |-> {},
   inbox |-> <<>>, decode |-> NoCall, waiting |-> [w \in Waiters |-> 0],
   retrying |-> 0, pushing |-> 0, current |-> NoCall, stopCh |-> FALSE,
   abort |-> FALSE, last |-> NoCall, done |-> FALSE]

DriverInit ==
  /\ driver = NewMesosSchedulerDriver(0)
  /\ credential \in BOOLEAN
  /\ leader = CHOOSE m \in Masters : TRUE   \* the masters are alike
  /\ nextId = 1
  /\ given = 0
  /\ completed = {}
  /\ acked = 0
  /\ delivered = 0
  /\ events = 0

\* One of the events that are bounded.
Event == events < MaxEvents /\ events' = events + 1

\* A step that changes nothing but the driver.
DriverBecomes(d) ==
  /\ driver' = d
  /\ UNCHANGED <<credential, masterVars, acked, delivered, events>>

-----------------------------------------------------------------------------
(* What the handlers are made of: functions from a driver to the next.     *)

\* A goroutine other than the decode loop enters withScheduler.
withScheduler(f, d) == [d EXCEPT !.waiting[f] = @ + 1]

\* authenticating.cancel: a goroutine that has not sent its result will do so.
cancel(d) ==
  [d EXCEPT
     !.authenticating = NoMaster,
     !.routed = FALSE,
     !.canceled = IF d.authenticating = NoMaster \/ d.routed THEN d.canceled
                  ELSE [d.canceled EXCEPT ![d.authenticating] = @ + 1]]

tryAuthentication(d) ==
  CASE d.authenticated ->
         [d EXCEPT !.panicked = TRUE]
    [] ~d.authenticated /\ d.masterPid = NoMaster ->
         d
    [] ~d.authenticated /\ d.masterPid # NoMaster
                        /\ d.authenticating # NoMaster ->
         [cancel(d) EXCEPT !.reauthenticate = TRUE]
    [] OTHER ->
         IF credential THEN [d EXCEPT !.authenticating = d.masterPid]
         ELSE [d EXCEPT !.authenticated = TRUE, !.registering = @ + 1]

\* start, for a messenger that can listen; the detector starts to watch.
start(d) == [d EXCEPT !.status = "Running"]

\* Mutant: _stop does not wake withScheduler up when there is no error.
abortUnnoticed(f, d) ==
  LET e == [d EXCEPT !.status = "Aborted", !.connected = FALSE,
                     !.connection = 0, !.stopCh = TRUE]
  IN  IF d.stopCh \/ f = "Noop" THEN e ELSE withScheduler(f, e)

\* abort, stop and _stop, with the goroutine that _stop starts.
abortDriver(f, d) ==
  IF d.stopCh THEN [d EXCEPT !.status = "Aborted"]
  ELSE withScheduler(f, [d EXCEPT !.status = "Aborted", !.connected = FALSE,
                                  !.connection = 0, !.stopCh = TRUE])

-----------------------------------------------------------------------------
(* Handlers of the messages the driver sends to itself.                    *)

\* Mutant: the other two facts are left to the goroutine that calls
\* Disconnected.
handleNetworkErrorMasterOnly(s) ==
  LET d == [driver EXCEPT !.errors = @ \ {s}] IN
  /\ s \in driver.errors
  /\ DriverBecomes(
       IF d.connected /\ s = d.connection
         THEN withScheduler("Disconnected", [d EXCEPT !.masterPid = NoMaster])
         ELSE d)

handleNetworkError(s) ==
  LET d == [driver EXCEPT !.errors = @ \ {s}] IN
  /\ s \in driver.errors
  /\ DriverBecomes(
       IF d.connected /\ s = d.connection
         THEN withScheduler("Disconnected",
                [d EXCEPT !.masterPid = NoMaster, !.connected = FALSE,
                          !.authenticated = FALSE])
         ELSE d)

\* A scheduler that was connected is called before the driver authenticates.
handleMasterChanged(m) ==
  LET d == [driver EXCEPT
              !.changes[m] = @ - 1,
              !.connected = FALSE,
              !.authenticated = FALSE,
              !.masterPid = IF m = NoMaster /\ ~driver.connected THEN @ ELSE m]
  IN
  /\ driver.changes[m] > 0
  /\ DriverBecomes(
       CASE driver.status = "Aborted" -> [driver EXCEPT !.changes[m] = @ - 1]
         [] driver.status # "Aborted" /\ driver.connected ->
              withScheduler(IF m = NoMaster THEN "Disconnected"
                            ELSE "DisconnectedThenAuthenticate", d)
         [] OTHER -> IF m = NoMaster THEN d ELSE tryAuthentication(d))

\* The goroutine of handleMasterChanged has eventLock again.
MasterChangedAuthenticates ==
  /\ driver.retrying > 0
  /\ DriverBecomes(tryAuthentication([driver EXCEPT !.retrying = @ - 1]))

handleAuthenticationResult(m, outcome) ==
  LET d == [driver EXCEPT !.results[<<m, outcome>>] = @ - 1] IN
  /\ driver.results[<<m, outcome>>] > 0
  /\ DriverBecomes(
       CASE d.status # "Running" -> d
         [] d.status = "Running" /\ d.authenticated ->
              [d EXCEPT !.panicked = TRUE]
         [] d.status = "Running" /\ ~d.authenticated
                                 /\ d.masterPid = NoMaster ->
              [cancel(d) EXCEPT !.reauthenticate = FALSE]
         [] OTHER ->
              IF d.reauthenticate \/ outcome = "incomplete" \/ m # d.masterPid
                THEN tryAuthentication([cancel(d) EXCEPT
                                          !.reauthenticate = FALSE])
              ELSE IF outcome = "refused" THEN d
              ELSE [d EXCEPT !.authenticated = TRUE, !.registering = @ + 1])

-----------------------------------------------------------------------------
(* The goroutines of an authentication and of a registration.              *)

\* The login ends and its result is sent; the attempt is done a step later.
\* That it fails by itself is one of the bounded events.
AuthenticationEnds(outcome) ==
  /\ driver.authenticating # NoMaster /\ ~driver.routed
  /\ IF outcome = "success" THEN UNCHANGED events ELSE Event
  /\ driver' = [driver EXCEPT
                  !.routed = TRUE,
                  !.results[<<driver.authenticating, outcome>>] = @ + 1]
  /\ UNCHANGED <<credential, masterVars, acked, delivered>>

AuthenticationDone ==
  /\ driver.routed
  /\ DriverBecomes(cancel(driver))

\* The same for an attempt that was canceled, perhaps too late.
CanceledEnds(m, outcome) ==
  /\ driver.canceled[m] > 0
  /\ IF outcome = "refused" THEN Event ELSE UNCHANGED events
  /\ driver' = [driver EXCEPT !.canceled[m] = @ - 1,
                              !.results[<<m, outcome>>] = @ + 1]
  /\ UNCHANGED <<credential, masterVars, acked, delivered>>

Arrives(msg, d) ==
  IF Contains(d.inbox, msg) THEN d
                            ELSE [d EXCEPT !.inbox = Append(@, msg)]

\* A master gets the request for a registration and answers it, if it is the
\* leader.  A process that it has registered before keeps the id.
MasterAnswers(d) ==
  \/ /\ d.masterPid # leader
     /\ driver' = d
     /\ UNCHANGED <<nextId, given>>
  \/ /\ d.masterPid = leader /\ d.id = 0
     /\ given' = IF given = 0 THEN nextId ELSE given
     /\ nextId' = IF given = 0 THEN nextId + 1 ELSE nextId
     /\ driver' = Arrives(Message(leader, "Registered", given'), d)
  \/ /\ d.masterPid = leader /\ d.id # 0 /\ d.id \notin completed
     /\ given' = d.id
     /\ driver' = Arrives(Message(leader, "Reregistered", 0), d)
     /\ UNCHANGED nextId
  \/ /\ d.masterPid = leader /\ d.id \in completed
     /\ driver' = Arrives(Message(leader, "Error", 0), d)
     /\ UNCHANGED <<nextId, given>>

skipRegistration ==
  \/ driver.status # "Running" \/ driver.connected
  \/ driver.masterPid = NoMaster \/ (credential /\ ~driver.authenticated)

\* Mutant: the loop ends with its first request.
registerOnceOnly ==
  LET d == [driver EXCEPT !.registering = @ - 1] IN
  /\ driver.registering > 0
  /\ IF skipRegistration THEN driver' = d /\ UNCHANGED <<nextId, given>>
                         ELSE MasterAnswers(d)
  /\ UNCHANGED <<credential, leader, completed, acked, delivered, events>>

\* A round of doReliableRegistration: a request, or the end of the loop.
registerOnce ==
  /\ driver.registering > 0
  /\ IF skipRegistration
       THEN /\ driver' = [driver EXCEPT !.registering = @ - 1]
            /\ UNCHANGED <<nextId, given>>
       ELSE MasterAnswers(driver)
  /\ UNCHANGED <<credential, leader, completed, acked, delivered, events>>

-----------------------------------------------------------------------------
(* Handlers of the messages of the masters.                                *)

Handle(kind) ==
  /\ driver.decode = NoCall /\ ~driver.stopCh
  /\ driver.inbox # <<>> /\ Head(driver.inbox).kind = kind

frameworkRegistered ==
  LET msg == Head(driver.inbox)
      d == [driver EXCEPT !.inbox = Tail(@)]
  IN
  /\ Handle("Registered")
  /\ DriverBecomes(
       IF d.connected \/ d.masterPid # msg.from THEN d
       ELSE [d EXCEPT !.connected = TRUE, !.connection = @ + 1,
                      !.id = msg.n, !.decode = Call("Registered", msg.n)])

frameworkReregistered ==
  LET msg == Head(driver.inbox)
      d == [driver EXCEPT !.inbox = Tail(@)]
  IN
  /\ Handle("Reregistered")
  /\ DriverBecomes(
       IF d.connected \/ d.masterPid # msg.from THEN d
       ELSE [d EXCEPT !.connected = TRUE, !.connection = @ + 1,
                      !.decode = Call("Reregistered", 0)])

\* Mutant: the update is acknowledged, and dropped if the scheduler is busy.
statusUpdatedUnlessBusy ==
  LET msg == Head(driver.inbox)
      d == [driver EXCEPT !.inbox = Tail(@)]
  IN
  /\ Handle("Update")
  /\ IF d.connected /\ d.masterPid = msg.from
       THEN /\ driver' = IF d.current = NoCall
                          THEN [d EXCEPT !.decode = Call("Update", msg.n)]
                          ELSE d
            /\ acked' \in {acked, IF msg.n > acked THEN msg.n ELSE acked}
       ELSE driver' = d /\ UNCHANGED acked
  /\ UNCHANGED <<credential, masterVars, delivered, events>>

\* The update is acknowledged before the scheduler is called with it.  The
\* acknowledgement may be lost on its way to the slave.
statusUpdated ==
  LET msg == Head(driver.inbox)
      d == [driver EXCEPT !.inbox = Tail(@)]
  IN
  /\ Handle("Update")
  /\ IF d.connected /\ d.masterPid = msg.from
       THEN /\ driver' = [d EXCEPT !.decode = Call("Update", msg.n)]
            /\ acked' \in {acked, IF msg.n > acked THEN msg.n ELSE acked}
       ELSE driver' = d /\ UNCHANGED acked
  /\ UNCHANGED <<credential, masterVars, delivered, events>>

frameworkErrorRcvd ==
  /\ Handle("Error")
  /\ DriverBecomes(abortDriver("Error", [driver EXCEPT !.inbox = Tail(@)]))

Handlers ==
  \/ frameworkRegistered \/ frameworkReregistered
  \/ statusUpdated \/ frameworkErrorRcvd

-----------------------------------------------------------------------------
(* Calls of the scheduler.                                                 *)

\* LaunchTasks while the driver is not connected: the task is lost.
LaunchTasks ==
  /\ driver.status = "Running" /\ ~driver.connected /\ Event
  /\ driver' = [driver EXCEPT !.pushing = @ + 1]
  /\ UNCHANGED <<credential, masterVars, acked, delivered>>

\* Mutant: the update is ignored like one of a master that is not connected.
pushLostTaskUnlessDisconnected ==
  LET d == [driver EXCEPT !.pushing = @ - 1] IN
  /\ driver.pushing > 0
  /\ DriverBecomes(IF d.status = "Running" /\ d.connected
                     THEN withScheduler("Lost", d) ELSE d)

pushLostTask ==
  LET d == [driver EXCEPT !.pushing = @ - 1] IN
  /\ driver.pushing > 0
  /\ DriverBecomes(IF d.status = "Running" THEN withScheduler("Lost", d)
                                           ELSE d)

\* Mutant: an abort is reported to the scheduler as an error.
AbortWithError ==
  /\ driver.status = "Running" /\ Event
  /\ driver' = abortDriver("Error", driver)
  /\ UNCHANGED <<credential, masterVars, acked, delivered>>

Abort ==
  /\ driver.status = "Running" /\ Event
  /\ driver' = abortDriver("Noop", driver)
  /\ UNCHANGED <<credential, masterVars, acked, delivered>>

-----------------------------------------------------------------------------
(* withScheduler: schedLock is held from a successful attempt to stop the  *)
(* queue until its last attempt is over, and the queue is closed with it.  *)

\* What can become of d when it tries to hand over a call and has schedLock.
trySend(call, d) ==
  CASE d.abort -> {d}
    [] ~d.abort /\ ~d.stopCh ->
         IF d.current = NoCall THEN {[d EXCEPT !.current = call]} ELSE {}
    [] OTHER ->
         {[d EXCEPT !.abort = TRUE, !.last = call, !.current = c] :
            c \in IF d.current = NoCall THEN {call, NoCall} ELSE {d.current}}

HandOver(call, d) ==
  /\ driver.last = NoCall
  /\ driver' \in trySend(call, d)
  /\ delivered' = IF driver'.current.f = "Update" THEN driver'.current.n
                  ELSE delivered
  /\ UNCHANGED <<credential, masterVars, acked, events>>

DecodeHandsOver ==
  /\ driver.decode # NoCall
  /\ HandOver(driver.decode, [driver EXCEPT !.decode = NoCall])

WaiterHandsOver(w) ==
  LET d == [driver EXCEPT !.waiting[w] = @ - 1] IN
  /\ driver.waiting[w] > 0
  /\ IF w = "DisconnectedThenAuthenticate"
       THEN HandOver(Call("Disconnected", 0), [d EXCEPT !.retrying = @ + 1])
       ELSE HandOver(Call(w, 0), d)

\* "one last attempt, before we run out of time"
LastAttempt ==
  /\ driver.last # NoCall
  /\ \/ /\ driver.current = NoCall
        /\ driver' = [driver EXCEPT !.current = driver.last, !.last = NoCall]
        /\ delivered' = IF driver.last.f = "Update" THEN driver.last.n
                        ELSE delivered
     \/ /\ driver' = [driver EXCEPT !.last = NoCall]
        /\ UNCHANGED delivered
  /\ UNCHANGED <<credential, masterVars, acked, events>>

\* The goroutine that runs the callbacks finds the queue closed.
QueueDone ==
  /\ driver.abort /\ driver.last = NoCall /\ driver.current = NoCall
  /\ ~driver.done
  /\ DriverBecomes([driver EXCEPT !.done = TRUE])

-----------------------------------------------------------------------------
(* The detector.                                                           *)

notifyMasterChanged ==
  /\ driver.status = "Running" /\ driver.leaderNode # leader
  /\ DriverBecomes([driver EXCEPT !.leaderNode = leader,
                                  !.changes[leader] = @ + 1])

\* The same when the data of the leader cannot be read: no master is reported.
NotifyWithoutInfo ==
  /\ driver.status = "Running" /\ driver.leaderNode # leader /\ Event
  /\ driver' = [driver EXCEPT !.leaderNode = leader,
                              !.changes[NoMaster] = @ + 1]
  /\ UNCHANGED <<credential, masterVars, acked, delivered>>

\* The watch ends with an error: the master is lost, and watched for anew.
WatchEnds ==
  /\ driver.status = "Running" /\ driver.leaderNode # NoMaster /\ Event
  /\ driver' = [driver EXCEPT !.leaderNode = NoMaster,
                              !.changes[NoMaster] = @ + 1]
  /\ UNCHANGED <<credential, masterVars, acked, delivered>>

-----------------------------------------------------------------------------
(* The masters and the network.                                            *)

\* The leader changes, or is lost.  A new one knows of no registration.
LeaderChanges ==
  /\ Event
  /\ leader' \in Pids \ {leader}
  /\ given' = 0
  /\ UNCHANGED <<driver, credential, nextId, completed, acked, delivered>>

\* A message of this session could not be sent.
SendFails ==
  /\ driver.connected /\ Event
  /\ driver' = [driver EXCEPT !.errors = @ \cup {driver.connection}]
  /\ UNCHANGED <<credential, masterVars, acked, delivered>>

\* The next update, or once more the one that was not acknowledged.
MasterForwards ==
  /\ given # 0 /\ Event
  /\ driver' = Arrives(Message(leader, "Update", acked + 1), driver)
  /\ UNCHANGED <<credential, masterVars, acked, delivered>>
==============================================================================
