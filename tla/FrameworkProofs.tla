-------------------------- MODULE FrameworkProofs ---------------------------
(***************************************************************************)
(* Proofs about the scheduler process and its driver, for any number of    *)
(* masters and of events.                                                  *)
(***************************************************************************)
EXTENDS Framework, TLAPS

(* What the invariants say nothing of may change.  Rest leaves everything  *)
(* else alone but what the driver knows of its connection; Same leaves     *)
(* that alone too.                                                         *)
Rest(d, e) ==
  /\ IsDriver(e)
  /\ e.status = d.status
  /\ e.stopCh = d.stopCh /\ e.abort = d.abort
  /\ e.inbox = d.inbox
  /\ e.id = d.id
  /\ e.decode = d.decode
  /\ e.current = d.current
  /\ e.last = d.last
  /\ e.waiting["Error"] = d.waiting["Error"]

Same(d, e) ==
  /\ Rest(d, e)
  /\ e.masterPid = d.masterPid
  /\ e.connected = d.connected
  /\ e.authenticated = d.authenticated
  /\ e.registering = d.registering

\* A driver is as good as one that is the same.
LEMMA SameDriver ==
  ASSUME NEW d, NEW e, Same(d, e)
  PROVE  /\ Connecting(d) => Connecting(e)
         /\ CallsTyped(d) => CallsTyped(e)
  BY DEF Connecting, CallsTyped, Same, Rest

\* The callbacks on their way are not touched by a step that keeps the rest.
LEMMA RestCalls ==
  ASSUME NEW d, NEW e, Rest(d, e), CallsTyped(d)
  PROVE  CallsTyped(e)
  BY DEF CallsTyped, Rest

-----------------------------------------------------------------------------
(* The functions the handlers are made of.                                 *)

\* The driver that main makes.
LEMMA NewDriver ==
  ASSUME NEW n
  PROVE  /\ IsDriver(NewMesosSchedulerDriver(n))
         /\ NewMesosSchedulerDriver(n).connected = FALSE
         /\ NewMesosSchedulerDriver(n).authenticated = FALSE
         /\ NewMesosSchedulerDriver(n).stopCh = FALSE
         /\ NewMesosSchedulerDriver(n).abort = FALSE
         /\ NewMesosSchedulerDriver(n).registering = 0
         /\ NewMesosSchedulerDriver(n).masterPid = NoMaster
         /\ NewMesosSchedulerDriver(n).inbox = <<>>
         /\ NewMesosSchedulerDriver(n).id = n
         /\ NewMesosSchedulerDriver(n).decode = NoCall
         /\ NewMesosSchedulerDriver(n).current = NoCall
         /\ NewMesosSchedulerDriver(n).last = NoCall
         /\ NewMesosSchedulerDriver(n).waiting["Error"] = 0
  BY DEF IsDriver, FieldNames, NewMesosSchedulerDriver, Waiters

\* The driver when main has started it.
LEMMA StartedDriver ==
  ASSUME NEW n \in Nat, NEW e, e = start(NewMesosSchedulerDriver(n))
  PROVE  /\ Connecting(e) /\ CallsTyped(e)
         /\ e.inbox = <<>> /\ e.id = n /\ e.decode = NoCall
         /\ e.current = NoCall /\ e.last = NoCall /\ e.waiting["Error"] = 0
  <1> DEFINE d == NewMesosSchedulerDriver(n)
  <1>1. /\ IsDriver(d) /\ d.connected = FALSE /\ d.authenticated = FALSE
        /\ d.stopCh = FALSE /\ d.abort = FALSE
        /\ d.registering = 0 /\ d.masterPid = NoMaster
        /\ d.inbox = <<>> /\ d.id = n /\ d.decode = NoCall
        /\ d.current = NoCall /\ d.last = NoCall /\ d.waiting["Error"] = 0
    BY NewDriver
  <1>2. e = [d EXCEPT !.status = "Running"]
    BY DEF start
  <1> HIDE DEF d
  <1>3. /\ IsDriver(e) /\ e.connected = FALSE /\ e.authenticated = FALSE
        /\ e.stopCh = FALSE /\ e.abort = FALSE
        /\ e.registering = 0 /\ e.masterPid = NoMaster
        /\ e.inbox = <<>> /\ e.id = n /\ e.decode = NoCall
        /\ e.current = NoCall /\ e.last = NoCall /\ e.waiting["Error"] = 0
        /\ e.status = "Running"
    BY <1>1, <1>2 DEF IsDriver, FieldNames
  <1>4. <<>> \in Seq(Messages)
    OBVIOUS
  <1>5. Connecting(e)
    BY <1>3, <1>4 DEF Connecting, Pids
  <1>6. CallsTyped(e)
    BY <1>3 DEF CallsTyped, IsCall, NoCall, Call
  <1>7. QED  BY <1>3, <1>5, <1>6

\* A goroutine that enters withScheduler, but for an error.
LEMMA WaitSame ==
  ASSUME NEW f \in Waiters, f # "Error", NEW d, IsDriver(d)
  PROVE  Same(d, withScheduler(f, d))
  <1> DEFINE e == withScheduler(f, d)
             ws == [d.waiting EXCEPT ![f] = d.waiting[f] + 1]
  <1>1. e = [d EXCEPT !.waiting = ws]
    BY DEF IsDriver, FieldNames, withScheduler
  <1>2. ws = [w \in Waiters |-> ws[w]] /\ ws["Error"] = d.waiting["Error"]
    BY DEF IsDriver, Waiters
  <1> HIDE DEF ws
  <1>3. QED  BY <1>1, <1>2 DEF IsDriver, FieldNames, Same, Rest

\* The end of an attempt to authenticate.
LEMMA CancelSame ==
  ASSUME NEW d, IsDriver(d)
  PROVE  Same(d, cancel(d))
  BY DEF IsDriver, FieldNames, cancel, Same, Rest

\* tryAuthentication authenticates nobody without a master, and starts a
\* registration loop when it does.
LEMMA TryAuthentication ==
  ASSUME NEW d, IsDriver(d), NEW e, e = tryAuthentication(d)
  PROVE  /\ Rest(d, e)
         /\ e.masterPid = d.masterPid
         /\ e.connected = d.connected
         /\ \/ /\ e.authenticated = d.authenticated
               /\ e.registering = d.registering
            \/ /\ e.authenticated = TRUE
               /\ e.registering = d.registering + 1
               /\ d.masterPid # NoMaster
  <1>1. CASE d.authenticated
    <2>1. e = [d EXCEPT !.panicked = TRUE]
      BY <1>1 DEF tryAuthentication
    <2>2. QED  BY <2>1 DEF IsDriver, FieldNames, Rest
  <1>2. CASE ~d.authenticated /\ d.masterPid = NoMaster
    <2>1. e = d
      BY <1>2 DEF tryAuthentication
    <2>2. QED  BY <2>1 DEF Rest
  <1>3. CASE /\ ~d.authenticated /\ d.masterPid # NoMaster
             /\ d.authenticating # NoMaster
    <2> DEFINE c == cancel(d)
    <2>1. e = [c EXCEPT !.reauthenticate = TRUE]
      BY <1>3 DEF tryAuthentication
    <2>2. Same(d, c)
      BY CancelSame
    <2> HIDE DEF c
    <2>3. IsDriver(c)
      BY <2>2 DEF Same, Rest
    <2>4. Same(c, e)
      BY <2>1, <2>3 DEF IsDriver, FieldNames, Same, Rest
    <2>5. QED  BY <2>2, <2>4 DEF Same, Rest
  <1>4. CASE /\ ~d.authenticated /\ d.masterPid # NoMaster
             /\ d.authenticating = NoMaster
    <2>1. e = IF credential THEN [d EXCEPT !.authenticating = d.masterPid]
              ELSE [d EXCEPT !.authenticated = TRUE,
                             !.registering = d.registering + 1]
      BY <1>4 DEF tryAuthentication
    <2>2. CASE credential
      BY <2>1, <2>2 DEF IsDriver, FieldNames, Rest
    <2>3. CASE ~credential
      BY <1>4, <2>1, <2>3 DEF IsDriver, FieldNames, Rest
    <2>4. QED  BY <2>2, <2>3
  <1>5. QED  BY <1>1, <1>2, <1>3, <1>4

\* So that it leads from a good driver to a good one.
LEMMA TryConnecting ==
  ASSUME NEW d, Connecting(d)
  PROVE  Connecting(tryAuthentication(d)) /\ Rest(d, tryAuthentication(d))
  <1> DEFINE e == tryAuthentication(d)
  <1>1. IsDriver(d)
    BY DEF Connecting
  <1>2. /\ Rest(d, e)
        /\ e.masterPid = d.masterPid
        /\ e.connected = d.connected
        /\ \/ /\ e.authenticated = d.authenticated
              /\ e.registering = d.registering
           \/ /\ e.authenticated = TRUE
              /\ e.registering = d.registering + 1
              /\ d.masterPid # NoMaster
    BY <1>1, TryAuthentication
  <1> HIDE DEF e
  <1>3. Connecting(e)
    BY <1>2 DEF Connecting, Rest
  <1>4. QED  BY <1>2, <1>3 DEF e

\* What abort leaves behind is a stopped driver; the goroutine of _stop is
\* about to call Error only if abort was called for that.
LEMMA AbortDriver ==
  ASSUME NEW f \in {"Error", "Noop"}, NEW d, Connecting(d), CallsTyped(d),
         NEW e, e = abortDriver(f, d)
  PROVE  /\ Connecting(e) /\ CallsTyped(e)
         /\ e.inbox = d.inbox /\ e.id = d.id /\ e.decode = d.decode
         /\ e.current = d.current /\ e.last = d.last /\ e.stopCh
         /\ f = "Noop" => e.waiting["Error"] = d.waiting["Error"]
  <1>1. CASE d.stopCh
    <2>1. e = [d EXCEPT !.status = "Aborted"]
      BY <1>1 DEF abortDriver
    <2>2. QED  BY <1>1, <2>1 DEF Connecting, CallsTyped, IsDriver, FieldNames
  <1>2. CASE ~d.stopCh
    <2> DEFINE g == [d EXCEPT !.status = "Aborted", !.connected = FALSE,
                              !.connection = 0, !.stopCh = TRUE]
               ws == [g.waiting EXCEPT ![f] = g.waiting[f] + 1]
    <2>1. e = withScheduler(f, g)
      BY <1>2 DEF abortDriver
    <2>2. /\ IsDriver(g) /\ g.status = "Aborted" /\ ~g.connected /\ g.stopCh
          /\ g.registering = d.registering /\ g.masterPid = d.masterPid
          /\ g.id = d.id /\ g.inbox = d.inbox /\ g.decode = d.decode
          /\ g.current = d.current /\ g.last = d.last
          /\ g.waiting = d.waiting
      BY DEF Connecting, IsDriver, FieldNames
    <2> HIDE DEF g
    <2>3. e = [g EXCEPT !.waiting = ws]
      BY <2>1, <2>2 DEF withScheduler, IsDriver, FieldNames
    <2>4. /\ ws = [w \in Waiters |-> ws[w]]
          /\ f = "Noop" => ws["Error"] = d.waiting["Error"]
      BY <2>2 DEF IsDriver, Waiters
    <2> HIDE DEF ws
    <2>5. /\ IsDriver(e) /\ e.status = "Aborted" /\ ~e.connected /\ e.stopCh
          /\ e.registering = d.registering /\ e.masterPid = d.masterPid
          /\ e.id = d.id /\ e.inbox = d.inbox /\ e.decode = d.decode
          /\ e.current = d.current /\ e.last = d.last
          /\ f = "Noop" => e.waiting["Error"] = d.waiting["Error"]
      BY <2>2, <2>3, <2>4 DEF IsDriver, FieldNames
    <2>6. QED  BY <2>5 DEF Connecting, CallsTyped
  <1>3. QED  BY <1>1, <1>2

-----------------------------------------------------------------------------
(* The steps that change no more than what the driver knows of its         *)
(* connection.                                                             *)

Reconnects ==
  /\ Rest(driver, driver') /\ Connecting(driver')
  /\ UNCHANGED <<masterVars, acked, delivered>>

\* A step that leaves the driver the same.
LEMMA SameReconnects ==
  ASSUME Connecting(driver), Same(driver, driver'),
         UNCHANGED <<masterVars, acked, delivered>>
  PROVE  Reconnects
  BY SameDriver DEF Reconnects, Same

\* A network error.
LEMMA NetworkErrorReconnects ==
  ASSUME Connecting(driver), NEW s \in Sessions, handleNetworkError(s)
  PROVE  Reconnects
  <1> DEFINE d == [driver EXCEPT !.errors = @ \ {s}]
  <1>1. /\ driver' = IF d.connected /\ s = d.connection
                       THEN withScheduler("Disconnected",
                              [d EXCEPT !.masterPid = NoMaster,
                                        !.connected = FALSE,
                                        !.authenticated = FALSE])
                       ELSE d
        /\ UNCHANGED <<masterVars, acked, delivered>>
    BY DEF handleNetworkError, DriverBecomes
  <1>2. Same(driver, d)
    BY DEF Connecting, IsDriver, FieldNames, Same, Rest
  <1>3. Connecting(d)
    BY <1>2, SameDriver
  <1> HIDE DEF d
  <1> DEFINE g == [d EXCEPT !.masterPid = NoMaster, !.connected = FALSE,
                            !.authenticated = FALSE]
  <1>4. CASE ~(d.connected /\ s = d.connection)
    <2>1. Same(driver, driver')
      BY <1>1, <1>2, <1>4
    <2>2. QED  BY <1>1, <2>1, SameReconnects
  <1>5. CASE d.connected /\ s = d.connection
    <2>1. driver' = withScheduler("Disconnected", g)
      BY <1>1, <1>5
    <2>2. Rest(d, g) /\ Connecting(g)
      BY <1>3 DEF Connecting, IsDriver, FieldNames, Rest, Pids
    <2> HIDE DEF g
    <2>3. Same(g, driver')
      BY <2>1, <2>2, WaitSame DEF Connecting, Waiters
    <2>4. Connecting(driver')
      BY <2>2, <2>3, SameDriver
    <2>5. QED  BY <1>1, <1>2, <2>2, <2>3, <2>4 DEF Reconnects, Same, Rest
  <1>6. QED  BY <1>4, <1>5

\* A change of the master.
LEMMA MasterChangedReconnects ==
  ASSUME Connecting(driver), NEW m \in Pids, handleMasterChanged(m)
  PROVE  Reconnects
  <1> DEFINE c == [driver EXCEPT !.changes[m] = @ - 1]
             d == [driver EXCEPT
                     !.changes[m] = @ - 1, !.connected = FALSE,
                     !.authenticated = FALSE,
                     !.masterPid = IF m = NoMaster /\ ~driver.connected
                                     THEN @ ELSE m]
             w == IF m = NoMaster THEN "Disconnected"
                  ELSE "DisconnectedThenAuthenticate"
  <1>1. /\ \/ driver' = c
           \/ driver' = withScheduler(w, d)
           \/ driver' = d
           \/ driver' = tryAuthentication(d)
        /\ UNCHANGED <<masterVars, acked, delivered>>
    BY DEF handleMasterChanged, DriverBecomes
  <1>2. Same(driver, c)
    BY DEF Connecting, IsDriver, FieldNames, Same, Rest
  <1>3. Rest(driver, d) /\ Connecting(d)
    BY DEF Connecting, IsDriver, FieldNames, Rest, Pids
  <1> HIDE DEF c, d
  <1>4. CASE driver' = c
    BY <1>1, <1>2, <1>4, SameReconnects
  <1>5. CASE driver' = withScheduler(w, d)
    <2>1. w \in Waiters /\ w # "Error"
      BY DEF Waiters
    <2> HIDE DEF w
    <2>2. Same(d, driver')
      BY <1>3, <1>5, <2>1, WaitSame DEF Connecting
    <2>3. Connecting(driver')
      BY <1>3, <2>2, SameDriver
    <2>4. QED  BY <1>1, <1>3, <2>2, <2>3 DEF Reconnects, Same, Rest
  <1>6. CASE driver' = d
    BY <1>1, <1>3, <1>6 DEF Reconnects
  <1>7. CASE driver' = tryAuthentication(d)
    <2>1. Connecting(driver') /\ Rest(d, driver')
      BY <1>3, <1>7, TryConnecting
    <2>2. QED  BY <1>1, <1>3, <2>1 DEF Reconnects, Rest
  <1>8. QED  BY <1>1, <1>4, <1>5, <1>6, <1>7

\* The second half of a change of the master.
LEMMA MasterChangedAgainReconnects ==
  ASSUME Connecting(driver), MasterChangedAuthenticates
  PROVE  Reconnects
  <1> DEFINE d == [driver EXCEPT !.retrying = @ - 1]
  <1>1. /\ driver' = tryAuthentication(d)
        /\ UNCHANGED <<masterVars, acked, delivered>>
    BY DEF MasterChangedAuthenticates, DriverBecomes
  <1>2. Same(driver, d)
    BY DEF Connecting, IsDriver, FieldNames, Same, Rest
  <1> HIDE DEF d
  <1>3. Connecting(d)
    BY <1>2, SameDriver
  <1>4. Connecting(driver') /\ Rest(d, driver')
    BY <1>1, <1>3, TryConnecting
  <1>5. QED  BY <1>1, <1>2, <1>4 DEF Reconnects, Same, Rest

\* The result of an authentication.
LEMMA AuthenticationResultReconnects ==
  ASSUME Connecting(driver), NEW m \in Masters, NEW o \in Outcomes,
         handleAuthenticationResult(m, o)
  PROVE  Reconnects
  <1> DEFINE d == [driver EXCEPT !.results[<<m, o>>] = @ - 1]
             g == [cancel(d) EXCEPT !.reauthenticate = FALSE]
             a == [d EXCEPT !.authenticated = TRUE, !.registering = @ + 1]
             p == [d EXCEPT !.panicked = TRUE]
  <1>1. /\ \/ driver' = d
           \/ driver' = p
           \/ driver' = g
           \/ driver' = tryAuthentication(g)
           \/ driver' = a /\ d.masterPid # NoMaster
        /\ UNCHANGED <<masterVars, acked, delivered>>
    BY DEF handleAuthenticationResult, DriverBecomes
  <1>2. Same(driver, d)
    BY DEF Connecting, IsDriver, FieldNames, Same, Rest
  <1> HIDE DEF d
  <1>3. Connecting(d)
    BY <1>2, SameDriver
  <1>4. Same(d, p)
    BY <1>3 DEF Connecting, IsDriver, FieldNames, Same, Rest
  <1>5. Same(d, g)
    <2> DEFINE c == cancel(d)
    <2>1. Same(d, c)
      BY <1>3, CancelSame DEF Connecting
    <2> HIDE DEF c
    <2>2. Same(c, [c EXCEPT !.reauthenticate = FALSE])
      BY <2>1 DEF IsDriver, FieldNames, Same, Rest
    <2>3. Same(d, [c EXCEPT !.reauthenticate = FALSE])
      BY <2>1, <2>2 DEF Same, Rest
    <2>4. QED  BY <2>3 DEF c
  <1>6. d.masterPid # NoMaster => Rest(d, a) /\ Connecting(a)
    <2>1. /\ Rest(d, a) /\ a.masterPid = d.masterPid
          /\ a.connected = d.connected /\ a.registering = d.registering + 1
      BY <1>3 DEF Connecting, IsDriver, FieldNames, Rest
    <2> HIDE DEF a
    <2>2. QED  BY <1>3, <2>1 DEF Connecting, Rest
  <1> HIDE DEF p, g, a
  <1>7. CASE driver' \in {d, p, g}
    <2>1. Same(driver, driver')
      BY <1>2, <1>4, <1>5, <1>7 DEF Same, Rest
    <2>2. QED  BY <1>1, <2>1, SameReconnects
  <1>8. CASE driver' = tryAuthentication(g)
    <2>1. Connecting(g)
      BY <1>3, <1>5, SameDriver
    <2>2. Connecting(driver') /\ Rest(g, driver')
      BY <1>8, <2>1, TryConnecting
    <2>3. QED  BY <1>1, <1>2, <1>5, <2>2 DEF Reconnects, Same, Rest
  <1>9. CASE driver' = a /\ d.masterPid # NoMaster
    BY <1>1, <1>2, <1>6, <1>9 DEF Reconnects, Same, Rest
  <1>10. QED  BY <1>1, <1>7, <1>8, <1>9

\* Every handler of a message to itself leaves a driver that gets connected.
LEMMA SelfHandlersReconnect ==
  ASSUME Connecting(driver), SelfHandlers
  PROVE  Reconnects
  BY NetworkErrorReconnects, MasterChangedReconnects,
     MasterChangedAgainReconnects, AuthenticationResultReconnects
  DEF SelfHandlers

\* The goroutines of an authentication, of a launch that is lost, of the
\* callbacks and of the detector, and a send that fails.
LEMMA OthersReconnect ==
  ASSUME Connecting(driver),
         \/ Authentication \/ LaunchTasks \/ pushLostTask \/ QueueDone
         \/ notifyMasterChanged \/ NotifyWithoutInfo \/ WatchEnds
         \/ SendFails
  PROVE  Reconnects
  <1> USE DEF Connecting, IsDriver, FieldNames, Same, Rest, DriverBecomes
  <1>1. ASSUME NEW o \in Outcomes, AuthenticationEnds(o)
        PROVE  Same(driver, driver')
    BY <1>1 DEF AuthenticationEnds
  <1>2. ASSUME AuthenticationDone
        PROVE  Same(driver, driver')
    BY <1>2, CancelSame DEF AuthenticationDone
  <1>3. ASSUME NEW m \in Masters, NEW o \in Outcomes, CanceledEnds(m, o)
        PROVE  Same(driver, driver')
    BY <1>3 DEF CanceledEnds
  <1>4. ASSUME LaunchTasks
        PROVE  Same(driver, driver')
    BY <1>4 DEF LaunchTasks
  <1>5. ASSUME pushLostTask
        PROVE  Same(driver, driver')
    <2> DEFINE d == [driver EXCEPT !.pushing = @ - 1]
    <2>1. driver' = withScheduler("Lost", d) \/ driver' = d
      BY <1>5 DEF pushLostTask
    <2>2. Same(driver, d)
      OBVIOUS
    <2> HIDE DEF d, IsDriver
    <2>3. Same(d, withScheduler("Lost", d))
      BY <2>2, WaitSame DEF Waiters
    <2>4. QED  BY <2>1, <2>2, <2>3
  <1>6. ASSUME QueueDone
        PROVE  Same(driver, driver')
    BY <1>6 DEF QueueDone
  <1>7. ASSUME notifyMasterChanged \/ NotifyWithoutInfo \/ WatchEnds
        PROVE  Same(driver, driver')
    <2>1. CASE notifyMasterChanged
      BY <2>1 DEF notifyMasterChanged
    <2>2. CASE NotifyWithoutInfo
      BY <2>2 DEF NotifyWithoutInfo
    <2>3. CASE WatchEnds
      BY <2>3 DEF WatchEnds
    <2>4. QED  BY <1>7, <2>1, <2>2, <2>3
  <1>8. ASSUME SendFails
        PROVE  Same(driver, driver')
    BY <1>8 DEF SendFails
  <1> HIDE DEF Connecting, IsDriver, FieldNames, Same, Rest
  <1>9. UNCHANGED <<masterVars, acked, delivered>>
    BY DEF Authentication, AuthenticationEnds, AuthenticationDone,
           CanceledEnds, LaunchTasks, pushLostTask, QueueDone,
           notifyMasterChanged, NotifyWithoutInfo, WatchEnds, SendFails
  <1>10. Same(driver, driver')
    BY <1>1, <1>2, <1>3, <1>4, <1>5, <1>6, <1>7, <1>8 DEF Authentication
  <1>11. QED  BY <1>9, <1>10, SameReconnects

-----------------------------------------------------------------------------
(* The steps that move messages and callbacks.                             *)

Good(d) == Connecting(d) /\ CallsTyped(d)

\* What the masters send is a message.
LEMMA MessageTyped ==
  ASSUME NEW m \in Masters, NEW n \in Nat,
         NEW k \in {"Registered", "Reregistered", "Update", "Error"}
  PROVE  /\ Message(m, k, n) \in Messages
         /\ Message(m, k, n).kind = k /\ Message(m, k, n).n = n
  BY DEF Message, Messages

\* A message arrives.
LEMMA ArrivesGood ==
  ASSUME NEW d, Good(d), NEW msg \in Messages, NEW e, e = Arrives(msg, d)
  PROVE  /\ Good(e)
         /\ e.inbox = d.inbox \/ e.inbox = Append(d.inbox, msg)
         /\ e.stopCh = d.stopCh /\ e.id = d.id /\ e.decode = d.decode
         /\ e.current = d.current /\ e.last = d.last
         /\ e.waiting["Error"] = d.waiting["Error"]
  <1>1. CASE e = d
    BY <1>1
  <1>2. CASE e = [d EXCEPT !.inbox = Append(@, msg)]
    <2>1. d.inbox \in Seq(Messages)
      BY DEF Good, Connecting
    <2>2. Append(d.inbox, msg) \in Seq(Messages)
      BY <2>1
    <2> DEFINE q == Append(d.inbox, msg)
    <2> HIDE DEF q
    <2>3. e = [d EXCEPT !.inbox = q] /\ q \in Seq(Messages)
      BY <1>2, <2>2 DEF q
    <2>4. /\ Good(e) /\ e.inbox = q
          /\ e.stopCh = d.stopCh /\ e.id = d.id /\ e.decode = d.decode
          /\ e.current = d.current /\ e.last = d.last
          /\ e.waiting["Error"] = d.waiting["Error"]
      BY <2>3 DEF Good, Connecting, CallsTyped, IsDriver, FieldNames
    <2>5. QED  BY <2>4 DEF q
  <1>3. QED  BY <1>1, <1>2 DEF Arrives

\* The decode loop takes the next message.
LEMMA TakesMessage ==
  ASSUME NEW d, Good(d), d.inbox # <<>>,
         NEW e, e = [d EXCEPT !.inbox = Tail(@)]
  PROVE  /\ Good(e) /\ Head(d.inbox) \in Messages
         /\ e.inbox = Tail(d.inbox)
         /\ e.stopCh = d.stopCh /\ e.id = d.id /\ e.decode = d.decode
         /\ e.current = d.current /\ e.last = d.last
         /\ e.waiting["Error"] = d.waiting["Error"]
         /\ e.masterPid = d.masterPid /\ e.connected = d.connected
  <1> DEFINE q == Tail(d.inbox)
  <1>1. q \in Seq(Messages) /\ Head(d.inbox) \in Messages
    BY DEF Good, Connecting
  <1>2. e = [d EXCEPT !.inbox = q]
    OBVIOUS
  <1> HIDE DEF q
  <1>3. /\ Good(e) /\ e.inbox = q
        /\ e.stopCh = d.stopCh /\ e.id = d.id /\ e.decode = d.decode
        /\ e.current = d.current /\ e.last = d.last
        /\ e.waiting["Error"] = d.waiting["Error"]
        /\ e.masterPid = d.masterPid /\ e.connected = d.connected
    <2>1. IsDriver(e)
      BY <1>2 DEF Good, Connecting, IsDriver, FieldNames
    <2>2. /\ e.inbox = q /\ e.status = d.status /\ e.abort = d.abort
          /\ e.stopCh = d.stopCh /\ e.id = d.id /\ e.decode = d.decode
          /\ e.current = d.current /\ e.last = d.last
          /\ e.waiting["Error"] = d.waiting["Error"]
          /\ e.masterPid = d.masterPid /\ e.connected = d.connected
          /\ e.authenticated = d.authenticated
          /\ e.registering = d.registering
      BY <1>2 DEF Good, Connecting, IsDriver, FieldNames
    <2>3. QED  BY <1>1, <2>1, <2>2 DEF Good, Connecting, CallsTyped
  <1>4. QED  BY <1>1, <1>3 DEF q

\* A callback returns.
LEMMA CallEnds ==
  ASSUME NEW d, Good(d), NEW e, e = [d EXCEPT !.current = NoCall]
  PROVE  /\ Good(e) /\ e.current = NoCall
         /\ e.inbox = d.inbox /\ e.stopCh = d.stopCh /\ e.id = d.id
         /\ e.decode = d.decode /\ e.last = d.last
         /\ e.waiting["Error"] = d.waiting["Error"]
  <1>1. IsCall(NoCall) /\ NoCall.f # "Error"
    BY DEF IsCall, NoCall, Call
  <1>2. QED
    BY <1>1 DEF Good, Connecting, CallsTyped, IsDriver, FieldNames

\* A callback is handed over, dropped with a queue that is closed, or is the
\* one that closes it.
LEMMA TrySendGood ==
  ASSUME NEW call, IsCall(call), NEW d, Good(d), d.last = NoCall,
         NEW e, e \in trySend(call, d)
  PROVE  /\ Good(e)
         /\ e.current \in {d.current, call}
         /\ e.last \in {NoCall, call}
         /\ ~d.stopCh => e.current = call /\ e.last = NoCall
         /\ e.inbox = d.inbox /\ e.stopCh = d.stopCh /\ e.id = d.id
         /\ e.decode = d.decode
         /\ e.waiting["Error"] = d.waiting["Error"]
  <1>1. \/ e = d /\ d.abort
        \/ e = [d EXCEPT !.current = call] /\ ~d.stopCh
        \/ \E c \in {call, NoCall, d.current} :
             /\ e = [d EXCEPT !.abort = TRUE, !.last = call, !.current = c]
             /\ c = NoCall => c \in {call, d.current}
             /\ d.stopCh
    BY DEF trySend
  <1>2. CASE e = d /\ d.abort
    BY <1>2 DEF Good, Connecting
  <1>3. CASE e = [d EXCEPT !.current = call] /\ ~d.stopCh
    BY <1>3 DEF Good, Connecting, CallsTyped, IsDriver, FieldNames
  <1>4. ASSUME NEW c \in {call, d.current}, d.stopCh,
               e = [d EXCEPT !.abort = TRUE, !.last = call, !.current = c]
        PROVE  /\ Good(e) /\ e.current = c /\ e.last = call
               /\ e.inbox = d.inbox /\ e.stopCh = d.stopCh /\ e.id = d.id
               /\ e.decode = d.decode
               /\ e.waiting["Error"] = d.waiting["Error"]
    <2>1. IsCall(c)
      BY DEF Good, CallsTyped
    <2>2. QED
      BY <1>4, <2>1 DEF Good, Connecting, CallsTyped, IsDriver, FieldNames
  <1>5. QED  BY <1>1, <1>2, <1>3, <1>4

-----------------------------------------------------------------------------
(* What the actions that are left do to a good driver.                     *)

\* A registration: a round of the loop with no request or no answer, or an
\* answer that arrives.
LEMMA RegisterGood ==
  ASSUME Good(driver), leader \in Pids, nextId \in Nat, given \in Nat,
         registerOnce
  PROVE  /\ Good(driver')
         /\ UNCHANGED <<leader, completed, acked, delivered>>
         /\ driver'.stopCh = driver.stopCh /\ driver'.id = driver.id
         /\ driver'.decode = driver.decode
         /\ driver'.current = driver.current /\ driver'.last = driver.last
         /\ driver'.waiting["Error"] = driver.waiting["Error"]
         /\ \/ driver'.inbox = driver.inbox
            \/ \E msg \in Messages :
                 /\ driver'.inbox = Append(driver.inbox, msg)
                 /\ msg.kind # "Update"
                 /\ msg.kind = "Registered" => msg.n = given'
                 /\ msg.kind = "Error" => driver.id \in completed
         /\ \/ UNCHANGED <<nextId, given>>
            \/ /\ leader # NoMaster
               /\ \/ nextId' = nextId + 1 /\ given' = nextId
                  \/ /\ given' = driver.id /\ driver.id \notin completed
                     /\ UNCHANGED nextId
  <1> DEFINE k(e) ==
        /\ e.stopCh = driver.stopCh /\ e.id = driver.id
        /\ e.decode = driver.decode
        /\ e.current = driver.current /\ e.last = driver.last
        /\ e.waiting["Error"] = driver.waiting["Error"]
  <1>1. UNCHANGED <<leader, completed, acked, delivered>>
    BY DEF registerOnce
  <1>2. CASE skipRegistration
    <2> DEFINE e == [driver EXCEPT !.registering = @ - 1]
    <2>1. driver' = e /\ UNCHANGED <<nextId, given>> /\ driver.registering > 0
      BY <1>2 DEF registerOnce
    <2>2. /\ IsDriver(e) /\ k(e) /\ e.inbox = driver.inbox
          /\ e.status = driver.status /\ e.abort = driver.abort
          /\ e.masterPid = driver.masterPid
          /\ e.connected = driver.connected
          /\ e.authenticated = driver.authenticated
          /\ e.registering = driver.registering - 1
      BY DEF Good, Connecting, IsDriver, FieldNames
    <2> HIDE DEF e
    <2>3. e.registering \in Nat
      BY <2>1, <2>2 DEF Good, Connecting
    <2>4. e.connected \/ e.stopCh \/ ~e.authenticated
      BY <1>2, <2>2 DEF Good, Connecting, skipRegistration
    <2>5. Good(e)
      BY <2>2, <2>3, <2>4 DEF Good, Connecting, CallsTyped
    <2>6. QED  BY <1>1, <2>1, <2>2, <2>5
  <1>3. CASE ~skipRegistration
    <2>1. MasterAnswers(driver) /\ driver.masterPid # NoMaster
      BY <1>3 DEF registerOnce, skipRegistration
    <2>2. CASE driver' = driver /\ UNCHANGED <<nextId, given>>
      BY <1>1, <2>2
    <2>3. ASSUME NEW kind \in {"Registered", "Reregistered", "Error"},
                 NEW n \in Nat, driver.masterPid = leader,
                 driver' = Arrives(Message(leader, kind, n), driver)
          PROVE  /\ Good(driver') /\ k(driver')
                 /\ \/ driver'.inbox = driver.inbox
                    \/ \E msg \in Messages :
                         /\ driver'.inbox = Append(driver.inbox, msg)
                         /\ msg.kind = kind /\ msg.n = n
      <3>1. leader \in Masters
        BY <2>1, <2>3 DEF Pids
      <3> DEFINE msg == Message(leader, kind, n)
      <3>2. msg \in Messages /\ msg.kind = kind /\ msg.n = n
        BY <3>1, MessageTyped
      <3> HIDE DEF msg
      <3>3. driver' = Arrives(msg, driver)
        BY <2>3 DEF msg
      <3>4. QED  BY <3>2, <3>3, ArrivesGood
    <2> HIDE DEF k
    <2>4. CASE /\ driver.masterPid = leader /\ driver.id = 0
               /\ given' = IF given = 0 THEN nextId ELSE given
               /\ nextId' = IF given = 0 THEN nextId + 1 ELSE nextId
               /\ driver' = Arrives(Message(leader, "Registered", given'),
                                    driver)
      <3>1. given' \in Nat
        BY <2>4
      <3>2. /\ Good(driver') /\ k(driver')
            /\ \/ driver'.inbox = driver.inbox
               \/ \E msg \in Messages :
                    /\ driver'.inbox = Append(driver.inbox, msg)
                    /\ msg.kind = "Registered" /\ msg.n = given'
        BY <2>3, <2>4, <3>1
      <3>3. QED  BY <1>1, <2>1, <2>4, <3>2 DEF k
    <2>5. CASE /\ driver.masterPid = leader /\ driver.id # 0
               /\ driver.id \notin completed /\ given' = driver.id
               /\ driver' = Arrives(Message(leader, "Reregistered", 0), driver)
               /\ UNCHANGED nextId
      <3>1. /\ Good(driver') /\ k(driver')
            /\ \/ driver'.inbox = driver.inbox
               \/ \E msg \in Messages :
                    /\ driver'.inbox = Append(driver.inbox, msg)
                    /\ msg.kind = "Reregistered" /\ msg.n = 0
        BY <2>3, <2>5
      <3>2. QED  BY <1>1, <2>1, <2>5, <3>1 DEF k
    <2>6. CASE /\ driver.masterPid = leader /\ driver.id \in completed
               /\ driver' = Arrives(Message(leader, "Error", 0), driver)
               /\ UNCHANGED <<nextId, given>>
      <3>1. /\ Good(driver') /\ k(driver')
            /\ \/ driver'.inbox = driver.inbox
               \/ \E msg \in Messages :
                    /\ driver'.inbox = Append(driver.inbox, msg)
                    /\ msg.kind = "Error" /\ msg.n = 0
        BY <2>3, <2>6
      <3>2. QED  BY <1>1, <2>6, <3>1 DEF k
    <2>7. QED
      BY <2>1, <2>2, <2>4, <2>5, <2>6 DEF MasterAnswers
  <1>4. QED  BY <1>2, <1>3

\* A message of a master is ignored, or connects the driver; it is an update
\* on its way to the scheduler, or an error that stops the driver.
LEMMA HandlersGood ==
  ASSUME Good(driver), acked \in Nat, Handlers
  PROVE  /\ Good(driver')
         /\ UNCHANGED <<masterVars, delivered>>
         /\ driver.inbox # <<>> /\ driver.decode = NoCall /\ ~driver.stopCh
         /\ driver'.inbox = Tail(driver.inbox)
         /\ driver'.current = driver.current /\ driver'.last = driver.last
         /\ \/ /\ driver'.id = driver.id \/
                   /\ Head(driver.inbox).kind = "Registered"
                   /\ driver'.id = Head(driver.inbox).n
               /\ driver'.decode.f # "Update"
               /\ driver'.stopCh = driver.stopCh
               /\ driver'.waiting["Error"] = driver.waiting["Error"]
               /\ UNCHANGED acked
            \/ /\ Head(driver.inbox).kind = "Update"
               /\ driver'.decode = Call("Update", Head(driver.inbox).n)
               /\ driver'.id = driver.id /\ driver'.stopCh = driver.stopCh
               /\ driver'.waiting["Error"] = driver.waiting["Error"]
               /\ acked' \in {acked, IF Head(driver.inbox).n > acked
                                       THEN Head(driver.inbox).n ELSE acked}
            \/ /\ Head(driver.inbox).kind = "Error"
               /\ driver'.decode = NoCall /\ driver'.stopCh
               /\ driver'.id = driver.id
               /\ UNCHANGED acked
  <1> DEFINE msg == Head(driver.inbox)
             d == [driver EXCEPT !.inbox = Tail(@)]
  <1>1. /\ driver.inbox # <<>> /\ driver.decode = NoCall /\ ~driver.stopCh
        /\ UNCHANGED <<masterVars, delivered>>
    BY DEF Handlers, frameworkRegistered, frameworkReregistered,
           statusUpdated, frameworkErrorRcvd, Handle, DriverBecomes
  <1>2. /\ Good(d) /\ msg \in Messages
        /\ d.inbox = Tail(driver.inbox)
        /\ d.stopCh = driver.stopCh /\ d.id = driver.id
        /\ d.decode = driver.decode
        /\ d.current = driver.current /\ d.last = driver.last
        /\ d.waiting["Error"] = driver.waiting["Error"]
        /\ d.masterPid = driver.masterPid /\ d.connected = driver.connected
    BY <1>1, TakesMessage
  <1>3. msg.n \in Nat /\ msg.from # NoMaster
    BY <1>2, MasterAssumption DEF Messages
  <1>4. NoCall.f # "Update"
    BY DEF NoCall, Call
  <1>5. /\ IsCall(Call("Registered", msg.n)) /\ IsCall(Call("Reregistered", 0))
        /\ IsCall(Call("Update", msg.n)) /\ Call("Update", msg.n).f = "Update"
        /\ Call("Registered", msg.n).f = "Registered"
        /\ Call("Reregistered", 0).f = "Reregistered"
    BY <1>3 DEF IsCall, Call
  <1>6. CASE frameworkRegistered
    <2> DEFINE c == Call("Registered", msg.n)
               e == [d EXCEPT !.connected = TRUE, !.connection = @ + 1,
                              !.id = msg.n, !.decode = c]
    <2>1. /\ driver' = IF d.connected \/ d.masterPid # msg.from THEN d ELSE e
          /\ UNCHANGED acked /\ msg.kind = "Registered"
      BY <1>6 DEF frameworkRegistered, Handle, DriverBecomes
    <2>2. c.f \notin {"Update", "Error"} /\ IsCall(c)
      BY <1>5
    <2> HIDE DEF d, c, msg
    <2>3. d.masterPid = msg.from =>
            /\ Good(e) /\ e.id = msg.n /\ e.decode = c
            /\ e.inbox = d.inbox /\ e.stopCh = d.stopCh
            /\ e.current = d.current /\ e.last = d.last
            /\ e.waiting["Error"] = d.waiting["Error"]
      <3>1. /\ IsDriver(e) /\ e.id = msg.n /\ e.decode = c /\ e.connected
            /\ e.inbox = d.inbox /\ e.stopCh = d.stopCh
            /\ e.current = d.current /\ e.last = d.last
            /\ e.waiting["Error"] = d.waiting["Error"]
            /\ e.status = d.status /\ e.abort = d.abort
            /\ e.masterPid = d.masterPid /\ e.registering = d.registering
        BY <1>2 DEF Good, Connecting, IsDriver, FieldNames
      <3>2. QED  BY <1>1, <1>2, <1>3, <2>2, <3>1 DEF Good, Connecting, CallsTyped
    <2> HIDE DEF e
    <2>4. QED  BY <1>1, <1>2, <1>4, <2>1, <2>2, <2>3 DEF msg
  <1>7. CASE frameworkReregistered
    <2> DEFINE c == Call("Reregistered", 0)
               e == [d EXCEPT !.connected = TRUE, !.connection = @ + 1,
                              !.decode = c]
    <2>1. /\ driver' = IF d.connected \/ d.masterPid # msg.from THEN d ELSE e
          /\ UNCHANGED acked
      BY <1>7 DEF frameworkReregistered, Handle, DriverBecomes
    <2>2. c.f \notin {"Update", "Error"} /\ IsCall(c)
      BY <1>5
    <2> HIDE DEF d, c, msg
    <2>3. d.masterPid = msg.from =>
            /\ Good(e) /\ e.id = d.id /\ e.decode = c
            /\ e.inbox = d.inbox /\ e.stopCh = d.stopCh
            /\ e.current = d.current /\ e.last = d.last
            /\ e.waiting["Error"] = d.waiting["Error"]
      <3>1. /\ IsDriver(e) /\ e.id = d.id /\ e.decode = c /\ e.connected
            /\ e.inbox = d.inbox /\ e.stopCh = d.stopCh
            /\ e.current = d.current /\ e.last = d.last
            /\ e.waiting["Error"] = d.waiting["Error"]
            /\ e.status = d.status /\ e.abort = d.abort
            /\ e.masterPid = d.masterPid /\ e.registering = d.registering
        BY <1>2 DEF Good, Connecting, IsDriver, FieldNames
      <3>2. QED  BY <1>1, <1>2, <1>3, <2>2, <3>1 DEF Good, Connecting, CallsTyped
    <2> HIDE DEF e
    <2>4. QED  BY <1>1, <1>2, <1>4, <2>1, <2>2, <2>3
  <1>8. CASE statusUpdated
    <2> DEFINE c == Call("Update", msg.n)
               e == [d EXCEPT !.decode = c]
    <2>1. /\ msg.kind = "Update"
          /\ \/ driver' = d /\ UNCHANGED acked
             \/ /\ driver' = e
                /\ acked' \in {acked, IF msg.n > acked THEN msg.n ELSE acked}
      BY <1>8 DEF statusUpdated, Handle
    <2>2. IsCall(c) /\ c.f # "Error"
      BY <1>5
    <2> HIDE DEF d, c, msg
    <2>3. /\ Good(e) /\ e.id = d.id /\ e.decode = c
          /\ e.inbox = d.inbox /\ e.stopCh = d.stopCh
          /\ e.current = d.current /\ e.last = d.last
          /\ e.waiting["Error"] = d.waiting["Error"]
      BY <1>2, <2>2 DEF Good, Connecting, CallsTyped, IsDriver, FieldNames
    <2> HIDE DEF e
    <2>4. QED  BY <1>1, <1>2, <1>4, <2>1, <2>3 DEF c, msg
  <1>9. CASE frameworkErrorRcvd
    <2>1. /\ driver' = abortDriver("Error", d) /\ UNCHANGED acked
          /\ msg.kind = "Error"
      BY <1>9 DEF frameworkErrorRcvd, Handle, DriverBecomes
    <2> HIDE DEF d
    <2>2. /\ Good(driver')
          /\ driver'.inbox = d.inbox /\ driver'.id = d.id
          /\ driver'.decode = d.decode /\ driver'.current = d.current
          /\ driver'.last = d.last /\ driver'.stopCh
      BY <1>2, <2>1, AbortDriver DEF Good
    <2>3. QED  BY <1>1, <1>2, <2>1, <2>2
  <1>10. QED  BY <1>6, <1>7, <1>8, <1>9 DEF Handlers

\* The callback of the decode loop, or of another goroutine, is handed over.
LEMMA HandsOverGood ==
  ASSUME Good(driver), HandsOver
  PROVE  /\ Good(driver')
         /\ UNCHANGED <<masterVars, acked>>
         /\ driver'.inbox = driver.inbox /\ driver'.stopCh = driver.stopCh
         /\ driver'.id = driver.id /\ driver.last = NoCall
         /\ delivered' = IF driver'.current.f = "Update"
                           THEN driver'.current.n ELSE delivered
         /\ \E call :
              /\ driver'.current \in {driver.current, call}
              /\ driver'.last \in {NoCall, call}
              /\ ~driver.stopCh => driver'.current = call /\ driver'.last = NoCall
              /\ \/ /\ call = driver.decode /\ driver'.decode = NoCall
                    /\ driver'.waiting["Error"] = driver.waiting["Error"]
                 \/ /\ call.f # "Update" /\ driver'.decode = driver.decode
                    /\ call.f = "Error" \/ driver'.waiting["Error"] # 0
                         => driver.waiting["Error"] # 0
  <1>1. ASSUME NEW call, IsCall(call), NEW d, Good(d), d.last = driver.last,
               HandOver(call, d)
        PROVE  /\ Good(driver')
               /\ UNCHANGED <<masterVars, acked>>
               /\ driver'.inbox = d.inbox /\ driver'.stopCh = d.stopCh
               /\ driver'.id = d.id /\ driver.last = NoCall
               /\ delivered' = IF driver'.current.f = "Update"
                                 THEN driver'.current.n ELSE delivered
               /\ driver'.current \in {d.current, call}
               /\ driver'.last \in {NoCall, call}
               /\ ~d.stopCh => driver'.current = call /\ driver'.last = NoCall
               /\ driver'.decode = d.decode
               /\ driver'.waiting["Error"] = d.waiting["Error"]
    <2>1. /\ driver.last = NoCall /\ driver' \in trySend(call, d)
          /\ delivered' = IF driver'.current.f = "Update"
                            THEN driver'.current.n ELSE delivered
          /\ UNCHANGED <<masterVars, acked>>
      BY <1>1 DEF HandOver
    <2>2. d.last = NoCall
      BY <1>1, <2>1
    <2>3. QED  BY <1>1, <2>1, <2>2, TrySendGood
  <1>2. CASE DecodeHandsOver
    <2> DEFINE call == driver.decode
               d == [driver EXCEPT !.decode = NoCall]
    <2>1. HandOver(call, d)
      BY <1>2 DEF DecodeHandsOver
    <2>2. IsCall(call) /\ IsCall(NoCall) /\ NoCall.f # "Error"
      BY DEF Good, CallsTyped, IsCall, NoCall, Call
    <2>3. /\ Good(d) /\ d.last = driver.last /\ d.decode = NoCall
          /\ d.inbox = driver.inbox /\ d.stopCh = driver.stopCh
          /\ d.id = driver.id /\ d.current = driver.current
          /\ d.waiting["Error"] = driver.waiting["Error"]
      BY <2>2 DEF Good, Connecting, CallsTyped, IsDriver, FieldNames
    <2> HIDE DEF call, d
    <2>4. QED  BY <1>1, <2>1, <2>2, <2>3 DEF call
  <1>3. ASSUME NEW w \in Waiters, WaiterHandsOver(w)
        PROVE  \E call, d :
                 /\ IsCall(call) /\ HandOver(call, d)
                 /\ Good(d) /\ d.last = driver.last
                 /\ d.decode = driver.decode
                 /\ d.inbox = driver.inbox /\ d.stopCh = driver.stopCh
                 /\ d.id = driver.id /\ d.current = driver.current
                 /\ call.f # "Update"
                 /\ call.f = "Error" \/ d.waiting["Error"] # 0
                      => driver.waiting["Error"] # 0
    <2> DEFINE ws == [driver.waiting EXCEPT ![w] = driver.waiting[w] - 1]
               d == [driver EXCEPT !.waiting = ws]
               r == [d EXCEPT !.retrying = @ + 1]
    <2>1. /\ driver.waiting[w] > 0
          /\ IF w = "DisconnectedThenAuthenticate"
               THEN HandOver(Call("Disconnected", 0), r)
               ELSE HandOver(Call(w, 0), d)
      <3>1. d = [driver EXCEPT !.waiting[w] = @ - 1]
        BY DEF Good, Connecting, IsDriver, FieldNames
      <3> HIDE DEF d
      <3>2. QED  BY <1>3, <3>1 DEF WaiterHandsOver
    <2>2. /\ ws = [x \in Waiters |-> ws[x]]
          /\ ws["Error"] # 0 \/ w = "Error" => driver.waiting["Error"] # 0
      <3>1. driver.waiting = [x \in Waiters |-> driver.waiting[x]]
        BY DEF Good, Connecting, IsDriver
      <3>2. ws = [x \in Waiters |-> ws[x]]
        BY <3>1
      <3>3. w # "Error" => ws["Error"] = driver.waiting["Error"]
        BY <3>1 DEF Waiters
      <3>4. w = "Error" => driver.waiting["Error"] # 0
        BY <2>1
      <3>5. QED  BY <3>2, <3>3, <3>4
    <2> HIDE DEF ws
    <2>3. /\ Good(d) /\ d.last = driver.last /\ d.decode = driver.decode
          /\ d.inbox = driver.inbox /\ d.stopCh = driver.stopCh
          /\ d.id = driver.id /\ d.current = driver.current
          /\ d.waiting = ws
      <3>1. /\ IsDriver(d) /\ d.last = driver.last /\ d.decode = driver.decode
            /\ d.inbox = driver.inbox /\ d.stopCh = driver.stopCh
            /\ d.id = driver.id /\ d.current = driver.current
            /\ d.waiting = ws
            /\ d.status = driver.status /\ d.abort = driver.abort
            /\ d.masterPid = driver.masterPid
            /\ d.connected = driver.connected
            /\ d.authenticated = driver.authenticated
            /\ d.registering = driver.registering
        BY <2>2 DEF Good, Connecting, IsDriver, FieldNames
      <3> HIDE DEF d
      <3>2. QED  BY <3>1 DEF Good, Connecting, CallsTyped
    <2> HIDE DEF d
    <2>4. Same(d, r)
      BY <2>3 DEF Good, Connecting, IsDriver, FieldNames, Same, Rest
    <2> HIDE DEF r
    <2>5. CASE w = "DisconnectedThenAuthenticate"
      <3>1. Good(r)
        BY <2>3, <2>4, SameDriver DEF Good
      <3>2. IsCall(Call("Disconnected", 0))
            /\ Call("Disconnected", 0).f = "Disconnected"
        BY DEF IsCall, Call
      <3>3. /\ r.last = driver.last /\ r.decode = driver.decode
            /\ r.inbox = driver.inbox /\ r.stopCh = driver.stopCh
            /\ r.id = driver.id /\ r.current = driver.current
            /\ r.waiting["Error"] = ws["Error"]
        BY <2>3, <2>4 DEF Same, Rest
      <3>4. QED  BY <2>1, <2>2, <2>5, <3>1, <3>2, <3>3
    <2>6. CASE w # "DisconnectedThenAuthenticate"
      <3>1. IsCall(Call(w, 0)) /\ Call(w, 0).f = w
        BY DEF IsCall, Call
      <3>2. w # "Update"
        BY DEF Waiters
      <3>3. QED  BY <2>1, <2>2, <2>3, <2>6, <3>1, <3>2
    <2>7. QED  BY <2>5, <2>6
  <1>4. CASE \E w \in Waiters : WaiterHandsOver(w)
    BY <1>1, <1>3, <1>4
  <1>5. QED  BY <1>2, <1>4 DEF HandsOver

\* The last attempt of withScheduler hands over a callback or drops it.
LEMMA LastAttemptGood ==
  ASSUME Good(driver), LastAttempt
  PROVE  /\ Good(driver')
         /\ UNCHANGED <<masterVars, acked>>
         /\ driver'.inbox = driver.inbox /\ driver'.stopCh = driver.stopCh
         /\ driver'.id = driver.id /\ driver'.decode = driver.decode
         /\ driver'.waiting["Error"] = driver.waiting["Error"]
         /\ driver'.last = NoCall
         /\ \/ /\ driver'.current = driver.last
               /\ delivered' = IF driver.last.f = "Update" THEN driver.last.n
                               ELSE delivered
            \/ driver'.current = driver.current /\ UNCHANGED delivered
  <1>1. IsCall(NoCall)
    BY DEF IsCall, NoCall, Call
  <1>2. UNCHANGED <<masterVars, acked>>
    BY DEF LastAttempt
  <1>3. CASE /\ driver' = [driver EXCEPT !.current = driver.last,
                                         !.last = NoCall]
             /\ delivered' = IF driver.last.f = "Update" THEN driver.last.n
                             ELSE delivered
    BY <1>1, <1>2, <1>3
    DEF Good, Connecting, CallsTyped, IsDriver, FieldNames
  <1>4. CASE driver' = [driver EXCEPT !.last = NoCall] /\ UNCHANGED delivered
    BY <1>1, <1>2, <1>4
    DEF Good, Connecting, CallsTyped, IsDriver, FieldNames
  <1>5. QED  BY <1>3, <1>4 DEF LastAttempt

\* A status update that the leader forwards is put into the inbox.
LEMMA ForwardsGood ==
  ASSUME Good(driver), leader \in Masters, acked \in Nat, MasterForwards
  PROVE  /\ Good(driver')
         /\ UNCHANGED <<masterVars, acked, delivered>>
         /\ driver'.stopCh = driver.stopCh /\ driver'.id = driver.id
         /\ driver'.decode = driver.decode
         /\ driver'.current = driver.current /\ driver'.last = driver.last
         /\ driver'.waiting["Error"] = driver.waiting["Error"]
         /\ \/ driver'.inbox = driver.inbox
            \/ \E msg \in Messages :
                 /\ driver'.inbox = Append(driver.inbox, msg)
                 /\ msg.kind = "Update" /\ msg.n = acked + 1
  <1> DEFINE msg == Message(leader, "Update", acked + 1)
  <1>1. /\ driver' = Arrives(msg, driver)
        /\ UNCHANGED <<masterVars, acked, delivered>>
    BY DEF MasterForwards
  <1>2. msg \in Messages /\ msg.kind = "Update" /\ msg.n = acked + 1
    BY MessageTyped
  <1> HIDE DEF msg
  <1>3. QED  BY <1>1, <1>2, ArrivesGood

-----------------------------------------------------------------------------
(* The connection.                                                         *)

\* A process that ends leaves a driver nobody uses.
LEMMA ExitFacts ==
  ASSUME DriverFacts, Exit, zkId' \in {0, zkId}
  PROVE  DriverFacts'
  BY DEF DriverFacts, Exit, masterVars

\* A process that goes on with a good driver, when the masters have not
\* changed.
LEMMA GoodFacts ==
  ASSUME DriverFacts, process' = "up", Good(driver'), zkId' \in Nat,
         UNCHANGED masterVars, acked' \in Nat
  PROVE  DriverFacts'
  BY DEF DriverFacts, Good, masterVars

\* What the invariant says of a process that is up.
LEMMA UpGood ==
  ASSUME DriverFacts, process = "up"
  PROVE  Good(driver)
  BY DEF DriverFacts, Good

\* A callback that returns leaves the driver as it is, or ends the process.
LEMMA CallbackFacts ==
  ASSUME DriverFacts, process = "up", Callbacks
  PROVE  DriverFacts'
  <1>1. Good(driver)
    BY UpGood
  <1>2. ASSUME DriverBecomes([driver EXCEPT !.current = NoCall]),
               UNCHANGED process, zkId' \in Nat
        PROVE  DriverFacts'
    <2>1. Good(driver')
      BY <1>1, <1>2, CallEnds DEF DriverBecomes
    <2>2. QED  BY <1>2, <2>1, GoodFacts DEF DriverBecomes, DriverFacts
  <1>3. CASE Registered
    <2>1. driver.current.n \in Nat /\ zkId \in Nat
      BY <1>1 DEF Good, CallsTyped, IsCall, DriverFacts
    <2>2. QED  BY <1>2, <1>3, <2>1, ExitFacts DEF Registered
  <1>4. CASE Error
    BY <1>4, ExitFacts DEF Error
  <1>5. CASE CallbackReturns
    BY <1>2, <1>5 DEF CallbackReturns, DriverFacts
  <1>6. QED  BY <1>3, <1>4, <1>5 DEF Callbacks

\* A step after which the driver gets connected preserves the invariant.
LEMMA ReconnectsFacts ==
  ASSUME DriverFacts, process = "up", Reconnects, UNCHANGED <<process, zkId>>
  PROVE  DriverFacts'
  <1>1. Good(driver')
    BY RestCalls, UpGood DEF Reconnects, Good
  <1>2. QED  BY <1>1, GoodFacts DEF Reconnects, DriverFacts

\* Every step preserves the facts about the connection.
LEMMA NextDriverFacts ==
  ASSUME DriverFacts, [Next]_vars
  PROVE  DriverFacts'
  <1>1. CASE Main
    <2> DEFINE e == start(NewMesosSchedulerDriver(zkId))
    <2>1. /\ driver' = e /\ process' = "up" /\ given' = 0
          /\ UNCHANGED <<leader, nextId, acked, zkId>>
      BY <1>1 DEF Main
    <2>2. Good(e)
      BY StartedDriver DEF DriverFacts, Good
    <2> HIDE DEF e
    <2>3. QED  BY <2>1, <2>2 DEF DriverFacts, Good
  <1>2. CASE process = "up" /\ MainEnds
    BY <1>2, ExitFacts DEF MainEnds
  <1>3. CASE Up(Crash)
    BY <1>3, ExitFacts DEF Up, Crash
  <1>4. CASE Up(Callbacks)
    BY <1>4, CallbackFacts DEF Up
  <1>5. CASE \/ InDriver(SelfHandlers) \/ InDriver(Authentication)
             \/ InDriver(LaunchTasks \/ pushLostTask) \/ InDriver(QueueDone)
             \/ InDriver(notifyMasterChanged \/ NotifyWithoutInfo \/ WatchEnds)
             \/ InDriver(SendFails)
    <2>1. process = "up" /\ UNCHANGED <<process, zkId>>
      BY <1>5 DEF InDriver, Up
    <2>2. Reconnects
      BY <1>5, <2>1, UpGood, SelfHandlersReconnect, OthersReconnect
      DEF InDriver, Up, Good
    <2>3. QED  BY <2>1, <2>2, ReconnectsFacts
  <1>6. CASE InDriver(registerOnce)
    <2>1. process = "up" /\ registerOnce /\ UNCHANGED <<process, zkId>>
      BY <1>6 DEF InDriver, Up
    <2>2. leader \in Pids /\ nextId \in Nat /\ given \in Nat /\ Good(driver)
      BY <2>1, UpGood DEF DriverFacts
    <2>3. /\ Good(driver') /\ UNCHANGED <<leader, acked>>
          /\ \/ UNCHANGED <<nextId, given>>
             \/ /\ leader # NoMaster
                /\ \/ nextId' = nextId + 1 /\ given' = nextId
                   \/ given' = driver.id /\ UNCHANGED nextId
      BY <2>1, <2>2, RegisterGood
    <2>4. driver.id \in Nat
      BY <2>2 DEF Good, Connecting
    <2>5. QED  BY <2>1, <2>3, <2>4 DEF DriverFacts, Good
  <1>7. CASE InDriver(Handlers)
    <2>1. process = "up" /\ Handlers /\ UNCHANGED <<process, zkId>>
      BY <1>7 DEF InDriver, Up
    <2>2. Good(driver) /\ acked \in Nat
      BY <2>1, UpGood DEF DriverFacts
    <2>3. /\ Good(driver') /\ UNCHANGED masterVars
          /\ acked' \in {acked, Head(driver.inbox).n}
          /\ driver.inbox # <<>>
      BY <2>1, <2>2, HandlersGood
    <2>4. Head(driver.inbox).n \in Nat
      BY <2>2, <2>3, TakesMessage DEF Messages
    <2>5. QED  BY <2>1, <2>2, <2>3, <2>4, GoodFacts DEF DriverFacts
  <1>8. CASE InDriver(Abort)
    <2>1. /\ process = "up" /\ driver' = abortDriver("Noop", driver)
          /\ UNCHANGED <<process, zkId, masterVars, acked>>
      BY <1>8 DEF InDriver, Up, Abort
    <2>2. Good(driver')
      BY <2>1, UpGood, AbortDriver DEF Good
    <2>3. QED  BY <2>1, <2>2, GoodFacts DEF DriverFacts
  <1>9. CASE InDriver(HandsOver)
    <2>1. process = "up" /\ HandsOver /\ UNCHANGED <<process, zkId>>
      BY <1>9 DEF InDriver, Up
    <2>2. Good(driver') /\ UNCHANGED <<masterVars, acked>>
      BY <2>1, UpGood, HandsOverGood
    <2>3. QED  BY <2>1, <2>2, GoodFacts DEF DriverFacts
  <1>10. CASE InDriver(LastAttempt)
    <2>1. process = "up" /\ LastAttempt /\ UNCHANGED <<process, zkId>>
      BY <1>10 DEF InDriver, Up
    <2>2. Good(driver') /\ UNCHANGED <<masterVars, acked>>
      BY <2>1, UpGood, LastAttemptGood
    <2>3. QED  BY <2>1, <2>2, GoodFacts DEF DriverFacts
  <1>11. CASE InDriver(MasterForwards)
    <2>1. /\ process = "up" /\ MasterForwards /\ given # 0
          /\ UNCHANGED <<process, zkId>>
      BY <1>11 DEF InDriver, Up, MasterForwards
    <2>2. leader \in Masters /\ acked \in Nat /\ Good(driver)
      BY <2>1, UpGood DEF DriverFacts, Pids
    <2>3. Good(driver') /\ UNCHANGED <<masterVars, acked>>
      BY <2>1, <2>2, ForwardsGood
    <2>4. QED  BY <2>1, <2>3, GoodFacts DEF DriverFacts
  <1>12. CASE LeaderChanges /\ UNCHANGED <<process, zkId>>
    BY <1>12 DEF LeaderChanges, DriverFacts
  <1>13. CASE \E id \in Ids : FrameworkCompletes(id)
    BY <1>13 DEF FrameworkCompletes, DriverFacts
  <1>14. CASE UNCHANGED vars
    BY <1>14 DEF vars, driverVars, masterVars, DriverFacts
  <1>15. QED
    BY <1>1, <1>2, <1>3, <1>4, <1>5, <1>6, <1>7, <1>8, <1>9, <1>10, <1>11,
       <1>12, <1>13, <1>14 DEF Next, InDriver, Up

\* They hold when nothing has been started yet.
LEMMA InitDriverFacts == Init => DriverFacts
  <1> SUFFICES ASSUME Init PROVE DriverFacts
    OBVIOUS
  <1>1. leader \in Masters
    <2>1. PICK m \in Masters : TRUE
      BY MasterAssumption
    <2>2. (CHOOSE x \in Masters : TRUE) \in Masters
      BY <2>1, Zenon
    <2>3. QED  BY <2>2, Zenon DEF Init, DriverInit
  <1>2. /\ given = 0 /\ nextId = 1 /\ acked = 0 /\ zkId = 0
        /\ process = "down" /\ driver = NewMesosSchedulerDriver(0)
    BY Zenon DEF Init, DriverInit
  <1>3. QED  BY <1>1, <1>2 DEF DriverFacts, Pids

\* The inductive invariant of the driver: its status, what it knows of its
\* master, and that an authenticated driver which is not connected has a
\* goroutine in doReliableRegistration.  The handlers keep it although they
\* give up eventLock while they hand a callback over.
THEOREM Connection == Spec => []DriverFacts
  <1>1. QED  BY InitDriverFacts, NextDriverFacts, PTL DEF Spec

\* A driver that is connected has a master and runs.
THEOREM ConnectionConsistent == Spec => []ConnectionFacts
  <1>1. DriverFacts => ConnectionFacts
    BY NewDriver DEF DriverFacts, Connecting, ConnectionFacts
  <1>2. QED  BY <1>1, Connection, PTL

\* An authenticated driver that is not connected has a master, and a goroutine
\* that asks it for a registration.
THEOREM RegistrationAlwaysPursued == Spec => []RegistrationPursued
  <1>1. DriverFacts => RegistrationPursued
    BY DEF DriverFacts, Connecting, RegistrationPursued, Running, Alive
  <1>2. QED  BY <1>1, Connection, PTL

-----------------------------------------------------------------------------
(* The messages of an inbox, for the proofs that build on these.           *)

\* The elements of a sequence with one more at its end.
LEMMA AppendElement ==
  ASSUME NEW S, NEW s \in Seq(S), NEW x \in S, NEW i \in DOMAIN Append(s, x)
  PROVE  \/ i \in DOMAIN s /\ Append(s, x)[i] = s[i]
         \/ i = Len(s) + 1 /\ Append(s, x)[i] = x
  OBVIOUS

\* The elements of a sequence without its first.
LEMMA TailElement ==
  ASSUME NEW S, NEW s \in Seq(S), s # <<>>
  PROVE  /\ 1 \in DOMAIN s /\ Head(s) = s[1]
         /\ \A i \in DOMAIN Tail(s) :
              i \in Nat /\ i + 1 \in DOMAIN s /\ 1 < i + 1
                /\ Tail(s)[i] = s[i + 1]
  OBVIOUS
=============================================================================
