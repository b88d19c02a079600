----------------------- MODULE FrameworkMessageProofs -----------------------
(***************************************************************************)
(* Proofs about what travels between the masters and the drivers: the      *)
(* framework id, who may have which and when the stored one is removed;    *)
(* and the status updates with their acknowledgements.                     *)
(***************************************************************************)
EXTENDS FrameworkProofs

-----------------------------------------------------------------------------
(* The framework id.                                                       *)

\* What IdFacts says of a driver.
IdsGood(d) ==
  /\ d.id \in completed => d.id = zkId
  /\ \A i \in DOMAIN d.inbox :
       d.inbox[i].kind = "Registered" => d.inbox[i].n \notin completed
  /\ ErrorPending(d) => zkId \in completed

\* The facts about the ids, for a process that is up.
LEMMA IdFactsDef ==
  IdFacts <=> /\ completed \subseteq 1 .. nextId - 1
              /\ process = "up" => given \notin completed /\ IdsGood(driver)
  BY DEF IdFacts, IdsGood

\* A step that brings no message, and no error.
LEMMA IdsKept ==
  ASSUME IdsGood(driver), UNCHANGED <<completed, zkId>>,
         driver'.id = driver.id, driver'.inbox = driver.inbox,
         driver'.waiting["Error"] # 0 => driver.waiting["Error"] # 0,
         driver'.current.f = "Error" => ErrorPending(driver),
         driver'.last.f = "Error" => ErrorPending(driver)
  PROVE  IdsGood(driver)'
  BY DEF IdsGood, ErrorPending

\* A step that brings a message.
LEMMA IdsArrive ==
  ASSUME Good(driver), IdsGood(driver), UNCHANGED <<completed, zkId>>,
         driver'.id = driver.id, NEW msg \in Messages,
         driver'.inbox = Append(driver.inbox, msg),
         msg.kind = "Registered" => msg.n \notin completed,
         msg.kind = "Error" => zkId \in completed,
         driver'.waiting["Error"] = driver.waiting["Error"],
         driver'.current = driver.current, driver'.last = driver.last
  PROVE  IdsGood(driver)'
  <1>1. driver.inbox \in Seq(Messages)
    BY DEF Good, Connecting
  <1>2. ASSUME NEW i \in DOMAIN driver'.inbox
        PROVE  \/ i \in DOMAIN driver.inbox /\ driver'.inbox[i] = driver.inbox[i]
               \/ driver'.inbox[i] = msg
    BY <1>1, <1>2, AppendElement
  <1>3. ErrorPending(driver)' => zkId \in completed
    BY <1>2 DEF ErrorPending, IdsGood
  <1>4. QED  BY <1>2, <1>3 DEF IdsGood

\* The decode loop takes a message.
LEMMA IdsHandled ==
  ASSUME DriverFacts, process = "up", IdsGood(driver), Handlers,
         UNCHANGED zkId
  PROVE  IdsGood(driver)'
  <1>1. Good(driver) /\ acked \in Nat
    BY UpGood DEF DriverFacts
  <1>2. /\ UNCHANGED masterVars
        /\ driver.inbox # <<>> /\ driver'.inbox = Tail(driver.inbox)
        /\ driver'.current = driver.current /\ driver'.last = driver.last
        /\ driver'.id = driver.id \/
             /\ Head(driver.inbox).kind = "Registered"
             /\ driver'.id = Head(driver.inbox).n
        /\ driver'.waiting["Error"] = driver.waiting["Error"] \/
             Head(driver.inbox).kind = "Error"
    BY <1>1, HandlersGood
  <1>3. /\ 1 \in DOMAIN driver.inbox /\ Head(driver.inbox) = driver.inbox[1]
        /\ \A i \in DOMAIN driver'.inbox :
             /\ i + 1 \in DOMAIN driver.inbox
             /\ driver'.inbox[i] = driver.inbox[i + 1]
    BY <1>1, <1>2, TailElement DEF Good, Connecting
  <1>4. UNCHANGED completed
    BY <1>2 DEF masterVars
  <1>5. driver'.id \in completed => driver'.id = zkId
    BY <1>2, <1>3 DEF IdsGood
  <1>6. ErrorPending(driver)' => zkId \in completed
    BY <1>2, <1>3 DEF ErrorPending, IdsGood
  <1>7. QED  BY <1>3, <1>4, <1>5, <1>6 DEF IdsGood

\* Registered writes an id that has not been removed, or ends the process.
LEMMA IdsRegistered ==
  ASSUME DriverFacts, process = "up", IdFacts, InDriver(registerOnce)
  PROVE  IdFacts'
  <1>1. registerOnce /\ UNCHANGED <<process, zkId>>
    BY DEF InDriver, Up
  <1>2. /\ leader \in Pids /\ nextId \in Nat /\ given \in Nat /\ Good(driver)
        /\ IdsGood(driver) /\ given \notin completed
        /\ completed \subseteq 1 .. nextId - 1
    BY UpGood, IdFactsDef DEF DriverFacts
  <1>3. /\ UNCHANGED completed
        /\ driver'.id = driver.id
        /\ driver'.current = driver.current /\ driver'.last = driver.last
        /\ driver'.waiting["Error"] = driver.waiting["Error"]
        /\ \/ driver'.inbox = driver.inbox
           \/ \E msg \in Messages :
                /\ driver'.inbox = Append(driver.inbox, msg)
                /\ msg.kind = "Registered" => msg.n = given'
                /\ msg.kind = "Error" => driver.id \in completed
        /\ \/ UNCHANGED <<nextId, given>>
           \/ nextId' = nextId + 1 /\ given' = nextId
           \/ /\ given' = driver.id /\ driver.id \notin completed
              /\ UNCHANGED nextId
    BY <1>1, <1>2, RegisterGood
  <1>4. given' \notin completed /\ completed' \subseteq 1 .. nextId' - 1
    BY <1>2, <1>3
  <1>5. CASE driver'.inbox = driver.inbox
    <2>1. IdsGood(driver)'
      BY <1>1, <1>2, <1>3, <1>5, IdsKept DEF ErrorPending
    <2>2. QED  BY <1>3, <1>4, <2>1, IdFactsDef DEF IdFacts, IdsGood
  <1>6. ASSUME NEW msg \in Messages,
               driver'.inbox = Append(driver.inbox, msg),
               msg.kind = "Registered" => msg.n = given',
               msg.kind = "Error" => driver.id \in completed
        PROVE  IdsGood(driver)'
    <2>1. msg.kind = "Error" => zkId \in completed
      BY <1>2, <1>6 DEF IdsGood
    <2>2. msg.kind = "Registered" => msg.n \notin completed
      BY <1>4, <1>6
    <2>3. QED  BY <1>1, <1>2, <1>3, <1>6, <2>1, <2>2, IdsArrive
  <1>7. QED  BY <1>3, <1>4, <1>5, <1>6 DEF IdFacts, IdsGood

\* A callback returns; Registered writes an id only where there was none.
LEMMA IdsReturned ==
  ASSUME DriverFacts, process = "up", IdFacts, Callbacks
  PROVE  IdFacts'
  <1>1. Good(driver) /\ IdsGood(driver) /\ nextId \in Nat
    BY UpGood, IdFactsDef DEF DriverFacts
  <1>2. CASE Exit
    BY <1>2 DEF Exit, masterVars, IdFacts
  <1>3. CASE /\ DriverBecomes([driver EXCEPT !.current = NoCall])
             /\ zkId' = zkId \/ zkId = 0
    <2>1. /\ driver'.current = NoCall /\ driver'.inbox = driver.inbox
          /\ driver'.id = driver.id /\ driver'.last = driver.last
          /\ driver'.waiting["Error"] = driver.waiting["Error"]
      BY <1>1, <1>3, CallEnds DEF DriverBecomes
    <2>2. UNCHANGED <<completed, nextId, given>>
      BY <1>3 DEF DriverBecomes, masterVars
    <2>3. NoCall.f # "Error"
      BY DEF NoCall, Call
    <2>4. zkId \in completed => zkId' = zkId
      BY <1>1, <1>3 DEF IdFacts
    <2>5. ErrorPending(driver)' => zkId' \in completed'
      BY <1>1, <2>1, <2>2, <2>3, <2>4 DEF ErrorPending, IdsGood
    <2>6. IdsGood(driver)'
      BY <1>1, <2>1, <2>2, <2>4, <2>5 DEF IdsGood
    <2>7. QED  BY <2>2, <2>6 DEF IdFacts, IdsGood
  <1>4. QED
    BY <1>2, <1>3 DEF Callbacks, Registered, Error, CallbackReturns

\* Every step preserves the facts about the ids.
LEMMA NextIdFacts ==
  ASSUME DriverFacts, IdFacts, [Next]_vars
  PROVE  IdFacts'
  <1>1. CASE Main
    <2> DEFINE e == start(NewMesosSchedulerDriver(zkId))
    <2>1. driver' = e /\ given' = 0 /\ UNCHANGED <<nextId, completed, zkId>>
      BY <1>1 DEF Main
    <2>2. /\ e.inbox = <<>> /\ e.id = zkId /\ e.current = NoCall
          /\ e.last = NoCall /\ e.waiting["Error"] = 0
      BY StartedDriver DEF DriverFacts
    <2> HIDE DEF e
    <2>3. NoCall.f # "Error"
      BY DEF NoCall, Call
    <2>4. given' \notin completed
      BY <2>1 DEF IdFacts, DriverFacts
    <2>5. QED  BY <2>1, <2>2, <2>3, <2>4 DEF IdFacts, ErrorPending
  <1>2. CASE (process = "up" /\ MainEnds) \/ Up(Crash)
    BY <1>2 DEF Up, MainEnds, Crash, Exit, masterVars, IdFacts
  <1>3. CASE Up(Callbacks)
    BY <1>3, IdsReturned DEF Up
  <1>4. CASE \/ InDriver(SelfHandlers) \/ InDriver(Authentication)
             \/ InDriver(LaunchTasks \/ pushLostTask) \/ InDriver(QueueDone)
             \/ InDriver(notifyMasterChanged \/ NotifyWithoutInfo \/ WatchEnds)
             \/ InDriver(SendFails)
    <2>1. process = "up" /\ UNCHANGED <<process, zkId>>
      BY <1>4 DEF InDriver, Up
    <2>2. Reconnects
      BY <1>4, <2>1, UpGood, SelfHandlersReconnect, OthersReconnect
      DEF InDriver, Up, Good
    <2>3. IdsGood(driver)'
      BY <2>1, <2>2, IdsKept, IdFactsDef
      DEF Reconnects, Rest, masterVars, ErrorPending
    <2>4. QED  BY <2>1, <2>2, <2>3 DEF Reconnects, masterVars, IdFacts, IdsGood
  <1>5. CASE InDriver(registerOnce)
    BY <1>5, IdsRegistered DEF InDriver, Up
  <1>6. CASE InDriver(Handlers)
    <2>1. process = "up" /\ Handlers /\ UNCHANGED <<process, zkId>>
      BY <1>6 DEF InDriver, Up
    <2>2. UNCHANGED masterVars
      BY <2>1, UpGood, HandlersGood DEF DriverFacts
    <2>3. IdsGood(driver)'
      BY <2>1, IdsHandled, IdFactsDef
    <2>4. QED  BY <2>1, <2>2, <2>3 DEF masterVars, IdFacts, IdsGood
  <1>7. CASE InDriver(Abort)
    <2>1. /\ process = "up" /\ driver' = abortDriver("Noop", driver)
          /\ UNCHANGED <<process, zkId, masterVars>>
      BY <1>7 DEF InDriver, Up, Abort
    <2>2. /\ driver'.inbox = driver.inbox /\ driver'.id = driver.id
          /\ driver'.current = driver.current /\ driver'.last = driver.last
          /\ driver'.waiting["Error"] = driver.waiting["Error"]
      BY <2>1, UpGood, AbortDriver DEF Good
    <2>3. IdsGood(driver)'
      BY <2>1, <2>2, IdsKept, IdFactsDef DEF masterVars, ErrorPending
    <2>4. QED  BY <2>1, <2>3 DEF masterVars, IdFacts, IdsGood
  <1>8. CASE InDriver(HandsOver)
    <2>1. process = "up" /\ HandsOver /\ UNCHANGED <<process, zkId>>
      BY <1>8 DEF InDriver, Up
    <2>2. /\ UNCHANGED masterVars /\ driver'.inbox = driver.inbox
          /\ driver'.id = driver.id
          /\ \E call :
               /\ driver'.current \in {driver.current, call}
               /\ driver'.last \in {NoCall, call}
               /\ \/ /\ call = driver.decode
                     /\ driver'.waiting["Error"] = driver.waiting["Error"]
                  \/ call.f = "Error" \/ driver'.waiting["Error"] # 0
                       => driver.waiting["Error"] # 0
      BY <2>1, UpGood, HandsOverGood
    <2>3. NoCall.f # "Error" /\ driver.decode.f # "Error"
      BY <2>1, UpGood DEF NoCall, Call, Good, CallsTyped
    <2>4. /\ driver'.waiting["Error"] # 0 => driver.waiting["Error"] # 0
          /\ driver'.current.f = "Error" => ErrorPending(driver)
          /\ driver'.last.f = "Error" => ErrorPending(driver)
      BY <2>2, <2>3 DEF ErrorPending
    <2>5. IdsGood(driver)'
      BY <2>1, <2>2, <2>4, IdsKept, IdFactsDef DEF masterVars
    <2>6. QED  BY <2>1, <2>2, <2>5 DEF masterVars, IdFacts, IdsGood
  <1>9. CASE InDriver(LastAttempt)
    <2>1. process = "up" /\ LastAttempt /\ UNCHANGED <<process, zkId>>
      BY <1>9 DEF InDriver, Up
    <2>2. /\ UNCHANGED masterVars /\ driver'.inbox = driver.inbox
          /\ driver'.id = driver.id /\ driver'.last = NoCall
          /\ driver'.waiting["Error"] = driver.waiting["Error"]
          /\ driver'.current \in {driver.last, driver.current}
      BY <2>1, UpGood, LastAttemptGood
    <2>3. NoCall.f # "Error"
      BY DEF NoCall, Call
    <2>4. IdsGood(driver)'
      BY <2>1, <2>2, <2>3, IdsKept, IdFactsDef DEF masterVars, ErrorPending
    <2>5. QED  BY <2>1, <2>2, <2>4 DEF masterVars, IdFacts, IdsGood
  <1>10. CASE InDriver(MasterForwards)
    <2>1. /\ process = "up" /\ MasterForwards /\ given # 0
          /\ UNCHANGED <<process, zkId>>
      BY <1>10 DEF InDriver, Up, MasterForwards
    <2>2. leader \in Masters /\ acked \in Nat /\ Good(driver)
      BY <2>1, UpGood DEF DriverFacts, Pids
    <2>3. /\ UNCHANGED masterVars /\ driver'.id = driver.id
          /\ driver'.current = driver.current /\ driver'.last = driver.last
          /\ driver'.waiting["Error"] = driver.waiting["Error"]
          /\ \/ driver'.inbox = driver.inbox
             \/ \E msg \in Messages :
                  /\ driver'.inbox = Append(driver.inbox, msg)
                  /\ msg.kind = "Update"
      BY <2>1, <2>2, ForwardsGood
    <2>4. IdsGood(driver) /\ UNCHANGED <<completed, zkId>>
      BY <2>1, <2>3, IdFactsDef DEF masterVars
    <2>5. CASE driver'.inbox = driver.inbox
      <3>1. IdsGood(driver)'
        BY <2>3, <2>4, <2>5, IdsKept DEF ErrorPending
      <3>2. QED  BY <2>1, <2>3, <3>1 DEF masterVars, IdFacts, IdsGood
    <2>6. ASSUME NEW msg \in Messages, msg.kind = "Update",
                 driver'.inbox = Append(driver.inbox, msg)
          PROVE  IdsGood(driver)'
      BY <2>2, <2>3, <2>4, <2>6, IdsArrive
    <2>7. QED  BY <2>1, <2>3, <2>5, <2>6 DEF masterVars, IdFacts, IdsGood
  <1>11. CASE LeaderChanges /\ UNCHANGED <<process, zkId>>
    <2>1. /\ given' = 0 /\ given' \notin completed
          /\ UNCHANGED <<driver, nextId, completed, process, zkId>>
      BY <1>11 DEF LeaderChanges, IdFacts, DriverFacts
    <2>2. QED  BY <2>1 DEF IdFacts, ErrorPending
  <1>12. CASE \E id \in Ids : FrameworkCompletes(id)
    BY <1>12 DEF FrameworkCompletes, IdFacts
  <1>13. CASE UNCHANGED vars
    BY <1>13 DEF vars, driverVars, masterVars, IdFacts, ErrorPending
  <1>14. QED
    BY <1>1, <1>2, <1>3, <1>4, <1>5, <1>6, <1>7, <1>8, <1>9, <1>10, <1>11,
       <1>12, <1>13 DEF Next, InDriver, Up

\* There are no ids at first.
LEMMA InitIdFacts == Init => IdFacts
  <1> SUFFICES ASSUME Init PROVE IdFacts
    OBVIOUS
  <1>1. completed = {} /\ process = "down"
    BY Zenon DEF Init, DriverInit
  <1>2. QED  BY <1>1 DEF IdFacts

\* The inductive invariant of the framework id: no id that this process could
\* use was removed by the masters, but the one it has read from ZooKeeper, and
\* only for that one do they send the error at which Error clears ZooKeeper.
THEOREM Identity == Spec => []IdFacts
  <1>1. DriverFacts /\ IdFacts /\ [Next]_vars => IdFacts'
    BY NextIdFacts
  <1>2. QED  BY <1>1, InitIdFacts, Connection, PTL DEF Spec

\* The id in ZooKeeper is never replaced, and removed only when the masters
\* have removed the framework.
THEOREM FrameworkIdKept == Spec => PersistedIdKept
  <1> DEFINE kept == zkId # 0 =>
                       zkId' = zkId \/ (zkId' = 0 /\ zkId \in completed)
  <1>1. ASSUME IdFacts, Next
        PROVE  kept
    <2>1. CASE Up(Callbacks)
      <3>1. process = "up" /\ Callbacks
        BY <2>1 DEF Up
      <3>2. CASE Registered
        BY <3>2 DEF Registered
      <3>3. CASE Error
        BY <1>1, <3>1, <3>3 DEF Error, IdFacts, ErrorPending
      <3>4. CASE CallbackReturns
        BY <3>4 DEF CallbackReturns
      <3>5. QED  BY <3>1, <3>2, <3>3, <3>4 DEF Callbacks
    <2>2. CASE ~Up(Callbacks)
      BY <1>1, <2>2
      DEF Next, Main, MainEnds, Crash, Up, InDriver, FrameworkCompletes
    <2>3. QED  BY <2>1, <2>2
  <1>2. ASSUME IdFacts, [Next]_vars
        PROVE  [kept]_vars
    BY <1>1, <1>2
  <1>3. QED  BY <1>2, Identity, PTL DEF Spec, PersistedIdKept

-----------------------------------------------------------------------------
(* Status updates.                                                         *)

\* A step that brings no update.
LEMMA OrderKept ==
  ASSUME InOrder(driver), UNCHANGED <<acked, delivered>>,
         driver'.inbox = driver.inbox, driver'.decode = driver.decode,
         driver'.stopCh = driver.stopCh,
         driver'.current = driver.current \/ driver'.current.f # "Update",
         driver'.last = driver.last
  PROVE  InOrder(driver)'
  BY DEF InOrder, IsUpdate

\* A step that brings another message, or the update after the acknowledged
\* one.
LEMMA OrderArrives ==
  ASSUME Good(driver), acked \in Nat, delivered \in Nat, InOrder(driver),
         UNCHANGED <<acked, delivered>>, NEW msg \in Messages,
         driver'.inbox = Append(driver.inbox, msg),
         msg.kind = "Update" => msg.n = acked + 1,
         driver'.decode = driver.decode, driver'.stopCh = driver.stopCh,
         driver'.current = driver.current, driver'.last = driver.last
  PROVE  InOrder(driver)'
  <1>1. driver.inbox \in Seq(Messages)
    BY DEF Good, Connecting
  <1>2. ASSUME NEW i \in DOMAIN driver'.inbox
        PROVE  \/ i \in DOMAIN driver.inbox /\ driver'.inbox[i] = driver.inbox[i]
               \/ i = Len(driver.inbox) + 1 /\ driver'.inbox[i] = msg
    BY <1>1, <1>2, AppendElement
  <1>3. ASSUME NEW i \in DOMAIN driver.inbox
        PROVE  i \in Nat /\ i <= Len(driver.inbox)
    BY <1>1, <1>3
  <1>4. Len(driver.inbox) \in Nat
    BY <1>1
  <1>5. driver.decode.f = "Update" => driver.decode.n <= acked + 1
    BY DEF InOrder
  <1>6. ~driver.stopCh => delivered <= acked + 1
    BY DEF InOrder
  <1>7. ASSUME NEW i \in DOMAIN driver'.inbox, driver'.inbox[i].kind = "Update",
               ~driver.stopCh
        PROVE  /\ driver'.inbox[i].n \in {acked, acked + 1}
               /\ delivered <= driver'.inbox[i].n
               /\ driver.decode.f = "Update" =>
                    driver.decode.n <= driver'.inbox[i].n
    BY <1>2, <1>5, <1>6, <1>7 DEF InOrder, IsUpdate
  <1>8. ASSUME NEW i \in DOMAIN driver'.inbox, NEW j \in DOMAIN driver'.inbox,
               driver'.inbox[i].kind = "Update",
               driver'.inbox[j].kind = "Update", i < j, ~driver.stopCh
        PROVE  driver'.inbox[i].n <= driver'.inbox[j].n
    <2>1. CASE j = Len(driver.inbox) + 1 /\ driver'.inbox[j] = msg
      BY <1>7, <1>8, <2>1
    <2>2. CASE j \in DOMAIN driver.inbox /\ driver'.inbox[j] = driver.inbox[j]
      <3>1. i # Len(driver.inbox) + 1
        BY <1>3, <1>4, <1>8, <2>2
      <3>2. i \in DOMAIN driver.inbox /\ driver'.inbox[i] = driver.inbox[i]
        BY <1>2, <3>1
      <3>3. QED  BY <1>8, <2>2, <3>2 DEF InOrder, IsUpdate
    <2>3. QED  BY <1>2, <2>1, <2>2
  <1>9. QED  BY <1>7, <1>8 DEF InOrder, IsUpdate

\* The decode loop takes a message.
LEMMA OrderHandled ==
  ASSUME Good(driver), acked \in Nat, delivered \in Nat, InOrder(driver),
         Handlers
  PROVE  InOrder(driver)'
  <1> DEFINE msg == Head(driver.inbox)
  <1>1. /\ UNCHANGED delivered
        /\ driver.inbox # <<>> /\ driver.decode = NoCall /\ ~driver.stopCh
        /\ driver'.inbox = Tail(driver.inbox)
        /\ driver'.current = driver.current /\ driver'.last = driver.last
        /\ \/ /\ driver'.decode.f # "Update"
              /\ driver'.stopCh = driver.stopCh /\ UNCHANGED acked
           \/ /\ msg.kind = "Update"
              /\ driver'.decode = Call("Update", msg.n)
              /\ driver'.stopCh = driver.stopCh
              /\ acked' \in {acked, IF msg.n > acked THEN msg.n ELSE acked}
           \/ /\ driver'.decode = NoCall /\ driver'.stopCh
              /\ UNCHANGED acked
    BY HandlersGood
  <1>2. /\ 1 \in DOMAIN driver.inbox /\ msg = driver.inbox[1]
        /\ \A i \in DOMAIN driver'.inbox :
             /\ i \in Nat /\ i + 1 \in DOMAIN driver.inbox /\ 1 < i + 1
             /\ driver'.inbox[i] = driver.inbox[i + 1]
    BY <1>1, TailElement DEF Good, Connecting
  <1>3. NoCall.f # "Update"
    BY DEF NoCall, Call
  <1>4. /\ delivered \in {acked, acked + 1} /\ driver.last.f # "Update"
        /\ driver.current.f = "Update" => driver.current.n = delivered
    BY <1>1, <1>3 DEF InOrder
  <1> HIDE DEF msg
  <1>5. ASSUME NEW i \in DOMAIN driver'.inbox, driver'.inbox[i].kind = "Update"
        PROVE  /\ driver'.inbox[i].n \in {acked, acked + 1}
               /\ delivered <= driver'.inbox[i].n
               /\ msg.kind = "Update" => msg.n <= driver'.inbox[i].n
    BY <1>1, <1>2, <1>5 DEF InOrder, IsUpdate
  <1>6. ASSUME NEW i \in DOMAIN driver'.inbox, NEW j \in DOMAIN driver'.inbox,
               driver'.inbox[i].kind = "Update",
               driver'.inbox[j].kind = "Update", i < j
        PROVE  driver'.inbox[i].n <= driver'.inbox[j].n
    <2>1. i + 1 < j + 1
      BY <1>2, <1>6
    <2>2. QED  BY <1>1, <1>2, <1>6, <2>1 DEF InOrder, IsUpdate
  <1>7. CASE driver'.decode.f # "Update" /\ UNCHANGED acked
    BY <1>1, <1>4, <1>5, <1>6, <1>7 DEF InOrder, IsUpdate
  <1>8. CASE /\ msg.kind = "Update"
             /\ driver'.decode = Call("Update", msg.n)
             /\ acked' \in {acked, IF msg.n > acked THEN msg.n ELSE acked}
    <2>1. msg.n \in {acked, acked + 1} /\ delivered <= msg.n
      BY <1>1, <1>2, <1>8 DEF InOrder, IsUpdate
    <2>2. /\ driver'.decode.f = "Update" /\ driver'.decode.n = msg.n
      BY <1>8 DEF Call
    <2>3. msg.n \in {acked', acked' + 1} /\ msg.n \in {delivered, delivered + 1}
      BY <1>4, <1>8, <2>1
    <2>4. ASSUME NEW i \in DOMAIN driver'.inbox,
                 driver'.inbox[i].kind = "Update"
          PROVE  driver'.inbox[i].n \in {acked', acked' + 1}
      BY <1>5, <1>8, <2>1, <2>4
    <2>5. QED
      BY <1>1, <1>4, <1>5, <1>6, <1>8, <2>2, <2>3, <2>4 DEF InOrder, IsUpdate
  <1>9. QED  BY <1>1, <1>3, <1>7, <1>8

\* A callback is handed over: if it is an update, it is the next one or the
\* last one once more.
LEMMA OrderHandedOver ==
  ASSUME Good(driver), acked \in Nat, delivered \in Nat, InOrder(driver),
         HandsOver
  PROVE  /\ InOrder(driver)' /\ delivered' \in Nat
         /\ driver'.current # driver.current /\ driver'.current.f = "Update" =>
              driver'.current.n \in {delivered, delivered + 1}
  <1>1. PICK call :
          /\ driver'.current \in {driver.current, call}
          /\ driver'.last \in {NoCall, call}
          /\ ~driver.stopCh => driver'.current = call /\ driver'.last = NoCall
          /\ \/ call = driver.decode /\ driver'.decode = NoCall
             \/ call.f # "Update" /\ driver'.decode = driver.decode
    BY HandsOverGood
  <1>2. /\ UNCHANGED acked
        /\ driver'.inbox = driver.inbox /\ driver'.stopCh = driver.stopCh
        /\ driver.last = NoCall
        /\ delivered' = IF driver'.current.f = "Update"
                          THEN driver'.current.n ELSE delivered
    BY HandsOverGood
  <1>3. NoCall.f # "Update"
    BY DEF NoCall, Call
  <1>4. \/ delivered' = delivered
        \/ /\ call = driver.decode /\ driver'.decode = NoCall
           /\ driver.decode.f = "Update" /\ driver'.current = driver.decode
           /\ delivered' = driver.decode.n
    BY <1>1, <1>2 DEF InOrder
  <1>5. delivered' \in Nat /\ delivered' \in {delivered, delivered + 1}
    BY <1>4 DEF InOrder
  <1>6. driver'.current.f = "Update" => driver'.current.n = delivered'
    BY <1>2
  <1>7. driver'.decode.f = "Update" =>
          driver'.decode = driver.decode /\ delivered' = delivered
    BY <1>1, <1>3, <1>4
  <1>8. driver'.last.f = "Update" =>
          /\ driver'.last.n \in {delivered', delivered' + 1}
          /\ driver'.decode.f # "Update" /\ driver'.stopCh
    <2> SUFFICES ASSUME driver'.last.f = "Update"
                 PROVE  /\ driver'.last.n \in {delivered', delivered' + 1}
                        /\ driver'.decode.f # "Update" /\ driver'.stopCh
      OBVIOUS
    <2>1. /\ driver'.last = driver.decode /\ driver'.decode = NoCall
          /\ driver.stopCh
      BY <1>1, <1>3
    <2>2. driver.decode.n \in {delivered, delivered + 1}
      BY <2>1 DEF InOrder
    <2>3. QED  BY <1>2, <1>3, <1>4, <2>1, <2>2
  <1>9. driver'.decode.f # "Update" /\ ~driver'.stopCh =>
          delivered' \in {acked, acked + 1}
    <2> SUFFICES ASSUME driver'.decode.f # "Update", ~driver.stopCh
                 PROVE  delivered' \in {acked, acked + 1}
      BY <1>2
    <2>1. CASE driver.decode.f = "Update"
      <3>1. driver'.current = driver.decode
        BY <1>1, <2>1
      <3>2. QED  BY <1>2, <2>1, <3>1 DEF InOrder
    <2>2. CASE driver.decode.f # "Update"
      BY <1>4, <2>2 DEF InOrder
    <2>3. QED  BY <2>1, <2>2
  <1>10. ASSUME NEW i \in DOMAIN driver.inbox, IsUpdate(driver, i),
                ~driver.stopCh
         PROVE  delivered' <= driver.inbox[i].n
    BY <1>4, <1>10 DEF InOrder
  <1>11. driver'.decode.f = "Update" =>
           /\ driver'.decode.n \in {acked, acked + 1}
           /\ driver'.decode.n \in {delivered', delivered' + 1}
    BY <1>7 DEF InOrder
  <1>12. InOrder(driver)'
    BY <1>2, <1>6, <1>7, <1>8, <1>9, <1>10, <1>11 DEF InOrder, IsUpdate
  <1>13. QED  BY <1>2, <1>5, <1>6, <1>12

\* The last attempt hands over the update that is next, or drops it.
LEMMA OrderLastAttempt ==
  ASSUME Good(driver), acked \in Nat, delivered \in Nat, InOrder(driver),
         LastAttempt
  PROVE  /\ InOrder(driver)' /\ delivered' \in Nat
         /\ driver'.current # driver.current /\ driver'.current.f = "Update" =>
              driver'.current.n \in {delivered, delivered + 1}
  <1>1. /\ UNCHANGED acked
        /\ driver'.inbox = driver.inbox /\ driver'.stopCh = driver.stopCh
        /\ driver'.decode = driver.decode /\ driver'.last = NoCall
        /\ \/ /\ driver'.current = driver.last
              /\ delivered' = IF driver.last.f = "Update" THEN driver.last.n
                              ELSE delivered
           \/ driver'.current = driver.current /\ UNCHANGED delivered
    BY LastAttemptGood
  <1>2. NoCall.f # "Update"
    BY DEF NoCall, Call
  <1>3. CASE driver.last.f = "Update" /\ driver'.current = driver.last
             /\ delivered' = driver.last.n
    BY <1>1, <1>2, <1>3 DEF InOrder
  <1>4. CASE /\ UNCHANGED delivered
             /\ \/ driver'.current = driver.current
                \/ driver'.current.f # "Update"
    BY <1>1, <1>2, <1>4 DEF InOrder, IsUpdate
  <1>5. QED  BY <1>1, <1>3, <1>4

\* What UpdatesInOrder says of a step.
InTurn ==
  driver'.current # driver.current /\ driver'.current.f = "Update" =>
    driver'.current.n \in {delivered, delivered + 1}

\* Every step preserves the order of the updates.
LEMMA NextUpdateFacts ==
  ASSUME DriverFacts, UpdateFacts, [Next]_vars
  PROVE  UpdateFacts' /\ InTurn
  <1>1. NoCall.f # "Update"
    BY DEF NoCall, Call
  <1>2. ASSUME process = "up"
        PROVE  /\ Good(driver) /\ InOrder(driver)
               /\ acked \in Nat /\ delivered \in Nat
    BY <1>2, UpGood DEF DriverFacts, UpdateFacts
  <1>3. CASE Main
    <2> DEFINE e == start(NewMesosSchedulerDriver(zkId))
    <2>1. driver' = e /\ delivered' = acked /\ UNCHANGED acked
      BY <1>3 DEF Main
    <2>2. /\ e.inbox = <<>> /\ e.decode = NoCall
          /\ e.current = NoCall /\ e.last = NoCall
      BY StartedDriver DEF DriverFacts
    <2> HIDE DEF e
    <2>3. InOrder(driver)'
      BY <1>1, <2>1, <2>2 DEF InOrder
    <2>4. QED  BY <1>1, <2>1, <2>2, <2>3 DEF UpdateFacts, DriverFacts, InTurn
  <1>4. CASE Exit
    <2>1. driver'.current = NoCall
      BY <1>4, NewDriver DEF Exit
    <2>2. QED  BY <1>1, <1>4, <2>1 DEF Exit, UpdateFacts, InTurn
  <1>5. CASE /\ process = "up" /\ UNCHANGED process
             /\ DriverBecomes([driver EXCEPT !.current = NoCall])
    <2>1. /\ driver'.current = NoCall /\ driver'.inbox = driver.inbox
          /\ driver'.stopCh = driver.stopCh /\ driver'.last = driver.last
          /\ driver'.decode = driver.decode
      BY <1>2, <1>5, CallEnds DEF DriverBecomes
    <2>2. InOrder(driver)'
      BY <1>1, <1>2, <1>5, <2>1, OrderKept DEF DriverBecomes
    <2>3. QED
      BY <1>1, <1>5, <2>1, <2>2 DEF DriverBecomes, UpdateFacts, InTurn
  <1>6. CASE Up(Callbacks)
    BY <1>4, <1>5, <1>6
    DEF Up, Callbacks, Registered, Error, CallbackReturns
  <1>7. CASE \/ InDriver(SelfHandlers) \/ InDriver(Authentication)
             \/ InDriver(LaunchTasks \/ pushLostTask) \/ InDriver(QueueDone)
             \/ InDriver(notifyMasterChanged \/ NotifyWithoutInfo \/ WatchEnds)
             \/ InDriver(SendFails)
    <2>1. process = "up" /\ UNCHANGED <<process, zkId>>
      BY <1>7 DEF InDriver, Up
    <2>2. Reconnects
      BY <1>7, <2>1, UpGood, SelfHandlersReconnect, OthersReconnect
      DEF InDriver, Up, Good
    <2>3. InOrder(driver)'
      BY <1>2, <2>1, <2>2, OrderKept DEF Reconnects, Rest
    <2>4. QED
      BY <1>2, <2>1, <2>2, <2>3 DEF Reconnects, Rest, UpdateFacts, InTurn
  <1>8. ASSUME process = "up", UNCHANGED <<process, acked, delivered>>,
               driver'.current = driver.current, driver'.last = driver.last,
               driver'.decode = driver.decode,
               driver'.stopCh = driver.stopCh,
               \/ driver'.inbox = driver.inbox
               \/ \E msg \in Messages :
                    /\ driver'.inbox = Append(driver.inbox, msg)
                    /\ msg.kind = "Update" => msg.n = acked + 1
        PROVE  UpdateFacts' /\ InTurn
    <2>1. InOrder(driver)'
      BY <1>2, <1>8, OrderKept, OrderArrives
    <2>2. QED  BY <1>8, <2>1 DEF UpdateFacts, InTurn
  <1>9. CASE InDriver(registerOnce)
    <2>1. process = "up" /\ registerOnce /\ UNCHANGED <<process, zkId>>
      BY <1>9 DEF InDriver, Up
    <2>2. leader \in Pids /\ nextId \in Nat /\ given \in Nat /\ Good(driver)
      BY <2>1, UpGood DEF DriverFacts
    <2>3. /\ UNCHANGED <<acked, delivered>>
          /\ driver'.stopCh = driver.stopCh /\ driver'.decode = driver.decode
          /\ driver'.current = driver.current /\ driver'.last = driver.last
          /\ \/ driver'.inbox = driver.inbox
             \/ \E msg \in Messages :
                  /\ driver'.inbox = Append(driver.inbox, msg)
                  /\ msg.kind # "Update"
      BY <2>1, <2>2, RegisterGood
    <2>4. QED  BY <1>8, <2>1, <2>3
  <1>10. CASE InDriver(Handlers)
    <2>1. process = "up" /\ Handlers /\ UNCHANGED <<process, zkId>>
      BY <1>10 DEF InDriver, Up
    <2>2. InOrder(driver)'
      BY <1>2, <2>1, OrderHandled
    <2>3. UNCHANGED delivered /\ driver'.current = driver.current
      BY <1>2, <2>1, HandlersGood
    <2>4. QED  BY <2>1, <2>2, <2>3 DEF UpdateFacts, InTurn
  <1>11. CASE InDriver(Abort)
    <2>1. /\ process = "up" /\ driver' = abortDriver("Noop", driver)
          /\ UNCHANGED <<process, zkId, acked, delivered>>
      BY <1>11 DEF InDriver, Up, Abort
    <2>2. /\ driver'.inbox = driver.inbox /\ driver'.decode = driver.decode
          /\ driver'.current = driver.current /\ driver'.last = driver.last
          /\ driver'.stopCh
      BY <1>2, <2>1, AbortDriver DEF Good
    <2>3. InOrder(driver)'
      BY <1>2, <2>1, <2>2 DEF InOrder
    <2>4. QED  BY <2>1, <2>2, <2>3 DEF UpdateFacts, InTurn
  <1>12. CASE InDriver(HandsOver)
    BY <1>2, <1>12, OrderHandedOver DEF InDriver, Up, UpdateFacts, InTurn
  <1>13. CASE InDriver(LastAttempt)
    BY <1>2, <1>13, OrderLastAttempt DEF InDriver, Up, UpdateFacts, InTurn
  <1>14. CASE InDriver(MasterForwards)
    <2>1. /\ process = "up" /\ MasterForwards /\ given # 0
          /\ UNCHANGED <<process, zkId>>
      BY <1>14 DEF InDriver, Up, MasterForwards
    <2>2. leader \in Masters /\ acked \in Nat /\ Good(driver)
      BY <2>1, UpGood DEF DriverFacts, Pids
    <2>3. /\ UNCHANGED <<acked, delivered>>
          /\ driver'.stopCh = driver.stopCh /\ driver'.decode = driver.decode
          /\ driver'.current = driver.current /\ driver'.last = driver.last
          /\ \/ driver'.inbox = driver.inbox
             \/ \E msg \in Messages :
                  /\ driver'.inbox = Append(driver.inbox, msg)
                  /\ msg.kind = "Update" /\ msg.n = acked + 1
      BY <2>1, <2>2, ForwardsGood
    <2>4. QED  BY <1>8, <2>1, <2>3
  <1>15. CASE \/ LeaderChanges /\ UNCHANGED <<process, zkId>>
              \/ \E id \in Ids : FrameworkCompletes(id)
              \/ UNCHANGED vars
    <2>1. UNCHANGED <<driver, acked, delivered, process>>
      BY <1>15 DEF LeaderChanges, FrameworkCompletes, vars, driverVars
    <2>2. QED  BY <2>1 DEF UpdateFacts, InOrder, IsUpdate, InTurn
  <1>16. QED
    BY <1>3, <1>4, <1>6, <1>7, <1>9, <1>10, <1>11, <1>12, <1>13, <1>14, <1>15
    DEF Next, InDriver, Up, MainEnds, Crash

\* There are no updates at first.
LEMMA InitUpdateFacts == Init => UpdateFacts
  <1> SUFFICES ASSUME Init PROVE UpdateFacts
    OBVIOUS
  <1>1. delivered = 0 /\ process = "down"
    BY Zenon DEF Init, DriverInit
  <1>2. QED  BY <1>1 DEF UpdateFacts

\* The inductive invariant of the status updates: those in the inbox come after
\* the one that statusUpdated waits to hand over, and that one after the last
\* one the scheduler was called with.
THEOREM UpdateOrder == Spec => []UpdateFacts
  <1>1. DriverFacts /\ UpdateFacts /\ [Next]_vars => UpdateFacts'
    BY NextUpdateFacts
  <1>2. QED  BY <1>1, InitUpdateFacts, Connection, PTL DEF Spec

\* While the driver runs, an update that is acknowledged and has not reached
\* the scheduler is in the hands of the decode loop, and is the only one.
THEOREM AcknowledgedReachScheduler == Spec => []AckedNotDropped
  <1>1. ASSUME DriverFacts, UpdateFacts, Running, acked > delivered
        PROVE  acked = delivered + 1 /\ driver.decode = Call("Update", acked)
    <2>1. /\ InOrder(driver) /\ ~driver.stopCh /\ IsCall(driver.decode)
          /\ acked \in Nat /\ delivered \in Nat
      BY <1>1
      DEF DriverFacts, UpdateFacts, Running, Alive, Connecting, CallsTyped
    <2>2. driver.decode.f = "Update"
      BY <1>1, <2>1 DEF InOrder
    <2>3. driver.decode.n = acked /\ acked = delivered + 1
      BY <1>1, <2>1, <2>2 DEF InOrder
    <2>4. QED  BY <2>1, <2>2, <2>3 DEF IsCall
  <1>2. DriverFacts /\ UpdateFacts => AckedNotDropped
    BY <1>1 DEF AckedNotDropped
  <1>3. QED  BY <1>2, Connection, UpdateOrder, PTL

\* The scheduler is called with the updates in order.
THEOREM UpdatesReachInOrder == Spec => UpdatesInOrder
  <1>1. DriverFacts /\ UpdateFacts /\ [Next]_vars => [InTurn]_vars
    BY NextUpdateFacts
  <1>2. QED
    BY <1>1, Connection, UpdateOrder, PTL DEF Spec, UpdatesInOrder, InTurn
=============================================================================
