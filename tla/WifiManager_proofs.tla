------------------------- MODULE WifiManager_proofs -------------------------
(***************************************************************************)
(* Proofs about WifiManager for any credentials, retry limit, queue length *)
(* and budgets, with and without the priorities of the tasks.              *)
(***************************************************************************)
EXTENDS WifiManager, SequenceTheorems, TLAPS

Event == {"lost", "gotIp"}

Latest == events[Len(events)]

(* The latest event not yet handled tells what the driver is; when none is *)
(* left, the flag does, except between lowering the flag and disconnecting *)
(* and after a disconnect that failed. A link that comes up while the      *)
(* handler is at the stop leaves its event in the queue.                   *)
LinkInv ==
    /\ events # << >> => (Latest = "gotIp" <=> drv = "up")
    /\ events = << >> /\ connected = "yes" => drv = "up"
    /\ events = << >> /\ drv = "up" =>
          connected = "yes" \/ at = "drop" \/ conf = "drop" \/ mishap = "drop"
    /\ events = << >> /\ hand = "onDisconnected" => drv # "up"

(* Only usable credentials get as far as the driver and the storage.       *)
AttemptInv ==
    at \in {"drop", "config", "clear", "connect", "wait", "save"}
        => cur # Unusable

(* With a link that is up and every event taken, the handler has called    *)
(* for the start or is about to.                                           *)
ServeInv ==
    events = << >> /\ drv = "up" /\ hand \in {"idle", "notify"}
        => http # "stopped"

IInv == TypeOK /\ AttemptInv /\ LinkInv /\ ServeInv

-----------------------------------------------------------------------------
(* The queue: what posting and handling do to its latest event.            *)

LEMMA Posting ==
    ASSUME events \in Seq(Event), NEW e \in Event, Post(e)
    PROVE  /\ events' \in Seq(Event) /\ Len(events') <= QueueLen
           /\ events' # << >>
           /\ Latest' = e
<1>1. events' = Append(events, e) /\ Len(events) < QueueLen
  BY DEF Post
<1>2. Len(events') = Len(events) + 1 /\ events'[Len(events) + 1] = e
  BY <1>1, AppendProperties, ZenonT(40)
<1>3. events' \in Seq(Event) /\ events' # << >>
  BY <1>1, AppendProperties, ZenonT(40)
<1>4. Len(events) \in Nat /\ QueueLen \in Nat
  BY LenProperties, WifiAssumption
<1> QED
  BY <1>1, <1>2, <1>3, <1>4 DEF Latest

LEMMA Handling ==
    ASSUME events \in Seq(Event), Len(events) <= QueueLen, NEW e, Handles(e)
    PROVE  /\ events' \in Seq(Event) /\ Len(events') <= QueueLen
           /\ events # << >>
           /\ events' = << >> => Latest = e
           /\ events' # << >> => Latest' = Latest
<1>1. events # << >> /\ Head(events) = e /\ events' = Tail(events)
  BY DEF Handles
<1>2. events' \in Seq(Event) /\ Len(events') = Len(events) - 1
  BY <1>1, HeadTailProperties, ZenonT(40)
<1>3. \A i \in 1 .. Len(events') : events'[i] = events[i + 1]
  BY <1>1, HeadTailProperties, ZenonT(40)
<1>4. Len(events) \in Nat /\ Len(events') \in Nat /\ QueueLen \in Nat
  BY <1>2, LenProperties, WifiAssumption
<1>5. events' = << >> => Len(events) = 1
  BY <1>2, <1>4
<1>6. events' # << >> => Len(events') >= 1
  BY <1>2, <1>4, EmptySeq
<1>7. events[1] = e
  BY <1>1
<1> QED
  BY <1>1, <1>2, <1>3, <1>4, <1>5, <1>6, <1>7 DEF Latest

-----------------------------------------------------------------------------
(* Type correctness, one conjunct at a time.                               *)

LEMMA TypeInit == Init => TypeOK
<1> SUFFICES ASSUME Init PROVE TypeOK
  OBVIOUS
<1>1. events \in Seq({"lost", "gotIp"}) /\ Len(events) <= QueueLen
  BY WifiAssumption, EmptySeq DEF Init
<1>2. at \in Step
  BY DEF Init, Step
<1> QED
  BY <1>1, <1>2, WifiAssumption DEF Init, TypeOK

LEMMA QueueTyping ==
    ASSUME TypeOK, [Next]_vars
    PROVE  events' \in Seq(Event) /\ Len(events') <= QueueLen
<1>1. events \in Seq(Event) /\ Len(events) <= QueueLen
  BY DEF TypeOK, Event
<1>2. CASE \E e \in Event : Post(e)
  BY <1>1, <1>2, Posting
<1>3. CASE \E e \in Event : Handles(e)
  BY <1>1, <1>3, Handling
<1>4. CASE UNCHANGED events
  BY <1>1, <1>4
<1> QED
  BY <1>2, <1>3, <1>4
  DEF Next, Driver, EventHandler, Boot, CredentialsTask, Confirmation, vars,
      Event, Initialise, LoadSaved, CreateTask, CreateConfirmation,
      HandlerNotified, TaskNotified, ClientClosed, Passes,
      Joins, Refused, LinkLost, Retry, Retries, RetriesExhausted, HandleGotIp,
      OnWifiConnected, OnWifiDisconnected, StopFails, Called, ConnectBegin,
      ConnectRejects, ConnectDrop, ConnectConfig, ConnectClear, Clears,
      ConnectStart,
      TakeMessage, Parse, Wait, Save, ResetFlag, ResetBuffer, EspDisconnect,
      Delete, DisconnectBegin, NothingToDisconnect, Disconnect,
      SetNewCredentials, ReportFailure, driverVars

LEMMA Typing == ASSUME TypeOK, AttemptInv, [Next]_vars PROVE TypeOK'
<1> USE DEF TypeOK
<1>0. CASE UNCHANGED vars
  BY <1>0 DEF vars, driverVars, mailVars, runVars, history
<1>1. events' \in Seq({"lost", "gotIp"}) /\ Len(events') <= QueueLen
  BY QueueTyping, Zenon DEF Event
<1>2. CASE Driver
  <2> USE <1>1 DEF mailVars, runVars, history
  <2>1. CASE Joins
    BY <2>1 DEF Joins
  <2>2. CASE Refused
    BY <2>2 DEF Refused
  <2>3. CASE LinkLost
    BY <2>3 DEF LinkLost, Unlinks
  <2> QED
    BY <1>2, <2>1, <2>2, <2>3 DEF Driver
<1>3. CASE EventHandler
  <2> USE <1>1 DEF driverVars, mailVars, runVars, history
  <2>1. CASE Retry
    BY <2>1, WifiAssumption DEF Retry, Retries, EspConnect
  <2>2. CASE RetriesExhausted
    BY <2>2 DEF RetriesExhausted
  <2>3. CASE HandleGotIp
    BY <2>3, WifiAssumption DEF HandleGotIp
  <2>4. CASE OnWifiConnected
    BY <2>4 DEF OnWifiConnected, Called
  <2>5. CASE OnWifiDisconnected
    <3>1. CASE Called("onDisconnected", {"stopped"}, "idle")
      BY <3>1 DEF Called
    <3>2. CASE StopFails
      BY <3>2 DEF StopFails
    <3> QED
      BY <2>5, <3>1, <3>2 DEF OnWifiDisconnected
  <2>6. CASE HandlerNotified
    BY <2>6 DEF HandlerNotified, Called
  <2> QED
    BY <1>3, <2>1, <2>2, <2>3, <2>4, <2>5, <2>6 DEF EventHandler
<1>4. CASE CredentialsTask
  <2> USE <1>1 DEF driverVars, mailVars, runVars, history, Goes, GivesUp,
                   Caller, Step
  <2>1. CASE ConnectBegin
    BY <2>1, WifiAssumption DEF ConnectBegin
  <2>2. CASE ConnectRejects
    BY <2>2 DEF ConnectRejects
  <2>3. CASE ConnectDrop
    BY <2>3 DEF ConnectDrop, EspDisconnect, Unlinks
  <2>4. CASE ConnectConfig
    BY <2>4 DEF ConnectConfig, AttemptInv
  <2>5. CASE ConnectClear
    BY <2>5 DEF ConnectClear, Clears
  <2>6. CASE ConnectStart
    BY <2>6 DEF ConnectStart, EspConnect
  <2>7. CASE TakeMessage
    BY <2>7 DEF TakeMessage
  <2>8. CASE Parse
    BY <2>8 DEF Parse
  <2>9. CASE Wait
    BY <2>9 DEF Wait
  <2>10. CASE Save
    BY <2>10 DEF Save, AttemptInv
  <2>11. CASE ResetFlag
    BY <2>11 DEF ResetFlag
  <2>12. CASE ResetBuffer
    BY <2>12 DEF ResetBuffer
  <2>13. CASE TaskNotified
    BY <2>13 DEF TaskNotified, Passes
  <2>14. CASE ClientClosed
    BY <2>14 DEF ClientClosed, Passes
  <2> QED
    BY <1>4, <2>1, <2>2, <2>3, <2>4, <2>5, <2>6, <2>7, <2>8, <2>9, <2>10,
       <2>11, <2>12, <2>13, <2>14 DEF CredentialsTask
<1>5. CASE Confirmation
  <2> USE <1>1 DEF driverVars, mailVars, runVars, history
  <2>1. CASE Delete
    BY <2>1 DEF Delete
  <2>2. CASE DisconnectBegin
    BY <2>2 DEF DisconnectBegin
  <2>3. CASE NothingToDisconnect
    BY <2>3 DEF NothingToDisconnect
  <2>4. CASE Disconnect
    BY <2>4 DEF Disconnect, EspDisconnect, Unlinks
  <2> QED
    BY <1>5, <2>1, <2>2, <2>3, <2>4 DEF Confirmation
<1>6. CASE SetNewCredentials
  BY <1>1, <1>6 DEF SetNewCredentials, driverVars, runVars
<1>7. CASE ReportFailure
  BY <1>1, <1>7 DEF ReportFailure, driverVars, mailVars, runVars, history
<1>8. CASE Boot
  <2> USE <1>1 DEF Goes, Step, driverVars, mailVars, runVars, history
  <2>1. CASE Initialise
    BY <2>1 DEF Initialise
  <2>2. CASE LoadSaved
    BY <2>2 DEF LoadSaved
  <2>3. CASE CreateTask
    BY <2>3 DEF CreateTask
  <2>4. CASE CreateConfirmation
    BY <2>4 DEF CreateConfirmation
  <2> QED
    BY <1>8, <2>1, <2>2, <2>3, <2>4 DEF Boot
<1> QED
  BY <1>0, <1>2, <1>3, <1>4, <1>5, <1>6, <1>7, <1>8 DEF Next

-----------------------------------------------------------------------------
(* The strengthening is inductive.                                         *)

LEMMA AttemptStep ==
    ASSUME TypeOK, AttemptInv, [Next]_vars
    PROVE  AttemptInv'
<1> USE DEF AttemptInv
<1>1. CASE UNCHANGED runVars
  BY <1>1 DEF runVars
<1>2. CASE CredentialsTask
  BY <1>2
  DEF CredentialsTask, ConnectBegin, ConnectRejects, ConnectDrop,
      ConnectConfig, ConnectClear, Clears, ConnectStart, TakeMessage, Parse, Wait,
      Save, TaskNotified, ClientClosed, Passes, ResetFlag, ResetBuffer, Goes,
      GivesUp, Caller
<1>3. CASE Boot
  BY <1>3
  DEF Boot, Initialise, LoadSaved, CreateTask, CreateConfirmation, Goes,
      runVars
<1> QED
  BY <1>1, <1>2, <1>3
  DEF Next, vars, HandlerNotified, Driver, EventHandler, Confirmation, Joins, Refused,
      LinkLost, Retry, Retries, RetriesExhausted, HandleGotIp,
      OnWifiConnected, OnWifiDisconnected, StopFails, Called, Delete,
      DisconnectBegin, NothingToDisconnect, Disconnect,
      SetNewCredentials, ReportFailure

LEMMA LinkStep == ASSUME TypeOK, LinkInv, [Next]_vars PROVE LinkInv'
<1>0. events \in Seq(Event) /\ Len(events) <= QueueLen
  BY DEF TypeOK, Event
<1>1. CASE /\ UNCHANGED <<drv, connected, events, mishap>>
           /\ hand' = "onDisconnected" => hand = "onDisconnected"
           /\ at = "drop" => at' = "drop"
           /\ conf = "drop" => conf' = "drop"
  BY <1>1 DEF LinkInv, Latest
<1>2. CASE Joins
  <2>1. Post("gotIp") /\ drv' = "up"
    BY <1>2 DEF Joins
  <2> QED
    BY <1>0, <2>1, Posting DEF LinkInv, Event
<1>3. CASE drv' = "down" /\ Post("lost")
  BY <1>0, <1>3, Posting DEF LinkInv, Event
<1>4. CASE EventHandler
  <2>1. CASE Retry
    <3>1. Handles("lost") /\ connected' = "no"
      BY <2>1 DEF Retry, Retries
    <3>2. drv' = "up" <=> drv = "up"
      BY <2>1 DEF Retry, Retries, EspConnect
    <3> QED
      BY <1>0, <3>1, <3>2, Handling DEF LinkInv
  <2>2. CASE RetriesExhausted
    <3>1. Handles("lost") /\ connected' = "no" /\ drv' = drv
      BY <2>2 DEF RetriesExhausted, driverVars
    <3> QED
      BY <1>0, <3>1, Handling DEF LinkInv
  <2>3. CASE HandleGotIp
    <3>1. /\ Handles("gotIp") /\ connected' = "yes" /\ drv' = drv
          /\ hand' = "onConnected"
      BY <2>3 DEF HandleGotIp, driverVars
    <3> QED
      BY <1>0, <3>1, Handling DEF LinkInv
  <2>4. CASE StopFails
    BY <2>4 DEF StopFails, driverVars, LinkInv, Latest
  <2>5. CASE ~StopFails
             /\ (OnWifiConnected \/ OnWifiDisconnected \/ HandlerNotified)
    BY <1>1, <2>5
    DEF OnWifiConnected, OnWifiDisconnected, HandlerNotified, Called,
        driverVars, runVars, history
  <2> QED
    BY <1>4, <2>1, <2>2, <2>3, <2>4, <2>5 DEF EventHandler
<1>5. CASE ConnectBegin
  BY <1>5 DEF ConnectBegin, Goes, driverVars, LinkInv, Latest
<1>6. CASE ConnectDrop \/ Disconnect
  <2>1. EspDisconnect /\ UNCHANGED <<connected, hand>>
    BY <1>6 DEF ConnectDrop, Disconnect
  <2>2. CASE drv = "down" /\ UNCHANGED <<drv, events>>
    BY <2>1, <2>2 DEF LinkInv, Latest
  <2>3. CASE mishap' = "drop" /\ UNCHANGED <<drv, events>>
    BY <2>1, <2>3 DEF LinkInv, Latest
  <2> QED
    BY <1>3, <2>1, <2>2, <2>3 DEF EspDisconnect
<1>7. CASE ConnectStart
  BY <1>7 DEF ConnectStart, GivesUp, Goes, EspConnect, LinkInv, Latest, history
<1>8. CASE DisconnectBegin
  BY <1>8 DEF DisconnectBegin, driverVars, LinkInv, Latest
<1> QED
  BY <1>1, <1>2, <1>3, <1>4, <1>5, <1>6, <1>7, <1>8
  DEF Next, vars, Driver, CredentialsTask, Confirmation, Refused, LinkLost,
      ConnectRejects, ConnectConfig, ConnectClear, Clears, TakeMessage, Parse,
      Wait, Save, TaskNotified, ClientClosed, Passes, ResetFlag, ResetBuffer,
      Delete, NothingToDisconnect,
      SetNewCredentials, ReportFailure, Boot, Initialise, LoadSaved, CreateTask,
      CreateConfirmation, Goes, GivesUp, driverVars, runVars, history

LEMMA ServeStep ==
    ASSUME TypeOK, LinkInv, ServeInv, [Next]_vars PROVE ServeInv'
<1>0. events \in Seq(Event) /\ Len(events) <= QueueLen
  BY DEF TypeOK, Event
<1>1. CASE UNCHANGED <<events, hand, http>> /\ (drv' = "up" => drv = "up")
  BY <1>1 DEF ServeInv
<1>2. CASE \E e \in Event : Post(e)
  BY <1>0, <1>2, Posting DEF ServeInv
<1>3. CASE EventHandler
  <2>1. CASE Retry \/ RetriesExhausted
    <3>1. Handles("lost") /\ (drv' = "up" => drv = "up")
      BY <2>1 DEF Retry, Retries, EspConnect, RetriesExhausted, driverVars
    <3>2. events' = << >> => drv # "up"
      BY <1>0, <3>1, Handling DEF LinkInv
    <3> QED
      BY <3>1, <3>2 DEF ServeInv
  <2>2. CASE HandleGotIp
    BY <2>2 DEF HandleGotIp, ServeInv
  <2>3. CASE OnWifiConnected \/ OnWifiDisconnected \/ HandlerNotified
    BY <2>3
    DEF OnWifiConnected, OnWifiDisconnected, StopFails, HandlerNotified,
        Called, driverVars, LinkInv, ServeInv
  <2> QED
    BY <1>3, <2>1, <2>2, <2>3 DEF EventHandler
<1>4. CASE Driver
  BY <1>2, <1>4 DEF Driver, Joins, Refused, LinkLost, Event
<1>5. CASE ConnectDrop \/ Disconnect
  BY <1>1, <1>2, <1>5 DEF ConnectDrop, Disconnect, EspDisconnect, Event
<1>6. CASE ConnectStart
  BY <1>1, <1>6 DEF ConnectStart, EspConnect
<1> QED
  BY <1>1, <1>3, <1>4, <1>5, <1>6
  DEF Next, vars, CredentialsTask, Confirmation, ConnectBegin, ConnectRejects,
      ConnectConfig, ConnectClear, Clears, TakeMessage, Parse, Wait, Save,
      TaskNotified, ClientClosed, Passes, ResetFlag, ResetBuffer, Delete,
      DisconnectBegin, NothingToDisconnect, SetNewCredentials, ReportFailure,
      Boot, Initialise, LoadSaved, CreateTask, CreateConfirmation, driverVars

LEMMA Inductive == IInv /\ [Next]_vars => IInv'
BY Typing, AttemptStep, LinkStep, ServeStep DEF IInv

LEMMA Initially == Init => IInv
BY TypeInit DEF IInv, AttemptInv, LinkInv, ServeInv, Init

-----------------------------------------------------------------------------
(* Every variable keeps its type, and the retry counter its limit, however *)
(* the tasks, the driver and the BLE callback interleave.                  *)
THEOREM TypeCorrect == Spec => []TypeOK
<1>1. IInv => TypeOK
  BY DEF IInv
<1> QED
  BY Initially, Inductive, <1>1, PTL DEF Spec

(* wifi_manager_is_connected is right once the queue is drained, unless a  *)
(* disconnect failed since the last event, for any queue length, any       *)
(* number of retries and any priorities.                                   *)
THEOREM ConnectedIsTruthful == Spec => []ConnectedIsTrue
<1>1. IInv => ConnectedIsTrue
  BY DEF IInv, TypeOK, LinkInv, ConnectedIsTrue, Settled
<1> QED
  BY Initially, Inductive, <1>1, PTL DEF Spec

(* On its network, with every event handled, the device has started its    *)
(* HTTP server, whoever connected it and however losses interleaved.       *)
THEOREM ServesWhenUp == Spec => []UpIsServed
<1>1. IInv => UpIsServed
  BY DEF IInv, TypeOK, LinkInv, ServeInv, UpIsServed, Settled
<1> QED
  BY Initially, Inductive, <1>1, PTL DEF Spec

-----------------------------------------------------------------------------
(* Off the network and out of events, the handler has called for the stop  *)
(* or made it: a loss that it answers with a retry leaves the driver       *)
(* connecting, and that attempt will post another event.                   *)

UnservedInv ==
    events = << >> /\ drv = "down" /\ mishap = "none" =>
        \/ hand = "onDisconnected"
        \/ hand = "idle" /\ http # "running"

LEMMA UnservedStep ==
    ASSUME TypeOK, LinkInv, UnservedInv, [Next]_vars
    PROVE  UnservedInv'
<1>0. events \in Seq(Event) /\ Len(events) <= QueueLen
  BY DEF TypeOK, Event
<1>1. CASE UNCHANGED <<drv, events, hand, http, mishap>>
  BY <1>1 DEF UnservedInv
<1>2. CASE drv' # "down" \/ mishap' # "none"
  BY <1>2 DEF UnservedInv
<1>3. CASE \E e \in Event : Post(e)
  BY <1>0, <1>3, Posting DEF UnservedInv
<1>4. CASE EventHandler
  <2>1. CASE Retry
    <3>1. EspConnect \/ mishap' = "retry"
      BY <2>1 DEF Retry, Retries
    <3> QED
      BY <1>2, <3>1 DEF EspConnect
  <2>2. CASE RetriesExhausted
    BY <2>2 DEF RetriesExhausted, UnservedInv
  <2>3. CASE HandleGotIp
    <3>1. Handles("gotIp") /\ drv' = drv
      BY <2>3 DEF HandleGotIp, driverVars
    <3>2. events' = << >> => drv = "up"
      BY <1>0, <3>1, Handling DEF LinkInv
    <3> QED
      BY <3>1, <3>2 DEF UnservedInv
  <2>4. CASE OnWifiConnected \/ OnWifiDisconnected \/ HandlerNotified
    BY <2>4
    DEF OnWifiConnected, OnWifiDisconnected, StopFails, HandlerNotified,
        Called, driverVars, history, UnservedInv
  <2> QED
    BY <1>4, <2>1, <2>2, <2>3, <2>4 DEF EventHandler
<1>5. CASE Driver
  BY <1>3, <1>5 DEF Driver, Joins, Refused, LinkLost, Event
<1>6. CASE ConnectDrop \/ Disconnect
  BY <1>1, <1>2, <1>3, <1>6 DEF ConnectDrop, Disconnect, EspDisconnect, Event
<1>7. CASE ConnectStart
  BY <1>1, <1>2, <1>7 DEF ConnectStart, EspConnect, history
<1> QED
  BY <1>1, <1>4, <1>5, <1>6, <1>7
  DEF Next, vars, CredentialsTask, Confirmation, ConnectBegin, ConnectRejects,
      ConnectConfig, ConnectClear, Clears, TakeMessage, Parse, Wait, Save,
      TaskNotified, ClientClosed, Passes, ResetFlag, ResetBuffer, Delete,
      DisconnectBegin, NothingToDisconnect, SetNewCredentials, ReportFailure,
      Boot, Initialise, LoadSaved, CreateTask, CreateConfirmation, driverVars,
      history

(* A device that is off its network, with every event handled and no       *)
(* attempt under way, does not serve, for any number of losses, messages   *)
(* and reports and any retry limit; a refused retry or a failed stop       *)
(* excuses it until the next event.                                        *)
THEOREM UnservedWhenDown == Spec => []DownIsUnserved
<1>1. Init => UnservedInv
  BY DEF UnservedInv, Init
<1>2. IInv /\ UnservedInv /\ [Next]_vars => UnservedInv'
  BY UnservedStep DEF IInv
<1>3. UnservedInv => DownIsUnserved
  BY DEF UnservedInv, DownIsUnserved, Settled
<1> QED
  BY Initially, Inductive, <1>1, <1>2, <1>3, PTL DEF Spec

-----------------------------------------------------------------------------
(* What is saved. Between clearing the bits and esp_wifi_connect, a GOT_IP *)
(* comes only of the link of an earlier attempt, and as long as that link  *)
(* is up the task is refused and waits for nothing. Once it waits, every   *)
(* attempt is made with its own configuration, whoever makes it.           *)

Answered == Queued("gotIp") \/ "connected" \in bits

OwnInv ==
    /\ at \in {"clear", "connect", "wait"} => config = cur
    /\ at = "wait" /\ drv # "down" => link = config
    /\ stale = "no" =>
          /\ at = "connect" /\ Answered => drv = "up"
          /\ at = "wait" /\ Answered => cur \in Accepted
          /\ at = "save" => cur \in Accepted

\* Posting adds its own event to the queue, and handling none.
LEMMA PostQueues ==
    ASSUME events \in Seq(Event), NEW e \in Event, Post(e)
    PROVE  \A x : Queued(x)' => Queued(x) \/ x = e
<1>1. events' = Append(events, e)
  BY DEF Post
<1>2. Len(events') = Len(events) + 1 /\ Len(events) \in Nat
  BY <1>1, AppendProperties, LenProperties, ZenonT(40)
<1>3. \A i \in 1 .. Len(events) : events'[i] = events[i]
  BY <1>1, AppendProperties, ZenonT(40)
<1>4. events'[Len(events) + 1] = e
  BY <1>1, AppendProperties, ZenonT(40)
<1>5. ASSUME NEW x, NEW i \in 1 .. Len(events'), events'[i] = x, x # e
      PROVE  Queued(x)
  <2>1. i \in 1 .. Len(events)
    BY <1>2, <1>4, <1>5
  <2> QED
    BY <1>3, <1>5, <2>1 DEF Queued
<1> QED
  BY <1>5 DEF Queued

LEMMA HandleQueues ==
    ASSUME events \in Seq(Event), NEW e, Handles(e)
    PROVE  (\A x : Queued(x)' => Queued(x)) /\ Queued(e)
<1>1. events # << >> /\ Head(events) = e /\ events' = Tail(events)
  BY DEF Handles
<1>2. Len(events') = Len(events) - 1 /\ Len(events) \in Nat \ {0}
  BY <1>1, HeadTailProperties, EmptySeq, ZenonT(40)
<1>3. \A i \in 1 .. Len(events') : events'[i] = events[i + 1]
  BY <1>1, HeadTailProperties, ZenonT(40)
<1>4. events[1] = e
  BY <1>1
<1>5. ASSUME NEW x, NEW i \in 1 .. Len(events'), events'[i] = x
      PROVE  Queued(x)
  <2>1. i + 1 \in 1 .. Len(events)
    BY <1>2
  <2> QED
    BY <1>3, <1>5, <2>1 DEF Queued
<1>6. 1 \in 1 .. Len(events)
  BY <1>2
<1> QED
  BY <1>4, <1>5, <1>6 DEF Queued

\* A link that comes down, if there was one, whoever brings it down.
LEMMA DownOwn ==
    ASSUME TypeOK, OwnInv, UNCHANGED <<config, bits, cur, at>>,
           \/ drv = "down" /\ UNCHANGED <<drv, link, events, stale>>
           \/ drv # "down" /\ drv' = "down" /\ Post("lost") /\ Unlinks
           \/ UNCHANGED <<drv, link, events, stale>>
    PROVE  OwnInv'
<1>1. Answered' => Answered
  <2>1. Queued("gotIp")' => Queued("gotIp")
    <3>1. CASE Post("lost")
      BY <3>1, PostQueues DEF TypeOK, Event
    <3>2. CASE UNCHANGED events
      BY <3>2 DEF Queued
    <3> QED
      BY <3>1, <3>2
  <2> QED
    BY <2>1 DEF Answered
<1> QED
  BY <1>1 DEF OwnInv, Unlinks, TypeOK

LEMMA HandlerOwn == ASSUME TypeOK, OwnInv, EventHandler PROVE OwnInv'
<1>0. events \in Seq(Event) /\ UNCHANGED <<config, at, cur, stale>>
  BY DEF TypeOK, Event, EventHandler, Retry, Retries, RetriesExhausted,
         HandleGotIp, OnWifiConnected, OnWifiDisconnected, StopFails,
         HandlerNotified, Called, driverVars, runVars, history
<1>1. CASE Retry
  <2>1. /\ Handles("lost") /\ bits' = bits
        /\ EspConnect \/ UNCHANGED <<drv, link>>
    BY <1>1 DEF Retry, Retries
  <2>2. Answered' => Answered
    BY <1>0, <2>1, HandleQueues DEF Answered
  <2>3. \/ drv' = drv /\ link' = link
        \/ drv = "down" /\ link' = config
    BY <2>1 DEF EspConnect
  <2> QED
    BY <1>0, <2>2, <2>3 DEF OwnInv
<1>2. CASE RetriesExhausted
  <2>1. Handles("lost") /\ bits' = bits \cup {"fail"} /\ UNCHANGED <<drv, link>>
    BY <1>2 DEF RetriesExhausted, driverVars
  <2>2. Answered' => Answered
    BY <1>0, <2>1, HandleQueues DEF Answered
  <2> QED
    BY <1>0, <2>1, <2>2 DEF OwnInv
<1>3. CASE HandleGotIp
  <2>1. Handles("gotIp") /\ UNCHANGED <<drv, link>>
    BY <1>3 DEF HandleGotIp, driverVars
  <2>2. Answered
    BY <1>0, <2>1, HandleQueues DEF Answered
  <2> QED
    BY <1>0, <2>1, <2>2 DEF OwnInv
<1>4. CASE OnWifiConnected \/ OnWifiDisconnected \/ HandlerNotified
  <2>1. UNCHANGED <<drv, link, events, bits>>
    BY <1>4 DEF OnWifiConnected, OnWifiDisconnected, StopFails,
                HandlerNotified, Called, driverVars
  <2> QED
    BY <1>0, <2>1 DEF OwnInv, Answered, Queued
<1> QED
  BY <1>1, <1>2, <1>3, <1>4 DEF EventHandler

LEMMA TaskOwn ==
    ASSUME TypeOK, OwnInv, CredentialsTask \/ Boot, ~ConnectDrop
    PROVE  OwnInv'
<1>0. who \in {"boot", "task"}
  BY DEF TypeOK
<1>1. CASE ConnectConfig
  <2>1. \/ at' = "clear" /\ config' = cur /\ cur' = cur
        \/ at' \in {"create", "reset"}
    BY <1>0, <1>1 DEF ConnectConfig, Goes, GivesUp, Caller
  <2> QED
    BY <2>1 DEF OwnInv
<1>2. CASE ConnectClear
  <2>1. /\ at = "clear" /\ at' = "connect" /\ bits' = {}
        /\ stale' = "no" => ~Queued("gotIp")
        /\ UNCHANGED <<drv, config, link, events, cur>>
    BY <1>2 DEF ConnectClear, Clears, Goes, driverVars
  <2>2. stale' = "no" => ~Answered'
    BY <2>1 DEF Answered, Queued
  <2> QED
    BY <2>1, <2>2 DEF OwnInv
<1>3. CASE ConnectStart
  <2>1. /\ at = "connect" /\ at' \in {"wait", "create", "reset"}
        /\ at' = "wait" => drv = "down" /\ link' = config
        /\ UNCHANGED <<config, events, bits, cur, stale>>
    BY <1>0, <1>3 DEF ConnectStart, Goes, GivesUp, Caller, EspConnect, history
  <2>2. at' = "wait" /\ stale = "no" => ~Answered'
    BY <2>1 DEF OwnInv, Answered, Queued
  <2> QED
    BY <2>1, <2>2 DEF OwnInv
<1>4. CASE Wait
  <2>1. /\ at = "wait" /\ at' \in {"save", "close"}
        /\ at' = "save" => "connected" \in bits
        /\ UNCHANGED <<cur, stale>>
    BY <1>4 DEF Wait, Goes, history
  <2> QED
    BY <2>1 DEF OwnInv, Answered
<1>5. CASE ~ConnectConfig /\ ~ConnectClear /\ ~ConnectStart /\ ~Wait
  <2>1. \/ at' \notin {"clear", "connect", "wait", "save"}
        \/ CreateConfirmation
    BY <1>0, <1>5
    DEF CredentialsTask, Boot, ConnectBegin, ConnectRejects, TakeMessage,
        Parse, Save, TaskNotified, ClientClosed, Passes, ResetFlag,
        ResetBuffer, Goes, GivesUp, Caller, Initialise, LoadSaved, CreateTask
  <2>2. CASE CreateConfirmation
    BY <2>2
    DEF CreateConfirmation, driverVars, runVars, history, OwnInv, Answered,
        Queued
  <2> QED
    BY <2>1, <2>2 DEF OwnInv
<1> QED
  BY <1>1, <1>2, <1>3, <1>4, <1>5

LEMMA OwnStep == ASSUME TypeOK, OwnInv, [Next]_vars PROVE OwnInv'
<1>1. CASE Joins
  <2>1. /\ drv' = "up" /\ drv # "down" /\ link \in Accepted
        /\ UNCHANGED <<config, link, bits, at, cur, stale>>
    BY <1>1 DEF Joins, runVars, history
  <2> QED
    BY <2>1 DEF OwnInv
<1>2. CASE Refused
  <2>1. /\ drv = "connecting" /\ drv' = "down" /\ Post("lost")
        /\ UNCHANGED <<config, bits, at, cur, stale>>
    BY <1>2 DEF Refused, runVars, history
  <2> QED
    BY <2>1, DownOwn DEF Unlinks
<1>3. CASE LinkLost
  <2>1. /\ drv = "up" /\ drv' = "down" /\ Post("lost") /\ Unlinks
        /\ UNCHANGED <<config, bits, at, cur>>
    BY <1>3 DEF LinkLost, runVars
  <2> QED
    BY <2>1, DownOwn
<1>4. CASE Disconnect
  <2>1. EspDisconnect /\ UNCHANGED <<config, bits, at, cur>>
    BY <1>4 DEF Disconnect, runVars
  <2> QED
    BY <2>1, DownOwn DEF EspDisconnect, Unlinks
<1>5. CASE ConnectDrop
  BY <1>5 DEF ConnectDrop, Goes, OwnInv
<1>6. CASE EventHandler
  BY <1>6, HandlerOwn
<1>7. CASE CredentialsTask \/ Boot
  BY <1>5, <1>7, TaskOwn
<1>8. CASE \/ Delete \/ DisconnectBegin \/ NothingToDisconnect
           \/ SetNewCredentials \/ ReportFailure \/ UNCHANGED vars
  <2>1. UNCHANGED <<drv, config, link, events, bits, at, cur, stale>>
    BY <1>8
    DEF Delete, DisconnectBegin, NothingToDisconnect, SetNewCredentials,
        ReportFailure, vars, driverVars, runVars, history
  <2> QED
    BY <2>1 DEF OwnInv, Answered, Queued
<1> QED
  BY <1>1, <1>2, <1>3, <1>4, <1>5, <1>6, <1>7, <1>8 DEF Next, Driver, Confirmation

\* Only the save puts anything on the flash.
LEMMA SaveStep ==
    ASSUME OwnInv, [Next]_vars, stored' \notin {stored, None}, stale = "no"
    PROVE  stored' \in Accepted
<1>1. CASE Save
  BY <1>1 DEF Save, Goes, OwnInv
<1>2. CASE UNCHANGED stored \/ Delete
  BY <1>2 DEF Delete
<1> QED
  BY <1>1, <1>2
  DEF Next, vars, Driver, Joins, Refused, LinkLost, EventHandler, Retry, Retries,
      RetriesExhausted, HandleGotIp, OnWifiConnected, OnWifiDisconnected,
      StopFails, HandlerNotified, Called, Boot, Initialise, LoadSaved,
      CreateTask, CreateConfirmation, CredentialsTask, ConnectBegin,
      ConnectRejects, ConnectDrop, ConnectConfig, ConnectClear, Clears,
      ConnectStart, TakeMessage, Parse, Wait, TaskNotified, ClientClosed,
      Passes, ResetFlag, ResetBuffer, Confirmation, DisconnectBegin,
      NothingToDisconnect, Disconnect, SetNewCredentials, ReportFailure

(* Only credentials that an access point accepted are saved, for any       *)
(* messages, retries, losses, reports, timeouts and callbacks of any       *)
(* length, with and without priorities, unless the answer to an earlier    *)
(* attempt was left in the queue, or its link came down, in the two steps  *)
(* before the attempt.                                                     *)
THEOREM AcceptedIsSaved == Spec => SavedWasAccepted
<1>1. Init => OwnInv
  BY DEF Init, OwnInv
<1>2. IInv /\ OwnInv /\ [Next]_vars => OwnInv'
  BY OwnStep DEF IInv
<1>3. OwnInv /\ [Next]_vars
      => [stored' \notin {stored, None} /\ stale = "no"
          => stored' \in Accepted]_vars
  BY SaveStep
<1> QED
  BY Initially, Inductive, <1>1, <1>2, <1>3, PTL DEF Spec, SavedWasAccepted
=============================================================================
