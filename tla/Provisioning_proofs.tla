------------------------ MODULE Provisioning_proofs ------------------------
(***************************************************************************)
(* Proofs about Provisioning, for any apps and any constants of the Wi-Fi  *)
(* manager, whatever the priorities are. Every step of the composition is  *)
(* one of WifiManager or changes none of its variables, so that what is    *)
(* proved there carries over.                                              *)
(***************************************************************************)
EXTENDS Provisioning, WifiManager_proofs

LinkEventType == {"up", "down"} \X App

(* Each sender is at its delay only while its task is in the call.         *)
SenderInv ==
    /\ hand # "notify" => due["event"] = "no"
    /\ at # "notify" => due["task"] = "no"
    /\ bt # "send" => due["bt"] = "no"

(* An app whose CONNECT_EVT is pending has not subscribed yet.             *)
UpInv ==
    \A i \in 1 .. Len(linkEvents) :
        linkEvents[i][1] = "up" => linkEvents[i][2] \notin subscribed

(* While the device is hidden, a "down" is pending, or the latest link,    *)
(* announced or about to be, exists.                                       *)
HiddenInv ==
    adv = "off" =>
        \/ \E i \in 1 .. Len(linkEvents) : linkEvents[i][1] = "down"
        \/ linkEvents = << >> /\ connId \in conn
        \/ linkEvents # << >> /\ linkEvents[Len(linkEvents)][2] \in conn

(* Who is going to tell an app that waits: the handler once it comes to    *)
(* the event, a sender that has the current address, or nobody ("owed").   *)
Telling ==
    \/ events # << >> \/ connected = "no" \/ hand = "onConnected"
    \/ hand = "notify" /\ due["event"] # "old"
    \/ bt = "send" /\ due["bt"] # "old"
    \/ due["task"] = "current"
    \/ owed = "yes"

TellInv ==
    drv = "up" => \A c \in App : Present(c) => c \in told \/ Telling

PInv == IInv /\ PTypeOK /\ SenderInv /\ UpInv /\ HiddenInv /\ TellInv

-----------------------------------------------------------------------------
(* The refinement, step by step.                                           *)

LEMMA ReturnStep ==
    ASSUME NEW s \in Sender, Returns(s)
    PROVE  \/ s = "event" /\ HandlerNotified /\ bt' = bt
           \/ s = "task" /\ TaskNotified /\ bt' = bt
           \/ s = "bt" /\ UNCHANGED vars /\ bt' = "idle"
  BY DEF Returns, Sender

LEMMA WifiStep == ASSUME [PNext]_allVars PROVE [Next]_vars
<1>1. ASSUME NEW s \in Sender, Sends(s)
      PROVE  UNCHANGED vars \/ HandlerNotified \/ TaskNotified
  BY <1>1, ReturnStep DEF Sends, SendSkips, ReadAddress, Indicate
<1>2. Sender = {"event", "task", "bt"}
  BY DEF Sender
<1>3. CASE Attempt \/ Loss
  BY <1>3 DEF Attempt, Loss, NewAddress, Next, Driver
<1>4. CASE Bluetooth
  BY <1>1, <1>2, <1>4 DEF Bluetooth, LinkEvent, Next, EventHandler, CredentialsTask
<1>5. CASE PEventHandler
  BY <1>1, <1>2, <1>5
  DEF PEventHandler, Connected, Next, EventHandler, CredentialsTask
<1>6. CASE PBoot \/ PConfirmation
  BY <1>6 DEF PBoot, PConfirmation, Forget, Next, Confirmation
<1>7. CASE PCredentialsTask
  BY <1>1, <1>2, <1>7
  DEF PCredentialsTask, CloseClient, Next, EventHandler, CredentialsTask
<1>8. CASE Apps
  BY <1>8 DEF Apps, Connect, Drop, Subscribe, SendCredentials, Report, Next
<1>9. CASE UNCHANGED allVars
  BY <1>9 DEF allVars
<1> QED
  BY <1>3, <1>4, <1>5, <1>6, <1>7, <1>8, <1>9 DEF PNext

(* The composition adds nothing to what the Wi-Fi manager may do: the flag *)
(* and the HTTP server follow the link with apps coming and going as well. *)
THEOREM ImplementsWifi == PSpec => Spec
<1>1. PInit => Init
  BY DEF PInit
<1>2. [PNext]_allVars => [Next]_vars
  BY WifiStep
<1> QED
  BY <1>1, <1>2, PTL DEF PSpec, Spec

(* What is proved of the Wi-Fi manager alone holds among the apps, for any *)
(* number of them: the flag is right and the server follows the link in    *)
(* both directions once every event is handled, and only credentials that  *)
(* an access point accepted are saved, a stale answer apart.               *)
THEOREM WifiKeepsItsWord ==
    PSpec => /\ [](ConnectedIsTrue /\ UpIsServed /\ DownIsUnserved)
             /\ SavedWasAccepted
BY ImplementsWifi, ConnectedIsTruthful, ServesWhenUp, UnservedWhenDown,
   AcceptedIsSaved, PTL

-----------------------------------------------------------------------------
(* The steps of the Wi-Fi manager that leave the apps and their links      *)
(* alone, and what they do to what the invariants are about.               *)
Quiet ==
    \/ Refused \/ LinkLost
    \/ Retry \/ RetriesExhausted \/ HandleGotIp \/ OnWifiDisconnected \/ Boot
    \/ ConnectBegin \/ ConnectRejects \/ ConnectDrop \/ ConnectConfig
    \/ ConnectClear \/ ConnectStart \/ TakeMessage \/ Parse \/ Wait \/ Save
    \/ ResetFlag \/ ResetBuffer \/ Delete \/ DisconnectBegin
    \/ SetNewCredentials \/ ReportFailure
    \/ UNCHANGED vars

LEMMA Steps ==
    ASSUME [PNext]_allVars
    PROVE  \/ Quiet /\ UNCHANGED bleVars
           \/ NewAddress \/ Connected \/ CloseClient \/ Forget \/ LinkEvent
           \/ \E c \in App : Connect(c) \/ Drop(c) \/ Subscribe(c)
           \/ \E s \in Sender : SendSkips(s) \/ ReadAddress(s) \/ Indicate(s)
<1>1. Sender = {"event", "task", "bt"}
  BY DEF Sender
<1> QED
  BY <1>1
  DEF PNext, allVars, Attempt, Loss, Bluetooth, PEventHandler, PBoot, Quiet,
      PCredentialsTask, PConfirmation, Apps, Sends, SendCredentials, Report

LEMMA QuietStep ==
    ASSUME Quiet
    PROVE  /\ drv' = "up" => drv = "up"
           /\ hand' = "notify" <=> hand = "notify"
           /\ at = "notify" => at' = "notify"
           /\ drv' = "up" =>
                \/ connected' = "no" \/ hand' = "onConnected"
                \/ /\ UNCHANGED <<events, connected>>
                   /\ hand = "onConnected" => hand' = "onConnected"
<1>1. CASE Refused \/ LinkLost
  BY <1>1 DEF Refused, LinkLost, runVars
<1>2. CASE Retry
  BY <1>2 DEF Retry, Retries, Handles, EspConnect, runVars
<1>3. CASE RetriesExhausted \/ HandleGotIp \/ OnWifiDisconnected
  BY <1>3
  DEF RetriesExhausted, HandleGotIp, Handles, OnWifiDisconnected, StopFails,
      Called, driverVars, runVars
<1>4. CASE Boot
  BY <1>4
  DEF Boot, Initialise, LoadSaved, CreateTask, CreateConfirmation, Goes,
      driverVars, runVars
<1>5. CASE ConnectDrop
  BY <1>5 DEF ConnectDrop, Goes, EspDisconnect
<1>6. CASE ConnectStart
  BY <1>6 DEF ConnectStart, Goes, GivesUp, EspConnect
<1>7. CASE ConnectBegin \/ ConnectRejects \/ ConnectConfig \/ ConnectClear
  BY <1>7
  DEF ConnectBegin, ConnectRejects, ConnectConfig, ConnectClear, Clears, Goes, GivesUp,
      driverVars
<1>8. CASE TakeMessage \/ Parse \/ Wait \/ Save \/ ResetFlag \/ ResetBuffer
  BY <1>8
  DEF TakeMessage, Parse, Wait, Save, ResetFlag, ResetBuffer, Goes, driverVars
<1>9. CASE \/ Delete \/ DisconnectBegin \/ SetNewCredentials \/ ReportFailure
           \/ UNCHANGED vars
  BY <1>9
  DEF Delete, DisconnectBegin, SetNewCredentials, ReportFailure, vars, driverVars, runVars
<1> QED
  BY <1>1, <1>2, <1>3, <1>4, <1>5, <1>6, <1>7, <1>8, <1>9 DEF Quiet

-----------------------------------------------------------------------------
(* The links and their events.                                             *)

LEMMA Appending ==
    ASSUME linkEvents \in Seq(LinkEventType), NEW e \in LinkEventType,
           linkEvents' = Append(linkEvents, e)
    PROVE  /\ linkEvents' \in Seq(LinkEventType)
           /\ Len(linkEvents) \in Nat /\ Len(linkEvents') = Len(linkEvents) + 1
           /\ linkEvents'[Len(linkEvents) + 1] = e
           /\ \A i \in 1 .. Len(linkEvents) : linkEvents'[i] = linkEvents[i]
<1>1. Len(linkEvents) \in Nat
  BY LenProperties
<1>2. /\ linkEvents' \in Seq(LinkEventType)
      /\ Len(linkEvents') = Len(linkEvents) + 1
  BY AppendProperties, ZenonT(40)
<1>3. linkEvents'[Len(linkEvents) + 1] = e
  BY AppendProperties, ZenonT(40)
<1>4. \A i \in 1 .. Len(linkEvents) : linkEvents'[i] = linkEvents[i]
  BY AppendProperties, ZenonT(40)
<1> QED
  BY <1>1, <1>2, <1>3, <1>4

LEMMA Removing ==
    ASSUME linkEvents \in Seq(LinkEventType), linkEvents # << >>,
           linkEvents' = Tail(linkEvents)
    PROVE  /\ linkEvents' \in Seq(LinkEventType)
           /\ Len(linkEvents) \in Nat /\ Len(linkEvents') \in Nat
           /\ Len(linkEvents) = Len(linkEvents') + 1
           /\ linkEvents' = << >> <=> Len(linkEvents') = 0
           /\ Head(linkEvents) = linkEvents[1] /\ linkEvents[1] \in LinkEventType
           /\ \A i \in 1 .. Len(linkEvents') : linkEvents'[i] = linkEvents[i + 1]
<1>1. linkEvents' \in Seq(LinkEventType) /\ Len(linkEvents') = Len(linkEvents) - 1
  BY HeadTailProperties, ZenonT(40)
<1>2. \A i \in 1 .. Len(linkEvents') : linkEvents'[i] = linkEvents[i + 1]
  BY <1>1, HeadTailProperties, ZenonT(40)
<1>3. Len(linkEvents) \in Nat /\ Len(linkEvents') \in Nat
  BY <1>1, LenProperties
<1>4. linkEvents' = << >> <=> Len(linkEvents') = 0
  BY <1>1, EmptySeq
<1>5. Head(linkEvents) = linkEvents[1] /\ linkEvents[1] \in LinkEventType
  BY HeadTailProperties
<1> QED
  BY <1>1, <1>2, <1>3, <1>4, <1>5

LEMMA Breaking ==
    ASSUME PTypeOK, NEW c \in App, Breaks(c)
    PROVE  /\ linkEvents' \in Seq(LinkEventType)
           /\ Len(linkEvents) \in Nat /\ Len(linkEvents') = Len(linkEvents) + 1
           /\ linkEvents'[Len(linkEvents) + 1] = <<"down", c>>
           /\ \A i \in 1 .. Len(linkEvents) : linkEvents'[i] = linkEvents[i]
<1>1. /\ linkEvents \in Seq(LinkEventType) /\ <<"down", c>> \in LinkEventType
      /\ linkEvents' = Append(linkEvents, <<"down", c>>)
  BY DEF Breaks, PTypeOK, LinkEventType
<1> QED
  BY <1>1, Appending

LEMMA PTyping == ASSUME IInv, PTypeOK, [PNext]_allVars PROVE PTypeOK'
<1>0. TypeOK'
  BY WifiStep, Inductive DEF IInv
<1>1. CASE UNCHANGED bleVars
  BY <1>0, <1>1 DEF PTypeOK, bleVars, linkVars
<1>2. CASE NewAddress
  BY <1>0, <1>2 DEF NewAddress, PTypeOK, linkVars
<1>3. CASE Connected \/ Forget
  BY <1>0, <1>3 DEF Connected, Forget, PTypeOK, linkVars
<1>4. CASE LinkEvent
  <2>1. linkEvents # << >> /\ linkEvents' = Tail(linkEvents)
        /\ linkEvents \in Seq(LinkEventType)
    BY <1>4 DEF LinkEvent, PTypeOK, LinkEventType
  <2>2. linkEvents' \in Seq(LinkEventType) /\ Head(linkEvents) \in LinkEventType
    BY <2>1, Removing
  <2>3. Head(linkEvents)[2] \in App
    BY <2>2 DEF LinkEventType
  <2> QED
    BY <1>0, <1>4, <2>2, <2>3 DEF LinkEvent, PTypeOK, LinkEventType
<1>5. ASSUME NEW c \in App, Connect(c) PROVE PTypeOK'
  <2>1. linkEvents \in Seq(LinkEventType) /\ <<"up", c>> \in LinkEventType
    BY DEF PTypeOK, LinkEventType
  <2>2. linkEvents' \in Seq(LinkEventType)
    BY <1>5, <2>1, Appending DEF Connect
  <2> QED
    BY <1>0, <1>5, <2>2 DEF Connect, PTypeOK, LinkEventType
<1>6. ASSUME NEW c \in App, Breaks(c) PROVE PTypeOK'
  <2>1. linkEvents' \in Seq(LinkEventType)
    BY <1>6, Breaking
  <2> QED
    BY <1>0, <1>6, <2>1 DEF Breaks, PTypeOK, LinkEventType
<1>7. ASSUME NEW c \in App, Subscribe(c) PROVE PTypeOK'
  BY <1>0, <1>7 DEF Subscribe, Writes, PTypeOK, linkVars
<1>8. ASSUME NEW s \in Sender, SendSkips(s) \/ ReadAddress(s) \/ Indicate(s)
      PROVE  PTypeOK'
  <2>1. bt' \in {"idle", "send"}
    BY <1>8, ReturnStep DEF SendSkips, ReadAddress, Indicate, PTypeOK
  <2>2. CASE SendSkips(s)
    BY <1>0, <2>1, <2>2 DEF SendSkips, PTypeOK, linkVars
  <2>3. CASE ReadAddress(s)
    BY <1>0, <2>1, <2>3 DEF ReadAddress, PTypeOK, linkVars
  <2>4. CASE Indicate(s)
    BY <1>0, <2>1, <2>4 DEF Indicate, PTypeOK, linkVars
  <2> QED
    BY <1>8, <2>2, <2>3, <2>4
<1>9. CASE CloseClient
  <2>1. CASE connId \in conn
    BY <1>6, <1>9, <2>1 DEF CloseClient, PTypeOK
  <2> QED
    BY <1>1, <1>9, <2>1 DEF CloseClient
<1> QED
  BY <1>1, <1>2, <1>3, <1>4, <1>5, <1>6, <1>7, <1>8, <1>9, Steps DEF Drop

LEMMA UpStep == ASSUME PTypeOK, UpInv, [PNext]_allVars PROVE UpInv'
<1> USE DEF UpInv
<1>1. CASE UNCHANGED <<linkEvents, subscribed>>
  BY <1>1
<1>2. CASE LinkEvent
  BY <1>2, Removing DEF LinkEvent, PTypeOK, LinkEventType
<1>3. ASSUME NEW c \in App, Connect(c) PROVE UpInv'
  <2>1. linkEvents \in Seq(LinkEventType) /\ <<"up", c>> \in LinkEventType
    BY DEF PTypeOK, LinkEventType
  <2>2. c \notin subscribed /\ UNCHANGED subscribed
    BY <1>3 DEF Connect, PTypeOK
  <2>3. linkEvents' = Append(linkEvents, <<"up", c>>)
    BY <1>3 DEF Connect
  <2>4. \A i \in 1 .. Len(linkEvents') :
            i \in 1 .. Len(linkEvents) \/ i = Len(linkEvents) + 1
    BY <2>1, <2>3, Appending
  <2> QED
    BY <2>1, <2>2, <2>3, <2>4, Appending
<1>4. ASSUME NEW c \in App, Breaks(c) PROVE UpInv'
  <2>1. subscribed' \subseteq subscribed
    BY <1>4 DEF Breaks
  <2>2. \A i \in 1 .. Len(linkEvents') :
            i \in 1 .. Len(linkEvents) \/ i = Len(linkEvents) + 1
    BY <1>4, Breaking
  <2> QED
    BY <1>4, <2>1, <2>2, Breaking
<1>5. ASSUME NEW c \in App, Subscribe(c) PROVE UpInv'
  <2>1. Len(linkEvents) = 0 /\ UNCHANGED linkEvents
    BY <1>5, EmptySeq DEF Subscribe, Writes, linkVars
  <2> QED
    BY <2>1
<1>6. CASE CloseClient
  <2>1. connId \in conn => connId \in App
    BY DEF PTypeOK
  <2> QED
    BY <1>1, <1>4, <1>6, <2>1 DEF CloseClient, bleVars, linkVars
<1>7. ASSUME NEW s \in Sender, SendSkips(s) \/ ReadAddress(s) \/ Indicate(s)
      PROVE  UNCHANGED <<linkEvents, subscribed>>
  BY <1>7 DEF SendSkips, ReadAddress, Indicate, linkVars
<1> QED
  BY <1>1, <1>2, <1>3, <1>4, <1>5, <1>6, <1>7, Steps
  DEF Drop, NewAddress, Connected, Forget, bleVars, linkVars

LEMMA HiddenStep == ASSUME PTypeOK, HiddenInv, [PNext]_allVars PROVE HiddenInv'
<1> USE DEF HiddenInv
<1>1. CASE UNCHANGED linkVars
  BY <1>1 DEF linkVars
<1>2. CASE LinkEvent
  <2>1. /\ linkEvents # << >> /\ linkEvents' = Tail(linkEvents)
        /\ linkEvents \in Seq(LinkEventType)
    BY <1>2 DEF LinkEvent, PTypeOK, LinkEventType
  <2>2. CASE linkEvents[1][1] = "down"
    BY <1>2, <2>1, <2>2, Removing DEF LinkEvent
  <2>3. CASE linkEvents[1][1] = "up"
    <3>1. connId' = linkEvents[1][2] /\ UNCHANGED <<adv, conn>>
      BY <1>2, <2>1, <2>3, Removing DEF LinkEvent
    <3>2. ASSUME NEW i \in 1 .. Len(linkEvents), linkEvents[i][1] = "down"
          PROVE  \E j \in 1 .. Len(linkEvents') : linkEvents'[j][1] = "down"
      <4>1. i # 1 /\ i - 1 \in 1 .. Len(linkEvents')
        BY <2>1, <2>3, <3>2, Removing
      <4>2. linkEvents'[i - 1] = linkEvents[i]
        BY <2>1, <4>1, Removing
      <4> QED
        BY <3>2, <4>1, <4>2
    <3>3. ASSUME linkEvents[Len(linkEvents)][2] \in conn PROVE HiddenInv'
      <4>1. CASE linkEvents' = << >>
        BY <2>1, <3>1, <3>3, <4>1, Removing
      <4>2. CASE linkEvents' # << >>
        <5>1. /\ Len(linkEvents') \in 1 .. Len(linkEvents')
              /\ Len(linkEvents') + 1 = Len(linkEvents)
          BY <2>1, <4>2, Removing
        <5>2. linkEvents'[Len(linkEvents')] = linkEvents[Len(linkEvents)]
          BY <2>1, <5>1, Removing
        <5> QED
          BY <3>1, <3>3, <4>2, <5>2
      <4> QED
        BY <4>1, <4>2
    <3> QED
      BY <2>1, <3>1, <3>2, <3>3
  <2> QED
    BY <1>2, <2>1, <2>2, <2>3, Removing DEF LinkEvent
<1>3. ASSUME NEW c \in App, Connect(c) PROVE HiddenInv'
  <2>1. /\ linkEvents \in Seq(LinkEventType) /\ <<"up", c>> \in LinkEventType
        /\ linkEvents' = Append(linkEvents, <<"up", c>>) /\ c \in conn'
    BY <1>3 DEF Connect, PTypeOK, LinkEventType
  <2>2. linkEvents'[Len(linkEvents')] = <<"up", c>> /\ Len(linkEvents') # 0
    BY <2>1, Appending
  <2>3. linkEvents' # << >>
    BY <2>2, EmptySeq
  <2> QED
    BY <2>1, <2>2, <2>3
<1>4. ASSUME NEW c \in App, Breaks(c) PROVE HiddenInv'
  <2>1. /\ linkEvents'[Len(linkEvents')] = <<"down", c>>
        /\ Len(linkEvents') \in 1 .. Len(linkEvents')
    BY <1>4, Breaking
  <2> QED
    BY <2>1
<1>5. CASE CloseClient
  <2>1. connId \in conn => connId \in App
    BY DEF PTypeOK
  <2> QED
    BY <1>1, <1>4, <1>5, <2>1 DEF CloseClient, bleVars
<1>6. CASE Forget
  BY <1>6 DEF Forget
<1>7. ASSUME NEW s \in Sender, SendSkips(s) \/ ReadAddress(s) \/ Indicate(s)
      PROVE  UNCHANGED linkVars
  BY <1>7 DEF SendSkips, ReadAddress, Indicate
<1> QED
  BY <1>1, <1>2, <1>3, <1>4, <1>5, <1>6, <1>7, Steps
  DEF Drop, Subscribe, NewAddress, Connected, bleVars

-----------------------------------------------------------------------------
(* The senders, and who tells.                                             *)

\* A sender that works on device info is in the call, and changes nothing else.
LEMMA SendStep ==
    ASSUME NEW s \in Sender, SendSkips(s) \/ ReadAddress(s) \/ Indicate(s)
    PROVE  /\ UNCHANGED <<drv, events, connected, connId, subscribed>>
           /\ hand' = IF s = "event" /\ ~ReadAddress(s) THEN "idle" ELSE hand
           /\ at' = IF s = "task" /\ ~ReadAddress(s) THEN "reset" ELSE at
           /\ bt' = IF s = "bt" /\ ~ReadAddress(s) THEN "idle" ELSE bt
           /\ s = "event" => hand = "notify"
           /\ s = "task" => at = "notify"
<1>1. CASE ReadAddress(s)
  <2>1. UNCHANGED <<vars, linkVars, subscribed, bt>>
    BY <1>1 DEF ReadAddress
  <2>2. /\ s = "event" => hand = "notify"
        /\ s = "task" => at = "notify"
    BY <1>1 DEF ReadAddress, Calling
  <2> QED
    BY <1>1, <2>1, <2>2 DEF vars, driverVars, runVars, linkVars
<1>2. CASE (SendSkips(s) \/ Indicate(s)) /\ ~ReadAddress(s)
  <2>1. Returns(s) /\ UNCHANGED <<linkVars, subscribed>>
    BY <1>2 DEF SendSkips, Indicate
  <2>2. CASE s = "event" /\ HandlerNotified /\ bt' = bt
    BY <1>2, <2>1, <2>2
    DEF HandlerNotified, Called, driverVars, runVars, linkVars
  <2>3. CASE s = "task" /\ TaskNotified /\ bt' = bt
    BY <1>2, <2>1, <2>3 DEF TaskNotified, Passes, Goes, driverVars, linkVars
  <2>4. CASE s = "bt" /\ UNCHANGED vars /\ bt' = "idle"
    BY <1>2, <2>1, <2>4 DEF vars, driverVars, runVars, linkVars
  <2> QED
    BY <2>1, <2>2, <2>3, <2>4, ReturnStep
<1> QED
  BY <1>1, <1>2

\* What the other steps of the composition do to the Wi-Fi manager.
LEMMA WifiEffect ==
    ASSUME \/ NewAddress \/ Connected \/ CloseClient \/ Forget \/ LinkEvent
           \/ \E c \in App : Connect(c) \/ Drop(c) \/ Subscribe(c)
    PROVE  /\ ~Connected => UNCHANGED hand
           /\ at = "notify" => at' = "notify"
           /\ ~NewAddress => drv' \in {drv, "down"}
           /\ drv' = "up" /\ ~NewAddress =>
                UNCHANGED events /\ connected' \in {connected, "no"}
<1>1. CASE NewAddress
  BY <1>1 DEF NewAddress, Joins, runVars
<1>2. CASE Connected
  BY <1>2 DEF Connected, OnWifiConnected, Called, driverVars, runVars
<1>3. CASE CloseClient
  BY <1>3 DEF CloseClient, ClientClosed, Passes, Goes, driverVars
<1>4. CASE Forget
  BY <1>4 DEF Forget, Disconnect, NothingToDisconnect, EspDisconnect,
              driverVars, runVars
<1>5. CASE UNCHANGED vars
  BY <1>5 DEF vars, driverVars, runVars
<1> QED
  BY <1>1, <1>2, <1>3, <1>4, <1>5
  DEF LinkEvent, Connect, Drop, Subscribe

LEMMA SenderStep == ASSUME PTypeOK, SenderInv, [PNext]_allVars PROVE SenderInv'
<1> USE DEF SenderInv
<1>1. CASE Quiet /\ UNCHANGED bleVars
  BY <1>1, QuietStep DEF bleVars
<1>2. ASSUME NEW s \in Sender, SendSkips(s) \/ ReadAddress(s) \/ Indicate(s)
      PROVE  SenderInv'
  <2>1. due \in [Sender -> {"current", "old", "no"}]
    BY DEF PTypeOK
  <2>2. \A r \in Sender \ {s} : due'[r] = due[r]
    BY <1>2, <2>1 DEF SendSkips, ReadAddress, Indicate
  <2>3. CASE ReadAddress(s)
    <3>1. s = "bt" => bt = "send"
      BY <2>3 DEF ReadAddress, Calling
    <3> QED
      BY <1>2, <2>2, <2>3, <3>1, SendStep DEF Sender
  <2>4. CASE Indicate(s) /\ ~ReadAddress(s)
    <3>1. due'[s] = "no"
      BY <2>1, <2>4 DEF Indicate
    <3> QED
      BY <1>2, <2>2, <2>4, <3>1, SendStep DEF Sender
  <2>5. CASE SendSkips(s) /\ ~ReadAddress(s)
    <3>1. due' = due /\ due[s] = "no"
      BY <2>5 DEF SendSkips
    <3> QED
      BY <1>2, <2>5, <3>1, SendStep DEF Sender
  <2> QED
    BY <1>2, <2>3, <2>4, <2>5
<1>3. CASE \/ NewAddress \/ Connected \/ CloseClient \/ Forget \/ LinkEvent
           \/ \E c \in App : Connect(c) \/ Drop(c) \/ Subscribe(c)
  <2>1. \A s \in Sender : due[s] = "no" => due'[s] = "no"
    <3>1. CASE NewAddress
      BY <3>1 DEF NewAddress
    <3>2. CASE CloseClient
      BY <3>2 DEF CloseClient, Breaks, bleVars
    <3> QED
      BY <1>3, <3>1, <3>2
      DEF Connected, Forget, LinkEvent, Connect, Drop, Breaks, Subscribe
  <2>2. hand' = "notify" \/ due["event"] = "no" \/ UNCHANGED hand
    BY <1>3, WifiEffect DEF Connected, OnWifiConnected, Called
  <2>3. bt = "idle" \/ UNCHANGED bt
    <3>1. CASE CloseClient
      BY <3>1 DEF CloseClient, Breaks, bleVars
    <3> QED
      BY <1>3, <3>1
      DEF NewAddress, Connected, Forget, LinkEvent, Connect, Drop, Breaks,
          Subscribe, Writes
  <2> QED
    BY <1>3, <2>1, <2>2, <2>3, WifiEffect DEF Sender
<1> QED
  BY <1>1, <1>2, <1>3, Steps

\* Present survives only steps that keep the subscription and the ID.
LEMMA TellStep ==
    ASSUME IInv, PTypeOK, SenderInv, UpInv, TellInv, [PNext]_allVars
    PROVE  TellInv'
<1> SUFFICES ASSUME drv' = "up", NEW c \in App, Present(c)', c \notin told'
             PROVE  Telling'
  BY DEF TellInv
<1> USE DEF Telling
<1>1. ASSUME drv = "up", Present(c), c \notin told PROVE Telling
  BY <1>1 DEF TellInv
<1>2. CASE Quiet /\ UNCHANGED bleVars
  <2>1. Telling
    BY <1>1, <1>2, QuietStep DEF bleVars, linkVars, Present
  <2> QED
    BY <1>2, <2>1, QuietStep DEF bleVars
<1>3. CASE NewAddress
  <2>1. Post("gotIp") /\ events \in Seq(Event) /\ "gotIp" \in Event
    BY <1>3 DEF NewAddress, Joins, IInv, TypeOK, Event
  <2> QED
    BY <2>1, Posting
<1>4. CASE Connected
  <2>1. /\ due["event"] = "no" /\ UNCHANGED due
        /\ hand' = "notify" \/ fresh = "yes"
    BY <1>4 DEF Connected, OnWifiConnected, Called, SenderInv, IInv, TypeOK
  <2> QED
    BY <1>4, <2>1 DEF Connected
<1>5. CASE LinkEvent
  <2>1. /\ linkEvents # << >> /\ linkEvents' = Tail(linkEvents)
        /\ linkEvents \in Seq(LinkEventType)
    BY <1>5 DEF LinkEvent, PTypeOK, LinkEventType
  <2>2. linkEvents[1][1] = "up" => linkEvents[1][2] \notin subscribed
    BY <2>1, Removing DEF UpInv
  <2>3. UNCHANGED connId
    BY <1>5, <2>1, <2>2, Removing DEF LinkEvent, Present
  <2>4. Telling
    BY <1>1, <1>5, <2>3, WifiEffect
    DEF LinkEvent, Present, vars, driverVars
  <2> QED
    BY <1>5, <2>4 DEF LinkEvent, vars, driverVars
<1>6. CASE CloseClient \/ Forget \/ \E d \in App : Connect(d) \/ Drop(d)
  <2>1. /\ subscribed' \subseteq subscribed /\ UNCHANGED <<connId, due, bt, owed>>
        /\ told \ told' \subseteq subscribed \ subscribed'
    BY <1>6
    DEF CloseClient, Forget, Connect, Drop, Breaks, bleVars, linkVars, PTypeOK
  <2>2. (~NewAddress /\ ~Connected) \/ Telling'
    BY <1>3, <1>4
  <2>3. drv = "up" \/ Telling'
    BY <1>6, <2>2, WifiEffect, Zenon
  <2>4. Telling \/ Telling'
    BY <1>1, <2>1, <2>3 DEF Present
  <2> QED
    BY <1>6, <2>1, <2>2, <2>4, WifiEffect
<1>7. ASSUME NEW d \in App, Subscribe(d) PROVE Telling'
  <2>1. UNCHANGED <<vars, linkVars, due, told, owed>> /\ bt = "idle"
        /\ subscribed' = subscribed \cup {d}
        /\ bt' = IF connected = "yes" THEN "send" ELSE "idle"
    BY <1>7 DEF Subscribe, Writes
  <2>2. due["bt"] = "no"
    BY <2>1 DEF SenderInv
  <2>3. connected \in {"yes", "no"}
    BY DEF IInv, TypeOK
  <2> QED
    BY <2>1, <2>2, <2>3 DEF vars
<1>8. ASSUME NEW s \in Sender, SendSkips(s) \/ ReadAddress(s) \/ Indicate(s)
      PROVE  Telling'
  <2>1. /\ UNCHANGED <<drv, events, connected, connId, subscribed>>
        /\ due \in [Sender -> {"current", "old", "no"}]
    BY <1>8, SendStep DEF PTypeOK
  <2>2. CASE SendSkips(s)
    BY <2>1, <2>2, AppAssumption DEF SendSkips, Present
  <2>3. CASE ReadAddress(s)
    <3>1. due'[s] = "current" /\ Calling(s) /\ UNCHANGED <<hand, bt>>
      BY <2>1, <2>3 DEF ReadAddress, vars
    <3>2. /\ s = "event" => hand = "notify"
          /\ s = "bt" => bt = "send"
      BY <3>1 DEF Calling
    <3> QED
      BY <3>1, <3>2 DEF Sender
  <2>4. CASE Indicate(s)
    <3>1. /\ due[s] # "no" /\ due' = [due EXCEPT ![s] = "no"] /\ UNCHANGED owed
          /\ told \subseteq told'
          /\ due[s] = "current" => c \in told'
      BY <2>1, <2>4 DEF Indicate, Present
    <3>2. due[s] = "old" /\ Telling
      BY <1>1, <2>1, <3>1 DEF Present
    <3>3. \A r \in Sender \ {s} : due'[r] = due[r]
      BY <2>1, <3>1
    <3>4. ~ReadAddress(s)
      BY <3>1 DEF ReadAddress
    <3> QED
      BY <1>8, <2>1, <3>1, <3>2, <3>3, <3>4, SendStep DEF Sender
  <2> QED
    BY <1>8, <2>2, <2>3, <2>4
<1> QED
  BY <1>2, <1>3, <1>4, <1>5, <1>6, <1>7, <1>8, Steps

LEMMA PInductive == PInv /\ [PNext]_allVars => PInv'
<1> SUFFICES ASSUME PInv, [PNext]_allVars PROVE PInv'
  OBVIOUS
<1>1. IInv'
  BY WifiStep, Inductive DEF PInv
<1> QED
  BY <1>1, PTyping, SenderStep, UpStep, HiddenStep, TellStep DEF PInv

LEMMA PInitially == PInit => PInv
<1> SUFFICES ASSUME PInit PROVE PInv
  OBVIOUS
<1>1. IInv
  BY Initially DEF PInit
<1>2. linkEvents = << >> /\ Len(linkEvents) = 0 /\ linkEvents \in Seq({"up", "down"} \X App)
  BY EmptySeq DEF PInit
<1>3. PTypeOK
  BY <1>1, <1>2 DEF PInit, PTypeOK, IInv
<1> QED
  BY <1>1, <1>2, <1>3, AppAssumption
  DEF PInit, Init, PInv, SenderInv, Sender, UpInv, HiddenInv, TellInv, Present

-----------------------------------------------------------------------------
(* Every variable of the composition has its type.                         *)
THEOREM PTypeCorrect == PSpec => []PTypeOK
<1>1. PInv => PTypeOK
  BY DEF PInv
<1> QED
  BY PInitially, PInductive, <1>1, PTL DEF PSpec

(* No app that subscribed is forgotten, for any number of apps, senders in *)
(* their delay, losses, reports and messages, and without any priorities.  *)
THEOREM NoSubscriberForgotten == PSpec => []SubscriberIsTold
<1>1. PInv => SubscriberIsTold
  BY DEF PInv, IInv, TypeOK, LinkInv, TellInv, Telling, SubscriberIsTold, Settled
<1> QED
  BY PInitially, PInductive, <1>1, PTL DEF PSpec

(* A device that cannot be discovered holds a link that its forced close   *)
(* reaches, for any number of apps.                                        *)
THEOREM HiddenAreClosable == PSpec => []HiddenIsClosable
<1>1. PInv => HiddenIsClosable
  <2> SUFFICES ASSUME PInv, linkEvents = << >>, adv = "off" PROVE connId \in conn
    BY DEF HiddenIsClosable
  <2>1. Len(linkEvents) = 0
    BY EmptySeq
  <2> QED
    BY <2>1 DEF PInv, HiddenInv
<1> QED
  BY PInitially, PInductive, <1>1, PTL DEF PSpec
=============================================================================
