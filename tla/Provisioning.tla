---------------------------- MODULE Provisioning ----------------------------
(***************************************************************************)
(* The Wi-Fi manager together with the BLE links of the apps that          *)
(* provision the device. The Bluetooth task handles the events of the      *)
(* links and the writes of the apps; three tasks send device info, each in *)
(* two steps with a delay between: the event loop task after a GOT_IP, the *)
(* credentials task after it has saved, the Bluetooth task in the callback *)
(* of a subscription, in which it handles nothing else. The recipient is   *)
(* the connection that was last announced when the delay is over.          *)
(***************************************************************************)
EXTENDS WifiManager

CONSTANT App       \* mobile apps

ASSUME AppAssumption == None \notin App

VARIABLES
    adv,           \* advertising: "on" or "off"
    conn,          \* apps with a link
    linkEvents,    \* CONNECT_EVT ("up") and DISCONNECT_EVT ("down") not yet
                   \* handled
    connId,        \* ble_conn_id, None before the first connection
    subscribed,    \* apps that have enabled notifications
    bt,            \* the Bluetooth task: "idle", or "send" in a CCCD write
    due,           \* per sender, the address it has read: "current", "old" when
                   \* the station has joined again since, "no" when it is at none
    told,          \* history: apps that got the current address
    owed           \* history: "yes" from a GOT_IP that the handler leaves to the
                   \* credentials task, until anybody reads the address

linkVars == <<adv, conn, linkEvents, connId>>
bleVars == <<linkVars, subscribed, bt, due, told, owed>>
allVars == <<vars, bleVars>>

Sender == {"event", "task", "bt"}

PInit ==
    /\ Init
    /\ adv = "on" /\ conn = {} /\ linkEvents = << >> /\ connId = None
    /\ subscribed = {} /\ bt = "idle"
    /\ due = [s \in Sender |-> "no"]
    /\ told = {} /\ owed = "no"

-----------------------------------------------------------------------------
(* Links. The controller stops advertising when an app connects.           *)

Pending(c) == \E i \in 1 .. Len(linkEvents) : linkEvents[i][2] = c

Connect(c) ==
    /\ adv = "on" /\ c \notin conn /\ ~Pending(c)
    /\ adv' = "off"
    /\ conn' = conn \cup {c}
    /\ linkEvents' = Append(linkEvents, <<"up", c>>)
    /\ UNCHANGED <<vars, connId, subscribed, bt, due, told, owed>>

Breaks(c) ==
    /\ conn' = conn \ {c}
    /\ linkEvents' = Append(linkEvents, <<"down", c>>)
    /\ subscribed' = subscribed \ {c}
    /\ told' = told \ {c}
    /\ UNCHANGED <<adv, connId, bt, due, owed>>

Drop(c) == c \in conn /\ Breaks(c) /\ UNCHANGED vars

\* mutant: a connection ID once set is kept
LinkEventFirstId ==
    /\ bt = "idle" /\ linkEvents # << >>
    /\ linkEvents' = Tail(linkEvents)
    /\ \/ /\ Head(linkEvents)[1] = "up"
          /\ connId' = IF connId = None THEN Head(linkEvents)[2] ELSE connId
          /\ UNCHANGED adv
       \/ /\ Head(linkEvents)[1] = "down"
          /\ adv' = "on" /\ UNCHANGED connId
    /\ UNCHANGED <<vars, conn, subscribed, bt, due, told, owed>>

\* A link that is down does not reset the ID. Advertising starts again: that
\* the call may fail is in BleManager.
LinkEvent ==
    /\ bt = "idle" /\ linkEvents # << >>
    /\ linkEvents' = Tail(linkEvents)
    /\ \/ /\ Head(linkEvents)[1] = "up"
          /\ connId' = Head(linkEvents)[2] /\ UNCHANGED adv
       \/ /\ Head(linkEvents)[1] = "down"
          /\ adv' = "on" /\ UNCHANGED connId
    /\ UNCHANGED <<vars, conn, subscribed, bt, due, told, owed>>

-----------------------------------------------------------------------------
(* Writes of an app with a link, handled when its connection has been.     *)

Writes(c) == c \in conn /\ bt = "idle" /\ linkEvents = << >>

\* mutant: as the event handler, leaves it to the credentials task
SubscribeUnlessFresh(c) ==
    /\ Writes(c) /\ c \notin subscribed
    /\ subscribed' = subscribed \cup {c}
    /\ bt' = IF connected = "yes" /\ fresh = "no" THEN "send" ELSE "idle"
    /\ UNCHANGED <<vars, linkVars, due, told, owed>>

\* mutant: the write is put off, and the link may be gone when it is handled
SubscribePutOff(c) ==
    /\ bt = "idle" /\ linkEvents = << >> /\ c \notin subscribed
    /\ subscribed' = subscribed \cup {c}
    /\ bt' = IF connected = "yes" THEN "send" ELSE "idle"
    /\ UNCHANGED <<vars, linkVars, due, told, owed>>

Subscribe(c) ==
    /\ Writes(c) /\ c \notin subscribed
    /\ subscribed' = subscribed \cup {c}
    /\ bt' = IF connected = "yes" THEN "send" ELSE "idle"
    /\ UNCHANGED <<vars, linkVars, due, told, owed>>

SendCredentials(c) == Writes(c) /\ SetNewCredentials /\ UNCHANGED bleVars

\* The app may be gone when the confirmation task comes to its report.
Report == connId # None /\ ReportFailure /\ UNCHANGED bleVars

-----------------------------------------------------------------------------
(* send_device_info_via_ble, by one of its callers.                        *)

Calling(s) ==
    CASE s = "event" -> hand = "notify"
      [] s = "task"  -> at = "notify" /\ Scheduled
      [] s = "bt"    -> bt = "send"

Returns(s) ==
    /\ CASE s = "event" -> HandlerNotified
         [] s = "task"  -> TaskNotified
         [] s = "bt"    -> UNCHANGED vars
    /\ bt' = IF s = "bt" THEN "idle" ELSE bt

\* There was no connection yet.
SendSkips(s) ==
    /\ Calling(s) /\ due[s] = "no" /\ connId = None
    /\ Returns(s)
    /\ UNCHANGED <<linkVars, subscribed, due, told, owed>>

ReadAddress(s) ==
    /\ Calling(s) /\ due[s] = "no" /\ connId # None
    /\ due' = [due EXCEPT ![s] = "current"]
    /\ owed' = "no"
    /\ UNCHANGED <<vars, linkVars, subscribed, bt, told>>

Indicate(s) ==
    /\ due[s] # "no"
    /\ told' = IF due[s] = "current" THEN told \cup ({connId} \cap subscribed)
                                     ELSE told
    /\ due' = [due EXCEPT ![s] = "no"]
    /\ Returns(s)
    /\ UNCHANGED <<linkVars, subscribed, owed>>

-----------------------------------------------------------------------------
(* The steps of the Wi-Fi manager that the apps or their links feel.       *)

NewAddress ==
    /\ Joins
    /\ due' = [s \in Sender |-> IF due[s] = "no" THEN "no" ELSE "old"]
    /\ told' = {}
    /\ UNCHANGED <<linkVars, subscribed, bt, owed>>

Connected ==
    /\ OnWifiConnected
    /\ owed' = IF fresh = "yes" THEN "yes" ELSE owed
    /\ UNCHANGED <<linkVars, subscribed, bt, due, told>>

\* Closing an ID that is unset, or whose link is gone, does nothing.
CloseClient ==
    /\ ClientClosed
    /\ IF connId \in conn THEN Breaks(connId) ELSE UNCHANGED bleVars

\* wifi_manager_disconnect returns, whatever it did.
Forget ==
    /\ Disconnect \/ NothingToDisconnect
    /\ adv' = "on"
    /\ UNCHANGED <<conn, linkEvents, connId, subscribed, bt, due, told, owed>>

-----------------------------------------------------------------------------
Attempt ==
    \/ NewAddress
    \/ Refused /\ UNCHANGED bleVars

Loss == LinkLost /\ UNCHANGED bleVars

Sends(s) == SendSkips(s) \/ ReadAddress(s) \/ Indicate(s)

Bluetooth == LinkEvent \/ Sends("bt")

PEventHandler ==
    \/ Connected \/ Sends("event")
    \/ /\ \/ Retry \/ RetriesExhausted \/ HandleGotIp
          \/ OnWifiDisconnected
       /\ UNCHANGED bleVars

PBoot == Boot /\ UNCHANGED bleVars

PCredentialsTask ==
    \/ CloseClient \/ Sends("task")
    \/ /\ \/ ConnectBegin \/ ConnectRejects \/ ConnectDrop \/ ConnectConfig
          \/ ConnectClear \/ ConnectStart
          \/ TakeMessage \/ Parse \/ Wait \/ Save \/ ResetFlag \/ ResetBuffer
       /\ UNCHANGED bleVars

PConfirmation ==
    \/ Forget
    \/ (Delete \/ DisconnectBegin) /\ UNCHANGED bleVars

Apps ==
    /\ at # "halted"
    /\ \/ \E c \in App : Connect(c) \/ Drop(c) \/ Subscribe(c) \/ SendCredentials(c)
       \/ Report

PNext ==
    \/ Attempt \/ Loss \/ Bluetooth \/ PEventHandler \/ PBoot
    \/ PCredentialsTask \/ PConfirmation \/ Apps

PSpec == PInit /\ [][PNext]_allVars

-----------------------------------------------------------------------------
(* Every variable has its type; only an app with a link is subscribed, and *)
(* only one that is subscribed is told.                                    *)
PTypeOK ==
    /\ TypeOK
    /\ adv \in {"on", "off"} /\ conn \subseteq App
    /\ linkEvents \in Seq({"up", "down"} \X App)
    /\ connId \in App \cup {None}
    /\ subscribed \subseteq conn /\ told \subseteq subscribed
    /\ bt \in {"idle", "send"} /\ owed \in {"yes", "no"}
    /\ due \in [Sender -> {"current", "old", "no"}]

\* The app that the device knows of waits for device info.
Present(c) == c \in subscribed /\ connId = c

(* No app is forgotten: one that has subscribed, on the connection that    *)
(* was announced last, has got the address of a device that is up, or a    *)
(* sender is about to give it. It may have subscribed before, during or    *)
(* after the connection to the network, with other senders in their delay. *)
(* Only an address that came while a message was pending, and that nobody  *)
(* has read since (the message was rejected), stays untold, and after a    *)
(* disconnect that failed the device says that it has none.                *)
SubscriberIsTold ==
    /\ Settled /\ drv = "up" /\ mishap # "drop"
    /\ bt = "idle" /\ due["task"] = "no" /\ owed = "no"
    => \A c \in App : Present(c) => c \in told

(* A failed attempt gives the device back: it closes the link of the ID    *)
(* that was announced last, which is never reset. While the device cannot  *)
(* be discovered, and no event of a link is pending, this is a link that   *)
(* exists, so that the forced close leads to new advertising, although     *)
(* another app may have come and gone, or may still be connected.          *)
HiddenIsClosable == adv = "off" /\ linkEvents = << >> => connId \in conn
=============================================================================
