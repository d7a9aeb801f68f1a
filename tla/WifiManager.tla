----------------------------- MODULE WifiManager -----------------------------
(***************************************************************************)
(* The Wi-Fi station and its four users: app_main connects with the stored *)
(* credentials, the credentials task with those the BLE callback leaves in *)
(* the mailbox, the event handler retries and calls the callbacks of main, *)
(* and the confirmation task forgets a network. They share retry counter,  *)
(* flags and mailbox without a lock; the driver answers through a queue of *)
(* events. Unless Prioritized, no task relies on its priority.               *)
(***************************************************************************)
EXTENDS Naturals, Sequences

CONSTANTS
    Cred,          \* credentials the mobile app may send
    Accepted,      \* those an access point accepts
    Unusable,      \* a message with an empty or a non-string item
    None,          \* no credentials
    MaxRetry,      \* WIFI_MAXIMUM_RETRY
    QueueLen,      \* bound: events of the driver not yet handled
    MaxMessages,   \* bound: messages the mobile app sends
    MaxLosses,     \* bound: losses of an established link
    MaxReports,    \* bound: failures the mobile app reports
    MaxErrors,     \* bound: retries and disconnects that the driver refuses,
                   \* stops that fail
    Prioritized    \* TRUE: the event loop task (priority 20) runs before the
                   \* tasks of priority 5 whenever it has something to do

ASSUME WifiAssumption ==
    /\ Accepted \subseteq Cred
    /\ Unusable \notin Cred /\ None \notin Cred \cup {Unusable}
    /\ {MaxRetry, QueueLen, MaxMessages, MaxLosses, MaxReports, MaxErrors}
           \subseteq Nat
    /\ Prioritized \in BOOLEAN

VARIABLES
    drv,           \* the driver: "down", "connecting" or "up"
    config,        \* s_wifi_config as the driver knows it
    link,          \* credentials of the attempt or the link, None when down
    events,        \* event loop queue: "lost" (STA_DISCONNECTED), "gotIp"
    hand,          \* the event handler: "idle", the callback it has to call, or
                   \* "notify" while it sends device info
    retry,         \* s_retry_num
    connected,     \* s_wifi_connected
    bits,          \* s_wifi_event_group
    fresh,         \* s_new_wifi_credentials
    text,          \* s_wifi_credentials_buffer, None when cleared
    who,           \* who runs wifi_manager_connect: "boot" or "task"
    at,            \* its next step
    cur,           \* the credentials it works with
    http,          \* the HTTP server: "running", "stopped" or "failed" to start
    stored,        \* credentials in NVS
    conf,          \* the confirmation task: "absent" before app_main creates it,
                   \* "failed", "idle", "delete", "disconnect" or "drop"
    left,          \* budgets of messages, link losses, reports and errors
    mail,          \* history: the last message, "none", "new" or "taken"
    forgot,        \* history: "yes" from a deletion to the next message
    stale,         \* history: whether a GOT_IP of an earlier attempt was left
                   \* when the task began its own, "yes" or "no"
    mishap         \* history: the call that failed since the latest event was
                   \* taken, "retry", "stop" or "drop", or "none"

driverVars == <<drv, config, link>>
mailVars == <<fresh, text>>
runVars == <<who, at, cur>>
history == <<mail, forgot, stale, mishap>>
vars == <<driverVars, events, hand, retry, connected, bits, mailVars, runVars,
          http, stored, conf, left, history>>

\* The steps of app_main, of wifi_manager_connect and of the credentials task.
\* A "halted" device has aborted: it reboots, which is another behaviour.
Step == {"init", "load", "create", "halted", "failed",
         "open", "drop", "config", "clear", "connect",
         "poll", "parse", "wait", "save", "notify", "close", "reset",
         "resetBuffer"}

Init ==
    /\ drv = "down" /\ config = None /\ link = None
    /\ events = << >> /\ hand = "idle"
    /\ retry = 0 /\ connected = "no" /\ bits = {}
    /\ fresh = "no" /\ text = None
    /\ stored \in Cred \cup {None}
    /\ who = "boot" /\ at = "init" /\ cur = None
    /\ http = "stopped"
    /\ conf = "absent"
    /\ left = [messages |-> MaxMessages, losses |-> MaxLosses,
               reports |-> MaxReports, errors |-> MaxErrors]
    /\ mail = "none" /\ forgot = "no" /\ stale = "no" /\ mishap = "none"

Spend(budget) ==
    /\ left[budget] > 0
    /\ left' = [left EXCEPT ![budget] = @ - 1]

\* A task below the event loop task gets to run: on the one core, only while
\* the handler has no event to take, or waits inside a callback.
Scheduled == Prioritized => events = << >> \/ hand # "idle"

-----------------------------------------------------------------------------
(* The driver. It ends an attempt either way, and may lose a link; each    *)
(* time it posts an event. A second connect, or a disconnect of a station  *)
(* that is down, is refused and changes nothing.                           *)

Post(e) ==
    /\ Len(events) < QueueLen
    /\ events' = Append(events, e)

Queued(e) == \E i \in 1 .. Len(events) : events[i] = e

\* The history variable stale, when a link comes down. The bits are cleared,
\* the attempt is not yet made: the GOT_IP of this link was not of it.
Unlinks == stale' = IF at = "connect" /\ drv = "up" THEN "yes" ELSE stale

Joins ==
    /\ drv = "connecting" /\ link \in Accepted
    /\ drv' = "up"
    /\ Post("gotIp")
    /\ UNCHANGED <<config, link, hand, retry, connected, bits, mailVars,
                   runVars, http, stored, conf, left, history>>

Refused ==
    /\ drv = "connecting"
    /\ drv' = "down" /\ link' = None
    /\ Post("lost")
    /\ UNCHANGED <<config, hand, retry, connected, bits, mailVars, runVars,
                   http, stored, conf, left, history>>

LinkLost ==
    /\ drv = "up" /\ Spend("losses")
    /\ drv' = "down" /\ link' = None
    /\ Post("lost") /\ Unlinks
    /\ UNCHANGED <<config, hand, retry, connected, bits, mailVars, runVars,
                   http, stored, conf, mail, forgot, mishap>>

EspConnect ==
    IF drv = "down" THEN drv' = "connecting" /\ link' = config
                    ELSE UNCHANGED <<drv, link>>

\* An error of another kind leaves the station as it is.
EspDisconnect ==
    /\ \/ /\ drv = "down"
          /\ UNCHANGED <<drv, link, events, left, mishap>>
       \/ /\ drv # "down"
          /\ drv' = "down" /\ link' = None /\ Post("lost")
          /\ UNCHANGED <<left, mishap>>
       \/ /\ drv # "down"
          /\ Spend("errors") /\ mishap' = "drop"
          /\ UNCHANGED <<drv, link, events>>
    /\ IF drv' = "down" THEN Unlinks ELSE UNCHANGED stale

-----------------------------------------------------------------------------
(* wifi_event_handler, in the event loop task, and the callbacks of main.  *)

Handles(e) ==
    /\ hand = "idle" /\ events # << >>
    /\ Head(events) = e
    /\ events' = Tail(events)

\* A retry counts also when esp_wifi_connect returns an error.
Retries(limit, status, count) ==
    /\ Handles("lost")
    /\ retry < limit
    /\ connected' = status
    /\ \/ EspConnect /\ mishap' = "none" /\ UNCHANGED left
       \/ Spend("errors") /\ mishap' = "retry" /\ UNCHANGED <<drv, link>>
    /\ retry' = count
    /\ UNCHANGED <<config, hand, bits, mailVars, runVars, http, stored, conf,
                   mail, forgot, stale>>

RetryOnceMore == Retries(MaxRetry + 1, "no", retry + 1)      \* mutant
RetryUncounted == Retries(MaxRetry, "no", retry)             \* mutant
RetryStillConnected == Retries(MaxRetry, connected, retry + 1)  \* mutant

Retry == Retries(MaxRetry, "no", retry + 1)

\* mutant: the callback is only called for a link that was up
RetriesExhaustedQuietly ==
    /\ Handles("lost")
    /\ retry >= MaxRetry
    /\ connected' = "no"
    /\ bits' = bits \cup {"fail"}
    /\ hand' = IF connected = "yes" THEN "onDisconnected" ELSE "idle"
    /\ mishap' = "none"
    /\ UNCHANGED <<driverVars, retry, mailVars, runVars, http, stored, conf,
                   left, mail, forgot, stale>>

RetriesExhausted ==
    /\ Handles("lost")
    /\ retry >= MaxRetry
    /\ connected' = "no"
    /\ bits' = bits \cup {"fail"}
    /\ hand' = "onDisconnected"
    /\ mishap' = "none"
    /\ UNCHANGED <<driverVars, retry, mailVars, runVars, http, stored, conf,
                   left, mail, forgot, stale>>

HandleGotIp ==
    /\ Handles("gotIp")
    /\ retry' = 0
    /\ connected' = "yes"
    /\ bits' = bits \cup {"connected"}
    /\ hand' = "onConnected"
    /\ mishap' = "none"
    /\ UNCHANGED <<driverVars, mailVars, runVars, http, stored, conf, left,
                   mail, forgot, stale>>

Called(callback, server, next) ==
    /\ hand = callback
    /\ hand' = next
    /\ http' \in server
    /\ UNCHANGED <<driverVars, events, retry, connected, bits, mailVars,
                   runVars, stored, conf, left, history>>

\* mutant: a server whose credentials are being replaced is not started
OnWifiConnectedQuiet ==
    Called("onConnected", IF fresh = "yes" THEN {http} ELSE {"running"},
           IF fresh = "no" THEN "notify" ELSE "idle")

\* Device info is left to the credentials task when it is at a message.
OnWifiConnected ==
    Called("onConnected",
           IF http = "running" THEN {"running"} ELSE {"running", "failed"},
           IF fresh = "no" THEN "notify" ELSE "idle")

\* httpd_stop returns an error, which the callback disregards.
StopFails ==
    /\ hand = "onDisconnected" /\ http = "running" /\ Spend("errors")
    /\ hand' = "idle"
    /\ mishap' = "stop"
    /\ UNCHANGED <<driverVars, events, retry, connected, bits, mailVars,
                   runVars, http, stored, conf, mail, forgot, stale>>

OnWifiDisconnected == Called("onDisconnected", {"stopped"}, "idle") \/ StopFails

\* send_device_info_via_ble returns.
HandlerNotified == Called("notify", {http}, "idle")

-----------------------------------------------------------------------------
(* wifi_manager_connect, run by app_main and by the credentials task. Each *)
(* step leads to the next one or gives up: app_main then goes on, the task *)
(* clears its mailbox.                                                     *)

Goes(from, to) ==
    /\ Scheduled
    /\ at = from
    /\ at' = to

Caller(boot, task) == IF who = "boot" THEN boot ELSE task
GivesUp(from) == Goes(from, Caller("create", "reset"))

ConnectBegin ==
    /\ Goes("open", "drop")
    /\ cur # Unusable
    /\ retry' = 0
    /\ connected' = "no"
    /\ UNCHANGED <<driverVars, events, hand, bits, mailVars, who, cur, http,
                   stored, conf, left, history>>

ConnectRejects ==
    /\ GivesUp("open")
    /\ cur = Unusable
    /\ UNCHANGED <<driverVars, events, hand, retry, connected, bits, mailVars,
                   who, cur, http, stored, conf, left, history>>

ConnectDrop ==
    /\ Goes("drop", "config")
    /\ EspDisconnect
    /\ UNCHANGED <<config, hand, retry, connected, bits, mailVars, who, cur,
                   http, stored, conf, mail, forgot>>

\* The driver refuses a new configuration, as it does while it is connecting.
ConnectConfig ==
    /\ \/ Goes("config", "clear") /\ config' = cur
       \/ GivesUp("config") /\ UNCHANGED config
    /\ UNCHANGED <<drv, link, events, hand, retry, connected, bits, mailVars,
                   who, cur, http, stored, conf, left, history>>

Clears(remaining) ==
    /\ Goes("clear", "connect")
    /\ bits' = remaining
    /\ stale' = IF Queued("gotIp") THEN "yes" ELSE "no"
    /\ UNCHANGED <<driverVars, events, hand, retry, connected, mailVars, who,
                   cur, http, stored, conf, left, mail, forgot, mishap>>

ConnectClearForgotten == Clears(bits)     \* mutant

ConnectClear == Clears({})

\* esp_wifi_start and esp_wifi_connect.
ConnectStart ==
    /\ \/ Goes("connect", Caller("create", "wait"))
          /\ drv = "down" /\ EspConnect
       \/ GivesUp("connect") /\ UNCHANGED <<drv, link>>
    /\ UNCHANGED <<config, events, hand, retry, connected, bits, mailVars, who,
                   cur, http, stored, conf, left, history>>

-----------------------------------------------------------------------------
(* app_main. It aborts when wifi_manager_init, or another initialisation,  *)
(* fails; it goes on without a task that could not be created. BLE is      *)
(* initialised earlier, so that a message may be there before any task is. *)

Initialise ==
    /\ at = "init"
    /\ at' \in {"load", "halted"}
    /\ UNCHANGED <<driverVars, events, hand, retry, connected, bits, mailVars,
                   who, cur, http, stored, conf, left, history>>

\* A read that fails counts as no credentials.
LoadSaved ==
    /\ \/ Goes("load", "open") /\ stored # None /\ cur' = stored
       \/ Goes("load", "create") /\ UNCHANGED cur
    /\ UNCHANGED <<driverVars, events, hand, retry, connected, bits, mailVars,
                   who, http, stored, conf, left, history>>

CreateTask ==
    /\ \/ Goes("create", "poll")
       \/ Goes("create", "failed")
    /\ who' = "task" /\ cur' = None
    /\ UNCHANGED <<driverVars, events, hand, retry, connected, bits, mailVars,
                   http, stored, conf, left, history>>

CreateConfirmation ==
    /\ conf = "absent" /\ who = "task" /\ Scheduled
    /\ conf' \in {"idle", "failed"}
    /\ UNCHANGED <<driverVars, events, hand, retry, connected, bits, mailVars,
                   runVars, http, stored, left, history>>

-----------------------------------------------------------------------------
(* The mailbox: wifi_manager_set_new_credentials in the BLE callback, the  *)
(* loop of wifi_manager_handle_new_credentials_task in its own task.       *)

SetNewCredentials ==
    /\ at # "halted" /\ Spend("messages")
    /\ text' \in Cred \cup {Unusable}
    /\ fresh' = "yes"
    /\ mail' = "new" /\ forgot' = "no"
    /\ UNCHANGED <<driverVars, events, hand, retry, connected, bits, runVars,
                   http, stored, conf, stale, mishap>>

TakeMessage ==
    /\ Goes("poll", "parse")
    /\ fresh = "yes" /\ text # None
    /\ cur' = text
    /\ mail' = "taken"
    /\ UNCHANGED <<driverVars, events, hand, retry, connected, bits, mailVars,
                   who, http, stored, conf, left, forgot, stale, mishap>>

\* A message that arrives during the parse may be read in part: the items
\* are then of either message or of both, or the text is no JSON.
Parse ==
    /\ \/ Goes("parse", "open")
          /\ IF mail = "new" THEN cur' \in Cred \cup {cur, text}
                            ELSE UNCHANGED cur
       \/ Goes("parse", "reset") /\ mail = "new" /\ UNCHANGED cur
    /\ UNCHANGED <<driverVars, events, hand, retry, connected, bits, mailVars,
                   who, http, stored, conf, left, history>>

\* The bits are cleared on exit. No bit at all is the timeout of 15 s.
Wait ==
    /\ Goes("wait", IF "connected" \in bits THEN "save" ELSE "close")
    /\ bits' = {}
    /\ UNCHANGED <<driverVars, events, hand, retry, connected, mailVars, who,
                   cur, http, stored, conf, left, history>>

\* device_manager_save_device_info: nothing is written over what is there.
Save ==
    /\ Goes("save", "notify")
    /\ stored' \in {stored, IF stored = None THEN cur ELSE stored}
    /\ UNCHANGED <<driverVars, events, hand, retry, connected, bits, mailVars,
                   who, cur, http, conf, left, history>>

Passes(from, to) ==
    /\ Goes(from, to)
    /\ UNCHANGED <<driverVars, events, hand, retry, connected, bits, mailVars,
                   who, cur, http, stored, conf, left, history>>

\* send_device_info_via_ble and device_info_disconnect_ble_client return.
TaskNotified == Passes("notify", "reset")
ClientClosed == Passes("close", "reset")

ResetFlag ==
    /\ Goes("reset", "resetBuffer")
    /\ fresh' = "no"
    /\ UNCHANGED <<driverVars, events, hand, retry, connected, bits, text, who,
                   cur, http, stored, conf, left, history>>

ResetBuffer ==
    /\ Goes("resetBuffer", "poll")
    /\ text' = None /\ cur' = None
    /\ mail' = "none"
    /\ UNCHANGED <<driverVars, events, hand, retry, connected, bits, fresh,
                   who, http, stored, conf, left, forgot, stale, mishap>>

-----------------------------------------------------------------------------
(* The mobile app reports that it got no device info; the confirmation     *)
(* task then forgets the network.                                          *)

ReportFailure ==
    /\ conf = "idle" /\ Spend("reports")
    /\ conf' = "delete"
    /\ UNCHANGED <<driverVars, events, hand, retry, connected, bits, mailVars,
                   runVars, http, stored, history>>

Delete ==
    /\ conf = "delete" /\ Scheduled
    /\ \/ conf' = "disconnect" /\ stored' = None
       \/ conf' = "idle" /\ UNCHANGED stored
    /\ UNCHANGED <<driverVars, events, hand, retry, connected, bits, mailVars,
                   runVars, http, left, history>>

\* wifi_manager_disconnect tests the flag and lowers it, and then disconnects.
DisconnectBegin ==
    /\ conf = "disconnect" /\ connected = "yes" /\ Scheduled
    /\ conf' = "drop"
    /\ connected' = "no"
    /\ UNCHANGED <<driverVars, events, hand, retry, bits, mailVars, runVars,
                   http, stored, left, history>>

NothingToDisconnect ==
    /\ conf = "disconnect" /\ connected = "no" /\ Scheduled
    /\ conf' = "idle"
    /\ forgot' = "yes"
    /\ UNCHANGED <<driverVars, events, hand, retry, connected, bits, mailVars,
                   runVars, http, stored, left, mail, stale, mishap>>

Disconnect ==
    /\ conf = "drop" /\ Scheduled
    /\ EspDisconnect
    /\ conf' = "idle"
    /\ forgot' = "yes"
    /\ UNCHANGED <<config, hand, retry, connected, bits, mailVars, runVars,
                   http, stored, mail>>

Driver == Joins \/ Refused \/ LinkLost

EventHandler ==
    \/ Retry \/ RetriesExhausted \/ HandleGotIp
    \/ OnWifiConnected \/ OnWifiDisconnected \/ HandlerNotified

Boot == Initialise \/ LoadSaved \/ CreateTask \/ CreateConfirmation

CredentialsTask ==
    \/ ConnectBegin \/ ConnectRejects \/ ConnectDrop \/ ConnectConfig
    \/ ConnectClear \/ ConnectStart
    \/ TakeMessage \/ Parse \/ Wait \/ Save \/ TaskNotified \/ ClientClosed
    \/ ResetFlag \/ ResetBuffer

Confirmation ==
    Delete \/ DisconnectBegin \/ NothingToDisconnect \/ Disconnect

Next ==
    \/ Driver \/ EventHandler \/ Boot \/ CredentialsTask \/ Confirmation
    \/ SetNewCredentials \/ ReportFailure

Spec == Init /\ [][Next]_vars

(* The event loop task gets to run, and comes back from what it calls, but *)
(* for the stop of the server, which waits for a request to end. Nobody    *)
(* else has to do anything: an attempt may hang without an address, and a  *)
(* task wait for one of a higher priority.                                 *)
FairSpec == Spec /\ WF_vars(EventHandler /\ hand # "onDisconnected")

-----------------------------------------------------------------------------
(* Every variable has its type; the retry counter stays within its limit.  *)
TypeOK ==
    /\ drv \in {"down", "connecting", "up"}
    /\ {config, link, stored} \subseteq Cred \cup {None}
    /\ events \in Seq({"lost", "gotIp"}) /\ Len(events) <= QueueLen
    /\ hand \in {"idle", "onConnected", "onDisconnected", "notify"}
    /\ retry \in 0 .. MaxRetry
    /\ connected \in {"yes", "no"} /\ fresh \in {"yes", "no"}
    /\ bits \subseteq {"connected", "fail"}
    /\ {text, cur} \subseteq Cred \cup {Unusable, None}
    /\ who \in {"boot", "task"} /\ at \in Step
    /\ http \in {"running", "stopped", "failed"}
    /\ conf \in {"absent", "failed", "idle", "delete", "disconnect", "drop"}
    /\ mail \in {"none", "new", "taken"} /\ {forgot, stale} \subseteq {"yes", "no"}
    /\ mishap \in {"none", "retry", "stop", "drop"}

Settled == events = << >> /\ hand = "idle" /\ at # "drop" /\ conf # "drop"

(* Once every event is handled, wifi_manager_is_connected tells the truth: *)
(* it is what a CCCD write and wifi_manager_disconnect act on. It is wrong *)
(* only from a disconnect that fails, after the flag was lowered, to the   *)
(* next event.                                                             *)
ConnectedIsTrue ==
    Settled /\ mishap # "drop" => (connected = "yes" <=> drv = "up")

(* The task saves the credentials only of a network that let it in. The    *)
(* event handler's retries use the previous configuration, so that a GOT_IP *)
(* of the old network can answer the new attempt. Two cases apart (stale): *)
(* it is still queued when the bits are cleared, or the old link comes up  *)
(* and down again between that and esp_wifi_connect. In every other order  *)
(* of retries, losses, reports, timeouts and late answers, what is saved   *)
(* was accepted.                                                           *)
SavedWasAccepted ==
    [][stored' \notin {stored, None} /\ stale = "no"
       => stored' \in Accepted]_vars

(* Once every event is handled, a device that is on its network has its    *)
(* HTTP server started, unless that start failed: no stop that an earlier  *)
(* loss brought about comes after the start, and no reconnection, by the   *)
(* handler or by either caller of wifi_manager_connect, goes without one.  *)
UpIsServed == Settled /\ drv = "up" => http # "stopped"

(* Once every event is handled, a device that is off its network and makes *)
(* no attempt does not serve: whoever brought the link down, and whatever  *)
(* retries, resets of the counter and new credentials came in between, the *)
(* handler has used up its retries and called for the stop. A retry that   *)
(* was refused, or a stop that failed, excuses it until the next event     *)
(* only: the next loss has to lead to the stop again.                      *)
DownIsUnserved ==
    Settled /\ drv = "down" /\ mishap = "none" => http # "running"

(* A device that stays off its network, whatever retries it made in        *)
(* between and whoever was in the way, ends with its HTTP server stopped,  *)
(* or at the stop. Attempts that hang, a retry that is refused and a stop  *)
(* that fails excuse it, and new credentials that keep coming would.       *)
HttpStopsAfterLoss ==
    <>[](drv # "up") /\ []<>(drv = "down")
    => <>[](http # "running" \/ hand = "onDisconnected" \/ mishap # "none")

(* A message is only erased once the task has taken it.                    *)
MessageIsProcessed == [][mail = "new" => mail' \in {"new", "taken"}]_vars

(* After a reported failure the station is disconnected, and it does not   *)
(* connect again before new credentials arrive.                            *)
StaysDisconnected ==
    [][drv = "down" /\ drv' = "connecting" => forgot = "no"]_vars
=============================================================================
