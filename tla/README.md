# Formal models of the ESP32-C6 smart light

TLA+ models of the firmware in `src/` (ESP-IDF, C, FreeRTOS on the one core of
an ESP32-C6), TLC runs that check them on small instances, and theorems that
TLAPS checks for every value of the constants.

The firmware is a light with a BLE interface for provisioning and an HTTP
interface for control and updates. Its difficulty is not in any one function,
but in seven tasks that share static variables without a lock, in callbacks
that run in tasks of the vendor's stacks, and in state that outlives power
failures.

## 1. Inventory

### Tasks

| Task | Runs | Priority |
|---|---|---|
| `app_main` | initialisation, connection with the stored credentials | 1 |
| event loop task | `wifi_event_handler`, the callbacks of `main.c`, hence `http_server_start` and `http_server_stop` | 20 |
| Bluetooth task | GATT and GAP callbacks of `ble_manager.c` | 19 |
| credentials task | `wifi_manager_handle_new_credentials_task` | 5 |
| confirmation task | `ble_manager_handle_device_info_confirmation` | 5 |
| httpd task | URI handlers, one request at a time | 5 |
| OTA task | `ota_manager_task_func`, while an update runs | 5 |

### Components

| Component | State | Operations | What makes it correct |
|---|---|---|---|
| NVS storage | keys ssid, password, device name, device ID; a write is durable once committed | save credentials, save device info, delete all, erase at boot | device info, which makes a later save return early, is only there with usable credentials; a pair is never torn; a delete leaves nothing |
| Device info | BLE handle, interface and connection ID | save after a connection, notify the app, close its link | credentials that worked are stored; the app that subscribed is told |
| Wi-Fi manager | retry counter, connected flag, event group, configuration, mailbox (flag, buffer, length) | connect, handle events, retry, take a message, disconnect | the flag tells the truth; only accepted credentials are saved; a message is not lost; a forgotten network stays forgotten |
| HTTP server | handle, running flag | start, register six routes, stop, serve | a running server is complete; start never leaks a server; stop returns |
| GPIO control | mirror of the pin | initialise, toggle, set | the mirror is true |
| OTA manager | two partitions, boot selection, in-progress flag, progress, status message | request, download, validate, select, restart, poll | always bootable; one update at a time; the flag is truthful and is cleared; nothing leaks |
| BLE manager | layers of the stack, message buffer, two confirmation flags, handles | bring the stack up, set up service, advertise, collect chunks, detect messages, act on a failure | an acknowledged message is detected; a reported failure is acted on; the device can be reached |
| main | none | initialisation, boot connection, creation of tasks, two callbacks | a device that is on its network is served |

### How they interact

- BLE -> Wi-Fi: `wifi_manager_set_new_credentials` fills the mailbox, from the
  Bluetooth task; the credentials task polls it every second.
- Wi-Fi -> storage: after a connection the credentials task calls
  `device_manager_save_device_info`, which reads and writes NVS.
- BLE -> storage, Wi-Fi: a failure reported by the app makes the confirmation
  task delete the NVS keys and disconnect the station.
- Wi-Fi driver -> Wi-Fi manager: events through the queue of the default event
  loop; the handler answers a disconnection with `esp_wifi_connect`.
- Wi-Fi -> HTTP: the callbacks in `main.c` start and stop the server from the
  event loop task; `httpd_stop` waits for the httpd task.
- HTTP -> OTA, GPIO: URI handlers. The update handler creates the OTA task and
  shares the in-progress flag, the progress and the status message with it.
- Wi-Fi -> BLE: device info is sent, and links are closed, from the event loop
  task and the credentials task.

### What is hard

- *Mailboxes made of flags*: the Wi-Fi mailbox and the confirmation flags are
  polled, worked on for seconds, and then reset whatever happened meanwhile.
- *Two sources of connection attempts*: the handler's retries and
  `wifi_manager_connect` use the same driver, whose answers are events that do
  not say which attempt they belong to.
- *A timeout that races the answer*: 15 seconds against a late `GOT_IP`.
- *Storage in several writes*, with power failing or another task deleting in
  between, and an early return that trusts what is there.
- *Blocking in a callback*: the event loop task waits for the httpd task.
- *One message buffer* for all clients, both ways of writing and all links.
- *Update*: many error paths, each with its own clean-up by hand.

Each of these is listed with its line under `hazards` in `PROJECT.json`.

## 2. Plan

| Step | Module | State |
|---|---|---|
| 1 | `NvsManager`: storage, saving and deleting, power failures | done, proved |
| 2 | `OtaManager`, abstract `FirmwareInstall` | done, proved, refinement proved |
| 3 | `WifiManager`: driver, handler, credentials task, mailbox | done, proved |
| 4 | `HttpServer`: server, light | done, safety proved |
| 5 | `BleManager`: chunked messages, confirmation | done, proved |
| 6 | Boot: `app_main` in `WifiManager`, `ble_manager_init` in `BleManager`, `gpio_control_init` in `HttpServer` | done, proved |
| 7 | `Provisioning`: `WifiManager` with the links of the apps, the notification of device info, the connection ID that is read after a delay, the forced close | done, proved; implements `WifiManager` |
| 8 | Proofs of the properties that were only model-checked: `SingleFaultKeepsPair`, `CleanMessageDetected`, `SavedWasAccepted` (an invariant on which attempt an event belongs to) | done |
| 9 | Abstract `ConfigStore` for the storage: a device that is unconfigured or configured, with faults | done, implemented by `NvsManager`, proved |
| 10 | Errors of the driver and of `httpd_stop` in `WifiManager`; what is left of a server when the network is gone (`DownIsUnserved`); nothing but acknowledged messages is detected (`OnlyWrittenIsDetected`); progress of an update as a safety property (`UpdateAdvances`) | done, proved |
| 11 | Less taken on trust: attempts that hang and callbacks of any length in `WifiManager`, clients that never finish in `HttpServer`, braces inside a message in `BleManager`, no memory for the buffer in `OtaManager`, torn pairs told apart in `NvsManager` | done, proved |
| 12 | `ConfigStore` in place of the single variable `stored` of `WifiManager`, so that provisioning is followed from the app to the flash | open |

## 3. Modules

State variables carry the names of the C variables where TLA+ allows it, and
each says which one it stands for where it is declared. Booleans are `"yes"` and
`"no"`. A variable marked *history* has no counterpart and feeds no guard.

### NvsManager, ConfigStore

One action per call of the NVS API (`SetSsid`, `EraseName`, `CommitInfo`, ...),
so that the credentials task and the confirmation task interleave between any two
calls. A call may fail (`Fault`): a save then stops where it stands
(`nvs_manager.c`, `goto cleanup`), a delete goes on with the next key
(259-276). `nvs` is what a read returns, `committed` what is sure to survive;
after a `PowerFailure` a key written since its last commit has either value.
`Serialized` keeps save and delete apart, to separate what faults can do from
what the missing lock can do. `trust` is history: a delete that was cut short, or
a read error that hid device info, leaves a state nothing is promised of until
a clean delete.
`ConfigStore` is what the rest of the firmware takes the storage for: one value, set
when there is none and removed in one step, that a power failure may take back to what
was last synchronised but never mixes. `NvsManager` maps `current` and `durable` to the
credentials in `nvs` and `committed` when all four keys are there, to no
configuration when one is missing, and to `Unknown` while `trust` is `"suspect"`: the
device info, written last and erased with the rest, is what makes the others count. All
four keys with the ssid of one network and the password of another are mapped to
`"torn"`, which is none of the values of `ConfigStore`: no step of it leads there, so that
the refinement fails at the first call or power failure that shows such a pair.
The write of the last of the four keys is `Provision`, a commit of a save `Sync`, the erase of
the ssid `Forget`, the commit of a delete that met no error, or the erase at boot, `Wipe`; a delete
with an error, or cut short, is `Damage`, and so is a read error that hides device info.

### OtaManager, FirmwareInstall

The steps of `ota_manager_ota_update_handler` (test of the flag, body, claim,
`strdup`, `xTaskCreate`, progress, status) and of
`ota_manager_perform_ota_update` (client, headers, `esp_ota_begin`, chunks,
`esp_ota_end`, `esp_ota_set_boot_partition`, restart), each with its error
path and what that releases (`held`, `urls`). `AllocateBuffer`, after `esp_ota_begin`, is the one
without memory for the buffer: it has a client and an OTA handle to release. A partition holds the first so
many units of one image, or no image. `PowerFailure` may come between any two
steps; the bootloader then runs the selected partition if it is whole.
`FirmwareInstall` is what the user sees: an installed and an active image.
`OtaManager` maps `installed` to the image in the selected partition and
`active` to the image of the running one.
`Callers` names the entry points in use. Nothing in the repository calls
`ota_manager_start_update`; were both used, the test and the set of the flag
would race and `OneUpdateAtATime` would fail.

### WifiManager

The driver and its event queue are modelled from how the code uses them: an
attempt ends in `gotIp` or `lost`, or hangs (an access point that lets the station in, and no
DHCP server that answers); a link can be lost; a second connect is
refused, and a new configuration may be (the driver refuses it while it connects, and
`wifi_manager.c` 135-139 gives up for any error). The handler
is one action per branch; the callbacks of `main.c` are steps of their own,
because the tasks below run while the handler waits in one, for as long as it takes.
Three calls that the code makes
without regard to their result may fail, up to `MaxErrors` times: `esp_wifi_connect` of a
retry (`wifi_manager.c` 187-190 logs the error and counts the retry), `httpd_stop` in the
callback (`main.c` 56), and `esp_wifi_disconnect` (121-125 and 357). The history variable
`mishap` says which of them failed since the handler took its latest event.
`app_main` begins with `Initialise`, which stands for all it initialises and may
abort (`at = "halted"`: the device reboots, and that is another behaviour);
it reads the saved credentials, connects, and creates the two tasks, each of
which may be missing afterwards. BLE is initialised before the tasks exist, so a
message can be in the mailbox when its task begins. `wifi_manager_connect` is
six steps, run by `app_main` (`who = "boot"`) or by the
credentials task, which adds `TakeMessage`, `Parse`, `Wait`, `Save`, `TaskNotified`,
`ClientClosed`, `ResetFlag`, `ResetBuffer`. `hand = "notify"` and `at = "notify"` are
the handler and the task in `send_device_info_via_ble`. A message rewritten during the parse yields
any credentials, those that mix the two messages included, or no JSON. The Bluetooth task puts
messages (`SetNewCredentials`); the confirmation task forgets the network (`Delete`, then
`wifi_manager_disconnect`: `DisconnectBegin`, which tests and lowers the flag, and `Disconnect`, or
`NothingToDisconnect`). With `Prioritized`, the event loop task runs before the
tasks of priority 5 whenever it has an event to handle; this is what the
priorities and the one core (`sdkconfig`, `CONFIG_FREERTOS_UNICORE`) give. No theorem
rests on it. The history variable `stale` is set when `wifi_manager_connect` clears the event bits,
or an old link comes down right after that, and says whether a `GOT_IP` of an earlier attempt was on
its way then.

### Provisioning

`WifiManager` with the BLE side of provisioning: links of several apps, their events
on the way to the Bluetooth task, subscriptions (a CCCD write), and device info. Every
action is one of `WifiManager` with its effect on the apps, or leaves the variables of
`WifiManager` alone. `send_device_info_via_ble` is `ReadAddress` (the address is read and
formatted) and, after the delay, `Indicate` (the connection ID is read and the
notification sent), or `SendSkips` when no app ever connected; the event loop task, the
credentials task and the Bluetooth task run it, each in its own place, and may
all be in their delay at once. While the Bluetooth task is in it, it handles no
event. `due` says what each sender has in hand; a GOT_IP makes it `"old"`.
`CloseClient` is the forced close after a failed attempt: it takes the connection
ID that was announced last, whether or not that link still exists. `told` and `owed` are
history. The parsing of messages is left to `BleManager`: an app sends credentials or a
failure report in one step.

### HttpServer

`gpio_control_init` comes first, and the device boots again when it fails. Start, one `Register` per route, stop in its phases (`httpd_stop` refuses, or
waits for the task), run by the event loop task; the httpd task serves toggles
and the body of an update request between them. `light` is `s_light_state`, `pin`
the output. A request to update is served in two steps: `UpdateRequest` enters the receive
loop, and `BodyEnds` leaves it, which the code does only once the client has sent the rest or
closed (`client`; `SendsRest`, `Closes`), because a receive that times out is repeated. `SetLight` is `gpio_set_light_state`, which only the on-target tests call,
without a server. The routes that only read are left out.

### BleManager

`InitCall` is `ble_manager_init`, call by call: four of the calls bring up a layer of the
stack (`layers`), the function's local flags remember which (`flags`), and a failed call
leads to `CleanUp`, whose own calls may fail and then leave a layer up. The
Bluetooth task may handle the registration event before the function has returned.
Setup is the chain of GATT events, each of which may break it; advertising
starts with the first of two data sets. A message is a row of units, a
write up to `Mtu` of them. `Write`, `Overflow`, `Prepare`, `Execute` and `Cancel` are the
branches of `ESP_GATTS_WRITE_EVT` and `ESP_GATTS_EXEC_WRITE_EVT`; `IsObject` is the
test of the first and last byte, `Parses` what `cJSON_Parse` accepts, which
includes an object followed by anything. `Opening` and `Closing` say which units of a message
begin with `{` and end in `}`: the first and the last, and any others, inside a network name or a
password. A plain write that ends at one of these is taken for the end of the message
(`ble_manager.c` 533-538): `Write` then processes and clears the buffer in mid-message.
`clean` is history: it is `"no"` from a broken link, a second writer or a message cut in two by such
a write until the buffer is empty again with nobody writing.

## 4. Runs

| Run | Expect | Shows |
|---|---|---|
| `nvs_serial` | pass | with three faults anywhere and no overlap: `SaveIsFailSafe` (device info never without a whole pair), `SingleFaultKeepsPair`, `CleanDeleteUnconfigures`, `OneErrorLeavesNoInfo` (a delete with one error does not block the next save), `FinishedSaveIsDurable` (a save that gets to its end is on the flash), refinement of `ConfigStore`, which has no torn pairs |
| `nvs_reprovision` | violation | a provisioned device that connects with new credentials does not store them (`device_info.c` 135) |
| `nvs_overlap` | violation | a delete during a save leaves device info without credentials |
| `ota_http` | pass | always bootable, one update, truthful flag, real success, no leak, `EndIsReported`, refinement of `FirmwareInstall`, each step of an update brings it nearer to its end (`UpdateAdvances`), updates end |
| `wifi` | pass | boot, messages, losses, reports and errors, with attempts that hang and callbacks of any length: `ConnectedIsTrue`, `SavedWasAccepted` (a network let the station in with what is saved), `UpIsServed` (no stop comes after the start it should precede), `DownIsUnserved` (a station that is down and makes no attempt does not serve), `HttpStopsAfterLoss` |
| `wifi_mailbox` | violation | a message that arrives during the processing of another is erased |
| `wifi_forget` | violation | the retry after a deliberate disconnect rejoins the deleted network |
| `http` | pass | `RunningIsTrue`, `ServesAllRoutes`, `LightIsMirrored`, `OnlyAClientHoldsIt` (nothing but a client that keeps its own request open holds the event loop task) |
| `http_stuck` | violation | one client that does not finish a body holds the event loop task for good |
| `provision` | pass | `SubscriberIsTold` (the app the device knows of gets the current address, whenever it subscribed), `HiddenIsClosable` (a device that does not advertise knows a link that it can close) |
| `ble` | pass | with braces inside a message: `CleanMessageDetected` (what is acknowledged is detected), `OnlyWrittenIsDetected` (and nothing else is), `ReportPends`, `StackUnwinds`, `ServiceComplete`, `Reachable` |
| `ble_leftover` | violation | after a link that broke in mid-message, the next message is acknowledged and lost |

A violation run checks one property, which states what a comment of the code
says; `findings` in `PROJECT.json` quotes it.

### Bounds, and why they are enough

- `NvsManager`: two credentials, so that a pair can be torn; three faults, one to
  leave something behind, one to make it matter and one, of the power, in what repairs it. One identity, as it derives
  from the MAC address.
- `OtaManager`: two partitions, as in `partitions_custom.csv`; a factory image, a newer
  and a corrupt one of different sizes; announced lengths up to 3 and chunks
  up to 2 units cover short, exact and long downloads and images with a header in
  the first chunk or not; two tasks, so that a second one could exist.
- `WifiManager`: two retries instead of five: zero, some and all are there; two
  messages, one whose events come late and one that they could answer, or that disturbs the
  mailbox; one loss and one report; one error, of a retry, a disconnect or a stop; three
  queued events, more than the tasks can leave unhandled while the handler is in a
  callback (the queue of the firmware has 32). The theorems cover the rest: more messages behind
  each other, more errors, any queue.
- `Provisioning`: two apps, so that one can come while the other goes, and so that an ID
  can be stale; one retry, one message, one loss, one report: a reconnection by the
  handler, one by the task and a failed attempt are all there. No errors: `wifi` has them, and the
  theorems. The apps are symmetric:
  nothing orders them, and the run checks safety only. TLC takes states for the same that differ
  only in `http`, `forgot` and `stale` (`ProvisioningView`): without errors nothing else depends on these
  three, and `wifi` checks them.
- `HttpServer`: the six routes of the code, two faults: one is cleaned up, the
  second hits the clean-up.
- `BleManager`: two apps; a message of one write, one of two writes, one of two writes
  whose first ends in a brace, and one larger than the buffer; three messages: one to disturb, one to suffer, one to
  recover.

`CHECK_DEADLOCK FALSE` is set where budgets run out and nothing has to happen
then: the app has sent its messages, links need not break. The counters `left`
and `faults` are these budgets; nothing in the code corresponds to them.

### Fairness

- `OtaManager`: the task takes steps, because each of its blocking calls has a
  timeout (`HTTP_RESPONSE_TIMEOUT_MS`) and reads return at least a byte; a
  handler that has tested the flag goes on, which assumes that its client sends its body or
  closes (`http_stuck` is about one that does not). Power failures and polls are not fair.
- `WifiManager`: the event loop task, the highest of the application's, handles the next event and
  comes back from what it calls, but for `on_wifi_disconnected`, whose stop waits for clients.
  Nothing is assumed of the driver, whose attempts may hang, nor of the other
  tasks, messages, reports and losses. What `HttpStopsAfterLoss` needs of them is its premise: the
  station is not up any more, and it is down, not in an attempt, again and again.
- `HttpServer`: both tasks run; leaving the server's
  loop needs strong fairness, since requests interrupt it and
  it looks at its control socket after every one; a receive returns once its client has sent
  or closed. Nothing is assumed of clients: that they do not keep a request open is the premise of
  `OnlyAClientHoldsIt`, and `http_stuck` shows what happens without it.
- `NvsManager`, `BleManager`, `Provisioning`: safety only, no fairness. What must
  happen in `Provisioning` is stated as what holds in states where nobody is at work
  (`SubscriberIsTold`), which needs none.

### What holds only within limits

- `SavedWasAccepted` leaves out two orders (`stale`), in which a `GOT_IP` of an earlier
  attempt answers the new one: the event is still queued when `wifi_manager_connect` clears the
  bits, because the handler is in a callback, or has yet to take it; or the old network's link,
  brought about by a retry, comes up after
  `esp_wifi_disconnect` and down again before `esp_wifi_connect`. Both are in the model, and
  without this condition TLC refutes the property: credentials that nobody accepted are then
  saved. The code has nothing against it, as the event bits do not say whose they are.
- `ConnectedIsTrue` leaves out the time from an `esp_wifi_disconnect` that fails, after the flag was
  lowered, to the next event; so does `SubscriberIsTold`.
- `ServesAllRoutes` holds with at most one fault; after a second one, of
  `httpd_stop` in the clean-up, a server without all its routes stays.
- `ReportPends` is about a failure that finds the confirmation task polling. One
  that comes while the task is at work is dropped (`report = "late"`).
- A retry that was refused brings no event, so the handler does not get to its last retry and to the
  stop; a failed stop is not repeated. In both cases a device without a network keeps its
  server. `DownIsUnserved` and `HttpStopsAfterLoss` excuse this until the handler takes another
  event, and no longer (`mishap`). `HttpStopsAfterLoss` also excuses a station that stays in one
  attempt for good, and a handler that waits in the stop.
- `CleanMessageDetected` leaves out a message cut in two by a write that ends in a brace: it is
  acknowledged and lost. Neither half is taken for a message (`OnlyWrittenIsDetected`).
- `StoresAsOne` promises nothing from a delete that was cut short, or a read error that hid
  device info, until the next delete that meets no error.
- `Reachable` holds without faults: a failed start of advertising is not retried.
- `SubscriberIsTold` leaves out an address that arrived while a message was pending which
  was then rejected (`owed`): the handler leaves the notification to the credentials
  task, and the task notifies only after a success. It speaks of the connection
  announced last; an app connected besides it is told nothing. A device info that
  cannot be built or sent (no memory, congestion) is logged and not repeated; the
  model has no such failure. An app that disables notifications again is taken
  as one that still wants them, as the device does.
- `HiddenIsClosable` takes connection IDs as unique; the stack numbers links with small
  integers and may use one again.
- `EndIsReported` allows "OTA update started" after the end: the handler writes it after
  `xTaskCreate`, so a task that failed at once may have its message replaced by it.
- `StackUnwinds` is about one failed call; a clean-up that itself fails leaves its layer up.

## 5. Proofs

Each `*_proofs` module holds the theorems about one module and the lemmas they
rest on. TLC has checked the inductive invariants on the instances above.

- `NvsManager_proofs`. `TypeCorrect` needs the typing of the four keys per step
  of a save. `FailSafeSave` assumes `Serialized`; its invariant says, for each
  step of a save and of a delete, which keys hold what: once the credentials
  are committed both `nvs` and `committed` have the whole pair, device info is
  only written after that, and whatever device info survives in `nvs` or
  `committed` comes with that pair, unless `trust` is `"suspect"`. `CleanDelete` is an action
  property from the same invariant. `SingleFault` adds an invariant of its own: before the
  first fault the store is blank or provisioned and no mix of `nvs` and `committed` is a torn
  pair; after it every pair is whole but between the two items of a save. `FinishedSave` needs
  that a save carries its own credentials from the commit on, whatever it found before.
  `ImplementsConfigStore` goes through the actions: before the last key of a save is written, neither
  `nvs` nor `committed` is a configuration, and once a delete has erased the ssid `nvs` is none,
  so all steps but the ones named in section 3 stutter. A power failure is the step to look
  at: key by key it takes the old or the new value, and the invariant is what makes the
  outcome one of the two configurations; on a trusted store the value `"torn"` never comes up.
  `OneErrorDelete` counts the error: after one, at most one of name and ID is left when the delete
  ends.
- `OtaManager_proofs`. `TypeCorrect`, `NoLeak` and `UpdateGetsOn` hold with either entry point or
  both in use, racing for the flag: `BaseInv` follows what each task holds and who owns each
  URL, and never the flag. `UpdateGetsOn` is the step that a termination argument needs: a rank of
  stages and, during the download, of bytes still to come falls with every step of the
  task, and rises only when the task is created. That the steps are taken is fairness,
  and `UpdateEnds` stays with TLC. The rest is for `Callers = {"httpd"}`. The invariant ties the handler's step to
  the flag and to the number of tasks: from the claim on the flag is set, no
  task exists before `CreateTask`, one exists at most after it, and a task's
  partition is not the running one; before `select` it is not the selected
  one either. From it follow `AlwaysBootable`, `SingleUpdate`, `FlagIsTruthful`,
  `SuccessIsReal`, and, step by step, `ImplementsInstall`: `Select` is the only
  step that maps to `Put`, a reboot maps to `Boot`, all others stutter.
  `FailureIsReported` adds what the status says between the claim and the start
  of the task, and once a task has failed.
- `WifiManager_proofs`. All theorems hold for all constants, with and without `Prioritized`. The
  invariant `LinkInv` says what the last queued event, or the step in
  which the task clears the flag, owes to the state of the driver, unless a disconnect
  failed; `ServeInv` follows the same event until its callback has run. `UnservedWhenDown` is the
  counterpart for a station that is down: as long as nothing failed since the latest event, its
  link, the last queued
  event or the callback about to be called accounts for a server that still runs
  (`UnservedInv`), through every reset of the retry counter and every drop by the task or by
  `wifi_manager_disconnect`. `AcceptedIsSaved` needs to know whose event a `GOT_IP` is: unless
  one of an earlier attempt was left (`stale`), between the clearing of the bits
  and `esp_wifi_connect` a `GOT_IP` in the queue or a connected bit (`Answered`) means that the link is
  up, so that `esp_wifi_connect` is refused; after it, that the attempt of this message got in (`OwnInv`).
- `Provisioning_proofs`. `ImplementsWifi` shows step by step that hiding the links leaves a
  behaviour of `WifiManager`, so that everything proved there holds here; `WifiKeepsItsWord`
  draws the conclusion for its safety properties, with any number of apps. On it rest
  `NoSubscriberForgotten` and `HiddenAreClosable`. The invariants say where a sender is
  while it holds an address (`SenderInv`), that a connection not yet announced belongs to an
  app that has not subscribed (`UpInv`), what the last link event says of a device that
  does not advertise (`HiddenInv`), and that for an app not yet told there is a GOT_IP on
  its way, a callback to run, or a sender at work (`TellInv`).
- `HttpServer_proofs`. `RunningIsTruthful`, `LightStaysMirrored`, and `OneFaultIsCleanedUp` with an
  invariant that counts the fault that leads to a clean-up.
- `BleManager_proofs`. `TypeCorrect`, whose core is that no way of writing leaves more in the
  buffer than `Cap`; `ReportStaysPending`, `AlwaysReachable`; `MessagesAreDetected`, whose
  invariant says that, unless something disturbed the buffer (a brace in mid-message
  included), it holds what the one writer has been acknowledged, and nothing when nobody writes; `NothingElseIsDetected`, which adds that
  in a long write that is too large nothing fits after the first chunk that did not, so that the
  end of a message never follows a gap (`OversizeInv`); `StackIsUnwound`, with the layers
  that each call has behind it; `ServiceIsComplete`, which needs that the profile is set
  before the registration can be awaited.

Assumptions are those on the constants (`NvsAssumption`, `OtaAssumption`,
`WifiAssumption`, `HttpAssumption`, `BleAssumption`, `AppAssumption`), which TLC evaluates on every run, and
the ones named above.

Only model-checked: liveness (`UpdateEnds`, `HttpStopsAfterLoss`,
`OnlyAClientHoldsIt`), which is out of the prover's reach; of `UpdateEnds` the safety
part, `UpdateAdvances`, is proved. Every invariant and action
property of a passing run is stated by a theorem.

## 6. Not modelled

- The inside of `wifi_manager_init` and of `nvs_manager_init` beyond the erase: each of their
  failures aborts `app_main` (one step, `Initialise`).
- Setters of the HTTP server, `ota_manager_start_update` in a run: nothing calls them.
- Lengths and characters of texts: checked before anything changes.
- Text and transport of device info: JSON, name and version are not state.
- Liveness of `Provisioning`: with two apps its behaviours are too many for TLC's
  liveness check, and with one app the interesting cases (a stale ID) are missing.
- Tests, CI, documentation, `sdkconfig` and `common_defs.h`: no behaviour of
  their own; facts from them are used as assumptions.
