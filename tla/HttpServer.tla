----------------------------- MODULE HttpServer -----------------------------
(***************************************************************************)
(* The HTTP server and the light it controls. The Wi-Fi callbacks of main  *)
(* start and stop the server in the event loop task; requests are served,  *)
(* one at a time, by the task that httpd_start creates. httpd_stop waits   *)
(* until that task is gone.                                                *)
(***************************************************************************)
EXTENDS Naturals

CONSTANTS
    Routes,        \* number of routes that are registered
    Toggle,        \* the route of PUT /toggle, in order of registration
    Update,        \* the route of POST /ota/update
    MaxFaults      \* bound: calls of the server or the GPIO that fail

ASSUME HttpAssumption ==
    /\ Routes \in Nat /\ MaxFaults \in Nat
    /\ Toggle \in 1 .. Routes /\ Update \in 1 .. Routes

VARIABLES
    server,        \* s_server: "none" or "handle"
    running,       \* s_server_running, "yes" or "no"
    registered,    \* routes the server knows: the first so many
    evt,           \* what the event loop task does next; "init" until
                   \* gpio_control_init has succeeded
    task,          \* the server's task: "none", "idle", or "body" while the
                   \* update handler reads the body of a request
    client,        \* what the client of that request has done: it is
                   \* "sending" as long as it owes some of the body, which
                   \* it has "sent" or else "closed" the connection
    light,         \* s_light_state
    pin,           \* level of the LED's pin
    faults         \* calls that have failed

serverVars == <<server, running, registered>>
lightVars == <<light, pin>>
vars == <<serverVars, evt, task, client, lightVars, faults>>

Switch == {"on", "off"}

Other(level) == CHOOSE l \in Switch : l # level

Init ==
    /\ server = "none" /\ running = "no" /\ registered = 0
    /\ evt = "init" /\ task = "none" /\ client = "none"
    /\ light = "off" /\ pin \in Switch
    /\ faults = 0

Fault ==
    /\ faults < MaxFaults
    /\ faults' = faults + 1

Goes(from, to) ==
    /\ evt = from
    /\ evt' = to

(* gpio_control_init. app_main calls it before anything can bring a Wi-Fi  *)
(* event about; when it fails the device aborts and boots again. The pin   *)
(* may have either level then.                                             *)
InitLight ==
    /\ \/ Goes("init", "idle") /\ light' = "off" /\ pin' = "off"
          /\ UNCHANGED faults
       \/ Goes("init", "init") /\ Fault /\ pin' \in Switch /\ UNCHANGED light
    /\ UNCHANGED <<serverVars, task, client>>

-----------------------------------------------------------------------------
(* on_wifi_connected and http_server_start. With a handle there already,   *)
(* start returns and changes nothing. The routes come after the task, so   *)
(* the first requests may find only some of them.                          *)

StartServer ==
    /\ server = "none"
    /\ \/ /\ Goes("idle", "register")
          /\ server' = "handle" /\ running' = "yes" /\ registered' = 0
          /\ task' = "idle"
          /\ UNCHANGED faults
       \/ Goes("idle", "idle") /\ Fault /\ UNCHANGED <<serverVars, task>>
    /\ UNCHANGED <<client, lightVars>>

\* mutant: one registration too many
RegisterOnceMore ==
    /\ registered <= Routes
    /\ Goes("register", "register") /\ registered' = registered + 1
    /\ UNCHANGED <<server, running, task, client, lightVars, faults>>

\* mutant: the failure of a registration is only logged
RegisterLogged ==
    /\ \/ Goes("register", "register") /\ registered' = registered + 1
          /\ UNCHANGED faults
       \/ Goes("register", "idle") /\ Fault /\ UNCHANGED registered
    /\ registered < Routes
    /\ UNCHANGED <<server, running, task, client, lightVars>>

Register ==
    /\ registered < Routes
    /\ \/ Goes("register", "register") /\ registered' = registered + 1
          /\ UNCHANGED faults
       \/ Goes("register", "stop") /\ Fault /\ UNCHANGED registered
    /\ UNCHANGED <<server, running, task, client, lightVars>>

AllRegistered ==
    /\ Goes("register", "idle")
    /\ registered = Routes
    /\ UNCHANGED <<serverVars, task, client, lightVars, faults>>

-----------------------------------------------------------------------------
(* on_wifi_disconnected and http_server_stop, which also cleans up after a *)
(* failed registration.                                                    *)

Disconnected ==
    /\ Goes("idle", "stop")
    /\ UNCHANGED <<serverVars, task, client, lightVars, faults>>

\* mutant: the handle is dropped also when httpd_stop fails
StopForgets ==
    /\ IF server = "none" THEN Goes("stop", "idle") /\ UNCHANGED <<server, faults>>
       ELSE \/ Goes("stop", "wait") /\ UNCHANGED <<server, faults>>
            \/ Goes("stop", "idle") /\ server' = "none" /\ Fault
    /\ UNCHANGED <<running, registered, task, client, lightVars>>

\* httpd_stop fails at once, or goes on to wait for the task.
Stop ==
    /\ \/ server = "none" /\ Goes("stop", "idle") /\ UNCHANGED faults
       \/ server = "handle" /\ Goes("stop", "wait") /\ UNCHANGED faults
       \/ server = "handle" /\ Goes("stop", "idle") /\ Fault
    /\ UNCHANGED <<serverVars, task, client, lightVars>>

TaskExits ==
    /\ evt = "wait" /\ task = "idle"
    /\ task' = "none"
    /\ UNCHANGED <<serverVars, evt, client, lightVars, faults>>

Stopped ==
    /\ Goes("wait", "idle")
    /\ task = "none"
    /\ server' = "none" /\ running' = "no" /\ registered' = 0
    /\ UNCHANGED <<task, client, lightVars, faults>>

-----------------------------------------------------------------------------
(* Requests. The handlers of the other routes only read.                   *)

Requested(route) == task = "idle" /\ route <= registered

\* mutant: the state is set whether or not the pin was
ToggleUnchecked ==
    /\ Requested(Toggle)
    /\ light' = Other(light)
    /\ \/ pin' = light' /\ UNCHANGED faults
       \/ Fault /\ UNCHANGED pin
    /\ UNCHANGED <<serverVars, evt, task, client>>

\* light_toggle_handler and gpio_toggle_light.
ToggleLight ==
    /\ Requested(Toggle)
    /\ \/ light' = Other(light) /\ pin' = light' /\ UNCHANGED faults
       \/ Fault /\ UNCHANGED lightVars
    /\ UNCHANGED <<serverVars, evt, task, client>>

\* gpio_set_light_state. Only the on-target tests call it, with no server.
SetLight ==
    /\ evt = "idle" /\ task = "none"
    /\ \/ \E level \in Switch : light' = level /\ pin' = level /\ UNCHANGED faults
       \/ Fault /\ UNCHANGED lightVars
    /\ UNCHANGED <<serverVars, evt, task, client>>

UpdateRequest ==
    /\ Requested(Update)
    /\ task' = "body" /\ client' = "sending"
    /\ UNCHANGED <<serverVars, evt, lightVars, faults>>

SendsRest ==
    /\ client = "sending"
    /\ client' = "sent"
    /\ UNCHANGED <<serverVars, evt, task, lightVars, faults>>

Closes ==
    /\ client = "sending"
    /\ client' = "closed"
    /\ UNCHANGED <<serverVars, evt, task, lightVars, faults>>

\* mutant: a closed connection is taken for a timeout
BodyEndsOrRepeats ==
    \/ /\ task = "body" /\ client = "sent"
       /\ task' = "idle" /\ client' = "none"
       /\ UNCHANGED <<serverVars, evt, lightVars, faults>>
    \/ task = "body" /\ client = "closed" /\ UNCHANGED vars

\* The receive loop ends with the body, or with an error other than a
\* timeout; a receive that times out is repeated, as often as it takes.
BodyEnds ==
    /\ task = "body" /\ client \in {"sent", "closed"}
    /\ task' = "idle" /\ client' = "none"
    /\ UNCHANGED <<serverVars, evt, lightVars, faults>>

EventLoop == StartServer \/ Register \/ AllRegistered \/ Stop \/ Stopped

Next ==
    \/ InitLight \/ EventLoop \/ Disconnected
    \/ TaskExits \/ ToggleLight \/ SetLight \/ UpdateRequest
    \/ SendsRest \/ Closes \/ BodyEnds

Spec == Init /\ [][Next]_vars

(* Both tasks run: the server's looks at its control socket whenever it is *)
(* done with the requests at hand, and a receive returns once its client   *)
(* has sent or closed. Nothing is assumed of the clients.                  *)
FairSpec ==
    /\ Spec
    /\ WF_vars(evt # "idle" /\ EventLoop)
    /\ SF_vars(TaskExits)
    /\ WF_vars(BodyEnds)

-----------------------------------------------------------------------------
TypeOK ==
    /\ server \in {"none", "handle"}
    /\ running \in {"yes", "no"}
    /\ registered \in 0 .. Routes
    /\ evt \in {"init", "idle", "register", "stop", "wait"}
    /\ task \in {"none", "idle", "body"}
    /\ client \in {"none", "sending", "sent", "closed"}
    /\ light \in Switch /\ pin \in Switch
    /\ faults \in 0 .. MaxFaults

(* http_server_is_running, which looks at the flag and the handle, tells   *)
(* whether there is a task that serves requests, and a handle is only      *)
(* dropped with its task: no start ever leaves a second server behind.     *)
RunningIsTrue ==
    /\ running = "yes" <=> server = "handle"
    /\ evt # "wait" => (server = "handle" <=> task # "none")

(* A server that is left running serves every route. One failure is always *)
(* cleaned up; it takes a second one, of httpd_stop, to leave a server     *)
(* that no later start completes, because start finds its handle.          *)
ServesAllRoutes ==
    evt = "idle" /\ running = "yes" /\ faults <= 1 => registered = Routes

(* s_light_state is the mirror of the pin (gpio_control.c, 19-20), also    *)
(* after a GPIO call that failed, once it was initialised.                 *)
LightIsMirrored == evt # "init" => light = pin

(* Documentation of http_server_stop (http_server.c, 473-475): it          *)
(* "gracefully shuts down the HTTP server, closing all active client       *)
(* connections". The event loop task therefore gets out of every callback. *)
CallbackReturns == evt \notin {"init", "idle"} ~> evt = "idle"

(* What is true of it: nothing but a client that keeps its own update      *)
(* request open for good can keep the event loop task in a callback, not   *)
(* one that closes in mid-body, not a failed route, start or stop, and not *)
(* the requests of others, however many come while httpd_stop waits        *)
(* (ota_manager.c, 579-592).                                               *)
OnlyAClientHoldsIt == []<>(client # "sending") => CallbackReturns
=============================================================================
