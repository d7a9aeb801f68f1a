----------------------------- MODULE BleManager -----------------------------
(***************************************************************************)
(* The GATT server that a mobile app provisions the device through. At     *)
(* boot app_main brings the stack up, layer by layer. The callbacks run in *)
(* the Bluetooth task: they set up the service, collect                    *)
(* the chunks of a message in one buffer, whichever client wrote them, and *)
(* leave a confirmation in two flags for the confirmation task.            *)
(*                                                                         *)
(* A message is one JSON object without another one inside, cut into a row *)
(* of Size[m] units of equal length. Its first unit begins with the opening *)
(* and its last one ends in the closing brace, and so may others do, inside *)
(* a network name or a password.                                            *)
(***************************************************************************)
EXTENDS Naturals, Sequences

CONSTANTS
    Client,        \* mobile apps
    Cred,          \* credentials messages; "success" and "failure" confirm
    Size,          \* units of each message
    Opening,       \* per message: its units that begin with "{"
    Closing,       \* per message: its units that end in "}"
    Mtu,           \* most units of one write
    Cap,           \* sizeof(wifi_buffer) - 1, in units
    None,          \* no message
    Gap,           \* a zero byte where no chunk was written
    MaxMessages,   \* bound: messages the apps send
    MaxFaults      \* bound: calls of the Bluetooth stack or of NVS that fail

Message == Cred \cup {"success", "failure"}

ASSUME BleAssumption ==
    /\ None \notin Message
    /\ Size \in [Message -> Nat \ {0}]
    /\ {Opening, Closing} \subseteq [Message -> SUBSET Nat]
    /\ \A m \in Message : 1 \in Opening[m] /\ Size[m] \in Closing[m]
    /\ Mtu \in Nat \ {0} /\ Cap \in Nat
    /\ Gap \notin Message \X (Nat \ {0})
    /\ MaxMessages \in Nat /\ MaxFaults \in Nat

VARIABLES
    call,          \* ble_manager_init: its next call, "cleanup" after a failed
                   \* one, "done" or "failed" when it has returned
    layers,        \* layers of the stack that are up
    flags,         \* bt_controller_initialized and the three like it
    profile,       \* gatts_cb of the profile: "set" or "unset"
    setup,         \* the GATT event that is awaited
    chars,         \* characteristics the service has
    advSetup,      \* advertising data being configured
    adv,           \* advertising: "on" or "off"
    conn,          \* connected clients
    gone,          \* clients whose ESP_GATTS_DISCONNECT_EVT is not yet handled
    buffer,        \* wifi_buffer up to wifi_buffer_len
    out,           \* per client: the message it writes, the units that are
                   \* acknowledged, and how it writes, or how that ended
    waiting,       \* waiting_confirmation
    successful,    \* confirmation_successful
    conf,          \* next step of the confirmation task
    left,          \* messages the apps may still send
    faults,        \* calls that have failed
    heard,         \* history: messages detected since a client began them
    clean,         \* history: "no" from a disturbance of the buffer (a link
                   \* that breaks in mid-message, a second writer, a chunk
                   \* in mid-message that looks like the end of one) until
                   \* it is empty again with nobody writing
    report         \* history: the last failure report: "new", "late" when it
                   \* came while the task was at work, "taken" by the task,
                   \* or "none" when there is none or it was overruled

initVars == <<call, layers, flags, profile>>
gattVars == <<initVars, setup, chars, advSetup>>
linkVars == <<adv, conn, gone>>
messageVars == <<buffer, out, heard, clean>>
flagVars == <<waiting, successful>>
vars == <<gattVars, linkVars, messageVars, flagVars, conf, report, left, faults>>

Idle == [msg |-> None, sent |-> 0, mode |-> "idle"]
Ended(how) == [Idle EXCEPT !.mode = how]
Writing(c) == out[c].mode \in {"regular", "long"}

\* mutant: the profile is filled in once the application is registered
CallsProfileLast ==
         <<"memRelease", "controllerInit", "controllerEnable", "bluedroidInit",
           "bluedroidEnable", "gattsCallback", "gapCallback", "appRegister",
           "setProfile", "done">>

(* What ble_manager_init calls, in this order; four of the calls bring a   *)
(* layer up, each on top of the one before.                                *)
Calls == <<"memRelease", "controllerInit", "controllerEnable", "bluedroidInit",
           "bluedroidEnable", "gattsCallback", "gapCallback", "setProfile",
           "appRegister", "done">>

Layer == {"controllerInit", "controllerEnable", "bluedroidInit",
          "bluedroidEnable"}

Init ==
    /\ call = Calls[1] /\ layers = {} /\ flags = {} /\ profile = "unset"
    /\ setup = "none" /\ chars = {} /\ advSetup = {}
    /\ adv = "off" /\ conn = {} /\ gone = {}
    /\ buffer = << >>
    /\ out = [c \in Client |-> Idle]
    /\ waiting = "no" /\ successful = "no"
    /\ conf = "poll"
    /\ left = MaxMessages /\ faults = 0
    /\ heard = {} /\ clean = "yes" /\ report = "none"

Fault ==
    /\ faults < MaxFaults
    /\ faults' = faults + 1

(* esp_ble_gap_start_advertising; an error is logged and nothing retries.  *)
StartAdvertising ==
    \/ adv' = "on" /\ UNCHANGED faults
    \/ Fault /\ UNCHANGED adv

-----------------------------------------------------------------------------
(* ble_manager_init. A call that fails leads to the cleanup, which undoes  *)
(* what the flags say was brought up, from the top, whether or not each of *)
(* its own calls succeeds. app_main then aborts.                           *)

InitCall ==
    /\ \E i \in 1 .. Len(Calls) - 1 :
          /\ call = Calls[i]
          /\ \/ call' = Calls[i + 1] /\ UNCHANGED faults
             \/ call # "setProfile" /\ call' = "cleanup" /\ Fault
    /\ layers' = layers \cup (IF call' = "cleanup" THEN {} ELSE {call} \cap Layer)
    /\ flags' = layers'
    /\ profile' = IF call = "setProfile" THEN "set" ELSE profile
    /\ setup' = IF call = "appRegister" /\ call' # "cleanup" THEN "register"
                                                           ELSE setup
    /\ UNCHANGED <<chars, advSetup, linkVars, messageVars, flagVars, conf,
                   report, left>>

Below(layer) ==
    CASE layer = "bluedroidEnable"  -> {"bluedroidInit", "controllerEnable", "controllerInit"}
      [] layer = "bluedroidInit"    -> {"controllerEnable", "controllerInit"}
      [] layer = "controllerEnable" -> {"controllerInit"}
      [] layer = "controllerInit"   -> {}

\* mutant: undone in the order it was brought up
BottomFirst(layer) == layer \in flags /\ Below(layer) \cap flags = {}

TopFirst(layer) == layer \in flags /\ flags \subseteq Below(layer) \cup {layer}

CleanUp ==
    /\ call = "cleanup"
    /\ \E layer \in Layer :
          /\ TopFirst(layer)
          /\ flags' = flags \ {layer}
          /\ \/ layers' = layers \ {layer} /\ UNCHANGED faults
             \/ Fault /\ UNCHANGED layers
    /\ UNCHANGED <<call, profile, setup, chars, advSetup, linkVars, messageVars,
                   flagVars, conf, report, left>>

InitFails ==
    /\ call = "cleanup" /\ flags = {}
    /\ call' = "failed"
    /\ UNCHANGED <<layers, flags, profile, setup, chars, advSetup, linkVars,
                   messageVars, flagVars, conf, report, left, faults>>

-----------------------------------------------------------------------------
(* Setting up. Each GATT event asks for the next part of the service; when *)
(* one fails, the chain stops there. Advertising starts as soon as its     *)
(* data or its scan response is set, whether or not the service is done.   *)

\* The event finds its way through the callback of the profile.
Register ==
    /\ setup = "register"
    /\ \/ /\ setup' = IF profile = "set" THEN "create" ELSE "over"
          /\ advSetup' = IF profile = "set" THEN {"data", "scan"} ELSE {}
          /\ UNCHANGED faults
       \/ /\ setup' \in {"create", "over"}
          /\ advSetup' \in SUBSET {"data", "scan"}
          /\ Fault
    /\ UNCHANGED <<initVars, chars, linkVars, messageVars, flagVars, conf, report, left>>

AdvDataSet ==
    /\ \E d \in advSetup : advSetup' = advSetup \ {d}
    /\ StartAdvertising
    /\ UNCHANGED <<initVars, setup, chars, conn, gone, messageVars, flagVars,
                   conf, report, left>>

SetupStep(from, added, to) ==
    /\ setup = from
    /\ chars' = chars \cup added
    /\ \/ setup' = to /\ UNCHANGED faults
       \/ setup' = "over" /\ Fault
    /\ UNCHANGED <<initVars, advSetup, linkVars, messageVars, flagVars, conf,
                   report, left>>

ServiceCreated == SetupStep("create", {}, "addWifi")
WifiCharAdded == SetupStep("addWifi", {"wifi"}, "addInfo")
InfoCharAdded == SetupStep("addInfo", {"info"}, "over")

-----------------------------------------------------------------------------
(* Links. The controller stops advertising when a client connects. A link  *)
(* ends because the app or the radio drops it, or because the credentials  *)
(* task closes it; what was written so far stays in the buffer.            *)

Connect(c) ==
    /\ adv = "on" /\ c \notin conn \cup gone
    /\ adv' = "off"
    /\ conn' = conn \cup {c}
    /\ UNCHANGED <<gattVars, gone, messageVars, flagVars, conf, report, left,
                   faults>>

Drop(c) ==
    /\ c \in conn
    /\ conn' = conn \ {c}
    /\ gone' = gone \cup {c}
    /\ out' = [out EXCEPT ![c] = Idle]
    /\ clean' = IF Writing(c) THEN "no" ELSE clean
    /\ UNCHANGED <<gattVars, adv, buffer, heard, flagVars, conf, report,
                   left, faults>>

\* mutant: nothing restarts the advertising
DisconnectedOnly(c) ==
    /\ c \in gone
    /\ gone' = gone \ {c}
    /\ UNCHANGED <<gattVars, adv, conn, messageVars, flagVars, conf,
                   report, left, faults>>

Disconnected(c) ==
    /\ c \in gone
    /\ gone' = gone \ {c}
    /\ StartAdvertising
    /\ UNCHANGED <<gattVars, conn, messageVars, flagVars, conf, report,
                   left>>

-----------------------------------------------------------------------------
(* Detecting a message. Only the first and the last byte are looked at.    *)

Units(m, first, last) ==
    [k \in 1 .. last + 1 - first |-> <<m, first + k - 1>>]

IsObject(b) ==
    /\ b # << >> /\ Gap \notin {b[1], b[Len(b)]}
    /\ b[1][2] \in Opening[b[1][1]]
    /\ b[Len(b)][2] \in Closing[b[Len(b)][1]]

\* cJSON_Parse takes the object at the front and ignores what follows it. A
\* part of a message is no object, whatever braces it has at its ends.
Parses(b, m) ==
    Len(b) >= Size[m] /\ SubSeq(b, 1, Size[m]) = Units(m, 1, Size[m])

Outcome(m) == IF m = "failure" THEN "no" ELSE "yes"

\* mutant: a failure does not raise the flag
RaiseSuccessOnly(m) ==
    /\ successful' = Outcome(m)
    /\ waiting' = IF m = "failure" THEN waiting ELSE "yes"

Raise(m) == successful' = Outcome(m) /\ waiting' = "yes"

(* ble_manager_process_wifi_buffer. Credentials count as a success.        *)
Process(b) ==
    LET found == {m \in Message : IsObject(b) /\ Parses(b, m)} IN
    /\ heard' = heard \cup found
    /\ \/ found = {} /\ UNCHANGED <<flagVars, report>>
       \/ \E m \in found :
             /\ Raise(m)
             /\ report' = IF m # "failure" THEN "none"
                          ELSE IF conf = "poll" THEN "new" ELSE "late"

NotProcessed == UNCHANGED <<heard, flagVars, report>>

-----------------------------------------------------------------------------
(* Messages. A client writes one in chunks, either with plain writes or as *)
(* a long write, whose chunks have an offset and which ends in an execute  *)
(* or a cancel. Every chunk is acknowledged before the next is sent.       *)

BeginMessage(c) ==
    /\ c \in conn /\ "wifi" \in chars /\ ~Writing(c)
    /\ left > 0 /\ left' = left - 1
    /\ \E m \in Message, mode \in {"regular", "long"} :
          /\ out' = [out EXCEPT ![c] = [msg |-> m, sent |-> 0, mode |-> mode]]
          /\ heard' = heard \ {m}
    /\ clean' = IF \E d \in Client : Writing(d) THEN "no" ELSE clean
    /\ UNCHANGED <<gattVars, linkVars, buffer, flagVars, conf, report, faults>>

\* Where the chunk that the client sends next ends.
ChunkEnd(c) ==
    IF out[c].sent + Mtu < Size[out[c].msg] THEN out[c].sent + Mtu
                                            ELSE Size[out[c].msg]

Chunk(c) == Units(out[c].msg, out[c].sent + 1, ChunkEnd(c))

Progress(c) ==
    out' = [out EXCEPT ![c] =
              IF @.mode = "regular" /\ ChunkEnd(c) = Size[@.msg]
              THEN Ended("ok") ELSE [@ EXCEPT !.sent = ChunkEnd(c)]]

Ends(c, how) == out' = [out EXCEPT ![c] = Ended(how)]

\* The history variable clean, after a step of c that leaves buffer' behind.
\* With a message cut in two, the buffer is empty and c goes on writing.
Settle(c) ==
    clean' = IF buffer' # << >> THEN clean
             ELSE IF \E d \in Client : Writing(d)' THEN "no" ELSE "yes"

FitsUnchecked(b) == TRUE  \* mutant: no test for an overflow

Fits(b) == Len(b) < Cap

\* What looks like an object is processed and dropped, in mid-message too.
Write(c) ==
    LET b == buffer \o Chunk(c) IN
    /\ out[c].mode = "regular"
    /\ Fits(b)
    /\ Progress(c)
    /\ \/ IsObject(b) /\ buffer' = << >> /\ Process(b)
       \/ ~IsObject(b) /\ buffer' = b /\ NotProcessed
    /\ Settle(c)
    /\ UNCHANGED <<gattVars, linkVars, conf, left, faults>>

\* mutant: the buffer keeps what it holds
OverflowKept(c) ==
    /\ out[c].mode = "regular"
    /\ ~Fits(buffer \o Chunk(c))
    /\ UNCHANGED buffer
    /\ Ends(c, "refused")
    /\ Settle(c)
    /\ NotProcessed
    /\ UNCHANGED <<gattVars, linkVars, conf, left, faults>>

Overflow(c) ==
    /\ out[c].mode = "regular"
    /\ ~Fits(buffer \o Chunk(c))
    /\ buffer' = << >>
    /\ Ends(c, "refused")
    /\ Settle(c)
    /\ NotProcessed
    /\ UNCHANGED <<gattVars, linkVars, conf, left, faults>>

\* The chunk written over b at an offset.
Overlay(b, offset, chunk) ==
    LET end == offset + Len(chunk) IN
    [k \in 1 .. (IF end > Len(b) THEN end ELSE Len(b)) |->
        IF k \in offset + 1 .. end THEN chunk[k - offset]
        ELSE IF k <= Len(b) THEN b[k] ELSE Gap]

\* A chunk that does not fit is left out, and acknowledged all the same.
Prepare(c) ==
    /\ out[c].mode = "long" /\ out[c].sent < Size[out[c].msg]
    /\ buffer' = IF ChunkEnd(c) <= Cap
                 THEN Overlay(buffer, out[c].sent, Chunk(c)) ELSE buffer
    /\ Progress(c)
    /\ NotProcessed
    /\ UNCHANGED <<gattVars, linkVars, clean, conf, left, faults>>

\* mutant: an executed message stays in the buffer
ExecuteKeeps(c) ==
    /\ out[c].mode = "long" /\ out[c].sent = Size[out[c].msg]
    /\ Process(buffer)
    /\ UNCHANGED buffer
    /\ Ends(c, "ok")
    /\ Settle(c)
    /\ UNCHANGED <<gattVars, linkVars, conf, left, faults>>

Execute(c) ==
    /\ out[c].mode = "long" /\ out[c].sent = Size[out[c].msg]
    /\ Process(buffer)
    /\ buffer' = << >>
    /\ Ends(c, "ok")
    /\ Settle(c)
    /\ UNCHANGED <<gattVars, linkVars, conf, left, faults>>

Cancel(c) ==
    /\ out[c].mode = "long"
    /\ buffer' = << >>
    /\ Ends(c, "refused")
    /\ Settle(c)
    /\ NotProcessed
    /\ UNCHANGED <<gattVars, linkVars, conf, left, faults>>

-----------------------------------------------------------------------------
(* ble_manager_handle_device_info_confirmation: the task polls the flags,  *)
(* forgets the network on a failure, and lowers waiting_confirmation when  *)
(* it is done, whatever the callbacks have written there meanwhile.        *)

PollConfirmation ==
    /\ conf = "poll" /\ waiting = "yes"
    /\ conf' = IF successful = "yes" THEN "reset" ELSE "delete"
    /\ report' = IF report = "new" THEN "taken" ELSE report
    /\ UNCHANGED <<gattVars, linkVars, messageVars, flagVars, left, faults>>

DeleteCredentials ==
    /\ conf = "delete"
    /\ \/ conf' = "advertise" /\ UNCHANGED faults
       \/ conf' = "reset" /\ Fault
    /\ UNCHANGED <<gattVars, linkVars, messageVars, flagVars, report, left>>

Advertise ==
    /\ conf = "advertise"
    /\ conf' = "reset"
    /\ StartAdvertising
    /\ UNCHANGED <<gattVars, conn, gone, messageVars, flagVars, report,
                   left>>

ResetWaiting ==
    /\ conf = "reset"
    /\ conf' = "poll"
    /\ waiting' = "no"
    /\ UNCHANGED <<gattVars, linkVars, messageVars, successful, report, left,
                   faults>>

-----------------------------------------------------------------------------
Initialise == InitCall \/ CleanUp \/ InitFails

Setup == Register \/ AdvDataSet \/ ServiceCreated \/ WifiCharAdded \/ InfoCharAdded

App(c) ==
    \/ Connect(c) \/ Drop(c) \/ BeginMessage(c)
    \/ Write(c) \/ Overflow(c) \/ Prepare(c) \/ Execute(c) \/ Cancel(c)

Confirmation ==
    PollConfirmation \/ DeleteCredentials \/ Advertise \/ ResetWaiting

Next ==
    \/ Initialise \/ Setup
    \/ \E c \in Client : App(c) \/ Disconnected(c)
    \/ Confirmation

Spec == Init /\ [][Next]_vars

-----------------------------------------------------------------------------
TypeOK ==
    /\ call \in {Calls[i] : i \in 1 .. Len(Calls)} \cup {"cleanup", "failed"}
    /\ layers \subseteq Layer /\ flags \subseteq Layer
    /\ profile \in {"set", "unset"}
    /\ setup \in {"none", "register", "create", "addWifi", "addInfo", "over"}
    /\ chars \subseteq {"wifi", "info"} /\ advSetup \subseteq {"data", "scan"}
    /\ adv \in {"on", "off"}
    /\ conn \subseteq Client /\ gone \subseteq Client
    /\ buffer \in Seq((Message \X Nat) \cup {Gap}) /\ Len(buffer) <= Cap
    /\ out \in [Client -> [msg : Message \cup {None}, sent : Nat,
                           mode : {"idle", "regular", "long", "ok", "refused"}]]
    /\ {waiting, successful} \subseteq {"yes", "no"}
    /\ conf \in {"poll", "delete", "advertise", "reset"}
    /\ left \in 0 .. MaxMessages /\ faults \in 0 .. MaxFaults
    /\ heard \subseteq Message /\ clean \in {"yes", "no"}
    /\ report \in {"none", "new", "late", "taken"}

Acknowledged(c) == Writing(c) /\ out'[c].mode = "ok"

(* The stack is taken down in the reverse of the order it was brought up   *)
(* in, so that no layer ever runs without those below it, and a failed     *)
(* ble_manager_init leaves none up, wherever the one call that failed is.  *)
StackUnwinds ==
    faults <= 1 =>
        /\ \A layer \in layers : Below(layer) \subseteq layers
        /\ call = "failed" => layers = {}

(* The chain of events that sets up the service loses none of them: it     *)
(* ends with both characteristics, unless a call failed. In particular the *)
(* registration event, which the Bluetooth task may handle before          *)
(* ble_manager_init has returned, finds the callback of the profile.       *)
ServiceComplete == setup = "over" /\ faults = 0 => chars = {"wifi", "info"}

(* A message that fits and was acknowledged to its end is detected, also   *)
(* after overflows, cancelled and oversized messages and broken links, as  *)
(* long as the buffer was empty with nobody writing at some point after    *)
(* the last broken link, clients did not write at the same time, and no    *)
(* plain write of it but the last left a "}" at the end of a buffer that   *)
(* begins with "{": the code then drops what it has (lines 533 to 538), an *)
(* acknowledged message is lost, and its rest spoils the next one. Once    *)
(* the buffer is empty again the promise holds again.                      *)
CleanMessageDetected ==
    [][\A c \in Client :
          Acknowledged(c) /\ clean = "yes" /\ Size[out[c].msg] <= Cap
          => out[c].msg \in heard']_vars

(* Documentation of the handler (ble_manager.c, 267): it "handles write    *)
(* events, buffering incoming data and parsing JSON to detect WiFi         *)
(* credentials or confirmation messages". The only client that is          *)
(* connected has a message acknowledged to its end: it is detected.        *)
AcknowledgedIsDetected ==
    [][\A c \in Client :
          Acknowledged(c) /\ conn = {c} /\ Size[out[c].msg] <= Cap
          => out[c].msg \in heard']_vars

(* Nothing else is detected: with a buffer that is clean, a step that detects *)
(* a message or touches the verdict acknowledges the end of a message, and *)
(* it is this one that is detected and whose outcome the flags hold, not   *)
(* the rest of an earlier message, a part of a longer one or, of one that  *)
(* is too large, what fits.                                                *)
OnlyWrittenIsDetected ==
    [][/\ clean = "yes"
       /\ \/ heard' \ heard # {} \/ successful' # successful
          \/ waiting = "no" /\ waiting' = "yes"
       => \E c \in Client :
             /\ Acknowledged(c)
             /\ heard' \subseteq heard \cup {out[c].msg}
             /\ waiting' = "yes" /\ successful' = Outcome(out[c].msg)]_vars

(* A failure that the app reports while the task polls stays pending until *)
(* the task takes it, or a later message overrules it. One that comes      *)
(* while the task is at work on another ("late") is dropped by the reset.  *)
ReportPends == report = "new" => waiting = "yes" /\ successful = "no"

(* Nothing ever locks the apps out: unless a call failed, a device whose   *)
(* service is set up and that has no client advertises.                    *)
Reachable ==
    faults = 0 /\ setup = "over" /\ advSetup = {} /\ conn = {} /\ gone = {}
    => adv = "on"
=============================================================================
