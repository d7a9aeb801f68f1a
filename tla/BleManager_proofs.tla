-------------------------- MODULE BleManager_proofs --------------------------
(***************************************************************************)
(* What BleManager guarantees for every set of clients, credentials and    *)
(* message sizes. Seven invariants carry the proofs: a report the task has *)
(* not taken finds the task polling; the layers that are up are those that *)
(* ble_manager_init has come to; no event of the setup finds the profile   *)
(* without its callback; without faults, advertising is on whenever no     *)
(* link accounts for its being off; a client that writes has a message to  *)
(* write; and the buffer, unless disturbed, holds what the one writer was  *)
(* acknowledged, or, of a message too large for it, what fits of that.     *)
(***************************************************************************)
EXTENDS BleManager, SequenceTheorems, TLAPS

ReportInv == report = "new" => waiting = "yes" /\ successful = "no" /\ conf = "poll"

\* Every step that detects no failure leaves the flags or overrules the report.
LEMMA Processing ==
    ASSUME NEW b, ReportInv, UNCHANGED conf, Process(b)
    PROVE  ReportInv'
<1>1. \/ UNCHANGED <<flagVars, report>>
      \/ \E m \in Message : Raise(m) /\ report' = IF m # "failure" THEN "none"
                             ELSE IF conf = "poll" THEN "new" ELSE "late"
  BY DEF Process
<1>2. CASE UNCHANGED <<flagVars, report>>
  BY <1>2 DEF ReportInv, flagVars
<1>3. ASSUME NEW m, Raise(m), report' = IF m # "failure" THEN "none"
                             ELSE IF conf = "poll" THEN "new" ELSE "late"
      PROVE  ReportInv'
  BY <1>3 DEF Raise, Outcome, ReportInv
<1> QED
  BY <1>1, <1>2, <1>3

LEMMA AppReport ==
    ASSUME ReportInv, NEW c \in Client, App(c) \/ Disconnected(c)
    PROVE  ReportInv'
<1>1. ASSUME NEW b, UNCHANGED conf, Process(b) PROVE ReportInv'
  BY <1>1, Processing
<1>2. ASSUME UNCHANGED <<flagVars, conf, report>> PROVE ReportInv'
  BY <1>2 DEF flagVars, ReportInv
<1>3. CASE Write(c)
  BY <1>1, <1>2, <1>3 DEF Write, NotProcessed
<1>4. CASE Execute(c)
  BY <1>1, <1>4 DEF Execute
<1>5. CASE Connect(c) \/ Drop(c) \/ Disconnected(c) \/ BeginMessage(c)
  BY <1>2, <1>5 DEF Connect, Drop, Disconnected, BeginMessage
<1>6. CASE Overflow(c) \/ Prepare(c) \/ Cancel(c)
  BY <1>2, <1>6 DEF Overflow, Prepare, Cancel, NotProcessed
<1> QED
  BY <1>3, <1>4, <1>5, <1>6 DEF App

LEMMA ReportStep == ASSUME ReportInv, [Next]_vars PROVE ReportInv'
<1>1. CASE \E c \in Client : App(c) \/ Disconnected(c)
  BY <1>1, AppReport
<1>2. CASE Setup
  BY <1>2 DEF Setup, Register, AdvDataSet, ServiceCreated, WifiCharAdded,
              InfoCharAdded, SetupStep, flagVars, ReportInv
<1>3. CASE Confirmation
  BY <1>3 DEF Confirmation, PollConfirmation, DeleteCredentials, Advertise,
              ResetWaiting, flagVars, ReportInv
<1>4. CASE Initialise
  BY <1>4 DEF Initialise, InitCall, CleanUp, InitFails, flagVars, ReportInv
<1>5. CASE UNCHANGED vars
  BY <1>5 DEF vars, flagVars, ReportInv
<1> QED
  BY <1>1, <1>2, <1>3, <1>4, <1>5 DEF Next

(* A failure reported while the task polls is pending until the task takes *)
(* it or a later message overrules it.                                     *)
THEOREM ReportStaysPending == Spec => []ReportPends
<1>1. Init => ReportInv
  BY DEF Init, ReportInv
<1>2. ReportInv /\ [Next]_vars => ReportInv'
  BY ReportStep
<1>3. ReportInv => ReportPends
  BY DEF ReportInv, ReportPends
<1> QED
  BY <1>1, <1>2, <1>3, PTL DEF Spec

-----------------------------------------------------------------------------
\* A call of ble_manager_init returns: the next one follows, or the cleanup.
LEMMA CallReturns ==
    ASSUME InitCall
    PROVE  \/ call = "memRelease" /\ call' \in {"controllerInit", "cleanup"}
           \/ call = "controllerInit" /\ call' \in {"controllerEnable", "cleanup"}
           \/ call = "controllerEnable" /\ call' \in {"bluedroidInit", "cleanup"}
           \/ call = "bluedroidInit" /\ call' \in {"bluedroidEnable", "cleanup"}
           \/ call = "bluedroidEnable" /\ call' \in {"gattsCallback", "cleanup"}
           \/ call = "gattsCallback" /\ call' \in {"gapCallback", "cleanup"}
           \/ call = "gapCallback" /\ call' \in {"setProfile", "cleanup"}
           \/ call = "setProfile" /\ call' = "appRegister"
           \/ call = "appRegister" /\ call' \in {"done", "cleanup"}
<1>1. PICK i \in 1 .. 9 : /\ call = Calls[i]
                          /\ \/ call' = Calls[i + 1]
                             \/ call # "setProfile" /\ call' = "cleanup"
  BY DEF InitCall, Calls
<1>2. /\ Calls[1] = "memRelease" /\ Calls[2] = "controllerInit"
      /\ Calls[3] = "controllerEnable" /\ Calls[4] = "bluedroidInit"
      /\ Calls[5] = "bluedroidEnable" /\ Calls[6] = "gattsCallback"
      /\ Calls[7] = "gapCallback" /\ Calls[8] = "setProfile"
      /\ Calls[9] = "appRegister" /\ Calls[10] = "done"
  BY DEF Calls
<1>3. i \in {1, 2, 3, 4, 5, 6, 7, 8, 9}
  OBVIOUS
<1> QED
  BY <1>1, <1>2, <1>3

\* What every step outside ble_manager_init does to faults and to its state.
LEMMA FaultsGrow ==
    ASSUME faults \in Nat,
           Setup \/ Confirmation \/ \E c \in Client : App(c) \/ Disconnected(c)
    PROVE  UNCHANGED initVars /\ faults' \in {faults, faults + 1}
<1>1. CASE Setup
  BY <1>1 DEF Setup, Register, AdvDataSet, ServiceCreated, WifiCharAdded,
              InfoCharAdded, SetupStep, StartAdvertising, Fault
<1>2. CASE Confirmation
  BY <1>2 DEF Confirmation, PollConfirmation, DeleteCredentials, Advertise,
              ResetWaiting, StartAdvertising, Fault, gattVars
<1>3. ASSUME NEW c \in Client, App(c) \/ Disconnected(c)
      PROVE  UNCHANGED initVars /\ faults' \in {faults, faults + 1}
  <2>1. CASE Disconnected(c)
    BY <2>1 DEF Disconnected, StartAdvertising, Fault, gattVars
  <2>2. CASE Connect(c) \/ Drop(c) \/ BeginMessage(c)
    BY <2>2 DEF Connect, Drop, BeginMessage, gattVars
  <2>3. CASE Write(c) \/ Overflow(c) \/ Prepare(c) \/ Execute(c) \/ Cancel(c)
    BY <2>3 DEF Write, Overflow, Prepare, Execute, Cancel, gattVars
  <2> QED
    BY <1>3, <2>1, <2>2, <2>3 DEF App
<1> QED
  BY <1>1, <1>2, <1>3

-----------------------------------------------------------------------------
(* The stack. While ble_manager_init goes forward, layers and flags are    *)
(* those its next call has behind it; in a cleanup without a fault of its  *)
(* own they stay equal, and each is left with what is below it.            *)
Up ==
    CASE call \in {"memRelease", "controllerInit"} -> {}
      [] call = "controllerEnable" -> {"controllerInit"}
      [] call = "bluedroidInit"    -> {"controllerEnable", "controllerInit"}
      [] call = "bluedroidEnable"  -> Below("bluedroidEnable")
      [] OTHER                     -> Layer

StackInv ==
    /\ faults \in Nat
    /\ layers \subseteq Layer /\ flags \subseteq Layer
    /\ call \notin {"cleanup", "failed"} => layers = Up /\ flags = layers
    /\ call \in {"cleanup", "failed"} => faults # 0
    /\ faults <= 1 => flags = layers
    /\ call = "failed" => flags = {}
    /\ \A layer \in flags : Below(layer) \subseteq flags

LEMMA StackStep == ASSUME StackInv, [Next]_vars PROVE StackInv'
<1>1. CASE InitCall
  <2>1. call \notin {"cleanup", "failed"} /\ call' # "failed"
    BY <1>1, CallReturns
  <2>2. layers = Up /\ flags = layers /\ flags' = layers'
    BY <1>1, <2>1 DEF StackInv, InitCall
  <2>3. faults' \in Nat /\ (call' = "cleanup" => faults' # 0)
    BY <1>1, CallReturns DEF InitCall, Fault, StackInv, Calls
  <2>4. layers' \subseteq Layer /\ (call' # "cleanup" => layers' = Up')
    BY <1>1, <2>2, CallReturns DEF InitCall, Up, Below, Layer
  <2>5. \A layer \in flags' : Below(layer) \subseteq flags'
    BY <1>1, <2>2, CallReturns DEF InitCall, Up, Below, Layer
  <2> QED
    BY <2>1, <2>2, <2>3, <2>4, <2>5 DEF StackInv
<1>2. CASE CleanUp
  <2>1. PICK layer \in Layer :
          /\ TopFirst(layer) /\ flags' = flags \ {layer}
          /\ \/ layers' = layers \ {layer} /\ UNCHANGED faults
             \/ Fault /\ UNCHANGED layers
    BY <1>2 DEF CleanUp
  <2>2. call = "cleanup" /\ call' = "cleanup" /\ faults # 0 /\ faults \in Nat
    BY <1>2 DEF CleanUp, StackInv
  <2>3. \A other \in flags' : Below(other) \subseteq flags'
    BY <2>1 DEF TopFirst, StackInv, Below, Layer
  <2> QED
    BY <2>1, <2>2, <2>3 DEF Fault, StackInv
<1>3. CASE InitFails
  BY <1>3 DEF InitFails, StackInv
<1>4. ASSUME UNCHANGED initVars, faults' \in {faults, faults + 1}
      PROVE  StackInv'
  BY <1>4 DEF StackInv, initVars, Up
<1>5. CASE UNCHANGED vars
  BY <1>4, <1>5 DEF vars, gattVars, StackInv
<1> QED
  BY <1>1, <1>2, <1>3, <1>4, <1>5, FaultsGrow DEF Next, Initialise, StackInv

(* A ble_manager_init that fails leaves no layer up, and takes none away   *)
(* from under another, whichever call failed, if only one did.             *)
THEOREM StackIsUnwound == Spec => []StackUnwinds
<1>1. Init => StackInv
  BY DEF Init, StackInv, Up, Calls
<1>2. StackInv /\ [Next]_vars => StackInv'
  BY StackStep
<1>3. StackInv => StackUnwinds
  BY DEF StackInv, StackUnwinds
<1> QED
  BY <1>1, <1>2, <1>3, PTL DEF Spec

-----------------------------------------------------------------------------
(* The setup. No event is awaited before the profile has its callback, and *)
(* without a fault each event leaves the characteristic it was about.      *)
ProfileInv ==
    /\ faults \in Nat
    /\ call \in {"appRegister", "done"} => profile = "set"
    /\ setup # "none" => call = "done"

ServiceInv ==
    /\ ProfileInv
    /\ chars \subseteq {"wifi", "info"}
    /\ setup = "addInfo" => "wifi" \in chars
    /\ setup = "over" /\ faults = 0 => chars = {"wifi", "info"}

LEMMA InitProfile == ASSUME ProfileInv, Initialise PROVE ProfileInv'
<1>1. CASE InitCall
  <2>1. setup = "none" /\ faults' \in Nat
    BY <1>1, CallReturns DEF ProfileInv, InitCall, Fault
  <2> QED
    BY <1>1, <2>1, CallReturns DEF ProfileInv, InitCall
<1>2. CASE CleanUp \/ InitFails
  BY <1>2 DEF CleanUp, InitFails, Fault, ProfileInv
<1> QED
  BY <1>1, <1>2 DEF Initialise

LEMMA ServiceStep == ASSUME ServiceInv, [Next]_vars PROVE ServiceInv'
<1>1. CASE Initialise
  <2>1. ProfileInv'
    BY <1>1, InitProfile DEF ServiceInv
  <2>2. UNCHANGED chars /\ setup' \in {setup, "register"}
    BY <1>1 DEF Initialise, InitCall, CleanUp, InitFails
  <2>3. setup = "over" => setup' = "over" /\ (faults' = 0 => faults = 0)
    BY <1>1, CallReturns DEF Initialise, InitCall, CleanUp, InitFails, ServiceInv,
                             ProfileInv, Fault
  <2> QED
    BY <2>1, <2>2, <2>3 DEF ServiceInv
<1>2. CASE Setup
  <2>1. UNCHANGED initVars /\ faults' \in Nat
    BY <1>2, FaultsGrow DEF ServiceInv, ProfileInv
  <2>2. CASE Register
    BY <2>1, <2>2 DEF Register, Fault, ServiceInv, ProfileInv, initVars
  <2>3. CASE AdvDataSet
    BY <2>1, <2>3, FaultsGrow, <1>2 DEF AdvDataSet, ServiceInv, ProfileInv, initVars
  <2>4. CASE ServiceCreated \/ WifiCharAdded
    <3>1. /\ setup \in {"create", "addWifi"}
          /\ chars' \subseteq {"wifi", "info"}
          /\ setup' = "addInfo" => "wifi" \in chars'
      BY <2>4 DEF ServiceCreated, WifiCharAdded, SetupStep, ServiceInv
    <3>2. \/ setup' \in {"addWifi", "addInfo"}
          \/ setup' = "over" /\ faults' # 0
      BY <2>4 DEF ServiceCreated, WifiCharAdded, SetupStep, Fault, ServiceInv,
                  ProfileInv
    <3> QED
      BY <2>1, <3>1, <3>2 DEF ServiceInv, ProfileInv, initVars
  <2>5. CASE InfoCharAdded
    <3>1. chars' = {"wifi", "info"} /\ setup = "addInfo" /\ setup' = "over"
      BY <2>5 DEF InfoCharAdded, SetupStep, ServiceInv
    <3> QED
      BY <2>1, <3>1 DEF ServiceInv, ProfileInv, initVars
  <2> QED
    BY <1>2, <2>2, <2>3, <2>4, <2>5 DEF Setup
<1>3. CASE Confirmation \/ \E c \in Client : App(c) \/ Disconnected(c)
  <2>1. UNCHANGED gattVars
    BY <1>3 DEF Confirmation, PollConfirmation, DeleteCredentials, Advertise,
                ResetWaiting, App, Connect, Drop, Disconnected, BeginMessage,
                Write, Overflow, Prepare, Execute, Cancel
  <2>2. faults' \in {faults, faults + 1}
    BY <1>3, FaultsGrow DEF ServiceInv, ProfileInv
  <2> QED
    BY <2>1, <2>2 DEF gattVars, initVars, ServiceInv, ProfileInv
<1>4. CASE UNCHANGED vars
  BY <1>4 DEF vars, gattVars, initVars, ServiceInv, ProfileInv
<1> QED
  BY <1>1, <1>2, <1>3, <1>4 DEF Next

(* Unless a call failed, the chain of setup events ends with both          *)
(* characteristics: the first of them finds the profile's callback.        *)
THEOREM ServiceIsComplete == Spec => []ServiceComplete
<1>1. Init => ServiceInv
  BY BleAssumption DEF Init, ServiceInv, ProfileInv, Calls
<1>2. ServiceInv /\ [Next]_vars => ServiceInv'
  BY ServiceStep
<1>3. ServiceInv => ServiceComplete
  BY DEF ServiceInv, ServiceComplete
<1> QED
  BY <1>1, <1>2, <1>3, PTL DEF Spec

-----------------------------------------------------------------------------
AdvertisingInv ==
    faults = 0 /\ setup \notin {"none", "register"} /\ advSetup # {"data", "scan"}
               /\ conn = {} /\ gone = {}
    => adv = "on"

IInv == ProfileInv /\ AdvertisingInv

LEMMA Faulting ==
    ASSUME IInv, Fault, UNCHANGED <<initVars, setup>>
    PROVE  IInv' /\ faults' # 0
  BY DEF IInv, Fault, ProfileInv, AdvertisingInv, initVars

LEMMA InitReach == ASSUME IInv, Initialise PROVE IInv'
<1>1. ProfileInv'
  BY InitProfile DEF IInv
<1>2. UNCHANGED <<advSetup, linkVars>> /\ setup' \in {setup, "register"}
  BY DEF Initialise, InitCall, CleanUp, InitFails
<1>3. faults' = 0 => faults = 0
  BY DEF Initialise, InitCall, CleanUp, InitFails, Fault, IInv, ProfileInv
<1> QED
  BY <1>1, <1>2, <1>3 DEF IInv, AdvertisingInv, linkVars

LEMMA SetupReach == ASSUME IInv, Setup PROVE IInv'
<1>0. ProfileInv'
  <2>1. UNCHANGED initVars /\ faults' \in Nat
    BY FaultsGrow DEF IInv, ProfileInv
  <2>2. setup # "none" \/ UNCHANGED setup
    BY DEF Setup, Register, AdvDataSet, ServiceCreated, WifiCharAdded,
           InfoCharAdded, SetupStep
  <2> QED
    BY <2>1, <2>2 DEF IInv, ProfileInv, initVars
<1>1. CASE Register
  BY <1>0, <1>1 DEF Register, Fault, IInv, ProfileInv, AdvertisingInv, linkVars
<1>2. CASE AdvDataSet
  BY <1>0, <1>2 DEF AdvDataSet, StartAdvertising, Fault, IInv, ProfileInv,
                    AdvertisingInv
<1>3. CASE ServiceCreated \/ WifiCharAdded \/ InfoCharAdded
  BY <1>0, <1>3 DEF ServiceCreated, WifiCharAdded, InfoCharAdded, SetupStep,
                    Fault, linkVars, IInv, ProfileInv, AdvertisingInv
<1> QED
  BY <1>1, <1>2, <1>3 DEF Setup

LEMMA AppReach ==
    ASSUME IInv, NEW c \in Client, App(c) \/ Disconnected(c)
    PROVE  IInv'
<1>1. CASE Connect(c)
  BY <1>1 DEF Connect, gattVars, initVars, IInv, ProfileInv, AdvertisingInv
<1>2. CASE Drop(c)
  BY <1>2 DEF Drop, gattVars, initVars, IInv, ProfileInv, AdvertisingInv
<1>3. CASE Disconnected(c)
  BY <1>3, Faulting DEF Disconnected, StartAdvertising, gattVars, initVars, IInv,
                        ProfileInv, AdvertisingInv
<1>4. CASE \/ BeginMessage(c) \/ Write(c) \/ Overflow(c)
           \/ Prepare(c) \/ Execute(c) \/ Cancel(c)
  <2>1. UNCHANGED <<gattVars, linkVars, faults>>
    BY <1>4 DEF BeginMessage, Write, Overflow, Prepare, Execute, Cancel
  <2> QED
    BY <2>1 DEF gattVars, initVars, linkVars, IInv, ProfileInv, AdvertisingInv
<1> QED
  BY <1>1, <1>2, <1>3, <1>4 DEF App

LEMMA ConfirmationReach == ASSUME IInv, Confirmation PROVE IInv'
<1>1. CASE PollConfirmation \/ ResetWaiting
  BY <1>1 DEF PollConfirmation, ResetWaiting, gattVars, initVars, linkVars, IInv,
              ProfileInv, AdvertisingInv
<1>2. CASE DeleteCredentials
  BY <1>2, Faulting DEF DeleteCredentials, gattVars, initVars, linkVars, IInv,
                        ProfileInv, AdvertisingInv
<1>3. CASE Advertise
  BY <1>3, Faulting DEF Advertise, StartAdvertising, gattVars, initVars, IInv,
                        ProfileInv, AdvertisingInv
<1> QED
  BY <1>1, <1>2, <1>3 DEF Confirmation

(* Without a fault, a device that is set up and has no client advertises.  *)
THEOREM AlwaysReachable == Spec => []Reachable
<1>1. Init => IInv
  BY BleAssumption DEF Init, IInv, ProfileInv, AdvertisingInv, Calls
<1>2. IInv /\ [Next]_vars => IInv'
  <2> SUFFICES ASSUME IInv, [Next]_vars PROVE IInv'
    OBVIOUS
  <2>1. CASE UNCHANGED vars
    BY <2>1 DEF vars, gattVars, initVars, linkVars, IInv, ProfileInv,
                AdvertisingInv
  <2> QED
    BY <2>1, InitReach, SetupReach, AppReach, ConfirmationReach DEF Next
<1>3. IInv => Reachable
  BY DEF IInv, AdvertisingInv, Reachable
<1> QED
  BY <1>1, <1>2, <1>3, PTL DEF Spec
-----------------------------------------------------------------------------
(* Types. A client that is writing writes a message, and none of the four  *)
(* ways a message ends in leaves more in the buffer than it holds.         *)

Unit == (Message \X Nat) \cup {Gap}

TypeInv == TypeOK /\ \A c \in Client : Writing(c) => out[c].msg \in Message

\* The chunk a client sends next is a sequence of units.
LEMMA ChunkType ==
    ASSUME TypeInv, NEW c \in Client, Writing(c)
    PROVE  /\ ChunkEnd(c) \in Nat
           /\ Chunk(c) \in Seq(Unit)
           /\ out[c].sent + Len(Chunk(c)) = ChunkEnd(c) \/ ChunkEnd(c) < out[c].sent
<1> DEFINE m == out[c].msg
           from == out[c].sent
           end == ChunkEnd(c)
<1>1. m \in Message /\ from \in Nat
  BY DEF TypeInv, TypeOK
<1>2. end \in Nat
  BY <1>1, BleAssumption DEF ChunkEnd
<1>3. Chunk(c) = [k \in 1 .. end - from |-> <<m, from + k>>]
  <2>1. end + 1 - (from + 1) = end - from
    BY <1>1, <1>2
  <2>2. \A k \in 1 .. end - from : from + 1 + k - 1 = from + k
    BY <1>1, <1>2
  <2> QED
    BY <2>1, <2>2 DEF Chunk, Units
<1> HIDE DEF m, from, end
<1>4. CASE end >= from
  <2>1. end - from \in Nat
    BY <1>1, <1>2, <1>4
  <2>2. \A k \in 1 .. end - from : <<m, from + k>> \in Unit
    BY <1>1, <2>1 DEF Unit
  <2>3. Chunk(c) \in [1 .. end - from -> Unit]
    BY <1>3, <2>2
  <2>4. Chunk(c) \in Seq(Unit)
    BY <2>1, <2>3, SeqDef
  <2>5. Len(Chunk(c)) = end - from
    BY <2>1, <2>3, <2>4, LenProperties
  <2> QED
    BY <1>1, <1>2, <2>4, <2>5 DEF end, from
<1>5. CASE end < from
  <2>1. Chunk(c) \in [1 .. 0 -> Unit]
    BY <1>1, <1>2, <1>3, <1>5
  <2> QED
    BY <1>2, <1>5, <2>1, SeqDef DEF end, from
<1> QED
  BY <1>1, <1>2, <1>4, <1>5

\* Writing a chunk at an offset keeps the buffer within the chunk's end or
\* its own.
LEMMA OverlayType ==
    ASSUME NEW b \in Seq(Unit), NEW n \in Nat, NEW d \in Seq(Unit), NEW cap \in Nat,
           Len(b) <= cap, n + Len(d) <= cap
    PROVE  Overlay(b, n, d) \in Seq(Unit) /\ Len(Overlay(b, n, d)) <= cap
<1> DEFINE end == n + Len(d)
           top == IF end > Len(b) THEN end ELSE Len(b)
           f == Overlay(b, n, d)
<1>1. Len(b) \in Nat /\ Len(d) \in Nat /\ end \in Nat /\ top \in Nat /\ top <= cap
  BY LenProperties
<1>2. \A k \in 1 .. top : f[k] \in Unit
  <2> TAKE k \in 1 .. top
  <2>1. k \in n + 1 .. end => d[k - n] \in Unit
    <3> SUFFICES ASSUME k \in n + 1 .. end PROVE d[k - n] \in Unit
      OBVIOUS
    <3>1. k - n \in 1 .. Len(d)
      BY <1>1
    <3> QED
      BY <3>1, ElementOfSeq
  <2>2. k <= Len(b) => b[k] \in Unit
    BY <1>1, ElementOfSeq
  <2>3. f[k] = IF k \in n + 1 .. end THEN d[k - n]
               ELSE IF k <= Len(b) THEN b[k] ELSE Gap
    BY DEF Overlay
  <2> QED
    BY <2>1, <2>2, <2>3 DEF Unit
<1>3. f \in [1 .. top -> Unit]
  <2>1. f = [k \in 1 .. top |-> f[k]]
    BY DEF Overlay
  <2> QED
    BY <1>2, <2>1
<1> HIDE DEF f, top
<1>4. f \in Seq(Unit) /\ Len(f) = top
  BY <1>1, <1>3, SeqDef, LenProperties
<1> QED
  BY <1>1, <1>4 DEF f

\* A step that leaves the messages and the initialisation alone.
LEMMA OutType ==
    ASSUME TypeInv, NEW c \in Client, Writing(c),
           \/ Progress(c) \/ \E how \in {"ok", "refused"} : Ends(c, how)
    PROVE  /\ out' \in [Client -> [msg : Message \cup {None}, sent : Nat,
                           mode : {"idle", "regular", "long", "ok", "refused"}]]
           /\ \A d \in Client : Writing(d)' => out'[d].msg \in Message
<1>1. ChunkEnd(c) \in Nat
  BY ChunkType
<1>2. \A how \in {"ok", "refused"} :
        /\ Ended(how) \in [msg : Message \cup {None}, sent : Nat,
                           mode : {"idle", "regular", "long", "ok", "refused"}]
        /\ Ended(how).mode = how
  BY DEF Ended, Idle
<1>3. CASE Progress(c)
  <2>1. \/ out' = [out EXCEPT ![c] = Ended("ok")]
        \/ out' = [out EXCEPT ![c] = [out[c] EXCEPT !.sent = ChunkEnd(c)]]
    BY <1>3 DEF Progress
  <2>2. CASE out' = [out EXCEPT ![c] = Ended("ok")]
    BY <1>2, <2>2 DEF TypeInv, TypeOK, Writing
  <2>3. CASE out' = [out EXCEPT ![c] = [out[c] EXCEPT !.sent = ChunkEnd(c)]]
    <3> DEFINE row == [out[c] EXCEPT !.sent = ChunkEnd(c)]
    <3>1. /\ row \in [msg : Message \cup {None}, sent : Nat,
                      mode : {"idle", "regular", "long", "ok", "refused"}]
          /\ row.msg \in Message
      BY <1>1 DEF TypeInv, TypeOK
    <3> HIDE DEF row
    <3>2. out' = [out EXCEPT ![c] = row]
      BY <2>3 DEF row
    <3> QED
      BY <3>1, <3>2 DEF TypeInv, TypeOK, Writing
  <2> QED
    BY <2>1, <2>2, <2>3
<1>4. ASSUME NEW how \in {"ok", "refused"}, Ends(c, how)
      PROVE  /\ out' \in [Client -> [msg : Message \cup {None}, sent : Nat,
                             mode : {"idle", "regular", "long", "ok", "refused"}]]
             /\ \A d \in Client : Writing(d)' => out'[d].msg \in Message
  BY <1>2, <1>4 DEF Ends, TypeInv, TypeOK, Writing
<1> QED
  BY <1>3, <1>4

LEMMA ProcessType ==
    ASSUME TypeInv, Process(buffer) \/ (\E b : Process(b)) \/ NotProcessed
    PROVE  /\ heard' \subseteq Message /\ {waiting, successful}' \subseteq {"yes", "no"}
           /\ report' \in {"none", "new", "late", "taken"}
  BY DEF Process, NotProcessed, Raise, Outcome, flagVars, TypeInv, TypeOK

\* The steps in which an app writes.
LEMMA WriteTyping ==
    ASSUME TypeInv, NEW c \in Client,
           Write(c) \/ Overflow(c) \/ Prepare(c) \/ Execute(c) \/ Cancel(c)
    PROVE  TypeInv'
<1>1. Writing(c) /\ UNCHANGED <<gattVars, linkVars, conf, left, faults>>
  BY DEF Write, Overflow, Prepare, Execute, Cancel, Writing
<1>2. \/ Progress(c) \/ \E how \in {"ok", "refused"} : Ends(c, how)
  BY DEF Write, Overflow, Prepare, Execute, Cancel
<1>3. /\ heard' \subseteq Message /\ {waiting, successful}' \subseteq {"yes", "no"}
      /\ report' \in {"none", "new", "late", "taken"}
  <2>1. (\E b : Process(b)) \/ NotProcessed
    BY DEF Write, Overflow, Prepare, Execute, Cancel
  <2> QED
    BY <2>1, ProcessType
<1>4. clean' \in {"yes", "no"}
  BY DEF Write, Overflow, Prepare, Execute, Cancel, Settle, TypeInv, TypeOK
<1>5. buffer' \in Seq(Unit) /\ Len(buffer') <= Cap
  <2>1. /\ buffer \in Seq(Unit) /\ Len(buffer) \in Nat /\ Len(buffer) <= Cap
        /\ Cap \in Nat
    BY LenProperties, BleAssumption DEF TypeInv, TypeOK, Unit
  <2>2. CASE buffer' = << >>
    BY <2>1, <2>2, EmptySeq
  <2>3. CASE Write(c) /\ buffer' # << >>
    <3>1. buffer' = buffer \o Chunk(c) /\ Len(buffer') < Cap
      BY <2>3 DEF Write, Fits
    <3>2. buffer' \in Seq(Unit)
      BY <1>1, <2>1, <3>1, ChunkType, ConcatProperties
    <3> QED
      BY <2>1, <3>1, <3>2, LenProperties
  <2>4. CASE Prepare(c)
    <3>1. CASE ChunkEnd(c) <= Cap
      <4>1. out[c].sent \in Nat /\ ChunkEnd(c) >= out[c].sent
        BY <1>1, <2>4, BleAssumption DEF Prepare, ChunkEnd, TypeInv, TypeOK
      <4>2. Chunk(c) \in Seq(Unit) /\ out[c].sent + Len(Chunk(c)) <= Cap
        BY <1>1, <3>1, <4>1, ChunkType
      <4>3. buffer' = Overlay(buffer, out[c].sent, Chunk(c))
        BY <2>4, <3>1 DEF Prepare
      <4> QED
        BY <2>1, <4>1, <4>2, <4>3, OverlayType
    <3>2. CASE ~(ChunkEnd(c) <= Cap)
      BY <2>1, <2>4, <3>2 DEF Prepare
    <3> QED
      BY <3>1, <3>2
  <2> QED
    BY <2>2, <2>3, <2>4 DEF Overflow, Execute, Cancel
<1>6. TypeOK'
  BY <1>1, <1>2, <1>3, <1>4, <1>5, OutType
  DEF TypeInv, TypeOK, Unit, gattVars, initVars, linkVars
<1> QED
  BY <1>1, <1>2, <1>6, OutType DEF TypeInv

LEMMA BeginTyping == ASSUME TypeInv, NEW c \in Client, BeginMessage(c) PROVE TypeInv'
<1>1. PICK m \in Message, mode \in {"regular", "long"} :
        /\ out' = [out EXCEPT ![c] = [msg |-> m, sent |-> 0, mode |-> mode]]
        /\ heard' = heard \ {m}
  BY DEF BeginMessage
<1>2. /\ left' \in 0 .. MaxMessages /\ clean' \in {"yes", "no"}
      /\ UNCHANGED <<gattVars, linkVars, buffer, flagVars, conf, report, faults>>
  BY BleAssumption DEF BeginMessage, TypeInv, TypeOK
<1> QED
  BY <1>1, <1>2
  DEF TypeInv, TypeOK, Writing, gattVars, initVars, linkVars, flagVars

LEMMA LinkTyping ==
    ASSUME TypeInv, NEW c \in Client, Connect(c) \/ Drop(c) \/ Disconnected(c)
    PROVE  TypeInv'
<1>1. CASE Connect(c)
  BY <1>1 DEF Connect, TypeInv, TypeOK, Writing, gattVars, initVars, messageVars,
              flagVars
<1>2. CASE Drop(c)
  <2>1. out' = [out EXCEPT ![c] = [msg |-> None, sent |-> 0, mode |-> "idle"]]
    BY <1>2 DEF Drop, Idle
  <2> QED
    BY <1>2, <2>1 DEF Drop, TypeInv, TypeOK, Writing, gattVars, initVars, flagVars
<1>3. CASE Disconnected(c)
  BY <1>3, BleAssumption
  DEF Disconnected, StartAdvertising, Fault, TypeInv, TypeOK, Writing, gattVars,
      initVars, messageVars, flagVars
<1> QED
  BY <1>1, <1>2, <1>3

LEMMA InitTyping == ASSUME TypeInv, Initialise PROVE TypeInv'
<1> DEFINE Point == {"memRelease", "controllerInit", "controllerEnable", "bluedroidInit",
              "bluedroidEnable", "gattsCallback", "gapCallback", "setProfile",
              "appRegister", "done", "cleanup", "failed"}
<1>1. {Calls[i] : i \in 1 .. Len(Calls)} \cup {"cleanup", "failed"} = Point
  <2>1. Len(Calls) = 10 /\ \A i \in 1 .. 10 : i \in {1, 2, 3, 4, 5, 6, 7, 8, 9, 10}
    BY DEF Calls
  <2>2. /\ Calls[1] = "memRelease" /\ Calls[2] = "controllerInit"
        /\ Calls[3] = "controllerEnable" /\ Calls[4] = "bluedroidInit"
        /\ Calls[5] = "bluedroidEnable" /\ Calls[6] = "gattsCallback"
        /\ Calls[7] = "gapCallback" /\ Calls[8] = "setProfile"
        /\ Calls[9] = "appRegister" /\ Calls[10] = "done"
    BY DEF Calls
  <2> QED
    BY <2>1, <2>2
<1>2. call' \in Point
  BY <1>1, CallReturns DEF Initialise, InitCall, CleanUp, InitFails, TypeInv, TypeOK
<1>3. /\ layers' \subseteq Layer /\ flags' \subseteq Layer
      /\ profile' \in {"set", "unset"} /\ faults' \in 0 .. MaxFaults
      /\ setup' \in {setup, "register"}
  <2> USE BleAssumption DEF Fault, TypeInv, TypeOK
  <2>1. CASE InitCall
    <3>1. /\ layers' \subseteq layers \cup Layer /\ flags' = layers'
          /\ profile' \in {"set", profile} /\ setup' \in {setup, "register"}
      BY <2>1 DEF InitCall
    <3>2. UNCHANGED faults \/ Fault
      BY <2>1 DEF InitCall
    <3>3. faults' \in 0 .. MaxFaults
      BY <3>2
    <3> QED
      BY <3>1, <3>3
  <2>2. CASE CleanUp
    BY <2>2 DEF CleanUp
  <2>3. CASE InitFails
    BY <2>3 DEF InitFails
  <2> QED
    BY <2>1, <2>2, <2>3 DEF Initialise
<1>4. UNCHANGED <<chars, advSetup, linkVars, messageVars, flagVars, conf, report, left>>
  BY DEF Initialise, InitCall, CleanUp, InitFails
<1> QED
  BY <1>1, <1>2, <1>3, <1>4
  DEF TypeInv, TypeOK, Writing, linkVars, messageVars, flagVars

LEMMA SetupTyping == ASSUME TypeInv, Setup \/ Confirmation PROVE TypeInv'
<1>1. Fault \/ UNCHANGED faults
  BY DEF Setup, Register, AdvDataSet, StartAdvertising, ServiceCreated,
         WifiCharAdded, InfoCharAdded, SetupStep, Confirmation, PollConfirmation,
         DeleteCredentials, Advertise, ResetWaiting
<1>2. faults' \in 0 .. MaxFaults
  BY <1>1, BleAssumption DEF Fault, TypeInv, TypeOK
<1>3. UNCHANGED <<initVars, messageVars, left, conn, gone, successful>>
  BY DEF Setup, Register, AdvDataSet, ServiceCreated, WifiCharAdded, InfoCharAdded,
         SetupStep, Confirmation, PollConfirmation, DeleteCredentials, Advertise,
         ResetWaiting, gattVars, linkVars, flagVars
<1>4. /\ setup' \in {"none", "register", "create", "addWifi", "addInfo", "over"}
      /\ chars' \subseteq {"wifi", "info"} /\ advSetup' \subseteq {"data", "scan"}
      /\ adv' \in {"on", "off"} /\ waiting' \in {"yes", "no"}
      /\ conf' \in {"poll", "delete", "advertise", "reset"}
      /\ report' \in {"none", "new", "late", "taken"}
  <2> USE DEF TypeInv, TypeOK, gattVars, linkVars, flagVars
  <2>1. CASE Register
    BY <2>1 DEF Register
  <2>2. CASE AdvDataSet
    BY <2>2 DEF AdvDataSet, StartAdvertising
  <2>3. CASE ServiceCreated \/ WifiCharAdded \/ InfoCharAdded
    BY <2>3 DEF ServiceCreated, WifiCharAdded, InfoCharAdded, SetupStep
  <2>4. CASE PollConfirmation \/ DeleteCredentials \/ ResetWaiting
    BY <2>4 DEF PollConfirmation, DeleteCredentials, ResetWaiting
  <2>5. CASE Advertise
    BY <2>5 DEF Advertise, StartAdvertising
  <2> QED
    BY <2>1, <2>2, <2>3, <2>4, <2>5 DEF Setup, Confirmation
<1> QED
  BY <1>2, <1>3, <1>4 DEF TypeInv, TypeOK, Writing, initVars, messageVars

LEMMA TypeAtStart == ASSUME Init PROVE TypeInv
<1>1. buffer = << >> /\ Len(buffer) = 0 /\ buffer \in Seq(Unit)
  BY EmptySeq DEF Init
<1>2. Len(Calls) = 10 /\ call = Calls[1]
  BY DEF Init, Calls
<1> QED
  BY <1>1, <1>2, BleAssumption DEF Init, Idle, TypeInv, TypeOK, Writing, Unit

LEMMA TypeStep == ASSUME TypeInv, [Next]_vars PROVE TypeInv'
<1>1. CASE UNCHANGED vars
  BY <1>1 DEF vars, gattVars, initVars, linkVars, messageVars, flagVars, TypeInv,
              TypeOK, Writing
<1> QED
  BY <1>1, InitTyping, SetupTyping, LinkTyping, BeginTyping, WriteTyping
  DEF Next, App

(* Every variable has its type; the buffer never holds more than Cap,      *)
(* whatever is written to it, and whoever writes.                          *)
THEOREM TypeCorrect == Spec => []TypeOK
<1>1. Init => TypeInv
  BY TypeAtStart
<1>2. TypeInv /\ [Next]_vars => TypeInv'
  BY TypeStep
<1>3. TypeInv => TypeOK
  BY DEF TypeInv
<1> QED
  BY <1>1, <1>2, <1>3, PTL DEF Spec

-----------------------------------------------------------------------------
(* Detection. While the buffer is clean at most one client writes, and     *)
(* what it holds is the part of the message that was acknowledged.         *)

\* The units of a message from one position to another.
LEMMA UnitsType ==
    ASSUME NEW m \in Message, NEW f \in Nat, NEW e \in Nat, f <= e + 1
    PROVE  /\ Units(m, f, e) \in Seq(Unit)
           /\ Len(Units(m, f, e)) = e + 1 - f
           /\ \A k \in 1 .. e + 1 - f : Units(m, f, e)[k] = <<m, f + k - 1>>
<1> DEFINE n == e + 1 - f
           u == Units(m, f, e)
<1>1. n \in Nat
  OBVIOUS
<1>2. u = [k \in 1 .. n |-> <<m, f + k - 1>>]
  BY DEF Units
<1>3. \A k \in 1 .. n : f + k - 1 \in Nat
  BY <1>1
<1> HIDE DEF u, n
<1>4. \A k \in 1 .. n : <<m, f + k - 1>> \in Unit
  BY <1>3 DEF Unit
<1>5. u \in [1 .. n -> Unit]
  BY <1>2, <1>4
<1>6. u \in Seq(Unit)
  BY <1>1, <1>5, SeqDef
<1>7. Len(u) = n
  BY <1>1, <1>5, <1>6, LenProperties
<1>8. \A k \in 1 .. n : u[k] = <<m, f + k - 1>>
  BY <1>2
<1> QED
  BY <1>6, <1>7, <1>8 DEF u, n

Front(m, n) == Units(m, 1, n)

LEMMA FrontIs ==
    ASSUME NEW m \in Message, NEW n \in Nat
    PROVE  /\ Front(m, n) \in Seq(Unit) /\ Len(Front(m, n)) = n
           /\ \A k \in 1 .. n : Front(m, n)[k] = <<m, k>>
<1>1. 1 <= n + 1 /\ n + 1 - 1 = n /\ \A k \in 1 .. n : 1 + k - 1 = k
  OBVIOUS
<1>2. /\ Units(m, 1, n) \in Seq(Unit) /\ Len(Units(m, 1, n)) = n + 1 - 1
      /\ \A k \in 1 .. n + 1 - 1 : Units(m, 1, n)[k] = <<m, 1 + k - 1>>
  <2>1. 1 \in Nat
    OBVIOUS
  <2> QED
    BY <1>1, <2>1, UnitsType, Zenon
<1> QED
  BY <1>1, <1>2 DEF Front

LEMMA NextChunk ==
    ASSUME NEW m \in Message, NEW s \in Nat, NEW e \in Nat, s <= e
    PROVE  /\ Units(m, s + 1, e) \in Seq(Unit)
           /\ Len(Units(m, s + 1, e)) = e - s
           /\ \A k \in 1 .. e - s : Units(m, s + 1, e)[k] = <<m, s + k>>
<1>1. /\ s + 1 \in Nat /\ s + 1 <= e + 1 /\ e + 1 - (s + 1) = e - s
      /\ \A k \in 1 .. e - s : s + 1 + k - 1 = s + k
  OBVIOUS
<1>2. /\ Units(m, s + 1, e) \in Seq(Unit)
      /\ Len(Units(m, s + 1, e)) = e + 1 - (s + 1)
      /\ \A k \in 1 .. e + 1 - (s + 1) :
            Units(m, s + 1, e)[k] = <<m, s + 1 + k - 1>>
  BY <1>1, UnitsType, Zenon
<1> QED
  BY <1>1, <1>2

\* Appending the next chunk to the front of a message lengthens it.
LEMMA AppendedFront ==
    ASSUME NEW m \in Message, NEW s \in Nat, NEW e \in Nat, s <= e
    PROVE  Front(m, s) \o Units(m, s + 1, e) = Front(m, e)
<1> DEFINE a == Front(m, s)
           b == Units(m, s + 1, e)
<1>1. a \in Seq(Unit) /\ Len(a) = s /\ \A k \in 1 .. s : a[k] = <<m, k>>
  BY FrontIs
<1>2. b \in Seq(Unit) /\ Len(b) = e - s /\ \A k \in 1 .. e - s : b[k] = <<m, s + k>>
  BY NextChunk
<1>3. /\ Front(m, e) \in Seq(Unit) /\ Len(Front(m, e)) = e
      /\ \A k \in 1 .. e : Front(m, e)[k] = <<m, k>>
  BY FrontIs
<1> HIDE DEF a, b
<1>4. /\ a \o b \in Seq(Unit) /\ Len(a \o b) = e
      /\ \A k \in 1 .. e : (a \o b)[k] = IF k <= s THEN a[k] ELSE b[k - s]
  <2>1. Len(a) + Len(b) = e
    BY <1>1, <1>2
  <2>2. /\ a \o b \in Seq(Unit) /\ Len(a \o b) = Len(a) + Len(b)
        /\ \A k \in 1 .. Len(a) + Len(b) :
              (a \o b)[k] = IF k <= Len(a) THEN a[k] ELSE b[k - Len(a)]
    BY <1>1, <1>2, ConcatProperties, ZenonT(30)
  <2> QED
    BY <1>1, <2>1, <2>2, Zenon
<1>5. \A k \in 1 .. e : (a \o b)[k] = <<m, k>>
  <2> TAKE k \in 1 .. e
  <2>1. CASE k <= s
    BY <1>1, <1>4, <2>1
  <2>2. CASE k > s
    <3>1. k - s \in 1 .. e - s /\ s + (k - s) = k
      BY <2>2
    <3> QED
      BY <1>2, <1>4, <2>2, <3>1
  <2>3. k <= s \/ k > s
    OBVIOUS
  <2> QED
    BY <2>1, <2>2, <2>3, Zenon
<1> QED
  BY <1>3, <1>4, <1>5, SeqEqual DEF a, b

\* So does writing it at its offset.
LEMMA OverlaidFront ==
    ASSUME NEW m \in Message, NEW s \in Nat, NEW e \in Nat, s <= e
    PROVE  Overlay(Front(m, s), s, Units(m, s + 1, e)) = Front(m, e)
<1> DEFINE a == Front(m, s)
           b == Units(m, s + 1, e)
<1>1. Len(a) = s /\ \A k \in 1 .. s : a[k] = <<m, k>>
  BY FrontIs
<1>2. Len(b) = e - s /\ \A k \in 1 .. e - s : b[k] = <<m, s + k>>
  BY NextChunk
<1> HIDE DEF a, b
<1>3. s + Len(b) = e /\ (IF s + Len(b) > Len(a) THEN s + Len(b) ELSE Len(a)) = e
  BY <1>1, <1>2
<1>4. \A k \in 1 .. e : (IF k \in s + 1 .. e THEN b[k - s]
                         ELSE IF k <= Len(a) THEN a[k] ELSE Gap) = <<m, k>>
  <2> TAKE k \in 1 .. e
  <2>1. CASE k <= s
    BY <1>1, <2>1
  <2>2. CASE k > s
    <3>1. k - s \in 1 .. e - s /\ s + (k - s) = k /\ k \in s + 1 .. e
      BY <2>2
    <3> QED
      BY <1>2, <3>1
  <2> QED
    BY <2>1, <2>2
<1>5. Overlay(a, s, b) =
        [k \in 1 .. e |-> IF k \in s + 1 .. e THEN b[k - s]
                          ELSE IF k <= Len(a) THEN a[k] ELSE Gap]
  BY <1>3 DEF Overlay
<1>6. Overlay(a, s, b) = [k \in 1 .. e |-> <<m, k>>]
  BY <1>4, <1>5
<1>7. Front(m, e) = [k \in 1 .. e |-> <<m, k>>]
  <2>1. e + 1 - 1 = e /\ \A k \in 1 .. e : 1 + k - 1 = k
    OBVIOUS
  <2> QED
    BY <2>1 DEF Front, Units
<1> QED
  BY <1>6, <1>7 DEF a, b

\* The whole message is an object, and it is the one that is found.
LEMMA WholeIsFound ==
    ASSUME NEW m \in Message, NEW b, b = Front(m, Size[m])
    PROVE  IsObject(b) /\ (Process(b) => m \in heard')
<1>1. Size[m] \in Nat /\ Size[m] > 0
  BY BleAssumption
<1>2. /\ b \in Seq(Unit) /\ Len(b) = Size[m] /\ b = Units(m, 1, Size[m])
      /\ \A k \in 1 .. Size[m] : b[k] = <<m, k>>
  BY <1>1, FrontIs DEF Front
<1>3. b[1] = <<m, 1>> /\ b[Len(b)] = <<m, Size[m]>> /\ b # << >>
  BY <1>1, <1>2
<1>4. <<m, 1>> # Gap /\ <<m, Size[m]>> # Gap
  BY <1>1, BleAssumption
<1>5. IsObject(b)
  BY <1>1, <1>3, <1>4, BleAssumption DEF IsObject
<1>6. SubSeq(b, 1, Size[m]) = b
  BY <1>2, SubSeqFull
<1>7. Parses(b, m)
  BY <1>1, <1>2, <1>6 DEF Parses
<1> QED
  BY <1>5, <1>7 DEF Process

SentInv == \A c \in Client : Writing(c) => out[c].sent <= Size[out[c].msg]

\* A long write that is too large leaves chunks out of the buffer.
Held(c) == out[c].mode = "regular" \/ Size[out[c].msg] <= Cap

CleanInv ==
    clean = "yes" =>
        /\ \A c, d \in Client : Writing(c) /\ Writing(d) => c = d
        /\ \A c \in Client : Writing(c) /\ Held(c)
              => buffer = Front(out[c].msg, out[c].sent)
        /\ (\A c \in Client : ~Writing(c)) => buffer = << >>

DetectInv == TypeInv /\ SentInv /\ CleanInv

LEMMA NextEnd ==
    ASSUME TypeInv, SentInv, NEW c \in Client, Writing(c)
    PROVE  /\ out[c].msg \in Message /\ out[c].sent \in Nat
           /\ ChunkEnd(c) \in Nat /\ Size[out[c].msg] \in Nat \ {0}
           /\ out[c].sent <= ChunkEnd(c) /\ ChunkEnd(c) <= Size[out[c].msg]
  BY BleAssumption DEF ChunkEnd, TypeInv, TypeOK, SentInv

\* The end of a message with an empty buffer.
LEMMA MessageOver ==
    ASSUME DetectInv, NEW c \in Client, Writing(c), Settle(c), buffer' = << >>,
           NEW how \in {"ok", "refused"}, Ends(c, how)
    PROVE  SentInv' /\ CleanInv'
<1>1. out' = [out EXCEPT ![c] = Ended(how)] /\ Ended(how).mode = how
  BY DEF Ends, Ended, Idle
<1>2. ~Writing(c)' /\ \A d \in Client \ {c} : out'[d] = out[d]
  BY <1>1 DEF Writing, DetectInv, TypeInv, TypeOK
<1>3. SentInv'
  BY <1>2 DEF SentInv, DetectInv, Writing
<1>4. clean' = "yes" => \A d \in Client : ~Writing(d)'
  BY DEF Settle
<1> QED
  BY <1>3, <1>4 DEF CleanInv

\* A message goes on, and what the buffer holds goes with it.
LEMMA Continuing ==
    ASSUME DetectInv, NEW c \in Client, Writing(c),
           out' = [out EXCEPT ![c] = [out[c] EXCEPT !.sent = ChunkEnd(c)]],
           clean' = "yes" => clean = "yes",
           clean' = "yes" /\ Held(c) => buffer' = Front(out[c].msg, ChunkEnd(c))
    PROVE  SentInv' /\ CleanInv'
<1>1. /\ out'[c].mode = out[c].mode /\ out'[c].msg = out[c].msg
      /\ out'[c].sent = ChunkEnd(c)
      /\ \A d \in Client \ {c} : out'[d] = out[d]
  BY DEF DetectInv, TypeInv, TypeOK
<1>2. \A d \in Client : Writing(d)' <=> Writing(d)
  BY <1>1 DEF Writing
<1>3. SentInv'
  BY <1>1, <1>2, NextEnd DEF SentInv, DetectInv
<1>4. ASSUME clean' = "yes", NEW d \in Client, Writing(d)', Held(d)'
      PROVE  buffer' = Front(out[d].msg, out[d].sent)'
  <2>1. d = c
    BY <1>2, <1>4 DEF DetectInv, CleanInv
  <2>2. Held(c)
    BY <1>1, <1>4, <2>1 DEF Held
  <2> QED
    BY <1>1, <1>4, <2>1, <2>2
<1>5. clean' = "yes" =>
        \A d, e \in Client : Writing(d)' /\ Writing(e)' => d = e
  BY <1>2 DEF DetectInv, CleanInv
<1> QED
  BY <1>2, <1>3, <1>4, <1>5 DEF CleanInv

LEMMA WriteDetects ==
    ASSUME DetectInv, NEW c \in Client, Write(c)
    PROVE  /\ SentInv' /\ CleanInv'
           /\ clean = "yes" /\ out'[c].mode = "ok" => out[c].msg \in heard'
<1> DEFINE m == out[c].msg
           b == buffer \o Chunk(c)
<1>1. Writing(c) /\ out[c].mode = "regular" /\ Settle(c) /\ Progress(c)
  BY DEF Write, Writing
<1>2. /\ m \in Message /\ out[c].sent \in Nat /\ ChunkEnd(c) \in Nat
      /\ Size[m] \in Nat \ {0}
      /\ out[c].sent <= ChunkEnd(c) /\ ChunkEnd(c) <= Size[m]
  BY <1>1, NextEnd DEF DetectInv
<1>3. clean = "yes" => b = Front(m, ChunkEnd(c))
  BY <1>1, <1>2, AppendedFront DEF DetectInv, CleanInv, Held, Chunk
<1>4. \/ IsObject(b) /\ buffer' = << >> /\ Process(b)
      \/ ~IsObject(b) /\ buffer' = b
  BY DEF Write
<1>5. CASE ChunkEnd(c) = Size[m]
  <2>1. Ends(c, "ok")
    BY <1>1, <1>5 DEF Progress, Ends
  <2>2. CASE clean = "yes"
    <3>1. b = Front(m, Size[m])
      BY <1>3, <1>5, <2>2
    <3>2. IsObject(b) /\ (Process(b) => m \in heard')
      BY <1>2, <3>1, WholeIsFound
    <3> QED
      BY <1>1, <1>4, <2>1, <3>2, MessageOver
  <2>3. CASE clean # "yes"
    <3>1. CASE buffer' = << >>
      BY <1>1, <2>1, <2>3, <3>1, MessageOver
    <3>2. CASE buffer' # << >>
      <4>1. clean' # "yes"
        BY <1>1, <2>3, <3>2 DEF Settle
      <4>2. \A d \in Client : Writing(d)' => Writing(d) /\ out'[d] = out[d]
        BY <2>1 DEF Ends, Ended, Idle, Writing, DetectInv, TypeInv, TypeOK
      <4> QED
        BY <2>3, <4>1, <4>2 DEF SentInv, CleanInv, DetectInv
    <3> QED
      BY <3>1, <3>2
  <2> QED
    BY <2>2, <2>3
<1>6. CASE ChunkEnd(c) # Size[m]
  <2>1. out' = [out EXCEPT ![c] = [out[c] EXCEPT !.sent = ChunkEnd(c)]]
    BY <1>6 DEF Progress, Write
  <2>2. out'[c].mode = "regular"
    BY <1>1, <2>1 DEF DetectInv, TypeInv, TypeOK
  <2>3. clean' = "yes" => clean = "yes" /\ buffer' # << >>
    <3>1. Writing(c)'
      BY <2>2 DEF Writing
    <3> QED
      BY <1>1, <3>1 DEF Settle
  <2>4. clean' = "yes" => buffer' = Front(m, ChunkEnd(c))
    BY <1>3, <1>4, <2>3
  <2> QED
    BY <1>1, <2>1, <2>2, <2>3, <2>4, Continuing
<1> QED
  BY <1>5, <1>6

LEMMA PrepareDetects ==
    ASSUME DetectInv, NEW c \in Client, Prepare(c)
    PROVE  SentInv' /\ CleanInv' /\ out'[c].mode # "ok"
<1>1. Writing(c) /\ out[c].mode = "long" /\ Progress(c) /\ clean' = clean
  BY DEF Prepare, Writing
<1>2. out' = [out EXCEPT ![c] = [out[c] EXCEPT !.sent = ChunkEnd(c)]]
  BY <1>1 DEF Progress
<1>3. /\ out[c].msg \in Message /\ out[c].sent \in Nat /\ ChunkEnd(c) \in Nat
      /\ Size[out[c].msg] \in Nat \ {0} /\ Cap \in Nat
      /\ out[c].sent <= ChunkEnd(c) /\ ChunkEnd(c) <= Size[out[c].msg]
  BY <1>1, NextEnd, BleAssumption DEF DetectInv
<1>4. ASSUME clean = "yes", Held(c)
      PROVE  buffer' = Front(out[c].msg, ChunkEnd(c))
  <2>1. ChunkEnd(c) <= Cap
    BY <1>1, <1>3, <1>4 DEF Held
  <2>2. buffer = Front(out[c].msg, out[c].sent)
    BY <1>1, <1>4 DEF DetectInv, CleanInv
  <2>3. buffer' = Overlay(buffer, out[c].sent, Chunk(c))
    BY <2>1 DEF Prepare
  <2> QED
    BY <1>3, <2>2, <2>3, OverlaidFront DEF Chunk
<1>5. out'[c].mode # "ok"
  BY <1>1, <1>2 DEF DetectInv, TypeInv, TypeOK
<1> QED
  BY <1>1, <1>2, <1>4, <1>5, Continuing

LEMMA ExecuteDetects ==
    ASSUME DetectInv, NEW c \in Client, Execute(c)
    PROVE  /\ SentInv' /\ CleanInv'
           /\ clean = "yes" /\ Size[out[c].msg] <= Cap => out[c].msg \in heard'
<1>1. /\ Writing(c) /\ out[c].sent = Size[out[c].msg] /\ Process(buffer)
      /\ buffer' = << >> /\ Ends(c, "ok") /\ Settle(c)
  BY DEF Execute, Writing
<1>2. clean = "yes" /\ Size[out[c].msg] <= Cap
        => buffer = Front(out[c].msg, Size[out[c].msg])
  BY <1>1 DEF DetectInv, CleanInv, Held
<1>3. out[c].msg \in Message
  BY <1>1 DEF DetectInv, TypeInv
<1> QED
  BY <1>1, <1>2, <1>3, WholeIsFound, MessageOver

LEMMA BeginDetects ==
    ASSUME DetectInv, NEW c \in Client, BeginMessage(c)
    PROVE  SentInv' /\ CleanInv' /\ out'[c].mode # "ok"
<1>1. PICK m \in Message, mode \in {"regular", "long"} :
        out' = [out EXCEPT ![c] = [msg |-> m, sent |-> 0, mode |-> mode]]
  BY DEF BeginMessage
<1>2. /\ out'[c] = [msg |-> m, sent |-> 0, mode |-> mode]
      /\ \A d \in Client \ {c} : out'[d] = out[d]
  BY <1>1 DEF DetectInv, TypeInv, TypeOK
<1>3. SentInv'
  BY <1>2, BleAssumption DEF SentInv, DetectInv, Writing
<1>4. ASSUME clean' = "yes" PROVE CleanInv'
  <2>1. clean = "yes" /\ \A d \in Client : ~Writing(d)
    BY <1>4 DEF BeginMessage
  <2>2. buffer' = << >>
    BY <2>1 DEF BeginMessage, DetectInv, CleanInv
  <2>3. Front(m, 0) = << >>
    BY FrontIs, EmptySeq
  <2>4. \A d \in Client : Writing(d)' => d = c
    BY <1>2, <2>1 DEF Writing
  <2>5. buffer' = Front(out'[c].msg, out'[c].sent)
    BY <1>2, <2>2, <2>3
  <2>6. Writing(c)'
    BY <1>2 DEF Writing
  <2>7. \A d \in Client : Writing(d)' => buffer' = Front(out[d].msg, out[d].sent)'
    BY <2>4, <2>5
  <2>8. \A d, e \in Client : Writing(d)' /\ Writing(e)' => d = e
    BY <2>4
  <2> QED
    BY <2>6, <2>7, <2>8 DEF CleanInv
<1> QED
  BY <1>2, <1>3, <1>4 DEF CleanInv

LEMMA DropDetects ==
    ASSUME DetectInv, NEW c \in Client, Drop(c)
    PROVE  SentInv' /\ CleanInv' /\ out'[c].mode # "ok"
<1>1. /\ out'[c] = Idle /\ Idle.mode = "idle"
      /\ \A d \in Client \ {c} : out'[d] = out[d]
  BY DEF Drop, Idle, DetectInv, TypeInv, TypeOK
<1>2. \A d \in Client : Writing(d)' => Writing(d) /\ out'[d] = out[d]
  BY <1>1 DEF Writing
<1>3. clean' = "yes" => /\ clean = "yes" /\ ~Writing(c) /\ buffer' = buffer
  BY DEF Drop
<1>4. clean' = "yes" => \A d \in Client : Writing(d)' <=> Writing(d)
  BY <1>1, <1>2, <1>3 DEF Writing
<1> QED
  BY <1>1, <1>2, <1>3, <1>4 DEF SentInv, CleanInv, DetectInv, Held

\* What a step does to the invariant and, of the clients, to a single one.
LEMMA DetectStep ==
    ASSUME DetectInv, [Next]_vars
    PROVE  /\ SentInv' /\ CleanInv'
           /\ \A c \in Client :
                 Acknowledged(c) /\ clean = "yes" /\ Size[out[c].msg] <= Cap
                 => out[c].msg \in heard'
<1> DEFINE Detected ==
             \A c \in Client :
                 Acknowledged(c) /\ clean = "yes" /\ Size[out[c].msg] <= Cap
                 => out[c].msg \in heard'
<1>1. ASSUME UNCHANGED messageVars PROVE SentInv' /\ CleanInv' /\ Detected
  BY <1>1 DEF messageVars, SentInv, CleanInv, DetectInv, Writing, Held, Acknowledged
<1>2. ASSUME NEW c \in Client,
             \/ Write(c) \/ Overflow(c) \/ Prepare(c) \/ Execute(c) \/ Cancel(c)
             \/ Drop(c) \/ BeginMessage(c)
      PROVE  SentInv' /\ CleanInv' /\ Detected
  <2>1. \A d \in Client \ {c} : out'[d] = out[d]
    <3>1. \E r : out' = [out EXCEPT ![c] = r]
      BY <1>2 DEF Write, Overflow, Prepare, Execute, Cancel, Progress, Ends, Drop,
                  BeginMessage
    <3> QED
      BY <3>1 DEF DetectInv, TypeInv, TypeOK
  <2>2. \A d \in Client \ {c} : ~Acknowledged(d)
    BY <2>1 DEF Acknowledged, Writing
  <2>3. CASE Overflow(c) \/ Cancel(c)
    <3>1. /\ Writing(c) /\ Settle(c) /\ buffer' = << >> /\ Ends(c, "refused")
      BY <2>3 DEF Overflow, Cancel, Writing
    <3>2. out'[c].mode # "ok"
      BY <3>1 DEF Ends, Ended, Idle, DetectInv, TypeInv, TypeOK
    <3>3. SentInv' /\ CleanInv'
      BY <3>1, MessageOver
    <3> QED
      BY <2>2, <3>2, <3>3 DEF Acknowledged
  <2>4. CASE Write(c)
    BY <2>2, <2>4, WriteDetects DEF Acknowledged
  <2>5. CASE Execute(c)
    BY <2>2, <2>5, ExecuteDetects DEF Acknowledged
  <2>6. CASE Prepare(c) \/ BeginMessage(c) \/ Drop(c)
    BY <2>2, <2>6, PrepareDetects, BeginDetects, DropDetects DEF Acknowledged
  <2> QED
    BY <1>2, <2>3, <2>4, <2>5, <2>6
<1>3. ASSUME NEW c \in Client, Connect(c) \/ Disconnected(c)
      PROVE  SentInv' /\ CleanInv' /\ Detected
  BY <1>1, <1>3 DEF Connect, Disconnected
<1>4. CASE Initialise \/ Setup \/ Confirmation \/ UNCHANGED vars
  BY <1>1, <1>4
  DEF Initialise, InitCall, CleanUp, InitFails, Setup, Register, AdvDataSet,
      ServiceCreated, WifiCharAdded, InfoCharAdded, SetupStep, Confirmation,
      PollConfirmation, DeleteCredentials, Advertise, ResetWaiting, vars
<1> QED
  BY <1>2, <1>3, <1>4 DEF Next, App

(* Whatever overflows, cancelled and oversized messages and broken links   *)
(* came before, an acknowledged message that fits is detected, for any     *)
(* number of clients, any sizes, any way of cutting it into writes and any *)
(* braces inside it, with the buffer clean: no link that broke and no      *)
(* second writer since it was last empty, and no write in mid-message that *)
(* looks like the end of one.                                              *)
THEOREM MessagesAreDetected == Spec => CleanMessageDetected
<1>1. Init => DetectInv
  <2> SUFFICES ASSUME Init PROVE DetectInv
    OBVIOUS
  <2>1. \A c \in Client : ~Writing(c)
    BY DEF Init, Idle, Writing
  <2> QED
    BY <2>1, TypeAtStart DEF Init, DetectInv, SentInv, CleanInv
<1>2. DetectInv /\ [Next]_vars => DetectInv'
  BY DetectStep, TypeStep DEF DetectInv
<1>3. DetectInv /\ [Next]_vars =>
        [\A c \in Client :
            Acknowledged(c) /\ clean = "yes" /\ Size[out[c].msg] <= Cap
            => out[c].msg \in heard']_vars
  BY DetectStep
<1> QED
  BY <1>1, <1>2, <1>3, PTL DEF Spec, CleanMessageDetected
-----------------------------------------------------------------------------
(* Nothing else is detected. For a long write that is too large, the       *)
(* buffer holds the front of the message up to the first chunk that did    *)
(* not fit: what comes after it does not fit either, so that no end of a   *)
(* message ever follows a gap.                                             *)

OversizeInv ==
    clean = "yes" =>
        \A c \in Client : Writing(c) /\ ~Held(c) =>
            \E k \in 0 .. Cap :
                /\ buffer = Front(out[c].msg, k)
                /\ out[c].sent = k \/ out[c].sent > Cap

OnlyInv == DetectInv /\ OversizeInv

Silent ==
    /\ heard' \subseteq heard /\ successful' = successful
    /\ waiting' = "yes" => waiting = "yes"

Tells(c) ==
    /\ Acknowledged(c) /\ heard' \subseteq heard \cup {out[c].msg}
    /\ waiting' = "yes" /\ successful' = Outcome(out[c].msg)

LEMMA FirstStays ==
    ASSUME NEW S, NEW b \in Seq(S), NEW n \in 1 .. Len(b)
    PROVE  SubSeq(b, 1, n)[1] = b[1]
<1>1. n \in Int /\ 1 \in Int /\ 1 \in 1 .. n - 1 + 1 /\ 1 + 1 - 1 = 1
  BY LenProperties
<1>2. \A i \in 1 .. n : b[i] \in S
  <2>1. \A i \in 1 .. n : i \in 1 .. Len(b)
    BY LenProperties
  <2> QED
    BY <2>1, ElementOfSeq
<1>3. \A i \in 1 .. n - 1 + 1 : SubSeq(b, 1, n)[i] = b[1 + i - 1]
  BY <1>1, <1>2, SubSeqProperties
<1> QED
  BY <1>1, <1>3

\* No other message than the one the buffer begins with is found.
LEMMA FirstUnitTells ==
    ASSUME NEW m, NEW x \in Message, NEW b \in Seq(Unit),
           b[1] = <<m, 1>>, Parses(b, x)
    PROVE  x = m
<1>1. /\ Size[x] \in Nat \ {0} /\ 1 \in 1 .. Size[x]
      /\ Size[x] <= Len(b) /\ Len(b) \in Nat
  BY LenProperties, BleAssumption DEF Parses
<1>2. SubSeq(b, 1, Size[x]) = Front(x, Size[x])
  BY DEF Parses, Front
<1>3. Front(x, Size[x])[1] = <<x, 1>>
  BY <1>1, FrontIs
<1>4. SubSeq(b, 1, Size[x])[1] = b[1]
  <2>1. Size[x] \in 1 .. Len(b)
    BY <1>1
  <2> QED
    BY <2>1, FirstStays, Zenon
<1>5. <<x, 1>> = <<m, 1>>
  BY <1>2, <1>3, <1>4
<1> QED
  BY <1>5

\* Of a message's front, the message is found when it is whole, else nothing.
LEMMA FrontIsFound ==
    ASSUME NEW m \in Message, NEW n \in Nat, n <= Size[m], Process(Front(m, n))
    PROVE  \/ n < Size[m] /\ UNCHANGED <<heard, flagVars>>
           \/ n = Size[m] /\ heard' = heard \cup {m} /\ Raise(m)
<1> DEFINE b == Front(m, n)
           found == {x \in Message : IsObject(b) /\ Parses(b, x)}
<1>1. /\ heard' = heard \cup found
      /\ \/ found = {} /\ UNCHANGED flagVars
         \/ \E x \in found : Raise(x)
  BY DEF Process
<1>2. b \in Seq(Unit) /\ Len(b) = n /\ \A k \in 1 .. n : b[k] = <<m, k>>
  BY FrontIs
<1>3. ASSUME n < Size[m], NEW x \in Message, IsObject(b), Parses(b, x)
      PROVE  FALSE
  <2>1. n # 0
    BY <1>2, <1>3, EmptySeq DEF IsObject
  <2>2. b[1] = <<m, 1>>
    BY <1>2, <2>1
  <2>3. x = m
    BY <1>2, <1>3, <2>2, FirstUnitTells
  <2> QED
    BY <1>2, <1>3, <2>3, BleAssumption DEF Parses
<1>4. n = Size[m] => IsObject(b) /\ m \in heard'
  BY WholeIsFound
<1>5. Size[m] \in Nat \ {0}
  BY BleAssumption
<1> HIDE DEF b
<1>6. CASE n < Size[m]
  BY <1>1, <1>3, <1>6
<1>7. CASE n = Size[m]
  <2>1. b[1] = <<m, 1>>
    BY <1>2, <1>5, <1>7
  <2>2. \A x \in found : x = m
    BY <1>2, <2>1, FirstUnitTells
  <2>3. m \in found
    <3>1. SubSeq(b, 1, Len(b)) = b
      BY <1>2, SubSeqFull
    <3>2. Parses(b, m)
      <4>1. Units(m, 1, Size[m]) = b
        BY <1>7 DEF b, Front
      <4> HIDE DEF b
      <4> QED
        BY <1>2, <1>5, <1>7, <3>1, <4>1 DEF Parses
    <3> QED
      BY <1>4, <1>7, <3>2
  <2> HIDE DEF found
  <2>4. found = {m}
    BY <2>2, <2>3
  <2> QED
    BY <1>1, <1>7, <2>4
<1> QED
  BY <1>5, <1>6, <1>7

\* The rest of an overfull message does not fit either.
LEMMA OversizeGoesOn ==
    ASSUME OnlyInv, NEW c \in Client, Prepare(c), clean = "yes", ~Held(c)
    PROVE  \E k \in 0 .. Cap :
              /\ buffer' = Front(out[c].msg, k)
              /\ ChunkEnd(c) = k \/ ChunkEnd(c) > Cap
<1>1. Writing(c)
  BY DEF Prepare, Writing
<1>2. /\ out[c].msg \in Message /\ out[c].sent \in Nat /\ ChunkEnd(c) \in Nat
      /\ out[c].sent <= ChunkEnd(c) /\ Cap \in Nat
  BY <1>1, NextEnd, BleAssumption DEF OnlyInv, DetectInv
<1>3. PICK k \in 0 .. Cap :
        /\ buffer = Front(out[c].msg, k)
        /\ out[c].sent = k \/ out[c].sent > Cap
  BY <1>1 DEF OnlyInv, OversizeInv
<1>4. CASE ChunkEnd(c) <= Cap
  <2>1. buffer' = Overlay(buffer, out[c].sent, Chunk(c))
    BY <1>4 DEF Prepare
  <2>2. out[c].sent = k
    BY <1>2, <1>3, <1>4
  <2>3. buffer' = Front(out[c].msg, ChunkEnd(c))
    BY <1>2, <1>3, <2>1, <2>2, OverlaidFront DEF Chunk
  <2> QED
    BY <1>2, <1>4, <2>3
<1>5. CASE ChunkEnd(c) > Cap
  <2>1. buffer' = buffer
    BY <1>2, <1>5 DEF Prepare
  <2> QED
    BY <1>3, <1>5, <2>1
<1> QED
  BY <1>2, <1>4, <1>5

\* With a clean buffer nobody writes beside the client that takes a step.
LEMMA OthersRest ==
    ASSUME DetectInv, NEW c \in Client, Writing(c), clean' = "yes",
           Settle(c) \/ clean' = clean,
           \A d \in Client \ {c} : out'[d] = out[d]
    PROVE  \A d \in Client \ {c} : ~Writing(d)
BY DEF Settle, Writing, DetectInv, CleanInv

LEMMA OversizeStep ==
    ASSUME OnlyInv, [Next]_vars
    PROVE  OversizeInv'
<1>1. ASSUME UNCHANGED messageVars PROVE OversizeInv'
  BY <1>1 DEF messageVars, OversizeInv, OnlyInv, Writing, Held
<1>2. ASSUME NEW c \in Client,
             \/ Write(c) \/ Overflow(c) \/ Prepare(c) \/ Execute(c) \/ Cancel(c)
             \/ Drop(c) \/ BeginMessage(c),
             clean' = "yes"
      PROVE  \A d \in Client : Writing(d)' /\ ~Held(d)' =>
                \E k \in 0 .. Cap :
                   /\ buffer' = Front(out'[d].msg, k)
                   /\ out'[d].sent = k \/ out'[d].sent > Cap
    <2>0. out \in [Client -> [msg : Message \cup {None}, sent : Nat,
                 mode : {"idle", "regular", "long", "ok", "refused"}]]
      BY DEF OnlyInv, DetectInv, TypeInv, TypeOK
    <2>1. \A d \in Client \ {c} : out'[d] = out[d]
      <3>1. \E r : out' = [out EXCEPT ![c] = r]
        BY <1>2 DEF Write, Overflow, Prepare, Execute, Cancel, Progress, Ends,
                    Drop, BeginMessage
      <3> QED
        BY <2>0, <3>1
    <2>2. CASE Write(c)
      <3>1. Writing(c) /\ Settle(c) /\ out[c].mode = "regular" /\ Progress(c)
        BY <2>2 DEF Write, Writing
      <3>2. out'[c].mode \in {"regular", "ok"}
        BY <2>0, <3>1 DEF Progress, Ended, Idle
      <3> QED
        BY <1>2, <2>1, <3>1, <3>2, OthersRest DEF OnlyInv, Writing, Held
    <2>3. CASE Overflow(c) \/ Execute(c) \/ Cancel(c)
      <3>1. /\ Writing(c) /\ Settle(c)
            /\ \E how \in {"ok", "refused"} : Ends(c, how)
        BY <2>3 DEF Overflow, Execute, Cancel, Writing
      <3>2. out'[c].mode \in {"ok", "refused"}
        BY <2>0, <3>1 DEF Ends, Ended, Idle
      <3> QED
        BY <1>2, <2>1, <3>1, <3>2, OthersRest DEF OnlyInv, Writing
    <2>4. CASE Prepare(c)
      <3>1. /\ Writing(c) /\ clean = "yes" /\ out[c].mode = "long"
            /\ Progress(c)
        BY <1>2, <2>4 DEF Prepare, Writing
      <3>2. out' = [out EXCEPT ![c] = [out[c] EXCEPT !.sent = ChunkEnd(c)]]
        BY <3>1 DEF Progress
      <3>3. /\ out'[c].msg = out[c].msg /\ out'[c].sent = ChunkEnd(c)
            /\ out'[c].mode = out[c].mode
        BY <2>0, <3>2
      <3>4. ~Held(c)' => ~Held(c)
        BY <3>3 DEF Held
      <3>5. \A d \in Client \ {c} : ~Writing(d)'
        BY <1>2, <2>1, <2>4, <3>1, OthersRest DEF Prepare, OnlyInv, Writing
      <3> QED
        BY <2>4, <3>1, <3>3, <3>4, <3>5, OversizeGoesOn
    <2>5. CASE BeginMessage(c)
      <3>1. clean = "yes" /\ \A d \in Client : ~Writing(d)
        BY <1>2, <2>5 DEF BeginMessage
      <3>2. buffer' = << >>
        BY <2>5, <3>1 DEF BeginMessage, OnlyInv, DetectInv, CleanInv
      <3>3. PICK m \in Message, mode \in {"regular", "long"} :
              out'[c] = [msg |-> m, sent |-> 0, mode |-> mode]
        BY <2>0, <2>5 DEF BeginMessage
      <3>4. buffer' = Front(out'[c].msg, 0) /\ out'[c].sent = 0
        BY <3>2, <3>3, FrontIs, EmptySeq
      <3>5. 0 \in 0 .. Cap
        BY BleAssumption
      <3> QED
        BY <2>1, <3>1, <3>4, <3>5 DEF Writing
    <2>6. CASE Drop(c)
      <3>1. clean = "yes" /\ buffer' = buffer
        BY <1>2, <2>6 DEF Drop
      <3>2. ~Writing(c)'
        BY <2>0, <2>6 DEF Drop, Writing, Idle
      <3> QED
        BY <2>1, <3>1, <3>2 DEF OnlyInv, OversizeInv, Writing, Held
    <2> QED
      BY <1>2, <2>2, <2>3, <2>4, <2>5, <2>6
<1>3. ASSUME NEW c \in Client, Connect(c) \/ Disconnected(c) PROVE OversizeInv'
  BY <1>1, <1>3 DEF Connect, Disconnected
<1>4. CASE Initialise \/ Setup \/ Confirmation \/ UNCHANGED vars
  BY <1>1, <1>4
  DEF Initialise, InitCall, CleanUp, InitFails, Setup, Register, AdvDataSet,
      ServiceCreated, WifiCharAdded, InfoCharAdded, SetupStep, Confirmation,
      PollConfirmation, DeleteCredentials, Advertise, ResetWaiting, vars
<1> QED
  BY <1>2, <1>3, <1>4 DEF Next, App, OversizeInv

\* What is in the buffer when it is processed is a front of the message.
LEMMA StepTells ==
    ASSUME OnlyInv, [Next]_vars, clean = "yes"
    PROVE  Silent \/ \E c \in Client : Tells(c)
<1>1. ASSUME UNCHANGED heard, UNCHANGED flagVars PROVE Silent
  BY <1>1 DEF flagVars, Silent
<1>2. ASSUME NEW c \in Client, Write(c)
      PROVE  Silent \/ Tells(c)
  <2> DEFINE b == buffer \o Chunk(c)
  <2>1. Writing(c) /\ out[c].mode = "regular" /\ Progress(c)
    BY <1>2 DEF Write, Writing
  <2>2. /\ out[c].msg \in Message /\ out[c].sent \in Nat /\ ChunkEnd(c) \in Nat
        /\ out[c].sent <= ChunkEnd(c) /\ ChunkEnd(c) <= Size[out[c].msg]
    BY <2>1, NextEnd DEF OnlyInv, DetectInv
  <2>3. b = Front(out[c].msg, ChunkEnd(c))
    BY <2>1, <2>2, AppendedFront DEF OnlyInv, DetectInv, CleanInv, Held, Chunk
  <2>4. Process(b) \/ UNCHANGED <<heard, flagVars>>
    BY <1>2 DEF Write, NotProcessed
  <2> HIDE DEF b
  <2>5. CASE UNCHANGED <<heard, flagVars>>
    BY <1>1, <2>5
  <2>6. CASE Process(b) /\ ~UNCHANGED <<heard, flagVars>>
    <3>1. /\ ChunkEnd(c) = Size[out[c].msg]
          /\ heard' = heard \cup {out[c].msg} /\ Raise(out[c].msg)
      BY <2>2, <2>3, <2>6, FrontIsFound
    <3>2. out' = [out EXCEPT ![c] = Ended("ok")]
      BY <2>1, <3>1 DEF Progress
    <3>3. out'[c].mode = "ok"
      BY <3>2 DEF Ended, Idle, OnlyInv, DetectInv, TypeInv, TypeOK
    <3> QED
      BY <2>1, <3>1, <3>3 DEF Tells, Acknowledged, Raise
  <2> QED
    BY <2>4, <2>5, <2>6
<1>3. ASSUME NEW c \in Client, Execute(c)
      PROVE  Silent \/ Tells(c)
  <2>1. /\ Writing(c) /\ out[c].mode = "long" /\ out[c].sent = Size[out[c].msg]
        /\ Process(buffer) /\ Ends(c, "ok")
    BY <1>3 DEF Execute, Writing
  <2>2. /\ out[c].msg \in Message /\ Size[out[c].msg] \in Nat /\ Cap \in Nat
    BY <2>1, NextEnd, BleAssumption DEF OnlyInv, DetectInv
  <2>3. PICK k \in Nat : k <= Size[out[c].msg] /\ buffer = Front(out[c].msg, k)
    <3>1. CASE Held(c)
      BY <2>1, <2>2, <3>1 DEF OnlyInv, DetectInv, CleanInv
    <3>2. CASE ~Held(c)
      <4>1. Size[out[c].msg] > Cap
        BY <2>1, <2>2, <3>2 DEF Held
      <4>2. PICK k \in 0 .. Cap : buffer = Front(out[c].msg, k)
        BY <2>1, <3>2 DEF OnlyInv, OversizeInv
      <4>3. k \in Nat /\ k <= Size[out[c].msg]
        BY <2>2, <4>1
      <4> QED
        BY <4>2, <4>3
    <3> QED
      BY <3>1, <3>2
  <2>4. \/ UNCHANGED <<heard, flagVars>>
        \/ heard' = heard \cup {out[c].msg} /\ Raise(out[c].msg)
    BY <2>1, <2>2, <2>3, FrontIsFound
  <2>5. out'[c].mode = "ok"
    BY <2>1 DEF Ends, Ended, Idle, OnlyInv, DetectInv, TypeInv, TypeOK
  <2> QED
    BY <1>1, <2>1, <2>4, <2>5 DEF Tells, Acknowledged, Raise
<1>4. ASSUME NEW c \in Client,
             \/ Connect(c) \/ Drop(c) \/ BeginMessage(c) \/ Disconnected(c)
             \/ Overflow(c) \/ Prepare(c) \/ Cancel(c)
      PROVE  Silent
  BY <1>4
  DEF Connect, Drop, BeginMessage, Disconnected, Overflow, Prepare, Cancel,
      NotProcessed, flagVars, messageVars, Silent
<1>5. CASE Initialise \/ Setup \/ Confirmation \/ UNCHANGED vars
  BY <1>5
  DEF Initialise, InitCall, CleanUp, InitFails, Setup, Register, AdvDataSet,
      ServiceCreated, WifiCharAdded, InfoCharAdded, SetupStep, Confirmation,
      PollConfirmation, DeleteCredentials, Advertise, ResetWaiting, vars,
      flagVars, messageVars, Silent
<1> QED
  BY <1>2, <1>3, <1>4, <1>5 DEF Next, App

(* While the buffer is clean, what is detected is what was just written to *)
(* its end, and the flags hold its outcome, for any number of clients, any *)
(* sizes, too large ones included, any braces inside them and any way of    *)
(* cutting them into writes.                                                *)
THEOREM NothingElseIsDetected == Spec => OnlyWrittenIsDetected
<1>1. Init => OnlyInv
  <2> SUFFICES ASSUME Init PROVE OnlyInv
    OBVIOUS
  <2>1. \A c \in Client : ~Writing(c)
    BY DEF Init, Idle, Writing
  <2> QED
    BY <2>1, TypeAtStart
    DEF Init, OnlyInv, DetectInv, SentInv, CleanInv, OversizeInv
<1>2. OnlyInv /\ [Next]_vars => OnlyInv'
  BY DetectStep, TypeStep, OversizeStep DEF OnlyInv, DetectInv
<1>3. OnlyInv /\ [Next]_vars =>
        [/\ clean = "yes"
         /\ \/ heard' \ heard # {} \/ successful' # successful
            \/ waiting = "no" /\ waiting' = "yes"
         => \E c \in Client :
               /\ Acknowledged(c)
               /\ heard' \subseteq heard \cup {out[c].msg}
               /\ waiting' = "yes" /\ successful' = Outcome(out[c].msg)]_vars
  BY StepTells DEF Silent, Tells
<1> QED
  BY <1>1, <1>2, <1>3, PTL DEF Spec, OnlyWrittenIsDetected
=============================================================================
