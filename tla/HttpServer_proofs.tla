------------------------- MODULE HttpServer_proofs --------------------------
(***************************************************************************)
(* Proofs about HttpServer for any number of routes and of failing calls.  *)
(***************************************************************************)
EXTENDS HttpServer, TLAPS

(* While routes are added, and while a stop waits, there is a handle.      *)
HandleInv ==
    /\ RunningIsTrue
    /\ evt = "register" => server = "handle"
    /\ evt = "wait" => server = "handle"
    /\ evt = "init" => server = "none"

(* An incomplete server has cost one failure, and one that is left running *)
(* a second one.                                                           *)
RouteInv ==
    /\ evt = "stop" /\ running = "yes" => registered = Routes \/ faults >= 1
    /\ evt = "idle" /\ running = "yes" => registered = Routes \/ faults >= 2

IInv == TypeOK /\ HandleInv /\ RouteInv /\ LightIsMirrored

-----------------------------------------------------------------------------
LEMMA OtherSwitch == \A l \in Switch : Other(l) \in Switch
<1> TAKE l \in Switch
<1>1. \E k \in Switch : k # l
  BY DEF Switch
<1> QED
  BY <1>1 DEF Other

LEMMA Initially == Init => IInv
BY HttpAssumption DEF Init, IInv, TypeOK, HandleInv, RunningIsTrue, RouteInv,
                      LightIsMirrored, Switch, serverVars

LEMMA Typing == ASSUME TypeOK, [Next]_vars PROVE TypeOK'
<1> USE DEF TypeOK, Goes, Fault, serverVars, lightVars
<1>1. CASE StartServer
  BY <1>1, HttpAssumption DEF StartServer
<1>2. CASE Register
  BY <1>2, HttpAssumption DEF Register
<1>3. CASE AllRegistered \/ Disconnected \/ TaskExits
  BY <1>3 DEF AllRegistered, Disconnected, TaskExits
<1>4. CASE Stop
  BY <1>4, HttpAssumption DEF Stop
<1>5. CASE Stopped
  BY <1>5, HttpAssumption DEF Stopped
<1>6. CASE ToggleLight
  BY <1>6, HttpAssumption, OtherSwitch DEF ToggleLight
<1>7. CASE UpdateRequest \/ SendsRest \/ Closes \/ BodyEnds
  BY <1>7 DEF UpdateRequest, SendsRest, Closes, BodyEnds
<1>8. CASE InitLight \/ SetLight
  BY <1>8, HttpAssumption DEF InitLight, SetLight, Switch
<1>9. CASE UNCHANGED vars
  BY <1>9 DEF vars
<1> QED
  BY <1>1, <1>2, <1>3, <1>4, <1>5, <1>6, <1>7, <1>8, <1>9 DEF Next, EventLoop

LEMMA HandleStep == ASSUME TypeOK, HandleInv, [Next]_vars PROVE HandleInv'
<1> USE DEF TypeOK, HandleInv, RunningIsTrue, Goes, serverVars
<1>1. CASE EventLoop
  BY <1>1 DEF EventLoop, StartServer, Register, AllRegistered, Stop, Stopped
<1>2. CASE \/ InitLight \/ Disconnected \/ TaskExits \/ ToggleLight \/ SetLight
           \/ UpdateRequest \/ SendsRest \/ Closes \/ BodyEnds
  BY <1>2
  DEF InitLight, Disconnected, TaskExits, ToggleLight, SetLight, UpdateRequest,
      SendsRest, Closes, BodyEnds, Requested
<1>3. CASE UNCHANGED vars
  BY <1>3 DEF vars
<1> QED
  BY <1>1, <1>2, <1>3 DEF Next

LEMMA RouteStep ==
    ASSUME TypeOK, HandleInv, RouteInv, [Next]_vars PROVE RouteInv'
<1> USE DEF TypeOK, HandleInv, RunningIsTrue, RouteInv, Goes, Fault, serverVars
<1>1. CASE StartServer
  BY <1>1 DEF StartServer
<1>2. CASE Register \/ AllRegistered
  BY <1>2 DEF Register, AllRegistered
<1>3. CASE Stop \/ Stopped
  BY <1>3 DEF Stop, Stopped
<1>4. CASE \/ InitLight \/ Disconnected \/ TaskExits \/ ToggleLight \/ SetLight
           \/ UpdateRequest \/ SendsRest \/ Closes \/ BodyEnds
  BY <1>4
  DEF InitLight, Disconnected, TaskExits, ToggleLight, SetLight, UpdateRequest,
      SendsRest, Closes, BodyEnds
<1>5. CASE UNCHANGED vars
  BY <1>5 DEF vars
<1> QED
  BY <1>1, <1>2, <1>3, <1>4, <1>5 DEF Next, EventLoop

LEMMA LightStep ==
    ASSUME HandleInv, LightIsMirrored, [Next]_vars PROVE LightIsMirrored'
<1> USE DEF LightIsMirrored, lightVars, Goes
<1>1. CASE EventLoop
  BY <1>1 DEF EventLoop, StartServer, Register, AllRegistered, Stop, Stopped
<1>2. CASE InitLight \/ ToggleLight \/ SetLight
  BY <1>2 DEF InitLight, ToggleLight, SetLight
<1>3. CASE \/ Disconnected \/ TaskExits
           \/ UpdateRequest \/ SendsRest \/ Closes \/ BodyEnds
  BY <1>3
  DEF Disconnected, TaskExits, UpdateRequest, SendsRest, Closes, BodyEnds
<1>4. CASE UNCHANGED vars
  BY <1>4 DEF vars
<1> QED
  BY <1>1, <1>2, <1>3, <1>4 DEF Next

LEMMA Inductive == IInv /\ [Next]_vars => IInv'
BY Typing, HandleStep, RouteStep, LightStep DEF IInv

-----------------------------------------------------------------------------
(* Every variable keeps its type.                                          *)
THEOREM TypeCorrect == Spec => []TypeOK
<1>1. IInv => TypeOK
  BY DEF IInv
<1> QED
  BY Initially, Inductive, <1>1, PTL DEF Spec

(* http_server_is_running is right, and no task outlives its handle.       *)
THEOREM RunningIsTruthful == Spec => []RunningIsTrue
<1>1. IInv => RunningIsTrue
  BY DEF IInv, HandleInv
<1> QED
  BY Initially, Inductive, <1>1, PTL DEF Spec

(* One failure never leaves a server running without all of its routes,    *)
(* however many routes there are.                                          *)
THEOREM OneFaultIsCleanedUp == Spec => []ServesAllRoutes
<1>1. IInv => ServesAllRoutes
  BY DEF IInv, TypeOK, RouteInv, ServesAllRoutes
<1> QED
  BY Initially, Inductive, <1>1, PTL DEF Spec

(* The mirror of the light agrees with the pin from the initialisation on, *)
(* whatever calls fail.                                                    *)
THEOREM LightStaysMirrored == Spec => []LightIsMirrored
<1>1. IInv => LightIsMirrored
  BY DEF IInv
<1> QED
  BY Initially, Inductive, <1>1, PTL DEF Spec
=============================================================================
