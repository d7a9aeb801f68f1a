---------------------------- MODULE MCBleManager ----------------------------
(* A confirmation takes one write, credentials two, and huge ones more     *)
(* than the buffer holds. The first write of braced credentials ends in a  *)
(* closing brace, which is part of the network name.                       *)
EXTENDS BleManager

CONSTANTS home, braced, huge

MCSize ==
    [m \in Message |-> IF m \notin Cred THEN 1 ELSE IF m = huge THEN 5 ELSE 3]

MCOpening == [m \in Message |-> {1}]

MCClosing == [m \in Message |-> IF m = braced THEN {2, 3} ELSE {MCSize[m]}]
=============================================================================
