--------------------------- MODULE FirmwareInstall ---------------------------
(***************************************************************************)
(* What a firmware update promises: the device always has one valid image  *)
(* installed, installing replaces it in one step, at most once per boot,   *)
(* and a boot runs the installed image.                                    *)
(***************************************************************************)
CONSTANT Valid

VARIABLES
    installed,     \* image the next boot runs
    active         \* image that is running

Init == installed \in Valid /\ active = installed

Put == active = installed /\ installed' \in Valid /\ UNCHANGED active

Boot == active' = installed /\ UNCHANGED installed

Next == Put \/ Boot

Spec == Init /\ [][Next]_<<installed, active>>
=============================================================================
