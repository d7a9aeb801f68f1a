----------------------------- MODULE ConfigStore -----------------------------
(***************************************************************************)
(* What storing the configuration of a device promises: it is one value    *)
(* that is set when there is none, and removed, in one step each. A write  *)
(* is sure to survive a power failure once it is synchronised; before, a   *)
(* power failure leaves the old value or the new one and never a mixture.  *)
(* Damage can only be repaired by removing everything.                     *)
(***************************************************************************)
CONSTANTS
    Value,         \* configurations
    Nothing,       \* no configuration
    Unknown        \* nothing is promised of what is there

VARIABLES
    current,       \* what a read returns
    durable        \* what a read returns after a power failure, at worst

Init == current = Nothing /\ durable = Nothing

Provision ==
    /\ current = Nothing /\ durable = Nothing
    /\ current' \in Value
    /\ UNCHANGED durable

Sync == durable' = current /\ UNCHANGED current

Forget == current \in Value /\ current' = Nothing /\ UNCHANGED durable

PowerFailure ==
    /\ current' \in {current, durable}
    /\ durable' = current'

Damage == current' = Unknown /\ durable' = Unknown

Wipe == current' = Nothing /\ durable' = Nothing

Next == Provision \/ Sync \/ Forget \/ PowerFailure \/ Damage \/ Wipe

Spec == Init /\ [][Next]_<<current, durable>>
=============================================================================
