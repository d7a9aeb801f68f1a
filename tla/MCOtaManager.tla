---------------------------- MODULE MCOtaManager ----------------------------
(* Two partitions, a factory image, a newer one and a corrupt one.         *)
EXTENDS OtaManager, TLC

CONSTANTS factory, newer, corrupt

MCSize == (factory :> 2) @@ (newer :> 3) @@ (corrupt :> 2)
=============================================================================
