--------------------------- MODULE MCProvisioning ---------------------------
(* The apps are interchangeable, and the properties are invariants.        *)
EXTENDS Provisioning, TLC

AppSymmetry == Permutations(App)

\* All variables but http, forgot and stale: as long as no call fails
\* (MaxErrors = 0), no other variable and no property here depends on them.
ProvisioningView ==
    <<driverVars, events, hand, retry, connected, bits, mailVars, runVars,
      stored, conf, left, mail, mishap, bleVars>>
=============================================================================
