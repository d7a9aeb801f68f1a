-------------------------- MODULE NvsManager_proofs --------------------------
(***************************************************************************)
(* Proofs about NvsManager, for every set of credentials and every number  *)
(* of faults, when a save and a delete do not overlap.                     *)
(***************************************************************************)
EXTENDS NvsManager, TLAPS

(* Both views hold the same whole pair: no power failure can tear it.      *)
PairCommitted ==
    /\ nvs["ssid"] # Absent
    /\ nvs["pass"] = nvs["ssid"]
    /\ committed["ssid"] = nvs["ssid"]
    /\ committed["pass"] = nvs["ssid"]

(* One of the two info keys is absent in both views: no power failure can  *)
(* bring complete device info back.                                        *)
NoInfoAnywhere ==
    \/ nvs["name"] = Absent /\ committed["name"] = Absent
    \/ nvs["id"] = Absent /\ committed["id"] = Absent

(* What the calls made so far by the running save guarantee.               *)
SaveInv ==
    /\ saveAt # "idle" => saving \in Cred
    /\ saveAt \in {"pass", "commitCreds"} => nvs["ssid"] = saving
    /\ saveAt = "commitCreds" => nvs["pass"] = saving
    /\ trust = "sound" /\ saveAt \in {"ssid", "pass", "commitCreds"} => NoInfoAnywhere
    /\ saveAt \in {"newId", "newName", "commitInfo"} => PairCommitted

(* What the calls made so far by the running delete guarantee.             *)
DeleteInv ==
    /\ trust = "sound" /\ delAt \in {"erasePass", "eraseName", "eraseId", "commit"}
        => nvs["ssid"] = Absent
    /\ trust = "sound" /\ delAt \in {"eraseName", "eraseId", "commit"}
        => nvs["pass"] = Absent
    /\ trust = "sound" /\ delAt \in {"eraseId", "commit"} => nvs["name"] = Absent
    /\ trust = "sound" /\ delAt = "commit" => nvs["id"] = Absent

(* Between deletes, a trusted store is safe against any power failure.     *)
StoreInv ==
    trust = "sound" /\ delAt = "idle" =>
        /\ PairCommitted \/ NoInfoAnywhere
        /\ nvs["name"] = Absent => committed["name"] = Absent
        /\ nvs["id"] = Absent => committed["id"] = Absent

Exclusive == saveAt = "idle" \/ delAt = "idle"

IInv == TypeOK /\ Exclusive /\ SaveInv /\ DeleteInv /\ StoreInv

-----------------------------------------------------------------------------
(* The type invariant needs no assumption on the schedule: the keys only   *)
(* ever hold what a save wrote.                                            *)
LEMMA TypingStep ==
    ASSUME TypeOK, saveAt # "idle" => saving \in Cred, [Next]_vars
    PROVE  TypeOK' /\ (saveAt # "idle" => saving \in Cred)'
<1> USE NvsAssumption DEF TypeOK, Key, SaveStep, DelStep
<1>1. CASE Save
  <2> USE DEF Fault, Put
  <2>1. CASE \E c \in Cred : SaveBegin(c)
    BY <2>1 DEF SaveBegin
  <2>2. CASE CheckName \/ CheckId
    BY <2>2 DEF CheckName, CheckId, ReadInfo
  <2>3. CASE SetSsid \/ SetPass
    BY <2>3 DEF SetSsid, SetPass, Store
  <2>4. CASE SetId \/ SetName
    BY <2>4 DEF SetId, SetName, Store
  <2>5. CASE CommitCredentials \/ CommitInfo
    BY <2>5 DEF CommitCredentials, CommitInfo, Commit
  <2> QED
    BY <1>1, <2>1, <2>2, <2>3, <2>4, <2>5 DEF Save
<1>2. CASE Delete
  <2> USE DEF Fault, Put
  <2>1. CASE DeleteBegin
    BY <2>1 DEF DeleteBegin
  <2>2. CASE EraseSsid \/ ErasePass
    BY <2>2 DEF EraseSsid, ErasePass, Erase
  <2>3. CASE EraseName \/ EraseId
    BY <2>3 DEF EraseName, EraseId, Erase
  <2>4. CASE CommitDelete
    BY <2>4 DEF CommitDelete
  <2> QED
    BY <1>2, <2>1, <2>2, <2>3, <2>4 DEF Delete
<1>3. CASE PowerFailure
  <2> PICK lost \in SUBSET {k \in Key : nvs[k] # committed[k]} :
        /\ BootTo([k \in Key |-> IF k \in lost THEN committed[k] ELSE nvs[k]])
        /\ trust' = IF delAt = "idle" THEN trust ELSE "suspect"
    BY <1>3 DEF PowerFailure
  <2> QED
    BY DEF BootTo, Fault
<1>4. CASE BootErased
  BY <1>4 DEF BootErased, BootTo, Fault, Blank
<1>5. CASE UNCHANGED vars
  BY <1>5 DEF vars
<1> QED
  BY <1>1, <1>2, <1>3, <1>4, <1>5 DEF Next

(* Type correctness, for every schedule and any number of faults.          *)
THEOREM TypeCorrect == Spec => []TypeOK
<1> DEFINE T == TypeOK /\ (saveAt # "idle" => saving \in Cred)
<1>1. Init => T
  BY NvsAssumption DEF Init, TypeOK, Blank, Key, SaveStep, DelStep
<1>2. T /\ [Next]_vars => T'
  BY TypingStep
<1> QED
  BY <1>1, <1>2, PTL DEF Spec

-----------------------------------------------------------------------------
(* One lemma per task: what its calls do to the inductive invariant.       *)

LEMMA SavePreserves ==
    ASSUME Serialized, IInv, TypeOK', Save
    PROVE  (Exclusive /\ SaveInv /\ DeleteInv /\ StoreInv)'
<1> USE DEF IInv, TypeOK, Key, Fault, Put, Exclusive, SaveInv, DeleteInv,
            StoreInv, PairCommitted, NoInfoAnywhere
<1>1. CASE \E c \in Cred : SaveBegin(c)
  BY <1>1 DEF SaveBegin
<1>2. CASE CheckName
  BY <1>2 DEF CheckName, ReadInfo
<1>3. CASE CheckId
  BY <1>3 DEF CheckId, ReadInfo
<1>4. CASE SetSsid
  BY <1>4 DEF SetSsid, Store
<1>5. CASE SetPass
  BY <1>5 DEF SetPass, Store
<1>6. CASE CommitCredentials
  BY <1>6, NvsAssumption DEF CommitCredentials, Commit
<1>7. CASE SetId
  BY <1>7, NvsAssumption DEF SetId, Store
<1>8. CASE SetName
  BY <1>8, NvsAssumption DEF SetName, Store
<1>9. CASE CommitInfo
  BY <1>9 DEF CommitInfo, Commit
<1> QED
  BY <1>1, <1>2, <1>3, <1>4, <1>5, <1>6, <1>7, <1>8, <1>9 DEF Save

LEMMA DeletePreserves ==
    ASSUME Serialized, IInv, TypeOK', Delete
    PROVE  (Exclusive /\ SaveInv /\ DeleteInv /\ StoreInv)'
<1> USE DEF IInv, TypeOK, Key, Fault, Put, Exclusive, SaveInv, DeleteInv,
            StoreInv, PairCommitted, NoInfoAnywhere
<1>1. CASE DeleteBegin
  BY <1>1 DEF DeleteBegin
<1>2. CASE EraseSsid
  BY <1>2 DEF EraseSsid, Erase
<1>3. CASE ErasePass
  BY <1>3 DEF ErasePass, Erase
<1>4. CASE EraseName
  BY <1>4 DEF EraseName, Erase
<1>5. CASE EraseId
  BY <1>5 DEF EraseId, Erase
<1>6. CASE CommitDelete
  BY <1>6 DEF CommitDelete, Blank
<1> QED
  BY <1>1, <1>2, <1>3, <1>4, <1>5, <1>6 DEF Delete

(* A boot finds each key as it was, or as it was at the last commit.       *)
LEMMA BootPreserves ==
    ASSUME IInv, TypeOK', PowerFailure \/ BootErased
    PROVE  (Exclusive /\ SaveInv /\ DeleteInv /\ StoreInv)'
<1> USE DEF IInv, TypeOK, Key, Exclusive, SaveInv, DeleteInv,
            StoreInv, PairCommitted, NoInfoAnywhere
<1>1. CASE PowerFailure
  <2>1. PICK lost \in SUBSET {k \in Key : nvs[k] # committed[k]} :
          /\ BootTo([k \in Key |-> IF k \in lost THEN committed[k] ELSE nvs[k]])
          /\ trust' = IF delAt = "idle" THEN trust ELSE "suspect"
    BY <1>1 DEF PowerFailure
  <2>2. \A k \in Key : nvs'[k] = nvs[k] \/ nvs'[k] = committed[k]
    BY <2>1 DEF BootTo
  <2>3. committed' = nvs' /\ saveAt' = "idle" /\ delAt' = "idle"
    BY <2>1 DEF BootTo
  <2> QED
    BY <2>1, <2>2, <2>3
<1>2. CASE BootErased
  BY <1>2 DEF BootErased, BootTo, Blank
<1> QED
  BY <1>1, <1>2

LEMMA Inductive ==
    ASSUME Serialized, IInv, [Next]_vars
    PROVE  IInv'
<1>1. TypeOK'
  BY TypingStep DEF IInv, SaveInv
<1>2. CASE UNCHANGED vars
  BY <1>2, <1>1 DEF vars, IInv, TypeOK, Exclusive, SaveInv, DeleteInv, StoreInv,
                    PairCommitted, NoInfoAnywhere
<1>3. CASE Save
  BY <1>1, <1>3, SavePreserves DEF IInv
<1>4. CASE Delete
  BY <1>1, <1>4, DeletePreserves DEF IInv
<1>5. CASE PowerFailure \/ BootErased
  BY <1>1, <1>5, BootPreserves DEF IInv
<1> QED
  BY <1>2, <1>3, <1>4, <1>5 DEF Next

LEMMA Invariance ==
    ASSUME Serialized PROVE Spec => []IInv
<1>1. Init => IInv
  BY NvsAssumption DEF Init, IInv, TypeOK, Blank, Key, SaveStep, DelStep,
     Exclusive, SaveInv, DeleteInv, StoreInv, NoInfoAnywhere
<1>2. IInv /\ [Next]_vars => IInv'
  BY Inductive
<1> QED
  BY <1>1, <1>2, PTL DEF Spec

(* Whatever API calls fail and whenever the power does, complete device    *)
(* info on a sound store comes with a whole pair of credentials.           *)
THEOREM FailSafeSave ==
    ASSUME Serialized PROVE Spec => []SaveIsFailSafe
<1>1. IInv => SaveIsFailSafe
  BY DEF IInv, TypeOK, StoreInv, PairCommitted, NoInfoAnywhere,
         SaveIsFailSafe, AtRest, HasInfo, HasCredentials, WholePair
<1> QED
  BY <1>1, Invariance, PTL

(* A delete in which no erase and no commit failed leaves the flash blank. *)
THEOREM CleanDelete ==
    ASSUME Serialized PROVE Spec => CleanDeleteUnconfigures
<1>1. IInv /\ [Next]_vars =>
        [delAt = "commit" /\ delAt' = "idle" /\ trust' = "sound"
            => committed' = Blank]_vars
  <2> SUFFICES ASSUME IInv, [Next]_vars, delAt = "commit", delAt' = "idle",
                      trust' = "sound"
               PROVE  committed' = Blank
    OBVIOUS
  <2>1. CASE CommitDelete
    <3>1. nvs = Blank
      BY <2>1 DEF CommitDelete, IInv, TypeOK, DeleteInv, Blank, Key
    <3> QED
      BY <2>1, <3>1 DEF CommitDelete
  <2>2. CASE PowerFailure
    BY <2>2 DEF PowerFailure
  <2>3. CASE BootErased
    BY <2>3 DEF BootErased, BootTo
  <2>4. CASE Save
    BY <2>4 DEF Save, SaveBegin, CheckName, CheckId, ReadInfo, SetSsid, SetPass,
                SetId, SetName, Store, CommitCredentials, CommitInfo, Commit
  <2>5. CASE Delete
    BY <2>1, <2>5 DEF Delete, DeleteBegin, EraseSsid, ErasePass, EraseName,
                      EraseId, Erase
  <2> QED
    BY <2>1, <2>2, <2>3, <2>4, <2>5 DEF Next, vars
<1> QED
  BY <1>1, Invariance, PTL DEF Spec, CleanDeleteUnconfigures

(* What a single error leaves: device info can only be whole while its two *)
(* erases are still to come, or both failed.                               *)
ErrorInv ==
    /\ delAt = "eraseId" /\ faults = 0 => nvs["name"] = Absent
    /\ delAt = "commit" /\ faults = 0 => nvs["name"] = Absent /\ nvs["id"] = Absent
    /\ delAt = "commit" /\ faults <= 1 => nvs["name"] = Absent \/ nvs["id"] = Absent

LEMMA ErrorStep ==
    ASSUME Serialized, IInv, ErrorInv, [Next]_vars
    PROVE  ErrorInv'
<1> USE NvsAssumption DEF IInv, TypeOK, Key, Fault, Put, Exclusive, ErrorInv
<1>1. CASE Save
  BY <1>1 DEF Save, SaveBegin, CheckName, CheckId, ReadInfo, SetSsid, SetPass,
              SetId, SetName, Store, CommitCredentials, CommitInfo, Commit
<1>2. CASE Delete
  BY <1>2 DEF Delete, DeleteBegin, EraseSsid, ErasePass, EraseName, EraseId,
              Erase, CommitDelete
<1>3. CASE PowerFailure \/ BootErased
  BY <1>3 DEF PowerFailure, BootErased, BootTo
<1>4. CASE UNCHANGED vars
  BY <1>4 DEF vars
<1> QED
  BY <1>1, <1>2, <1>3, <1>4 DEF Next

(* A delete one call of which failed never leaves device info behind that  *)
(* would make the next save return early.                                  *)
THEOREM OneErrorDelete ==
    ASSUME Serialized PROVE Spec => OneErrorLeavesNoInfo
<1>1. Init => ErrorInv
  BY DEF Init, ErrorInv
<1>2. IInv /\ ErrorInv /\ [Next]_vars => ErrorInv'
  BY ErrorStep
<1>3. IInv /\ ErrorInv /\ [Next]_vars =>
        [delAt # "idle" /\ delAt' = "idle" /\ Delete /\ faults' <= 1
            => nvs'["name"] = Absent \/ nvs'["id"] = Absent]_vars
  BY NvsAssumption
  DEF Delete, DeleteBegin, EraseSsid, ErasePass, EraseName, EraseId, Erase,
      CommitDelete, Fault, IInv, TypeOK, ErrorInv
<1> QED
  BY <1>1, <1>2, <1>3, Invariance, PTL DEF Spec, OneErrorLeavesNoInfo

-----------------------------------------------------------------------------
(* A single fault. Until the first one the store knows two conditions,     *)
(* blank or provisioned, and no power failure can mix two pairs; after it  *)
(* every pair is whole but while a save is between its two items.          *)

NoCredentialsAnywhere ==
    /\ nvs["ssid"] = Absent /\ nvs["pass"] = Absent
    /\ committed["ssid"] = Absent /\ committed["pass"] = Absent

(* Whichever of its two values each key has after a power failure, the     *)
(* items are of one pair or one of them is absent.                         *)
CannotTear ==
    \A a \in {nvs["ssid"], committed["ssid"]},
       b \in {nvs["pass"], committed["pass"]} :
        a # Absent /\ b # Absent => a = b

FirstFaultInv ==
    faults = 0 =>
        /\ trust = "sound" /\ CannotTear
        /\ delAt = "idle" /\ saveAt \in {"idle", "name", "id"}
              => HasInfo \/ NoCredentialsAnywhere
        /\ saveAt = "ssid" => NoCredentialsAnywhere
        /\ saveAt = "pass" => nvs["pass"] = Absent /\ committed["ssid"] = Absent
                              /\ committed["pass"] = Absent

InfoInv ==
    /\ saveAt = "newName" => nvs["id"] # Absent
    /\ saveAt = "commitInfo" => HasInfo

OneFaultInv == faults <= 1 /\ saveAt # "pass" /\ HasCredentials => WholePair

FaultInv == FirstFaultInv /\ InfoInv /\ OneFaultInv

LEMMA SaveFaults ==
    ASSUME Serialized, IInv, FaultInv, IInv', Save
    PROVE  FaultInv'
<1> USE NvsAssumption
    DEF IInv, TypeOK, Key, Fault, Put, SaveInv, PairCommitted, FaultInv,
        FirstFaultInv, InfoInv, OneFaultInv, CannotTear, NoCredentialsAnywhere,
        HasCredentials, HasInfo, WholePair, Exclusive
<1>1. CASE \E c \in Cred : SaveBegin(c)
  BY <1>1 DEF SaveBegin
<1>2. CASE CheckName
  BY <1>2 DEF CheckName, ReadInfo
<1>3. CASE CheckId
  BY <1>3 DEF CheckId, ReadInfo
<1>4. CASE SetSsid
  BY <1>4 DEF SetSsid, Store
<1>5. CASE SetPass
  BY <1>5 DEF SetPass, Store
<1>6. CASE CommitCredentials
  BY <1>6 DEF CommitCredentials, Commit
<1>7. CASE SetId
  BY <1>7 DEF SetId, Store
<1>8. CASE SetName
  BY <1>8 DEF SetName, Store
<1>9. CASE CommitInfo
  BY <1>9 DEF CommitInfo, Commit
<1> QED
  BY <1>1, <1>2, <1>3, <1>4, <1>5, <1>6, <1>7, <1>8, <1>9 DEF Save

LEMMA DeleteFaults ==
    ASSUME Serialized, IInv, FaultInv, IInv', Delete
    PROVE  FaultInv'
<1> USE NvsAssumption
    DEF IInv, TypeOK, Key, Fault, Put, Exclusive, DeleteInv, FaultInv,
        FirstFaultInv, InfoInv, OneFaultInv, CannotTear, NoCredentialsAnywhere,
        HasCredentials, HasInfo, WholePair
<1>1. CASE DeleteBegin
  BY <1>1 DEF DeleteBegin
<1>2. CASE EraseSsid
  BY <1>2 DEF EraseSsid, Erase
<1>3. CASE ErasePass
  BY <1>3 DEF ErasePass, Erase
<1>4. CASE EraseName \/ EraseId
  BY <1>4 DEF EraseName, EraseId, Erase
<1>5. CASE CommitDelete
  BY <1>5 DEF CommitDelete
<1> QED
  BY <1>1, <1>2, <1>3, <1>4, <1>5 DEF Delete

LEMMA BootFaults ==
    ASSUME IInv, FaultInv, IInv', PowerFailure \/ BootErased
    PROVE  FaultInv'
<1> USE DEF FaultInv, FirstFaultInv, InfoInv, OneFaultInv
<1>1. CASE PowerFailure
  <2>1. PICK lost \in SUBSET {k \in Key : nvs[k] # committed[k]} :
          BootTo([k \in Key |-> IF k \in lost THEN committed[k] ELSE nvs[k]])
    BY <1>1 DEF PowerFailure
  <2>2. \A k \in Key : nvs'[k] = nvs[k] \/ nvs'[k] = committed[k]
    BY <2>1 DEF BootTo
  <2>3. saveAt' = "idle" /\ faults' = faults + 1 /\ faults \in Nat
    BY <2>1, NvsAssumption DEF BootTo, Fault, IInv, TypeOK
  <2>4. faults = 0 => CannotTear
    OBVIOUS
  <2>5. nvs'["ssid"] \in {nvs["ssid"], committed["ssid"]}
        /\ nvs'["pass"] \in {nvs["pass"], committed["pass"]}
    BY <2>2 DEF Key
  <2>6. faults = 0 /\ HasCredentials' => WholePair'
    BY <2>4, <2>5 DEF CannotTear, HasCredentials, WholePair
  <2> QED
    BY <2>3, <2>6
<1>2. CASE BootErased
  <2>1. saveAt' = "idle" /\ faults' = faults + 1 /\ faults \in Nat
    BY <1>2, NvsAssumption DEF BootErased, BootTo, Fault, IInv, TypeOK
  <2>2. ~HasCredentials'
    BY <1>2 DEF BootErased, BootTo, Blank, Key, HasCredentials
  <2> QED
    BY <2>1, <2>2
<1> QED
  BY <1>1, <1>2

LEMMA FaultStep ==
    ASSUME Serialized, IInv, FaultInv, [Next]_vars
    PROVE  FaultInv'
<1>1. IInv'
  BY Inductive
<1>2. CASE UNCHANGED vars
  BY <1>2
  DEF vars, FaultInv, FirstFaultInv, InfoInv, OneFaultInv, CannotTear,
      NoCredentialsAnywhere, HasCredentials, HasInfo, WholePair
<1>3. CASE Save
  BY <1>1, <1>3, SaveFaults
<1>4. CASE Delete
  BY <1>1, <1>4, DeleteFaults
<1>5. CASE PowerFailure \/ BootErased
  BY <1>1, <1>5, BootFaults
<1> QED
  BY <1>2, <1>3, <1>4, <1>5 DEF Next

(* One API error or one power failure, wherever it strikes in any number   *)
(* of saves and deletes, never pairs the ssid of one network with the      *)
(* password of another.                                                    *)
THEOREM SingleFault ==
    ASSUME Serialized PROVE Spec => []SingleFaultKeepsPair
<1>1. Init => FaultInv
  BY NvsAssumption
  DEF Init, Blank, Key, FaultInv, FirstFaultInv, InfoInv, OneFaultInv,
      CannotTear, NoCredentialsAnywhere, HasCredentials
<1>2. IInv /\ FaultInv /\ [Next]_vars => FaultInv'
  BY FaultStep
<1>3. FaultInv => SingleFaultKeepsPair
  BY DEF FaultInv, OneFaultInv, SingleFaultKeepsPair, AtRest
<1> QED
  BY <1>1, <1>2, <1>3, Invariance, PTL DEF Spec

-----------------------------------------------------------------------------
(* How a save ends, and the store as one value.                            *)

(* What a save has written so far is still there.                          *)
WrittenInv ==
    /\ saveAt \in {"pass", "commitCreds", "newId", "newName", "commitInfo"}
        => nvs["ssid"] = saving
    /\ saveAt \in {"commitCreds", "newId", "newName", "commitInfo"}
        => nvs["pass"] = saving
    /\ saveAt \in {"newName", "commitInfo"} => nvs["id"] = Device
    /\ saveAt = "commitInfo" => nvs["name"] = Device

(* Until the device info is written, the device is not configured.         *)
UnconfiguredInv ==
    /\ {nvs["ssid"], committed["ssid"]} \subseteq Cred \cup {Absent}
    /\ trust = "sound" /\ saveAt = "newId" => NoInfoAnywhere

(* What a delete finds when it starts with a trusted store.                *)
FoundInv ==
    trust = "sound" /\ delAt = "eraseSsid" => PairCommitted \/ NoInfoAnywhere

EndInv == WrittenInv /\ UnconfiguredInv /\ FoundInv

LEMMA SaveEnds ==
    ASSUME IInv, EndInv, Save PROVE EndInv'
<1> USE NvsAssumption
    DEF IInv, TypeOK, Key, Fault, Put, Exclusive, SaveInv, NoInfoAnywhere,
        EndInv, WrittenInv, UnconfiguredInv, FoundInv, PairCommitted
<1>1. CASE \E c \in Cred : SaveBegin(c)
  BY <1>1 DEF SaveBegin
<1>2. CASE CheckName \/ CheckId
  BY <1>2 DEF CheckName, CheckId, ReadInfo
<1>3. CASE SetSsid
  BY <1>3 DEF SetSsid, Store
<1>4. CASE SetPass
  BY <1>4 DEF SetPass, Store
<1>5. CASE CommitCredentials \/ CommitInfo
  BY <1>5 DEF CommitCredentials, CommitInfo, Commit
<1>6. CASE SetId
  BY <1>6 DEF SetId, Store
<1>7. CASE SetName
  BY <1>7 DEF SetName, Store
<1> QED
  BY <1>1, <1>2, <1>3, <1>4, <1>5, <1>6, <1>7 DEF Save

LEMMA DeleteEnds ==
    ASSUME Serialized, IInv, EndInv, Delete PROVE EndInv'
<1> USE NvsAssumption
    DEF IInv, TypeOK, Key, Put, Exclusive, StoreInv, EndInv, WrittenInv,
        UnconfiguredInv, FoundInv, PairCommitted, NoInfoAnywhere
<1>1. saveAt = "idle" /\ saveAt' = "idle"
  BY DEF Delete, DeleteBegin, EraseSsid, ErasePass, EraseName, EraseId, Erase,
         CommitDelete
<1>2. CASE DeleteBegin
  BY <1>1, <1>2 DEF DeleteBegin
<1>3. CASE EraseSsid \/ ErasePass \/ EraseName \/ EraseId
  BY <1>1, <1>3 DEF EraseSsid, ErasePass, EraseName, EraseId, Erase
<1>4. CASE CommitDelete
  BY <1>1, <1>4 DEF CommitDelete
<1> QED
  BY <1>2, <1>3, <1>4 DEF Delete

LEMMA BootEnds ==
    ASSUME EndInv, PowerFailure \/ BootErased PROVE EndInv'
<1> USE DEF EndInv, WrittenInv, UnconfiguredInv, FoundInv, Key
<1>1. CASE PowerFailure
  <2> PICK lost \in SUBSET {k \in Key : nvs[k] # committed[k]} :
        BootTo([k \in Key |-> IF k \in lost THEN committed[k] ELSE nvs[k]])
    BY <1>1 DEF PowerFailure
  <2> QED
    BY DEF BootTo
<1>2. CASE BootErased
  BY <1>2 DEF BootErased, BootTo, Blank
<1> QED
  BY <1>1, <1>2

LEMMA EndStep ==
    ASSUME Serialized, IInv, EndInv, [Next]_vars PROVE EndInv'
<1>1. CASE UNCHANGED vars
  BY <1>1 DEF vars, EndInv, WrittenInv, UnconfiguredInv, FoundInv,
              PairCommitted, NoInfoAnywhere
<1> QED
  BY <1>1, SaveEnds, DeleteEnds, BootEnds DEF Next

LEMMA EndInvariance ==
    ASSUME Serialized PROVE Spec => []EndInv
<1>1. Init => EndInv
  BY NvsAssumption
  DEF Init, Blank, Key, EndInv, WrittenInv, UnconfiguredInv, FoundInv
<1>2. IInv /\ EndInv /\ [Next]_vars => EndInv'
  BY EndStep
<1> QED
  BY <1>1, <1>2, Invariance, PTL DEF Spec

(* A save that gets to its end leaves the flash with its credentials and   *)
(* the device info, whatever any number of faults had left there before.   *)
THEOREM FinishedSave ==
    ASSUME Serialized PROVE Spec => FinishedSaveIsDurable
<1>1. IInv /\ EndInv /\ [Next]_vars =>
        [saveAt = "commitInfo" /\ saveAt' = "idle" /\ faults' = faults
            => committed' = [k \in Key |-> IF k \in {"ssid", "pass"} THEN saving
                                                                  ELSE Device]]_vars
  <2> SUFFICES ASSUME IInv, EndInv, [Next]_vars, saveAt = "commitInfo",
                      saveAt' = "idle", faults' = faults
               PROVE  committed' = [k \in Key |-> IF k \in {"ssid", "pass"}
                                                   THEN saving ELSE Device]
    OBVIOUS
  <2>1. faults \in Nat
    BY NvsAssumption DEF IInv, TypeOK
  <2>2. CommitInfo
    BY <2>1 DEF Next, Save, SaveBegin, CheckName, CheckId, ReadInfo, SetSsid,
                SetPass, SetId, SetName, Store, CommitCredentials, Commit,
                Delete, DeleteBegin, EraseSsid, ErasePass, EraseName, EraseId,
                Erase, CommitDelete, PowerFailure, BootErased, BootTo, Fault,
                vars
  <2>3. committed' = nvs
    BY <2>1, <2>2 DEF CommitInfo, Commit, Fault
  <2> QED
    BY <2>3 DEF IInv, TypeOK, EndInv, WrittenInv, Key
<1> QED
  BY <1>1, Invariance, EndInvariance, PTL DEF Spec, FinishedSaveIsDurable

-----------------------------------------------------------------------------
(* The refinement. The configuration appears when the second of the two    *)
(* info keys is written, over a pair that is whole in both views, and       *)
(* disappears when the ssid is erased; a commit makes it durable; what goes *)
(* wrong in a delete, or hides device info from a save, is damage. All      *)
(* other calls are seen by nobody, and no call and no power failure shows   *)
(* anybody a torn pair: "torn" is none of the values of ConfigStore.        *)

Current == Configuration(nvs)
Durable == Configuration(committed)

LEMMA SaveRefines ==
    ASSUME IInv, EndInv, Save
    PROVE  [Config!Next]_<<Current, Durable>>
<1> USE NvsAssumption
    DEF IInv, TypeOK, Key, Fault, Put, Exclusive, SaveInv, StoreInv,
        PairCommitted, NoInfoAnywhere, EndInv, WrittenInv, UnconfiguredInv,
        Current, Durable, Configuration
<1>1. CASE \E c \in Cred : SaveBegin(c)
  BY <1>1 DEF SaveBegin
<1>2. CASE CheckName \/ CheckId
  <2>1. UNCHANGED <<nvs, committed>> /\ trust' \in {trust, "suspect"}
    BY <1>2 DEF CheckName, CheckId, ReadInfo
  <2>2. CASE trust' = trust
    BY <2>1, <2>2
  <2>3. CASE trust' = "suspect"
    BY <2>1, <2>3 DEF Config!Next, Config!Damage
  <2> QED
    BY <2>1, <2>2, <2>3
<1>3. CASE SetSsid \/ SetPass
  <2>1. nvs' # nvs /\ trust = "sound" => NoInfoAnywhere
    BY <1>3 DEF SetSsid, SetPass, Store
  <2>2. /\ UNCHANGED <<committed, trust>>
        /\ nvs'["name"] = nvs["name"] /\ nvs'["id"] = nvs["id"]
    BY <1>3 DEF SetSsid, SetPass, Store
  <2>3. CASE trust = "suspect"
    BY <2>2, <2>3
  <2>4. CASE trust = "sound" /\ nvs' # nvs
    BY <2>1, <2>2, <2>4
  <2>5. CASE nvs' = nvs
    BY <2>2, <2>5
  <2> QED
    BY <2>3, <2>4, <2>5
<1>4. CASE CommitCredentials \/ CommitInfo
  BY <1>4 DEF CommitCredentials, CommitInfo, Commit, Config!Next, Config!Sync
<1>5. CASE SetId \/ SetName
  <2>1. /\ UNCHANGED <<committed, trust>>
        /\ nvs'["ssid"] = nvs["ssid"] /\ nvs'["pass"] = nvs["pass"]
    BY <1>5 DEF SetId, SetName, Store
  <2>2. CASE trust = "suspect" \/ nvs' = nvs
    BY <2>1, <2>2
  <2>3. CASE trust = "sound" /\ nvs' # nvs
    <3>1. Current' \in {Current} \cup Cred
      BY <1>5, <2>1, <2>3 DEF SetId, SetName, Store
    <3>2. Current' # Current => Current = Absent /\ Durable = Absent
      BY <1>5, <2>1, <2>3 DEF SetId, SetName, Store
    <3>3. Durable' = Durable
      BY <2>1
    <3> QED
      BY <3>1, <3>2, <3>3 DEF Config!Next, Config!Provision
  <2> QED
    BY <2>2, <2>3
<1> QED
  BY <1>1, <1>2, <1>3, <1>4, <1>5 DEF Save

LEMMA DeleteRefines ==
    ASSUME IInv, EndInv, Delete
    PROVE  [Config!Next]_<<Current, Durable>>
<1> USE NvsAssumption
    DEF IInv, TypeOK, Key, Fault, Put, DeleteInv, EndInv, UnconfiguredInv,
        FoundInv, PairCommitted, NoInfoAnywhere, Current, Durable, Configuration
<1>1. CASE DeleteBegin
  BY <1>1 DEF DeleteBegin
<1>2. CASE EraseSsid
  <2>1. CASE trust' = "suspect"
    BY <2>1 DEF Config!Next, Config!Damage
  <2>2. CASE trust' = trust /\ trust = "sound"
    <3>1. Current' = Absent /\ Durable' = Durable /\ Current \in Cred \cup {Absent}
      BY <1>2, <2>2 DEF EraseSsid, Erase
    <3> QED
      BY <3>1 DEF Config!Next, Config!Forget
  <2> QED
    BY <1>2, <2>1, <2>2 DEF EraseSsid, Erase
<1>3. CASE ErasePass \/ EraseName \/ EraseId
  <2>1. CASE trust' = "suspect"
    BY <2>1 DEF Config!Next, Config!Damage
  <2>2. CASE trust' = trust /\ trust = "sound"
    BY <1>3, <2>2 DEF ErasePass, EraseName, EraseId, Erase
  <2> QED
    BY <1>3, <2>1, <2>2 DEF ErasePass, EraseName, EraseId, Erase
<1>4. CASE CommitDelete
  <2>1. CASE trust' = "suspect"
    BY <2>1 DEF Config!Next, Config!Damage
  <2>2. CASE trust' = "sound"
    <3>1. nvs = Blank /\ nvs' = Blank /\ committed' = Blank
      BY <1>4, <2>2 DEF CommitDelete, Blank
    <3>2. Current' = Absent /\ Durable' = Absent
      BY <2>2, <3>1 DEF Blank
    <3> QED
      BY <3>2 DEF Config!Next, Config!Wipe
  <2> QED
    BY <1>4, <2>1, <2>2 DEF CommitDelete
<1> QED
  BY <1>1, <1>2, <1>3, <1>4 DEF Delete

LEMMA BootRefines ==
    ASSUME IInv, PowerFailure \/ BootErased
    PROVE  [Config!Next]_<<Current, Durable>>
<1> USE DEF IInv, TypeOK, Key, Current, Durable, Configuration
<1>1. CASE PowerFailure
  <2> PICK lost \in SUBSET {k \in Key : nvs[k] # committed[k]} :
        /\ BootTo([k \in Key |-> IF k \in lost THEN committed[k] ELSE nvs[k]])
        /\ trust' = IF delAt = "idle" THEN trust ELSE "suspect"
    BY <1>1 DEF PowerFailure
  <2>1. committed' = nvs' /\ \A k \in Key : nvs'[k] \in {nvs[k], committed[k]}
    BY DEF BootTo
  <2>2. CASE trust' = "suspect"
    BY <2>2 DEF Config!Next, Config!Damage
  <2>3. CASE trust' = "sound"
    <3>1. trust = "sound" /\ delAt = "idle"
      BY <2>3
    <3>2. Current' \in {Current, Durable}
      <4>1. CASE PairCommitted
        BY <2>1, <2>3, <3>1, <4>1 DEF PairCommitted, StoreInv
      <4>2. CASE NoInfoAnywhere
        BY <2>1, <2>3, <3>1, <4>2 DEF NoInfoAnywhere
      <4> QED
        BY <3>1, <4>1, <4>2 DEF StoreInv
    <3>3. Durable' = Current'
      BY <2>1
    <3> QED
      BY <3>2, <3>3 DEF Config!Next, Config!PowerFailure
  <2> QED
    BY <2>2, <2>3
<1>2. CASE BootErased
  <2>1. Current' = Absent /\ Durable' = Absent
    BY <1>2 DEF BootErased, BootTo, Blank
  <2> QED
    BY <2>1 DEF Config!Next, Config!Wipe
<1> QED
  BY <1>1, <1>2

(* NvsManager implements ConfigStore: whatever calls fail and whenever the *)
(* power does, the four keys are one value that is set when there is none, *)
(* removed in one step, and after a power failure the old one or the new;  *)
(* the ssid of one network never comes with the password of another.       *)
THEOREM ImplementsConfigStore ==
    ASSUME Serialized PROVE Spec => StoresAsOne
<1>1. Init => Config!Init
  BY DEF Init, Blank, Key, Config!Init, Configuration
<1>2. IInv /\ EndInv /\ [Next]_vars => [Config!Next]_<<Current, Durable>>
  <2> SUFFICES ASSUME IInv, EndInv, [Next]_vars
               PROVE  [Config!Next]_<<Current, Durable>>
    OBVIOUS
  <2>1. CASE UNCHANGED vars
    BY <2>1 DEF vars, Current, Durable, Configuration
  <2> QED
    BY <2>1, SaveRefines, DeleteRefines, BootRefines DEF Next
<1> QED
  BY <1>1, <1>2, Invariance, EndInvariance, PTL
  DEF Spec, StoresAsOne, Config!Spec, Current, Durable
=============================================================================
