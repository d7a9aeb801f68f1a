----------------------------- MODULE NvsManager -----------------------------
(***************************************************************************)
(* The four keys of the NVS namespace and the two tasks that write them.   *)
(* The credentials task runs device_manager_save_device_info after a       *)
(* successful connection; the confirmation task runs                       *)
(* nvs_manager_delete_wifi_credentials when the app reports a failure.     *)
(* One action is one call of the NVS API, the unit that is atomic for the  *)
(* other task; between two calls the tasks interleave and power may fail.  *)
(***************************************************************************)
EXTENDS Naturals

CONSTANTS
    Cred,          \* credentials that were accepted by an access point
    Device,        \* the identity derived from the MAC address
    Absent,        \* "key not found"
    MaxFaults,     \* bound: API errors and power failures of a behaviour
    Serialized     \* TRUE: a save and a delete never overlap

ASSUME NvsAssumption ==
    /\ Absent \notin Cred \cup {Device}
    /\ MaxFaults \in Nat
    /\ Serialized \in BOOLEAN

VARIABLES
    nvs,           \* what a read returns, per key
    committed,     \* what is sure to survive a power failure, per key
    saveAt,        \* next call of the credentials task
    saving,        \* the credentials it is saving
    delAt,         \* next call of the confirmation task
    faults,        \* faults so far
    trust          \* history: "suspect" once a delete was cut short or a read
                   \* error hid device info that is there; "sound" again
                   \* after a clean delete

vars == <<nvs, committed, saveAt, saving, delAt, faults, trust>>

Key == {"ssid", "pass", "name", "id"}

SaveStep == {"idle", "name", "id", "ssid", "pass", "commitCreds",
             "newId", "newName", "commitInfo"}

DelStep == {"idle", "eraseSsid", "erasePass", "eraseName", "eraseId", "commit"}

Blank == [k \in Key |-> Absent]

Init ==
    /\ nvs = Blank
    /\ committed = Blank
    /\ saveAt = "idle"
    /\ saving = Absent
    /\ delAt = "idle"
    /\ faults = 0
    /\ trust = "sound"

(* A call of the NVS API, or esp_wifi_get_mac, returns an error. *)
Fault ==
    /\ faults < MaxFaults
    /\ faults' = faults + 1

Put(k, v) == nvs' = [nvs EXCEPT ![k] = v]

HasCredentials == nvs["ssid"] # Absent /\ nvs["pass"] # Absent
HasInfo == nvs["name"] # Absent /\ nvs["id"] # Absent

-----------------------------------------------------------------------------
(* device_manager_save_device_info: read name and id; when both are there, *)
(* return; otherwise store ssid and password, then id and name.            *)

SaveBegin(c) ==
    /\ saveAt = "idle"
    /\ Serialized => delAt = "idle"
    /\ saving' = c
    /\ saveAt' = "name"
    /\ UNCHANGED <<nvs, committed, delAt, faults, trust>>

\* A read that fails for any reason counts as "no device info".
ReadInfo(k, found) ==
    /\ saveAt = k
    /\ \/ nvs[k] # Absent /\ saveAt' = found /\ UNCHANGED <<faults, trust>>
       \/ nvs[k] = Absent /\ saveAt' = "ssid" /\ UNCHANGED <<faults, trust>>
       \/ saveAt' = "ssid" /\ Fault
          /\ trust' = IF nvs[k] = Absent THEN trust ELSE "suspect"
    /\ UNCHANGED <<nvs, committed, saving, delAt>>

CheckIdDisregarded == ReadInfo("id", "ssid")  \* mutant: never skips

CheckName == ReadInfo("name", "id")
CheckId == ReadInfo("id", "idle")

\* nvs_set_str: on an error the save is given up where it stands.
Store(step, k, v, next) ==
    /\ saveAt = step
    /\ \/ Put(k, v) /\ saveAt' = next /\ UNCHANGED faults
       \/ saveAt' = "idle" /\ UNCHANGED nvs /\ Fault
    /\ UNCHANGED <<committed, saving, delAt, trust>>

SetIdUnset == Store("newId", "id", "unset", "newName")  \* mutant: id not formatted

\* mutant: a password that is there is not replaced
SetPassOnce ==
    Store("pass", "pass", IF nvs["pass"] = Absent THEN saving ELSE nvs["pass"],
          "commitCreds")

SetSsid == Store("ssid", "ssid", saving, "pass")
SetPass == Store("pass", "pass", saving, "commitCreds")
SetId == Store("newId", "id", Device, "newName")
SetName == Store("newName", "name", Device, "commitInfo")

Commit(step, next) ==
    /\ saveAt = step
    /\ \/ committed' = nvs /\ saveAt' = next /\ UNCHANGED faults
       \/ saveAt' = "idle" /\ UNCHANGED committed /\ Fault
    /\ UNCHANGED <<nvs, saving, delAt, trust>>

\* mutant: the goto after a failed commit is missing
CommitCredentialsUnchecked ==
    /\ saveAt = "commitCreds"
    /\ saveAt' = "newId"
    /\ \/ committed' = nvs /\ UNCHANGED faults
       \/ UNCHANGED committed /\ Fault
    /\ UNCHANGED <<nvs, saving, delAt, trust>>

CommitCredentials == Commit("commitCreds", "newId")
CommitInfo == Commit("commitInfo", "idle")

-----------------------------------------------------------------------------
(* nvs_manager_delete_wifi_credentials: erase ssid, password, name and id; *)
(* an erase that fails is logged and the next key is erased all the same.  *)

DeleteBegin ==
    /\ delAt = "idle"
    /\ Serialized => saveAt = "idle"
    /\ \/ delAt' = "eraseSsid" /\ UNCHANGED faults
       \/ UNCHANGED delAt /\ Fault
    /\ UNCHANGED <<nvs, committed, saveAt, saving, trust>>

\* mutant: an erase that fails ends the delete
EraseOrStop(step, k, next) ==
    /\ delAt = step
    /\ \/ Put(k, Absent) /\ delAt' = next /\ UNCHANGED <<faults, trust>>
       \/ trust' = "suspect" /\ delAt' = "idle" /\ UNCHANGED nvs /\ Fault
    /\ UNCHANGED <<committed, saveAt, saving>>

Erase(step, k, next) ==
    /\ delAt = step
    /\ delAt' = next
    /\ \/ Put(k, Absent) /\ UNCHANGED <<faults, trust>>
       \/ trust' = "suspect" /\ UNCHANGED nvs /\ Fault
    /\ UNCHANGED <<committed, saveAt, saving>>

\* mutant: the password stays behind
EraseSsidOnly == Erase("eraseSsid", "ssid", "eraseName")

EraseSsid == Erase("eraseSsid", "ssid", "erasePass")
ErasePass == Erase("erasePass", "pass", "eraseName")
EraseName == Erase("eraseName", "name", "eraseId")
EraseId == Erase("eraseId", "id", "commit")

CommitDelete ==
    /\ delAt = "commit"
    /\ delAt' = "idle"
    /\ \/ committed' = nvs /\ UNCHANGED faults
          /\ trust' = IF nvs = Blank THEN "sound" ELSE trust
       \/ trust' = "suspect" /\ UNCHANGED committed /\ Fault
    /\ UNCHANGED <<nvs, saveAt, saving>>

-----------------------------------------------------------------------------
(* Power fails and the device boots. A key that was written since the last *)
(* commit has either value. nvs_manager_init erases the partition when it  *)
(* has no free page or an older format.                                    *)

BootTo(content) ==
    /\ Fault
    /\ nvs' = content
    /\ committed' = content
    /\ saveAt' = "idle"
    /\ saving' = Absent
    /\ delAt' = "idle"

PowerFailure ==
    \E lost \in SUBSET {k \in Key : nvs[k] # committed[k]} :
        /\ BootTo([k \in Key |-> IF k \in lost THEN committed[k] ELSE nvs[k]])
        /\ trust' = IF delAt = "idle" THEN trust ELSE "suspect"

BootErased == BootTo(Blank) /\ trust' = "sound"

-----------------------------------------------------------------------------
Save ==
    \/ \E c \in Cred : SaveBegin(c)
    \/ CheckName \/ CheckId
    \/ SetSsid \/ SetPass \/ CommitCredentials
    \/ SetId \/ SetName \/ CommitInfo

Delete ==
    \/ DeleteBegin
    \/ EraseSsid \/ ErasePass \/ EraseName \/ EraseId
    \/ CommitDelete

Next == Save \/ Delete \/ PowerFailure \/ BootErased

Spec == Init /\ [][Next]_vars

-----------------------------------------------------------------------------
AtRest == saveAt = "idle" /\ delAt = "idle"

WholePair == HasCredentials /\ nvs["ssid"] = nvs["pass"]

TypeOK ==
    /\ nvs \in [Key -> Cred \cup {Device, Absent}]
    /\ committed \in [Key -> Cred \cup {Device, Absent}]
    /\ saveAt \in SaveStep
    /\ saving \in Cred \cup {Absent}
    /\ delAt \in DelStep
    /\ faults \in 0 .. MaxFaults
    /\ trust \in {"sound", "suspect"}

(* Device info is what makes a later save return early, so at rest it must *)
(* never be there without a whole pair of credentials, whatever API calls  *)
(* failed and whenever the power did: the credentials are written and      *)
(* committed first. It holds as long as no delete was cut short and no     *)
(* read error hid the device info (device_info.c, 135-149).                *)
SaveIsFailSafe ==
    AtRest /\ trust = "sound" /\ HasInfo => WholePair

(* One fault never leaves the ssid of one network with the password of     *)
(* another for the next boot to connect with.                              *)
SingleFaultKeepsPair ==
    AtRest /\ faults <= 1 /\ HasCredentials => WholePair

(* A delete that met no error leaves nothing behind on the flash: the      *)
(* device is back to unconfigured, also after a power failure.             *)
CleanDeleteUnconfigures ==
    [][delAt = "commit" /\ delAt' = "idle" /\ trust' = "sound" => committed' = Blank]_vars

(* Device info that a delete leaves behind makes every later save return   *)
(* early. One call that fails in a delete that could open NVS, be it an    *)
(* erase or the commit, never leaves it there: the delete goes on with the *)
(* next key, and a save finds name or id missing (nvs_manager.c, 258-276). *)
OneErrorLeavesNoInfo ==
    [][delAt # "idle" /\ delAt' = "idle" /\ Delete /\ faults' <= 1
        => nvs'["name"] = Absent \/ nvs'["id"] = Absent]_vars

(* A save that gets to its end is durable: the flash holds the credentials *)
(* it was given, and the device info, whatever an earlier save or delete   *)
(* that failed, a read error or a power failure had left behind.           *)
FinishedSaveIsDurable ==
    [][saveAt = "commitInfo" /\ saveAt' = "idle" /\ faults' = faults
        => committed' = [k \in Key |-> IF k \in {"ssid", "pass"} THEN saving
                                                              ELSE Device]]_vars

(* Documentation of the credentials task (wifi_manager.c, 441-443): it     *)
(* "saves successful credentials to NVS storage". A save in which no call  *)
(* failed ends with the credentials it was given on the flash.             *)
SuccessfulCredentialsStored ==
    [][saveAt # "idle" /\ saveAt' = "idle" /\ faults' = faults
        => nvs'["ssid"] = saving /\ nvs'["pass"] = saving]_vars

(* Documentation of the delete (nvs_manager.c, 240-241): it is             *)
(* "effectively resetting the device to unconfigured state", that is, with *)
(* both tasks at rest the device is either provisioned or it is not.       *)
InfoImpliesCredentials ==
    AtRest /\ HasInfo => HasCredentials

-----------------------------------------------------------------------------
(* The store as the next boot sees it: a configuration is all four keys,   *)
(* and it appears, disappears and survives power failures as one value,    *)
(* although it is written and erased key by key with two commits. The ssid *)
(* of one network with the password of another is no configuration.        *)
Configuration(keys) ==
    IF trust = "suspect" THEN "unknown"
    ELSE IF \E k \in Key : keys[k] = Absent THEN Absent
    ELSE IF keys["ssid"] = keys["pass"] THEN keys["ssid"] ELSE "torn"

Config == INSTANCE ConfigStore
               WITH Value <- Cred, Nothing <- Absent, Unknown <- "unknown",
                    current <- Configuration(nvs), durable <- Configuration(committed)

StoresAsOne == Config!Spec
=============================================================================
