----------------------------- MODULE OtaManager -----------------------------
(***************************************************************************)
(* The firmware update: the callers that start one (the POST /ota/update   *)
(* handler in the httpd task, and ota_manager_start_update for application *)
(* code), the task that downloads an image into the partition that is not  *)
(* running, and the progress poll. They share ota_in_progress and the      *)
(* progress and status variables without a lock. Power may fail anywhere.  *)
(***************************************************************************)
EXTENDS Integers, FiniteSets

CONSTANTS
    Slot,          \* the app partitions (ota_0 and ota_1)
    Image,         \* images a server may send
    Valid,         \* those that pass the check of esp_ota_end
    Size,          \* the length of each image
    NoImage,       \* content of a partition that is no part of one image
    HeaderLen,     \* least first chunk that holds the image header
    BufLen,        \* OTA_BUF_SIZE, most bytes of one read
    MaxLen,        \* bound: largest content length a server announces
    Task,          \* bound: update tasks that can exist at once
    Callers        \* entry points in use, {"httpd"} in this firmware

ASSUME OtaAssumption ==
    /\ Valid \subseteq Image
    /\ NoImage \notin Image
    /\ Size \in [Image -> Nat \ {0}]
    /\ HeaderLen \in Nat /\ BufLen \in Nat /\ MaxLen \in Nat
    /\ Callers \subseteq {"httpd", "app"}

VARIABLES
    flash,         \* content of each partition
    boot,          \* partition that the OTA data selects for the next boot
    running,       \* partition the device runs from
    inProgress,    \* ota_in_progress, "yes" or "no"
    progress,      \* ota_progress_percentage
    status,        \* ota_status_message, by kind
    poll,          \* "limited" within 500 ms of last_progress_request, or "open"
    call,          \* what each caller does next
    request,       \* image behind the URL a caller was given
    urls,          \* strdup'ed URLs not yet freed
    at,            \* what each update task does next
    image,         \* image it downloads
    slot,          \* update_partition
    length,        \* content_length
    got,           \* binary_file_length
    held           \* resources it has not released

deviceVars == <<flash, boot, running>>
reportVars == <<progress, status>>
callVars == <<call, request>>
taskVars == <<at, image, slot, length, got, held>>
vars == <<deviceVars, inProgress, reportVars, poll, callVars, urls, taskVars>>

CallStep == {"idle", "checked", "claimed", "copied",
             "announceProgress", "announceStatus"}

TaskStep == {"none", "start", "open", "begin", "alloc", "read", "validate",
             "select", "restart", "failed"}

Status == {"initializing", "started", "working", "success", "failed"}

Whole(c) == c.image \in Valid /\ c.length = Size[c.image]

Active == {t \in Task : at[t] # "none"}

ResetRam ==
    /\ inProgress' = "no"
    /\ progress' = 0
    /\ status' = "initializing"
    /\ poll' = "open"
    /\ call' = [c \in Callers |-> "idle"]
    /\ request' = [c \in Callers |-> NoImage]
    /\ urls' = 0
    /\ at' = [t \in Task |-> "none"]
    /\ image' = [t \in Task |-> NoImage]
    /\ slot' = [t \in Task |-> running']
    /\ length' = [t \in Task |-> 0]
    /\ got' = [t \in Task |-> 0]
    /\ held' = [t \in Task |-> {}]

(* A device that was flashed with a valid image and has just booted.       *)
Init ==
    /\ running \in Slot
    /\ boot = running
    /\ \E i \in Valid :
          flash = [s \in Slot |-> IF s = running
                                  THEN [image |-> i, length |-> Size[i]]
                                  ELSE [image |-> NoImage, length |-> 0]]
    /\ inProgress = "no"
    /\ progress = 0
    /\ status = "initializing"
    /\ poll = "open"
    /\ call = [c \in Callers |-> "idle"]
    /\ request = [c \in Callers |-> NoImage]
    /\ urls = 0
    /\ at = [t \in Task |-> "none"]
    /\ image = [t \in Task |-> NoImage]
    /\ slot = [t \in Task |-> running]
    /\ length = [t \in Task |-> 0]
    /\ got = [t \in Task |-> 0]
    /\ held = [t \in Task |-> {}]

-----------------------------------------------------------------------------
(* Starting an update. A caller that reads the flag as TRUE replies and    *)
(* changes nothing; the test and the set of the flag are two steps.        *)

Becomes(c, from, to) ==
    /\ call[c] = from
    /\ call' = [call EXCEPT ![c] = to]

ForgetsRequest(c) == request' = [request EXCEPT ![c] = NoImage]

\* mutant: the test of the flag is missing
TestFlagSkipped(c) ==
    /\ Becomes(c, "idle", "checked")
    /\ \E i \in Image : request' = [request EXCEPT ![c] = i]
    /\ UNCHANGED <<deviceVars, inProgress, reportVars, poll, urls, taskVars>>

TestFlag(c) ==
    /\ inProgress = "no"
    /\ Becomes(c, "idle", "checked")
    /\ \E i \in Image : request' = [request EXCEPT ![c] = i]
    /\ UNCHANGED <<deviceVars, inProgress, reportVars, poll, urls, taskVars>>

\* The handler reads and parses the body after the test of the flag.
RefuseRequest ==
    /\ "httpd" \in Callers
    /\ Becomes("httpd", "checked", "idle")
    /\ ForgetsRequest("httpd")
    /\ UNCHANGED <<deviceVars, inProgress, reportVars, poll, urls, taskVars>>

\* mutant: the flag is not set before the task is created
ClaimWithoutFlag(c) ==
    /\ Becomes(c, "checked", "claimed")
    /\ UNCHANGED <<deviceVars, inProgress, reportVars, poll, request, urls,
                   taskVars>>

Claim(c) ==
    /\ Becomes(c, "checked", "claimed")
    /\ inProgress' = "yes"
    /\ UNCHANGED <<deviceVars, reportVars, poll, request, urls, taskVars>>

CopyUrl(c) ==
    /\ \/ Becomes(c, "claimed", "copied") /\ urls' = urls + 1
          /\ UNCHANGED <<inProgress, request>>
       \/ Becomes(c, "claimed", "idle") /\ inProgress' = "no"
          /\ ForgetsRequest(c) /\ UNCHANGED urls
    /\ UNCHANGED <<deviceVars, reportVars, poll, taskVars>>

CreateTask(c) ==
    /\ Becomes(c, "copied", IF c = "httpd" THEN "announceProgress" ELSE "idle")
    /\ \E t \in Task \ Active :
          /\ at' = [at EXCEPT ![t] = "start"]
          /\ image' = [image EXCEPT ![t] = request[c]]
    /\ ForgetsRequest(c)
    /\ UNCHANGED <<deviceVars, inProgress, reportVars, poll, urls, slot, length,
                   got, held>>

CreateTaskFails(c) ==
    /\ Becomes(c, "copied", "idle")
    /\ urls' = urls - 1
    /\ inProgress' = "no"
    /\ ForgetsRequest(c)
    /\ UNCHANGED <<deviceVars, reportVars, poll, taskVars>>

\* Only the handler resets progress and status, after the task exists.
AnnounceProgress ==
    /\ "httpd" \in Callers
    /\ Becomes("httpd", "announceProgress", "announceStatus")
    /\ progress' = 0
    /\ UNCHANGED <<deviceVars, inProgress, status, poll, request, urls, taskVars>>

AnnounceStatus ==
    /\ "httpd" \in Callers
    /\ Becomes("httpd", "announceStatus", "idle")
    /\ status' = "started"
    /\ UNCHANGED <<deviceVars, inProgress, progress, poll, request, urls, taskVars>>

\* ota_manager_progress_handler: a poll is refused within 500 ms of the last
\* one that was served, while an update is in progress.
ServePoll ==
    /\ "httpd" \in Callers
    /\ call["httpd"] = "idle"
    /\ ~(inProgress = "yes" /\ poll = "limited")
    /\ poll' = "limited"
    /\ UNCHANGED <<deviceVars, inProgress, reportVars, callVars, urls, taskVars>>

IntervalPasses ==
    /\ poll = "limited"
    /\ poll' = "open"
    /\ UNCHANGED <<deviceVars, inProgress, reportVars, callVars, urls, taskVars>>

Call(c) ==
    \/ TestFlag(c) \/ Claim(c) \/ CopyUrl(c)
    \/ CreateTask(c) \/ CreateTaskFails(c)

Httpd ==
    RefuseRequest \/ AnnounceProgress \/ AnnounceStatus \/ ServePoll

-----------------------------------------------------------------------------
(* ota_manager_task_func and ota_manager_perform_ota_update. The URL was   *)
(* checked by the caller, so the task never finds it empty or invalid.     *)

Goes(t, from, to) ==
    /\ at[t] = from
    /\ at' = [at EXCEPT ![t] = to]

\* mutant: an error path leaves the message of its stage
FailsSilently(t, from, released) ==
    /\ Goes(t, from, "failed")
    /\ held' = [held EXCEPT ![t] = @ \ released]
    /\ UNCHANGED <<boot, running, inProgress, reportVars, poll, callVars, urls,
                   image, slot, length, got>>

\* Each error path sets the message, releases what it names and returns false.
Fails(t, from, released) ==
    /\ Goes(t, from, "failed")
    /\ status' = "failed"
    /\ held' = [held EXCEPT ![t] = @ \ released]
    /\ UNCHANGED <<boot, running, inProgress, progress, poll, callVars, urls,
                   image, slot, length, got>>

StartTask(t) ==
    /\ urls' = urls - 1
    /\ progress' = 0
    /\ \/ /\ Goes(t, "start", "open")
          /\ status' = "working"
          /\ held' = [held EXCEPT ![t] = {"client"}]
       \/ Goes(t, "start", "failed") /\ status' = "failed" /\ UNCHANGED held
    /\ UNCHANGED <<deviceVars, inProgress, poll, callVars, image, slot, length,
                   got>>

Open(t) ==
    \/ /\ Goes(t, "open", "begin")
       /\ \E n \in 1 .. MaxLen : length' = [length EXCEPT ![t] = n]
       /\ status' = "working"
       /\ UNCHANGED <<deviceVars, inProgress, progress, poll, callVars, urls,
                      image, slot, got, held>>
    \/ Fails(t, "open", {"client"}) /\ UNCHANGED flash

\* esp_ota_get_next_update_partition never returns the running one.
Begin(t) ==
    \/ /\ Goes(t, "begin", "alloc")
       /\ \E s \in Slot \ {running} : slot' = [slot EXCEPT ![t] = s]
       /\ status' = "working"
       /\ held' = [held EXCEPT ![t] = @ \cup {"ota"}]
       /\ UNCHANGED <<deviceVars, inProgress, progress, poll, callVars, urls,
                      image, length, got>>
    \/ Fails(t, "begin", {"client"}) /\ UNCHANGED flash

BufferAllocated(t) ==
    /\ Goes(t, "alloc", "read")
    /\ held' = [held EXCEPT ![t] = @ \cup {"buffer"}]
    /\ got' = [got EXCEPT ![t] = 0]
    /\ UNCHANGED <<deviceVars, inProgress, reportVars, poll, callVars, urls,
                   image, slot, length>>

\* mutant: without memory, the OTA handle that is open already is forgotten
AllocateBufferLeaking(t) ==
    BufferAllocated(t) \/ (Fails(t, "alloc", {"client"}) /\ UNCHANGED flash)

AllocateBuffer(t) ==
    BufferAllocated(t) \/ (Fails(t, "alloc", {"client", "ota"}) /\ UNCHANGED flash)

\* mutant: the quotient upside down
PercentInverted(done, total) == (100 * total) \div done

(* Percentage of the announced length, capped as the code caps it.         *)
Percent(done, total) ==
    LET p == (100 * done) \div total IN IF p > 100 THEN 100 ELSE p

(* What esp_ota_write leaves when n bytes of image i follow the first k.   *)
Written(content, i, k, n) ==
    IF k = 0 \/ content = [image |-> i, length |-> k]
    THEN [image |-> i, length |-> k + n]
    ELSE [image |-> NoImage, length |-> 0]

WriteChunk(t) ==
    /\ Goes(t, "read", "read")
    /\ \E n \in 1 .. BufLen :
          /\ got[t] + n <= length[t]
          /\ got[t] = 0 => n >= HeaderLen
          /\ flash' = [flash EXCEPT ![slot[t]] = Written(@, image[t], got[t], n)]
          /\ got' = [got EXCEPT ![t] = @ + n]
          /\ progress' = Percent(got[t] + n, length[t])
    /\ status' = "working"
    /\ UNCHANGED <<boot, running, inProgress, poll, callVars, urls, image, slot,
                   length, held>>

\* A read error, a first chunk without the header, or a failed write.
ReadFails(t) ==
    /\ Fails(t, "read", {"client", "ota", "buffer"})
    /\ \/ UNCHANGED flash
       \/ flash' = [flash EXCEPT ![slot[t]] = [image |-> NoImage, length |-> 0]]

\* mutant: no data before the announced end is waited out
EndOfDataWaits(t) ==
    \/ /\ Goes(t, "read", "validate")
       /\ got[t] = length[t]
       /\ held' = [held EXCEPT ![t] = @ \ {"buffer"}]
       /\ status' = "working"
       /\ UNCHANGED <<deviceVars, inProgress, progress, poll, callVars, urls,
                      image, slot, length, got>>
    \/ /\ Goes(t, "read", "read")
       /\ got[t] # length[t]
       /\ status' = "working"
       /\ UNCHANGED <<deviceVars, inProgress, progress, poll, callVars, urls,
                      image, slot, length, got, held>>

EndOfData(t) ==
    \/ /\ Goes(t, "read", "validate")
       /\ got[t] = length[t]
       /\ held' = [held EXCEPT ![t] = @ \ {"buffer"}]
       /\ status' = "working"
       /\ UNCHANGED <<deviceVars, inProgress, progress, poll, callVars, urls,
                      image, slot, length, got>>
    \/ /\ got[t] # length[t]
       /\ Fails(t, "read", {"client", "ota", "buffer"})
       /\ UNCHANGED flash

\* esp_ota_end checks the partition and closes the handle in any case.
Validate(t) ==
    \/ /\ Goes(t, "validate", "select")
       /\ Whole(flash[slot[t]])
       /\ held' = [held EXCEPT ![t] = @ \ {"ota"}]
       /\ status' = "working"
       /\ UNCHANGED <<deviceVars, inProgress, progress, poll, callVars, urls,
                      image, slot, length, got>>
    \/ Fails(t, "validate", {"client", "ota"}) /\ UNCHANGED flash

\* mutant: the result of esp_ota_set_boot_partition is not looked at
SelectUnchecked(t) ==
    /\ Goes(t, "select", "restart")
    /\ boot' \in {boot, slot[t]}
    /\ status' = "success"
    /\ held' = [held EXCEPT ![t] = @ \ {"client"}]
    /\ UNCHANGED <<flash, running, inProgress, progress, poll, callVars, urls,
                   image, slot, length, got>>

\* esp_ota_set_boot_partition checks the image once more.
Select(t) ==
    \/ /\ Goes(t, "select", "restart")
       /\ Whole(flash[slot[t]])
       /\ boot' = slot[t]
       /\ status' = "success"
       /\ held' = [held EXCEPT ![t] = @ \ {"client"}]
       /\ UNCHANGED <<flash, running, inProgress, progress, poll, callVars, urls,
                      image, slot, length, got>>
    \/ Fails(t, "select", {"client"}) /\ UNCHANGED flash

\* The task is deleted, and its variables with it.
LocalsVanish(t) ==
    /\ image' = [image EXCEPT ![t] = NoImage]
    /\ slot' = [slot EXCEPT ![t] = running]
    /\ length' = [length EXCEPT ![t] = 0]
    /\ got' = [got EXCEPT ![t] = 0]

\* mutant: the task clears the flag also when it succeeded
EndTaskAlways(t) ==
    /\ at[t] \in {"failed", "restart"} /\ inProgress = "yes"
    /\ IF at[t] = "failed" THEN Goes(t, "failed", "none") /\ LocalsVanish(t)
                           ELSE UNCHANGED taskVars
    /\ inProgress' = "no"
    /\ UNCHANGED <<deviceVars, reportVars, poll, callVars, urls, held>>

\* mutant: a failed task leaves the flag set
EndTaskFlagKept(t) ==
    /\ Goes(t, "failed", "none")
    /\ LocalsVanish(t)
    /\ UNCHANGED <<deviceVars, inProgress, reportVars, poll, callVars, urls, held>>

EndTask(t) ==
    /\ Goes(t, "failed", "none")
    /\ inProgress' = "no"
    /\ LocalsVanish(t)
    /\ UNCHANGED <<deviceVars, reportVars, poll, callVars, urls, held>>

Update(t) ==
    \/ StartTask(t) \/ Open(t) \/ Begin(t) \/ AllocateBuffer(t)
    \/ WriteChunk(t) \/ ReadFails(t) \/ EndOfData(t)
    \/ Validate(t) \/ Select(t) \/ EndTask(t)

-----------------------------------------------------------------------------
(* The bootloader starts the selected partition, or another bootable one   *)
(* when that holds no whole image.                                         *)
Reboot ==
    /\ running' \in {s \in Slot : Whole(flash[s])}
    /\ Whole(flash[boot]) => running' = boot
    /\ UNCHANGED <<flash, boot>>
    /\ ResetRam

Restart(t) == at[t] = "restart" /\ Reboot

PowerFailure == Reboot

Next ==
    \/ \E c \in Callers : Call(c)
    \/ Httpd
    \/ \E t \in Task : Update(t) \/ Restart(t)
    \/ IntervalPasses
    \/ PowerFailure

Spec == Init /\ [][Next]_vars

(* A caller that has tested the flag goes on: the client it waits for sends *)
(* the body or closes. Every blocking call of the task has a timeout.      *)
CallGoesOn(c) == call[c] # "idle" /\ (Call(c) \/ (c = "httpd" /\ Httpd))

Fairness ==
    /\ \A c \in Callers : WF_vars(CallGoesOn(c))
    /\ \A t \in Task : WF_vars(Update(t) \/ Restart(t))

FairSpec == Spec /\ Fairness

-----------------------------------------------------------------------------
Content == [image : Image \cup {NoImage}, length : Nat]

DeviceType ==
    /\ flash \in [Slot -> Content]
    /\ boot \in Slot
    /\ running \in Slot

ReportType ==
    /\ inProgress \in {"yes", "no"}
    /\ progress \in 0 .. 100
    /\ status \in Status
    /\ poll \in {"open", "limited"}

CallType ==
    /\ call \in [Callers -> CallStep]
    /\ request \in [Callers -> Image \cup {NoImage}]
    /\ urls \in Int

TaskType ==
    /\ at \in [Task -> TaskStep]
    /\ image \in [Task -> Image \cup {NoImage}]
    /\ slot \in [Task -> Slot]
    /\ length \in [Task -> Nat]
    /\ got \in [Task -> Nat]
    /\ held \in [Task -> SUBSET {"client", "ota", "buffer"}]

TypeOK == DeviceType /\ ReportType /\ CallType /\ TaskType

(* Whatever an update does and wherever the power fails, the partition the *)
(* OTA data selects holds one complete image that passed validation, and   *)
(* so does the running one: ota_in_progress stays set from the claim to    *)
(* the restart, so nothing writes to a partition once it is selected.      *)
BootImageWhole == Whole(flash[boot]) /\ Whole(flash[running])

(* ota_manager.c, 548: "Only one OTA process can run at a time."           *)
OneUpdateAtATime == \A t, u \in Active : t = u

(* The poll never tells a client that no update runs while a task is still *)
(* at work: every path sets the flag before the task exists and clears it  *)
(* after the task's last step.                                             *)
FlagCoversUpdate == Active # {} => inProgress = "yes"

(* "Update successful" is shown only when the next boot runs the image     *)
(* that was downloaded.                                                    *)
SuccessMeansInstalled ==
    status = "success" =>
        /\ boot # running
        /\ Whole(flash[boot])
        /\ \E t \in Active : slot[t] = boot /\ image[t] = flash[boot].image

(* Each error path of ota_manager_perform_ota_update gives back just what  *)
(* was taken before it, the OTA handle too when there is no memory for the *)
(* buffer (lines 228 to 394): a task that is over holds no client, handle  *)
(* or buffer, and every copied URL is owned by a caller about to create    *)
(* its task, or by a task not yet begun.                                   *)
NothingLeaks ==
    /\ \A t \in Task : at[t] \in {"none", "failed", "restart"} => held[t] = {}
    /\ urls >= 0
    /\ urls > 0 => \/ \E c \in Callers : call[c] = "copied"
                   \/ \E t \in Task : at[t] = "start"

(* A poll that finds no update running is not told of a stage of one, nor  *)
(* of a success: each error path has replaced the message of its stage     *)
(* before the flag is cleared. The message of a quick failure can be lost  *)
(* nevertheless, since the handler announces "OTA update started" after it *)
(* has created the task.                                                   *)
EndIsReported ==
    inProgress = "no" => status \in {"initializing", "started", "failed"}

(* How far a task is from its end, in stages and, while it reads, in bytes *)
(* of the announced length.                                                *)
Stage == [none |-> 0, failed |-> 1, restart |-> 2, select |-> 3, validate |-> 4,
          read |-> 5, alloc |-> 6, begin |-> 7, open |-> 8, start |-> 9]

Rank(t) == Stage[at[t]] * (MaxLen + 1)
           + (IF at[t] = "read" THEN length[t] - got[t] ELSE 0)

(* An update cannot go round in circles: each step of its task brings it   *)
(* nearer to its end, whatever the server sends and whatever fails, and    *)
(* nobody else sets it back. So the steps that remain are bounded from the *)
(* moment the task is created, and the download by the announced length.   *)
UpdateAdvances ==
    [][\A t \in Task : /\ Update(t) => Rank(t)' < Rank(t)
                       /\ Rank(t)' > Rank(t) => at[t] = "none"]_vars

(* An update that was started ends: the flag is cleared, by the task, by   *)
(* the caller that could not create it, or by the reboot.                  *)
UpdateEnds == inProgress = "yes" ~> inProgress = "no"

-----------------------------------------------------------------------------
(* The update as its user sees it: at a boot the device runs the image     *)
(* that was installed last, and an image is installed whole or not at all. *)
ImageAt(s) == IF Whole(flash[s]) THEN flash[s].image ELSE NoImage

Install == INSTANCE FirmwareInstall
               WITH installed <- ImageAt(boot), active <- ImageAt(running)

InstallsWhole == Install!Spec
=============================================================================
