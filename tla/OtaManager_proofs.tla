-------------------------- MODULE OtaManager_proofs --------------------------
(***************************************************************************)
(* Proofs about OtaManager for any partitions, images, chunk sizes and     *)
(* number of task slots. What each task does on its own (its types, the    *)
(* progress of its download, what it holds and frees) is proved for any    *)
(* callers; what ota_in_progress is to exclude, only for the HTTP handler  *)
(* as the only one.                                                        *)
(***************************************************************************)
EXTENDS OtaManager, FiniteSetTheorems, TLAPS

(* A task that downloads knows how much, and has not got more than that.   *)
LengthInv ==
    \A t \in Task :
        /\ at[t] \in {"begin", "alloc", "read"} => length[t] \in 1 .. MaxLen
        /\ at[t] = "read" => got[t] <= length[t]

HeldInv ==
    \A t \in Task :
        /\ at[t] \in {"none", "start", "restart", "failed"} => held[t] = {}
        /\ at[t] \in {"open", "begin", "select"} => held[t] \subseteq {"client"}
        /\ at[t] \in {"alloc", "validate"} => held[t] \subseteq {"client", "ota"}

(* The copies of URLs are counted by their owners.                         *)
Copiers == {c \in Callers : call[c] = "copied"}
Starters == {t \in Task : at[t] = "start"}

UrlInv ==
    /\ IsFiniteSet(Copiers) /\ IsFiniteSet(Starters)
    /\ urls = Cardinality(Copiers) + Cardinality(Starters)

BaseInv == TypeOK /\ LengthInv /\ HeldInv /\ UrlInv

(* ota_in_progress excludes: from the claim on no other task exists.       *)
FlagInv ==
    /\ call["httpd"] = "checked" => inProgress = "no"
    /\ call["httpd"] \in {"claimed", "copied"} => inProgress = "yes"
    /\ call["httpd"] \in {"checked", "claimed", "copied"}
        => \A t \in Task : at[t] = "none"
    /\ \A t \in Task : at[t] # "none" => inProgress = "yes"
    /\ \A t, u \in Task : at[t] # "none" /\ at[u] # "none" => t = u

(* The task writes to a partition that neither runs nor is selected, and   *)
(* what it has written is the first part of its image.                     *)
WritesApart(t) ==
    /\ at[t] \in {"alloc", "read", "validate", "select"} => slot[t] # running
    /\ at[t] = "read" /\ got[t] > 0
        => flash[slot[t]] = [image |-> image[t], length |-> got[t]]
    /\ at[t] \in {"validate", "select", "restart"}
        => flash[slot[t]].image = image[t]
    /\ at[t] = "restart" => slot[t] = boot /\ boot # running

WriteInv == \A t \in Task : WritesApart(t)

(* The selected partition differs from the running one only while the task *)
(* that selected it waits to restart the device.                           *)
BootInv ==
    /\ Whole(flash[boot])
    /\ Whole(flash[running])
    /\ boot # running => \E t \in Task : at[t] = "restart"
    /\ status = "success" => \E t \in Task : at[t] = "restart"

(* What the message says when no task is there to change it.               *)
StatusInv ==
    /\ inProgress = "no" \/ call["httpd"] \in {"claimed", "copied"}
        => status \in {"initializing", "started", "failed"}
    /\ \A t \in Task : at[t] = "failed" => status \in {"started", "failed"}

FlashInv == FlagInv /\ WriteInv /\ BootInv /\ StatusInv

IInv == BaseInv /\ FlashInv

-----------------------------------------------------------------------------
(* The reported percentage is a percentage.                                *)
LEMMA PercentRange ==
    ASSUME NEW a \in Nat, NEW b \in Nat \ {0}
    PROVE  Percent(a, b) \in 0 .. 100
<1> DEFINE q == (100 * a) \div b
<1>1. q \in Int /\ 100 * a < b * q + b
  BY SMTT(30)
<1>2. q >= 0
  <2> SUFFICES ASSUME q <= -1 PROVE FALSE
    BY <1>1
  <2> HIDE DEF q
  <2>1. b * q <= b * (-1)
    BY <1>1
  <2> QED
    BY <2>1, <1>1
<1> QED
  BY <1>1, <1>2 DEF Percent

-----------------------------------------------------------------------------
(* Type correctness, one group of steps at a time.                         *)

LEMMA CallTyping ==
    ASSUME TypeOK, NEW c \in Callers, Call(c) PROVE TypeOK'
<1> USE DEF TypeOK, Call, TestFlag, Claim, CopyUrl, CreateTask,
        CreateTaskFails, Becomes, ForgetsRequest
<1>1. DeviceType'
  BY DEF DeviceType, deviceVars
<1>2. ReportType'
  BY DEF ReportType, reportVars
<1>3. CallType'
  BY OtaAssumption DEF CallType, CallStep
<1>4. TaskType'
  BY DEF CallType, TaskType, TaskStep, taskVars, Active
<1> QED
  BY <1>1, <1>2, <1>3, <1>4

LEMMA HttpdTyping ==
    ASSUME TypeOK, Httpd \/ IntervalPasses PROVE TypeOK'
<1> USE DEF TypeOK, Httpd, RefuseRequest, AnnounceProgress, AnnounceStatus,
        ServePoll, IntervalPasses, Becomes, ForgetsRequest
<1>1. DeviceType'
  BY DEF DeviceType, deviceVars
<1>2. ReportType'
  BY DEF ReportType, reportVars, Status
<1>3. CallType'
  BY DEF CallType, CallStep, callVars
<1>4. TaskType'
  BY DEF TaskType, taskVars
<1> QED
  BY <1>1, <1>2, <1>3, <1>4

LEMMA UpdateTyping ==
    ASSUME TypeOK, LengthInv, NEW t \in Task, Update(t) PROVE TypeOK'
<1>0. ASSUME NEW n \in 1 .. BufLen, at[t] = "read"
      PROVE  Percent(got[t] + n, length[t]) \in 0 .. 100
  <2>1. length[t] > 0
    BY <1>0, OtaAssumption DEF LengthInv
  <2>2. length[t] \in Nat /\ got[t] \in Nat
    BY DEF TypeOK, TaskType
  <2>3. n \in Nat
    BY <1>0, OtaAssumption
  <2>4. got[t] + n \in Nat /\ length[t] \in Nat \ {0}
    BY <2>1, <2>2, <2>3
  <2> QED
    BY <2>4, PercentRange, Zenon
<1> USE DEF TypeOK, Update, StartTask, Open, Begin, AllocateBuffer, BufferAllocated, WriteChunk, ReadFails,
        EndOfData, Validate, Select, EndTask, Goes, Fails, LocalsVanish
<1>1. DeviceType'
  <2>1. \A n \in 1 .. BufLen :
          Written(flash[slot[t]], image[t], got[t], n) \in Content
    BY OtaAssumption DEF Written, Content, DeviceType, TaskType
  <2>2. [image |-> NoImage, length |-> 0] \in Content
    BY DEF Content
  <2> QED
    BY <2>1, <2>2 DEF DeviceType, TaskType, deviceVars
<1>2. ReportType'
  <2> USE DEF ReportType, reportVars, Status
  <2>1. CASE WriteChunk(t)
    BY <1>0, <2>1
  <2>2. CASE StartTask(t) \/ Open(t) \/ Begin(t) \/ AllocateBuffer(t)
    BY <2>2
  <2>3. CASE ReadFails(t) \/ EndOfData(t)
    BY <2>3
  <2>4. CASE Validate(t) \/ Select(t) \/ EndTask(t)
    BY <2>4
  <2> QED
    BY <2>1, <2>2, <2>3, <2>4
<1>3. CallType'
  BY DEF CallType, callVars
<1>4. TaskType'
  BY OtaAssumption DEF TaskType, DeviceType, TaskStep, taskVars
<1> QED
  BY <1>1, <1>2, <1>3, <1>4

LEMMA RebootTyping ==
    ASSUME TypeOK, Reboot PROVE TypeOK'
<1> USE DEF TypeOK, Reboot, ResetRam
<1>1. DeviceType'
  BY DEF DeviceType
<1>2. ReportType'
  BY DEF ReportType, Status
<1>3. CallType'
  BY DEF CallType, CallStep
<1>4. TaskType'
  BY <1>1 DEF TaskType, DeviceType, TaskStep
<1> QED
  BY <1>1, <1>2, <1>3, <1>4

-----------------------------------------------------------------------------
(* What holds whoever calls: type correctness, and what a task holds.      *)

LEMMA LengthStep ==
    ASSUME TypeOK, LengthInv, [Next]_vars PROVE LengthInv'
<1> USE DEF LengthInv
<1>1. CASE UNCHANGED taskVars
  BY <1>1 DEF taskVars
<1>2. ASSUME NEW c \in Callers, CreateTask(c) PROVE LengthInv'
  BY <1>2 DEF CreateTask, TypeOK, TaskType
<1>3. ASSUME NEW t \in Task, Update(t) PROVE LengthInv'
  <2> USE DEF TypeOK, TaskType, Goes, Fails
  <2>1. CASE Open(t)
    BY <2>1, OtaAssumption DEF Open
  <2>2. CASE Begin(t) \/ AllocateBuffer(t)
    BY <2>2, OtaAssumption DEF Begin, AllocateBuffer, BufferAllocated
  <2>3. CASE WriteChunk(t)
    BY <2>3, OtaAssumption DEF WriteChunk
  <2>4. CASE StartTask(t) \/ ReadFails(t) \/ EndOfData(t)
    BY <2>4 DEF StartTask, ReadFails, EndOfData
  <2>5. CASE Validate(t) \/ Select(t) \/ EndTask(t)
    BY <2>5 DEF Validate, Select, EndTask, LocalsVanish
  <2> QED
    BY <1>3, <2>1, <2>2, <2>3, <2>4, <2>5 DEF Update
<1>4. CASE Reboot
  BY <1>4 DEF Reboot, ResetRam
<1> QED
  BY <1>1, <1>2, <1>3, <1>4
  DEF Next, Call, TestFlag, Claim, CopyUrl, CreateTaskFails, Httpd,
      RefuseRequest, AnnounceProgress, AnnounceStatus, ServePoll,
      IntervalPasses, Restart, PowerFailure, vars

LEMMA HeldStep ==
    ASSUME TypeOK, HeldInv, [Next]_vars PROVE HeldInv'
<1> USE DEF HeldInv
<1>1. CASE UNCHANGED taskVars
  BY <1>1 DEF taskVars
<1>2. ASSUME NEW c \in Callers, CreateTask(c) PROVE HeldInv'
  BY <1>2 DEF CreateTask, Active, TypeOK, TaskType
<1>3. ASSUME NEW t \in Task, Update(t) PROVE HeldInv'
  BY <1>3
  DEF Update, StartTask, Open, Begin, AllocateBuffer, BufferAllocated, WriteChunk, ReadFails, EndOfData, Validate,
      Select, EndTask, Goes, Fails, LocalsVanish, TypeOK, TaskType
<1>4. CASE Reboot
  BY <1>4 DEF Reboot, ResetRam
<1> QED
  BY <1>1, <1>2, <1>3, <1>4
  DEF Next, Call, TestFlag, Claim, CopyUrl, CreateTaskFails, Httpd,
      RefuseRequest, AnnounceProgress, AnnounceStatus, ServePoll,
      IntervalPasses, Restart, PowerFailure, vars

LEMMA UrlStep ==
    ASSUME TypeOK, UrlInv, [Next]_vars PROVE UrlInv'
<1> DEFINE C == Copiers
           S == Starters
<1>0. /\ IsFiniteSet(C) /\ IsFiniteSet(S)
      /\ Cardinality(C) \in Nat /\ Cardinality(S) \in Nat
      /\ urls = Cardinality(C) + Cardinality(S)
  BY FS_CardinalityType DEF UrlInv
<1>1. CASE Copiers' = C /\ Starters' = S /\ urls' = urls
  BY <1>1 DEF UrlInv
<1>2. ASSUME NEW c \in Callers, c \notin C, Copiers' = C \cup {c}, Starters' = S,
             urls' = urls + 1
      PROVE  UrlInv'
  <2>1. IsFiniteSet(C \cup {c}) /\ Cardinality(C \cup {c}) = Cardinality(C) + 1
    BY <1>0, <1>2, FS_AddElement
  <2> QED
    BY <1>0, <1>2, <2>1 DEF UrlInv
<1>3. ASSUME NEW c \in C, Copiers' = C \ {c}, Starters' = S, urls' = urls - 1
      PROVE  UrlInv'
  <2>1. IsFiniteSet(C \ {c}) /\ Cardinality(C \ {c}) = Cardinality(C) - 1
    BY <1>0, <1>3, FS_RemoveElement
  <2> QED
    BY <1>0, <1>3, <2>1 DEF UrlInv
<1>4. ASSUME NEW c \in C, NEW t \in Task, t \notin S,
             Copiers' = C \ {c}, Starters' = S \cup {t}, urls' = urls
      PROVE  UrlInv'
  <2>1. IsFiniteSet(C \ {c}) /\ Cardinality(C \ {c}) = Cardinality(C) - 1
    BY <1>0, <1>4, FS_RemoveElement
  <2>2. IsFiniteSet(S \cup {t}) /\ Cardinality(S \cup {t}) = Cardinality(S) + 1
    BY <1>0, <1>4, FS_AddElement
  <2> QED
    BY <1>0, <1>4, <2>1, <2>2 DEF UrlInv
<1>5. ASSUME NEW t \in S, Copiers' = C, Starters' = S \ {t}, urls' = urls - 1
      PROVE  UrlInv'
  <2>1. IsFiniteSet(S \ {t}) /\ Cardinality(S \ {t}) = Cardinality(S) - 1
    BY <1>0, <1>5, FS_RemoveElement
  <2> QED
    BY <1>0, <1>5, <2>1 DEF UrlInv
<1>6. ASSUME NEW c \in Callers, Call(c) PROVE UrlInv'
  <2> USE DEF Becomes, ForgetsRequest, TypeOK, CallType, TaskType, Copiers,
              Starters
  <2>1. CASE TestFlag(c) \/ Claim(c)
    BY <1>1, <2>1 DEF TestFlag, Claim, taskVars
  <2>2. CASE CopyUrl(c)
    <3>1. CASE Becomes(c, "claimed", "copied") /\ urls' = urls + 1
      <4>1. c \notin C /\ Copiers' = C \cup {c} /\ Starters' = S
        BY <2>2, <3>1 DEF CopyUrl, taskVars
      <4> HIDE DEF Copiers, Starters
      <4> QED
        BY <1>2, <3>1, <4>1
    <3>2. CASE Becomes(c, "claimed", "idle") /\ UNCHANGED urls
      <4>1. Copiers' = C /\ Starters' = S
        BY <2>2, <3>2 DEF CopyUrl, taskVars
      <4> QED
        BY <1>1, <3>2, <4>1
    <3> QED
      BY <2>2, <3>1, <3>2 DEF CopyUrl
  <2>3. CASE CreateTask(c)
    <3>1. PICK t \in Task \ Active : at' = [at EXCEPT ![t] = "start"]
      BY <2>3 DEF CreateTask
    <3>2. c \in C /\ Copiers' = C \ {c} /\ urls' = urls
      BY <2>3 DEF CreateTask
    <3>3. t \notin S /\ Starters' = S \cup {t}
      BY <3>1 DEF Active
    <3> HIDE DEF Copiers, Starters
    <3> QED
      BY <1>4, <3>2, <3>3
  <2>4. CASE CreateTaskFails(c)
    <3>1. /\ c \in C /\ Copiers' = C \ {c} /\ Starters' = S
          /\ urls' = urls - 1
      BY <2>4 DEF CreateTaskFails, taskVars
    <3> HIDE DEF Copiers, Starters
    <3> QED
      BY <1>3, <3>1
  <2> QED
    BY <1>6, <2>1, <2>2, <2>3, <2>4 DEF Call
<1>7. ASSUME NEW t \in Task, Update(t) PROVE UrlInv'
  <2>1. CASE StartTask(t)
    <3>1. /\ t \in S /\ Starters' = S \ {t} /\ Copiers' = C
          /\ urls' = urls - 1
      BY <2>1 DEF StartTask, Goes, callVars, TypeOK, TaskType, Copiers, Starters
    <3> QED
      BY <1>5, <3>1
  <2>2. CASE ~StartTask(t)
    <3>1. Starters' = S /\ Copiers' = C /\ urls' = urls
      BY <1>7, <2>2
      DEF Update, Open, Begin, AllocateBuffer, BufferAllocated, WriteChunk, ReadFails, EndOfData, Validate, Select,
          EndTask, Goes, Fails, callVars, TypeOK, TaskType, Copiers, Starters
    <3> QED
      BY <1>1, <3>1
  <2> QED
    BY <2>1, <2>2
<1>8. CASE Reboot
  <2>1. Copiers' = {} /\ Starters' = {} /\ urls' = 0
    BY <1>8 DEF Reboot, ResetRam, Copiers, Starters
  <2> QED
    BY <2>1, FS_EmptySet DEF UrlInv
<1>9. CASE Httpd \/ IntervalPasses
  <2>1. Copiers' = C /\ Starters' = S /\ urls' = urls
    BY <1>9
    DEF Httpd, RefuseRequest, AnnounceProgress, AnnounceStatus, ServePoll,
        IntervalPasses, Becomes, callVars, taskVars, TypeOK, CallType, Copiers,
        Starters
  <2> QED
    BY <1>1, <2>1
<1>10. CASE UNCHANGED vars
  BY <1>1, <1>10 DEF vars, callVars, taskVars, Copiers, Starters
<1> QED
  BY <1>6, <1>7, <1>8, <1>9, <1>10 DEF Next, Restart, PowerFailure

LEMMA BaseStep == BaseInv /\ [Next]_vars => BaseInv'
<1> SUFFICES ASSUME BaseInv, [Next]_vars PROVE BaseInv'
  OBVIOUS
<1>1. TypeOK'
  <2>1. CASE UNCHANGED vars
    BY <2>1
    DEF vars, deviceVars, reportVars, callVars, taskVars, BaseInv, TypeOK,
        DeviceType, ReportType, CallType, TaskType
  <2> QED
    BY <2>1, CallTyping, HttpdTyping, UpdateTyping, RebootTyping
    DEF Next, BaseInv, PowerFailure, Restart
<1> QED
  BY <1>1, LengthStep, HeldStep, UrlStep DEF BaseInv

LEMMA BaseInit == ASSUME Init PROVE BaseInv
<1> USE OtaAssumption DEF Init
<1>1. DeviceType
  BY DEF DeviceType, Content
<1>2. TypeOK
  BY <1>1 DEF TypeOK, DeviceType, ReportType, CallType, TaskType, Status, CallStep,
              TaskStep
<1>3. UrlInv
  <2>1. Copiers = {} /\ Starters = {}
    BY DEF Copiers, Starters
  <2> QED
    BY <2>1, FS_EmptySet DEF UrlInv
<1> QED
  BY <1>2, <1>3 DEF BaseInv, LengthInv, HeldInv

(* Every variable keeps its type, whoever starts updates.                  *)
THEOREM TypeCorrect == Spec => []TypeOK
<1>1. BaseInv => TypeOK
  BY DEF BaseInv
<1> QED
  BY <1>1, BaseInit, BaseStep, PTL DEF Spec

(* Every path gives back the resources it took and frees each URL once,    *)
(* also when two callers start updates at the same time.                   *)
THEOREM NoLeak == Spec => []NothingLeaks
<1>1. BaseInv => NothingLeaks
  <2> SUFFICES ASSUME BaseInv PROVE NothingLeaks
    OBVIOUS
  <2>1. Cardinality(Copiers) \in Nat /\ Cardinality(Starters) \in Nat
    BY FS_CardinalityType DEF BaseInv, UrlInv
  <2>2. Copiers = {} => Cardinality(Copiers) = 0
    BY FS_EmptySet
  <2>3. Starters = {} => Cardinality(Starters) = 0
    BY FS_EmptySet
  <2>4. urls > 0 => Copiers # {} \/ Starters # {}
    BY <2>1, <2>2, <2>3 DEF BaseInv, UrlInv
  <2> QED
    BY <2>1, <2>4 DEF BaseInv, UrlInv, HeldInv, NothingLeaks, Copiers, Starters
<1> QED
  BY <1>1, BaseInit, BaseStep, PTL DEF Spec

-----------------------------------------------------------------------------
(* A task gets on.                                                         *)

LEMMA RankType ==
    ASSUME TypeOK, LengthInv, NEW t \in Task
    PROVE  /\ Stage[at[t]] \in 0 .. 9
           /\ (IF at[t] = "read" THEN length[t] - got[t] ELSE 0) \in 0 .. MaxLen
  BY OtaAssumption DEF TypeOK, TaskType, TaskStep, Stage, LengthInv

\* An earlier stage weighs more than any number of bytes.
LEMMA StageWeighs ==
    ASSUME NEW a \in Int, NEW b \in Int, b < a, NEW n \in Nat,
           NEW k \in 0 .. n, NEW l \in 0 .. n
    PROVE  b * (n + 1) + l < a * (n + 1) + k
<1>1. (b + 1) * (n + 1) <= a * (n + 1)
  <2> DEFINE d == a - (b + 1)
  <2>1. d \in Nat /\ a = b + 1 + d
    OBVIOUS
  <2>2. d * (n + 1) >= 0
    BY <2>1
  <2>3. a * (n + 1) = (b + 1) * (n + 1) + d * (n + 1)
    BY <2>1
  <2> QED
    BY <2>2, <2>3
<1>2. (b + 1) * (n + 1) = b * (n + 1) + n + 1
  OBVIOUS
<1> QED
  BY <1>1, <1>2

\* A step to a later stage, or within the download.
LEMMA Nearer ==
    ASSUME TypeOK, LengthInv, (TypeOK /\ LengthInv)', NEW t \in Task,
           \/ Stage[at'[t]] < Stage[at[t]]
           \/ /\ at[t] = "read" /\ at'[t] = "read"
              /\ length'[t] = length[t] /\ got'[t] > got[t]
    PROVE  Rank(t)' < Rank(t)
<1> DEFINE r == IF at[t] = "read" THEN length[t] - got[t] ELSE 0
           q == IF at'[t] = "read" THEN length'[t] - got'[t] ELSE 0
           a == Stage[at[t]]
           b == Stage[at'[t]]
<1>1. a \in 0 .. 9 /\ r \in 0 .. MaxLen
  BY RankType
<1>2. b \in 0 .. 9 /\ q \in 0 .. MaxLen
  BY OtaAssumption DEF TypeOK, TaskType, TaskStep, Stage, LengthInv
<1>3. Rank(t) = a * (MaxLen + 1) + r /\ Rank(t)' = b * (MaxLen + 1) + q
  BY DEF Rank, Stage
<1>4. MaxLen \in Nat
  BY OtaAssumption
<1>5. CASE b < a
  <2> HIDE DEF a, b, q, r
  <2> QED
    BY <1>1, <1>2, <1>3, <1>4, <1>5, StageWeighs
<1>6. CASE a = b /\ q < r
  <2>1. a * (MaxLen + 1) \in Int
    BY <1>1, <1>4
  <2> HIDE DEF a, b, q, r
  <2> QED
    BY <1>1, <1>2, <1>3, <1>6, <2>1
<1>7. b < a \/ (a = b /\ q < r)
  BY DEF TypeOK, TaskType
<1> QED
  BY <1>5, <1>6, <1>7

LEMMA UpdateStep ==
    ASSUME BaseInv, BaseInv', NEW t \in Task, Update(t)
    PROVE  /\ Rank(t)' < Rank(t)
           /\ \A u \in Task \ {t} : Rank(u)' = Rank(u)
<1> USE DEF BaseInv, TypeOK, TaskType, Goes, Fails
<1>1. CASE WriteChunk(t)
  <2>1. \A u \in Task \ {t} : at'[u] = at[u] /\ length'[u] = length[u] /\ got'[u] = got[u]
    BY <1>1 DEF WriteChunk
  <2>2. /\ at[t] = "read" /\ at'[t] = "read"
        /\ length'[t] = length[t] /\ got'[t] > got[t]
    BY <1>1, OtaAssumption DEF WriteChunk
  <2> QED
    BY <2>1, <2>2, Nearer DEF Rank, Stage
<1>2. CASE StartTask(t) \/ Open(t) \/ Begin(t) \/ AllocateBuffer(t)
  <2>1. \A u \in Task \ {t} : at'[u] = at[u] /\ length'[u] = length[u] /\ got'[u] = got[u]
    BY <1>2 DEF StartTask, Open, Begin, AllocateBuffer, BufferAllocated
  <2>2. Stage[at'[t]] < Stage[at[t]]
    BY <1>2 DEF StartTask, Open, Begin, AllocateBuffer, BufferAllocated, Stage
  <2> QED
    BY <2>1, <2>2, Nearer DEF Rank, Stage
<1>3. CASE ReadFails(t) \/ EndOfData(t) \/ Validate(t) \/ Select(t) \/ EndTask(t)
  <2>1. \A u \in Task \ {t} : at'[u] = at[u] /\ length'[u] = length[u] /\ got'[u] = got[u]
    BY <1>3 DEF ReadFails, EndOfData, Validate, Select, EndTask, LocalsVanish
  <2>2. Stage[at'[t]] < Stage[at[t]]
    BY <1>3 DEF ReadFails, EndOfData, Validate, Select, EndTask, Stage
  <2> QED
    BY <2>1, <2>2, Nearer DEF Rank, Stage
<1> QED
  BY <1>1, <1>2, <1>3 DEF Update

LEMMA RankStep ==
    ASSUME BaseInv, BaseInv', [Next]_vars
    PROVE  \A t \in Task : /\ Update(t) => Rank(t)' < Rank(t)
                           /\ Rank(t)' > Rank(t) => at[t] = "none"
<1> SUFFICES ASSUME NEW t \in Task
             PROVE  /\ Update(t) => Rank(t)' < Rank(t)
                    /\ Rank(t)' > Rank(t) => at[t] = "none"
  OBVIOUS
<1>0. Rank(t) \in Nat
  <2>1. MaxLen \in Nat /\ Stage[at[t]] \in 0 .. 9
        /\ (IF at[t] = "read" THEN length[t] - got[t] ELSE 0) \in 0 .. MaxLen
    BY RankType, OtaAssumption DEF BaseInv
  <2> QED
    BY <2>1 DEF Rank
<1>1. Update(t) => Rank(t)' < Rank(t)
  BY UpdateStep
<1>2. ASSUME UNCHANGED <<at, length, got>> PROVE Rank(t)' = Rank(t)
  BY <1>2 DEF Rank
<1>3. ASSUME NEW u \in Task, Update(u) PROVE ~(Rank(t)' > Rank(t))
  <2>1. CASE u = t
    <3>1. Rank(t)' < Rank(t)
      BY <1>3, <2>1, UpdateStep
    <3>2. Rank(t)' \in Int
      BY OtaAssumption DEF Rank, BaseInv, TypeOK, TaskType, TaskStep, Stage
    <3> QED
      BY <1>0, <3>1, <3>2
  <2>2. CASE u # t
    <3>1. Rank(t)' = Rank(t)
      BY <1>3, <2>2, UpdateStep
    <3> QED
      BY <1>0, <3>1
  <2> QED
    BY <2>1, <2>2
<1>4. ASSUME NEW c \in Callers, CreateTask(c), at[t] # "none"
      PROVE  Rank(t)' = Rank(t)
  <2>1. at'[t] = at[t] /\ length' = length /\ got' = got
    BY <1>4 DEF CreateTask, Active, BaseInv, TypeOK, TaskType
  <2> QED
    BY <2>1 DEF Rank
<1>5. CASE Reboot
  <2>1. Rank(t)' = 0
    <3>1. at'[t] = "none" /\ Stage["none"] = 0 /\ MaxLen \in Nat
      BY <1>5, OtaAssumption DEF Reboot, ResetRam, Stage
    <3>2. Rank(t)' = Stage["none"] * (MaxLen + 1) + 0
      BY <3>1 DEF Rank, Stage
    <3> QED
      BY <3>1, <3>2
  <2>2. ~(0 > Rank(t))
    BY <1>0
  <2> QED
    BY <1>1, <2>1, <2>2
<1>6. CASE UNCHANGED taskVars
  BY <1>0, <1>1, <1>2, <1>6 DEF taskVars
<1> QED
  BY <1>0, <1>1, <1>3, <1>4, <1>5, <1>6
  DEF Next, Call, TestFlag, Claim, CopyUrl, CreateTaskFails, Httpd,
      RefuseRequest, AnnounceProgress, AnnounceStatus, ServePoll,
      IntervalPasses, Restart, PowerFailure, vars

(* Every step of an update task brings it nearer to its end and nothing    *)
(* sets it back, for any number of tasks and callers and any announced     *)
(* length: with the task scheduled, it ends.                               *)
THEOREM UpdateGetsOn == Spec => UpdateAdvances
<1>1. BaseInv /\ BaseInv' /\ [Next]_vars =>
        [\A t \in Task : /\ Update(t) => Rank(t)' < Rank(t)
                         /\ Rank(t)' > Rank(t) => at[t] = "none"]_vars
  BY RankStep
<1> QED
  BY <1>1, BaseInit, BaseStep, PTL DEF Spec, UpdateAdvances

-----------------------------------------------------------------------------
(* What each group of steps does to the rest of the invariant.             *)

LEMMA CallPreserves ==
    ASSUME Callers = {"httpd"}, IInv, NEW c \in Callers, Call(c)
    PROVE  FlashInv'
<1> USE DEF IInv, BaseInv, FlashInv, Call, TestFlag, Claim, CopyUrl, CreateTask, CreateTaskFails,
        Becomes, ForgetsRequest, Active
<1>1. FlagInv'
  BY DEF FlagInv, TypeOK, CallType, TaskType, taskVars
<1>2. WriteInv'
  BY DEF WriteInv, WritesApart, TypeOK, TaskType, deviceVars, taskVars
<1>3. BootInv'
  BY DEF BootInv, FlagInv, TypeOK, TaskType, Whole, deviceVars, taskVars, reportVars
<1>4. StatusInv'
  BY DEF StatusInv, FlagInv, TypeOK, CallType, TaskType, reportVars, taskVars
<1> QED
  BY <1>1, <1>2, <1>3, <1>4 DEF FlashInv

LEMMA HttpdPreserves ==
    ASSUME Callers = {"httpd"}, IInv, Httpd \/ IntervalPasses
    PROVE  FlashInv'
<1> USE DEF IInv, BaseInv, FlashInv, Httpd, RefuseRequest, AnnounceProgress, AnnounceStatus,
        ServePoll, IntervalPasses, Becomes, ForgetsRequest
<1>1. FlagInv'
  BY DEF FlagInv, TypeOK, CallType, callVars, taskVars
<1>2. WriteInv'
  BY DEF WriteInv, WritesApart, deviceVars, taskVars
<1>3. BootInv'
  BY DEF BootInv, Whole, deviceVars, taskVars, reportVars
<1>4. StatusInv'
  BY DEF StatusInv, TypeOK, CallType, reportVars, callVars, taskVars
<1> QED
  BY <1>1, <1>2, <1>3, <1>4 DEF FlashInv

LEMMA RebootPreserves ==
    ASSUME Callers = {"httpd"}, IInv, Reboot
    PROVE  FlashInv'
BY DEF IInv, BaseInv, FlashInv, FlagInv, WriteInv, WritesApart, BootInv,
       StatusInv, Whole, Reboot, ResetRam

LEMMA UpdatePreserves ==
    ASSUME Callers = {"httpd"}, IInv, NEW t \in Task, Update(t)
    PROVE  FlashInv'
<1> USE DEF IInv, BaseInv, FlashInv, TypeOK, TaskType
<1>1. FlagInv'
  BY DEF FlagInv, Update, StartTask, Open, Begin, AllocateBuffer, BufferAllocated, WriteChunk, ReadFails,
         EndOfData, Validate, Select, EndTask, Goes, Fails, callVars
<1>2. WriteInv'
  <2> SUFFICES ASSUME NEW u \in Task PROVE WritesApart(u)'
    BY DEF WriteInv
  <2> USE DEF WriteInv, WritesApart, FlagInv, Goes
  <2>1. CASE StartTask(t) \/ EndTask(t)
    BY <2>1 DEF StartTask, EndTask, LocalsVanish, deviceVars
  <2>2. CASE Open(t)
    BY <2>2 DEF Open, Fails, deviceVars
  <2>3. CASE Begin(t)
    <3>1. CASE Fails(t, "begin", {"client"}) /\ UNCHANGED flash
      BY <3>1 DEF Fails
    <3>2. CASE ~(Fails(t, "begin", {"client"}) /\ UNCHANGED flash)
      <4>1. PICK s \in Slot \ {running} : slot' = [slot EXCEPT ![t] = s]
        BY <2>3, <3>2 DEF Begin
      <4>2. /\ Goes(t, "begin", "alloc")
            /\ UNCHANGED <<flash, boot, running, image, length, got>>
        BY <2>3, <3>2 DEF Begin, deviceVars
      <4> QED
        BY <4>1, <4>2
    <3> QED
      BY <3>1, <3>2
  <2>8. CASE AllocateBuffer(t)
    <3>1. CASE BufferAllocated(t)
      BY <3>1 DEF BufferAllocated, deviceVars
    <3>2. CASE Fails(t, "alloc", {"client", "ota"}) /\ UNCHANGED flash
      BY <3>2 DEF Fails
    <3> QED
      BY <2>8, <3>1, <3>2 DEF AllocateBuffer
  <2>4. CASE WriteChunk(t)
    <3>1. CASE u = t
      <4>1. PICK n \in 1 .. BufLen :
              /\ flash' = [flash EXCEPT
                              ![slot[t]] = Written(@, image[t], got[t], n)]
              /\ got' = [got EXCEPT ![t] = @ + n]
        BY <2>4 DEF WriteChunk
      <4>2. got[t] \in Nat /\ n \in Nat /\ n > 0
        BY <4>1, OtaAssumption
      <4>3. got[t] = 0 \/ flash[slot[t]] = [image |-> image[t], length |-> got[t]]
        BY <2>4, <4>2 DEF WriteChunk
      <4>4. flash'[slot[t]] = [image |-> image[t], length |-> got'[t]]
        BY <4>1, <4>3 DEF Written, DeviceType
      <4> QED
        BY <2>4, <3>1, <4>4 DEF WriteChunk
    <3>2. CASE u # t
      BY <2>4, <3>2 DEF WriteChunk
    <3> QED
      BY <3>1, <3>2
  <2>5. CASE ReadFails(t)
    BY <2>5 DEF ReadFails, Fails
  <2>6. CASE EndOfData(t)
    BY <2>6, OtaAssumption DEF EndOfData, Fails, deviceVars, LengthInv
  <2>7. CASE Validate(t) \/ Select(t)
    BY <2>7 DEF Validate, Select, Fails, deviceVars, BootInv
  <2> QED
    BY <2>1, <2>2, <2>3, <2>4, <2>5, <2>6, <2>7, <2>8 DEF Update
<1>3. BootInv'
  <2>1. boot = running /\ \A u \in Task : at[u] # "restart"
    <3>1. at[t] \notin {"none", "restart"}
      BY DEF Update, StartTask, Open, Begin, AllocateBuffer, BufferAllocated, WriteChunk, ReadFails, EndOfData,
             Validate, Select, EndTask, Goes, Fails
    <3>2. \A u \in Task : at[u] # "restart"
      BY <3>1 DEF FlagInv
    <3> QED
      BY <3>2 DEF BootInv
  <2>2. CASE Select(t)
    BY <2>1, <2>2 DEF Select, Fails, Goes, BootInv, Whole
  <2>3. CASE WriteChunk(t) \/ ReadFails(t)
    <3>1. slot[t] # running /\ UNCHANGED <<boot, running>>
      BY <2>3 DEF WriteChunk, ReadFails, Goes, Fails, WriteInv, WritesApart
    <3>2. flash'[running] = flash[running]
      BY <2>3, <3>1 DEF WriteChunk, ReadFails, DeviceType
    <3>3. status' # "success"
      BY <2>3 DEF WriteChunk, ReadFails, Fails
    <3> QED
      BY <2>1, <3>1, <3>2, <3>3 DEF BootInv, Whole
  <2>4. CASE EndTask(t)
    BY <2>1, <2>4 DEF EndTask, BootInv, Whole, deviceVars, reportVars
  <2>5. CASE \/ StartTask(t) \/ Open(t) \/ Begin(t) \/ AllocateBuffer(t)
              \/ EndOfData(t) \/ Validate(t)
    BY <2>1, <2>5 DEF StartTask, Open, Begin, AllocateBuffer, BufferAllocated,
                      EndOfData, Validate, Fails, BootInv, Whole, deviceVars,
                      reportVars
  <2> QED
    BY <2>2, <2>3, <2>4, <2>5 DEF Update
<1>4. StatusInv'
  BY DEF StatusInv, FlagInv, Update, StartTask, Open, Begin, AllocateBuffer, BufferAllocated, WriteChunk, ReadFails,
         EndOfData, Validate, Select, EndTask, Goes, Fails, LocalsVanish,
         callVars, reportVars
<1> QED
  BY <1>1, <1>2, <1>3, <1>4 DEF FlashInv

LEMMA Inductive ==
    ASSUME Callers = {"httpd"}, IInv, [Next]_vars
    PROVE  IInv'
<1>0. BaseInv'
  BY BaseStep DEF IInv
<1>1. CASE UNCHANGED vars
  BY <1>0, <1>1
  DEF vars, deviceVars, reportVars, callVars, taskVars, IInv, FlashInv, FlagInv,
      WriteInv, WritesApart, BootInv, StatusInv, Whole
<1>2. CASE \E c \in Callers : Call(c)
  BY <1>0, <1>2, CallPreserves DEF IInv
<1>3. CASE Httpd \/ IntervalPasses
  BY <1>0, <1>3, HttpdPreserves DEF IInv
<1>4. CASE \E t \in Task : Update(t)
  BY <1>0, <1>4, UpdatePreserves DEF IInv
<1>5. CASE PowerFailure \/ \E t \in Task : Restart(t)
  BY <1>0, <1>5, RebootPreserves DEF IInv, PowerFailure, Restart
<1> QED
  BY <1>1, <1>2, <1>3, <1>4, <1>5 DEF Next

LEMMA Initial ==
    ASSUME Callers = {"httpd"}, Init PROVE IInv
<1> USE OtaAssumption DEF Init
<1>1. BootInv
  BY DEF BootInv, Whole
<1>2. FlagInv /\ WriteInv /\ StatusInv
  BY DEF FlagInv, WriteInv, WritesApart, StatusInv
<1> QED
  BY <1>1, <1>2, BaseInit DEF IInv, FlashInv

LEMMA Invariance ==
    ASSUME Callers = {"httpd"} PROVE Spec => []IInv
<1>1. Init => IInv
  BY Initial
<1>2. IInv /\ [Next]_vars => IInv'
  BY Inductive
<1> QED
  BY <1>1, <1>2, PTL DEF Spec

-----------------------------------------------------------------------------
(* The device can always boot a complete, validated image, wherever an     *)
(* update is interrupted and whatever the server sends.                    *)
THEOREM AlwaysBootable ==
    ASSUME Callers = {"httpd"} PROVE Spec => []BootImageWhole
<1>1. IInv => BootImageWhole
  BY DEF IInv, BaseInv, FlashInv, BootInv, BootImageWhole
<1> QED
  BY <1>1, Invariance, PTL

(* The HTTP route alone never runs two updates at once.                    *)
THEOREM SingleUpdate ==
    ASSUME Callers = {"httpd"} PROVE Spec => []OneUpdateAtATime
<1>1. IInv => OneUpdateAtATime
  BY DEF IInv, BaseInv, FlashInv, FlagInv, OneUpdateAtATime, Active
<1> QED
  BY <1>1, Invariance, PTL

(* No task is at work while the flag says that no update is in progress.   *)
THEOREM FlagIsTruthful ==
    ASSUME Callers = {"httpd"} PROVE Spec => []FlagCoversUpdate
<1>1. IInv => FlagCoversUpdate
  BY DEF IInv, BaseInv, FlashInv, FlagInv, FlagCoversUpdate, Active
<1> QED
  BY <1>1, Invariance, PTL

(* Success is reported only for an image that the next boot will run.      *)
THEOREM SuccessIsReal ==
    ASSUME Callers = {"httpd"} PROVE Spec => []SuccessMeansInstalled
<1>1. IInv => SuccessMeansInstalled
  BY DEF IInv, BaseInv, FlashInv, BootInv, WriteInv, WritesApart, SuccessMeansInstalled, Active
<1> QED
  BY <1>1, Invariance, PTL

(* The message of a stage is replaced before the update is over.           *)
THEOREM FailureIsReported ==
    ASSUME Callers = {"httpd"} PROVE Spec => []EndIsReported
<1>1. IInv => EndIsReported
  BY DEF IInv, BaseInv, FlashInv, StatusInv, EndIsReported
<1> QED
  BY <1>1, Invariance, PTL

-----------------------------------------------------------------------------
(* The update implements the abstract installation: only selecting the     *)
(* partition and booting change what the user sees.                        *)
THEOREM ImplementsInstall ==
    ASSUME Callers = {"httpd"} PROVE Spec => InstallsWhole
<1>1. Init => Install!Init
  <2> SUFFICES ASSUME Init PROVE Install!Init
    OBVIOUS
  <2>1. IInv
    BY Initial
  <2>2. boot = running
    BY DEF Init
  <2> QED
    BY <2>1, <2>2 DEF IInv, BaseInv, FlashInv, BootInv, Whole, Install!Init, ImageAt
<1>2. IInv /\ [Next]_vars => [Install!Next]_<<ImageAt(boot), ImageAt(running)>>
  <2> SUFFICES ASSUME IInv, [Next]_vars
               PROVE  [Install!Next]_<<ImageAt(boot), ImageAt(running)>>
    OBVIOUS
  <2> USE DEF Install!Next, Install!Put, Install!Boot
  <2>1. IInv'
    BY Inductive
  <2>2. CASE \E t \in Task : Select(t)
    <3> PICK t \in Task : Select(t)
      BY <2>2
    <3>1. CASE UNCHANGED boot
      BY <3>1 DEF Select, Fails, ImageAt, Whole
    <3>2. CASE boot' = slot[t] /\ UNCHANGED <<flash, running>>
      <4>1. boot = running
        BY DEF Select, Goes, Fails, IInv, BaseInv, FlashInv, BootInv, FlagInv
      <4> QED
        BY <2>1, <3>2, <4>1 DEF ImageAt, Whole, IInv, BaseInv, FlashInv, BootInv
    <3> QED
      BY <3>1, <3>2 DEF Select, Fails
  <2>3. CASE Reboot
    BY <2>3 DEF Reboot, ImageAt, Whole, IInv, BaseInv, FlashInv, BootInv
  <2>4. CASE UNCHANGED <<boot, running>> /\ flash'[boot] = flash[boot]
             /\ flash'[running] = flash[running]
    BY <2>4 DEF ImageAt, Whole
  <2>5. ASSUME NEW t \in Task, WriteChunk(t) \/ ReadFails(t)
        PROVE  /\ UNCHANGED <<boot, running>> /\ flash'[boot] = flash[boot]
               /\ flash'[running] = flash[running]
    <3>1. boot = running /\ slot[t] # running
      BY <2>5 DEF WriteChunk, ReadFails, Goes, Fails, IInv, BaseInv, FlashInv, BootInv, FlagInv,
                  WriteInv, WritesApart
    <3> QED
      BY <2>5, <3>1 DEF WriteChunk, ReadFails, Fails, IInv, BaseInv, FlashInv, TypeOK, DeviceType
  <2>6. CASE UNCHANGED deviceVars
    BY <2>4, <2>6 DEF deviceVars
  <2> QED
    BY <2>2, <2>3, <2>4, <2>5, <2>6
       DEF Next, Call, TestFlag, Claim, CopyUrl, CreateTask, CreateTaskFails, Httpd,
           RefuseRequest, AnnounceProgress, AnnounceStatus, ServePoll,
           IntervalPasses, Update, StartTask, Open, Begin, AllocateBuffer,
           BufferAllocated, EndOfData, Validate, EndTask, Fails, Restart, PowerFailure, vars, deviceVars
<1> QED
  BY <1>1, <1>2, Invariance, PTL DEF Spec, InstallsWhole, Install!Spec
=============================================================================
