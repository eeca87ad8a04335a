---------------------------- MODULE Worker_proofs ----------------------------
(***************************************************************************)
(* Proofs that the safety properties of Worker hold for every workflow,    *)
(* every schedule of it and any number of runs, and that a result found on *)
(* the DHT is never used.                                                  *)
(***************************************************************************)
EXTENDS Worker, FiniteSetTheorems, SequenceTheorems, TLAPS

-----------------------------------------------------------------------------
(* The inductive invariant *)

\* The result v of c is on record, or is about to be: the worker has written
\* it to the linkmap and not yet committed its receipt.
Known(c, v)    == v = Blob \/ ReceiptOf(c, v) \in receipts
InFlight(c, v) == pc = "commit" /\ cur = c /\ out[c] = v
Sound(c, v)    == v \in Value /\ (Known(c, v) \/ InFlight(c, v))

\* As long as the run is not abandoned, what is in the linkmap is sound; after
\* a failed commit it is not, but by then every task is aborted.
LinkmapSound ==
    pc # "idle" => \A c \in Cid : linkmap[c] # None => Sound(c, linkmap[c])

\* What a task that may still deliver was resolved to is sound.
ArgsSound ==
    \A t \in Task : task[t] \in {"live", "finished"} =>
        \A c \in Deps[t] : dep[t][c] = "ok" => Sound(c, arg[t][c])

FinishedReady ==
    \A t \in Task : task[t] = "finished" =>
        out[t] \in Out /\ \A c \in Deps[t] : dep[t][c] = "ok"

\* The joined task is no longer running, so its result and arguments are fixed.
JoinedFixed ==
    pc \in {"write", "commit", "notify"} => task[cur] = "none" /\ out[cur] \in Out

JoinedKnown ==
    pc \in {"write", "commit"} =>
        \A c \in Deps[cur] : arg[cur][c] \in Value /\ Known(c, arg[cur][c])

NotifiedLinked == pc = "notify" => ReceiptOf(cur, out[cur]) \in links

PendingStored == pending \subseteq receipts

\* The loops over the nodes of a batch leave the index at the start.
NodeReset == pc \notin {"idle", "push", "spawn"} => node = 1

\* The batches run so far are receipted, and so is every task of the current
\* one that was spawned and is no longer on its way.
Receipted(t) == \E r \in receipts : r.instruction = t
OnItsWay(t)  == \/ task[t] \in {"live", "finished", "failed"}
                \/ pc \in {"write", "commit"} /\ t = cur

Active == {"spawn", "join", "write", "commit", "notify"}

BatchesDone ==
    pc \in Active /\ clean =>
        \A b \in (resume + 1)..(batch - 1) : \A t \in BatchTasks(b) : Receipted(t)

BatchCovered ==
    pc \in Active /\ clean =>
        \A i \in 1..Len(Schedule[batch]) : (pc = "spawn" => i < node) =>
            OnItsWay(Schedule[batch][i]) \/ Receipted(Schedule[batch][i])

IInv ==
    /\ TypeOK /\ IsFiniteSet(links)
    /\ BatchBarrier
    /\ LinkmapSound /\ ArgsSound /\ FinishedReady
    /\ JoinedFixed /\ JoinedKnown /\ NotifiedLinked
    /\ PendingStored /\ NodeReset
    /\ BatchesDone /\ BatchCovered
    /\ CapturedStored /\ InputsReceipted /\ CleanRunComplete

-----------------------------------------------------------------------------
(* Lemmas on the operators of the scan *)

\* The batches of a schedule are non-empty sequences of tasks.
LEMMA ScheduleType ==
    ASSUME NEW b \in 1..Len(Schedule)
    PROVE  /\ Schedule[b] \in Seq(Task)
           /\ Len(Schedule[b]) \in Nat \ {0}
           /\ \A i \in 1..Len(Schedule[b]) : Schedule[b][i] \in Task
           /\ BatchTasks(b) \subseteq Task
           /\ BatchTasks(b) = {Schedule[b][i] : i \in 1..Len(Schedule[b])}
<1>1. Schedule[b] \in Seq(Task) /\ Len(Schedule[b]) > 0
  BY SchedulerAssumption
<1>2. Len(Schedule[b]) \in Nat \ {0} /\ DOMAIN Schedule[b] = 1..Len(Schedule[b])
  BY <1>1
<1>3. \A i \in 1..Len(Schedule[b]) : Schedule[b][i] \in Task
  BY <1>1
<1>4. BatchTasks(b) = {Schedule[b][i] : i \in 1..Len(Schedule[b])}
  BY Zenon, <1>2 DEF BatchTasks, Range
<1> QED BY <1>1, <1>2, <1>3, <1>4

\* The indices into the schedule, which the steps below move.
LEMMA Indices ==
    ASSUME TypeOK
    PROVE  /\ Len(Schedule) \in Nat \ {0}
           /\ batch \in 1..Len(Schedule)
           /\ node \in Nat \ {0}
           /\ resume \in 0..Len(Schedule)
           /\ pc \in {"push", "spawn"} => node <= Len(Schedule[batch])
<1>1. Len(Schedule) \in Nat \ {0}
  BY SchedulerAssumption
<1> QED BY Zenon, <1>1 DEF TypeOK, SchedTypeOK

\* The loop over the nodes of a batch stays inside the batch.
LEMMA NodeForward ==
    ASSUME TypeOK, NextNode
    PROVE  node' \in Nat \ {0} /\ (pc' = "spawn" => node' <= Len(Schedule[batch]))
<1>1. \/ node < Len(Schedule[batch]) /\ node' = node + 1
      \/ node' = 1 /\ pc' = "join"
  BY Zenon DEF NextNode
<1>2. Len(Schedule[batch]) \in Nat
  BY Indices, ScheduleType
<1> QED BY <1>1, <1>2, Indices

\* The scan goes back by one batch, or ends.
LEMMA ScanBack ==
    ASSUME TypeOK, NextScan
    PROVE  /\ batch' \in 1..Len(Schedule)
           /\ 1 <= Len(Schedule[batch'])
           /\ pc' \in {"push", "fetch"}
<1>1. (batch > 1 /\ batch' = batch - 1) \/ batch' = batch
  BY Zenon DEF NextScan
<1>2. batch' \in 1..Len(Schedule)
  BY <1>1, Indices
<1>3. 1 <= Len(Schedule[batch'])
  BY <1>2, ScheduleType
<1>4. pc' \in {"push", "fetch"}
  BY Zenon DEF NextScan
<1> QED BY <1>2, <1>3, <1>4

\* PushResources appends entries only.
LEMMA PushType ==
    ASSUME NEW s \in Seq(Entry), NEW t \in Task
    PROVE  s \o [i \in 1..Len(Rsc[t]) |-> [cid |-> t, rsc |-> Rsc[t][i]]] \in Seq(Entry)
<1> DEFINE es == [i \in 1..Len(Rsc[t]) |-> [cid |-> t, rsc |-> Rsc[t][i]]]
<1>1. Rsc[t] \in Seq(Range(Rsc[t])) /\ Len(Rsc[t]) \in Nat
  BY SchedulerAssumption
<1>2. \A i \in 1..Len(Rsc[t]) : Rsc[t][i] \in Resource
  BY <1>1 DEF Resource
<1>3. es \in [1..Len(Rsc[t]) -> Entry]
  BY <1>2 DEF Entry
<1>4. es \in Seq(Entry)
  <2>1. ASSUME NEW n \in Nat, NEW S, NEW f \in [1..n -> S] PROVE f \in Seq(S)
    BY Zenon, SeqDef
  <2> HIDE DEF es
  <2> QED BY Zenon, <1>1, <1>3, <2>1
<1>5. ASSUME NEW e \in Seq(Entry) PROVE s \o e \in Seq(Entry)
  OBVIOUS
<1> QED BY Zenon, <1>4, <1>5

\* Dropping the first resource of an instruction leaves a list of entries,
\* wherever the swap_remove of scheduler.rs:137 takes place.
LEMMA DropFirstType ==
    ASSUME NEW s \in Seq(Entry), NEW c
    PROVE  DropFirst(s, c) \in Seq(Entry)
<1> DEFINE Pos == {i \in DOMAIN s : s[i].cid = c}
<1>1. CASE Pos = {}
  BY <1>1 DEF DropFirst
<1>2. CASE Pos # {}
  <2>1. Len(s) \in Nat \ {0}
    BY <1>2
  <2>2. \A i : SwapRemove(s, i) \in [1..(Len(s) - 1) -> Entry]
    BY <2>1 DEF SwapRemove
  <2>3. \A i : SwapRemove(s, i) \in Seq(Entry)
    BY <2>1, <2>2
  <2> QED BY <1>2, <2>3 DEF DropFirst
<1> QED BY <1>1, <1>2

\* An update at one pair of indices leaves the others alone.
LEMMA ElsewhereSame ==
    ASSUME NEW A, NEW B, NEW S, NEW f \in [A -> [B -> S]], NEW x,
           NEW u \in A, NEW d \in B, NEW t \in A, NEW c \in B, ~(t = u /\ c = d)
    PROVE  [f EXCEPT ![u][d] = x][t][c] = f[t][c]
<1>1. CASE t = u
  BY <1>1
<1>2. CASE t # u
  BY <1>2
<1> QED BY <1>1, <1>2

-----------------------------------------------------------------------------
(* The steps of Next, one by one *)

\* A step is one of the actions: the case split of every proof below.
LEMMA NextCases ==
    ASSUME Next
    PROVE  \/ Start
           \/ Scan /\ UNCHANGED <<dbVars, runVars, taskVars, runs, histVars>>
           \/ FetchResources \/ FetchFails
           \/ SpawnTask \/ SkipTask \/ ResourceMissing
           \/ \E t \in Task : JoinTask(t)
           \/ \E t \in Task : JoinFails(t)
           \/ JoinEmpty
           \/ CommitReceipt \/ CommitFails
           \/ NotifyCaptured \/ Finish
           \/ \E t \in Task : \E d \in Deps[t] : ResolveCid(t, d)
           \/ \E t \in Task : \E d \in Deps[t] : ResolveTimeout(t, d)
           \/ \E t \in Task : \E o \in Out : RunTask(t, o)
           \/ \E t \in Task : FailTask(t)
           \/ \E t \in Task : CancelTask(t)
           \/ \E t \in Task : DropTask(t)
           \/ \E w \in Writers : WriteLinkmap(w)
           \/ \E t \in Task : \E d \in Deps[t], r \in NetReceipts : ResolveFound(t, d, r)
           \/ \E r \in Imports : ImportReceipt(r)
           \/ AbortWorker \/ Crash
BY DEF Next, WorkerStep, ScanSchedule, TaskStep, LinkmapStep, NetAnswer

\* resolve_cid holds its read guard while it waits for the write guard, so only
\* the worker's write is ever granted.
LEMMA OnlyWorkerWrites ==
    ASSUME NEW w \in Writers, WriteLinkmap(w)
    PROVE  /\ pc = "write" /\ w = [by |-> None, key |-> cur, val |-> out[cur]]
           /\ pc' = "commit" /\ linkmap' = [linkmap EXCEPT ![cur] = out[cur]]
           /\ UNCHANGED <<cur, task, dep, arg, out>>
<1>1. pc = "write" /\ w = [by |-> None, key |-> cur, val |-> out[cur]]
  BY DEF Writers, WriteLinkmap
<1> QED BY <1>1 DEF WriteLinkmap

\* Every step keeps the types (TypeOK needs the rest of the invariant: the
\* arguments of an execution are results only because they were resolved).
LEMMA TypeStep ==
    ASSUME IInv, Next
    PROVE  TypeOK'
<1> USE DEF dbVars, schedVars, runVars, taskVars, histVars
<1>0. TypeOK /\ IsFiniteSet(links) /\ NodeReset
  BY DEF IInv
<1>a. Len(Schedule) \in Nat \ {0}
  BY SchedulerAssumption
<1>1. CASE Start
  <2>1. progress_count' \in Nat
    BY <1>0, <1>1, FS_CardinalityType DEF Start, get_workflow_info
  <2>2. DbTypeOK' /\ SchedTypeOK'
    BY <1>0, <1>1, <1>a DEF Start, TypeOK, DbTypeOK, SchedTypeOK, EmptyMap
  <2>3. dep' \in [Task -> [Cid -> DepState]] /\ arg' \in [Task -> [Cid -> Value \union {None}]]
    BY <1>1 DEF Start, NoDeps, NoArgs, Todo, EmptyMap, DepState
  <2>4. out' \in [Task -> Out \union {None}] /\ replay' \subseteq Task /\ cur' \in Task \union {None}
    BY <1>1 DEF Start, NoOuts
  <2>5. runs' \in 0..MaxRuns
    BY <1>0, <1>1, WorkerAssumption DEF Start, TypeOK
  <2>6. node' <= Len(Schedule[batch'])
    BY <1>1, <1>a, ScheduleType DEF Start
  <2> QED
    BY <1>0, <1>1, <2>1, <2>2, <2>3, <2>4, <2>5, <2>6 DEF Start, TypeOK, Control
<1>2. CASE Scan /\ UNCHANGED <<dbVars, runVars, taskVars, runs, histVars>>
  <2>0. DbTypeOK' /\ (pc' \in {"write", "commit", "notify"} => cur' \in Task)
    BY Zenon, <1>0, <1>2 DEF TypeOK, DbTypeOK, Scan, PushResources, QueryReceipts, QueryFails, FoldReceipt,
       FoldEnd, NextScan
  <2>1. CASE PushResources
    <3>a. batch \in 1..Len(Schedule) /\ node \in Nat \ {0} /\ node <= Len(Schedule[batch])
      BY Zenon, <1>0, <2>1, Indices DEF PushResources
    <3>1. Schedule[batch][node] \in Task
      BY <3>a, ScheduleType
    <3>2. toFetch' \in Seq(Entry)
      <4>1. toFetch \in Seq(Entry)
        BY Zenon, <1>0 DEF TypeOK, SchedTypeOK
      <4> QED BY Zenon, <2>1, <3>1, <4>1, PushType DEF PushResources
    <3>3. \/ node < Len(Schedule[batch]) /\ node' = node + 1 /\ pc' = "push"
          \/ node' = 1 /\ pc' = "query"
      BY Zenon, <2>1 DEF PushResources
    <3>4. node' \in Nat \ {0} /\ (pc' = "push" => node' <= Len(Schedule[batch]))
      BY <3>a, <3>3, ScheduleType
    <3>5. pc' \in Control /\ pc' # "spawn"
      BY Zenon, <3>3 DEF Control
    <3> QED
      BY Zenon, <1>0, <1>2, <2>0, <2>1, <3>2, <3>4, <3>5 DEF PushResources, TypeOK, SchedTypeOK
  <2>2. CASE QueryReceipts
    BY <1>0, <1>2, <2>0, <2>2 DEF QueryReceipts, find_instruction_pointers, TypeOK, DbTypeOK,
       SchedTypeOK, Control
  <2>3. CASE QueryFails
    <3>1. node = 1 /\ node' = node /\ NextScan
      BY Zenon, <1>0, <2>3 DEF QueryFails, NodeReset
    <3>2. pc' \in Control /\ pc' # "spawn"
      BY Zenon, <1>0, <3>1, ScanBack DEF Control
    <3> QED
      BY Zenon, <1>0, <1>2, <2>0, <2>3, <3>1, <3>2, ScanBack DEF QueryFails, TypeOK, SchedTypeOK
  <2>4. CASE \E r \in pending : FoldReceipt(r)
    BY <1>0, <1>2, <2>0, <2>4, DropFirstType DEF FoldReceipt, TypeOK, SchedTypeOK, Receipt, Control
  <2>5. CASE FoldEnd
    <3>1. node = 1 /\ node' = node
      BY Zenon, <1>0, <2>5 DEF FoldEnd, NodeReset
    <3>2. \/ resume' = batch /\ pc' = "fetch" /\ UNCHANGED <<batch, linkmap>>
          \/ NextScan /\ linkmap' = EmptyMap /\ UNCHANGED resume
      BY Zenon, <2>5 DEF FoldEnd
    <3>3. batch' \in 1..Len(Schedule) /\ resume' \in 0..Len(Schedule)
      BY <1>0, <3>2, Indices, ScanBack
    <3>4. pc' \in Control /\ pc' # "spawn" /\ (pc' = "push" => 1 <= Len(Schedule[batch']))
      BY Zenon, <1>0, <3>2, ScanBack DEF Control
    <3>5. linkmap' \in [Cid -> Out \union {None}]
      BY <1>0, <3>2 DEF TypeOK, SchedTypeOK, EmptyMap
    <3> QED
      BY Zenon, <1>0, <1>2, <2>0, <2>5, <3>1, <3>3, <3>4, <3>5 DEF FoldEnd, TypeOK, SchedTypeOK
  <2> QED
    BY <1>2, <2>1, <2>2, <2>3, <2>4, <2>5 DEF Scan
<1>3. CASE FetchResources
  <2>1. resources' \subseteq Resource
    <3>1. \A i \in DOMAIN toFetch : toFetch[i] \in Entry
      BY <1>0 DEF TypeOK, SchedTypeOK
    <3> QED BY <1>3, <3>1 DEF FetchResources, Entry
  <2>2. replay' \subseteq Task
    BY <1>0, <1>3, <1>a, ScheduleType DEF FetchResources, RanTasks, TypeOK, SchedTypeOK
  <2>3. \/ resume = Len(Schedule) /\ pc' = "done" /\ batch' = batch
        \/ resume # Len(Schedule) /\ pc' = "spawn" /\ batch' = resume + 1
    BY Zenon, <1>3 DEF FetchResources
  <2>4. batch' \in 1..Len(Schedule)
    BY <1>0, <2>3, Indices
  <2>5. node' = 1 /\ node' \in Nat \ {0} /\ node' <= Len(Schedule[batch'])
    BY <1>3, <2>4, ScheduleType DEF FetchResources
  <2>6. pc' \in Control /\ pc' \notin {"write", "commit", "notify"}
    BY Zenon, <2>3 DEF Control
  <2>7. toFetch' \in Seq(Entry) /\ found' \subseteq Receipt /\ pending' \subseteq Receipt
    BY <1>3 DEF FetchResources
  <2> QED
    BY Zenon, <1>0, <1>3, <2>1, <2>2, <2>4, <2>5, <2>6, <2>7
    DEF FetchResources, TypeOK, DbTypeOK, SchedTypeOK
<1>4. CASE FetchFails \/ ResourceMissing \/ CommitFails \/ Finish \/ AbortWorker
  BY Zenon, <1>0, <1>4 DEF FetchFails, ResourceMissing, CommitFails, Finish, AbortWorker, Stop,
     AbortTasks, TypeOK, DbTypeOK, SchedTypeOK, TaskState, Control
<1>5. CASE SpawnTask
  <2>0. pc = "spawn" /\ NextNode
    BY Zenon, <1>5 DEF SpawnTask
  <2>1. Schedule[batch][node] \in Task
    BY <1>0, <2>0, Indices, ScheduleType
  <2>2. /\ task' \in [Task -> TaskState]
        /\ dep' \in [Task -> [Cid -> DepState]]
        /\ arg' \in [Task -> [Cid -> Value \union {None}]]
        /\ out' \in [Task -> Out \union {None}]
    BY <1>0, <1>5, <2>1 DEF SpawnTask, TypeOK, TaskState, DepState, EmptyMap
  <2>3. node' \in Nat \ {0} /\ (pc' = "spawn" => node' <= Len(Schedule[batch]))
    BY <1>0, <2>0, NodeForward
  <2> QED
    BY Zenon, <1>0, <1>5, <2>2, <2>3 DEF SpawnTask, NextNode, TypeOK, DbTypeOK, SchedTypeOK, Control
<1>6. CASE SkipTask
  <2>1. node' \in Nat \ {0} /\ (pc' = "spawn" => node' <= Len(Schedule[batch]))
    BY Zenon, <1>0, <1>6, NodeForward DEF SkipTask
  <2> QED
    BY Zenon, <1>0, <1>6, <2>1 DEF SkipTask, NextNode, TypeOK, DbTypeOK, SchedTypeOK, Control
<1>7. CASE \E t \in Task : JoinTask(t)
  BY <1>0, <1>7 DEF JoinTask, TypeOK, DbTypeOK, SchedTypeOK, TaskState, Control
<1>8. CASE (\E t \in Task : JoinFails(t)) \/ JoinEmpty
  <2>1. batch' \in 1..Len(Schedule) /\ node' = 1 /\ node' <= Len(Schedule[batch'])
    BY <1>0, <1>8, ScheduleType DEF JoinFails, JoinEmpty, NextBatch, NodeReset, TypeOK, SchedTypeOK
  <2> QED
    BY Zenon, <1>0, <1>8, <2>1 DEF JoinFails, JoinEmpty, NextBatch, AbortTasks, TypeOK, DbTypeOK,
       SchedTypeOK, TaskState, Control
<1>10. CASE CommitReceipt
  <2>1. ReceiptOf(cur, out[cur]) \in Receipt
    BY <1>0, <1>10, SchedulerAssumption DEF IInv, JoinedFixed, CommitReceipt, TypeOK, ReceiptOf, Receipt
  <2>2. [d \in Deps[cur] |-> arg[cur][d]] \in [Deps[cur] -> Value]
    BY <1>10 DEF IInv, JoinedKnown, CommitReceipt
  <2>3. executed' \subseteq Execution
    BY <1>0, <1>10, <2>2 DEF IInv, JoinedFixed, CommitReceipt, TypeOK, Execution
  <2> QED
    BY Zenon, <1>0, <1>10, <2>1, <2>3 DEF CommitReceipt, commit_receipt, TypeOK, DbTypeOK, SchedTypeOK, Control
<1>11. CASE NotifyCaptured
  BY Zenon, <1>0, <1>11 DEF IInv, NotifiedLinked, NotifyCaptured, TypeOK, DbTypeOK, SchedTypeOK, Control
<1>12. CASE \E t \in Task : \E d \in Deps[t] : ResolveCid(t, d)
  <2>1. PICK t \in Task : \E d \in Deps[t] : ResolveCid(t, d)
    BY <1>12
  <2>2. PICK d \in Deps[t] : ResolveCid(t, d)
    BY <2>1
  <2>a. d \in Cid
    BY WorkerAssumption
  <2>3. dep' \in [Task -> [Cid -> DepState]] /\ arg' \in [Task -> [Cid -> Value \union {None}]]
    <3>1. CASE \E v \in Value : Resolved(t, d, v)
      BY <1>0, <2>a, <3>1 DEF Resolved, TypeOK, DepState
    <3>2. CASE dep' = [dep EXCEPT ![t][d] = "wait"] /\ UNCHANGED arg
      BY <1>0, <2>a, <3>2 DEF TypeOK, DepState
    <3>3. \A r \in find_instruction_by_cid(d) : r.out \in Value
      BY <1>0 DEF find_instruction_by_cid, TypeOK, DbTypeOK, Receipt, Value
    <3>4. linkmap[d] # None => linkmap[d] \in Value
      BY <1>0, <2>a DEF TypeOK, SchedTypeOK, Value
    <3>5. Blob \in Value
      BY DEF Value
    <3> QED BY <2>2, <3>1, <3>2, <3>3, <3>4, <3>5 DEF ResolveCid
  <2> QED
    BY Zenon, <1>0, <2>2, <2>3 DEF ResolveCid, TypeOK, DbTypeOK, SchedTypeOK
<1>13. CASE \E t \in Task : \E d \in Deps[t] : ResolveTimeout(t, d)
  BY <1>0, <1>13, WorkerAssumption DEF ResolveTimeout, TypeOK, DbTypeOK, SchedTypeOK, DepState
<1>14. CASE \E t \in Task : \E o \in Out : RunTask(t, o)
  <2>1. task' \in [Task -> TaskState]
    <3>1. \E t \in Task : task' = [task EXCEPT ![t] = "finished"]
      BY Zenon, <1>14 DEF RunTask
    <3> QED BY <1>0, <3>1 DEF TypeOK, TaskState
  <2>2. out' \in [Task -> Out \union {None}]
    <3>1. \E t \in Task, o \in Out : out' = [out EXCEPT ![t] = o]
      BY Zenon, <1>14 DEF RunTask
    <3> QED BY <1>0, <3>1 DEF TypeOK
  <2> QED
    BY Zenon, <1>0, <1>14, <2>1, <2>2 DEF RunTask, TypeOK, DbTypeOK, SchedTypeOK
<1>15. CASE \E t \in Task : FailTask(t) \/ CancelTask(t) \/ DropTask(t)
  BY ZenonT(60), <1>0, <1>15 DEF FailTask, CancelTask, DropTask, TypeOK, DbTypeOK, SchedTypeOK, TaskState
<1>16. CASE \E w \in Writers : WriteLinkmap(w)
  <2>1. PICK w \in Writers : WriteLinkmap(w)
    BY <1>16
  <2>2. pc = "write" /\ w = [by |-> None, key |-> cur, val |-> out[cur]]
    BY <2>1, OnlyWorkerWrites
  <2>3. linkmap' \in [Cid -> Out \union {None}]
    BY Zenon, <1>0, <2>1, <2>2 DEF WriteLinkmap, TypeOK, SchedTypeOK
  <2>4. progress_count' \in Nat
    <3>1. progress_count' \in {progress_count, ResumeStep}
      BY Zenon, <2>1, <2>2 DEF WriteLinkmap
    <3>2. ResumeStep # None => ResumeStep \in Nat
      BY <1>0 DEF ResumeStep, TypeOK, SchedTypeOK
    <3>3. progress_count' = ResumeStep => ResumeStep # None \/ progress_count' = progress_count
      BY Zenon, <2>1, <2>2 DEF WriteLinkmap
    <3> QED BY Zenon, <1>0, <3>1, <3>2, <3>3 DEF TypeOK, SchedTypeOK
  <2> QED
    BY <1>0, <2>1, <2>2, <2>3, <2>4 DEF WriteLinkmap, TypeOK, DbTypeOK, SchedTypeOK, Control
<1>17. CASE \E t \in Task : \E d \in Deps[t], r \in NetReceipts : ResolveFound(t, d, r)
  <2>a. PICK t \in Task : \E d \in Deps[t], r \in NetReceipts : ResolveFound(t, d, r)
    BY <1>17
  <2>1. PICK d \in Deps[t], r \in NetReceipts : ResolveFound(t, d, r)
    BY <2>a
  <2>2. d \in Cid /\ r \in Receipt
    BY WorkerAssumption
  <2>3. dep' \in [Task -> [Cid -> DepState]] /\ arg' \in [Task -> [Cid -> Value \union {None}]]
    BY <1>0, <2>1, <2>2 DEF ResolveFound, TypeOK, Receipt, DepState, Value
  <2>4. DbTypeOK'
    BY Zenon, <1>0, <2>1, <2>2 DEF ResolveFound, commit_receipt, TypeOK, DbTypeOK
  <2> QED
    BY Zenon, <1>0, <2>1, <2>3, <2>4 DEF ResolveFound, TypeOK, SchedTypeOK
<1>18. CASE \E r \in Imports : ImportReceipt(r)
  BY Zenon, <1>0, <1>18, WorkerAssumption DEF ImportReceipt, store_receipt, TypeOK, DbTypeOK, SchedTypeOK
<1>19. CASE Crash
  BY <1>0, <1>19 DEF Crash, TypeOK, DbTypeOK, SchedTypeOK, TaskState, Control
<1> QED
  BY NextCases, <1>1, <1>2, <1>3, <1>4, <1>5, <1>6, <1>7, <1>8, <1>10, <1>11, <1>12,
     <1>13, <1>14, <1>15, <1>16, <1>17, <1>18, <1>19
-----------------------------------------------------------------------------
(* The store *)

\* The steps that do not write to the database, and those that do.
LEMMA StoreCases ==
    ASSUME Next
    PROVE  \/ UNCHANGED dbVars
           \/ CommitReceipt
           \/ \E r \in NetReceipts : commit_receipt(r) /\ UNCHANGED <<pc, pending, captured, cur, out>>
           \/ \E r \in Imports : ImportReceipt(r)
BY Zenon, NextCases DEF Start, FetchResources, FetchFails, SpawnTask, SkipTask, ResourceMissing, JoinTask,
   JoinFails, JoinEmpty, CommitFails, NotifyCaptured, Finish, ResolveCid, ResolveTimeout, RunTask,
   FailTask, CancelTask, DropTask, WriteLinkmap, ResolveFound, AbortWorker, Crash, schedVars,
   runVars, taskVars, histVars

\* Nothing is ever removed from the database.
LEMMA StoreGrows ==
    ASSUME Next
    PROVE  receipts \subseteq receipts' /\ links \subseteq links'
BY StoreCases DEF dbVars, CommitReceipt, commit_receipt, ImportReceipt, store_receipt

\* The receipts linked to the workflow stay finite, so they can be counted.
LEMMA FiniteStep ==
    ASSUME IInv, Next
    PROVE  IsFiniteSet(links)'
<1>1. IsFiniteSet(links) BY DEF IInv
<1>2. links' = links \/ \E r : links' = links \union {r}
  BY Zenon, StoreCases DEF dbVars, CommitReceipt, commit_receipt, ImportReceipt, store_receipt
<1> QED BY <1>1, <1>2, FS_AddElement

\* The index of the node is back at 1 outside of the loops over a batch.
LEMMA NodeResetStep ==
    ASSUME IInv, Next
    PROVE  NodeReset'
<1> USE DEF IInv, NodeReset, schedVars
<1>1. CASE Scan
  BY Zenon, <1>1 DEF Scan, PushResources, QueryReceipts, QueryFails, FoldReceipt, FoldEnd, NextScan
<1>2. CASE \E w \in Writers : WriteLinkmap(w)
  BY Zenon, <1>2, OnlyWorkerWrites DEF WriteLinkmap
<1>3. CASE ~Scan /\ ~\E w \in Writers : WriteLinkmap(w)
  BY Zenon, <1>3, NextCases DEF Start, FetchResources, FetchFails, SpawnTask, SkipTask, ResourceMissing,
     JoinTask, JoinFails, JoinEmpty, CommitReceipt, CommitFails, NotifyCaptured, Finish, ResolveCid,
     ResolveTimeout, RunTask, FailTask, CancelTask, DropTask, ResolveFound, ImportReceipt, AbortWorker, Crash,
     Stop, NextNode, NextBatch
<1> QED BY <1>1, <1>2, <1>3

\* Receipts still to be folded into the linkmap are stored ones.
LEMMA PendingStep ==
    ASSUME IInv, Next
    PROVE  PendingStored'
<1> USE DEF IInv, PendingStored, schedVars
<1>1. receipts \subseteq receipts' BY StoreGrows
<1>2. CASE Scan
  BY Zenon, <1>1, <1>2 DEF Scan, PushResources, QueryReceipts, QueryFails, FoldReceipt, FoldEnd,
     find_instruction_pointers
<1>3. CASE ~Scan
  <2>1. pending' \subseteq pending
    BY Zenon, <1>3, NextCases DEF Start, FetchResources, FetchFails, SpawnTask, SkipTask, ResourceMissing,
       JoinTask, JoinFails, JoinEmpty, CommitReceipt, CommitFails, NotifyCaptured, Finish, ResolveCid,
       ResolveTimeout, RunTask, FailTask, CancelTask, DropTask, WriteLinkmap, ResolveFound, ImportReceipt,
       AbortWorker, Crash
  <2> QED BY <1>1, <2>1
<1> QED BY <1>2, <1>3
-----------------------------------------------------------------------------
(* The batch is a barrier *)

\* Aborted tasks deliver nothing any more.
LEMMA AbortedTasks ==
    ASSUME AbortTasks
    PROVE  \A t \in Task : task'[t] \in {"none", "aborting"}
BY DEF AbortTasks

\* Every step keeps the barrier: the batch changes only when no task of it can
\* deliver any more.
LEMMA BarrierStep ==
    ASSUME IInv, Next
    PROVE  BatchBarrier'
<1> USE DEF schedVars, taskVars
<1>0. TypeOK /\ BatchBarrier
  BY Zenon DEF IInv
<1>1. CASE Start
  BY <1>1 DEF Start, BatchBarrier
<1>2. CASE Scan /\ UNCHANGED <<dbVars, runVars, taskVars, runs, histVars>>
  <2>1. pc \notin Active
    BY Zenon, <1>2 DEF Scan, PushResources, QueryReceipts, QueryFails, FoldReceipt, FoldEnd, Active
  <2> QED BY <1>0, <1>2, <2>1 DEF BatchBarrier, Active
<1>3. CASE FetchResources
  BY <1>0, <1>3 DEF FetchResources, BatchBarrier
<1>4. CASE FetchFails \/ ResourceMissing \/ CommitFails \/ Finish \/ AbortWorker
  BY Zenon, <1>4, AbortedTasks DEF FetchFails, ResourceMissing, CommitFails, Finish, AbortWorker, Stop,
     BatchBarrier
<1>5. CASE SpawnTask
  <2> DEFINE s == Schedule[batch][node]
  <2>1. s \in BatchTasks(batch) /\ s \in Task
    <3>1. pc = "spawn"
      BY Zenon, <1>5 DEF SpawnTask
    <3> QED BY <1>0, <3>1, Indices, ScheduleType
  <2>2. \A t \in Task : t # s => task'[t] = task[t]
    BY Zenon, <1>0, <1>5 DEF SpawnTask, TypeOK
  <2>3. pc = "spawn" /\ pc' \in {"spawn", "join"} /\ batch' = batch
    BY Zenon, <1>5 DEF SpawnTask, NextNode
  <2> HIDE DEF s
  <2> QED BY <1>0, <2>1, <2>2, <2>3 DEF BatchBarrier, BatchTasks
<1>6. CASE SkipTask
  BY Zenon, <1>0, <1>6 DEF SkipTask, NextNode, BatchBarrier, BatchTasks
<1>7. CASE \E t \in Task : JoinTask(t)
  BY <1>0, <1>7 DEF JoinTask, TypeOK, BatchBarrier, BatchTasks
<1>8. CASE (\E t \in Task : JoinFails(t)) \/ JoinEmpty
  BY <1>8, AbortedTasks DEF JoinFails, JoinEmpty, BatchBarrier
<1>9. CASE CommitReceipt \/ NotifyCaptured
  BY <1>0, <1>9 DEF CommitReceipt, NotifyCaptured, BatchBarrier, BatchTasks
<1>10. CASE \E t \in Task : \E d \in Deps[t] : ResolveCid(t, d) \/ ResolveTimeout(t, d)
  BY <1>0, <1>10 DEF ResolveCid, ResolveTimeout, BatchBarrier, BatchTasks
<1>11. CASE \E t \in Task : (\E o \in Out : RunTask(t, o)) \/ FailTask(t) \/ CancelTask(t) \/ DropTask(t)
  BY <1>0, <1>11 DEF RunTask, FailTask, CancelTask, DropTask, TypeOK, BatchBarrier, BatchTasks
<1>12. CASE \E w \in Writers : WriteLinkmap(w)
  BY <1>0, <1>12 DEF WriteLinkmap, BatchBarrier, BatchTasks
<1>13. CASE \E t \in Task : \E d \in Deps[t], r \in NetReceipts : ResolveFound(t, d, r)
  BY <1>0, <1>13 DEF ResolveFound, BatchBarrier, BatchTasks
<1>14. CASE \E r \in Imports : ImportReceipt(r)
  BY <1>0, <1>14 DEF ImportReceipt, BatchBarrier, BatchTasks
<1>15. CASE Crash
  BY <1>15 DEF Crash, BatchBarrier
<1> QED
  BY Zenon, NextCases, <1>1, <1>2, <1>3, <1>4, <1>5, <1>6, <1>7, <1>8, <1>9, <1>10, <1>11, <1>12, <1>13,
     <1>14, <1>15
-----------------------------------------------------------------------------
(* Results in memory are on record *)

\* A task finishes only with a result, and with all its arguments resolved.
LEMMA FinishedStep ==
    ASSUME IInv, Next
    PROVE  FinishedReady'
<1> USE DEF schedVars, taskVars, FinishedReady
<1>0. TypeOK /\ FinishedReady
  BY Zenon DEF IInv
<1>1. CASE Start \/ Crash
  BY <1>1 DEF Start, Crash
<1>2. CASE UNCHANGED taskVars
  BY <1>0, <1>2
<1>3. CASE AbortTasks
  BY <1>3, AbortedTasks
<1>4. CASE SpawnTask
  BY <1>0, <1>4 DEF SpawnTask, TypeOK
<1>5. CASE \E t \in Task : JoinTask(t) \/ FailTask(t) \/ CancelTask(t) \/ DropTask(t)
  <2>1. \E t \in Task : \E x : x # "finished" /\ task' = [task EXCEPT ![t] = x] /\ UNCHANGED <<dep, out>>
    BY Zenon, <1>5 DEF JoinTask, FailTask, CancelTask, DropTask
  <2> QED BY <1>0, <2>1 DEF TypeOK
<1>6. CASE \E t \in Task : \E o \in Out : RunTask(t, o)
  <2>1. PICK t \in Task, o \in Out : RunTask(t, o)
    BY Zenon, <1>6
  <2>2. \A u \in Task : u # t => task'[u] = task[u] /\ out'[u] = out[u]
    <3>1. \E x, y : task' = [task EXCEPT ![t] = x] /\ out' = [out EXCEPT ![t] = y]
      BY Zenon, <2>1 DEF RunTask
    <3>2. DOMAIN task = Task /\ DOMAIN out = Task
      BY <1>0 DEF TypeOK
    <3> QED BY <3>1, <3>2
  <2>3. out'[t] = o /\ UNCHANGED dep /\ \A d \in Deps[t] : dep[t][d] = "ok"
    <3>1. /\ out' = [out EXCEPT ![t] = o]
          /\ UNCHANGED dep /\ \A d \in Deps[t] : dep[t][d] = "ok"
      BY Zenon, <2>1 DEF RunTask
    <3>2. DOMAIN out = Task
      BY <1>0 DEF TypeOK
    <3> QED BY <3>1, <3>2
  <2> QED BY <1>0, <2>2, <2>3
<1>7. CASE \E t \in Task : \E d \in Deps[t] :
              \/ ResolveCid(t, d)
              \/ ResolveTimeout(t, d)
              \/ \E r \in NetReceipts : ResolveFound(t, d, r)
  <2>0. PICK t \in Task : \E d \in Deps[t] : \/ ResolveCid(t, d)
                                             \/ ResolveTimeout(t, d)
                                             \/ \E r \in NetReceipts : ResolveFound(t, d, r)
    BY Zenon, <1>7
  <2>1. PICK d \in Deps[t] : \/ ResolveCid(t, d)
                            \/ ResolveTimeout(t, d)
                            \/ \E r \in NetReceipts : ResolveFound(t, d, r)
    BY Zenon, <2>0
  <2>2. dep[t][d] # "ok" /\ UNCHANGED <<task, out>> /\ \E x : dep' = [dep EXCEPT ![t][d] = x]
    <3>1. CASE ResolveCid(t, d)
      BY Zenon, <3>1 DEF ResolveCid, Resolved
    <3>2. CASE ResolveTimeout(t, d)
      BY Zenon, <3>2 DEF ResolveTimeout
    <3>3. CASE \E r \in NetReceipts : ResolveFound(t, d, r)
      BY Zenon, <3>3 DEF ResolveFound
    <3> QED BY Zenon, <2>1, <3>1, <3>2, <3>3
  <2> QED BY <1>0, <2>2, WorkerAssumption DEF TypeOK
<1>8. CASE \E w \in Writers : WriteLinkmap(w)
  BY <1>2, <1>8, OnlyWorkerWrites
<1> QED
  BY Zenon, NextCases, <1>1, <1>2, <1>3, <1>4, <1>5, <1>6, <1>7, <1>8 DEF FetchResources, FetchFails,
     SkipTask, ResourceMissing, JoinFails, JoinEmpty, CommitReceipt, CommitFails, NotifyCaptured,
     Finish, ImportReceipt, AbortWorker, Stop

\* A joined task stays as it is until its receipt is announced.
LEMMA JoinedStep ==
    ASSUME IInv, Next
    PROVE  JoinedFixed' /\ NotifiedLinked'
<1> USE DEF schedVars, taskVars, runVars, JoinedFixed, NotifiedLinked
<1>0. TypeOK /\ FinishedReady /\ JoinedFixed /\ NotifiedLinked
  BY DEF IInv
<1>a. links \subseteq links'
  BY StoreGrows
<1>1. CASE pc' \notin {"write", "commit", "notify"}
  BY <1>1
<1>2. CASE \E t \in Task : JoinTask(t)
  <2>1. PICK t \in Task : JoinTask(t)
    BY <1>2
  <2>2. pc' = "write" /\ cur' = t /\ out'[t] \in Out
    BY <1>0, <2>1 DEF JoinTask, FinishedReady
  <2>3. task'[t] = "none"
    BY <1>0, <2>1 DEF JoinTask, TypeOK
  <2> QED BY <2>2, <2>3
<1>3. CASE \E w \in Writers : WriteLinkmap(w)
  BY Zenon, <1>0, <1>3, OnlyWorkerWrites
<1>4. CASE CommitReceipt
  BY Zenon, <1>0, <1>4 DEF CommitReceipt, commit_receipt
<1>5. CASE UNCHANGED <<pc, cur>> /\ UNCHANGED <<task, out>>
  BY <1>0, <1>5, <1>a
<1>6. CASE \E t \in Task : /\ task[t] \in {"live", "aborting"} /\ UNCHANGED <<pc, cur>>
                           /\ \E x : task' = [task EXCEPT ![t] = x]
                           /\ \E o : out' = [out EXCEPT ![t] = o]
  BY <1>0, <1>6, <1>a DEF TypeOK, ReceiptOf
<1>7. \A t \in Task : FailTask(t) \/ CancelTask(t) \/ DropTask(t) => out' = [out EXCEPT ![t] = out[t]]
  BY Zenon, <1>0 DEF FailTask, CancelTask, DropTask, TypeOK
<1>8. CASE pc' \in {"write", "commit", "notify"}
  <2>1. \/ \E t \in Task : JoinTask(t)
        \/ \E w \in Writers : WriteLinkmap(w)
        \/ CommitReceipt
        \/ \E t \in Task : (\E o \in Out : RunTask(t, o)) \/ FailTask(t) \/ CancelTask(t) \/ DropTask(t)
        \/ UNCHANGED <<pc, cur>> /\ UNCHANGED <<task, out>>
    BY ZenonT(60), <1>8, NextCases DEF Start, Scan, PushResources, QueryReceipts, QueryFails, FoldReceipt,
       FoldEnd, NextScan, FetchResources, FetchFails, SpawnTask, SkipTask, NextNode, ResourceMissing,
       JoinFails, JoinEmpty, NextBatch, CommitFails, NotifyCaptured, Finish, ResolveCid,
       ResolveTimeout, ResolveFound, ImportReceipt, AbortWorker, Crash, Stop
  <2>2. CASE \E t \in Task : (\E o \in Out : RunTask(t, o)) \/ FailTask(t) \/ CancelTask(t) \/ DropTask(t)
    <3>1. PICK t \in Task : (\E o \in Out : RunTask(t, o)) \/ FailTask(t) \/ CancelTask(t) \/ DropTask(t)
      BY <2>2
    <3>2. task[t] \in {"live", "aborting"} /\ UNCHANGED <<pc, cur>>
      BY Zenon, <3>1 DEF RunTask, FailTask, CancelTask, DropTask
    <3>3. \E x : task' = [task EXCEPT ![t] = x]
      BY <3>1 DEF RunTask, FailTask, CancelTask, DropTask
    <3>4. \E o : out' = [out EXCEPT ![t] = o]
      <4>1. CASE \E o \in Out : RunTask(t, o)
        BY Zenon, <4>1 DEF RunTask
      <4>2. CASE FailTask(t) \/ CancelTask(t) \/ DropTask(t)
        BY <4>2, <1>7
      <4> QED BY <3>1, <4>1, <4>2
    <3> QED BY Zenon, <1>6, <3>2, <3>3, <3>4
  <2> QED BY Zenon, <1>2, <1>3, <1>4, <1>5, <2>1, <2>2
<1> QED BY <1>1, <1>8
\* A result on record stays on record; one in flight is recorded by the commit,
\* or the run is abandoned.
LEMMA SoundPersists ==
    ASSUME IInv, Next, pc' # "idle", NEW c, NEW v, Sound(c, v)
    PROVE  Sound(c, v)'
<1> USE DEF schedVars, taskVars, runVars
<1>0. TypeOK /\ JoinedFixed /\ receipts \subseteq receipts'
  BY StoreGrows DEF IInv
<1>1. CASE Known(c, v)
  BY <1>0, <1>1 DEF Known, Sound
<1>2. CASE InFlight(c, v)
  <2>1. pc = "commit" /\ cur = c /\ out[c] = v /\ c \in Task /\ task[c] = "none"
    BY <1>0, <1>2 DEF InFlight, JoinedFixed, TypeOK
  <2>2. CASE CommitReceipt
    BY Zenon, <2>1, <2>2 DEF CommitReceipt, commit_receipt, Known, Sound
  <2>3. CASE ~CommitReceipt
    <3>1. UNCHANGED <<pc, cur>> /\ (UNCHANGED out \/ \E t \in Task, o \in Out : RunTask(t, o))
      BY Zenon, <2>1, <2>3, NextCases, OnlyWorkerWrites DEF Start, Scan, PushResources, QueryReceipts,
         QueryFails, FoldReceipt, FoldEnd, FetchResources, FetchFails, SpawnTask, SkipTask,
         ResourceMissing, JoinTask, JoinFails, JoinEmpty, CommitFails, NotifyCaptured, Finish,
         ResolveCid, ResolveTimeout, FailTask, CancelTask, DropTask, ResolveFound, RunTask, ImportReceipt,
         AbortWorker, Crash, Stop
    <3>2. out'[c] = out[c]
      BY Zenon, <1>0, <2>1, <3>1 DEF RunTask, TypeOK
    <3> QED BY Zenon, <2>1, <3>1, <3>2 DEF InFlight, Sound
  <2> QED BY <2>2, <2>3
<1> QED BY <1>1, <1>2 DEF Sound

\* Every step keeps the linkmap sound.
LEMMA LinkmapStepSound ==
    ASSUME IInv, Next
    PROVE  LinkmapSound'
<1> USE DEF schedVars, taskVars, runVars
<1>0. TypeOK /\ LinkmapSound /\ PendingStored /\ JoinedFixed
  BY DEF IInv
<1> SUFFICES ASSUME pc' # "idle", NEW c \in Cid, NEW v, v = linkmap'[c], v # None
             PROVE  Sound(c, v)'
  BY Zenon DEF LinkmapSound, Sound, Known, InFlight, ReceiptOf
<1>1. CASE linkmap' = EmptyMap
  BY <1>1 DEF EmptyMap
<1>2. CASE linkmap' = linkmap /\ pc # "idle"
  <2>1. Sound(c, v)
    BY <1>0, <1>2 DEF LinkmapSound
  <2> QED BY <2>1, SoundPersists
<1>3. CASE Scan /\ ~(linkmap' = linkmap) /\ ~(linkmap' = EmptyMap)
  <2>1. PICK r \in pending : FoldReceipt(r)
    BY Zenon, <1>3 DEF Scan, PushResources, QueryReceipts, QueryFails, FoldEnd
  <2>2. CASE c = r.instruction
    <3>1. r \in receipts /\ r \in Receipt
      BY <1>0 DEF PendingStored, TypeOK, SchedTypeOK
    <3>a. v = r.out
      BY <1>0, <2>1, <2>2 DEF FoldReceipt, TypeOK, SchedTypeOK
    <3>2. v = r.out /\ r = ReceiptOf(c, v) /\ v \in Value
      BY <2>2, <3>1, <3>a DEF Receipt, ReceiptOf, Value
    <3>3. ReceiptOf(c, v) \in receipts'
      BY <3>1, <3>2, StoreGrows
    <3> QED BY <3>2, <3>3 DEF Sound, Known, ReceiptOf
  <2>3. CASE c # r.instruction
    <3>1. v = linkmap[c] /\ pc # "idle"
      BY <1>0, <2>1, <2>3 DEF FoldReceipt, TypeOK, SchedTypeOK
    <3>2. Sound(c, v)
      BY <1>0, <3>1 DEF LinkmapSound
    <3> QED BY <3>2, SoundPersists
  <2> QED BY <2>2, <2>3
<1>4. CASE \E w \in Writers : WriteLinkmap(w)
  <2>1. /\ pc = "write" /\ pc' = "commit" /\ UNCHANGED <<cur, out>>
        /\ linkmap' = [linkmap EXCEPT ![cur] = out[cur]]
    BY <1>4, OnlyWorkerWrites
  <2>2. CASE c = cur
    <3>1. v = out[c] /\ v \in Value
      BY <1>0, <2>1, <2>2 DEF TypeOK, SchedTypeOK, JoinedFixed, Value
    <3> QED BY <2>1, <2>2, <3>1 DEF Sound, InFlight
  <2>3. CASE c # cur
    <3>1. v = linkmap[c]
      BY <1>0, <2>1, <2>3 DEF TypeOK, SchedTypeOK
    <3>2. Sound(c, v)
      BY <1>0, <2>1, <3>1 DEF LinkmapSound
    <3> QED BY <3>2, SoundPersists
  <2> QED BY <2>2, <2>3
<1>5. \/ linkmap' = EmptyMap
      \/ linkmap' = linkmap /\ pc # "idle"
      \/ Scan
      \/ \E w \in Writers : WriteLinkmap(w)
  BY Zenon, NextCases DEF Start, FetchResources, FetchFails, SpawnTask, SkipTask, ResourceMissing,
     JoinTask, JoinFails, JoinEmpty, CommitReceipt, CommitFails, NotifyCaptured, Finish, ResolveCid,
     ResolveTimeout, RunTask, FailTask, CancelTask, DropTask, ResolveFound, ImportReceipt,
     AbortWorker, Crash, Stop
<1>6. Scan => pc # "idle"
  BY Zenon DEF Scan, PushResources, QueryReceipts, QueryFails, FoldReceipt, FoldEnd
<1> QED BY <1>1, <1>2, <1>3, <1>4, <1>5, <1>6
\* Every step keeps the resolved arguments sound.
LEMMA ArgsStepSound ==
    ASSUME IInv, Next
    PROVE  ArgsSound'
<1> USE DEF schedVars, taskVars, runVars
<1>0. TypeOK /\ LinkmapSound /\ ArgsSound /\ BatchBarrier /\ BatchBarrier'
  BY BarrierStep DEF IInv
<1> SUFFICES ASSUME NEW t \in Task, task'[t] \in {"live", "finished"}, NEW c \in Deps[t],
                    dep'[t][c] = "ok", NEW v, v = arg'[t][c]
             PROVE  Sound(c, v)'
  BY Zenon DEF ArgsSound, Sound, Known, InFlight, ReceiptOf
<1>t. /\ task \in [Task -> TaskState] /\ dep \in [Task -> [Cid -> DepState]]
      /\ arg \in [Task -> [Cid -> Value \union {None}]]
  BY <1>0 DEF TypeOK
<1>1. pc' # "idle" /\ c \in Cid
  BY <1>0, WorkerAssumption DEF BatchBarrier
<1>2. CASE task[t] \in {"live", "finished"} /\ dep[t][c] = "ok" /\ arg'[t][c] = arg[t][c]
  <2>1. Sound(c, v)
    BY <1>0, <1>2 DEF ArgsSound
  <2> QED BY <1>1, <2>1, SoundPersists
<1>3. CASE \E u \in Task : \E d \in Deps[u] : ResolveCid(u, d)
  <2>1. PICK u \in Task : \E d \in Deps[u] : ResolveCid(u, d)
    BY <1>3
  <2>2. PICK d \in Deps[u] : ResolveCid(u, d)
    BY <2>1
  <2>3. CASE t = u /\ c = d
    <3>1. pc # "idle" /\ task[t] = "live"
      BY Zenon, <1>0, <2>2, <2>3 DEF ResolveCid, Running, BatchBarrier
    <3>2. \/ linkmap[c] # None /\ v = linkmap[c]
          \/ v = Blob
          \/ \E r \in find_instruction_by_cid(c) : v = r.out
      <4>1. \/ linkmap[c] # None /\ Resolved(t, c, linkmap[c])
            \/ Resolved(t, c, Blob)
            \/ \E r \in find_instruction_by_cid(c) : Resolved(t, c, r.out)
            \/ dep' = [dep EXCEPT ![t][c] = "wait"]
        BY Zenon, <2>2, <2>3 DEF ResolveCid
      <4>2. ~(dep' = [dep EXCEPT ![t][c] = "wait"])
        BY <1>t, <1>1
      <4>3. ASSUME NEW x, Resolved(t, c, x) PROVE v = x
        BY <1>t, <1>1, <4>3 DEF Resolved
      <4> QED BY Zenon, <4>1, <4>2, <4>3
    <3>3. Sound(c, v)
      <4>1. CASE linkmap[c] # None /\ v = linkmap[c]
        BY Zenon, <1>0, <1>1, <3>1, <4>1 DEF LinkmapSound
      <4>2. CASE v = Blob
        BY Zenon, <4>2 DEF Sound, Known, Value
      <4>3. CASE \E r \in find_instruction_by_cid(c) : v = r.out
        <5>1. PICK r \in receipts : r.instruction = c /\ v = r.out
          BY Zenon, <4>3 DEF find_instruction_by_cid
        <5>2. r \in Receipt
          BY Zenon, <1>0, <5>1 DEF TypeOK, DbTypeOK
        <5>3. v \in Out /\ ReceiptOf(c, v) = r
          BY <5>1, <5>2 DEF Receipt, ReceiptOf
        <5> QED BY Zenon, <5>1, <5>3 DEF Sound, Known, Value
      <4> QED BY <3>2, <4>1, <4>2, <4>3
    <3> QED BY <1>1, <3>3, SoundPersists
  <2>4. CASE ~(t = u /\ c = d)
    <3>1. /\ UNCHANGED task /\ d \in Cid
          /\ \E x : dep' = [dep EXCEPT ![u][d] = x]
          /\ arg' = arg \/ \E y : arg' = [arg EXCEPT ![u][d] = y]
      BY Zenon, <2>2, WorkerAssumption DEF ResolveCid, Resolved
    <3>2. dep'[t][c] = dep[t][c] /\ arg'[t][c] = arg[t][c]
      <4>1. dep'[t][c] = dep[t][c]
        BY <1>t, <1>1, <2>4, <3>1, ElsewhereSame
      <4>2. arg'[t][c] = arg[t][c]
        BY <1>t, <1>1, <2>4, <3>1, ElsewhereSame
      <4> QED BY <4>1, <4>2
    <3> QED BY <1>2, <3>1, <3>2
  <2> QED BY <2>3, <2>4
<1>4. CASE SpawnTask
  <2>1. t # Schedule[batch][node]
    BY Zenon, <1>t, <1>1, <1>4 DEF SpawnTask
  <2> QED BY Zenon, <1>t, <1>2, <1>4, <2>1 DEF SpawnTask
<1>5. CASE \E u \in Task : \E d \in Deps[u] : \/ ResolveTimeout(u, d)
                                             \/ \E r \in NetReceipts : ResolveFound(u, d, r)
  <2>1. PICK u \in Task : \E d \in Deps[u] : \/ ResolveTimeout(u, d)
                                             \/ \E r \in NetReceipts : ResolveFound(u, d, r)
    BY Zenon, <1>5
  <2>2. PICK d \in Deps[u] : \/ ResolveTimeout(u, d)
                             \/ \E r \in NetReceipts : ResolveFound(u, d, r)
    BY <2>1
  <2>3. d \in Cid /\ ~(t = u /\ c = d)
    <3>1. d \in Cid
      BY Zenon, WorkerAssumption
    <3>2. \E x \in {"unresolved", "write"} : dep' = [dep EXCEPT ![u][d] = x]
      BY Zenon, <2>2 DEF ResolveTimeout, ResolveFound
    <3> QED BY <1>t, <1>1, <3>1, <3>2
  <2>4. /\ UNCHANGED task
        /\ \E x : dep' = [dep EXCEPT ![u][d] = x]
        /\ arg' = arg \/ \E y : arg' = [arg EXCEPT ![u][d] = y]
    BY <2>2 DEF ResolveTimeout, ResolveFound
  <2>5. dep'[t][c] = dep[t][c] /\ arg'[t][c] = arg[t][c]
    BY <1>t, <1>1, <2>3, <2>4
  <2> QED BY Zenon, <1>2, <2>4, <2>5
<1>6. CASE \E u \in Task : \/ \E o \in Out : RunTask(u, o)
                           \/ FailTask(u) \/ CancelTask(u) \/ DropTask(u) \/ JoinTask(u)
  BY Zenon, <1>t, <1>2, <1>6 DEF RunTask, FailTask, CancelTask, DropTask, JoinTask
<1>7. CASE UNCHANGED taskVars
  BY Zenon, <1>2, <1>7
<1>8. CASE Start \/ Crash \/ AbortTasks
  BY <1>8, AbortedTasks DEF Start, Crash
<1> QED
  BY Zenon, NextCases, OnlyWorkerWrites, <1>3, <1>4, <1>5, <1>6, <1>7, <1>8 DEF FetchResources, FetchFails,
     SkipTask, ResourceMissing, JoinFails, JoinEmpty, CommitReceipt, CommitFails, NotifyCaptured,
     Finish, ImportReceipt, AbortWorker, Stop
\* When a task is joined, its arguments are on record: the commit that was in
\* flight when it read the linkmap is over.
LEMMA JoinedKnownStep ==
    ASSUME IInv, Next
    PROVE  JoinedKnown'
<1> USE DEF schedVars, taskVars, runVars
<1>0. TypeOK /\ ArgsSound /\ FinishedReady /\ JoinedFixed /\ JoinedKnown
  BY DEF IInv
<1> SUFFICES ASSUME pc' \in {"write", "commit"}, NEW c \in Deps[cur'], NEW v, v = arg'[cur'][c]
             PROVE  v \in Value /\ Known(c, v)'
  BY DEF JoinedKnown, Known, ReceiptOf
<1>1. ASSUME v \in Value, Known(c, v) PROVE Known(c, v)'
  BY <1>1, StoreGrows DEF Known, ReceiptOf
<1>2. CASE \E t \in Task : JoinTask(t)
  <2>1. PICK t \in Task : JoinTask(t)
    BY <1>2
  <2>2. Sound(c, v) /\ pc = "join"
    BY <1>0, <2>1 DEF JoinTask, FinishedReady, ArgsSound
  <2> QED BY <1>1, <2>2 DEF Sound, InFlight
<1>3. CASE pc \in {"write", "commit"} /\ UNCHANGED <<cur, arg>>
  BY <1>0, <1>1, <1>3 DEF JoinedKnown
<1>4. CASE \E t \in Task : \E d \in Deps[t] : ResolveCid(t, d) \/ \E r \in NetReceipts : ResolveFound(t, d, r)
  <2>1. PICK t \in Task : \E d \in Deps[t] :
            ResolveCid(t, d) \/ \E r \in NetReceipts : ResolveFound(t, d, r)
    BY <1>4
  <2>2. UNCHANGED <<pc, cur>> /\ t # cur /\ cur \in Task
    BY Zenon, <1>0, <2>1 DEF ResolveCid, ResolveFound, Running, JoinedFixed, TypeOK
  <2>3. arg'[cur] = arg[cur]
    BY Zenon, <1>0, <2>1, <2>2 DEF ResolveCid, Resolved, ResolveFound, TypeOK
  <2> QED BY <1>0, <1>1, <2>2, <2>3 DEF JoinedKnown
<1> QED
  BY Zenon, NextCases, OnlyWorkerWrites, <1>2, <1>3, <1>4 DEF Start, Scan, PushResources, QueryReceipts,
     QueryFails, FoldReceipt, FoldEnd, NextScan, FetchResources, FetchFails, SpawnTask, SkipTask,
     NextNode, ResourceMissing, JoinFails, JoinEmpty, NextBatch, CommitReceipt, CommitFails,
     NotifyCaptured, Finish, ResolveTimeout, RunTask, FailTask, CancelTask, DropTask, ImportReceipt,
     AbortWorker,
     Crash, Stop

-----------------------------------------------------------------------------
(* The properties of the store *)

\* A receipt is announced after the transaction that stores and links it.
LEMMA CapturedStep ==
    ASSUME IInv, Next
    PROVE  CapturedStored'
<1>0. CapturedStored /\ NotifiedLinked
  BY DEF IInv
<1>1. links' \subseteq receipts'
  BY Zenon, <1>0, StoreCases DEF CapturedStored, dbVars, CommitReceipt, commit_receipt, ImportReceipt,
     store_receipt
<1>2. captured' = captured \/ NotifyCaptured
  BY Zenon, NextCases DEF Start, FetchResources, FetchFails, SpawnTask, SkipTask, ResourceMissing, JoinTask,
     JoinFails, JoinEmpty, CommitReceipt, CommitFails, Finish, ResolveCid, ResolveTimeout, RunTask,
     FailTask, CancelTask, DropTask, WriteLinkmap, ResolveFound, ImportReceipt, AbortWorker, Crash, histVars
<1>3. captured' \subseteq links
  BY <1>0, <1>2 DEF CapturedStored, NotifiedLinked, NotifyCaptured
<1> QED BY <1>1, <1>3, StoreGrows DEF CapturedStored

\* Every step but the commit leaves the executions alone.
LEMMA ExecutedCases ==
    ASSUME Next
    PROVE  CommitReceipt \/ UNCHANGED executed
BY Zenon, NextCases DEF Start, FetchResources, FetchFails, SpawnTask, SkipTask, ResourceMissing, JoinTask,
   JoinFails, JoinEmpty, CommitFails, NotifyCaptured, Finish, ResolveCid, ResolveTimeout, RunTask,
   FailTask, CancelTask, DropTask, WriteLinkmap, ResolveFound, ImportReceipt, AbortWorker, Crash, histVars

\* A commit adds an execution whose arguments are on record.
LEMMA InputsStep ==
    ASSUME IInv, Next
    PROVE  InputsReceipted'
<1>0. InputsReceipted /\ JoinedKnown /\ receipts \subseteq receipts'
  BY StoreGrows DEF IInv
<1>1. CASE UNCHANGED executed
  BY Zenon, <1>0, <1>1 DEF InputsReceipted, ReceiptOf
<1>2. CASE CommitReceipt
  <2> DEFINE args == [d \in Deps[cur] |-> arg[cur][d]]
             e == [instruction |-> cur, out |-> out[cur], args |-> args]
  <2>1. executed' = executed \union {e}
    BY Zenon, <1>2 DEF CommitReceipt
  <2>2. \A d \in DOMAIN e.args : e.args[d] = Blob \/ ReceiptOf(d, e.args[d]) \in receipts
    BY Zenon, <1>0, <1>2 DEF JoinedKnown, CommitReceipt, Known
  <2> HIDE DEF e
  <2> QED BY Zenon, <1>0, <2>1, <2>2 DEF InputsReceipted, ReceiptOf
<1> QED BY <1>1, <1>2, ExecutedCases
-----------------------------------------------------------------------------
(* A clean run leaves no task without a receipt *)

\* The steps that lead into the loop over the batches, or on to another batch,
\* and those that stay within the batch.
LEMMA ActiveCases ==
    ASSUME Next, pc' \in Active \union {"done"}
    PROVE  \/ FetchResources \/ JoinEmpty
           \/ clean' = FALSE
           \/ /\ pc \in Active \/ (pc = "done" /\ pc' = "done")
              /\ pc' = "done" => pc = "done"
              /\ UNCHANGED <<batch, resume, clean>>
<1> DEFINE Within == /\ pc \in Active \/ (pc = "done" /\ pc' = "done")
                     /\ pc' = "done" => pc = "done"
                     /\ UNCHANGED <<batch, resume>>
<1> SUFFICES ASSUME ~FetchResources, ~JoinEmpty, ~SkipTask, ~\E t \in Task : JoinFails(t)
             PROVE  Within /\ clean' = clean
  BY Zenon DEF SkipTask, JoinFails
<1>1. Within
  <2> USE DEF Active, schedVars
  <2>1. ~Start /\ ~Scan /\ ~FetchFails /\ ~ResourceMissing /\ ~CommitFails /\ ~Finish
        /\ ~AbortWorker /\ ~Crash
    BY Zenon DEF Start, Scan, PushResources, QueryReceipts, QueryFails, FoldReceipt, FoldEnd, NextScan,
       FetchFails, ResourceMissing, CommitFails, Finish, AbortWorker, Stop, Crash
  <2>2. CASE SpawnTask \/ CommitReceipt \/ NotifyCaptured \/ \E t \in Task : JoinTask(t)
    BY Zenon, <2>2 DEF SpawnTask, CommitReceipt, NotifyCaptured, JoinTask, NextNode
  <2>3. CASE \E w \in Writers : WriteLinkmap(w)
    BY Zenon, <2>3, OnlyWorkerWrites DEF WriteLinkmap
  <2>4. CASE UNCHANGED <<pc, batch, resume>>
    BY Zenon, <2>4
  <2> QED
    BY Zenon, NextCases, <2>1, <2>2, <2>3, <2>4 DEF ResolveCid, ResolveTimeout, RunTask, FailTask,
       CancelTask, DropTask,
       ResolveFound, ImportReceipt
<1>2. ~Start /\ ~ResourceMissing /\ ~CommitFails
  BY DEF Start, ResourceMissing, CommitFails, Stop, Active
<1>3. clean' = clean
  BY <1>2, NextCases, Zenon DEF FetchFails, SpawnTask, JoinTask, CommitReceipt, NotifyCaptured, Finish,
     ResolveCid, ResolveTimeout, RunTask, FailTask, CancelTask, DropTask, WriteLinkmap, ResolveFound,
     ImportReceipt, AbortWorker, Crash, runVars
<1> QED BY <1>1, <1>3

\* When nothing is left in the JoinSet, the batch is receipted.
LEMMA JoinedBatch ==
    ASSUME IInv, JoinEmpty, clean
    PROVE  \A b \in (resume + 1)..batch : \A t \in BatchTasks(b) : Receipted(t)
<1>0. TypeOK /\ BatchesDone /\ BatchCovered /\ pc = "join"
  BY DEF IInv, JoinEmpty
<1>1. \A i \in 1..Len(Schedule[batch]) : Schedule[batch][i] \in Task
  BY Zenon, <1>0, ScheduleType DEF TypeOK, SchedTypeOK
<1>2. \A i \in 1..Len(Schedule[batch]) : Receipted(Schedule[batch][i])
  <2>1. \A i \in 1..Len(Schedule[batch]) :
            OnItsWay(Schedule[batch][i]) \/ Receipted(Schedule[batch][i])
    BY <1>0 DEF BatchCovered, Active
  <2>2. \A t \in Task : ~OnItsWay(t)
    BY <1>0 DEF OnItsWay, JoinEmpty
  <2> QED BY <1>1, <2>1, <2>2
<1>3. \A t \in BatchTasks(batch) : Receipted(t)
  <2>1. batch \in 1..Len(Schedule)
    BY <1>0 DEF TypeOK, SchedTypeOK
  <2>2. BatchTasks(batch) = {Schedule[batch][i] : i \in 1..Len(Schedule[batch])}
    BY <2>1, ScheduleType
  <2> QED BY <1>2, <2>2
<1>4. \A b \in (resume + 1)..(batch - 1) : \A t \in BatchTasks(b) : Receipted(t)
  BY <1>0 DEF BatchesDone, Active
<1>5. batch \in Nat /\ resume \in Nat
  BY <1>0 DEF TypeOK, SchedTypeOK
<1>6. \A b \in (resume + 1)..batch : b = batch \/ b \in (resume + 1)..(batch - 1)
  BY <1>5
<1> QED BY <1>3, <1>4, <1>6

\* A receipted task stays receipted.
LEMMA ReceiptedStays ==
    ASSUME Next, NEW t, Receipted(t)
    PROVE  Receipted(t)'
BY StoreGrows DEF Receipted

\* The nodes a step of the spawn loop leaves behind are those before `node`,
\* and `node` itself.
LEMMA SpawnedBefore ==
    ASSUME node \in Nat, Len(Schedule[batch]) \in Nat, NextNode, pc = "spawn",
           NEW i \in 1..Len(Schedule[batch]), i # node, pc' = "spawn" => i < node'
    PROVE  i < node
BY DEF NextNode

\* At the batch it resumes with, a run has left no batch behind.
LEMMA NoBatchBefore ==
    ASSUME NEW r \in Nat
    PROVE  \A b : b \notin (r + 1)..((r + 1) - 1)
OBVIOUS

\* Batches left behind by a clean run are receipted.
LEMMA BatchesDoneStep ==
    ASSUME IInv, Next
    PROVE  BatchesDone'
<1>0. TypeOK /\ BatchesDone
  BY DEF IInv
<1> SUFFICES ASSUME pc' \in Active, clean',
                    NEW b \in (resume' + 1)..(batch' - 1), NEW t \in BatchTasks(b)
             PROVE  Receipted(t)'
  BY DEF BatchesDone, BatchTasks
<1>1. CASE FetchResources
  <2>1. resume' = resume /\ resume \in 0..Len(Schedule)
    BY Zenon, <1>0, <1>1 DEF FetchResources, TypeOK, SchedTypeOK
  <2>2. batch' = resume + 1
    BY Zenon, <1>1 DEF FetchResources, Active
  <2>3. resume \in Nat
    BY <2>1, SchedulerAssumption
  <2> QED BY Zenon, <2>1, <2>2, <2>3, NoBatchBefore
<1>2. CASE JoinEmpty
  <2>1. b \in (resume + 1)..batch /\ clean
    BY <1>0, <1>2 DEF JoinEmpty, NextBatch, TypeOK, SchedTypeOK, Active, runVars
  <2> QED BY <1>2, <2>1, JoinedBatch, ReceiptedStays
<1>3. CASE pc \in Active /\ UNCHANGED <<batch, resume, clean>>
  <2>1. clean
    BY <1>3, Zenon
  <2>2. Receipted(t)
    BY <1>0, <1>3, <2>1 DEF BatchesDone
  <2> QED BY <2>2, ReceiptedStays
<1>4. clean' # FALSE
  BY Zenon
<1> QED BY Zenon, <1>1, <1>2, <1>3, <1>4, ActiveCases DEF Active

\* A clean run that gets to its end has receipted the last batch, too.
LEMMA CompleteStep ==
    ASSUME IInv, Next
    PROVE  CleanRunComplete'
<1>0. TypeOK /\ CleanRunComplete
  BY DEF IInv
<1> SUFFICES ASSUME pc' = "done", clean',
                    NEW b \in (resume' + 1)..Len(Schedule), NEW t \in BatchTasks(b)
             PROVE  Receipted(t)'
  BY Zenon DEF CleanRunComplete, BatchTasks, Receipted
<1>1. CASE FetchResources
  <2>1. resume = Len(Schedule) /\ resume' = resume
    BY Zenon, <1>1 DEF FetchResources
  <2> QED BY <1>0, <2>1, Indices
<1>2. CASE JoinEmpty
  <2>1. b \in (resume + 1)..batch /\ clean
    <3>1. ~(batch < Len(Schedule)) /\ resume' = resume /\ clean' = clean
      BY Zenon, <1>2 DEF JoinEmpty, NextBatch, runVars
    <3> QED BY <1>0, <3>1, Indices
  <2> QED BY <1>2, <2>1, JoinedBatch, ReceiptedStays
<1>3. CASE pc = "done" /\ UNCHANGED <<batch, resume, clean>>
  <2>1. clean
    BY <1>3, Zenon
  <2>2. Receipted(t)
    BY <1>0, <1>3, <2>1 DEF CleanRunComplete, Receipted
  <2> QED BY <2>2, ReceiptedStays
<1>4. clean' # FALSE
  BY Zenon
<1> QED BY Zenon, <1>1, <1>2, <1>3, <1>4, ActiveCases
\* In a clean run, a task of the batch is on its way or receipted.
LEMMA BatchCoveredStep ==
    ASSUME IInv, Next
    PROVE  BatchCovered'
<1> USE DEF schedVars, taskVars, runVars
<1>0. TypeOK /\ BatchCovered /\ NodeReset /\ JoinedFixed
  BY DEF IInv
<1> SUFFICES ASSUME pc' \in Active, clean', NEW i \in 1..Len(Schedule[batch']),
                    pc' = "spawn" => i < node', NEW u, u = Schedule[batch'][i]
             PROVE  OnItsWay(u)' \/ Receipted(u)'
  BY DEF BatchCovered, OnItsWay, Receipted
<1>1. CASE FetchResources \/ JoinEmpty
  <2>1. pc' = "spawn" /\ node' = 1
    BY Zenon, <1>0, <1>1 DEF FetchResources, JoinEmpty, NextBatch, NodeReset, Active
  <2> QED BY <1>0, <2>1
<1>2. CASE pc \in Active /\ UNCHANGED <<batch, resume, clean>>
  <2>0. u \in Task /\ node \in Nat
    BY Zenon, <1>0, <1>2, ScheduleType DEF TypeOK, SchedTypeOK
  <2>1. clean
    BY <1>2, Zenon
  <2>2. ASSUME pc = "spawn" => i < node
        PROVE  OnItsWay(u) \/ Receipted(u)
    BY <1>0, <1>2, <2>1, <2>2 DEF BatchCovered
  <2>3. ASSUME Receipted(u) PROVE Receipted(u)'
    BY Zenon, <2>3, ReceiptedStays
  <2>4. CASE SpawnTask
    <3>1. CASE u = Schedule[batch][node]
      BY Zenon, <1>0, <2>0, <2>4, <3>1 DEF SpawnTask, TypeOK, OnItsWay
    <3>2. CASE u # Schedule[batch][node]
      <4>a. batch \in 1..Len(Schedule) /\ batch' = batch
        BY Zenon, <1>0, <1>2 DEF TypeOK, SchedTypeOK
      <4>b. Len(Schedule[batch]) \in Nat
        BY <4>a, ScheduleType
      <4>c. i # node /\ i \in 1..Len(Schedule[batch])
        BY Zenon, <3>2, <4>a
      <4>d. NextNode /\ pc = "spawn"
        BY Zenon, <2>4 DEF SpawnTask
      <4>1. i < node
        BY <2>0, <4>b, <4>c, <4>d, SpawnedBefore
      <4>2. task'[u] = task[u] /\ pc = "spawn"
        BY Zenon, <1>0, <2>0, <2>4, <3>2 DEF SpawnTask, TypeOK
      <4> QED BY Zenon, <2>2, <2>3, <4>1, <4>2 DEF OnItsWay
    <3> QED BY <3>1, <3>2
  <2>5. CASE \E t \in Task : JoinTask(t)
    BY Zenon, <1>0, <2>0, <2>2, <2>3, <2>5 DEF JoinTask, TypeOK, OnItsWay
  <2>6. CASE \E w \in Writers : WriteLinkmap(w)
    BY Zenon, <2>2, <2>3, <2>6, OnlyWorkerWrites DEF OnItsWay
  <2>7. CASE CommitReceipt
    <3>1. u = cur => Receipted(u)'
      <4>1. ReceiptOf(cur, out[cur]) \in receipts'
        BY Zenon, <2>7 DEF CommitReceipt, commit_receipt
      <4>2. ReceiptOf(cur, out[cur]).instruction = cur
        BY DEF ReceiptOf
      <4> QED BY <4>1, <4>2 DEF Receipted
    <3> QED BY Zenon, <2>2, <2>3, <2>7, <3>1 DEF CommitReceipt, OnItsWay
  <2>8. CASE NotifyCaptured
    BY Zenon, <2>2, <2>3, <2>8 DEF NotifyCaptured, OnItsWay
  <2>9. CASE \E t \in Task : (\E o \in Out : RunTask(t, o)) \/ FailTask(t) \/ CancelTask(t) \/ DropTask(t)
    BY Zenon, <1>0, <2>0, <2>2, <2>3, <2>9 DEF RunTask, FailTask, CancelTask, DropTask, TypeOK, OnItsWay
  <2>10. CASE UNCHANGED <<pc, node, cur, task>>
    BY Zenon, <2>2, <2>3, <2>10 DEF OnItsWay
  <2>11. CASE SkipTask \/ \E t \in Task : JoinFails(t)
    BY <2>11, Zenon DEF SkipTask, JoinFails
  <2>12. ~Start /\ ~Scan /\ ~FetchFails /\ ~ResourceMissing /\ ~CommitFails /\ ~Finish
         /\ ~AbortWorker /\ ~Crash
    BY Zenon DEF Start, Scan, PushResources, QueryReceipts, QueryFails, FoldReceipt, FoldEnd, NextScan,
       FetchFails, ResourceMissing, CommitFails, Finish, AbortWorker, Stop, Crash, Active
  <2> QED
    BY Zenon, NextCases, <1>1, <2>4, <2>5, <2>6, <2>7, <2>8, <2>9, <2>10, <2>11, <2>12 DEF ResolveCid,
       ResolveTimeout, ResolveFound, ImportReceipt
<1>3. clean' # FALSE
  BY Zenon
<1> QED BY Zenon, <1>1, <1>2, <1>3, ActiveCases DEF Active

-----------------------------------------------------------------------------
(* The theorems *)

\* The invariant holds initially.
LEMMA InitInv ==
    ASSUME Init
    PROVE  IInv
<1> USE DEF Init, DbInit, SchedInit
<1>1. TypeOK
  <2>1. DbTypeOK /\ SchedTypeOK
    BY SchedulerAssumption DEF DbTypeOK, SchedTypeOK, EmptyMap
  <2>2. dep \in [Task -> [Cid -> DepState]] /\ arg \in [Task -> [Cid -> Value \union {None}]]
    BY DEF DepState, NoDeps, Todo, NoArgs, EmptyMap
  <2>3. out \in [Task -> Out \union {None}] /\ task \in [Task -> TaskState]
    BY DEF TaskState, NoOuts
  <2>4. runs \in 0..MaxRuns
    BY WorkerAssumption
  <2> QED BY Zenon, <2>1, <2>2, <2>3, <2>4 DEF TypeOK, Control
<1>2. IsFiniteSet(links)
  BY FS_EmptySet
<1>3. BatchBarrier /\ LinkmapSound /\ ArgsSound /\ FinishedReady
  BY Zenon DEF BatchBarrier, LinkmapSound, ArgsSound, FinishedReady
<1>4. JoinedFixed /\ JoinedKnown /\ NotifiedLinked /\ PendingStored /\ NodeReset
  BY Zenon DEF JoinedFixed, JoinedKnown, NotifiedLinked, PendingStored, NodeReset
<1>5. BatchesDone /\ BatchCovered /\ CapturedStored /\ InputsReceipted /\ CleanRunComplete
  BY Zenon DEF BatchesDone, BatchCovered, Active, CapturedStored, InputsReceipted, CleanRunComplete
<1> QED BY <1>1, <1>2, <1>3, <1>4, <1>5 DEF IInv

\* A stuttering step keeps it.
LEMMA StutterInv ==
    ASSUME IInv, UNCHANGED vars
    PROVE  IInv'
<1> USE DEF vars, dbVars, schedVars, runVars, taskVars, histVars, IInv
<1>1. TypeOK' /\ IsFiniteSet(links)'
  BY Zenon DEF TypeOK, DbTypeOK, SchedTypeOK
<1>2. BatchBarrier' /\ LinkmapSound' /\ ArgsSound' /\ FinishedReady'
  BY Zenon DEF BatchBarrier, BatchTasks, LinkmapSound, ArgsSound, FinishedReady, Sound, Known, InFlight
<1>3. JoinedFixed' /\ JoinedKnown' /\ NotifiedLinked' /\ PendingStored' /\ NodeReset'
  BY Zenon DEF JoinedFixed, JoinedKnown, Known, NotifiedLinked, PendingStored, NodeReset, ReceiptOf
<1>4. BatchesDone' /\ BatchCovered'
  BY Zenon DEF BatchesDone, BatchCovered, BatchTasks, OnItsWay, Receipted
<1>5. CapturedStored' /\ InputsReceipted'
  BY Zenon DEF CapturedStored, InputsReceipted, ReceiptOf
<1>6. CleanRunComplete'
  BY Zenon DEF CleanRunComplete, BatchTasks
<1> QED BY Zenon, <1>1, <1>2, <1>3, <1>4, <1>5, <1>6

\* The invariant is inductive: it holds throughout every run.
THEOREM Inductive == Spec => []IInv
<1>1. Init => IInv
  BY InitInv
<1>2. IInv /\ [Next]_vars => IInv'
  <2>1. ASSUME IInv, Next PROVE IInv'
    BY Zenon, <2>1, TypeStep, FiniteStep, BarrierStep, LinkmapStepSound, ArgsStepSound, FinishedStep,
       JoinedStep, JoinedKnownStep, PendingStep, NodeResetStep, BatchesDoneStep, BatchCoveredStep,
       CapturedStep, InputsStep, CompleteStep DEF IInv
  <2> QED BY <2>1, StutterInv
<1> QED BY <1>1, <1>2, PTL DEF Spec
\* Every variable keeps its type, for every workflow and schedule: no index
\* into the schedule is out of range (worker.rs:337-346, scheduler.rs:112-166),
\* and only results of tasks and blobs are recorded as arguments.
THEOREM TypeCorrect == Spec => []TypeOK
BY Inductive, PTL DEF IInv

\* No task is receipted on a result that is on no record, although the linkmap
\* is written before the receipt is committed (worker.rs:468-484) and tasks
\* read it in between.
THEOREM InputsAreReceipted == Spec => []InputsReceipted
BY Inductive, PTL DEF IInv

\* Announced receipts are linked, and linked ones stored (worker.rs:483-500,
\* db.rs:131-147).
THEOREM CapturedAreStored == Spec => []CapturedStored
BY Inductive, PTL DEF IInv

\* Tasks that can deliver belong to the batch being run (worker.rs:337-501).
THEOREM BatchesAreBarriers == Spec => []BatchBarrier
BY Inductive, PTL DEF IInv

\* A run in which nothing failed and that ends has receipted all that it was
\* left to run (worker.rs:337-503).
THEOREM CleanRunsComplete == Spec => []CleanRunComplete
BY Inductive, PTL DEF IInv

\* The worker implements the receipt log: a commit is an execution whose inputs
\* are on record, a receipt from elsewhere is an import, and no other step
\* touches the log.
THEOREM WorkerImplementsLog == Spec => ImplementsReceiptLog
<1>1. Init => Log!Init
  BY DEF Init, DbInit, Log!Init
<1>2. IInv /\ [Next]_vars => [Log!Next]_(Log!vars)
  <2> SUFFICES ASSUME IInv, [Next]_vars PROVE [Log!Next]_(Log!vars)
    OBVIOUS
  <2>1. CASE UNCHANGED vars
    BY <2>1 DEF vars, dbVars, histVars, Log!vars
  <2>2. CASE CommitReceipt
    <3> DEFINE args == [d \in Deps[cur] |-> arg[cur][d]]
    <3>1. cur \in Task /\ out[cur] \in Out
      BY Zenon, <2>2 DEF IInv, TypeOK, JoinedFixed, CommitReceipt
    <3>2. args \in [Deps[cur] -> Out \union {Blob}]
      BY Zenon, <2>2 DEF IInv, JoinedKnown, CommitReceipt, Value
    <3>3. \A d \in Deps[cur] : Log!Recorded(d, args[d])
      BY Zenon, <2>2 DEF IInv, JoinedKnown, Known, CommitReceipt, ReceiptOf, Log!Recorded
    <3>4. Log!Execute(cur, out[cur], args)
      BY Zenon, <2>2, <3>3 DEF CommitReceipt, commit_receipt, ReceiptOf, Log!Execute
    <3>5. \E t \in Task, o \in Out :
             \E as \in [Deps[t] -> Out \union {Blob}] : Log!Execute(t, o, as)
      BY Zenon, <3>1, <3>2, <3>4
    <3> QED BY Zenon, <3>5 DEF Log!Next
  <2>3. CASE Next /\ ~CommitReceipt
    <3>1. executed' = executed
      BY <2>3, ExecutedCases
    <3>2. receipts' = receipts \/ \E r \in Receipt : receipts' = receipts \union {r}
      BY Zenon, <2>3, StoreCases, WorkerAssumption DEF dbVars, commit_receipt, ImportReceipt,
         store_receipt
    <3> QED BY Zenon, <3>1, <3>2 DEF Log!Next, Log!Import, Log!vars, Log!Receipt, Receipt
  <2> QED BY <2>1, <2>2, <2>3
<1> QED BY <1>1, <1>2, Inductive, PTL DEF Spec, ImplementsReceiptLog, Log!Spec

-----------------------------------------------------------------------------
(* What becomes of a result found on the DHT *)

\* While the schedule is scanned, no task is left.
ScanAlone == pc \in {"push", "query", "fold"} => \A t \in Task : task[t] = "none"

\* Scheduler::init is done before the first task is spawned, and the tasks of
\* an earlier run are gone when a run starts.
LEMMA ScansAlone == Spec => []ScanAlone
<1>1. Init => ScanAlone
  BY DEF Init, ScanAlone
<1>2. ScanAlone /\ [Next]_vars => ScanAlone'
  <2> SUFFICES ASSUME ScanAlone, [Next]_vars, pc' \in {"push", "query", "fold"}
               PROVE  \A t \in Task : task'[t] = "none"
    BY DEF ScanAlone
  <2>1. CASE UNCHANGED vars
    BY <2>1 DEF vars, taskVars, ScanAlone
  <2>2. CASE Start
    BY <2>2 DEF Start
  <2>3. CASE Scan /\ UNCHANGED <<dbVars, runVars, taskVars, runs, histVars>>
    <3>1. pc \in {"push", "query", "fold"} /\ task' = task
      BY <2>3 DEF Scan, PushResources, QueryReceipts, QueryFails, FoldReceipt, FoldEnd, taskVars
    <3> QED BY <3>1 DEF ScanAlone
  <2>4. ASSUME pc' = pc PROVE \A t \in Task : task[t] = "none"
    BY <2>4 DEF ScanAlone
  <2>5. CASE \/ FetchResources \/ FetchFails \/ SpawnTask \/ SkipTask \/ ResourceMissing
             \/ JoinEmpty \/ CommitReceipt \/ CommitFails \/ NotifyCaptured \/ Finish
             \/ AbortWorker \/ Crash
    BY <2>5 DEF FetchResources, FetchFails, SpawnTask, SkipTask, ResourceMissing, JoinEmpty,
       CommitReceipt, CommitFails, NotifyCaptured, Finish, AbortWorker, Crash, Stop, NextNode, NextBatch
  <2>6. CASE \E t \in Task : JoinTask(t) \/ JoinFails(t)
    BY <2>6 DEF JoinTask, JoinFails, NextBatch
  <2>7. CASE \E t \in Task : \/ \E d \in Deps[t] : ResolveCid(t, d) \/ ResolveTimeout(t, d)
                             \/ \E d \in Deps[t], r \in NetReceipts : ResolveFound(t, d, r)
    BY <2>4, <2>7, Zenon DEF ResolveCid, ResolveTimeout, ResolveFound
  <2>8. CASE \E t \in Task : \/ \E o \in Out : RunTask(t, o)
                             \/ FailTask(t) \/ CancelTask(t) \/ DropTask(t)
    BY <2>4, <2>8 DEF RunTask, FailTask, CancelTask, DropTask
  <2>9. CASE \E w \in Writers : WriteLinkmap(w)
    BY <2>9, OnlyWorkerWrites
  <2>10. CASE \E r \in Imports : ImportReceipt(r)
    BY <2>4, <2>10 DEF ImportReceipt, taskVars
  <2> QED BY <2>1, <2>2, <2>3, <2>5, <2>6, <2>7, <2>8, <2>9, <2>10, NextCases, Zenon
<1> QED BY <1>1, <1>2, PTL DEF Spec

\* resolve_cid that has found its result on the DHT (worker.rs:262-290) does
\* not return it, and the linkmap stays as it is while it waits.
NeverStored ==
    \A t \in Task, d \in Cid :
        AwaitsWrite(t, d) => dep'[t][d] # "ok" /\ linkmap' = linkmap

\* For every workflow, schedule and interleaving: a result found on the DHT is
\* never stored in the linkmap nor given to its task, and until the task that
\* waits for the lock is gone, the worker cannot store a result of its own.
THEOREM FoundIsNeverStored == Spec => [][NeverStored]_vars
<1>1. TypeOK /\ ScanAlone /\ [Next]_vars => [NeverStored]_vars
  <2> SUFFICES ASSUME TypeOK, ScanAlone, Next, NEW t \in Task, NEW d \in Cid, AwaitsWrite(t, d)
               PROVE  dep'[t][d] # "ok" /\ linkmap' = linkmap
    BY DEF NeverStored
  <2>0. /\ dep \in [Task -> [Cid -> DepState]] /\ Running(t) /\ dep[t][d] = "write"
        /\ task[t] # "none" /\ <<t, d>> \in Readers
    BY DEF AwaitsWrite, TypeOK, Running, Readers
  <2>1. ASSUME UNCHANGED <<dep, linkmap>> PROVE dep'[t][d] # "ok" /\ linkmap' = linkmap
    BY <2>0, <2>1
  <2>2. ~ Start
    BY <2>0 DEF Start
  <2>3. ~ Scan
    BY <2>0 DEF Scan, PushResources, QueryReceipts, QueryFails, FoldReceipt, FoldEnd, ScanAlone
  <2>4. ~ \E w \in Writers : WriteLinkmap(w)
    BY Zenon, <2>0 DEF WriteLinkmap
  <2>5. CASE \/ FetchResources \/ FetchFails \/ SkipTask \/ ResourceMissing
             \/ JoinEmpty \/ CommitReceipt \/ CommitFails \/ NotifyCaptured \/ Finish
             \/ AbortWorker \/ Crash
    BY Zenon, <2>1, <2>5 DEF FetchResources, FetchFails, SkipTask, ResourceMissing, JoinEmpty,
       CommitReceipt, CommitFails, NotifyCaptured, Finish, AbortWorker, Crash, taskVars, schedVars
  <2>6. CASE \/ \E u \in Task : \/ JoinTask(u) \/ JoinFails(u) \/ FailTask(u) \/ CancelTask(u)
                                \/ DropTask(u) \/ \E o \in Out : RunTask(u, o)
             \/ \E r \in Imports : ImportReceipt(r)
    BY Zenon, <2>1, <2>6 DEF JoinTask, JoinFails, FailTask, CancelTask, DropTask, RunTask,
       ImportReceipt, taskVars, schedVars
  <2>7. CASE SpawnTask
    <3>1. /\ dep' = [dep EXCEPT ![Schedule[batch][node]] = [c \in Cid |-> "todo"]]
          /\ linkmap' = linkmap
      BY <2>7 DEF SpawnTask
    <3> QED BY <2>0, <3>1
  <2>8. CASE \E u \in Task : \E c \in Deps[u] :
               \/ ResolveCid(u, c) \/ ResolveTimeout(u, c)
               \/ \E r \in NetReceipts : ResolveFound(u, c, r)
    <3>0. PICK u \in Task : \E c \in Deps[u] : \/ ResolveCid(u, c) \/ ResolveTimeout(u, c)
                                              \/ \E r \in NetReceipts : ResolveFound(u, c, r)
      BY <2>8
    <3>1. PICK c \in Deps[u] : \/ ResolveCid(u, c) \/ ResolveTimeout(u, c)
                               \/ \E r \in NetReceipts : ResolveFound(u, c, r)
      BY <3>0
    <3>2. dep[u][c] # "write" /\ linkmap' = linkmap
      BY <3>1 DEF ResolveCid, ResolveTimeout, ResolveFound, schedVars
    <3>3. \E x : dep' = [dep EXCEPT ![u][c] = x]
      BY Zenon, <3>1 DEF ResolveCid, ResolveTimeout, ResolveFound, Resolved
    <3>4. c \in Cid /\ ~ (t = u /\ d = c)
      BY <2>0, <3>1, <3>2, WorkerAssumption
    <3> QED BY <2>0, <3>2, <3>3, <3>4, ElsewhereSame
  <2> QED BY Zenon, <2>2, <2>3, <2>4, <2>5, <2>6, <2>7, <2>8, NextCases
<1> QED BY <1>1, Inductive, ScansAlone, PTL DEF Spec, IInv
=============================================================================
