------------------------------ MODULE Scheduler ------------------------------
(***************************************************************************)
(* TaskScheduler::init (scheduler.rs): the batches of a workflow are       *)
(* scanned from the last to the first; the scan stops at the first batch   *)
(* for which the database holds as many receipts as the batch has tasks,   *)
(* and the run resumes after that batch.  Resources of the scanned tasks   *)
(* are collected on the way, and one is dropped for every receipt found.   *)
(*                                                                         *)
(* Every statement of the scan that reads the database is a step of its    *)
(* own: other threads store receipts in between.                           *)
(***************************************************************************)
EXTENDS Db, Sequences, Functions

CONSTANTS Task,      \* instructions of the workflow, a subset of Cid
          Schedule,  \* ExecutionGraph::schedule: a sequence of batches
          Rsc,       \* ExecutionGraph::indexed_resources: task -> resources
          None

ASSUME SchedulerAssumption ==
    /\ Task \subseteq Cid
    /\ Schedule \in Seq(Seq(Task))
    /\ Len(Schedule) > 0
    /\ \A b \in 1..Len(Schedule) : Len(Schedule[b]) > 0
    /\ \A t \in Task : Len(Rsc[t]) > 0 /\ Rsc[t] \in Seq(Range(Rsc[t]))
    /\ None \notin Out \union Cid

VARIABLES pc,         \* control point of the worker's future
          batch,      \* index of the batch being scanned or run
          node,       \* index in the batch of the node being visited
          toFetch,    \* resources_to_fetch
          found,      \* receipts the last query returned
          pending,    \* ... those not yet folded into the linkmap
          linkmap,    \* results known in memory
          resume,     \* number of batches in `ran`
          resources   \* fetched resources

schedVars == <<batch, node, toFetch, found, pending, linkmap, resume, resources>>

Resource == UNION {Range(Rsc[t]) : t \in Task}
Entry    == [cid: Task, rsc: Resource]
EmptyMap == [c \in Cid |-> None]

BatchTasks(b) == Range(Schedule[b])
RanTasks      == UNION {BatchTasks(b) : b \in 1..resume}

\* resume_step: None when there is nothing left to run or nothing has run.
ResumeStep == IF resume = Len(Schedule) \/ resume = 0 THEN None ELSE resume

\* Vec::swap_remove: the last element takes the place of the removed one.
SwapRemove(s, i) == [j \in 1..(Len(s) - 1) |-> IF j = i THEN s[Len(s)] ELSE s[j]]

\* The first resource collected for instruction c, if any, is dropped.
DropFirst(s, c) ==
    LET Pos == {i \in DOMAIN s : s[i].cid = c} IN
    IF Pos = {} THEN s
    ELSE SwapRemove(s, CHOOSE i \in Pos : \A j \in Pos : i <= j)

SchedTypeOK ==
    /\ batch \in 1..Len(Schedule)
    /\ node \in Nat \ {0}
    /\ toFetch \in Seq(Entry)
    /\ found \subseteq Receipt
    /\ pending \subseteq Receipt
    /\ linkmap \in [Cid -> Out \union {None}]
    /\ resume \in 0..Len(Schedule)
    /\ resources \subseteq Resource

SchedInit ==
    /\ batch = Len(Schedule)
    /\ node = 1
    /\ toFetch = <<>>
    /\ found = {} /\ pending = {}
    /\ linkmap = EmptyMap
    /\ resume = 0
    /\ resources = {}

\* The inner try_fold: one node's resources are collected.
PushResources ==
    /\ pc = "push"
    /\ LET t == Schedule[batch][node] IN
       toFetch' = toFetch \o [i \in 1..Len(Rsc[t]) |-> [cid |-> t, rsc |-> Rsc[t][i]]]
    /\ IF node < Len(Schedule[batch])
       THEN node' = node + 1 /\ UNCHANGED pc
       ELSE node' = 1 /\ pc' = "query"
    /\ UNCHANGED <<batch, found, pending, linkmap, resume, resources>>

\* The loop goes on with the batch before, or ends with nothing to resume.
NextScan ==
    IF batch > 1 THEN batch' = batch - 1 /\ pc' = "push"
                 ELSE UNCHANGED batch /\ pc' = "fetch"

\* find_instruction_pointers for the batch; on an error the scan goes on.
QueryReceipts ==
    /\ pc = "query"
    /\ found' = find_instruction_pointers(BatchTasks(batch))
    /\ pending' = found'
    /\ pc' = "fold"
    /\ UNCHANGED <<batch, node, toFetch, linkmap, resume, resources>>

QueryFails ==
    /\ pc = "query"
    /\ NextScan
    /\ UNCHANGED <<node, toFetch, found, pending, linkmap, resume, resources>>

\* The fold over `found`, whose order the query leaves open.
FoldReceipt(r) ==
    /\ pc = "fold"
    /\ r \in pending
    /\ pending' = pending \ {r}
    /\ toFetch' = DropFirst(toFetch, r.instruction)
    /\ linkmap' = [linkmap EXCEPT ![r.instruction] = r.out]
    /\ UNCHANGED <<pc, batch, node, found, resume, resources>>

\* found.len() == vec.len() decides; the linkmap of another batch is dropped.
FoldEnd ==
    /\ pc = "fold"
    /\ pending = {}
    /\ IF Cardinality(found) = Len(Schedule[batch])
       THEN resume' = batch /\ pc' = "fetch" /\ UNCHANGED <<batch, linkmap>>
       ELSE NextScan /\ linkmap' = EmptyMap /\ UNCHANGED resume
    /\ UNCHANGED <<node, toFetch, found, pending, resources>>

Scan == \/ PushResources
        \/ QueryReceipts
        \/ QueryFails
        \/ \E r \in pending : FoldReceipt(r)
        \/ FoldEnd
=============================================================================
