------------------------------- MODULE Worker -------------------------------
(***************************************************************************)
(* One workflow on one node, from Worker::new to the drop of the worker    *)
(* (worker.rs), run again after failures, aborts and crashes of the node.  *)
(*                                                                         *)
(* Three kinds of actors interleave: the worker's future, the spawned task *)
(* futures of the current batch, each resolving its awaited cids before it *)
(* runs its Wasm function, and the environment: receipts that other        *)
(* workers or the gossip handler store, answers of the DHT, the runner     *)
(* that aborts the worker, and the crash of the process.                   *)
(*                                                                         *)
(* The linkmap is behind tokio's RwLock.  resolve_cid looks a cid up in    *)
(* the scrutinee of an if-let chain, so the read guard lives until the     *)
(* whole chain is left; the lock is fair, so a waiting writer keeps new    *)
(* readers out.                                                            *)
(***************************************************************************)
EXTENDS Scheduler

CONSTANTS Deps,         \* task -> cids its arguments await or link to
          Blob,         \* result standing for the bytes of a linked resource
          WasmRun,      \* tasks whose operation is registered
          Imports,      \* receipts that others may store on this node
          NetReceipts,  \* receipts the DHT may answer with
          MaxRuns       \* bound on the number of runs of the workflow

Value == Out \union {Blob}

ASSUME WorkerAssumption ==
    /\ \A t \in Task : Deps[t] \subseteq Cid
    /\ WasmRun \subseteq Task
    /\ Imports \subseteq Receipt
    /\ NetReceipts \subseteq Receipt
    /\ MaxRuns \in Nat
    /\ Blob \notin Out \union {None}

VARIABLES cur,             \* the joined task whose receipt is being stored
          progress_count,  \* workflow_info.progress_count
          replay,          \* pointers of the run's ReplayReceipts event
          task,            \* state of each task future
          dep,             \* state of each resolve_cid of a task
          arg,             \* ... and the result it returned
          out,             \* result of a finished task
          runs,            \* number of runs so far
          clean,           \* no task of this run failed or was skipped
          executed,        \* executions receipted by this node
          captured         \* receipts announced to the event handler

runVars  == <<cur, progress_count, replay, clean>>
taskVars == <<task, dep, arg, out>>
histVars == <<executed, captured>>
vars == <<dbVars, pc, schedVars, runVars, taskVars, runs, histVars>>

TaskState == {"none", "live", "finished", "failed", "aborting"}
DepState  == {"todo", "wait", "write", "ok", "unresolved"}
Control   == {"idle", "push", "query", "fold", "fetch", "spawn", "join",
              "write", "commit", "notify", "done"}

Execution == UNION {[instruction: {t}, out: Out, args: [Deps[t] -> Value]] : t \in Task}

\* The one type invariant: every variable of Db, Scheduler and Worker keeps
\* its type, the indices into the schedule included.
TypeOK ==
    /\ DbTypeOK
    /\ SchedTypeOK
    /\ pc \in Control
    /\ pc \in {"push", "spawn"} => node <= Len(Schedule[batch])
    /\ pc \in {"write", "commit", "notify"} => cur \in Task
    /\ cur \in Task \union {None}
    /\ progress_count \in Nat
    /\ replay \subseteq Task
    /\ task \in [Task -> TaskState]
    /\ dep \in [Task -> [Cid -> DepState]]
    /\ arg \in [Task -> [Cid -> Value \union {None}]]
    /\ out \in [Task -> Out \union {None}]
    /\ runs \in 0..MaxRuns
    /\ clean \in BOOLEAN
    /\ executed \subseteq Execution
    /\ captured \subseteq Receipt

Todo   == [c \in Cid |-> "todo"]
NoDeps == [t \in Task |-> Todo]
NoArgs == [t \in Task |-> EmptyMap]
NoOuts == [t \in Task |-> None]

Init ==
    /\ DbInit
    /\ SchedInit
    /\ pc = "idle"
    /\ cur = None
    /\ progress_count = 0
    /\ replay = {}
    /\ task = [t \in Task |-> "none"]
    /\ dep = NoDeps /\ arg = NoArgs /\ out = NoOuts
    /\ runs = 0
    /\ clean = TRUE
    /\ executed = {} /\ captured = {}

-----------------------------------------------------------------------------
(* The worker's future *)

\* AbortTasks, were the tasks detached from the JoinSet.
DetachTasks ==
    task' = [t \in Task |-> IF task[t] \in {"live", "aborting"} THEN task[t] ELSE "none"]

\* Dropping a JoinSet aborts its tasks; each stops when it next yields.
AbortTasks ==
    task' = [t \in Task |-> CASE task[t] \in {"live", "aborting"} -> "aborting"
                              [] OTHER -> "none"]

\* The future ends, by returning or by being aborted, and the worker is dropped.
Stop ==
    /\ pc' = "idle"
    /\ AbortTasks

\* Worker::new, and the start of Worker::run.  The tasks of an earlier run
\* have stopped: what they may still store is among Imports.
Start ==
    /\ pc = "idle"
    /\ runs < MaxRuns
    /\ \A t \in Task : task[t] = "none"
    /\ pc' = "push"
    /\ batch' = Len(Schedule)
    /\ node' = 1
    /\ toFetch' = <<>>
    /\ found' = {} /\ pending' = {}
    /\ linkmap' = EmptyMap
    /\ resume' = 0
    /\ resources' = {}
    /\ cur' = None
    /\ progress_count' = get_workflow_info
    /\ replay' = {}
    /\ clean' = TRUE
    /\ dep' = NoDeps /\ arg' = NoArgs /\ out' = NoOuts
    /\ runs' = runs + 1
    /\ UNCHANGED <<dbVars, task, histVars>>

ScanSchedule ==
    /\ Scan
    /\ UNCHANGED <<dbVars, runVars, taskVars, runs, histVars>>

\* fetch_fn has returned: the scheduler is split at `resume`, and the receipts
\* of what has been run are replayed.  The locals of the scan go out of scope.
FetchResources ==
    /\ pc = "fetch"
    /\ resources' = {toFetch[i].rsc : i \in DOMAIN toFetch}
    /\ replay' = RanTasks
    /\ IF resume = Len(Schedule)
       THEN pc' = "done" /\ UNCHANGED batch
       ELSE pc' = "spawn" /\ batch' = resume + 1
    /\ node' = 1
    /\ toFetch' = <<>> /\ found' = {} /\ pending' = {}
    /\ UNCHANGED <<dbVars, linkmap, resume, cur, progress_count, clean, taskVars, runs,
                   histVars>>

FetchFails ==
    /\ pc = "fetch"
    /\ Stop
    /\ UNCHANGED <<dbVars, schedVars, runVars, dep, arg, out, runs, histVars>>

\* The loop over the nodes of a batch; after the last one, the join loop.
NextNode ==
    IF node < Len(Schedule[batch])
    THEN node' = node + 1 /\ UNCHANGED pc
    ELSE node' = 1 /\ pc' = "join"

SpawnTask ==
    /\ pc = "spawn"
    /\ LET t == Schedule[batch][node] IN
       /\ t \in WasmRun
       /\ Rsc[t][1] \in resources
       /\ task' = [task EXCEPT ![t] = "live"]
       /\ dep' = [dep EXCEPT ![t] = [c \in Cid |-> "todo"]]
       /\ arg' = [arg EXCEPT ![t] = EmptyMap]
       /\ out' = [out EXCEPT ![t] = None]
    /\ NextNode
    /\ UNCHANGED <<dbVars, batch, toFetch, found, pending, linkmap, resume, resources,
                   runVars, runs, histVars>>

\* An operation that is not registered is logged and passed over.
SkipTask ==
    /\ pc = "spawn"
    /\ Schedule[batch][node] \notin WasmRun
    /\ clean' = FALSE
    /\ NextNode
    /\ UNCHANGED <<dbVars, batch, toFetch, found, pending, linkmap, resume, resources,
                   cur, progress_count, replay, taskVars, runs, histVars>>

\* "resource not available" ends the run with an error.
ResourceMissing ==
    /\ pc = "spawn"
    /\ LET t == Schedule[batch][node] IN t \in WasmRun /\ Rsc[t][1] \notin resources
    /\ clean' = FALSE
    /\ Stop
    /\ UNCHANGED <<dbVars, schedVars, cur, progress_count, replay, dep, arg, out, runs,
                   histVars>>

JoinTask(t) ==
    /\ pc = "join"
    /\ task[t] = "finished"
    /\ task' = [task EXCEPT ![t] = "none"]
    /\ cur' = t
    /\ pc' = "write"
    /\ UNCHANGED <<dbVars, schedVars, progress_count, replay, clean, dep, arg, out, runs,
                   histVars>>

\* NextBatch, one batch too far.
NextBatchPastEnd ==
    IF batch <= Len(Schedule)
    THEN batch' = batch + 1 /\ pc' = "spawn"
    ELSE pc' = "done" /\ UNCHANGED batch

\* The `for` over the batches goes on.
NextBatch ==
    IF batch < Len(Schedule)
    THEN batch' = batch + 1 /\ pc' = "spawn"
    ELSE pc' = "done" /\ UNCHANGED batch

\* A failed task breaks the join loop only: the rest of the batch is aborted
\* and the next batch is run.
JoinFails(t) ==
    /\ pc = "join"
    /\ task[t] = "failed"
    /\ AbortTasks
    /\ NextBatch
    /\ clean' = FALSE
    /\ UNCHANGED <<dbVars, node, toFetch, found, pending, linkmap, resume, resources,
                   cur, progress_count, replay, dep, arg, out, runs, histVars>>

\* JoinEmpty, were the rest of the JoinSet not waited for.
JoinOnce ==
    /\ pc = "join"
    /\ AbortTasks
    /\ NextBatch
    /\ UNCHANGED <<dbVars, node, toFetch, found, pending, linkmap, resume, resources,
                   runVars, dep, arg, out, runs, histVars>>

\* join_next returns None: the batch is over.
JoinEmpty ==
    /\ pc = "join"
    /\ \A t \in Task : task[t] \notin {"live", "finished", "failed"}
    /\ NextBatch
    /\ UNCHANGED <<dbVars, node, toFetch, found, pending, linkmap, resume, resources,
                   runVars, taskVars, runs, histVars>>

\* The receipt of the joined task is stored, and linked to the workflow.
CommitReceipt ==
    /\ pc = "commit"
    /\ commit_receipt(ReceiptOf(cur, out[cur]))
    /\ executed' = executed \union
          {[instruction |-> cur, out |-> out[cur], args |-> [d \in Deps[cur] |-> arg[cur][d]]]}
    /\ pc' = "notify"
    /\ UNCHANGED <<schedVars, runVars, taskVars, runs, captured>>

\* CommitFails, were the error ignored as it is in resolve_cid.
CommitErrorIgnored ==
    /\ pc = "commit"
    /\ pc' = "join"
    /\ UNCHANGED <<dbVars, schedVars, runVars, taskVars, runs, histVars>>

\* An error of the database ends the run.
CommitFails ==
    /\ pc = "commit"
    /\ clean' = FALSE
    /\ Stop
    /\ UNCHANGED <<dbVars, schedVars, cur, progress_count, replay, dep, arg, out, runs,
                   histVars>>

\* Event::CapturedReceipt.
NotifyCaptured ==
    /\ pc = "notify"
    /\ captured' = captured \union {ReceiptOf(cur, out[cur])}
    /\ pc' = "join"
    /\ UNCHANGED <<dbVars, schedVars, runVars, taskVars, runs, executed>>

\* run_queue returns Ok.
Finish ==
    /\ pc = "done"
    /\ Stop
    /\ UNCHANGED <<dbVars, schedVars, runVars, dep, arg, out, runs, histVars>>

-----------------------------------------------------------------------------
(* The tasks *)

Running(t) == task[t] \in {"live", "aborting"}

\* Read guards on the linkmap: held from the lookup to the end of the if-let.
Readers == {p \in Task \X Cid : Running(p[1]) /\ dep[p[1]][p[2]] \in {"wait", "write"}}

\* Those waiting for the write guard: the worker with a joined result, which
\* overwrites, and resolve_cid with a found one, which does not.
Writers == (IF pc = "write" THEN {[by |-> None, key |-> cur, val |-> out[cur]]} ELSE {})
           \union {[by |-> p[1], key |-> p[2], val |-> arg[p[1]][p[2]]] :
                      p \in {q \in Readers : dep[q[1]][q[2]] = "write"}}

\* Both writes to the linkmap.  After the worker's, the progress count is
\* raised to the step the run resumed from.
WriteLinkmap(w) ==
    /\ Readers = {}
    /\ linkmap' = [linkmap EXCEPT ![w.key] = IF w.by = None \/ @ = None THEN w.val ELSE @]
    /\ IF w.by = None
       THEN /\ pc' = "commit"
            /\ progress_count' =
                  IF ResumeStep # None /\ progress_count < ResumeStep
                  THEN ResumeStep ELSE progress_count
            /\ UNCHANGED dep
       ELSE dep' = [dep EXCEPT ![w.by][w.key] = "ok"] /\ UNCHANGED <<pc, progress_count>>
    /\ UNCHANGED <<dbVars, batch, node, toFetch, found, pending, resume, resources, cur,
                   replay, clean, task, arg, out, runs, histVars>>

Resolved(t, d, v) ==
    /\ dep' = [dep EXCEPT ![t][d] = "ok"]
    /\ arg' = [arg EXCEPT ![t][d] = v]

\* The lookups of resolve_cid: linkmap, resources, database.  The DHT is asked
\* when all three miss (or the database fails), and the answer awaited with a
\* blocking receive.
ResolveCid(t, d) ==
    /\ Running(t)
    /\ dep[t][d] = "todo"
    /\ \A e \in Deps[t] : dep[t][e] # "wait"
    /\ Writers = {}
    /\ \/ /\ linkmap[d] # None
          /\ Resolved(t, d, linkmap[d])
       \/ /\ linkmap[d] = None
          /\ d \in resources
          /\ Resolved(t, d, Blob)
       \/ /\ linkmap[d] = None
          /\ d \notin resources
          /\ \E r \in find_instruction_by_cid(d) : Resolved(t, d, r.out)
       \/ /\ linkmap[d] = None
          /\ d \notin resources
          /\ dep' = [dep EXCEPT ![t][d] = "wait"]
          /\ UNCHANGED arg
    /\ UNCHANGED <<dbVars, pc, schedVars, runVars, task, out, runs, histVars>>

\* ResolveTimeout, had the receive no deadline.
ResolveNoDeadline(t, d) ==
    /\ task[t] = "aborting"
    /\ dep[t][d] = "wait"
    /\ dep' = [dep EXCEPT ![t][d] = "unresolved"]
    /\ UNCHANGED <<dbVars, pc, schedVars, runVars, task, arg, out, runs, histVars>>

\* The deadline passes, the query fails, or an unexpected message arrives.
ResolveTimeout(t, d) ==
    /\ Running(t)
    /\ dep[t][d] = "wait"
    /\ dep' = [dep EXCEPT ![t][d] = "unresolved"]
    /\ UNCHANGED <<dbVars, pc, schedVars, runVars, task, arg, out, runs, histVars>>

\* The DHT answers with a receipt: it is committed (a failure to do so is
\* ignored) and then stored in the linkmap, for which the future waits.
ResolveFound(t, d, r) ==
    /\ Running(t)
    /\ dep[t][d] = "wait"
    /\ r.instruction = d
    /\ \/ commit_receipt(r)
       \/ UNCHANGED dbVars
    /\ dep' = [dep EXCEPT ![t][d] = "write"]
    /\ arg' = [arg EXCEPT ![t][d] = r.out]
    /\ UNCHANGED <<pc, schedVars, runVars, task, out, runs, histVars>>

\* wasm_ctx.run on the resolved arguments.
RunTask(t, o) ==
    /\ task[t] = "live"
    /\ \A d \in Deps[t] : dep[t][d] = "ok"
    /\ task' = [task EXCEPT ![t] = "finished"]
    /\ out' = [out EXCEPT ![t] = o]
    /\ UNCHANGED <<dbVars, pc, schedVars, runVars, dep, arg, runs, histVars>>

\* The function fails, or is refused an argument that is still a promise.
FailTask(t) ==
    /\ task[t] = "live"
    /\ \A d \in Deps[t] : dep[t][d] \in {"ok", "unresolved"}
    /\ task' = [task EXCEPT ![t] = "failed"]
    /\ UNCHANGED <<dbVars, pc, schedVars, runVars, dep, arg, out, runs, histVars>>

\* An aborted task yields and is dropped; a blocking receive ends first.
DropTask(t) ==
    /\ task[t] = "aborting"
    /\ \A d \in Deps[t] : dep[t][d] # "wait"
    /\ task' = [task EXCEPT ![t] = "none"]
    /\ UNCHANGED <<dbVars, pc, schedVars, runVars, dep, arg, out, runs, histVars>>

-----------------------------------------------------------------------------
(* The environment *)

\* The gossip handler or another worker stores a receipt.
ImportReceipt(r) ==
    /\ r \notin receipts
    /\ store_receipt(r)
    /\ UNCHANGED <<pc, schedVars, runVars, taskVars, runs, histVars>>

\* The runner aborts a task by its AbortHandle, on account of another run of
\* the workflow: the handles of all runs are kept under the workflow's cid.
CancelTask(t) ==
    /\ task[t] = "live"
    /\ \A d \in Deps[t] : dep[t][d] # "wait"
    /\ task' = [task EXCEPT ![t] = "failed"]
    /\ UNCHANGED <<dbVars, pc, schedVars, runVars, dep, arg, out, runs, histVars>>

\* The runner aborts the worker, which takes effect where its future awaits.
\* A function or a receipt that cannot be built ends the run in the same way.
AbortWorker ==
    /\ pc \in {"fetch", "spawn", "join", "write", "notify"}
    /\ Stop
    /\ UNCHANGED <<dbVars, schedVars, runVars, dep, arg, out, runs, histVars>>

\* The process dies: only the database is left.
Crash ==
    /\ pc # "idle"
    /\ pc' = "idle"
    /\ task' = [t \in Task |-> "none"]
    /\ UNCHANGED <<dbVars, schedVars, runVars, dep, arg, out, runs, histVars>>

WorkerStep ==
    \/ ScanSchedule
    \/ FetchResources \/ FetchFails
    \/ SpawnTask \/ SkipTask \/ ResourceMissing
    \/ \E t \in Task : JoinTask(t) \/ JoinFails(t)
    \/ JoinEmpty
    \/ CommitReceipt \/ CommitFails
    \/ NotifyCaptured
    \/ Finish

TaskStep(t) ==
    \/ \E d \in Deps[t] : ResolveCid(t, d) \/ ResolveTimeout(t, d)
    \/ \E o \in Out : RunTask(t, o)
    \/ FailTask(t)
    \/ DropTask(t)

LinkmapStep == \E w \in Writers : WriteLinkmap(w)

NetAnswer == \E t \in Task : \E d \in Deps[t], r \in NetReceipts : ResolveFound(t, d, r)

Next ==
    \/ Start
    \/ WorkerStep
    \/ \E t \in Task : TaskStep(t)
    \/ LinkmapStep
    \/ NetAnswer
    \/ \E r \in Imports : ImportReceipt(r)
    \/ \E t \in Task : CancelTask(t)
    \/ AbortWorker
    \/ Crash

Spec == Init /\ [][Next]_vars

\* The runtime keeps polling the worker and the tasks that can move, a fair
\* lock is granted once free, and a deadline passes.  Nobody has to start a
\* workflow, and neither aborts, crashes nor answers of the DHT ever have to come.
Fairness ==
    /\ WF_vars(WorkerStep)
    /\ WF_vars(LinkmapStep)
    /\ \A t \in Task : WF_vars(TaskStep(t))

FairSpec == Spec /\ Fairness

-----------------------------------------------------------------------------
(* Properties *)

\* Every result a receipted task of this node was run on (worker.rs:383-410)
\* is itself receipted in the database, or is a fetched blob: neither the
\* linkmap, which is written before the commit, nor a failed commit, an abort
\* or a crash lets a task be receipted on a result that is on no record.
InputsReceipted ==
    \A e \in executed : \A d \in DOMAIN e.args :
        e.args[d] = Blob \/ ReceiptOf(d, e.args[d]) \in receipts

\* publish_and_notify (event.rs:321) looks the announced receipt up by its cid:
\* a receipt is announced only once it is stored and linked to the workflow,
\* and a linked receipt is a stored one (the foreign key of the table).
CapturedStored == captured \subseteq links /\ links \subseteq receipts

\* A batch is a barrier (worker.rs:337-501): tasks that can still deliver a
\* result belong to the batch being run, also after a failed task broke the
\* join loop or the run was abandoned.
BatchBarrier ==
    \A t \in Task : task[t] \in {"live", "finished", "failed"} =>
        /\ pc \in {"spawn", "join", "write", "commit", "notify"}
        /\ t \in BatchTasks(batch)

\* A run that ends without an error and in which no task failed or was passed
\* over has a receipt for every task it was left to run.
CleanRunComplete ==
    pc = "done" /\ clean =>
        \A b \in (resume + 1)..Len(Schedule) : \A t \in BatchTasks(b) :
            \E r \in receipts : r.instruction = t

\* The worker implements the receipt log: it only adds receipts, and adds the
\* receipt of an execution only when all its inputs are on record.
Log == INSTANCE ReceiptLog WITH receipts <- receipts, executed <- executed
ImplementsReceiptLog == Log!Spec

\* A future that waits for the write guard on the linkmap.
AwaitsWrite(t, d) == Running(t) /\ dep[t][d] = "write"

\* A run always ends, also when awaited receipts are nowhere to be found,
\* unless one of its tasks waits to store a result the DHT answered with.
RunEnds ==
    (pc # "idle") ~> (pc = "idle" \/ \E t \in Task, d \in Cid : AwaitsWrite(t, d))

\* "Store the result in the linkmap for use in next iterations."
\* (worker.rs:278): a result found on the DHT gets into the linkmap, as long as
\* the task that found it is not aborted and the node does not crash.
FoundIsStored ==
    \A t \in Task, d \in Cid :
        AwaitsWrite(t, d) ~> (linkmap[d] # None \/ task[t] # "live")

\* The debug_assert_eq! of Replay::notify (event.rs:528): the receipts of the
\* replayed instructions are exactly one per instruction of `ran`.
ReplayFindsReceipts ==
    replay # {} =>
        \A t \in replay : Cardinality(find_instruction_by_cid(t)) = 1

\* "Resources that tasks within a Workflow rely on, retrieved through over the
\* network, ahead-of-time." (scheduler.rs:71): no task left to run lacks its
\* module.
ResourcesRetrieved ==
    pc = "spawn" =>
        \A b \in batch..Len(Schedule) : \A t \in BatchTasks(b) :
            Rsc[t][1] \in resources
=============================================================================
