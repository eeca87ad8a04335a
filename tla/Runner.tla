------------------------------- MODULE Runner -------------------------------
(***************************************************************************)
(* The runner (runner.rs): the select! loop of Runner::serve that starts a *)
(* worker per requested workflow, keeps its JoinHandle and its timeout by  *)
(* the cid of the workflow, keeps the AbortHandles of its tasks, and lets  *)
(* go of them when the worker is dropped, has expired or is found finished *)
(* by the garbage collector.                                               *)
(*                                                                         *)
(* Every worker started is a run 1, 2, ...; two runs can be of the same    *)
(* workflow.  A branch of the loop runs to its end before another one is   *)
(* taken, so a branch is one step; workers and tasks move on other threads *)
(* in between.                                                             *)
(***************************************************************************)
EXTENDS Naturals, Sequences, FiniteSets, Functions

CONSTANTS Workflow,   \* cids of workflows
          MaxRuns,    \* bound on the number of runs
          MaxStops,   \* bound on the number of stop commands
          MaxSignals, \* bound on the number of shutdown signals
          MsgCap,     \* capacity of the workers' channel to the runner
          ReqCap      \* capacity of the channels of the RPC and web servers

ASSUME RunnerAssumption ==
    /\ MaxRuns \in Nat /\ MaxStops \in Nat /\ MaxSignals \in Nat
    /\ MsgCap \in Nat \ {0} /\ ReqCap \in Nat \ {0}
    /\ \A w \in Workflow : w # 0

VARIABLES loop,             \* the select! loop: "select" or "down"
          rpc,              \* messages of the RPC server to the runner
          rpcOff,           \* the RPC branch did not match in this iteration
          ws,               \* messages of the web server to the runner
          messages,         \* WorkerMessage::Dropped, with the run that sent it
          wf,               \* workflow of each run, 0 before it is started
          worker,           \* state of each run's worker future
          tasks,            \* state of each run's current batch of tasks
          running_workers,  \* workflow -> run whose handle is kept, 0 if none
          running_tasks,    \* workflow -> runs whose AbortHandles are kept
          expirations,      \* runs with an entry in the expiration queue
          cause,            \* the run whose drop or timeout had a run aborted
          stops,            \* number of stop commands given
          signal,           \* a signal was caught and not yet acted upon
          signals           \* number of shutdown signals sent

runVars  == <<wf, worker, tasks, cause>>
setVars  == <<running_workers, running_tasks, expirations>>
reqVars  == <<rpc, ws, stops>>
sigVars  == <<signal, signals>>
vars == <<loop, rpcOff, reqVars, messages, runVars, setVars, sigVars>>

Run == 1..MaxRuns
Started == {n \in Run : wf[n] # 0}
Request == [type: {"run"}, wf: Workflow] \union [type: {"stop", "info"}]
Message == [cid: Workflow, from: Run]

\* Every variable keeps its type, and the channels their capacity.
TypeOK ==
    /\ loop \in {"select", "down"}
    /\ rpc \in Seq(Request) /\ Len(rpc) <= ReqCap
    /\ ws \in Seq(Request) /\ Len(ws) <= ReqCap
    /\ rpcOff \in BOOLEAN
    /\ messages \in Seq(Message) /\ Len(messages) <= MsgCap
    /\ wf \in [Run -> Workflow \union {0}]
    /\ worker \in [Run -> {"none", "running", "aborting", "finished"}]
    /\ tasks \in [Run -> {"none", "live", "aborting", "over"}]
    /\ running_workers \in [Workflow -> Run \union {0}]
    /\ running_tasks \in [Workflow -> SUBSET Run]
    /\ expirations \subseteq Run
    /\ cause \in [Run -> Run \union {0}]
    /\ stops \in 0..MaxStops
    /\ signal \in BOOLEAN
    /\ signals \in 0..MaxSignals

Init ==
    /\ loop = "select"
    /\ rpc = <<>> /\ ws = <<>> /\ messages = <<>>
    /\ rpcOff = FALSE
    /\ wf = [n \in Run |-> 0]
    /\ worker = [n \in Run |-> "none"]
    /\ tasks = [n \in Run |-> "none"]
    /\ running_workers = [w \in Workflow |-> 0]
    /\ running_tasks = [w \in Workflow |-> {}]
    /\ expirations = {}
    /\ cause = [n \in Run |-> 0]
    /\ stops = 0
    /\ signal = FALSE /\ signals = 0

-----------------------------------------------------------------------------
(* The servers *)

Requested == Cardinality(Started) + Len(SelectSeq(rpc, LAMBDA m : m.type = "run"))
                                  + Len(SelectSeq(ws, LAMBDA m : m.type = "run"))

\* ServerHandler::run.  The servers are shut down with the runner.
RpcRun(w) ==
    /\ loop = "select"
    /\ Requested < MaxRuns
    /\ Len(rpc) < ReqCap
    /\ rpc' = Append(rpc, [type |-> "run", wf |-> w])
    /\ UNCHANGED <<loop, rpcOff, ws, stops, messages, runVars, setVars, sigVars>>

\* ServerHandler::stop.
RpcStop ==
    /\ loop = "select"
    /\ stops < MaxStops
    /\ Len(rpc) < ReqCap
    /\ rpc' = Append(rpc, [type |-> "stop"])
    /\ stops' = stops + 1
    /\ UNCHANGED <<loop, rpcOff, ws, messages, runVars, setVars, sigVars>>

\* The web server asks for a run or for the node's information.
WsRequest(m) ==
    /\ loop = "select"
    /\ Len(ws) < ReqCap
    /\ m.type = "run" => Requested < MaxRuns
    /\ ws' = Append(ws, m)
    /\ UNCHANGED <<loop, rpcOff, rpc, stops, messages, runVars, setVars, sigVars>>

-----------------------------------------------------------------------------
(* The loop *)

\* A branch completes: the futures of the other branches are dropped, the one
\* that listens for signals among them, and the next iteration polls all anew.
Branch ==
    /\ loop = "select"
    /\ rpcOff' = FALSE
    /\ signal' = FALSE
    /\ UNCHANGED signals

\* The abort of the tasks whose handles are in the set; each stops when it yields.
AbortHandles(set) ==
    tasks' = [n \in Run |-> IF n \in set /\ tasks[n] = "live" THEN "aborting" ELSE tasks[n]]

\* abort_worker, on account of run m; q is the expiration queue it finds.
abort_worker(w, m, q) ==
    LET n == running_workers[w] IN
    IF n = 0
    THEN expirations' = q /\ UNCHANGED <<runVars, running_workers, running_tasks>>
    ELSE /\ running_workers' = [running_workers EXCEPT ![w] = 0]
         /\ expirations' = q \ {n}
         /\ worker' = [worker EXCEPT ![n] = IF @ = "running" THEN "aborting" ELSE @]
         /\ cause' = [cause EXCEPT ![n] = IF worker[n] = "running" THEN m ELSE @]
         /\ AbortHandles(running_tasks[w])
         /\ running_tasks' = [running_tasks EXCEPT ![w] = {}]
         /\ UNCHANGED wf

\* SendDropped, were the channel unbounded.
SendDroppedUnbounded(n, w) == messages' = Append(messages, [cid |-> w, from |-> n])

\* Drop for Worker: the message is lost when the channel is full.
SendDropped(n, w) ==
    messages' = IF Len(messages) < MsgCap THEN Append(messages, [cid |-> w, from |-> n])
                                          ELSE messages

\* run_worker, were the timeout of an earlier run of the workflow relied upon.
run_worker_one_timeout(w) ==
    \E n \in Run \ Started :
        /\ \A k \in Run \ Started : n <= k
        /\ wf' = [wf EXCEPT ![n] = w]
        /\ worker' = [worker EXCEPT ![n] = "running"]
        /\ expirations' = IF running_workers[w] = 0 THEN expirations \union {n} ELSE expirations
        /\ running_workers' = [running_workers EXCEPT ![w] = n]
        /\ UNCHANGED <<tasks, cause, running_tasks, messages>>

\* run_worker: the worker is spawned, its timeout armed and its handle kept;
\* the handle of an earlier run of the workflow is overwritten, not aborted.
run_worker(w) ==
    \E n \in Run \ Started :
        /\ \A k \in Run \ Started : n <= k
        /\ wf' = [wf EXCEPT ![n] = w]
        /\ worker' = [worker EXCEPT ![n] = "running"]
        /\ expirations' = expirations \union {n}
        /\ running_workers' = [running_workers EXCEPT ![w] = n]
        /\ UNCHANGED <<tasks, cause, running_tasks, messages>>

\* Worker::new has succeeded, but the workflow cannot be provided to the
\* network: the worker is dropped before it is spawned.
run_worker_fails(w) ==
    \E n \in Run \ Started :
        /\ \A k \in Run \ Started : n <= k
        /\ wf' = [wf EXCEPT ![n] = w]
        /\ worker' = [worker EXCEPT ![n] = "finished"]
        /\ SendDropped(n, w)
        /\ UNCHANGED <<tasks, cause, setVars>>

\* The request does not parse, or Worker::new fails.
reject == UNCHANGED <<messages, runVars, setVars>>

RunOutcome(w) == run_worker(w) \/ run_worker_fails(w) \/ reject

\* The RPC branch matches messages that carry a reply channel ...
HandleRpcRun ==
    /\ Branch
    /\ ~rpcOff
    /\ rpc # <<>> /\ Head(rpc).type = "run"
    /\ rpc' = Tail(rpc)
    /\ RunOutcome(Head(rpc).wf)
    /\ UNCHANGED <<loop, ws, stops>>

\* ... and a stop command carries none: it is received and discarded, and the
\* branch is off until another one completes.
HandleRpcStop ==
    /\ loop = "select"
    /\ ~rpcOff
    /\ rpc # <<>> /\ Head(rpc).type = "stop"
    /\ rpc' = Tail(rpc)
    /\ rpcOff' = TRUE
    /\ UNCHANGED <<loop, ws, stops, messages, runVars, setVars, sigVars>>

HandleWs ==
    /\ Branch
    /\ ws # <<>>
    /\ ws' = Tail(ws)
    /\ IF Head(ws).type = "run" THEN RunOutcome(Head(ws).wf)
                               ELSE UNCHANGED <<messages, runVars, setVars>>
    /\ UNCHANGED <<loop, rpc, stops>>

HandleDropped ==
    /\ Branch
    /\ messages # <<>>
    /\ messages' = Tail(messages)
    /\ abort_worker(Head(messages).cid, Head(messages).from, expirations)
    /\ UNCHANGED <<loop, reqVars>>

Finished == {n \in Run : worker[n] = "finished"}

\* gc, did it look at the workers only.
gc_workers_only ==
    /\ Branch
    /\ expirations' = expirations \ (Finished \intersect Range(running_workers))
    /\ running_workers' =
          [w \in Workflow |-> IF running_workers[w] \in Finished THEN 0
                              ELSE running_workers[w]]
    /\ UNCHANGED <<loop, reqVars, messages, runVars, running_tasks>>

\* The tick of the garbage collector.  Expirations and handles are gone through
\* in two loops, and a worker may end in between: the first loop finds `seen`.
gc ==
    /\ Branch
    /\ running_tasks' =
          [w \in Workflow |-> {n \in running_tasks[w] : tasks[n] # "over"}]
    /\ \E seen \in SUBSET Finished :
          expirations' = expirations \ (seen \intersect Range(running_workers))
    /\ running_workers' =
          [w \in Workflow |-> IF running_workers[w] \in Finished THEN 0
                              ELSE running_workers[w]]
    /\ UNCHANGED <<loop, reqVars, messages, runVars>>

\* HandleExpired, were a timeout only noted.
HandleExpiredNoted(n) ==
    /\ Branch
    /\ n \in expirations
    /\ expirations' = expirations \ {n}
    /\ UNCHANGED <<loop, reqVars, messages, runVars, running_workers, running_tasks>>

\* A workflow has timed out.
HandleExpired(n) ==
    /\ Branch
    /\ n \in expirations
    /\ abort_worker(wf[n], n, expirations \ {n})
    /\ UNCHANGED <<loop, reqVars, messages>>

\* shutdown: every worker and every task with a handle is aborted ...
HandleSignal ==
    /\ loop = "select"
    /\ signal
    /\ loop' = "down"
    /\ worker' = [n \in Run |-> IF worker[n] = "running" /\ n \in Range(running_workers)
                               THEN "aborting" ELSE worker[n]]
    /\ cause' = [n \in Run |-> IF worker'[n] # worker[n] THEN n ELSE cause[n]]
    /\ AbortHandles(UNION Range(running_tasks))
    /\ UNCHANGED <<rpcOff, reqVars, messages, wf, setVars, sigVars>>

\* ... unless draining takes longer than the shutdown timeout.
HandleSignalTimeout ==
    /\ loop = "select"
    /\ signal
    /\ loop' = "down"
    /\ UNCHANGED <<rpcOff, reqVars, messages, runVars, setVars, sigVars>>

-----------------------------------------------------------------------------
(* Workers, tasks and the operating system *)

\* The signal reaches the future that listens in this iteration.
SendSignal ==
    /\ loop = "select"
    /\ signals < MaxSignals
    /\ signals' = signals + 1
    /\ signal' = TRUE
    /\ UNCHANGED <<loop, rpcOff, reqVars, messages, runVars, setVars>>

\* A worker has spawned a batch and adds its handles; one that was told to
\* abort does so too, if it has not yielded since.
append_or_insert(n) ==
    /\ worker[n] \in {"running", "aborting"}
    /\ tasks[n] \in {"none", "over"}
    /\ tasks' = [tasks EXCEPT ![n] = "live"]
    /\ running_tasks' = [running_tasks EXCEPT ![wf[n]] = @ \union {n}]
    /\ UNCHANGED <<loop, rpcOff, reqVars, messages, wf, worker, cause, running_workers,
                   expirations, sigVars>>

\* The tasks of a batch end, by themselves or because they were aborted.
TasksEnd(n) ==
    /\ tasks[n] \in {"live", "aborting"}
    /\ tasks' = [tasks EXCEPT ![n] = "over"]
    /\ UNCHANGED <<loop, rpcOff, reqVars, messages, wf, worker, cause, setVars, sigVars>>

\* The future of the worker returns or is cancelled.  Its JoinSet is dropped
\* with it, and so is the worker.
WorkerEnds(n) ==
    /\ worker[n] \in {"running", "aborting"}
    /\ worker' = [worker EXCEPT ![n] = "finished"]
    /\ AbortHandles({n})
    /\ SendDropped(n, wf[n])
    /\ UNCHANGED <<loop, rpcOff, reqVars, wf, cause, setVars, sigVars>>

Next ==
    \/ \E w \in Workflow : RpcRun(w)
    \/ RpcStop
    \/ \E m \in Request : m.type # "stop" /\ WsRequest(m)
    \/ HandleRpcRun \/ HandleRpcStop \/ HandleWs
    \/ HandleDropped
    \/ gc
    \/ \E n \in Run : HandleExpired(n)
    \/ HandleSignal \/ HandleSignalTimeout
    \/ SendSignal
    \/ \E n \in Run : append_or_insert(n) \/ TasksEnd(n) \/ WorkerEnds(n)

Spec == Init /\ [][Next]_vars

\* select! polls its branches in random order, so a branch that stays ready is
\* taken; ticks and expirations come.  What was aborted stops.  Clients and
\* signals need not come, and a worker or a task that nobody aborts may hang.
Fairness ==
    /\ WF_vars(HandleRpcStop) /\ SF_vars(HandleRpcRun) /\ WF_vars(HandleWs)
    /\ WF_vars(HandleDropped) /\ WF_vars(gc) /\ WF_vars(HandleSignal)
    /\ \A n \in Run : /\ WF_vars(HandleExpired(n))
                      /\ WF_vars(worker[n] = "aborting" /\ WorkerEnds(n))
                      /\ WF_vars(tasks[n] = "aborting" /\ TasksEnd(n))

FairSpec == Spec /\ Fairness

-----------------------------------------------------------------------------
(* Properties *)

\* A worker whose handle is kept has its timeout armed (runner.rs:737-745), and
\* is a run of that workflow: no order of drops, late drops, expirations of
\* earlier runs and collections leaves a kept worker without a timeout.
KeptHasTimeout ==
    \A w \in Workflow : running_workers[w] # 0 =>
        running_workers[w] \in expirations /\ wf[running_workers[w]] = w

Kept(n)      == n \in Range(running_workers)
TasksKept(n) == n \in UNION Range(running_tasks)

\* A worker whose handle is kept is stopped, even if it hangs: it is aborted
\* when its workflow times out (runner.rs:347-357), unless the workflow is run
\* again before, or the runner goes down.
TimeoutEnforced ==
    \A n \in Run :
        (worker[n] = "running" /\ Kept(n))
            ~> \/ worker[n] # "running"
               \/ \E m \in Run : m > n /\ wf[m] = wf[n]
               \/ loop = "down"

\* Handles do not leak: when a worker has ended, its handle goes, also if its
\* Dropped message was lost to a full channel, and the handles of its tasks go,
\* also those it added after it was told to abort (runner.rs:413-435).
HandlesCollected ==
    \A n \in Run : (worker[n] = "finished" /\ (Kept(n) \/ TasksKept(n)))
                      ~> ((~Kept(n) /\ ~TasksKept(n)) \/ loop = "down")

\* "Signal that the [Worker] has been dropped for a workflow run."
\* (worker.rs:60): what a drop or a timeout aborts is the run it belongs to.
AbortsOwnRun == \A n \in Run : cause[n] \in {0, n}

\* "Notify the [Runner] that the RPC server was given a `stop` command."
\* (network/rpc.rs:30), for it to shut down (runner.rs:610-629): after a stop
\* command the runner goes down.
StopShutsDown == (stops > 0) ~> (loop = "down")

\* "Captures shutdown signals for [Runner]." (runner.rs:512): after a signal
\* the runner goes down.
SignalShutsDown == (signals > 0) ~> (loop = "down")
=============================================================================
