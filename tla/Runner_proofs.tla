---------------------------- MODULE Runner_proofs ----------------------------
(***************************************************************************)
(* Proofs that the runner keeps its types, never keeps the handle of a     *)
(* worker whose timeout is not armed, aborts nothing of another workflow   *)
(* and is shut down by signals only, for any number of workflows and runs  *)
(* and any capacities of the channels.                                     *)
(***************************************************************************)
EXTENDS Runner, TLAPS

\* Whatever refers to a run refers to one that was started: a worker that is
\* not "none", and an entry of the expiration queue.
RunsStarted ==
    /\ \A n \in Run : worker[n] # "none" => wf[n] \in Workflow
    /\ \A n \in expirations : wf[n] \in Workflow

IInv == TypeOK /\ RunsStarted /\ KeptHasTimeout

\* abort_worker changes no type, forgets one handle with its timeout, and
\* leaves every other handle and timeout alone but for those missing from q.
LEMMA AbortWorkerEffect ==
    ASSUME IInv, NEW w \in Workflow, NEW m \in Run, NEW q \in SUBSET expirations,
           abort_worker(w, m, q)
    PROVE  /\ worker' \in [Run -> {"none", "running", "aborting", "finished"}]
           /\ tasks' \in [Run -> {"none", "live", "aborting", "over"}]
           /\ cause' \in [Run -> Run \union {0}]
           /\ running_workers' = [running_workers EXCEPT ![w] = 0]
           /\ running_tasks' \in [Workflow -> SUBSET Run]
           /\ expirations' = q \ {running_workers[w]}
           /\ wf' = wf
           /\ \A n \in Run : worker'[n] # "none" => worker[n] # "none"
<1>0. TypeOK /\ Run \subseteq Nat \ {0}
  BY DEF IInv, Run
<1>1. CASE running_workers[w] = 0
  <2>1. expirations' = q /\ UNCHANGED <<runVars, running_workers, running_tasks>>
    BY <1>1 DEF abort_worker
  <2>2. 0 \notin q
    BY <1>0 DEF TypeOK
  <2>3. running_workers = [running_workers EXCEPT ![w] = 0]
    BY <1>0, <1>1 DEF TypeOK
  <2> QED BY <1>0, <1>1, <2>1, <2>2, <2>3 DEF TypeOK, runVars
<1>2. CASE running_workers[w] # 0
  <2> DEFINE k == running_workers[w]
  <2>0. k \in Run
    BY <1>0, <1>2 DEF TypeOK
  <2>1. /\ running_workers' = [running_workers EXCEPT ![w] = 0]
        /\ expirations' = q \ {k}
        /\ worker' = [worker EXCEPT ![k] = IF @ = "running" THEN "aborting" ELSE @]
        /\ cause' = [cause EXCEPT ![k] = IF worker[k] = "running" THEN m ELSE @]
        /\ AbortHandles(running_tasks[w])
        /\ running_tasks' = [running_tasks EXCEPT ![w] = {}]
        /\ UNCHANGED wf
    BY <1>2 DEF abort_worker
  <2> HIDE DEF k
  <2>2. worker' \in [Run -> {"none", "running", "aborting", "finished"}]
        /\ \A n \in Run : worker'[n] # "none" => worker[n] # "none"
    BY <1>0, <2>0, <2>1 DEF TypeOK
  <2>3. tasks' \in [Run -> {"none", "live", "aborting", "over"}]
    BY <1>0, <2>1 DEF TypeOK, AbortHandles
  <2>4. cause' \in [Run -> Run \union {0}] /\ running_tasks' \in [Workflow -> SUBSET Run]
    BY <1>0, <2>0, <2>1 DEF TypeOK
  <2> QED BY <2>1, <2>2, <2>3, <2>4 DEF k
<1> QED BY <1>1, <1>2
\* The part of the invariant on runs, handles and messages, and the rest of
\* the types.
RunsOK ==
    /\ messages \in Seq(Message) /\ Len(messages) <= MsgCap
    /\ wf \in [Run -> Workflow \union {0}]
    /\ worker \in [Run -> {"none", "running", "aborting", "finished"}]
    /\ tasks \in [Run -> {"none", "live", "aborting", "over"}]
    /\ running_workers \in [Workflow -> Run \union {0}]
    /\ running_tasks \in [Workflow -> SUBSET Run]
    /\ expirations \subseteq Run
    /\ cause \in [Run -> Run \union {0}]
    /\ RunsStarted /\ KeptHasTimeout

LoopOK ==
    /\ loop \in {"select", "down"}
    /\ rpc \in Seq(Request) /\ Len(rpc) <= ReqCap
    /\ ws \in Seq(Request) /\ Len(ws) <= ReqCap
    /\ stops \in 0..MaxStops
    /\ signals \in 0..MaxSignals

FlagsOK == rpcOff \in BOOLEAN /\ signal \in BOOLEAN

\* The two parts and the flags make up the invariant.
LEMMA Parts == IInv <=> RunsOK /\ LoopOK /\ FlagsOK
BY DEF IInv, RunsOK, LoopOK, FlagsOK, TypeOK

\* abort_worker leaves every kept worker with its timeout, if the queue it
\* finds lacks at most the timeouts of runs of the same workflow.
LEMMA AbortKeeps ==
    ASSUME IInv, NEW w \in Workflow, NEW m \in Run, NEW q \in SUBSET expirations,
           \A n \in expirations \ q : wf[n] = w,
           abort_worker(w, m, q)
    PROVE  RunsStarted' /\ KeptHasTimeout'
<1>0. IInv /\ TypeOK /\ RunsStarted /\ KeptHasTimeout
  BY DEF IInv
<1>1. /\ running_workers' = [running_workers EXCEPT ![w] = 0]
      /\ expirations' = q \ {running_workers[w]}
      /\ wf' = wf
      /\ \A n \in Run : worker'[n] # "none" => worker[n] # "none"
  BY AbortWorkerEffect
<1>2. RunsStarted'
  BY <1>0, <1>1 DEF RunsStarted
<1>3. ASSUME NEW v \in Workflow, running_workers'[v] # 0
      PROVE  running_workers'[v] \in expirations' /\ wf'[running_workers'[v]] = v
  <2>1. v # w /\ running_workers'[v] = running_workers[v]
    BY <1>0, <1>1, <1>3 DEF TypeOK
  <2>2. running_workers[v] \in expirations /\ wf[running_workers[v]] = v
    BY <1>0, <1>3, <2>1 DEF KeptHasTimeout
  <2>3. running_workers[v] # running_workers[w]
    BY <1>0, <1>3, <2>1, <2>2 DEF KeptHasTimeout
  <2> QED BY <1>1, <2>1, <2>2, <2>3
<1> QED BY <1>2, <1>3 DEF KeptHasTimeout

\* The drop of a worker keeps the channel within its capacity.
LEMMA SendDroppedOK ==
    ASSUME messages \in Seq(Message), Len(messages) <= MsgCap,
           NEW n \in Run, NEW w \in Workflow, SendDropped(n, w)
    PROVE  messages' \in Seq(Message) /\ Len(messages') <= MsgCap
<1>1. [cid |-> w, from |-> n] \in Message /\ MsgCap \in Nat
  BY RunnerAssumption DEF Message
<1>2. CASE Len(messages) < MsgCap
  <2>1. messages' = Append(messages, [cid |-> w, from |-> n])
    BY <1>2 DEF SendDropped
  <2> QED BY <1>1, <1>2, <2>1
<1>3. CASE ~(Len(messages) < MsgCap)
  BY <1>3 DEF SendDropped
<1> QED BY <1>2, <1>3

\* A request to run a workflow, whatever becomes of it.
LEMMA RunOutcomeOK ==
    ASSUME IInv, NEW w \in Workflow, RunOutcome(w)
    PROVE  RunsOK'
<1>0. TypeOK /\ RunsStarted /\ KeptHasTimeout /\ RunsOK
  BY Parts DEF IInv
<1>1. Run \subseteq Nat \ {0} /\ w # 0 /\ MsgCap \in Nat
  BY RunnerAssumption DEF Run
<1>2. CASE reject
  BY <1>0, <1>2 DEF reject, RunsOK, runVars, setVars, RunsStarted, KeptHasTimeout
<1>3. CASE run_worker(w)
  <2>1. PICK n \in Run \ Started :
            /\ wf' = [wf EXCEPT ![n] = w]
            /\ worker' = [worker EXCEPT ![n] = "running"]
            /\ expirations' = expirations \union {n}
            /\ running_workers' = [running_workers EXCEPT ![w] = n]
            /\ UNCHANGED <<tasks, cause, running_tasks, messages>>
    BY Zenon, <1>3 DEF run_worker
  <2>2. n \in Run /\ wf[n] = 0
    BY DEF Started
  <2>3. RunsStarted'
    BY <1>0, <2>1, <2>2 DEF RunsStarted, RunsOK
  <2>4. ASSUME NEW v \in Workflow, running_workers'[v] # 0
        PROVE  running_workers'[v] \in expirations' /\ wf'[running_workers'[v]] = v
    <3>1. CASE v = w
      BY <1>0, <2>1, <2>2, <3>1 DEF RunsOK
    <3>2. CASE v # w
      <4>1. running_workers[v] \in expirations /\ wf[running_workers[v]] = v
            /\ running_workers'[v] = running_workers[v]
        BY <1>0, <2>1, <2>4, <3>2 DEF KeptHasTimeout, RunsOK
      <4>2. v # 0
        BY RunnerAssumption
      <4> QED BY <1>0, <2>1, <2>2, <4>1, <4>2 DEF RunsOK
    <3> QED BY <3>1, <3>2
  <2>5. KeptHasTimeout'
    BY <2>4 DEF KeptHasTimeout
  <2> QED BY <1>0, <2>1, <2>2, <2>3, <2>5 DEF RunsOK
<1>4. CASE run_worker_fails(w)
  <2>1. PICK n \in Run \ Started :
            /\ wf' = [wf EXCEPT ![n] = w]
            /\ worker' = [worker EXCEPT ![n] = "finished"]
            /\ SendDropped(n, w)
            /\ UNCHANGED <<tasks, cause, setVars>>
    BY Zenon, <1>4 DEF run_worker_fails
  <2>2. n \in Run /\ wf[n] = 0
    BY DEF Started
  <2>3. RunsStarted'
    BY <1>0, <2>1, <2>2 DEF RunsStarted, RunsOK, setVars
  <2>4. KeptHasTimeout'
    BY <1>0, <2>1, <2>2, RunnerAssumption DEF KeptHasTimeout, RunsOK, setVars
  <2>5. messages' \in Seq(Message) /\ Len(messages') <= MsgCap
    BY <1>0, <1>1, <2>1, <2>2, SendDroppedOK DEF RunsOK
  <2> QED BY <1>0, <2>1, <2>2, <2>3, <2>4, <2>5 DEF RunsOK, setVars
<1> QED BY <1>2, <1>3, <1>4 DEF RunOutcome
\* Every step keeps runs, handles, timeouts and messages in order.
LEMMA RunsStep ==
    ASSUME IInv, Next
    PROVE  RunsOK'
<1> USE DEF runVars, setVars, reqVars, sigVars
<1>0. IInv /\ TypeOK /\ RunsStarted /\ KeptHasTimeout /\ RunsOK /\ LoopOK
  BY Parts DEF IInv
<1>1. ASSUME UNCHANGED <<messages, runVars, setVars>>
      PROVE  RunsOK'
  BY <1>0, <1>1 DEF RunsOK, RunsStarted, KeptHasTimeout
<1>2. CASE \/ \E w \in Workflow : RpcRun(w)
           \/ RpcStop
           \/ \E m \in Request : WsRequest(m)
           \/ HandleRpcStop \/ HandleSignalTimeout \/ SendSignal
  BY Zenon, <1>1, <1>2 DEF RpcRun, RpcStop, WsRequest, HandleRpcStop, HandleSignalTimeout, SendSignal
<1>3. \A m \in Request : m.type = "run" => m.wf \in Workflow
  BY DEF Request
<1>4. CASE HandleRpcRun
  <2>1. Head(rpc) \in Request
    BY <1>0, <1>4 DEF HandleRpcRun, LoopOK
  <2> QED BY <1>0, <1>3, <1>4, <2>1, RunOutcomeOK DEF HandleRpcRun
<1>5. CASE HandleWs
  <2>1. Head(ws) \in Request
    BY <1>0, <1>5 DEF HandleWs, LoopOK
  <2> QED BY <1>0, <1>1, <1>3, <1>5, <2>1, RunOutcomeOK DEF HandleWs
<1>6. CASE HandleDropped
  <2> DEFINE m == Head(messages)
  <2>0. m \in Message
    BY <1>0, <1>6 DEF HandleDropped, RunsOK
  <2>1. m.cid \in Workflow /\ m.from \in Run
    BY <2>0 DEF Message
  <2>2. abort_worker(m.cid, m.from, expirations) /\ messages' = Tail(messages) /\ messages # <<>>
    BY <1>6 DEF HandleDropped
  <2>3. messages' \in Seq(Message) /\ Len(messages') <= MsgCap
    BY <1>0, <2>2, RunnerAssumption DEF RunsOK
  <2> HIDE DEF m
  <2>4. RunsStarted' /\ KeptHasTimeout'
    BY <1>0, <2>1, <2>2, AbortKeeps
  <2>5. /\ running_workers' = [running_workers EXCEPT ![m.cid] = 0]
        /\ expirations' = expirations \ {running_workers[m.cid]}
        /\ worker' \in [Run -> {"none", "running", "aborting", "finished"}]
        /\ tasks' \in [Run -> {"none", "live", "aborting", "over"}]
        /\ cause' \in [Run -> Run \union {0}]
        /\ running_tasks' \in [Workflow -> SUBSET Run]
        /\ wf' = wf
    BY <1>0, <2>1, <2>2, AbortWorkerEffect
  <2> QED BY <1>0, <2>1, <2>3, <2>4, <2>5 DEF RunsOK
<1>7. CASE gc
  <2>1. PICK seen \in SUBSET Finished :
           expirations' = expirations \ (seen \intersect Range(running_workers))
    BY <1>7 DEF gc
  <2>2. /\ running_workers' = [w \in Workflow |-> IF running_workers[w] \in Finished THEN 0
                                                  ELSE running_workers[w]]
        /\ running_tasks' = [w \in Workflow |-> {n \in running_tasks[w] : tasks[n] # "over"}]
        /\ UNCHANGED <<messages, runVars>>
    BY <1>7 DEF gc
  <2>3. RunsStarted'
    BY <1>0, <2>1, <2>2 DEF RunsStarted
  <2>4. KeptHasTimeout'
    BY <1>0, <2>1, <2>2 DEF KeptHasTimeout
  <2> QED BY <1>0, <2>1, <2>2, <2>3, <2>4 DEF RunsOK
<1>8. CASE \E n \in Run : HandleExpired(n)
  <2>1. PICK n \in Run : HandleExpired(n)
    BY <1>8
  <2>2. /\ n \in expirations /\ wf[n] \in Workflow
        /\ abort_worker(wf[n], n, expirations \ {n}) /\ messages' = messages
    BY <1>0, <2>1 DEF HandleExpired, RunsStarted
  <2>3. RunsStarted' /\ KeptHasTimeout'
    BY <1>0, <2>2, AbortKeeps
  <2>4. n \in Run /\ expirations \ {n} \in SUBSET expirations
    OBVIOUS
  <2>5. /\ worker' \in [Run -> {"none", "running", "aborting", "finished"}]
        /\ tasks' \in [Run -> {"none", "live", "aborting", "over"}]
        /\ cause' \in [Run -> Run \union {0}]
        /\ running_workers' = [running_workers EXCEPT ![wf[n]] = 0]
        /\ running_tasks' \in [Workflow -> SUBSET Run]
        /\ expirations' = (expirations \ {n}) \ {running_workers[wf[n]]}
        /\ wf' = wf
    BY Zenon, <2>2, <2>4, AbortWorkerEffect
  <2>6. running_workers' \in [Workflow -> Run \union {0}] /\ expirations' \subseteq Run
    BY <1>0, <2>5 DEF RunsOK
  <2> QED BY Zenon, <1>0, <2>2, <2>3, <2>5, <2>6 DEF RunsOK
<1>9. CASE HandleSignal
  <2>1. /\ worker' = [n \in Run |-> IF worker[n] = "running" /\ n \in Range(running_workers)
                                    THEN "aborting" ELSE worker[n]]
        /\ cause' = [n \in Run |-> IF worker'[n] # worker[n] THEN n ELSE cause[n]]
        /\ AbortHandles(UNION Range(running_tasks))
        /\ UNCHANGED <<messages, wf, setVars>>
    BY <1>9 DEF HandleSignal
  <2>2. RunsStarted' /\ KeptHasTimeout'
    BY <1>0, <2>1 DEF RunsStarted, KeptHasTimeout
  <2>3. tasks' \in [Run -> {"none", "live", "aborting", "over"}]
    BY <1>0, <2>1 DEF AbortHandles, RunsOK
  <2> QED BY <1>0, <2>1, <2>2, <2>3 DEF RunsOK
<1>10. CASE \E n \in Run : append_or_insert(n) \/ TasksEnd(n)
  <2>1. PICK n \in Run : append_or_insert(n) \/ TasksEnd(n)
    BY <1>10
  <2>2. UNCHANGED <<messages, wf, worker, cause, running_workers, expirations>>
    BY <2>1 DEF append_or_insert, TasksEnd
  <2>3. tasks' \in [Run -> {"none", "live", "aborting", "over"}]
    BY <1>0, <2>1 DEF append_or_insert, TasksEnd, RunsOK
  <2>4. running_tasks' \in [Workflow -> SUBSET Run]
    BY <1>0, <2>1 DEF append_or_insert, TasksEnd, RunsOK
  <2>5. RunsStarted' /\ KeptHasTimeout'
    BY <1>0, <2>1, <2>2 DEF append_or_insert, TasksEnd, RunsOK, RunsStarted, KeptHasTimeout
  <2> QED BY <1>0, <2>2, <2>3, <2>4, <2>5 DEF RunsOK
<1>11. CASE \E n \in Run : WorkerEnds(n)
  <2>1. PICK n \in Run : WorkerEnds(n)
    BY <1>11
  <2>2. /\ worker[n] \in {"running", "aborting"}
        /\ worker' = [worker EXCEPT ![n] = "finished"]
        /\ SendDropped(n, wf[n]) /\ wf[n] \in Workflow
        /\ UNCHANGED <<wf, cause, setVars>>
    BY <1>0, <2>1 DEF WorkerEnds, RunsStarted
  <2>3. messages' \in Seq(Message) /\ Len(messages') <= MsgCap
    BY <1>0, <2>2, SendDroppedOK DEF RunsOK
  <2>4. tasks' \in [Run -> {"none", "live", "aborting", "over"}]
    BY <1>0, <2>1 DEF WorkerEnds, AbortHandles, RunsOK
  <2> QED BY Zenon, <1>0, <2>2, <2>3, <2>4 DEF RunsOK, RunsStarted, KeptHasTimeout
<1> QED
  BY <1>2, <1>4, <1>5, <1>6, <1>7, <1>8, <1>9, <1>10, <1>11 DEF Next
\* Every step keeps the loop and the request channels in order.
LEMMA LoopStep ==
    ASSUME IInv, Next
    PROVE  LoopOK'
<1> USE DEF reqVars, sigVars
<1>0. LoopOK
  BY Parts
<1>a. ReqCap \in Nat \ {0} /\ MaxStops \in Nat /\ MaxSignals \in Nat
  BY RunnerAssumption
<1>1. CASE \E w \in Workflow : RpcRun(w)
  <2>1. PICK w \in Workflow : RpcRun(w)
    BY <1>1
  <2>2. PICK m \in Request : rpc' = Append(rpc, m)
    BY <2>1 DEF RpcRun, Request
  <2> QED BY <1>0, <1>a, <2>1, <2>2 DEF RpcRun, LoopOK
<1>9. CASE \E m \in Request : WsRequest(m)
  BY <1>0, <1>9, <1>a DEF WsRequest, LoopOK
<1>2. CASE RpcStop
  <2>1. [type |-> "stop"] \in Request
    BY DEF Request
  <2> QED BY <1>0, <1>2, <1>a, <2>1 DEF RpcStop, LoopOK
<1>b. \A s \in Seq(Request) : s # <<>> => Tail(s) \in Seq(Request) /\ Len(Tail(s)) <= Len(s)
  OBVIOUS
<1>3. CASE HandleRpcRun \/ HandleRpcStop
  <2>1. rpc # <<>> /\ rpc' = Tail(rpc) /\ UNCHANGED <<loop, ws, stops, signals>>
    BY <1>3 DEF HandleRpcRun, HandleRpcStop, Branch
  <2>2. rpc' \in Seq(Request) /\ Len(rpc') <= ReqCap
    BY <1>0, <1>a, <1>b, <2>1 DEF LoopOK
  <2> QED BY <1>0, <2>1, <2>2 DEF LoopOK
<1>4. CASE HandleWs
  <2>1. ws # <<>> /\ ws' = Tail(ws) /\ UNCHANGED <<loop, rpc, stops, signals>>
    BY <1>4 DEF HandleWs, Branch
  <2>2. ws' \in Seq(Request) /\ Len(ws') <= ReqCap
    BY <1>0, <1>a, <1>b, <2>1 DEF LoopOK
  <2> QED BY <1>0, <2>1, <2>2 DEF LoopOK
<1>5. CASE HandleDropped \/ gc \/ \E n \in Run : HandleExpired(n)
  BY Zenon, <1>0, <1>5 DEF HandleDropped, gc, HandleExpired, Branch, LoopOK
<1>6. CASE HandleSignal \/ HandleSignalTimeout
  BY <1>0, <1>6 DEF HandleSignal, HandleSignalTimeout, LoopOK
<1>7. CASE SendSignal
  BY <1>0, <1>7, <1>a DEF SendSignal, LoopOK
<1>8. CASE \E n \in Run : append_or_insert(n) \/ TasksEnd(n) \/ WorkerEnds(n)
  BY <1>0, <1>8 DEF append_or_insert, TasksEnd, WorkerEnds, LoopOK
<1> QED
  BY <1>1, <1>2, <1>3, <1>4, <1>5, <1>6, <1>7, <1>8, <1>9 DEF Next

\* The flags stay Boolean.
LEMMA FlagsStep ==
    ASSUME IInv, Next
    PROVE  FlagsOK'
<1>0. FlagsOK
  BY Parts
<1>1. rpcOff' \in {rpcOff, TRUE, FALSE} /\ signal' \in {signal, TRUE, FALSE}
  BY Zenon DEF Next, RpcRun, RpcStop, WsRequest, HandleRpcRun, HandleRpcStop, HandleWs, HandleDropped,
     gc, HandleExpired, HandleSignal, HandleSignalTimeout, SendSignal, append_or_insert, TasksEnd,
     WorkerEnds, Branch, sigVars
<1> QED BY Zenon, <1>0, <1>1 DEF FlagsOK

\* The invariant is inductive.
THEOREM RunnerInductive == Spec => []IInv
<1>1. Init => IInv
  <2>1. Init => RunsOK
    BY RunnerAssumption DEF Init, RunsOK, RunsStarted, KeptHasTimeout
  <2>2. Init => LoopOK
    BY RunnerAssumption DEF Init, LoopOK
  <2>3. Init => FlagsOK
    BY Zenon DEF Init, FlagsOK
  <2> QED BY <2>1, <2>2, <2>3, Parts
<1>2. IInv /\ [Next]_vars => IInv'
  <2>1. ASSUME IInv, Next PROVE IInv'
    <3>1. RunsOK' /\ LoopOK' /\ FlagsOK'
      BY Zenon, <2>1, RunsStep, LoopStep, FlagsStep
    <3> QED BY Zenon, <3>1 DEF IInv, TypeOK, RunsOK, LoopOK, FlagsOK
  <2>2. ASSUME IInv, UNCHANGED vars PROVE IInv'
    BY Zenon, <2>2 DEF vars, reqVars, runVars, setVars, sigVars, IInv, TypeOK, RunsStarted, KeptHasTimeout
  <2> QED BY <2>1, <2>2
<1> QED BY <1>1, <1>2, PTL DEF Spec

\* The types of the runner's variables, and the capacity of its channels, hold
\* for any number of workflows and runs.
THEOREM RunnerTypeCorrect == Spec => []TypeOK
BY RunnerInductive, PTL DEF IInv

\* No kept worker is without its timeout (runner.rs:736-745): no order of drops,
\* expirations, collections and overwritten handles leaves one that could run
\* for ever unnoticed.
THEOREM KeptAlwaysHasTimeout == Spec => []KeptHasTimeout
BY RunnerInductive, PTL DEF IInv

-----------------------------------------------------------------------------
(* How far an abort and a stop command reach *)

\* A message, a task's handle and the cause of an abort are of a run of the
\* workflow they are kept under.
MessagesOwn == \A k \in DOMAIN messages : wf[messages[k].from] = messages[k].cid
HandlesOwn  == \A w \in Workflow : \A n \in running_tasks[w] : wf[n] = w
CausesOwn   == \A n \in Run : cause[n] # 0 => wf[n] # 0 /\ wf[cause[n]] = wf[n]

OwnWorkflow == MessagesOwn /\ HandlesOwn /\ CausesOwn

\* A run that has been started keeps its workflow, and what is known of the
\* started ones stays true.
LEMMA OwnKept ==
    ASSUME IInv, OwnWorkflow,
           \A n \in Run : wf[n] # 0 => wf'[n] = wf[n],
           UNCHANGED <<running_tasks, cause>>
    PROVE  /\ HandlesOwn' /\ CausesOwn'
           /\ \A k \in DOMAIN messages : wf'[messages[k].from] = messages[k].cid
<1>0. 0 \notin Workflow /\ TypeOK
  BY RunnerAssumption DEF IInv
<1>1. HandlesOwn'
  BY <1>0 DEF HandlesOwn, OwnWorkflow, TypeOK
<1>2. CausesOwn'
  BY <1>0 DEF CausesOwn, OwnWorkflow, TypeOK
<1>3. ASSUME NEW k \in DOMAIN messages PROVE wf'[messages[k].from] = messages[k].cid
  <2>1. messages[k] \in Message
    BY <1>0 DEF TypeOK
  <2> QED BY <1>0, <2>1 DEF Message, MessagesOwn, OwnWorkflow
<1> QED BY <1>1, <1>2, <1>3

\* Drop for Worker names the workflow of the run.
LEMMA DropOwn ==
    ASSUME NEW n \in Run, NEW w \in Workflow, SendDropped(n, w), messages \in Seq(Message),
           \A k \in DOMAIN messages : wf'[messages[k].from] = messages[k].cid, wf'[n] = w
    PROVE  MessagesOwn'
<1>1. CASE messages' = messages
  BY <1>1 DEF MessagesOwn
<1>2. CASE messages' = Append(messages, [cid |-> w, from |-> n])
  <2>1. ASSUME NEW k \in DOMAIN messages'
        PROVE  wf'[messages'[k].from] = messages'[k].cid
    <3>1. CASE k \in DOMAIN messages
      BY <1>2, <3>1
    <3>2. CASE k \notin DOMAIN messages
      <4>1. k = Len(messages) + 1
        BY <1>2, <3>2
      <4>2. messages'[k] = [cid |-> w, from |-> n]
        BY <1>2, <4>1
      <4> QED BY <4>2
    <3> QED BY <3>1, <3>2
  <2> QED BY <2>1 DEF MessagesOwn
<1> QED BY <1>1, <1>2 DEF SendDropped

\* abort_worker aborts the run whose handle is kept under the workflow, on
\* account of a run of that workflow.
LEMMA AbortOwn ==
    ASSUME IInv, OwnWorkflow, NEW w \in Workflow, NEW m \in Run, NEW q, wf[m] = w,
           abort_worker(w, m, q)
    PROVE  HandlesOwn' /\ CausesOwn' /\ wf' = wf
<1>0. 0 \notin Workflow /\ TypeOK /\ KeptHasTimeout
  BY RunnerAssumption DEF IInv
<1> DEFINE n == running_workers[w]
<1>1. CASE n = 0
  <2>1. UNCHANGED <<runVars, running_workers, running_tasks>>
    BY <1>1 DEF abort_worker
  <2> QED BY <2>1 DEF runVars, HandlesOwn, CausesOwn, OwnWorkflow
<1>2. CASE n # 0
  <2>1. /\ cause' = [cause EXCEPT ![n] = IF worker[n] = "running" THEN m ELSE @]
        /\ running_tasks' = [running_tasks EXCEPT ![w] = {}]
        /\ wf' = wf
    BY <1>2 DEF abort_worker
  <2>2. n \in Run /\ wf[n] = w
    BY <1>0, <1>2 DEF TypeOK, KeptHasTimeout
  <2> HIDE DEF n
  <2>3. HandlesOwn'
    BY <1>0, <2>1 DEF HandlesOwn, OwnWorkflow, TypeOK
  <2>4. CausesOwn'
    BY <1>0, <2>1, <2>2 DEF CausesOwn, OwnWorkflow, TypeOK
  <2> QED BY <2>1, <2>3, <2>4
<1> QED BY <1>1, <1>2

\* Whatever becomes of a request to run a workflow.
LEMMA OutcomeOwn ==
    ASSUME IInv, OwnWorkflow, NEW w \in Workflow, RunOutcome(w)
    PROVE  OwnWorkflow'
<1>0. TypeOK /\ messages \in Seq(Message)
  BY DEF IInv, TypeOK
<1>1. CASE reject
  BY <1>1 DEF reject, runVars, setVars, OwnWorkflow, MessagesOwn, HandlesOwn, CausesOwn
<1>2. CASE run_worker(w) \/ run_worker_fails(w)
  <2>1. PICK n \in Run \ Started :
           /\ wf' = [wf EXCEPT ![n] = w] /\ UNCHANGED <<running_tasks, cause>>
           /\ SendDropped(n, w) \/ messages' = messages
    BY Zenon, <1>2 DEF run_worker, run_worker_fails, setVars
  <2>2. n \in Run /\ wf[n] = 0 /\ wf'[n] = w /\ \A k \in Run : wf[k] # 0 => wf'[k] = wf[k]
    BY <1>0, <2>1 DEF TypeOK, Started
  <2>3. /\ HandlesOwn' /\ CausesOwn'
        /\ \A k \in DOMAIN messages : wf'[messages[k].from] = messages[k].cid
    BY Zenon, <2>1, <2>2, OwnKept
  <2>4. MessagesOwn'
    <3>1. CASE messages' = messages
      BY <2>3, <3>1 DEF MessagesOwn
    <3>2. CASE SendDropped(n, w)
      BY Zenon, <1>0, <2>2, <2>3, <3>2, DropOwn
    <3> QED BY <2>1, <3>1, <3>2
  <2> QED BY <2>3, <2>4 DEF OwnWorkflow
<1> QED BY <1>1, <1>2 DEF RunOutcome

\* Every step keeps what is kept of a workflow with its own runs.
LEMMA OwnStep ==
    ASSUME IInv, OwnWorkflow, Next
    PROVE  OwnWorkflow'
<1> USE DEF runVars, setVars, reqVars, sigVars
<1>0. /\ TypeOK /\ RunsStarted /\ messages \in Seq(Message) /\ 0 \notin Workflow
      /\ rpc \in Seq(Request) /\ ws \in Seq(Request)
  BY RunnerAssumption DEF IInv, TypeOK
<1>1. ASSUME UNCHANGED <<messages, wf, cause, running_tasks>> PROVE OwnWorkflow'
  BY <1>1 DEF OwnWorkflow, MessagesOwn, HandlesOwn, CausesOwn
<1>2. CASE \/ \E w \in Workflow : RpcRun(w)
           \/ RpcStop
           \/ \E m \in Request : WsRequest(m)
           \/ HandleRpcStop \/ HandleSignalTimeout \/ SendSignal
  BY Zenon, <1>1, <1>2 DEF RpcRun, RpcStop, WsRequest, HandleRpcStop, HandleSignalTimeout, SendSignal
<1>3. \A m \in Request : m.type = "run" => m.wf \in Workflow
  BY DEF Request
<1>4. CASE HandleRpcRun
  <2>1. Head(rpc) \in Request
    BY <1>0, <1>4 DEF HandleRpcRun
  <2> QED BY <1>3, <1>4, <2>1, OutcomeOwn DEF HandleRpcRun
<1>5. CASE HandleWs
  <2>1. Head(ws) \in Request
    BY <1>0, <1>5 DEF HandleWs
  <2> QED BY <1>1, <1>3, <1>5, <2>1, OutcomeOwn DEF HandleWs
<1>6. CASE HandleDropped
  <2> DEFINE m == Head(messages)
  <2>1. /\ messages # <<>> /\ messages' = Tail(messages)
        /\ abort_worker(m.cid, m.from, expirations)
    BY <1>6 DEF HandleDropped
  <2>2. m \in Message /\ m = messages[1] /\ 1 \in DOMAIN messages
    BY <1>0, <2>1
  <2>3. m.cid \in Workflow /\ m.from \in Run /\ wf[m.from] = m.cid
    BY <2>2 DEF Message, MessagesOwn, OwnWorkflow
  <2> HIDE DEF m
  <2>4. HandlesOwn' /\ CausesOwn' /\ wf' = wf
    BY Zenon, <2>1, <2>3, AbortOwn
  <2>5. \A k \in DOMAIN messages' : k + 1 \in DOMAIN messages /\ messages'[k] = messages[k + 1]
    BY <1>0, <2>1
  <2>6. MessagesOwn'
    BY <2>4, <2>5 DEF MessagesOwn, OwnWorkflow
  <2> QED BY <2>4, <2>6 DEF OwnWorkflow
<1>7. CASE gc
  <2>1. /\ running_tasks' = [w \in Workflow |-> {n \in running_tasks[w] : tasks[n] # "over"}]
        /\ UNCHANGED <<messages, wf, cause>>
    BY <1>7 DEF gc
  <2> QED BY <2>1 DEF OwnWorkflow, MessagesOwn, HandlesOwn, CausesOwn
<1>8. CASE \E n \in Run : HandleExpired(n)
  <2>1. PICK n \in Run : HandleExpired(n)
    BY <1>8
  <2>2. /\ wf[n] \in Workflow /\ messages' = messages
        /\ abort_worker(wf[n], n, expirations \ {n})
    BY <1>0, <2>1 DEF HandleExpired, RunsStarted
  <2>3. HandlesOwn' /\ CausesOwn' /\ wf' = wf
    BY Zenon, <2>2, AbortOwn
  <2> QED BY <2>2, <2>3 DEF OwnWorkflow, MessagesOwn
<1>9. CASE HandleSignal
  <2>1. /\ worker' = [n \in Run |-> IF worker[n] = "running" /\ n \in Range(running_workers)
                                    THEN "aborting" ELSE worker[n]]
        /\ cause' = [n \in Run |-> IF worker'[n] # worker[n] THEN n ELSE cause[n]]
        /\ UNCHANGED <<messages, wf, running_tasks>>
    BY <1>9 DEF HandleSignal
  <2>2. CausesOwn'
    BY <1>0, <2>1 DEF CausesOwn, OwnWorkflow, RunsStarted
  <2> QED BY <2>1, <2>2 DEF OwnWorkflow, MessagesOwn, HandlesOwn
<1>10. CASE \E n \in Run : append_or_insert(n)
  <2>1. PICK n \in Run : append_or_insert(n)
    BY <1>10
  <2>2. /\ running_tasks' = [running_tasks EXCEPT ![wf[n]] = @ \union {n}]
        /\ UNCHANGED <<messages, wf, cause>>
    BY <2>1 DEF append_or_insert
  <2>3. HandlesOwn'
    BY <1>0, <2>2 DEF HandlesOwn, OwnWorkflow, TypeOK
  <2> QED BY <2>2, <2>3 DEF OwnWorkflow, MessagesOwn, CausesOwn
<1>11. CASE \E n \in Run : TasksEnd(n)
  BY Zenon, <1>1, <1>11 DEF TasksEnd
<1>12. CASE \E n \in Run : WorkerEnds(n)
  <2>1. PICK n \in Run : WorkerEnds(n)
    BY <1>12
  <2>2. /\ wf[n] \in Workflow /\ SendDropped(n, wf[n])
        /\ UNCHANGED <<wf, cause, running_tasks>>
    BY <1>0, <2>1 DEF WorkerEnds, RunsStarted
  <2>3. \A k \in DOMAIN messages : wf'[messages[k].from] = messages[k].cid
    BY <2>2 DEF OwnWorkflow, MessagesOwn
  <2>4. MessagesOwn'
    BY Zenon, <1>0, <2>2, <2>3, DropOwn
  <2> QED BY <2>2, <2>4 DEF OwnWorkflow, HandlesOwn, CausesOwn
<1> QED
  BY <1>2, <1>4, <1>5, <1>6, <1>7, <1>8, <1>9, <1>10, <1>11, <1>12 DEF Next

\* An abort never reaches beyond the workflow it is about: messages, handles
\* and expirations are keyed by the workflow (runner.rs:347-435), and no order
\* of drops, timeouts and late handles mixes two workflows up.
THEOREM AbortsStayInWorkflow == Spec => []OwnWorkflow
<1>1. Init => OwnWorkflow
  BY DEF Init, OwnWorkflow, MessagesOwn, HandlesOwn, CausesOwn
<1>2. IInv /\ OwnWorkflow /\ [Next]_vars => OwnWorkflow'
  <2>1. ASSUME OwnWorkflow, UNCHANGED vars PROVE OwnWorkflow'
    BY <2>1 DEF vars, runVars, setVars, OwnWorkflow, MessagesOwn, HandlesOwn, CausesOwn
  <2> QED BY <2>1, OwnStep
<1> QED BY <1>1, <1>2, RunnerInductive, PTL DEF Spec

\* No workflow is run a second time.
OneRunEach == \A m, n \in Started : wf[m] = wf[n] => m = n

\* AbortsOwnRun fails only where a workflow is run again: as long as each one
\* is run once, a drop or a timeout aborts the run it belongs to.
THEOREM OneRunAbortsOwn == Spec => [](OneRunEach => AbortsOwnRun)
<1>1. IInv /\ OwnWorkflow => (OneRunEach => AbortsOwnRun)
  <2> SUFFICES ASSUME IInv, OwnWorkflow, OneRunEach, NEW n \in Run, cause[n] # 0
               PROVE  cause[n] = n
    BY Zenon DEF AbortsOwnRun
  <2>1. cause[n] \in Run
    BY DEF IInv, TypeOK
  <2>2. n \in Started /\ cause[n] \in Started /\ wf[cause[n]] = wf[n]
    BY <2>1 DEF OwnWorkflow, CausesOwn, Started
  <2> QED BY <2>2 DEF OneRunEach
<1> QED BY <1>1, RunnerInductive, AbortsStayInWorkflow, PTL

\* The runner is down, or about to be, only after a signal.
DownBySignal == (signal \/ loop = "down") => signals > 0

\* However many stop commands are given (network/rpc.rs:30), and in whatever
\* order with other requests, none of them shuts the runner down: only a
\* signal of the operating system does.
THEOREM OnlySignalsShutDown == Spec => []DownBySignal
<1>1. Init => DownBySignal
  BY DEF Init, DownBySignal
<1>2. TypeOK /\ DownBySignal /\ [Next]_vars => DownBySignal'
  <2> SUFFICES ASSUME TypeOK, DownBySignal, [Next]_vars PROVE DownBySignal'
    OBVIOUS
  <2>1. CASE SendSignal
    BY <2>1, RunnerAssumption DEF SendSignal, DownBySignal, TypeOK
  <2>2. CASE HandleSignal \/ HandleSignalTimeout
    BY <2>2 DEF HandleSignal, HandleSignalTimeout, DownBySignal, sigVars
  <2>3. ASSUME loop' = loop, signals' = signals, signal' \in {signal, FALSE} PROVE DownBySignal'
    BY <2>3, Zenon DEF DownBySignal
  <2>4. CASE HandleRpcRun \/ HandleWs \/ HandleDropped \/ gc \/ \E n \in Run : HandleExpired(n)
    BY <2>3, <2>4, Zenon DEF HandleRpcRun, HandleWs, HandleDropped, gc, HandleExpired, Branch
  <2>5. CASE \/ \E w \in Workflow : RpcRun(w)
             \/ RpcStop
             \/ \E m \in Request : WsRequest(m)
             \/ HandleRpcStop
    BY <2>3, <2>5, Zenon DEF RpcRun, RpcStop, WsRequest, HandleRpcStop, sigVars
  <2>6. CASE \E n \in Run : append_or_insert(n) \/ TasksEnd(n) \/ WorkerEnds(n)
    BY <2>3, <2>6, Zenon DEF append_or_insert, TasksEnd, WorkerEnds, sigVars
  <2>7. CASE UNCHANGED vars
    BY <2>3, <2>7, Zenon DEF vars, sigVars
  <2> QED BY <2>1, <2>2, <2>4, <2>5, <2>6, <2>7 DEF Next
<1> QED BY <1>1, <1>2, RunnerTypeCorrect, PTL DEF Spec
=============================================================================
