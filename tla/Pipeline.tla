------------------------------ MODULE Pipeline ------------------------------
(***************************************************************************)
(* The way of data through a node.  A workflow is read from a document,    *)
(* its graph is built, the resources of its tasks are fetched, the tasks   *)
(* are run batch by batch: the arguments are resolved and turned into Wasm *)
(* values, a function is called, its result becomes a receipt.  The        *)
(* receipt is stored, gossiped and put on the DHT, the workflow            *)
(* information and a notification go out with it, and another node (or a   *)
(* later run, or a client) reads what has been written.                    *)
(*                                                                         *)
(* The components that do this concurrently are modelled elsewhere; here   *)
(* the data are concrete and the order is the one those modules allow.     *)
(* The conversions that go down into nested values are constants: what is  *)
(* stated here holds whatever they are.  Module PipelineData has their     *)
(* definitions and what is stated of them.                                 *)
(***************************************************************************)
EXTENDS Builder

INSTANCE Functions

CONSTANTS Doc,       \* documents given as workflows
          Node,      \* the documents and all their parts
          ParamType, \* parameter types a function may have
          Returned,  \* values a function may return besides its arguments
          Found,     \* results kept by the database or other nodes: cid -> result
          Content,   \* what IPFS has under an identifier
          Nonce96,   \* the nonce of a gossiped message
          Name,      \* the local name of the run
          ToParams(_, _), \* the arguments of a call as values of its parameter types
          FromOutput(_)   \* the values a function returned as IPLD

\* The enum Ipld: a list holds a vector of values, a map holds values.
ASSUME NodeAssumption ==
    /\ Doc \subseteq Node
    /\ \A i \in Node : /\ Is("list", i) => i[2] \in Seq(Node)
                       /\ Is("map", i)  => \A k \in DOMAIN i[2] : i[2][k] \in Node

\* Nonce::generate: twelve bytes.
ASSUME NonceAssumption == Len(Nonce96) = 12

VARIABLES stage,    \* "doc", "read", "built", "run", "end"
          doc,
          wf,       \* the workflow read
          plan,     \* its ExecutionGraph
          fetched,  \* the resources held for the run
          ran,      \* tasks that have been run or given up
          results,  \* linkmap
          info,     \* the worker's workflow information
          call,     \* the last call of a function
          wire,     \* what has been written of the last receipt
          got       \* what has been read of it

vars == <<stage, doc, wf, plan, fetched, ran, results, info, call, wire, got>>

Init ==
    /\ stage = "doc"
    /\ doc \in Doc
    /\ wf = <<>> /\ plan = None /\ fetched = {} /\ ran = {} /\ results = <<>> /\ info = None
    /\ call = None /\ wire = {} /\ got = None

\* The workflow file of a run command, or the workflow of a websocket request.
Read ==
    /\ stage = "doc"
    /\ LET r == WorkflowFromIpld(doc) IN
       IF r.ok THEN stage' = "read" /\ wf' = r.val ELSE stage' = "end" /\ UNCHANGED wf
    /\ UNCHANGED <<doc, plan, fetched, ran, results, info, call, wire, got>>

\* Runner::run_worker: the graph, and the information of a workflow not known.
Build ==
    /\ stage = "read"
    /\ LET g == graph(wf) IN
       IF g.ok
       THEN /\ stage' = "built"
            /\ plan' = Some(g.val)
            /\ info' = Some(DefaultInfo(to_cid(WorkflowToIpld(wf)), Some(Name), Len(wf),
                                        g.val.indexed_resources))
       ELSE stage' = "end" /\ UNCHANGED <<plan, info>>
    /\ UNCHANGED <<doc, wf, fetched, ran, results, call, wire, got>>

\* Fetch::fetch and IpfsCli::get_resource: whether there is an identifier to
\* ask IPFS for.  For other URLs there is an error or a todo!().
Fetchable(rsc) == rsc[1] = "Cid" \/ rsc[2][1] = "ipfs" \/ ParseCid(rsc[2]).ok

\* Fetch::get_resources: all resources of the workflow, or the run ends.
FetchResources ==
    /\ stage = "built"
    /\ LET wanted == UNION {Range(rs) : rs \in Range(plan[1].indexed_resources)} IN
       \/ /\ \A rsc \in wanted : Fetchable(rsc)
          /\ stage' = "run" /\ fetched' = wanted
       \/ stage' = "end" /\ UNCHANGED fetched
    /\ UNCHANGED <<doc, wf, plan, ran, results, info, call, wire, got>>

\* The batch the worker is at.
Batches  == plan[1].schedule
Current  == LET left == {b \in DOMAIN Batches : ~ Batches[b] \subseteq ran} IN
            IF left = {} THEN {} ELSE Batches[CHOOSE b \in left : \A a \in left : b <= a] \ ran

\* What publish_and_notify and commit_receipt write of a receipt.  `cut` is
\* the part whose fields a writer of another version may have left out.
Writings(r) ==
    LET shared == increment_progress(info[1], r.cid)
        note   == [typ |-> "putReceiptDht", data |-> Fields([cid |-> Link(r.cid)]), timestamp |-> 1]
    IN  {[by |-> "sql",    body |-> ReceiptRow(r),                          sent |-> r],
         [by |-> "gossip", body |-> MessageToIpld(<<"Nonce96", Nonce96>>, ReceiptToIpld(r)), sent |-> r],
         [by |-> "dht",    body |-> invocation_capsule(InvocationReceiptOf(r)), sent |-> r],
         [by |-> "info",   body |-> capsule(shared),                        sent |-> shared]}
        \union {[by |-> "notify", body |-> EventNotificationToIpld(e), sent |-> e] :
                  e \in {note, [note EXCEPT !.typ = "publishedReceiptPubsub"]}}

\* RegisteredTasks::ability.
Registered(n) == InstrOf(wf, n).op = Lit("wasm/run")

ReceiptOf(n, out) ==
    try_with(instruction_cid(wf[n]),
             [ran |-> to_cid(InvocationToIpld(wf[n])), out |-> <<"ok", out>>,
              meta |-> Fields([op |-> String(Parsed(wf, n).val.fun)]),
              issuer |-> None, prf |-> <<>>])

\* The entries of f, and of g for other keys.
Over(f, g) == [k \in DOMAIN f \union DOMAIN g |-> IF k \in DOMAIN f THEN f[k] ELSE g[k]]

\* resolve_cid: the results of this run, then the resources, then results
\* found elsewhere, which may fail.
Blobs == [c \in {rsc[2] : rsc \in {f \in fetched : f[1] = "Cid"}} |-> <<"ok", Bytes(Content)>>]
Lookups == {Over(results, Blobs), Over(Over(results, Blobs), Found)}

\* A registered task is run.  With one that fails, for its arguments or in
\* its function, the others of the batch are given up; an output that has no
\* IPLD form ends the run.
Run(n, types, lookup) ==
    LET args == resolve_args(ArgsOf(wf, n), lookup)
        vals == ToParams(args, types)
    IN  /\ call' = Some([node |-> n, lookup |-> lookup, given |-> ArgsOf(wf, n),
                         args |-> args, types |-> types])
        /\ \/ ran' = ran \union Current /\ UNCHANGED <<stage, results, wire>>
           \/ /\ vals.ok
              /\ ran' = ran \union {n}
              /\ \E out \in {vals.val} \union Returned :
                   LET i == FromOutput(out) IN
                   IF ~ i.ok THEN stage' = "end" /\ UNCHANGED <<results, wire>>
                   ELSE LET r == ReceiptOf(n, i.val) IN
                        /\ results' = Over([c \in {r.instruction} |-> r.out], results)
                        /\ wire' = Writings(r)
                        /\ UNCHANGED stage

\* The run ends at a batch with a task whose Wasm is not at hand.
Available(n) == <<"Url", InstrOf(wf, n).rsc>> \in fetched

\* The worker takes up one task of the batch.
RunTask ==
    /\ stage = "run"
    /\ \E n \in Current :
         IF \E m \in Current : Registered(m) /\ ~ Available(m)
         THEN stage' = "end" /\ UNCHANGED <<ran, results, call, wire>>
         ELSE IF Registered(n)
         THEN \E types \in ParamType, lookup \in Lookups : Run(n, types, lookup)
         ELSE ran' = ran \union {n} /\ UNCHANGED <<stage, results, call, wire>>
    /\ UNCHANGED <<doc, wf, plan, fetched, info, got>>

\* The map of a writing whose fields another version may lack.
Inner(m) == CASE m.by = "gossip" -> Get(m.body, "payload")
              [] m.by = "dht"    -> Get(m.body, "ipvm/receipt")
              [] m.by = "info"   -> Get(m.body, "ipvm/workflow")
              [] OTHER           -> m.body

InnerWithout(m, k) == LET i == Inner(m) IN Map([j \in DOMAIN i[2] \ {k} |-> i[2][j]])

Cut(m, k) ==
    CASE m.by = "gossip" -> Map([m.body[2] EXCEPT ![Lit("payload")] = InnerWithout(m, k)])
      [] m.by = "dht"    -> Map([m.body[2] EXCEPT ![Lit("ipvm/receipt")] = InnerWithout(m, k)])
      [] m.by = "info"   -> Map([m.body[2] EXCEPT ![Lit("ipvm/workflow")] = InnerWithout(m, k)])
      [] OTHER           -> InnerWithout(m, k)

\* How each writing is read.
Reading(m, body) ==
    CASE m.by = "sql"    -> ReceiptFromRow(body)
      [] m.by = "gossip" -> MessageFromIpld(body)
      [] m.by = "dht"    -> decode_capsule(m.sent.instruction, body)
      [] m.by = "info"   -> decode_capsule(m.sent.cid, body)
      [] m.by = "notify" -> EventNotificationFromIpld(body)

\* A reader takes up a writing, whole or with one field missing.
Receive ==
    /\ stage = "run"
    /\ \E m \in wire :
         \/ got' = Some([msg |-> m, cut |-> None, val |-> Reading(m, m.body)])
         \/ /\ m.by # "sql"
            /\ \E k \in DOMAIN Inner(m)[2] :
                 got' = Some([msg |-> m, cut |-> Some(k), val |-> Reading(m, Cut(m, k))])
    /\ stage' = "end"
    /\ UNCHANGED <<doc, wf, plan, fetched, ran, results, info, call, wire>>

\* The run ends after the last batch.
Finish ==
    /\ stage = "run" /\ Current = {}
    /\ stage' = "end"
    /\ UNCHANGED <<doc, wf, plan, fetched, ran, results, info, call, wire, got>>

Next == Read \/ Build \/ FetchResources \/ RunTask \/ Receive \/ Finish

Spec == Init /\ [][Next]_vars

-----------------------------------------------------------------------------
(* Correctness *)

\* What has been read as a workflow is written and read back as the same
\* workflow, task by task and as a whole, with the limits its metadata state.
\* Identifiers are taken of what is written (Instruction, Task, Workflow and
\* their conversions), so a difference would make two nodes disagree on them.
ReadBackSame ==
    stage = "read" =>
        /\ WorkflowFromIpld(WorkflowToIpld(wf)) = Good(wf)
        /\ \A n \in DOMAIN wf :
             /\ InvocationFromIpld(InvocationToIpld(wf[n])) = Good(wf[n])
             /\ LET limits == ResourcesFromIpld(wf[n].meta) IN
                limits.ok => ResourcesFromIpld(ResourcesToIpld(limits.val)) = limits

\* A function is called with a promise left open only when the promised task
\* is not of this workflow, or has had its turn and left no result: the batches
\* Builder::graph makes of the reads agree with what Args::resolve looks up.
PromisesKept ==
    call # None =>
        \A n \in DOMAIN call[1].args :
          LET v == call[1].args[n] IN
          (v[1] = "Deferred" /\ v[2].instruction \in CidsOf(wf)) =>
             /\ lookup_table(wf)[v[2].instruction] \in ran \ {call[1].node}
             /\ v[2].instruction \notin DOMAIN call[1].lookup

\* On a first run no task finds its Wasm module missing, and every link that is
\* an argument itself is resolved: what Builder::graph indexes, Scheduler::init
\* fetches and the worker looks up are the same resources, also when tasks with
\* one instruction share an entry of the index.
ResourcesFetched ==
    /\ stage = "run" => \A n \in DOMAIN wf : Available(n)
    /\ call # None =>
         \A n \in DOMAIN call[1].given :
           LET v == call[1].given[n] IN
           (v[1] = "Ipld" /\ Is("link", v[2])) => v[2][2] \in DOMAIN call[1].lookup

\* What a reader may make of a writing: itself when it is whole or only a
\* field is missing that has a default, an error when any other field is.
\* The reader of notifications has another spelling of putReceiptDht.
ReadAs(m, cut) ==
    IF m.by = "notify" /\ m.sent.typ = "putReceiptDht" THEN Bad
    ELSE IF cut \in {None, Some(Lit("iss"))} THEN Good(m.sent)
    ELSE IF cut = Some(Lit("name")) THEN Good([m.sent EXCEPT !.name = None])
    ELSE Bad

\* A receipt, workflow information or a notification read from the database,
\* a gossiped message, a DHT record or a websocket is the one that has been
\* written, and one with a field missing is refused.
ReceivedIsSent == got # None => got[1].val = ReadAs(got[1].msg, got[1].cut)

\* A receipt that is accepted, however it came, has the identifier of its own
\* content: Receipt::try_with of the writer, of decode_capsule and the
\* identifier carried by a message or a row are one.
ContentAddressed ==
    (got # None /\ got[1].msg.by \in {"sql", "gossip", "dht"} /\ got[1].val.ok) =>
        got[1].val.val.cid = to_cid(InvocationReceiptToIpld(InvocationReceiptOf(got[1].val.val)))
=============================================================================
