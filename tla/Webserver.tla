----------------------------- MODULE Webserver ------------------------------
(***************************************************************************)
(* The web server: clients ask it over WebSockets to run a workflow and    *)
(* then follow its receipts, to follow the network events, or for the node *)
(* information.  The first and the last go through the runner, which takes *)
(* one request at a time and is waited for until a deadline.  Messages are *)
(* broadcast to the subscription tasks, which filter them and try to send  *)
(* them to their client's sink: a task that lags behind the broadcast is   *)
(* ended, a message that finds the sink full is dropped.                   *)
(*                                                                         *)
(* The broadcast is the sequence of the messages sent so far, of which a   *)
(* receiver can still read the last Capacity.                              *)
(***************************************************************************)
EXTENDS Naturals, Sequences, Functions

CONSTANTS RunClient, EventClient, NodeClient,  \* clients by what they ask
          Cid, Name,     \* run client -> its workflow, the name it gives the run
          OtherRun,      \* runs <<workflow, name>> started over RPC
          Capacity,      \* settings.webserver.websocket_capacity
          MaxMsgs        \* bound: messages of each broadcast

Subscriber == RunClient \union EventClient
Client == Subscriber \union NodeClient
Asking == RunClient \union NodeClient
Channel == {"workflow", "events"}

\* The runner is none of the clients, and a subscription is of one kind.
ASSUME WebserverAssumption ==
    /\ Capacity \in Nat /\ MaxMsgs \in Nat
    /\ RunClient \cap EventClient = {} /\ RunClient \cap NodeClient = {}
    /\ "loop" \notin NodeClient

VARIABLES queue,      \* requests in the channel to the runner
          runner,     \* "loop", or the client whose node information it waits for
          reply,      \* asking client -> what the runner answered
          running,    \* runs the runner has begun
          log,        \* broadcast -> the messages sent
          pc,         \* client -> control of its request or subscription task
          workflow_listeners,  \* run client -> the run it follows
          first, pos, \* subscriber -> messages before its subscription, and taken
          sink,       \* subscriber -> messages (by number) waiting for the client
          received,   \* subscriber -> messages the client has got
          dropped,    \* subscriber -> messages that found the sink full
          closed      \* subscribers that are gone

runnerVars == <<queue, runner, reply, running>>
subVars == <<workflow_listeners, first, pos, sink, dropped>>
vars == <<runnerVars, log, pc, subVars, received, closed>>

ChannelOf(s) == IF s \in RunClient THEN "workflow" ELSE "events"
Set(f, s, v) == [f EXCEPT ![s] = v]
Without(f, s) == [x \in (DOMAIN f) \ {s} |-> f[x]]

-----------------------------------------------------------------------------
(* Requests *)

\* A call whose parameters do not parse is rejected without asking the runner.
Call(c) ==
    /\ pc[c] = "idle" /\ c \notin closed
    /\ \/ /\ c \in Asking
          /\ queue' = Append(queue, c)
          /\ pc' = Set(pc, c, "waiting")
       \/ /\ c \in RunClient
          /\ pc' = Set(pc, c, "rejected")
          /\ UNCHANGED queue
       \/ /\ c \in EventClient
          /\ pc' = Set(pc, c, "accepting")
          /\ UNCHANGED queue
    /\ UNCHANGED <<runner, reply, running, log, subVars, received, closed>>

\* The runner starts a run and acknowledges it, or answers with the error.
RunWorkflow(c, ok) ==
    /\ running' = IF ok THEN running \union {c} ELSE running
    /\ reply' = Set(reply, c, IF ok THEN "AckWorkflow" ELSE "RunErr")
    /\ UNCHANGED runner

\* The runner takes a request.  For node information it asks the event handler
\* and blocks until the answer or the deadline.
RunnerTakes ==
    /\ runner = "loop" /\ queue # <<>>
    /\ queue' = Tail(queue)
    /\ IF Head(queue) \in RunClient
       THEN \E ok \in BOOLEAN : RunWorkflow(Head(queue), ok)
       ELSE runner' = Head(queue) /\ UNCHANGED <<reply, running>>
    /\ UNCHANGED <<log, pc, subVars, received, closed>>

\* Answered or not by the event handler, the runner answers with what it has.
RunnerAcksNode ==
    /\ runner # "loop"
    /\ reply' = Set(reply, runner, "AckNodeInfo")
    /\ runner' = "loop"
    /\ UNCHANGED <<queue, running, log, pc, subVars, received, closed>>

\* Variant: any answer of the runner counts as its acknowledgement.
AnsweredAnyhow(c) ==
    /\ pc[c] = "waiting" /\ reply[c] # "none"
    /\ pc' = Set(pc, c, IF c \in RunClient THEN "accepting" ELSE "done")
    /\ UNCHANGED <<runnerVars, log, subVars, received, closed>>

\* The server waits for the runner's answer.
Answered(c) ==
    /\ pc[c] = "waiting" /\ reply[c] # "none"
    /\ pc' = Set(pc, c, CASE reply[c] = "AckWorkflow" -> "accepting"
                          [] reply[c] = "AckNodeInfo" -> "done"
                          [] OTHER -> "rejected")
    /\ UNCHANGED <<runnerVars, log, subVars, received, closed>>

\* Variant: the wait has no deadline.
NoDeadline(c) ==
    /\ pc[c] = "waiting" /\ reply[c] # "none"
    /\ UNCHANGED vars

\* Nothing came in time: a run is rejected as busy, node information is an error.
\* recv_deadline looks at the channel before the clock.
Deadline(c) ==
    /\ pc[c] = "waiting" /\ reply[c] = "none"
    /\ pc' = Set(pc, c, "rejected")
    /\ UNCHANGED <<runnerVars, log, subVars, received, closed>>

\* The subscription is accepted unless the client is gone; a run is listed.
Accept(s) ==
    /\ pc[s] = "accepting"
    /\ IF s \in closed
       THEN pc' = Set(pc, s, "ended") /\ UNCHANGED workflow_listeners
       ELSE /\ pc' = Set(pc, s, "accepted")
            /\ workflow_listeners' =
                  IF s \in EventClient THEN workflow_listeners
                  ELSE [x \in {s} \union DOMAIN workflow_listeners |->
                          IF x = s THEN <<Cid[s], Name[s]>> ELSE workflow_listeners[x]]
    /\ UNCHANGED <<runnerVars, log, first, pos, sink, dropped, received, closed>>

\* Only now does it receive: what was broadcast before is not seen.
Subscribe(s) ==
    /\ pc[s] = "accepted"
    /\ pc' = Set(pc, s, "subscribed")
    /\ first' = Set(first, s, Len(log[ChannelOf(s)]))
    /\ pos' = Set(pos, s, Len(log[ChannelOf(s)]))
    /\ UNCHANGED <<runnerVars, log, workflow_listeners, sink, dropped, received, closed>>

-----------------------------------------------------------------------------
(* Notifications *)

\* emit_receipt for a receipt captured or replayed by a run, with the workflow
\* and the name of the run in its header; emit_event.
Emit(channel, header) ==
    /\ Len(log[channel]) < MaxMsgs
    /\ log' = [log EXCEPT ![channel] = Append(@, header)]
    /\ UNCHANGED <<runnerVars, pc, subVars, received, closed>>

EmitReceipt ==
    \E run \in {<<Cid[s], Name[s]>> : s \in running} \union OtherRun : Emit("workflow", run)
EmitEvent == Emit("events", "network_events")

-----------------------------------------------------------------------------
(* The subscription tasks *)

\* Variant: the name of the run is not compared.
IsForCid(s, header) ==
    IF s \in EventClient THEN header = "network_events"
    ELSE s \in DOMAIN workflow_listeners /\ workflow_listeners[s][1] = header[1]

\* The header matches what the subscriber follows.
IsFor(s, header) ==
    IF s \in EventClient THEN header = "network_events"
    ELSE s \in DOMAIN workflow_listeners /\ workflow_listeners[s] = header

\* Variant: the run stays listed.
EndTaskListed(s) ==
    /\ pc' = Set(pc, s, "ended")
    /\ UNCHANGED subVars

\* The task ends; that of a run takes it off the list.
EndTask(s) ==
    /\ pc' = Set(pc, s, "ended")
    /\ workflow_listeners' = Without(workflow_listeners, s)
    /\ UNCHANGED <<first, pos, sink, dropped>>

SinkClosed(s) ==
    /\ pc[s] = "subscribed" /\ s \in closed
    /\ EndTask(s)
    /\ UNCHANGED <<runnerVars, log, received, closed>>

Lagged(s) == Len(log[ChannelOf(s)]) - pos[s] > Capacity

\* Variant: the sink has no bound.
DeliverUnbounded(s) ==
    /\ pos' = Set(pos, s, pos[s] + 1)
    /\ sink' = IF IsFor(s, log[ChannelOf(s)][pos[s] + 1])
               THEN Set(sink, s, Append(sink[s], pos[s] + 1)) ELSE sink
    /\ UNCHANGED <<pc, workflow_listeners, first, dropped>>

\* The next message that is for the client is tried to be sent: dropped when the
\* sink is full.
Deliver(s) ==
    /\ pos' = Set(pos, s, pos[s] + 1)
    /\ IF ~IsFor(s, log[ChannelOf(s)][pos[s] + 1]) THEN UNCHANGED <<sink, dropped>>
       ELSE IF Len(sink[s]) < Capacity
            THEN sink' = Set(sink, s, Append(sink[s], pos[s] + 1)) /\ UNCHANGED dropped
            ELSE dropped' = Set(dropped, s, dropped[s] \union {pos[s] + 1}) /\ UNCHANGED sink
    /\ UNCHANGED <<pc, workflow_listeners, first>>

NextMessage(s) ==
    /\ pc[s] = "subscribed" /\ pos[s] < Len(log[ChannelOf(s)])
    /\ \/ Lagged(s) /\ EndTask(s)
       \/ /\ ~Lagged(s)
          /\ IF IsFor(s, log[ChannelOf(s)][pos[s] + 1]) /\ s \in closed
             THEN EndTask(s) ELSE Deliver(s)
    /\ UNCHANGED <<runnerVars, log, received, closed>>

-----------------------------------------------------------------------------
(* The clients *)

Read(s) ==
    /\ s \notin closed /\ sink[s] # <<>>
    /\ received' = Set(received, s, Append(received[s], Head(sink[s])))
    /\ sink' = Set(sink, s, Tail(sink[s]))
    /\ UNCHANGED <<runnerVars, log, pc, workflow_listeners, first, pos, dropped, closed>>

Close(c) ==
    /\ c \notin closed
    /\ closed' = closed \union {c}
    /\ UNCHANGED <<runnerVars, log, pc, subVars, received>>

-----------------------------------------------------------------------------
Init ==
    /\ queue = <<>> /\ runner = "loop" /\ running = {}
    /\ reply = [c \in Asking |-> "none"]
    /\ log = [ch \in Channel |-> <<>>]
    /\ pc = [c \in Client |-> "idle"]
    /\ workflow_listeners = [s \in {} |-> <<>>]
    /\ first = [s \in Subscriber |-> 0] /\ pos = [s \in Subscriber |-> 0]
    /\ sink = [s \in Subscriber |-> <<>>] /\ received = [s \in Subscriber |-> <<>>]
    /\ dropped = [s \in Subscriber |-> {}]
    /\ closed = {}

Task(s) == Accept(s) \/ Subscribe(s) \/ SinkClosed(s) \/ NextMessage(s)
Request(c) == Answered(c) \/ Deadline(c)

Next ==
    \/ RunnerTakes \/ RunnerAcksNode \/ EmitReceipt \/ EmitEvent
    \/ \E c \in Client : Call(c)
    \/ \E c \in Asking : Request(c)
    \/ \E s \in Subscriber : Task(s) \/ Read(s) \/ Close(s)

\* Every handler and subscription task is scheduled, and a wait ends at its
\* deadline.  The runner, the workers and the clients owe nothing.
Fairness ==
    /\ \A c \in Asking : WF_vars(Request(c))
    /\ \A s \in Subscriber : WF_vars(Accept(s) \/ Subscribe(s)) /\ WF_vars(SinkClosed(s))

Spec == Init /\ [][Next]_vars /\ Fairness

-----------------------------------------------------------------------------
Header == {<<Cid[s], Name[s]>> : s \in RunClient} \union OtherRun \union {"network_events"}

\* Requests, replies, subscriptions and sinks keep their shape, a sink and the
\* position of a receiver their bounds.
TypeOK ==
    /\ queue \in Seq(Asking)
    /\ runner \in NodeClient \union {"loop"} /\ running \subseteq RunClient
    /\ reply \in [Asking -> {"none", "AckWorkflow", "RunErr", "AckNodeInfo"}]
    /\ log \in [Channel -> Seq(Header)]
    /\ pc \in [Client -> {"idle", "waiting", "accepting", "accepted", "subscribed", "ended",
                          "done", "rejected"}]
    /\ DOMAIN workflow_listeners \subseteq RunClient
    /\ first \in [Subscriber -> Nat] /\ pos \in [Subscriber -> Nat]
    /\ sink \in [Subscriber -> Seq(Nat)] /\ received \in [Subscriber -> Seq(Nat)]
    /\ \A s \in Subscriber : /\ Len(sink[s]) <= Capacity
                             /\ first[s] <= pos[s] /\ pos[s] <= Len(log[ChannelOf(s)])
                             /\ dropped[s] \subseteq 1..pos[s]
    /\ DOMAIN dropped = Subscriber /\ closed \subseteq Subscriber

Follows(s) == IF s \in EventClient THEN "network_events" ELSE <<Cid[s], Name[s]>>

\* d holds, in their order and once each, the numbers of the messages of l after
\* the first f and up to p that have the header h and were not dropped.
Exactly(d, l, h, f, p, drop) ==
    /\ Range(d) = {i \in (f + 1)..p : l[i] = h /\ i \notin drop}
    /\ \A i, j \in DOMAIN d : i < j => d[i] < d[j]

\* A client gets every message broadcast for its own run (or every network
\* event) since it was subscribed, in the order they were sent and once each,
\* and none of another run of the same workflow: what is missing found the sink
\* full, or comes after the end of the subscription.
DeliveredExactly ==
    \A s \in Subscriber :
        Exactly(received[s] \o sink[s], log[ChannelOf(s)], Follows(s), first[s], pos[s], dropped[s])

\* A subscription to a run is kept only for a run the runner did start, although
\* its answer may come late, be an error, or find the client gone.
ListenedIsRunning == DOMAIN workflow_listeners \subseteq running

\* The entry of a client that is gone does not stay in workflow_listeners,
\* wherever in the subscription it went: while the run was asked for, between
\* the acknowledgement and the subscription, or while its task lagged.
GoneIsForgotten == \A s \in RunClient : s \in closed ~> s \notin DOMAIN workflow_listeners

\* A request that goes through the runner ends, even when the runner is busy
\* with another request or never answers (receiver_timeout).
RequestsEnd == \A c \in Asking : pc[c] = "waiting" ~> pc[c] # "waiting"
=============================================================================
