---------------------------- MODULE EventHandler ----------------------------
(***************************************************************************)
(* The event handler: one loop that takes events from its own bounded      *)
(* channel and events from the libp2p swarm, and handles each to its end   *)
(* before it takes the next.  Its clients are tasks that ask the network   *)
(* for a record and wait for the answer on a channel of one place, until a *)
(* deadline.  Handling an event may mean sending an event to the handler's *)
(* own channel, sending an answer, or waiting for one: todo is what is     *)
(* left to do of the event at hand, and the loop is at its select when it  *)
(* is empty.  Kademlia, the request/response protocol and the peers are    *)
(* environment; notifications go to a broadcast that never blocks.         *)
(***************************************************************************)
EXTENDS Naturals, Sequences, FiniteSets, Functions

CONSTANTS InfoClient,       \* tasks that ask for the information of a workflow
          ReceiptClient,    \* tasks that ask for the receipt of an instruction
          Workflow, Wf,     \* workflows, info client -> its workflow
          Peer, Self,       \* the other nodes and this one
          Requester,        \* the peers that ask this node for workflow information
          Receipt,          \* receipts captured or gossiped
          EventsBufferLen,  \* settings.network.events_buffer_len
          MaxLoad           \* bound: requests of any kind made to the handler

Client == InfoClient \union ReceiptClient

\* One answer channel each: a client's two phases, and the handler's own
\* retrieval on behalf of a peer that asked for workflow information.
DhtAsker == Client \X {"dht"}
ProviderAsker == (InfoClient \union Requester) \X {"provider"}
Asker == DhtAsker \union ProviderAsker

\* Peers are finitely many and none of the tasks, and a workflow is not an answer.
ASSUME HandlerAssumption ==
    /\ EventsBufferLen \in Nat /\ IsFiniteSet(Peer)
    /\ Requester \cap Client = {} /\ Wf \in [InfoClient -> Workflow]
    /\ Workflow \cap {"none", "info"} = {}

\* The capsules a record or a response may hold, and what they decode to.
Capsule == {"workflow", "receipt", "old_version", "request_error", "garbage"}
decode_capsule(v) ==
    IF v = "workflow" THEN "Workflow" ELSE IF v = "receipt" THEN "Receipt" ELSE "Err"

VARIABLES chan,       \* the handler's event channel
          todo,       \* what is left to do of the event at hand
          query_senders,             \* queries whose asker (if any) is kept
          request_response_senders,  \* requests <<asker, peer>> likewise
          kad,        \* running Kademlia query -> "empty", "found" or "finished"
          wire,       \* requests that are not answered yet
          answer,     \* asker -> messages in its channel
          rx,         \* askers whose receiving end is alive
          pc,         \* client -> control
          workflows,  \* workflows of the database
          receipts,   \* receipts of the database
          served,     \* peer -> what its request was answered with
          captured, asked, replied,  \* events sent once, and answered
          supplied                   \* history: clients a wanted record was found for

netVars == <<query_senders, request_response_senders, kad, wire>>
clientVars == <<answer, rx, pc>>
dbVars == <<workflows, receipts>>
onceVars == <<captured, asked, replied>>
vars == <<chan, todo, netVars, clientVars, dbVars, served, onceVars, supplied>>

NodeEvent == {"GetNodeInfo", "Shutdown"}

\* A query is named after its asker, or after what is put or provided: the
\* entries of the latter hold no sender.
Put == Receipt \X {"receipt", "workflow"}
Providing == Workflow \X {"provide"}

-----------------------------------------------------------------------------
(* The clients *)

Room == Len(chan) < EventsBufferLen

\* Bound of the model: so many retrievals, reports, questions of the runner,
\* gossiped receipts and requests of peers, in any mix and order.
Load ==
    Cardinality({c \in Client : pc[c] # "idle"}) + Cardinality({p \in Requester : served[p] # "none"})
    + Cardinality(captured) + Cardinality(asked) + Cardinality(receipts \ captured) < MaxLoad

\* Info::init: the workflow is known, or it is stored and a task is spawned to
\* look for it on the network.  A receipt is asked for when the database has none.
Begin(c) ==
    /\ pc[c] = "idle" /\ Load
    /\ IF c \in InfoClient /\ Wf[c] \in workflows
       THEN pc' = [pc EXCEPT ![c] = "db"] /\ UNCHANGED workflows
       ELSE /\ pc' = [pc EXCEPT ![c] = "ask_dht"]
            /\ workflows' = IF c \in InfoClient THEN workflows \union {Wf[c]} ELSE workflows
    /\ UNCHANGED <<chan, todo, netVars, answer, rx, receipts, served, onceVars, supplied>>

Ask(c, phase, event, wait) ==
    /\ Room
    /\ chan' = Append(chan, [type |-> event, asker |-> <<c, phase>>])
    /\ rx' = rx \union {<<c, phase>>}
    /\ pc' = [pc EXCEPT ![c] = wait]
    /\ UNCHANGED <<todo, netVars, answer, dbVars, served, onceVars, supplied>>

AskDht(c) == pc[c] = "ask_dht" /\ Ask(c, "dht", "FindRecord", "wait_dht")

AskProvider(c) == pc[c] = "ask_provider" /\ Ask(c, "provider", "GetProviders", "wait_provider")

Waits(c, phase) == pc[c] = IF phase = "dht" THEN "wait_dht" ELSE "wait_provider"
Wanted(c) == IF c \in InfoClient THEN "Workflow" ELSE "Receipt"

\* The task gives up on this phase: its receiver is dropped.
GiveUp(c, phase) ==
    /\ rx' = rx \ {<<c, phase>>}
    /\ pc' = [pc EXCEPT ![c] = IF c \in InfoClient /\ phase = "dht" THEN "ask_provider" ELSE "error"]

\* Variant: any record ends the retrieval as found.
ReceiveAny(c, phase) ==
    LET a == <<c, phase>> IN
    /\ Waits(c, phase)
    /\ answer[a] # <<>>
    /\ answer' = [answer EXCEPT ![a] = Tail(@)]
    /\ pc' = [pc EXCEPT ![c] = IF phase = "dht" THEN "store_dht" ELSE "store_provider"]
    /\ UNCHANGED <<chan, todo, netVars, rx, dbVars, served, onceVars, supplied>>

\* An answer arrives in time.  A record that was asked for is kept; the
\* receiver stays alive while StoredRecord is being sent.
Receive(c, phase) ==
    LET a == <<c, phase>> IN
    /\ Waits(c, phase)
    /\ answer[a] # <<>>
    /\ answer' = [answer EXCEPT ![a] = Tail(@)]
    /\ IF Head(answer[a]) = Wanted(c)
       THEN pc' = [pc EXCEPT ![c] = IF phase = "dht" THEN "store_dht" ELSE "store_provider"]
            /\ UNCHANGED rx
       ELSE GiveUp(c, phase)
    /\ UNCHANGED <<chan, todo, netVars, dbVars, served, onceVars, supplied>>

\* timeout_at and recv_deadline look at the channel before the clock.
Deadline(c, phase) ==
    /\ Waits(c, phase)
    /\ answer[<<c, phase>>] = <<>>
    /\ GiveUp(c, phase)
    /\ UNCHANGED <<chan, todo, netVars, answer, dbVars, served, onceVars, supplied>>

SendStored(c, phase) ==
    /\ pc[c] = IF phase = "dht" THEN "store_dht" ELSE "store_provider"
    /\ Room
    /\ chan' = Append(chan, [type |-> "StoredRecord"])
    /\ rx' = rx \ {<<c, phase>>}
    /\ pc' = [pc EXCEPT ![c] = "found"]
    /\ UNCHANGED <<todo, netVars, answer, dbVars, served, onceVars, supplied>>

\* A worker commits a receipt and reports it; the runner provides the workflow
\* of a run; the runner asks for node information or for shutdown.
Capture(r) ==
    /\ Room /\ Load /\ r \notin captured
    /\ chan' = Append(chan, [type |-> "CapturedReceipt", receipt |-> r])
    /\ receipts' = receipts \union {r}
    /\ captured' = captured \union {r}
    /\ UNCHANGED <<todo, netVars, clientVars, workflows, served, asked, replied, supplied>>

Provide(w) ==
    /\ Room /\ Load /\ w \in workflows /\ w \notin captured
    /\ chan' = Append(chan, [type |-> "ProvideRecord", workflow |-> w])
    /\ captured' = captured \union {w}
    /\ UNCHANGED <<todo, netVars, clientVars, dbVars, served, asked, replied, supplied>>

AskNode(e) ==
    /\ Room /\ Load /\ e \notin asked
    /\ chan' = Append(chan, [type |-> e])
    /\ asked' = asked \union {e}
    /\ UNCHANGED <<todo, netVars, clientVars, dbVars, served, captured, replied, supplied>>

-----------------------------------------------------------------------------
(* The events of the channel *)

\* Variant: the loop goes on while it waits for its own retrieval.
AtSelectOrAwaiting == IF todo = <<>> THEN TRUE ELSE Head(todo).do = "await"

AtSelect == todo = <<>>

Own(e) == [do |-> "own", event |-> e]
Answer(a, m) == [do |-> "answer", to |-> a, msg |-> m]
Finish(q) == [do |-> "finish", query |-> q]
Await(p) == [do |-> "await", peer |-> p]
Respond(p, m) == [do |-> "respond", peer |-> p, with |-> m]

Query(qs) == [q \in (DOMAIN kad) \union qs |-> IF q \in qs THEN "empty" ELSE kad[q]]

\* QueryRecord::find and get_providers.
StartQuery(a) ==
    /\ kad' = Query({a})
    /\ query_senders' = query_senders \union {a}
    /\ UNCHANGED <<todo, request_response_senders, wire, replied>>

\* Captured::publish_and_notify: nothing is published without peers, or when
\* the receipt is not in the database; each of the two puts may be refused.
Publish(r) ==
    /\ \/ r \in receipts /\ \E qs \in SUBSET ({r} \X {"receipt", "workflow"}) :
             kad' = Query(qs) /\ query_senders' = query_senders \union qs
       \/ UNCHANGED <<kad, query_senders>>
    /\ UNCHANGED <<todo, request_response_senders, wire, replied>>

ProvideRecord(w) ==
    /\ \/ kad' = Query({<<w, "provide">>})
          /\ query_senders' = query_senders \union {<<w, "provide">>}
       \/ UNCHANGED <<kad, query_senders>>
    /\ UNCHANGED <<todo, request_response_senders, wire, replied>>

\* Event::Providers: an OutboundRequest to the own channel for each provider.
ToProviders(providers, a) ==
    /\ \E ps \in Injection(1..Cardinality(providers), providers) :
          todo' = [i \in DOMAIN ps |->
                      Own([type |-> "OutboundRequest", peer |-> ps[i], asker |-> a])]
    /\ UNCHANGED <<netVars, replied>>

OutboundRequest(p, a) ==
    /\ wire' = wire \union {<<a, p>>}
    /\ request_response_senders' = request_response_senders \union {<<a, p>>}
    /\ UNCHANGED <<todo, query_senders, kad, replied>>

\* GetNodeInfo and Shutdown are answered on a channel of their own; the loop
\* goes on after Shutdown.
ReplyNode(e) == replied' = replied \union {e} /\ UNCHANGED <<todo, netVars>>

\* StoredRecord only notifies the subscribers of the web server.
HandleEvent ==
    /\ AtSelect /\ chan # <<>>
    /\ chan' = Tail(chan)
    /\ LET e == Head(chan) IN
       \/ e.type \in {"FindRecord", "GetProviders"} /\ StartQuery(e.asker)
       \/ e.type = "CapturedReceipt" /\ Publish(e.receipt)
       \/ e.type = "ProvideRecord" /\ ProvideRecord(e.workflow)
       \/ e.type = "Providers" /\ ToProviders(e.providers, e.asker)
       \/ e.type = "OutboundRequest" /\ OutboundRequest(e.peer, e.asker)
       \/ e.type \in NodeEvent /\ ReplyNode(e.type)
       \/ e.type = "StoredRecord" /\ UNCHANGED <<todo, netVars, replied>>
    /\ UNCHANGED <<clientVars, dbVars, served, captured, asked, supplied>>

-----------------------------------------------------------------------------
(* What is left of the event at hand *)

\* An event for the own channel waits for room in it.
SendOwn ==
    /\ ~AtSelect /\ Head(todo).do = "own"
    /\ Room
    /\ chan' = Append(chan, Head(todo).event)
    /\ todo' = Tail(todo)
    /\ UNCHANGED <<netVars, clientVars, dbVars, served, onceVars, supplied>>

\* Variant: an answer channel without a bound.
SendAnswerUnbounded ==
    /\ ~AtSelect /\ Head(todo).do = "answer"
    /\ answer' = [answer EXCEPT ![Head(todo).to] = Append(@, Head(todo).msg)]
    /\ todo' = Tail(todo)
    /\ UNCHANGED <<chan, netVars, rx, pc, dbVars, served, onceVars, supplied>>

\* An answer waits for room in the asker's channel, or for its receiver to go.
SendAnswer ==
    /\ ~AtSelect /\ Head(todo).do = "answer"
    /\ LET a == Head(todo).to IN
       \/ /\ a \notin rx
          /\ UNCHANGED answer
       \/ /\ a \in rx /\ answer[a] = <<>>
          /\ answer' = [answer EXCEPT ![a] = <<Head(todo).msg>>]
    /\ todo' = Tail(todo)
    /\ UNCHANGED <<chan, netVars, rx, pc, dbVars, served, onceVars, supplied>>

\* The query is told to finish; Kademlia reports its end later.
FinishQuery ==
    /\ ~AtSelect /\ Head(todo).do = "finish"
    /\ kad' = [q \in DOMAIN kad |-> IF q = Head(todo).query THEN "finished" ELSE kad[q]]
    /\ todo' = Tail(todo)
    /\ UNCHANGED <<chan, query_senders, request_response_senders, wire, clientVars, dbVars,
                   served, onceVars, supplied>>

\* Variant: the handler's own retrieval has no deadline.
AwaitForever ==
    /\ ~AtSelect /\ Head(todo).do = "await"
    /\ answer[<<Head(todo).peer, "provider">>] # <<>>
    /\ todo' = <<Respond(Head(todo).peer, "info")>>
    /\ UNCHANGED <<chan, netVars, clientVars, dbVars, served, onceVars, supplied>>

\* The handler waits for the answer to its own GetProviders, until a deadline.
AwaitOwn ==
    /\ ~AtSelect /\ Head(todo).do = "await"
    /\ LET p == Head(todo).peer
           got == answer[<<p, "provider">>]
       IN todo' = IF got # <<>> /\ Head(got) = "Workflow"
                  THEN <<Own([type |-> "StoredRecord"]), Respond(p, "info")>>
                  ELSE <<Respond(p, "Timeout")>>
    /\ answer' = [answer EXCEPT ![<<Head(todo).peer, "provider">>] = <<>>]
    /\ UNCHANGED <<chan, netVars, rx, pc, dbVars, served, onceVars, supplied>>

\* The retrieval is over, its receiver dropped, and the peer gets its response.
SendResponse ==
    /\ ~AtSelect /\ Head(todo).do = "respond"
    /\ served' = [served EXCEPT ![Head(todo).peer] = Head(todo).with]
    /\ rx' = rx \ {<<Head(todo).peer, "provider">>}
    /\ todo' = Tail(todo)
    /\ UNCHANGED <<chan, netVars, answer, pc, dbVars, onceVars, supplied>>

Step == SendOwn \/ SendAnswer \/ FinishQuery \/ AwaitOwn \/ SendResponse

-----------------------------------------------------------------------------
(* The events of the swarm *)

Ended(q) == [x \in (DOMAIN kad) \ {q} |-> kad[x]]

\* Variant: the entry is looked up, not removed.
ForgetNothing(q) == UNCHANGED query_senders

Forget(q) == query_senders' = query_senders \ {q}

\* If the asker of the query is still kept it gets the message.
AnswerKept(q, m) ==
    todo' = IF q \in query_senders /\ q \in Asker THEN <<Answer(q, m)>> ELSE <<>>

\* GetRecord found a record: the first one answers the query, whatever it holds.
FoundRecord(a, v) ==
    /\ AtSelect
    /\ a \in DOMAIN kad /\ a[2] = "dht"
    /\ kad' = [kad EXCEPT ![a] = "found"]
    /\ Forget(a)
    /\ AnswerKept(a, decode_capsule(v))
    /\ supplied' = IF decode_capsule(v) = Wanted(a[1]) THEN supplied \union {a[1]} ELSE supplied
    /\ UNCHANGED <<chan, request_response_senders, wire, clientVars, dbVars, served, onceVars>>

\* GetRecord ends: with an error when nothing was found.
GetRecordEnd(a) ==
    /\ AtSelect
    /\ a \in DOMAIN kad /\ a[2] = "dht"
    /\ kad' = Ended(a)
    /\ IF kad[a] = "empty"
       THEN AnswerKept(a, "Err") /\ Forget(a)
       ELSE UNCHANGED <<todo, query_senders>>
    /\ UNCHANGED <<chan, request_response_senders, wire, clientVars, dbVars, served, onceVars,
                   supplied>>

\* GetProviders found providers, this node perhaps among them: the first that
\* are others are asked, and the query is told to finish.
FoundProviders(a, ps) ==
    /\ AtSelect
    /\ a \in DOMAIN kad /\ a[2] = "provider" /\ kad[a] # "finished"
    /\ ps \ {Self} # {} /\ a \in query_senders
    /\ Forget(a)
    /\ todo' = <<Own([type |-> "Providers", providers |-> ps \ {Self}, asker |-> a]), Finish(a)>>
    /\ UNCHANGED <<chan, request_response_senders, kad, wire, clientVars, dbVars, served,
                   onceVars, supplied>>

\* GetProviders ends: in an error that is passed on, or with no more providers,
\* which is not looked at.
GetProvidersEnd(a, err) ==
    /\ AtSelect
    /\ a \in DOMAIN kad /\ a[2] = "provider"
    /\ kad' = Ended(a)
    /\ IF err /\ kad[a] # "finished"
       THEN AnswerKept(a, "Providers") /\ Forget(a)
       ELSE UNCHANGED <<todo, query_senders>>
    /\ UNCHANGED <<chan, request_response_senders, wire, clientVars, dbVars, served, onceVars,
                   supplied>>

\* Variant: the end of a put is only logged.
PutEndLogged(q) ==
    /\ AtSelect
    /\ q \in DOMAIN kad /\ q \in Put \union Providing
    /\ kad' = Ended(q)
    /\ UNCHANGED <<chan, todo, query_senders, request_response_senders, wire, clientVars, dbVars,
                   served, onceVars, supplied>>

\* PutRecord and StartProviding end, well or not: the entry is removed.
PutEnd(q) ==
    /\ AtSelect
    /\ q \in DOMAIN kad /\ q \in Put \union Providing
    /\ kad' = Ended(q)
    /\ Forget(q)
    /\ UNCHANGED <<chan, todo, request_response_senders, wire, clientVars, dbVars, served,
                   onceVars, supplied>>

\* A peer asks for a workflow's information: from the database, or by a
\* retrieval the loop itself waits for.  Other requests are not supported.
\* The model bounds the requests to one of each peer.
Request(p, w) ==
    /\ AtSelect /\ Load /\ served[p] = "none"
    /\ IF w = "unsupported" \/ w \in workflows
       THEN /\ todo' = <<Respond(p, IF w = "unsupported" THEN "Unsupported" ELSE "info")>>
            /\ UNCHANGED rx
       ELSE /\ todo' = <<Own([type |-> "GetProviders", asker |-> <<p, "provider">>]), Await(p)>>
            /\ rx' = rx \union {<<p, "provider">>}
    /\ served' = [served EXCEPT ![p] = w]
    /\ UNCHANGED <<chan, netVars, answer, pc, dbVars, onceVars, supplied>>

\* A provider responds to a request.
Response(a, p, v) ==
    /\ AtSelect /\ <<a, p>> \in wire
    /\ wire' = wire \ {<<a, p>>}
    /\ request_response_senders' = request_response_senders \ {<<a, p>>}
    /\ todo' = IF <<a, p>> \in request_response_senders
               THEN <<Answer(a, IF decode_capsule(v) = "Workflow" THEN "Workflow" ELSE "Err")>>
               ELSE <<>>
    /\ supplied' = IF decode_capsule(v) = "Workflow" THEN supplied \union ({a[1]} \cap Client)
                   ELSE supplied
    /\ UNCHANGED <<chan, query_senders, kad, clientVars, dbVars, served, onceVars>>

\* A request fails: the event is not handled, its entry stays.
OutboundFailure(a, p) ==
    /\ AtSelect /\ <<a, p>> \in wire
    /\ wire' = wire \ {<<a, p>>}
    /\ UNCHANGED <<chan, todo, query_senders, request_response_senders, kad, clientVars, dbVars,
                   served, onceVars, supplied>>

\* A receipt is gossiped: it is stored.
Gossip(r) ==
    /\ AtSelect /\ Load /\ r \notin receipts
    /\ receipts' = receipts \union {r}
    /\ UNCHANGED <<chan, todo, netVars, clientVars, workflows, served, onceVars, supplied>>

-----------------------------------------------------------------------------
Init ==
    /\ chan = <<>> /\ todo = <<>>
    /\ query_senders = {} /\ request_response_senders = {}
    /\ kad = [q \in {} |-> "empty"] /\ wire = {}
    /\ answer = [a \in Asker |-> <<>>] /\ rx = {}
    /\ pc = [c \in Client |-> "idle"]
    /\ workflows = {} /\ receipts = {}
    /\ served = [p \in Requester |-> "none"]
    /\ captured = {} /\ asked = {} /\ replied = {}
    /\ supplied = {}

ClientStep(c) ==
    \/ AskDht(c) \/ AskProvider(c)
    \/ \E phase \in {"dht", "provider"} :
          <<c, phase>> \in Asker
          /\ (Receive(c, phase) \/ Deadline(c, phase) \/ SendStored(c, phase))

Local ==
    \/ \E c \in Client : Begin(c) \/ ClientStep(c)
    \/ \E r \in Receipt : Capture(r)
    \/ \E w \in Workflow : Provide(w)
    \/ \E e \in NodeEvent : AskNode(e)

SwarmEvent ==
    \/ \E a \in DOMAIN kad :
          \/ \E v \in Capsule : FoundRecord(a, v)
          \/ GetRecordEnd(a)
          \/ \E ps \in SUBSET (Peer \union {Self}) : FoundProviders(a, ps)
          \/ \E err \in BOOLEAN : GetProvidersEnd(a, err)
          \/ PutEnd(a)
    \/ \E p \in Requester, w \in Workflow \union {"unsupported"} : Request(p, w)
    \/ \E ap \in wire :
          OutboundFailure(ap[1], ap[2]) \/ \E v \in Capsule : Response(ap[1], ap[2], v)
    \/ \E r \in Receipt : Gossip(r)

Next == Local \/ HandleEvent \/ Step \/ SwarmEvent

\* The tasks are scheduled by tokio and waiting senders are served in order;
\* select! picks its branch at random, so no stream of swarm events starves the
\* channel.  The network and the callers owe nothing.
Fairness ==
    /\ SF_vars(HandleEvent) /\ WF_vars(Step)
    /\ \A c \in Client : SF_vars(ClientStep(c))

Spec == Init /\ [][Next]_vars /\ Fairness

-----------------------------------------------------------------------------
Control == {"idle", "db", "ask_dht", "wait_dht", "store_dht", "ask_provider", "wait_provider",
            "store_provider", "found", "error"}

\* The events the handler sends to its own channel, and all events.
OwnEvent ==
    [type : {"GetProviders"}, asker : ProviderAsker]
    \union [type : {"Providers"}, providers : SUBSET Peer, asker : ProviderAsker]
    \union [type : {"OutboundRequest"}, peer : Peer, asker : ProviderAsker]
    \union [type : {"StoredRecord"}]

Event ==
    OwnEvent
    \union [type : {"FindRecord"}, asker : DhtAsker]
    \union [type : {"CapturedReceipt"}, receipt : Receipt]
    \union [type : {"ProvideRecord"}, workflow : Workflow]
    \union [type : NodeEvent]

Message == {"Workflow", "Receipt", "Err", "Providers"}
Reply == {"info", "Timeout", "Unsupported"}

Job ==
    [do : {"own"}, event : OwnEvent]
    \union [do : {"answer"}, to : Asker, msg : Message]
    \union [do : {"finish"}, query : ProviderAsker]
    \union [do : {"await"}, peer : Requester]
    \union [do : {"respond"}, peer : Requester, with : Reply]

\* The state of the handler, its channel and its clients keeps its shape, and
\* the channel and the answer channels keep to their bounds.
TypeOK ==
    /\ chan \in Seq(Event) /\ Len(chan) <= EventsBufferLen /\ todo \in Seq(Job)
    /\ query_senders \subseteq Asker \union Put \union Providing
    /\ request_response_senders \subseteq ProviderAsker \X Peer /\ wire \subseteq ProviderAsker \X Peer
    /\ DOMAIN kad \subseteq Asker \union Put \union Providing
    /\ \A q \in DOMAIN kad : kad[q] \in {"empty", "found", "finished"}
    /\ answer \in [Asker -> Seq(Message)] /\ \A a \in Asker : Len(answer[a]) <= 1
    /\ rx \subseteq Asker /\ pc \in [Client -> Control]
    /\ workflows \subseteq Workflow /\ receipts \subseteq Receipt
    /\ served \in [Requester -> Workflow \union Reply \union {"none", "unsupported"}]
    /\ captured \subseteq Receipt \union Workflow
    /\ replied \subseteq asked /\ asked \subseteq NodeEvent
    /\ supplied \subseteq Client

\* The places that hold a sender of the asker's channel.
Carries(e, a) ==
    e.type \in {"FindRecord", "GetProviders", "Providers", "OutboundRequest"} /\ e.asker = a
Holders(a) ==
    {<<"chan", i>> : i \in {i \in DOMAIN chan : Carries(chan[i], a)}}
    \union {<<"todo", i>> : i \in {i \in DOMAIN todo :
        \/ todo[i].do = "answer" /\ todo[i].to = a
        \/ todo[i].do = "own" /\ Carries(todo[i].event, a)}}
    \union {<<"query", q>> : q \in query_senders \cap {a}}
    \union {<<"request", ap>> : ap \in {ap \in request_response_senders : ap[1] = a}}

\* The sender of an answer moves from the client's event to the handler's map to
\* the answer and is never kept behind: a DHT query sends at most one answer,
\* and so never finds the one place of its channel taken, and a provider query
\* at most one for each provider (query_senders.remove, request_response_senders.remove).
OneSender ==
    \A a \in Asker : LET senders == Cardinality(Holders(a)) + Len(answer[a])
                     IN senders <= 1 \/ (a[2] = "provider" /\ senders <= Cardinality(Peer))

\* The end of a query removes its entry from query_senders, whatever the order
\* of results, errors, giving up and other queries.  The only entries that stay
\* for ever are those of a GetProviders that found nobody but this node.
OnlyUnprovidedLeak == \A q \in query_senders \ DOMAIN kad : q[2] = "provider"

\* The handler retrieves from inside its loop what a peer asks for and the
\* database does not have.  It waits for what only the loop itself can do: no
\* interleaving answers such a retrieval, so it always costs the loop the whole
\* p2p_provider_timeout and the peer is never served from another provider.
OwnRetrievalUnanswered ==
    \A p \in Requester : answer[<<p, "provider">>] = <<>> /\ (served[p] = "info" => workflows # {})

\* The channel is full, and the handler, which alone empties it, waits to send
\* to it, or to give a further answer to a task that itself waits to send to it
\* and will not look at its answers before.
Wedged ==
    IF AtSelect \/ Room THEN FALSE
    ELSE LET do == Head(todo) IN
         \/ do.do = "own"
         \/ do.do = "answer" /\ do.to \in rx /\ answer[do.to] # <<>>
            /\ do.to[1] \in Client /\ pc[do.to[1]] = "store_provider"

\* The runner's GetNodeInfo and Shutdown are answered, whatever the network and
\* the clients do (the runner waits with no deadline for the latter), unless the
\* handler is wedged: in every other case it comes back to its select, and no
\* answer, no timeout and no retrieval of its own blocks it for ever.
RunnerIsAnswered == \A e \in NodeEvent : e \in asked ~> (e \in replied \/ Wedged)
=============================================================================
