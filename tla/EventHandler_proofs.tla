------------------------- MODULE EventHandler_proofs --------------------------
(***************************************************************************)
(* Proofs about the event handler, for any clients, peers, requests and    *)
(* length of its channel: no query leaves an entry behind but one that     *)
(* found no provider, the handler's own retrievals are never answered, and *)
(* a handler whose channel is wedged never takes an event again.           *)
(***************************************************************************)
EXTENDS EventHandler, FiniteSetTheorems, TLAPS

-----------------------------------------------------------------------------
(* The inductive invariant *)

\* What is left to do of an event ends with the answer, the wait or the response,
\* if it has one.
TodoShape ==
    \A i \in DOMAIN todo : todo[i].do \in {"answer", "await", "respond"} => i = Len(todo)

\* The handler listens for an answer of its own only while it still has to wait
\* for it or to respond to the peer it asks for.
OwnWaits ==
    \A p \in Requester : <<p, "provider">> \in rx =>
        /\ todo # <<>> /\ todo[Len(todo)].do \in {"await", "respond"}
        /\ todo[Len(todo)].peer = p

\* A peer is sent the information only of a database that has some.
InfoIsKnown ==
    \A j \in Range(todo) : j.do = "respond" /\ j.with = "info" => workflows # {}

\* A query of a record is kept exactly until its first result.
KeptQueryRuns ==
    \A q \in query_senders : q[2] # "provider" =>
        q \in DOMAIN kad /\ (q[2] = "dht" => kad[q] = "empty")

\* The askers that have not asked yet.
Unasked(a) ==
    IF a[1] \in Client
    THEN pc[a[1]] \in {"idle", "db", "ask_dht"}
                      \union IF a[2] = "dht" THEN {} ELSE {"wait_dht", "store_dht", "ask_provider"}
    ELSE served[a[1]] = "none"

\* A job that is for the asker.
JobNames(j, a) ==
    \/ j.do = "own" /\ Carries(j.event, a)
    \/ j.do = "answer" /\ j.to = a
    \/ j.do = "finish" /\ j.query = a

\* Something in the handler or the network is for the asker.
Named(a) ==
    \/ \E e \in Range(chan) : Carries(e, a)
    \/ \E j \in Range(todo) : JobNames(j, a)
    \/ a \in query_senders \/ a \in DOMAIN kad
    \/ \E p \in Peer : <<a, p>> \in request_response_senders \union wire

\* Nothing is for an asker that has not asked.
NothingUnasked == \A a \in Asker : Unasked(a) => ~ Named(a) /\ answer[a] = <<>>

\* A record of the kind the client wants, on its way to it or kept by it, was
\* supplied by the network.
WantedIsSupplied ==
    /\ \A j \in Range(todo) : j.do = "answer" /\ j.to[1] \in Client /\ j.msg = Wanted(j.to[1])
          => j.to[1] \in supplied
    /\ \A a \in Asker : a[1] \in Client /\ answer[a] # <<>> /\ Head(answer[a]) = Wanted(a[1])
          => a[1] \in supplied
    /\ \A c \in Client : pc[c] \in {"store_dht", "store_provider"} => c \in supplied

\* Only a client that looks for workflow information asks providers.
InfoAsksProviders ==
    \A c \in Client : pc[c] \in {"ask_provider", "wait_provider", "store_provider"} => c \in InfoClient

\* The runner's questions in the channel are among those it has asked.
NodeEventsAsked == \A e \in Range(chan) : e.type \in NodeEvent => e.type \in asked

IInv ==
    /\ TypeOK /\ TodoShape /\ OwnWaits /\ InfoIsKnown /\ OwnRetrievalUnanswered
    /\ KeptQueryRuns /\ NothingUnasked /\ WantedIsSupplied /\ InfoAsksProviders
    /\ NodeEventsAsked

-----------------------------------------------------------------------------
(* Sequences, events and jobs *)

\* Taking the head of a sequence.
LEMMA TailFacts ==
    ASSUME NEW S, NEW s \in Seq(S), s # <<>>
    PROVE /\ Tail(s) \in Seq(S) /\ Head(s) \in S /\ Head(s) \in Range(s)
          /\ Range(Tail(s)) \subseteq Range(s) /\ Range(s) \subseteq S
          /\ Len(s) \in Nat /\ Len(Tail(s)) = Len(s) - 1
<1>1. /\ Tail(s) \in Seq(S) /\ Head(s) \in S /\ Len(s) \in Nat /\ Len(Tail(s)) = Len(s) - 1
      /\ 1 \in DOMAIN s /\ Head(s) = s[1]
  OBVIOUS
<1>2. \A i \in DOMAIN Tail(s) : i + 1 \in DOMAIN s /\ Tail(s)[i] = s[i + 1]
  OBVIOUS
<1>3. \A i \in DOMAIN s : s[i] \in S
  OBVIOUS
<1>4. Head(s) \in Range(s)
  BY Zenon, <1>1 DEF Range
<1>5. Range(Tail(s)) \subseteq Range(s)
  BY Zenon, <1>2 DEF Range
<1>6. Range(s) \subseteq S
  BY Zenon, <1>3 DEF Range
<1> QED
  BY Zenon, <1>1, <1>4, <1>5, <1>6

\* The places of a sequence whose head was taken.
LEMMA TailIndices ==
    ASSUME NEW S, NEW s \in Seq(S), s # <<>>
    PROVE /\ Len(s) \in Nat /\ Len(Tail(s)) \in Nat /\ Len(Tail(s)) = Len(s) - 1
          /\ 1 \in DOMAIN s /\ s[1] = Head(s)
          /\ \A i \in DOMAIN Tail(s) : i + 1 \in DOMAIN s /\ Tail(s)[i] = s[i + 1] /\ i \in Nat
          /\ Tail(s) # <<>> => Len(Tail(s)) \in DOMAIN Tail(s)
          /\ Tail(s) = <<>> <=> Len(Tail(s)) = 0
<1>1. /\ Len(s) \in Nat /\ Len(Tail(s)) \in Nat /\ Len(Tail(s)) = Len(s) - 1 /\ Tail(s) \in Seq(S)
      /\ 1 \in DOMAIN s /\ s[1] = Head(s)
  OBVIOUS
<1>2. \A i \in DOMAIN Tail(s) : i + 1 \in DOMAIN s /\ Tail(s)[i] = s[i + 1] /\ i \in Nat
  OBVIOUS
<1>3. \A t \in Seq(S) : (t # <<>> => Len(t) \in DOMAIN t) /\ (t = <<>> <=> Len(t) = 0)
  OBVIOUS
<1> QED
  BY Zenon, <1>1, <1>2, <1>3

\* The answer channels have one place.
LEMMA ShortTail ==
    ASSUME NEW S, NEW s \in Seq(S), s # <<>>, Len(s) <= 1
    PROVE Tail(s) = <<>>
<1>1. Tail(s) \in Seq(S) /\ Len(s) \in Nat /\ Len(Tail(s)) = Len(s) - 1 /\ Len(Tail(s)) \in Nat
  OBVIOUS
<1>2. Len(Tail(s)) = 0
  BY <1>1
<1> QED
  BY <1>1, <1>2

\* Adding an element to a sequence.
LEMMA AppendFacts ==
    ASSUME NEW S, NEW s \in Seq(S), NEW x \in S
    PROVE /\ Append(s, x) \in Seq(S) /\ Range(Append(s, x)) \subseteq Range(s) \union {x}
          /\ Len(s) \in Nat /\ Len(Append(s, x)) = Len(s) + 1
<1>1. Append(s, x) \in Seq(S) /\ Len(s) \in Nat /\ Len(Append(s, x)) = Len(s) + 1
  OBVIOUS
<1>2. \A i \in DOMAIN Append(s, x) : (i \in DOMAIN s /\ Append(s, x)[i] = s[i]) \/ Append(s, x)[i] = x
  OBVIOUS
<1>3. Range(Append(s, x)) \subseteq Range(s) \union {x}
  BY Zenon, <1>2 DEF Range
<1> QED
  BY Zenon, <1>1, <1>3

\* The short sequences that todo is set to.
LEMMA OneJob ==
    ASSUME NEW x \in Job, NEW s, s = <<x>>
    PROVE s \in Seq(Job) /\ Range(s) = {x} /\ Len(s) = 1 /\ DOMAIN s = {1} /\ s[1] = x
<1>1. s \in Seq(Job) /\ Len(s) = 1 /\ DOMAIN s = {1} /\ s[1] = x
  OBVIOUS
<1>2. Range(s) = {x}
  BY Zenon, <1>1 DEF Range
<1> QED
  BY Zenon, <1>1, <1>2

\* Two jobs of one event.
LEMMA TwoJobs ==
    ASSUME NEW x \in Job, NEW y \in Job, NEW s, s = <<x, y>>
    PROVE /\ s \in Seq(Job) /\ Range(s) = {x, y} /\ s # <<>>
          /\ Len(s) = 2 /\ DOMAIN s = {1, 2} /\ s[1] = x /\ s[2] = y
<1>1. s \in Seq(Job) /\ s # <<>> /\ Len(s) = 2 /\ DOMAIN s = {1, 2} /\ s[1] = x /\ s[2] = y
  OBVIOUS
<1>2. Range(s) = {x, y}
  BY Zenon, <1>1 DEF Range
<1> QED
  BY Zenon, <1>1, <1>2

\* The askers are pairs of who asks and in which phase.
LEMMA AskerFacts ==
    /\ DhtAsker \subseteq Asker /\ ProviderAsker \subseteq Asker
    /\ \A a \in DhtAsker : a[1] \in Client /\ a[2] = "dht"
    /\ \A a \in ProviderAsker : a[1] \in InfoClient \union Requester /\ a[2] = "provider"
    /\ \A a \in Asker : a[2] # "provider" => a \in DhtAsker
    /\ \A a \in Asker : a[2] # "dht" => a \in ProviderAsker
    /\ \A q \in Put \union Providing : q \notin Asker /\ q[2] # "dht" /\ q[2] # "provider"
    /\ \A c \in Client : <<c, "dht">> \in DhtAsker
    /\ \A c \in InfoClient \union Requester : <<c, "provider">> \in ProviderAsker
    /\ InfoClient \subseteq Client /\ \A p \in Requester : p \notin Client
<1>1. /\ DhtAsker \subseteq Asker /\ ProviderAsker \subseteq Asker
      /\ \A a \in Asker : a \in DhtAsker \/ a \in ProviderAsker
  BY Zenon DEF Asker
<1>2. \A a \in DhtAsker : a[1] \in Client /\ a[2] = "dht"
  BY DEF DhtAsker
<1>3. \A a \in ProviderAsker : a[1] \in InfoClient \union Requester /\ a[2] = "provider"
  BY DEF ProviderAsker
<1>4. \A q \in Put \union Providing : q[2] # "dht" /\ q[2] # "provider"
  BY DEF Put, Providing
<1>5. \A c \in Client : <<c, "dht">> \in DhtAsker
  BY DEF DhtAsker
<1>6. \A c \in InfoClient \union Requester : <<c, "provider">> \in ProviderAsker
  BY DEF ProviderAsker
<1>7. InfoClient \subseteq Client /\ \A p \in Requester : p \notin Client
  BY Zenon, HandlerAssumption DEF Client
<1> QED
  BY Zenon, <1>1, <1>2, <1>3, <1>4, <1>5, <1>6, <1>7

\* What an event carries.
LEMMA EventFacts ==
    ASSUME NEW e \in Event
    PROVE /\ e.type = "FindRecord" => e.asker \in DhtAsker
          /\ e.type \in {"GetProviders", "Providers", "OutboundRequest"} => e.asker \in ProviderAsker
          /\ e.type = "Providers" => e.providers \subseteq Peer
          /\ e.type = "OutboundRequest" => e.peer \in Peer
          /\ e.type = "CapturedReceipt" => e.receipt \in Receipt
          /\ e.type = "ProvideRecord" => e.workflow \in Workflow
          /\ e \in OwnEvent => e.type \in {"GetProviders", "Providers", "OutboundRequest", "StoredRecord"}
BY DEF Event, OwnEvent, NodeEvent

\* What a job carries.
LEMMA JobFacts ==
    ASSUME NEW j \in Job
    PROVE /\ j.do \in {"own", "answer", "finish", "await", "respond"}
          /\ j.do = "own" => j.event \in OwnEvent
          /\ j.do = "answer" => j.to \in Asker /\ j.msg \in Message
          /\ j.do = "finish" => j.query \in ProviderAsker
          /\ j.do \in {"await", "respond"} => j.peer \in Requester
          /\ j.do = "respond" => j.with \in Reply
BY DEF Job

-----------------------------------------------------------------------------
(* What a step that leaves variables alone keeps *)

\* The types, by the part of the state they are about.
LoopType == chan \in Seq(Event) /\ Len(chan) <= EventsBufferLen /\ todo \in Seq(Job)
NetType ==
    /\ query_senders \subseteq Asker \union Put \union Providing
    /\ request_response_senders \subseteq ProviderAsker \X Peer /\ wire \subseteq ProviderAsker \X Peer
    /\ DOMAIN kad \subseteq Asker \union Put \union Providing
    /\ \A q \in DOMAIN kad : kad[q] \in {"empty", "found", "finished"}
ClientType ==
    /\ answer \in [Asker -> Seq(Message)] /\ \A a \in Asker : Len(answer[a]) <= 1
    /\ rx \subseteq Asker /\ pc \in [Client -> Control] /\ supplied \subseteq Client
DbType ==
    /\ workflows \subseteq Workflow /\ receipts \subseteq Receipt
    /\ served \in [Requester -> Workflow \union Reply \union {"none", "unsupported"}]
    /\ captured \subseteq Receipt \union Workflow
    /\ replied \subseteq asked /\ asked \subseteq NodeEvent

\* The parts of the type invariant, by what they are about.
LEMMA TypeParts ==
    /\ TypeOK <=> LoopType /\ NetType /\ ClientType /\ DbType
    /\ TypeOK' <=> LoopType' /\ NetType' /\ ClientType' /\ DbType'
BY Zenon DEF TypeOK, LoopType, NetType, ClientType, DbType

\* The parts of the invariant, for the provers.
LEMMA InvParts ==
    /\ IInv => /\ LoopType /\ NetType /\ ClientType /\ DbType
               /\ TodoShape /\ OwnWaits /\ InfoIsKnown /\ OwnRetrievalUnanswered
               /\ KeptQueryRuns /\ NothingUnasked /\ WantedIsSupplied /\ InfoAsksProviders
               /\ NodeEventsAsked
    /\ (/\ LoopType' /\ NetType' /\ ClientType' /\ DbType'
        /\ TodoShape' /\ OwnWaits' /\ InfoIsKnown' /\ OwnRetrievalUnanswered'
        /\ KeptQueryRuns' /\ NothingUnasked' /\ WantedIsSupplied' /\ InfoAsksProviders'
        /\ NodeEventsAsked') => IInv'
BY Zenon, TypeParts DEF IInv

\* Each part but NothingUnasked stays when its variables do.
LEMMA Frames ==
    ASSUME IInv
    PROVE /\ UNCHANGED <<chan, todo>> => LoopType'
          /\ UNCHANGED netVars => NetType'
          /\ UNCHANGED <<clientVars, supplied>> => ClientType'
          /\ UNCHANGED <<dbVars, served, onceVars>> => DbType'
          /\ UNCHANGED todo => TodoShape'
          /\ UNCHANGED <<todo, rx>> => OwnWaits'
          /\ UNCHANGED <<todo, workflows>> => InfoIsKnown'
          /\ UNCHANGED <<answer, served, workflows>> => OwnRetrievalUnanswered'
          /\ UNCHANGED <<query_senders, kad>> => KeptQueryRuns'
          /\ UNCHANGED <<todo, answer, pc, supplied>> => WantedIsSupplied'
          /\ UNCHANGED pc => InfoAsksProviders'
          /\ UNCHANGED <<chan, asked>> => NodeEventsAsked'
<1>1. UNCHANGED <<chan, todo>> => LoopType'
  BY Zenon, InvParts DEF LoopType
<1>2. UNCHANGED netVars => NetType'
  BY Zenon, InvParts DEF NetType, netVars
<1>3. UNCHANGED <<clientVars, supplied>> => ClientType'
  BY Zenon, InvParts DEF ClientType, clientVars
<1>4. UNCHANGED <<dbVars, served, onceVars>> => DbType'
  BY Zenon, InvParts DEF DbType, dbVars, onceVars
<1>5. UNCHANGED todo => TodoShape'
  BY Zenon, InvParts DEF TodoShape
<1>6. UNCHANGED <<todo, rx>> => OwnWaits'
  BY Zenon, InvParts DEF OwnWaits
<1>7. UNCHANGED <<todo, workflows>> => InfoIsKnown'
  BY Zenon, InvParts DEF InfoIsKnown
<1>8. UNCHANGED <<answer, served, workflows>> => OwnRetrievalUnanswered'
  BY Zenon, InvParts DEF OwnRetrievalUnanswered
<1>9. UNCHANGED <<query_senders, kad>> => KeptQueryRuns'
  BY Zenon, InvParts DEF KeptQueryRuns
<1>10. UNCHANGED <<todo, answer, pc, supplied>> => WantedIsSupplied'
  BY Zenon, InvParts DEF WantedIsSupplied, Wanted
<1>11. UNCHANGED pc => InfoAsksProviders'
  BY Zenon, InvParts DEF InfoAsksProviders
<1>12. UNCHANGED <<chan, asked>> => NodeEventsAsked'
  BY Zenon, InvParts DEF NodeEventsAsked
<1> QED
  BY Zenon, <1>1, <1>2, <1>3, <1>4, <1>5, <1>6, <1>7, <1>8, <1>9, <1>10, <1>11, <1>12

\* NothingUnasked stays when what is for an asker after the step was so before,
\* unless it has asked by then.
LEMMA UnaskedFrame ==
    ASSUME NothingUnasked,
           \A a \in Asker : Unasked(a)' =>
               Unasked(a) /\ (Named(a)' => Named(a)) /\ (answer[a] = <<>> => answer'[a] = <<>>)
    PROVE NothingUnasked'
BY Zenon DEF NothingUnasked

\* Who has not asked is a matter of the clients and of the requests alone.
LEMMA UnaskedSame ==
    ASSUME UNCHANGED <<pc, served>>, NEW a
    PROVE Unasked(a)' => Unasked(a)
BY Zenon DEF Unasked

\* The events and the jobs the actions make.
LEMMA EventsMade ==
    /\ \A a \in DhtAsker : [type |-> "FindRecord", asker |-> a] \in Event
    /\ \A a \in ProviderAsker : [type |-> "GetProviders", asker |-> a] \in OwnEvent
    /\ \A a \in ProviderAsker, ps \in SUBSET Peer :
          [type |-> "Providers", providers |-> ps, asker |-> a] \in OwnEvent
    /\ \A a \in ProviderAsker, q \in Peer :
          [type |-> "OutboundRequest", peer |-> q, asker |-> a] \in OwnEvent
    /\ [type |-> "StoredRecord"] \in OwnEvent
    /\ \A r \in Receipt : [type |-> "CapturedReceipt", receipt |-> r] \in Event
    /\ \A w \in Workflow : [type |-> "ProvideRecord", workflow |-> w] \in Event
    /\ \A t \in NodeEvent : [type |-> t] \in Event
    /\ \A e \in OwnEvent : e \in Event
<1>1. \A a \in DhtAsker : [type |-> "FindRecord", asker |-> a] \in Event
  BY Zenon DEF Event
<1>2. \A a \in ProviderAsker : [type |-> "GetProviders", asker |-> a] \in OwnEvent
  BY DEF OwnEvent
<1>3. \A a \in ProviderAsker, ps \in SUBSET Peer :
        [type |-> "Providers", providers |-> ps, asker |-> a] \in OwnEvent
  BY DEF OwnEvent
<1>4. \A a \in ProviderAsker, q \in Peer :
        [type |-> "OutboundRequest", peer |-> q, asker |-> a] \in OwnEvent
  BY DEF OwnEvent
<1>5. [type |-> "StoredRecord"] \in OwnEvent
  BY DEF OwnEvent
<1>6. \A r \in Receipt : [type |-> "CapturedReceipt", receipt |-> r] \in Event
  BY Zenon DEF Event
<1>7. \A w \in Workflow : [type |-> "ProvideRecord", workflow |-> w] \in Event
  BY Zenon DEF Event
<1>8. \A t \in NodeEvent : [type |-> t] \in Event
  BY Zenon DEF Event
<1>9. \A e \in OwnEvent : e \in Event
  BY Zenon DEF Event
<1> QED
  BY Zenon, <1>1, <1>2, <1>3, <1>4, <1>5, <1>6, <1>7, <1>8, <1>9

\* The jobs that the handlers of events leave are jobs.
LEMMA JobsMade ==
    /\ \A e \in OwnEvent : Own(e) \in Job
    /\ \A a \in Asker, m \in Message : Answer(a, m) \in Job
    /\ \A a \in ProviderAsker : Finish(a) \in Job
    /\ \A p \in Requester : Await(p) \in Job
    /\ \A p \in Requester, m \in Reply : Respond(p, m) \in Job
<1>1. \A e \in OwnEvent : Own(e) \in Job
  BY DEF Job, Own
<1>2. \A a \in Asker, m \in Message : Answer(a, m) \in Job
  BY DEF Job, Answer
<1>3. \A a \in ProviderAsker : Finish(a) \in Job
  BY DEF Job, Finish
<1>4. \A p \in Requester : Await(p) \in Job
  BY DEF Job, Await
<1>5. \A p \in Requester, m \in Reply : Respond(p, m) \in Job
  BY DEF Job, Respond
<1> QED
  BY Zenon, <1>1, <1>2, <1>3, <1>4, <1>5

-----------------------------------------------------------------------------
(* The steps of the clients, and of those who report and ask *)

\* A client's control moves on: whoever has not asked yet had not before.
LEMMA PcMoves ==
    ASSUME ClientType, UNCHANGED served, NEW c \in Client, NEW v \in Control,
           pc' = [pc EXCEPT ![c] = v],
           \/ pc[c] \in {"idle", "ask_dht"}
           \/ pc[c] = "wait_dht" /\ v \notin {"idle", "db", "ask_dht"}
           \/ v \in {"wait_provider", "store_provider", "found", "error"}
    PROVE /\ pc' \in [Client -> Control] /\ pc'[c] = v
          /\ \A d \in Client : d # c => pc'[d] = pc[d]
          /\ \A a \in Asker : Unasked(a)' => Unasked(a)
<1>1. pc' \in [Client -> Control] /\ pc'[c] = v /\ \A d \in Client : d # c => pc'[d] = pc[d]
  BY DEF ClientType
<1>2. ASSUME NEW a \in Asker, Unasked(a)'
      PROVE Unasked(a)
  <2>1. CASE a[1] = c
    BY Zenon, <1>1, <1>2, <2>1 DEF Unasked
  <2>2. CASE a[1] # c
    BY Zenon, <1>1, <1>2, <2>2 DEF Unasked
  <2> QED
    BY Zenon, <2>1, <2>2
<1> QED
  BY Zenon, <1>1, <1>2

\* A client begins: it looks into the database first.
LEMMA BeginStep ==
    ASSUME IInv, NEW c \in Client, Begin(c)
    PROVE IInv'
<1> USE InvParts
<1> PICK v \in {"db", "ask_dht"} : pc' = [pc EXCEPT ![c] = v]
  BY Zenon DEF Begin
<1>1. v \in Control /\ pc[c] = "idle" /\ UNCHANGED served
  BY Zenon DEF Begin, Control
<1>2. /\ pc' \in [Client -> Control] /\ pc'[c] = v
      /\ \A d \in Client : d # c => pc'[d] = pc[d]
      /\ \A a \in Asker : Unasked(a)' => Unasked(a)
  BY Zenon, <1>1, PcMoves
<1>3. workflows \subseteq workflows' /\ workflows' \subseteq Workflow
  <2>1. c \in InfoClient => Wf[c] \in Workflow
    BY Zenon, HandlerAssumption
  <2>2. CASE workflows' = workflows
    BY Zenon, <2>2 DEF DbType
  <2>3. CASE c \in InfoClient /\ workflows' = workflows \union {Wf[c]}
    BY Zenon, <2>1, <2>3 DEF DbType
  <2> QED
    BY Zenon, <2>2, <2>3 DEF Begin
<1>4. ClientType'
  BY Zenon, <1>2 DEF ClientType, Begin
<1>5. DbType'
  BY Zenon, <1>3 DEF DbType, Begin, onceVars
<1>6. InfoIsKnown' /\ OwnRetrievalUnanswered'
  <2>1. workflows # {} => workflows' # {}
    BY Zenon, <1>3
  <2> QED
    BY Zenon, <2>1 DEF Begin, InfoIsKnown, OwnRetrievalUnanswered
<1>7. NothingUnasked'
  <2>1. \A a \in Asker : (Named(a)' => Named(a)) /\ answer' = answer
    BY Zenon DEF Begin, Named, netVars
  <2> QED
    BY Zenon, <1>2, <2>1, UnaskedFrame
<1>8. WantedIsSupplied' /\ InfoAsksProviders'
  BY Zenon, <1>2 DEF Begin, WantedIsSupplied, Wanted, InfoAsksProviders
<1> QED
  BY Zenon, <1>4, <1>5, <1>6, <1>7, <1>8, Frames DEF Begin, netVars, onceVars

\* An event is added to the channel: who is named by it now is the event's asker.
LEMMA EventSent ==
    ASSUME LoopType, NodeEventsAsked, Room, NEW e \in Event, chan' = Append(chan, e),
           UNCHANGED todo, asked \subseteq asked', e.type \in NodeEvent => e.type \in asked'
    PROVE /\ LoopType' /\ NodeEventsAsked'
          /\ UNCHANGED netVars => \A a \in Asker : ~ Carries(e, a) => (Named(a)' => Named(a))
<1>1. /\ chan' \in Seq(Event) /\ Range(chan') \subseteq Range(chan) \union {e}
      /\ Len(chan) \in Nat /\ Len(chan') = Len(chan) + 1
  BY Zenon, AppendFacts DEF LoopType
<1>2. Len(chan') <= EventsBufferLen
  BY <1>1, HandlerAssumption DEF Room
<1>3. LoopType'
  BY Zenon, <1>1, <1>2 DEF LoopType
<1>4. UNCHANGED netVars => \A a \in Asker : ~ Carries(e, a) => (Named(a)' => Named(a))
  BY Zenon, <1>1 DEF Named, netVars
<1>5. NodeEventsAsked'
  BY Zenon, <1>1 DEF NodeEventsAsked
<1> QED
  BY Zenon, <1>3, <1>4, <1>5

\* A client asks the handler, with the sender of its answer (Ask).
LEMMA AskStep ==
    ASSUME IInv, NEW c \in Client, AskDht(c) \/ AskProvider(c)
    PROVE IInv'
<1> USE InvParts
<1> PICK phase \in {"dht", "provider"}, event \in {"FindRecord", "GetProviders"},
         wait \in {"wait_dht", "wait_provider"} :
        /\ Ask(c, phase, event, wait)
        /\ \/ phase = "dht" /\ event = "FindRecord" /\ wait = "wait_dht" /\ pc[c] = "ask_dht"
           \/ phase = "provider" /\ event = "GetProviders" /\ wait = "wait_provider" /\ c \in InfoClient
  BY Zenon DEF AskDht, AskProvider, InfoAsksProviders
<1> DEFINE e == [type |-> event, asker |-> <<c, phase>>]
<1>1. <<c, phase>> \in Asker /\ e \in Event
  BY Zenon, AskerFacts, EventsMade DEF Client
<1>2. wait \in Control /\ UNCHANGED served /\ pc' = [pc EXCEPT ![c] = wait]
  BY Zenon DEF Ask, Control
<1>3. /\ pc' \in [Client -> Control] /\ pc'[c] = wait
      /\ \A d \in Client : d # c => pc'[d] = pc[d]
      /\ \A a \in Asker : Unasked(a)' => Unasked(a)
  BY Zenon, <1>2, PcMoves
<1>4. Room /\ chan' = Append(chan, e) /\ UNCHANGED todo /\ UNCHANGED netVars
  BY Zenon DEF Ask
<1>5. /\ LoopType' /\ NodeEventsAsked'
      /\ \A a \in Asker : ~ Carries(e, a) => (Named(a)' => Named(a))
  <2>1. e.type \notin NodeEvent /\ asked' = asked
    BY Zenon DEF NodeEvent, Ask, onceVars
  <2> QED
    BY Zenon, <1>1, <1>4, <2>1, EventSent
<1>6. \A a \in Asker : Unasked(a)' => ~ Carries(e, a)
  <2>1. ~ Unasked(<<c, phase>>)'
    BY Zenon, <1>3 DEF Unasked
  <2>2. \A a : Carries(e, a) => a = <<c, phase>>
    BY Zenon DEF Carries
  <2> QED
    BY Zenon, <2>1, <2>2
<1>7. NothingUnasked'
  <2>1. answer' = answer
    BY Zenon DEF Ask
  <2> QED
    BY Zenon, <1>3, <1>5, <1>6, <2>1, UnaskedFrame
<1>8. ClientType'
  BY Zenon, <1>1, <1>3 DEF ClientType, Ask
<1>9. OwnWaits'
  <2>1. \A p \in Requester : <<p, "provider">> # <<c, phase>>
    BY AskerFacts
  <2>2. \A p \in Requester : <<p, "provider">> \in rx' => <<p, "provider">> \in rx
    BY Zenon, <2>1 DEF Ask
  <2> QED
    BY Zenon, <2>2 DEF OwnWaits, Ask
<1>10. WantedIsSupplied' /\ InfoAsksProviders'
  BY Zenon, <1>3 DEF Ask, WantedIsSupplied, Wanted, InfoAsksProviders
<1> QED
  BY Zenon, <1>5, <1>7, <1>8, <1>9, <1>10, Frames DEF Ask, dbVars, netVars

\* A client that has its answer, or has waited long enough, moves on.
LEMMA ReceiveStep ==
    ASSUME IInv, NEW c \in Client, NEW phase \in {"dht", "provider"}, <<c, phase>> \in Asker,
           Receive(c, phase) \/ Deadline(c, phase)
    PROVE IInv'
<1> USE InvParts
<1> DEFINE a == <<c, phase>>
<1> PICK v \in {"store_dht", "store_provider", "ask_provider", "error"} :
        /\ pc' = [pc EXCEPT ![c] = v] /\ (phase = "provider" => v \in {"store_provider", "error"})
        /\ (phase = "dht" => v # "store_provider") /\ (v = "ask_provider" => c \in InfoClient)
        /\ v \in {"store_dht", "store_provider"} => answer[a] # <<>> /\ Head(answer[a]) = Wanted(c)
  BY Zenon DEF Receive, Deadline, GiveUp
<1>1. /\ v \in Control /\ UNCHANGED <<chan, todo, netVars, dbVars, served, onceVars, supplied>>
      /\ pc[c] = (IF phase = "dht" THEN "wait_dht" ELSE "wait_provider")
      /\ rx' = rx \/ rx' = rx \ {a}
  BY Zenon DEF Receive, Deadline, GiveUp, Waits, Control
<1>2. /\ pc' \in [Client -> Control] /\ pc'[c] = v
      /\ \A d \in Client : d # c => pc'[d] = pc[d]
      /\ \A x \in Asker : Unasked(x)' => Unasked(x)
  BY Zenon, <1>1, PcMoves
<1>3. /\ answer' = answer \/ (answer' = [answer EXCEPT ![a] = Tail(@)] /\ answer[a] # <<>>)
      /\ answer \in [Asker -> Seq(Message)] /\ \A x \in Asker : Len(answer[x]) <= 1
  BY Zenon DEF Receive, Deadline, ClientType
<1>4. /\ answer' \in [Asker -> Seq(Message)]
      /\ \A x \in Asker : answer'[x] = answer[x] \/ answer'[x] = <<>>
  <2>1. CASE answer' = answer
    BY Zenon, <1>3, <2>1
  <2>2. CASE answer' = [answer EXCEPT ![a] = Tail(@)] /\ answer[a] # <<>>
    <3>1. answer[a] \in Seq(Message) /\ Len(answer[a]) <= 1
      BY Zenon, <1>3
    <3>2. Tail(answer[a]) = <<>>
      BY Zenon, <2>2, <3>1, ShortTail
    <3>3. answer' = [answer EXCEPT ![a] = <<>>]
      BY Zenon, <2>2, <3>2
    <3> QED
      BY <1>3, <3>3
  <2> QED
    BY Zenon, <1>3, <2>1, <2>2
<1>5. ClientType'
  <2>1. \A x \in Asker : Len(answer'[x]) <= 1
    BY <1>3, <1>4
  <2>2. rx' \subseteq Asker
    BY Zenon, <1>1 DEF ClientType
  <2> QED
    BY Zenon, <1>1, <1>2, <1>4, <2>1, <2>2 DEF ClientType
<1>6. NothingUnasked'
  <2>1. \A x \in Asker : (Named(x)' => Named(x)) /\ (answer[x] = <<>> => answer'[x] = <<>>)
    BY Zenon, <1>1, <1>4 DEF Named, netVars
  <2> QED
    BY Zenon, <1>2, <2>1, UnaskedFrame
<1>7. OwnWaits'
  <2>1. rx' \subseteq rx
    BY Zenon, <1>1
  <2> QED
    BY Zenon, <1>1, <2>1 DEF OwnWaits
<1>8. OwnRetrievalUnanswered'
  <2>1. \A p \in Requester : <<p, "provider">> \in Asker
    BY Zenon, AskerFacts
  <2> QED
    BY Zenon, <1>1, <1>4, <2>1 DEF OwnRetrievalUnanswered, dbVars
<1>9. WantedIsSupplied'
  <2>1. v \in {"store_dht", "store_provider"} => c \in supplied
    <3>1. a[1] = c
      OBVIOUS
    <3> QED
      BY Zenon, <3>1 DEF WantedIsSupplied
  <2>2. \A d \in Client : pc'[d] \in {"store_dht", "store_provider"} => d \in supplied'
    BY Zenon, <1>1, <1>2, <2>1 DEF WantedIsSupplied
  <2>3. \A x \in Asker : x[1] \in Client /\ answer'[x] # <<>> /\ Head(answer'[x]) = Wanted(x[1])
          => x[1] \in supplied'
    BY Zenon, <1>1, <1>4 DEF WantedIsSupplied
  <2> QED
    BY Zenon, <1>1, <2>2, <2>3 DEF WantedIsSupplied, Wanted
<1>10. InfoAsksProviders'
  <2>1. v \in {"ask_provider", "store_provider"} => c \in InfoClient
    BY Zenon, <1>1 DEF InfoAsksProviders
  <2> QED
    BY Zenon, <1>2, <2>1 DEF InfoAsksProviders
<1> QED
  BY Zenon, <1>1, <1>5, <1>6, <1>7, <1>8, <1>9, <1>10, Frames DEF dbVars, netVars, onceVars

\* A client that was answered tells the handler what it stored.
LEMMA SendStoredStep ==
    ASSUME IInv, NEW c \in Client, NEW phase, SendStored(c, phase)
    PROVE IInv'
<1> USE InvParts
<1> DEFINE e == [type |-> "StoredRecord"]
<1>1. /\ "found" \in Control /\ UNCHANGED served /\ pc' = [pc EXCEPT ![c] = "found"]
      /\ e \in Event /\ \A a : ~ Carries(e, a)
  BY Zenon, EventsMade DEF SendStored, Control, Carries
<1>2. /\ pc' \in [Client -> Control] /\ pc'[c] = "found"
      /\ \A d \in Client : d # c => pc'[d] = pc[d]
      /\ \A a \in Asker : Unasked(a)' => Unasked(a)
  BY Zenon, <1>1, PcMoves
<1>3. Room /\ chan' = Append(chan, e) /\ UNCHANGED todo /\ UNCHANGED netVars
  BY Zenon DEF SendStored
<1>4. LoopType' /\ NodeEventsAsked' /\ \A a \in Asker : Named(a)' => Named(a)
  <2>1. e.type \notin NodeEvent /\ asked' = asked
    BY Zenon DEF NodeEvent, SendStored, onceVars
  <2> QED
    BY Zenon, <1>1, <1>3, <2>1, EventSent
<1>5. NothingUnasked'
  BY Zenon, <1>2, <1>4, UnaskedFrame DEF SendStored
<1>6. ClientType' /\ OwnWaits'
  BY Zenon, <1>2 DEF ClientType, OwnWaits, SendStored
<1>7. WantedIsSupplied' /\ InfoAsksProviders'
  BY Zenon, <1>2 DEF SendStored, WantedIsSupplied, Wanted, InfoAsksProviders
<1> QED
  BY Zenon, <1>4, <1>5, <1>6, <1>7, Frames DEF SendStored, dbVars, netVars

\* The worker and the runner send events that carry no sender of an answer.
LEMMA ReportStep ==
    ASSUME IInv,
           \/ \E r \in Receipt : Capture(r)
           \/ \E w \in Workflow : Provide(w)
           \/ \E e \in NodeEvent : AskNode(e)
    PROVE IInv'
<1> USE InvParts
<1>1. \E e \in Event : /\ Room /\ chan' = Append(chan, e) /\ \A a : ~ Carries(e, a)
                       /\ e.type \in NodeEvent => e.type \in asked'
  <2>1. ASSUME NEW r \in Receipt, Capture(r)
        PROVE \E e \in Event : /\ Room /\ chan' = Append(chan, e) /\ \A a : ~ Carries(e, a)
                               /\ e.type \in NodeEvent => e.type \in asked'
    <3>1. /\ ~ \E a : Carries([type |-> "CapturedReceipt", receipt |-> r], a)
          /\ [type |-> "CapturedReceipt", receipt |-> r].type \notin NodeEvent
      BY Zenon DEF Carries, NodeEvent
    <3> QED
      BY Zenon, <2>1, <3>1, EventsMade DEF Capture
  <2>2. ASSUME NEW w \in Workflow, Provide(w)
        PROVE \E e \in Event : /\ Room /\ chan' = Append(chan, e) /\ \A a : ~ Carries(e, a)
                               /\ e.type \in NodeEvent => e.type \in asked'
    <3>1. /\ ~ \E a : Carries([type |-> "ProvideRecord", workflow |-> w], a)
          /\ [type |-> "ProvideRecord", workflow |-> w].type \notin NodeEvent
      BY Zenon DEF Carries, NodeEvent
    <3> QED
      BY Zenon, <2>2, <3>1, EventsMade DEF Provide
  <2>3. ASSUME NEW t \in NodeEvent, AskNode(t)
        PROVE \E e \in Event : /\ Room /\ chan' = Append(chan, e) /\ \A a : ~ Carries(e, a)
                               /\ e.type \in NodeEvent => e.type \in asked'
    <3>1. ~ \E a : Carries([type |-> t], a)
      BY Zenon DEF Carries, NodeEvent
    <3> QED
      BY Zenon, <2>3, <3>1, EventsMade DEF AskNode
  <2> QED
    BY Zenon, <2>1, <2>2, <2>3
<1>2. /\ UNCHANGED <<todo, netVars, clientVars, workflows, served, supplied>>
      /\ receipts' \subseteq Receipt /\ captured' \subseteq Receipt \union Workflow
      /\ replied' \subseteq asked' /\ asked \subseteq asked' /\ asked' \subseteq NodeEvent
  BY Zenon DEF Capture, Provide, AskNode, DbType, dbVars
<1>3. LoopType' /\ NodeEventsAsked' /\ \A a \in Asker : Named(a)' => Named(a)
  BY Zenon, <1>1, <1>2, EventSent
<1>4. NothingUnasked'
  BY Zenon, <1>2, <1>3, UnaskedSame, UnaskedFrame DEF clientVars
<1>5. DbType'
  BY Zenon, <1>2 DEF DbType
<1> QED
  BY Zenon, <1>2, <1>3, <1>4, <1>5, Frames DEF netVars, clientVars

-----------------------------------------------------------------------------
(* The events of the channel *)

\* Starting queries.
LEMMA QueriesStarted ==
    ASSUME NetType, KeptQueryRuns, NEW qs, qs \subseteq Asker \union Put \union Providing,
           kad' = Query(qs), query_senders' = query_senders \union qs,
           UNCHANGED <<request_response_senders, wire>>
    PROVE /\ NetType' /\ KeptQueryRuns'
          /\ DOMAIN kad' = DOMAIN kad \union qs
<1>1. /\ DOMAIN kad' = DOMAIN kad \union qs
      /\ \A q \in DOMAIN kad' : kad'[q] = IF q \in qs THEN "empty" ELSE kad[q]
  BY Zenon DEF Query
<1>2. NetType'
  BY Zenon, <1>1 DEF NetType
<1>3. KeptQueryRuns'
  BY Zenon, <1>1 DEF KeptQueryRuns
<1> QED
  BY Zenon, <1>1, <1>2, <1>3

\* The providers of an event are finitely many peers, in some order.
LEMMA ProvidersInOrder ==
    ASSUME NEW providers, providers \subseteq Peer,
           NEW ps \in Injection(1..Cardinality(providers), providers)
    PROVE ps \in Seq(Peer) /\ \A i, j \in DOMAIN ps : i # j => ps[i] # ps[j]
<1>1. IsFiniteSet(providers)
  BY Zenon, HandlerAssumption, FS_Subset
<1>2. Cardinality(providers) \in Nat
  BY Zenon, <1>1, FS_CardinalityType
<1>3. /\ ps \in [1..Cardinality(providers) -> providers]
      /\ \A i, j \in DOMAIN ps : i # j => ps[i] # ps[j]
  BY Zenon DEF Injection, IsInjective
<1>4. ps \in [1..Cardinality(providers) -> Peer]
  BY <1>3
<1>5. ps \in Seq(Peer)
  BY <1>2, <1>4
<1> QED
  BY Zenon, <1>3, <1>5

\* Handling Providers: what is left to do is to send a request's event to each.
LEMMA ProvidersListed ==
    ASSUME NEW providers, providers \subseteq Peer, NEW a \in ProviderAsker,
           ToProviders(providers, a)
    PROVE /\ todo' \in Seq(Job)
          /\ \A i \in DOMAIN todo' :
                /\ todo'[i].do = "own" /\ todo'[i].event.type = "OutboundRequest"
                /\ todo'[i].event.asker = a /\ todo'[i].event.peer \in providers
          /\ \A i, j \in DOMAIN todo' : todo'[i].event.peer = todo'[j].event.peer => i = j
<1> DEFINE out(q) == Own([type |-> "OutboundRequest", peer |-> q, asker |-> a])
<1> PICK ps \in Injection(1..Cardinality(providers), providers) : todo' = [i \in DOMAIN ps |-> out(ps[i])]
  BY Zenon DEF ToProviders
<1>1. ps \in Seq(Peer) /\ \A i, j \in DOMAIN ps : i # j => ps[i] # ps[j]
  BY Zenon, ProvidersInOrder
<1>2. \A i \in DOMAIN ps : ps[i] \in providers
  BY Zenon DEF Injection
<1>3. \A q \in Peer : out(q) \in Job
  BY Zenon, EventsMade, JobsMade
<1>4. \A q : /\ out(q).do = "own" /\ out(q).event.type = "OutboundRequest"
             /\ out(q).event.asker = a /\ out(q).event.peer = q
  BY DEF Own
<1> HIDE DEF out
<1>5. todo' \in Seq(Job) /\ DOMAIN todo' = DOMAIN ps
  BY <1>1, <1>3
<1>6. \A i \in DOMAIN todo' : todo'[i] = out(ps[i])
  BY Zenon, <1>5
<1>7. \A i \in DOMAIN todo' :
        /\ todo'[i].do = "own" /\ todo'[i].event.type = "OutboundRequest"
        /\ todo'[i].event.asker = a /\ todo'[i].event.peer = ps[i]
  BY Zenon, <1>4, <1>6
<1>8. \A i, j \in DOMAIN todo' : todo'[i].event.peer = todo'[j].event.peer => i = j
  <2> TAKE i, j \in DOMAIN todo'
  <2>1. todo'[i].event.peer = ps[i] /\ todo'[j].event.peer = ps[j]
    BY Zenon, <1>7
  <2> QED
    BY Zenon, <1>1, <1>5, <2>1
<1>9. \A i \in DOMAIN todo' : todo'[i].event.peer \in providers
  BY Zenon, <1>2, <1>5, <1>7
<1>10. \A i \in DOMAIN todo' :
        /\ todo'[i].do = "own" /\ todo'[i].event.type = "OutboundRequest" /\ todo'[i].event.asker = a
  BY Zenon, <1>7
<1> QED
  BY Zenon, <1>5, <1>8, <1>9, <1>10

\* What handling any event keeps: the loop was at its select, so that it does not
\* listen for an answer of its own, and it gets nothing to do but to send events.
LEMMA HandledFrame ==
    ASSUME IInv, AtSelect, chan # <<>>, chan' = Tail(chan),
           todo' \in Seq(Job), \A i \in DOMAIN todo' : todo'[i].do = "own",
           UNCHANGED <<clientVars, dbVars, served, captured, asked, supplied>>,
           replied' \subseteq asked, NetType', KeptQueryRuns',
           \A a \in Asker : Named(a)' => Named(a)
    PROVE IInv'
<1> USE InvParts
<1>1. LoopType'
  <2>1. chan \in Seq(Event) /\ Len(chan) <= EventsBufferLen
    BY Zenon DEF LoopType
  <2>2. chan' \in Seq(Event) /\ Len(chan') = Len(chan) - 1 /\ Len(chan) \in Nat
    BY Zenon, <2>1, TailFacts
  <2>3. Len(chan') <= EventsBufferLen
    BY <2>1, <2>2, HandlerAssumption
  <2> QED
    BY Zenon, <2>2, <2>3 DEF LoopType
<1>8. NodeEventsAsked'
  <2>1. Range(chan') \subseteq Range(chan)
    BY Zenon, TailFacts DEF LoopType
  <2> QED
    BY Zenon, <2>1 DEF NodeEventsAsked
<1>2. \A j \in Range(todo') : j.do = "own"
  BY Zenon DEF Range
<1>3. TodoShape' /\ InfoIsKnown'
  BY Zenon, <1>2 DEF TodoShape, InfoIsKnown
<1>4. OwnWaits'
  BY Zenon DEF AtSelect, OwnWaits, clientVars
<1>5. WantedIsSupplied'
  BY Zenon, <1>2 DEF WantedIsSupplied, Wanted, clientVars
<1>6. NothingUnasked'
  BY Zenon, UnaskedSame, UnaskedFrame DEF clientVars
<1>7. DbType'
  BY Zenon DEF DbType, dbVars
<1> QED
  BY Zenon, <1>1, <1>3, <1>4, <1>5, <1>6, <1>7, <1>8, Frames DEF clientVars, dbVars

\* The loop takes an event from its channel and handles it.
LEMMA HandleEventStep ==
    ASSUME IInv, HandleEvent
    PROVE IInv'
<1> USE InvParts
<1> DEFINE e == Head(chan)
<1>1. /\ AtSelect /\ todo = <<>> /\ chan # <<>> /\ chan' = Tail(chan)
      /\ UNCHANGED <<clientVars, dbVars, served, captured, asked, supplied>>
  BY Zenon DEF HandleEvent, AtSelect
<1>2. e \in Event /\ e \in Range(chan) /\ Range(chan') \subseteq Range(chan)
  BY Zenon, <1>1, TailFacts DEF LoopType
<1> HIDE DEF e
<1>3. todo \in Seq(Job) /\ \A i \in DOMAIN todo : todo[i].do = "own"
  BY <1>1
<1>4. replied \subseteq asked
  BY Zenon DEF DbType
<1>5. CASE \E qs \in SUBSET (Asker \union Put \union Providing) :
              /\ kad' = Query(qs) /\ query_senders' = query_senders \union qs
              /\ UNCHANGED <<todo, request_response_senders, wire, replied>>
              /\ \A a \in Asker : a \in qs => Carries(e, a)
  <2> PICK qs \in SUBSET (Asker \union Put \union Providing) :
              /\ kad' = Query(qs) /\ query_senders' = query_senders \union qs
              /\ UNCHANGED <<todo, request_response_senders, wire, replied>>
              /\ \A a \in Asker : a \in qs => Carries(e, a)
    BY Zenon, <1>5
  <2>1. NetType' /\ KeptQueryRuns' /\ DOMAIN kad' = DOMAIN kad \union qs
    BY Zenon, QueriesStarted
  <2>2. \A a \in Asker : Named(a)' => Named(a)
    BY Zenon, <1>2, <2>1 DEF Named
  <2> QED
    BY Zenon, <1>1, <1>3, <1>4, <2>1, <2>2, HandledFrame
<1>6. CASE e.type = "Providers" /\ ToProviders(e.providers, e.asker)
  <2>1. e.providers \subseteq Peer /\ e.asker \in ProviderAsker
    BY Zenon, <1>2, <1>6, EventFacts
  <2>2. /\ todo' \in Seq(Job)
        /\ \A i \in DOMAIN todo' :
              /\ todo'[i].do = "own" /\ todo'[i].event.type = "OutboundRequest"
              /\ todo'[i].event.asker = e.asker /\ todo'[i].event.peer \in e.providers
    BY Zenon, <1>6, <2>1, ProvidersListed
  <2>3. UNCHANGED <<netVars, replied>>
    BY Zenon, <1>6 DEF ToProviders
  <2>4. \A a \in Asker : Named(a)' => Named(a)
    <3>1. \A a, j : j \in Range(todo') /\ JobNames(j, a) => Carries(e, a)
      <4>1. \A i \in DOMAIN todo' : \A a : JobNames(todo'[i], a) => Carries(e, a)
        BY Zenon, <1>6, <2>2 DEF JobNames, Carries
      <4> QED
        BY Zenon, <4>1 DEF Range
    <3> QED
      BY Zenon, <1>2, <2>3, <3>1 DEF Named, netVars
  <2>5. NetType' /\ KeptQueryRuns'
    BY Zenon, <2>3, Frames DEF netVars
  <2> QED
    BY Zenon, <1>1, <1>4, <2>2, <2>3, <2>4, <2>5, HandledFrame
<1>7. CASE e.type = "OutboundRequest" /\ OutboundRequest(e.peer, e.asker)
  <2>1. e.peer \in Peer /\ e.asker \in ProviderAsker
    BY Zenon, <1>2, <1>7, EventFacts
  <2>2. Carries(e, e.asker) /\ \A a, q : <<a, q>> = <<e.asker, e.peer>> => a = e.asker
    BY <1>7 DEF Carries
  <2>3. NetType'
    <3>1. <<e.asker, e.peer>> \in ProviderAsker \X Peer
      BY <2>1
    <3> QED
      BY Zenon, <1>7, <3>1 DEF OutboundRequest, NetType
  <2>4. KeptQueryRuns'
    BY Zenon, <1>7, Frames DEF OutboundRequest
  <2>5. \A a \in Asker : Named(a)' => Named(a)
    BY Zenon, <1>2, <1>7, <2>2 DEF Named, OutboundRequest
  <2> QED
    BY Zenon, <1>1, <1>3, <1>4, <1>7, <2>3, <2>4, <2>5, HandledFrame DEF OutboundRequest
<1>8. CASE /\ replied' \subseteq asked /\ UNCHANGED <<todo, netVars>>
  <2>1. NetType' /\ KeptQueryRuns'
    BY Zenon, <1>8, Frames DEF netVars
  <2>2. \A a \in Asker : Named(a)' => Named(a)
    BY Zenon, <1>2, <1>8 DEF Named, netVars
  <2> QED
    BY Zenon, <1>1, <1>3, <1>8, <2>1, <2>2, HandledFrame
<1>9. \/ e.type \in {"FindRecord", "GetProviders"} /\ StartQuery(e.asker)
      \/ e.type = "CapturedReceipt" /\ Publish(e.receipt)
      \/ e.type = "ProvideRecord" /\ ProvideRecord(e.workflow)
      \/ e.type = "Providers" /\ ToProviders(e.providers, e.asker)
      \/ e.type = "OutboundRequest" /\ OutboundRequest(e.peer, e.asker)
      \/ e.type \in NodeEvent /\ ReplyNode(e.type)
      \/ e.type = "StoredRecord" /\ UNCHANGED <<todo, netVars, replied>>
  BY Zenon DEF HandleEvent, e
<1>10. CASE e.type \in {"FindRecord", "GetProviders"} /\ StartQuery(e.asker)
  <2>1. e.asker \in Asker /\ Carries(e, e.asker)
    BY Zenon, <1>2, <1>10, EventFacts, AskerFacts DEF Carries
  <2>2. {e.asker} \in SUBSET (Asker \union Put \union Providing)
    BY Zenon, <2>1
  <2> QED
    BY Zenon, <1>5, <1>10, <2>1, <2>2 DEF StartQuery
<1>11. CASE e.type = "CapturedReceipt" /\ Publish(e.receipt)
  <2>1. {e.receipt} \X {"receipt", "workflow"} \subseteq Put
    <3>1. e.receipt \in Receipt
      BY Zenon, <1>2, <1>11, EventFacts
    <3> QED
      BY <3>1 DEF Put
  <2>2. CASE UNCHANGED <<kad, query_senders>>
    BY Zenon, <1>4, <1>8, <1>11, <2>2 DEF Publish, netVars
  <2>3. ASSUME NEW qs \in SUBSET ({e.receipt} \X {"receipt", "workflow"}),
               kad' = Query(qs), query_senders' = query_senders \union qs
        PROVE IInv'
    <3>1. qs \in SUBSET (Asker \union Put \union Providing) /\ \A a \in Asker : a \notin qs
      BY Zenon, <2>1, AskerFacts
    <3> QED
      BY Zenon, <1>5, <1>11, <2>3, <3>1 DEF Publish
  <2> QED
    BY Zenon, <1>11, <2>2, <2>3 DEF Publish
<1>12. CASE e.type = "ProvideRecord" /\ ProvideRecord(e.workflow)
  <2>1. <<e.workflow, "provide">> \in Providing
    <3>1. e.workflow \in Workflow
      BY Zenon, <1>2, <1>12, EventFacts
    <3> QED
      BY <3>1 DEF Providing
  <2>2. CASE UNCHANGED <<kad, query_senders>>
    BY Zenon, <1>4, <1>8, <1>12, <2>2 DEF ProvideRecord, netVars
  <2>3. ASSUME kad' = Query({<<e.workflow, "provide">>}),
               query_senders' = query_senders \union {<<e.workflow, "provide">>}
        PROVE IInv'
    <3>1. /\ {<<e.workflow, "provide">>} \in SUBSET (Asker \union Put \union Providing)
          /\ \A a \in Asker : a \notin {<<e.workflow, "provide">>}
      BY Zenon, <2>1, AskerFacts
    <3> QED
      BY Zenon, <1>5, <1>12, <2>3, <3>1 DEF ProvideRecord
  <2> QED
    BY Zenon, <1>12, <2>2, <2>3 DEF ProvideRecord
<1>13. CASE e.type \in NodeEvent /\ ReplyNode(e.type)
  <2>1. e.type \in asked
    BY Zenon, <1>2, <1>13 DEF NodeEventsAsked
  <2> QED
    BY Zenon, <1>4, <1>8, <1>13, <2>1 DEF ReplyNode
<1>14. CASE e.type = "StoredRecord" /\ UNCHANGED <<todo, netVars, replied>>
  BY Zenon, <1>4, <1>8, <1>14
<1> QED
  BY Zenon, <1>6, <1>7, <1>9, <1>10, <1>11, <1>12, <1>13, <1>14

-----------------------------------------------------------------------------
(* What is left of the event at hand *)

\* One thing is done: what ends the list is done last.
LEMMA JobDone ==
    ASSUME LoopType, TodoShape, ~ AtSelect, todo' = Tail(todo)
    PROVE /\ todo' \in Seq(Job) /\ Head(todo) \in Job /\ Head(todo) \in Range(todo)
          /\ TodoShape' /\ Range(todo') \subseteq Range(todo)
          /\ todo' = <<>> => todo[Len(todo)] = Head(todo)
          /\ todo' # <<>> => todo'[Len(todo')] = todo[Len(todo)]
          /\ Head(todo).do \in {"answer", "await", "respond"} =>
                todo' = <<>> /\ todo[Len(todo)] = Head(todo)
<1>1. todo \in Seq(Job) /\ todo # <<>>
  BY Zenon DEF LoopType, AtSelect
<1>2. /\ todo' \in Seq(Job) /\ Head(todo) \in Job /\ Head(todo) \in Range(todo)
      /\ Range(todo') \subseteq Range(todo)
  BY Zenon, <1>1, TailFacts
<1>3. /\ Len(todo) \in Nat /\ Len(todo') \in Nat /\ Len(todo') = Len(todo) - 1
      /\ 1 \in DOMAIN todo /\ todo[1] = Head(todo)
      /\ \A i \in DOMAIN todo' : i + 1 \in DOMAIN todo /\ todo'[i] = todo[i + 1] /\ i \in Nat
      /\ todo' # <<>> => Len(todo') \in DOMAIN todo'
      /\ todo' = <<>> <=> Len(todo') = 0
  BY Zenon, <1>1, TailIndices
<1>4. TodoShape'
  <2> SUFFICES ASSUME NEW i \in DOMAIN todo', todo'[i].do \in {"answer", "await", "respond"}
               PROVE i = Len(todo')
    BY Zenon DEF TodoShape
  <2>1. i + 1 = Len(todo) /\ i \in Nat
    BY Zenon, <1>3 DEF TodoShape
  <2> QED
    BY <1>3, <2>1
<1>5. todo' = <<>> => Len(todo) = 1
  BY <1>3
<1>6. todo' = <<>> => todo[Len(todo)] = Head(todo)
  BY Zenon, <1>3, <1>5
<1>7. todo' # <<>> => todo'[Len(todo')] = todo[Len(todo)]
  <2>1. Len(todo') + 1 = Len(todo)
    BY <1>3
  <2> QED
    BY Zenon, <1>3, <2>1
<1>8. Head(todo).do \in {"answer", "await", "respond"} => todo' = <<>>
  <2>1. Head(todo).do \in {"answer", "await", "respond"} => Len(todo) = 1
    BY Zenon, <1>3 DEF TodoShape
  <2> QED
    BY <1>3, <2>1
<1> QED
  BY Zenon, <1>2, <1>4, <1>6, <1>7, <1>8

\* The loop sends an event to its own channel.
LEMMA SendOwnStep ==
    ASSUME IInv, SendOwn
    PROVE IInv'
<1> USE InvParts
<1> DEFINE j == Head(todo)
<1>1. /\ j.do = "own" /\ ~ AtSelect /\ todo' = Tail(todo) /\ Room /\ chan' = Append(chan, j.event)
      /\ UNCHANGED <<netVars, clientVars, dbVars, served, onceVars, supplied>>
  BY Zenon DEF SendOwn
<1>2. /\ todo' \in Seq(Job) /\ j \in Job /\ j \in Range(todo)
      /\ TodoShape' /\ Range(todo') \subseteq Range(todo)
      /\ todo' = <<>> => todo[Len(todo)] = j
      /\ todo' # <<>> => todo'[Len(todo')] = todo[Len(todo)]
  BY Zenon, <1>1, JobDone
<1> HIDE DEF j
<1>3. j.event \in OwnEvent /\ j.event \in Event
  BY Zenon, <1>1, <1>2, JobFacts, EventsMade
<1>4. j.event.type \notin NodeEvent
  BY Zenon, <1>3, EventFacts DEF NodeEvent
<1>5. /\ chan' \in Seq(Event) /\ Range(chan') \subseteq Range(chan) \union {j.event}
      /\ Len(chan) \in Nat /\ Len(chan') = Len(chan) + 1
  BY Zenon, <1>1, <1>3, AppendFacts DEF LoopType
<1>6. LoopType'
  <2>1. Len(chan') <= EventsBufferLen
    BY <1>1, <1>5, HandlerAssumption DEF Room
  <2> QED
    BY Zenon, <1>2, <1>5, <2>1 DEF LoopType
<1>7. NodeEventsAsked'
  BY Zenon, <1>1, <1>4, <1>5 DEF NodeEventsAsked, onceVars
<1>8. OwnWaits'
  BY Zenon, <1>1, <1>2 DEF OwnWaits, clientVars
<1>9. InfoIsKnown' /\ WantedIsSupplied'
  BY Zenon, <1>1, <1>2 DEF InfoIsKnown, WantedIsSupplied, Wanted, clientVars, dbVars
<1>10. NothingUnasked'
  <2>1. \A a \in Asker : Named(a)' => Named(a)
    BY Zenon, <1>1, <1>2, <1>5 DEF Named, JobNames, netVars
  <2> QED
    BY Zenon, <1>1, <2>1, UnaskedSame, UnaskedFrame DEF clientVars
<1> QED
  BY Zenon, <1>1, <1>2, <1>6, <1>7, <1>8, <1>9, <1>10, Frames DEF clientVars, dbVars, netVars

\* The loop sends an answer, or drops it when the asker is gone.
LEMMA SendAnswerStep ==
    ASSUME IInv, SendAnswer
    PROVE IInv'
<1> USE InvParts
<1> DEFINE j == Head(todo)
<1>1. /\ j.do = "answer" /\ ~ AtSelect /\ todo' = Tail(todo)
      /\ UNCHANGED <<chan, netVars, rx, pc, dbVars, served, onceVars, supplied>>
      /\ \/ answer' = answer
         \/ j.to \in rx /\ answer' = [answer EXCEPT ![j.to] = <<j.msg>>]
  BY Zenon DEF SendAnswer
<1>2. /\ j \in Job /\ j \in Range(todo) /\ todo' = <<>> /\ todo[Len(todo)] = j
      /\ TodoShape' /\ todo' \in Seq(Job) /\ Range(todo') \subseteq Range(todo)
  BY Zenon, <1>1, JobDone
<1> HIDE DEF j
<1>3. j.to \in Asker /\ j.msg \in Message /\ Named(j.to)
  BY Zenon, <1>1, <1>2, JobFacts DEF Named, JobNames
<1>4. \A p \in Requester : <<p, "provider">> \notin rx /\ <<p, "provider">> \in Asker
  BY Zenon, <1>1, <1>2, AskerFacts DEF OwnWaits
<1>5. /\ answer' \in [Asker -> Seq(Message)]
      /\ \A a \in Asker : \/ answer'[a] = answer[a]
                          \/ a = j.to /\ a \in rx /\ answer'[a] = <<j.msg>>
  <2>1. CASE answer' = answer
    BY Zenon, <2>1 DEF ClientType
  <2>2. CASE j.to \in rx /\ answer' = [answer EXCEPT ![j.to] = <<j.msg>>]
    <3>1. <<j.msg>> \in Seq(Message)
      BY <1>3
    <3> QED
      BY Zenon, <1>3, <2>2, <3>1 DEF ClientType
  <2> QED
    BY Zenon, <1>1, <2>1, <2>2
<1>6. ClientType'
  <2>1. Len(<<j.msg>>) = 1
    OBVIOUS
  <2>2. \A a \in Asker : Len(answer'[a]) <= 1
    <3>1. \A a \in Asker : Len(answer'[a]) = Len(answer[a]) \/ Len(answer'[a]) = 1
      BY Zenon, <1>5, <2>1
    <3>2. \A a \in Asker : Len(answer[a]) <= 1
      BY Zenon DEF ClientType
    <3>3. 1 <= 1
      OBVIOUS
    <3> QED
      BY Zenon, <3>1, <3>2, <3>3
  <2> QED
    BY Zenon, <1>1, <1>5, <2>2 DEF ClientType
<1>7. LoopType' /\ OwnWaits' /\ InfoIsKnown'
  BY Zenon, <1>1, <1>2, <1>4 DEF LoopType, OwnWaits, InfoIsKnown, dbVars
<1>8. OwnRetrievalUnanswered'
  BY Zenon, <1>1, <1>4, <1>5 DEF OwnRetrievalUnanswered, dbVars
<1>9. WantedIsSupplied'
  <2>1. Head(<<j.msg>>) = j.msg
    OBVIOUS
  <2>2. \A a \in Asker : a[1] \in Client /\ answer'[a] # <<>> /\ Head(answer'[a]) = Wanted(a[1])
          => a[1] \in supplied
    <3> SUFFICES ASSUME NEW a \in Asker, a[1] \in Client, answer'[a] # <<>>,
                        Head(answer'[a]) = Wanted(a[1])
                 PROVE a[1] \in supplied
      BY Zenon
    <3>1. CASE answer'[a] = answer[a]
      BY Zenon, <3>1 DEF WantedIsSupplied
    <3>2. CASE a = j.to /\ answer'[a] = <<j.msg>>
      <4>1. j.msg = Wanted(j.to[1]) /\ j.to[1] \in Client
        BY Zenon, <2>1, <3>2
      <4> QED
        BY Zenon, <1>1, <1>2, <3>2, <4>1 DEF WantedIsSupplied
    <3> QED
      BY Zenon, <1>5, <3>1, <3>2
  <2> QED
    BY Zenon, <1>1, <1>2, <2>2 DEF WantedIsSupplied, Wanted
<1>10. NothingUnasked'
  <2>1. \A a \in Asker : Named(a)' => Named(a)
    BY Zenon, <1>1, <1>2 DEF Named, netVars
  <2>2. \A a \in Asker : Unasked(a)' => Unasked(a)
    BY Zenon, <1>1, UnaskedSame
  <2>3. \A a \in Asker : Unasked(a) => a # j.to
    BY Zenon, <1>3 DEF NothingUnasked
  <2> QED
    BY Zenon, <1>5, <2>1, <2>2, <2>3, UnaskedFrame
<1> QED
  BY Zenon, <1>1, <1>2, <1>6, <1>7, <1>8, <1>9, <1>10, Frames DEF dbVars, netVars, onceVars

\* The loop tells a GetProviders query to finish.
LEMMA FinishQueryStep ==
    ASSUME IInv, FinishQuery
    PROVE IInv'
<1> USE InvParts
<1> DEFINE j == Head(todo)
<1>1. /\ j.do = "finish" /\ ~ AtSelect /\ todo' = Tail(todo)
      /\ kad' = [q \in DOMAIN kad |-> IF q = j.query THEN "finished" ELSE kad[q]]
      /\ UNCHANGED <<chan, query_senders, request_response_senders, wire, clientVars, dbVars,
                     served, onceVars, supplied>>
  BY Zenon DEF FinishQuery
<1>2. /\ todo' \in Seq(Job) /\ j \in Job /\ j \in Range(todo)
      /\ TodoShape' /\ Range(todo') \subseteq Range(todo)
      /\ todo' = <<>> => todo[Len(todo)] = j
      /\ todo' # <<>> => todo'[Len(todo')] = todo[Len(todo)]
  BY Zenon, <1>1, JobDone
<1> HIDE DEF j
<1>3. /\ DOMAIN kad' = DOMAIN kad
      /\ \A q \in DOMAIN kad : kad'[q] = IF q = j.query THEN "finished" ELSE kad[q]
  BY Zenon, <1>1
<1>4. j.query[2] = "provider"
  BY Zenon, <1>1, <1>2, JobFacts, AskerFacts
<1>5. NetType' /\ LoopType'
  BY Zenon, <1>1, <1>2, <1>3 DEF NetType, LoopType
<1>6. KeptQueryRuns'
  BY Zenon, <1>1, <1>3, <1>4 DEF KeptQueryRuns
<1>7. OwnWaits'
  BY Zenon, <1>1, <1>2 DEF OwnWaits, clientVars
<1>8. InfoIsKnown' /\ WantedIsSupplied'
  BY Zenon, <1>1, <1>2 DEF InfoIsKnown, WantedIsSupplied, Wanted, clientVars, dbVars
<1>9. NothingUnasked'
  <2>1. \A a \in Asker : Named(a)' => Named(a)
    BY Zenon, <1>1, <1>2, <1>3 DEF Named
  <2> QED
    BY Zenon, <1>1, <2>1, UnaskedSame, UnaskedFrame DEF clientVars
<1> QED
  BY Zenon, <1>1, <1>2, <1>5, <1>6, <1>7, <1>8, <1>9, Frames DEF clientVars, dbVars, onceVars

\* The handler's wait for an answer of its own ends in a timeout, always.
LEMMA AwaitOwnStep ==
    ASSUME IInv, AwaitOwn
    PROVE IInv'
<1> USE InvParts
<1> DEFINE p == Head(todo).peer
<1>1. /\ Head(todo).do = "await" /\ ~ AtSelect
      /\ UNCHANGED <<chan, netVars, rx, pc, dbVars, served, onceVars, supplied>>
      /\ answer' = [answer EXCEPT ![<<p, "provider">>] = <<>>]
      /\ answer[<<p, "provider">>] = <<>> => todo' = <<Respond(p, "Timeout")>>
  BY Zenon DEF AwaitOwn
<1>2. todo \in Seq(Job) /\ todo # <<>>
  BY Zenon, <1>1 DEF LoopType, AtSelect
<1>3. p \in Requester
  BY Zenon, <1>1, <1>2, TailFacts, JobFacts
<1>4. \A q \in Requester : <<q, "provider">> \in rx => q = p
  <2>1. 1 \in DOMAIN todo /\ todo[1] = Head(todo)
    BY <1>2
  <2>2. 1 = Len(todo)
    BY Zenon, <1>1, <2>1 DEF TodoShape
  <2> QED
    BY Zenon, <2>1, <2>2 DEF OwnWaits
<1> HIDE DEF p
<1>5. answer[<<p, "provider">>] = <<>> /\ answer \in [Asker -> Seq(Message)]
  BY Zenon, <1>3 DEF OwnRetrievalUnanswered, ClientType
<1>6. answer' = answer
  BY Zenon, <1>1, <1>5
<1> DEFINE j == Respond(p, "Timeout")
<1>7. /\ j \in Job /\ todo' = <<j>> /\ j.do = "respond" /\ j.peer = p /\ j.with = "Timeout"
  <2>1. "Timeout" \in Reply
    BY Zenon DEF Reply
  <2> QED
    BY Zenon, <1>1, <1>3, <1>5, <2>1, JobsMade DEF Respond
<1> HIDE DEF j
<1>8. todo' \in Seq(Job) /\ Range(todo') = {j}
  BY Zenon, <1>7, OneJob
<1>9. todo' # <<>> /\ Len(todo') = 1 /\ todo'[1] = j /\ DOMAIN todo' = {1}
  BY <1>7
<1>10. LoopType' /\ TodoShape'
  BY Zenon, <1>1, <1>8, <1>9 DEF LoopType, TodoShape
<1>11. OwnWaits'
  BY Zenon, <1>1, <1>4, <1>7, <1>9 DEF OwnWaits
<1>12. InfoIsKnown' /\ WantedIsSupplied'
  BY Zenon, <1>1, <1>6, <1>7, <1>8 DEF InfoIsKnown, WantedIsSupplied, Wanted
<1>13. NothingUnasked'
  <2>1. \A a \in Asker : Named(a)' => Named(a)
    BY Zenon, <1>1, <1>7, <1>8 DEF Named, JobNames, netVars
  <2> QED
    BY Zenon, <1>1, <1>6, <2>1, UnaskedSame, UnaskedFrame
<1> QED
  BY Zenon, <1>1, <1>6, <1>10, <1>11, <1>12, <1>13, Frames
     DEF clientVars, dbVars, netVars, onceVars

\* The loop responds to a peer.
LEMMA SendResponseStep ==
    ASSUME IInv, SendResponse
    PROVE IInv'
<1> USE InvParts
<1> DEFINE j == Head(todo)
<1>1. /\ j.do = "respond" /\ ~ AtSelect /\ todo' = Tail(todo)
      /\ served' = [served EXCEPT ![j.peer] = j.with] /\ rx' = rx \ {<<j.peer, "provider">>}
      /\ UNCHANGED <<chan, netVars, answer, pc, dbVars, onceVars, supplied>>
  BY Zenon DEF SendResponse
<1>2. /\ j \in Job /\ j \in Range(todo) /\ todo' = <<>> /\ todo[Len(todo)] = j
      /\ TodoShape' /\ todo' \in Seq(Job) /\ Range(todo') \subseteq Range(todo)
  BY Zenon, <1>1, JobDone
<1> HIDE DEF j
<1>3. j.peer \in Requester /\ j.with \in Reply /\ j.with # "none"
  BY Zenon, <1>1, <1>2, JobFacts DEF Reply
<1>4. /\ served' \in [Requester -> Workflow \union Reply \union {"none", "unsupported"}]
      /\ served'[j.peer] = j.with /\ \A p \in Requester : p # j.peer => served'[p] = served[p]
  BY <1>1, <1>3 DEF DbType
<1>5. DbType' /\ LoopType' /\ ClientType'
  BY Zenon, <1>1, <1>2, <1>4 DEF DbType, LoopType, ClientType, dbVars, onceVars
<1>6. OwnWaits'
  BY Zenon, <1>1, <1>2 DEF OwnWaits
<1>7. InfoIsKnown' /\ WantedIsSupplied'
  BY Zenon, <1>1, <1>2 DEF InfoIsKnown, WantedIsSupplied, Wanted, dbVars
<1>8. OwnRetrievalUnanswered'
  <2>1. j.with = "info" => workflows # {}
    BY Zenon, <1>1, <1>2 DEF InfoIsKnown
  <2> QED
    BY Zenon, <1>1, <1>4, <2>1 DEF OwnRetrievalUnanswered, dbVars
<1>9. NothingUnasked'
  <2>1. \A a \in Asker : Named(a)' => Named(a)
    BY Zenon, <1>1, <1>2 DEF Named, netVars
  <2>2. \A a \in Asker : Unasked(a)' => Unasked(a)
    <3>1. \A a \in Asker : a[1] \in Client \/ a[1] \in Requester
      BY Zenon, AskerFacts
    <3> QED
      BY Zenon, <1>1, <1>3, <1>4, <3>1 DEF Unasked
  <2> QED
    BY Zenon, <1>1, <2>1, <2>2, UnaskedFrame
<1> QED
  BY Zenon, <1>1, <1>2, <1>5, <1>6, <1>7, <1>8, <1>9, Frames DEF dbVars, netVars, onceVars

-----------------------------------------------------------------------------
(* The events of the swarm *)

\* What an event that at most answers an asker of the past keeps.
LEMMA AnsweredFrame ==
    ASSUME IInv, AtSelect,
           UNCHANGED <<chan, clientVars, dbVars, served, onceVars>>,
           \/ todo' = <<>>
           \/ \E a \in Asker, m \in Message :
                 /\ todo' = <<Answer(a, m)>> /\ Named(a)
                 /\ a[1] \in Client /\ m = Wanted(a[1]) => a[1] \in supplied',
           supplied \subseteq supplied', supplied' \subseteq Client, NetType', KeptQueryRuns',
           query_senders' \subseteq query_senders, DOMAIN kad' \subseteq DOMAIN kad,
           request_response_senders' \subseteq request_response_senders, wire' \subseteq wire
    PROVE IInv'
<1> USE InvParts
<1>1. \A p \in Requester : <<p, "provider">> \notin rx'
  BY Zenon DEF AtSelect, OwnWaits, clientVars
<1>2. /\ todo' \in Seq(Job) /\ TodoShape'
      /\ \A j \in Range(todo') :
            /\ j.do = "answer" /\ j.to \in Asker /\ Named(j.to)
            /\ j.to[1] \in Client /\ j.msg = Wanted(j.to[1]) => j.to[1] \in supplied'
  <2>1. CASE todo' = <<>>
    BY <2>1 DEF TodoShape, Range
  <2>2. ASSUME NEW a \in Asker, NEW m \in Message, todo' = <<Answer(a, m)>>, Named(a),
               a[1] \in Client /\ m = Wanted(a[1]) => a[1] \in supplied'
        PROVE /\ todo' \in Seq(Job) /\ TodoShape'
              /\ \A j \in Range(todo') :
                    /\ j.do = "answer" /\ j.to \in Asker /\ Named(j.to)
                    /\ j.to[1] \in Client /\ j.msg = Wanted(j.to[1]) => j.to[1] \in supplied'
    <3> DEFINE j == Answer(a, m)
    <3>1. j \in Job /\ j.do = "answer" /\ j.to = a /\ j.msg = m
      BY Zenon, JobsMade DEF Answer
    <3> HIDE DEF j
    <3>2. todo' = <<j>>
      BY Zenon, <2>2 DEF j
    <3>3. todo' \in Seq(Job) /\ Range(todo') = {j}
      BY Zenon, <3>1, <3>2, OneJob
    <3>4. Len(todo') = 1 /\ DOMAIN todo' = {1}
      BY <3>2
    <3>5. TodoShape'
      BY Zenon, <3>4 DEF TodoShape
    <3> QED
      BY Zenon, <2>2, <3>1, <3>3, <3>5
  <2> QED
    BY Zenon, <2>1, <2>2
<1>3. LoopType' /\ OwnWaits' /\ InfoIsKnown' /\ ClientType'
  BY Zenon, <1>1, <1>2 DEF LoopType, OwnWaits, InfoIsKnown, ClientType, clientVars
<1>4. WantedIsSupplied'
  <2>1. \A a \in Asker : a[1] \in Client /\ answer'[a] # <<>> /\ Head(answer'[a]) = Wanted(a[1])
          => a[1] \in supplied'
    BY Zenon DEF WantedIsSupplied, clientVars
  <2>2. \A c \in Client : pc'[c] \in {"store_dht", "store_provider"} => c \in supplied'
    BY Zenon DEF WantedIsSupplied, clientVars
  <2> QED
    BY Zenon, <1>2, <2>1, <2>2 DEF WantedIsSupplied, Wanted
<1>5. NothingUnasked'
  <2>1. \A a \in Asker : Named(a)' => Named(a)
    <3>1. \A a, j : j \in Range(todo') /\ JobNames(j, a) => Named(a)
      BY Zenon, <1>2 DEF JobNames
    <3> QED
      BY Zenon, <3>1 DEF Named
  <2> QED
    BY Zenon, <2>1, UnaskedSame, UnaskedFrame DEF clientVars
<1> QED
  BY Zenon, <1>2, <1>3, <1>4, <1>5, Frames DEF clientVars, dbVars, onceVars

\* A query ends: it is no longer one of Kademlia's.
LEMMA EndedFacts ==
    ASSUME NEW q, kad' = Ended(q)
    PROVE DOMAIN kad' = DOMAIN kad \ {q} /\ \A x \in DOMAIN kad' : kad'[x] = kad[x]
BY Zenon DEF Ended

\* What the capsules decode to.
LEMMA DecodedFacts ==
    ASSUME NEW v
    PROVE decode_capsule(v) \in Message
BY Zenon DEF decode_capsule, Message

\* The network found a record of a query.
LEMMA FoundRecordStep ==
    ASSUME IInv, NEW a \in DOMAIN kad, NEW v \in Capsule, FoundRecord(a, v)
    PROVE IInv'
<1> USE InvParts
<1>1. /\ AtSelect /\ a[2] = "dht" /\ kad' = [kad EXCEPT ![a] = "found"]
      /\ query_senders' = query_senders \ {a} /\ AnswerKept(a, decode_capsule(v))
      /\ supplied' = IF decode_capsule(v) = Wanted(a[1]) THEN supplied \union {a[1]} ELSE supplied
      /\ UNCHANGED <<chan, request_response_senders, wire, clientVars, dbVars, served, onceVars>>
  BY Zenon DEF FoundRecord, Forget
<1>2. a \in Asker /\ a[1] \in Client
  <2>1. a \in Asker
    BY Zenon, <1>1, AskerFacts DEF NetType
  <2> QED
    BY Zenon, <1>1, <2>1, AskerFacts
<1>3. /\ DOMAIN kad' = DOMAIN kad /\ kad'[a] = "found"
      /\ \A q \in DOMAIN kad : q # a => kad'[q] = kad[q]
  BY Zenon, <1>1
<1>4. NetType'
  BY Zenon, <1>1, <1>3 DEF NetType
<1>5. KeptQueryRuns'
  BY Zenon, <1>1, <1>3 DEF KeptQueryRuns
<1>6. supplied \subseteq supplied' /\ supplied' \subseteq Client
  BY Zenon, <1>1, <1>2 DEF ClientType
<1>7. decode_capsule(v) = Wanted(a[1]) => a[1] \in supplied'
  BY Zenon, <1>1
<1>8. \/ todo' = <<>>
      \/ \E x \in Asker, m \in Message :
            /\ todo' = <<Answer(x, m)>> /\ Named(x)
            /\ x[1] \in Client /\ m = Wanted(x[1]) => x[1] \in supplied'
  BY Zenon, <1>1, <1>2, <1>7, DecodedFacts DEF AnswerKept, Named
<1> QED
  BY Zenon, <1>1, <1>3, <1>4, <1>5, <1>6, <1>8, AnsweredFrame

\* A query ends, with or without a result.
LEMMA QueryEndStep ==
    ASSUME IInv, NEW a \in DOMAIN kad,
           \/ GetRecordEnd(a) \/ PutEnd(a)
           \/ \E err \in BOOLEAN : GetProvidersEnd(a, err)
    PROVE IInv'
<1> USE InvParts
<1>1. /\ AtSelect /\ kad' = Ended(a)
      /\ UNCHANGED <<chan, request_response_senders, wire, clientVars, dbVars, served, onceVars,
                     supplied>>
      /\ \/ \E m \in {"Err", "Providers"} : AnswerKept(a, m) /\ query_senders' = query_senders \ {a}
         \/ UNCHANGED todo /\ query_senders' = query_senders \ {a}
         \/ /\ UNCHANGED <<todo, query_senders>>
            /\ a[2] = "provider" \/ (a[2] = "dht" /\ kad[a] # "empty")
  BY Zenon DEF GetRecordEnd, PutEnd, GetProvidersEnd, Forget
<1>2. DOMAIN kad' = DOMAIN kad \ {a} /\ \A x \in DOMAIN kad' : kad'[x] = kad[x]
  BY Zenon, <1>1, EndedFacts
<1>3. query_senders' \subseteq query_senders
  BY Zenon, <1>1
<1>4. NetType'
  BY Zenon, <1>1, <1>2, <1>3 DEF NetType
<1>5. KeptQueryRuns'
  <2>1. \A q \in query_senders' : q[2] # "provider" => q # a
    BY Zenon, <1>1 DEF KeptQueryRuns
  <2> QED
    BY Zenon, <1>2, <1>3, <2>1 DEF KeptQueryRuns
<1>6. supplied \subseteq supplied' /\ supplied' \subseteq Client
  BY Zenon, <1>1 DEF ClientType
<1>7. \/ todo' = <<>>
      \/ \E x \in Asker, m \in Message :
            /\ todo' = <<Answer(x, m)>> /\ Named(x)
            /\ x[1] \in Client /\ m = Wanted(x[1]) => x[1] \in supplied'
  <2>1. \A m \in {"Err", "Providers"} : m \in Message /\ \A c : m # Wanted(c)
    BY Zenon DEF Message, Wanted
  <2>2. todo = <<>>
    BY Zenon, <1>1 DEF AtSelect
  <2> QED
    BY Zenon, <1>1, <2>1, <2>2 DEF AnswerKept, Named
<1> QED
  BY Zenon, <1>1, <1>2, <1>3, <1>4, <1>5, <1>6, <1>7, AnsweredFrame

\* A request to a provider ends, in a response or a failure.
LEMMA RequestEndStep ==
    ASSUME IInv, NEW ap \in wire,
           OutboundFailure(ap[1], ap[2]) \/ \E v \in Capsule : Response(ap[1], ap[2], v)
    PROVE IInv'
<1> USE InvParts
<1> DEFINE a == ap[1]
<1>1. ap \in ProviderAsker \X Peer
  BY Zenon DEF NetType
<1>2. ap = <<a, ap[2]>> /\ a \in ProviderAsker /\ ap[2] \in Peer
  BY <1>1
<1>3. a \in Asker /\ Named(a)
  BY Zenon, <1>2, AskerFacts DEF Named
<1> HIDE DEF a
<1>4. /\ AtSelect /\ todo = <<>> /\ wire' \subseteq wire
      /\ request_response_senders' \subseteq request_response_senders
      /\ UNCHANGED <<chan, query_senders, kad, clientVars, dbVars, served, onceVars>>
  BY Zenon DEF OutboundFailure, Response, AtSelect
<1>5. NetType' /\ KeptQueryRuns'
  BY Zenon, <1>4 DEF NetType, KeptQueryRuns
<1>6. CASE OutboundFailure(ap[1], ap[2])
  <2>1. UNCHANGED <<todo, supplied>>
    BY Zenon, <1>6 DEF OutboundFailure
  <2>2. supplied \subseteq supplied' /\ supplied' \subseteq Client
    BY Zenon, <2>1 DEF ClientType
  <2> QED
    BY Zenon, <1>4, <1>5, <2>1, <2>2, AnsweredFrame
<1>7. ASSUME NEW v \in Capsule, Response(ap[1], ap[2], v)
      PROVE IInv'
  <2> DEFINE m == IF decode_capsule(v) = "Workflow" THEN "Workflow" ELSE "Err"
  <2>1. /\ m \in Message /\ m # "Receipt"
        /\ todo' = <<>> \/ todo' = <<Answer(a, m)>>
        /\ supplied' = IF decode_capsule(v) = "Workflow" THEN supplied \union ({a[1]} \cap Client)
                       ELSE supplied
    BY Zenon, <1>7 DEF Response, Message, a
  <2>2. supplied \subseteq supplied' /\ supplied' \subseteq Client
    BY Zenon, <2>1 DEF ClientType
  <2>3. a[1] \in Client /\ m = Wanted(a[1]) => a[1] \in supplied'
    <3>1. \A c : Wanted(c) \in {"Workflow", "Receipt"}
      BY Zenon DEF Wanted
    <3>2. m = "Workflow" => decode_capsule(v) = "Workflow"
      BY Zenon
    <3> HIDE DEF m
    <3> QED
      BY Zenon, <2>1, <3>1, <3>2
  <2> QED
    BY Zenon, <1>3, <1>4, <1>5, <2>1, <2>2, <2>3, AnsweredFrame
<1> QED
  BY Zenon, <1>6, <1>7

\* The network found providers.
LEMMA FoundProvidersStep ==
    ASSUME IInv, NEW a \in DOMAIN kad, NEW ps \in SUBSET (Peer \union {Self}), FoundProviders(a, ps)
    PROVE IInv'
<1> USE InvParts
<1> DEFINE e == [type |-> "Providers", providers |-> ps \ {Self}, asker |-> a]
<1>1. /\ AtSelect /\ a[2] = "provider" /\ a \in query_senders
      /\ query_senders' = query_senders \ {a} /\ todo' = <<Own(e), Finish(a)>>
      /\ UNCHANGED <<chan, request_response_senders, kad, wire, clientVars, dbVars, served,
                     onceVars, supplied>>
  BY Zenon DEF FoundProviders, Forget
<1>2. a \in Asker /\ a \in ProviderAsker /\ Named(a)
  <2>1. a \in Asker
    BY Zenon, <1>1, AskerFacts DEF NetType
  <2> QED
    BY Zenon, <1>1, <2>1, AskerFacts DEF Named
<1>3. Own(e) \in Job /\ Finish(a) \in Job
  <2>1. ps \ {Self} \in SUBSET Peer
    BY Zenon
  <2> QED
    BY Zenon, <1>2, <2>1, EventsMade, JobsMade
<1>4. /\ Own(e).do = "own" /\ Finish(a).do = "finish"
      /\ \A x : JobNames(Own(e), x) \/ JobNames(Finish(a), x) => x = a
  BY Zenon DEF Own, Finish, JobNames, Carries
<1> HIDE DEF e
<1>5. todo' \in Seq(Job) /\ Range(todo') = {Own(e), Finish(a)}
  <2>1. todo' = <<Own(e), Finish(a)>>
    BY Zenon, <1>1
  <2> QED
    <3>1. ASSUME NEW i \in Job, NEW j \in Job, NEW s, s = <<i, j>>
          PROVE s \in Seq(Job) /\ Range(s) = {i, j}
      BY Zenon, <3>1, TwoJobs
    <3> QED
      BY Zenon, <1>3, <2>1, <3>1
<1>6. \A i \in DOMAIN todo' : todo'[i] \in Range(todo')
  BY Zenon DEF Range
<1>7. LoopType' /\ TodoShape' /\ InfoIsKnown'
  BY Zenon, <1>1, <1>4, <1>5, <1>6 DEF LoopType, TodoShape, InfoIsKnown
<1>8. OwnWaits'
  BY Zenon, <1>1 DEF OwnWaits, AtSelect, clientVars
<1>9. NetType' /\ KeptQueryRuns'
  BY Zenon, <1>1 DEF NetType, KeptQueryRuns
<1>10. WantedIsSupplied'
  BY Zenon, <1>1, <1>4, <1>5 DEF WantedIsSupplied, Wanted, clientVars
<1>11. NothingUnasked'
  <2>1. \A x \in Asker : Named(x)' => Named(x)
    <3>1. \A x, j : j \in Range(todo') /\ JobNames(j, x) => Named(x)
      BY Zenon, <1>2, <1>4, <1>5
    <3> QED
      BY Zenon, <1>1, <3>1 DEF Named
  <2> QED
    BY Zenon, <1>1, <2>1, UnaskedSame, UnaskedFrame DEF clientVars
<1> QED
  BY Zenon, <1>1, <1>7, <1>8, <1>9, <1>10, <1>11, Frames DEF clientVars, dbVars, onceVars

\* A peer asks: the information is known, or the handler asks itself and waits.
LEMMA RequestStep ==
    ASSUME IInv, NEW p \in Requester, NEW w \in Workflow \union {"unsupported"}, Request(p, w)
    PROVE IInv'
<1> USE InvParts
<1> DEFINE a == <<p, "provider">>
           e == [type |-> "GetProviders", asker |-> a]
<1>1. /\ AtSelect /\ served' = [served EXCEPT ![p] = w]
      /\ UNCHANGED <<chan, netVars, answer, pc, dbVars, onceVars, supplied>>
  BY Zenon DEF Request
<1>2. w # "none" /\ w # "info"
  BY Zenon, HandlerAssumption
<1>3. /\ served' \in [Requester -> Workflow \union Reply \union {"none", "unsupported"}]
      /\ served'[p] = w /\ \A q \in Requester : q # p => served'[q] = served[q]
  BY <1>1 DEF DbType
<1>4. /\ a \in Asker /\ a \in ProviderAsker /\ a[1] = p
      /\ \A q \in Requester : <<q, "provider">> \notin rx
      /\ \A q \in Requester : <<q, "provider">> = a => q = p
  <2>1. a[1] = p /\ \A q \in Requester : <<q, "provider">> = a => q = p
    OBVIOUS
  <2> QED
    BY Zenon, <1>1, <2>1, AskerFacts DEF AtSelect, OwnWaits
<1>5. \A x \in Asker : Unasked(x)' => Unasked(x) /\ x # a
  <2>1. \A x \in Asker : x[1] \in Client \/ x[1] \in Requester
    BY Zenon, AskerFacts
  <2> QED
    BY Zenon, <1>1, <1>2, <1>3, <1>4, <2>1, AskerFacts DEF Unasked
<1>6. DbType'
  BY Zenon, <1>1, <1>3 DEF DbType, dbVars, onceVars
<1>7. OwnRetrievalUnanswered'
  BY Zenon, <1>1, <1>2, <1>3 DEF OwnRetrievalUnanswered, dbVars
<1>8. /\ LoopType' /\ TodoShape' /\ OwnWaits' /\ InfoIsKnown' /\ rx' \subseteq Asker
      /\ \A j \in Range(todo') : j.do # "answer"
      /\ \A x, j : j \in Range(todo') /\ JobNames(j, x) => x = a
  <2>1. CASE w = "unsupported" \/ w \in workflows
    <3> PICK m \in {"Unsupported", "info"} :
            /\ todo' = <<Respond(p, m)>> /\ UNCHANGED rx /\ (m = "info" => w \in workflows)
      BY Zenon, <2>1 DEF Request
    <3> DEFINE j == Respond(p, m)
    <3>1. j \in Job /\ j.do = "respond" /\ j.with = m
      <4>1. m \in Reply
        BY Zenon DEF Reply
      <4> QED
        BY Zenon, <4>1, JobsMade DEF Respond
    <3> HIDE DEF j
    <3>2. todo' = <<j>>
      BY Zenon DEF j
    <3>3. todo' \in Seq(Job) /\ Range(todo') = {j}
      <4>1. <<j>> \in Seq(Job) /\ Range(<<j>>) = {j}
        BY Zenon, <3>1, OneJob
      <4> QED
        BY Zenon, <3>2, <4>1
    <3>4. Len(todo') = 1 /\ DOMAIN todo' = {1}
      BY <3>2
    <3>5. LoopType' /\ TodoShape' /\ OwnWaits'
      BY Zenon, <1>1, <1>4, <3>3, <3>4 DEF LoopType, TodoShape, OwnWaits
    <3>6. InfoIsKnown' /\ rx' \subseteq Asker
      BY Zenon, <1>1, <3>1, <3>3 DEF InfoIsKnown, dbVars, ClientType
    <3> QED
      BY Zenon, <3>1, <3>3, <3>5, <3>6 DEF JobNames
  <2>2. CASE ~ (w = "unsupported" \/ w \in workflows)
    <3>1. todo' = <<Own(e), Await(p)>> /\ rx' = rx \union {a}
      BY Zenon, <2>2 DEF Request
    <3>2. Own(e) \in Job /\ Await(p) \in Job
      BY Zenon, <1>4, EventsMade, JobsMade
    <3>3. /\ Own(e).do = "own" /\ Await(p).do = "await" /\ Await(p).peer = p
          /\ \A x : JobNames(Own(e), x) \/ JobNames(Await(p), x) => x = a
      BY Zenon DEF Own, Await, JobNames, Carries
    <3> HIDE DEF e
    <3>4. todo' \in Seq(Job) /\ Range(todo') = {Own(e), Await(p)}
      <4>1. ASSUME NEW i \in Job, NEW j \in Job, NEW s, s = <<i, j>>
            PROVE s \in Seq(Job) /\ Range(s) = {i, j}
        BY Zenon, <4>1, TwoJobs
      <4> QED
        BY Zenon, <3>1, <3>2, <4>1
    <3>5. todo' # <<>> /\ Len(todo') = 2 /\ DOMAIN todo' = {1, 2} /\ todo'[1] = Own(e) /\ todo'[2] = Await(p)
      BY <3>1
    <3>6. LoopType' /\ TodoShape' /\ InfoIsKnown' /\ rx' \subseteq Asker
      BY Zenon, <1>1, <1>4, <3>1, <3>3, <3>4, <3>5
         DEF LoopType, TodoShape, InfoIsKnown, ClientType
    <3>7. OwnWaits'
      BY Zenon, <1>4, <3>1, <3>3, <3>5 DEF OwnWaits
    <3> QED
      BY Zenon, <3>3, <3>4, <3>6, <3>7
  <2> QED
    BY Zenon, <2>1, <2>2
<1> HIDE DEF a
<1>9. ClientType' /\ WantedIsSupplied'
  BY Zenon, <1>1, <1>8 DEF ClientType, WantedIsSupplied, Wanted
<1>10. NothingUnasked'
  <2>1. \A x \in Asker : x # a => (Named(x)' => Named(x))
    BY Zenon, <1>1, <1>8 DEF Named, netVars
  <2> QED
    BY Zenon, <1>1, <1>5, <2>1, UnaskedFrame
<1> QED
  BY Zenon, <1>1, <1>6, <1>7, <1>8, <1>9, <1>10, Frames DEF netVars, onceVars

\* A gossiped receipt only adds to the database, and a step that changes nothing
\* keeps everything.
LEMMA GossipStep ==
    ASSUME IInv, (\E r \in Receipt : Gossip(r)) \/ UNCHANGED vars
    PROVE IInv'
<1> USE InvParts
<1>1. /\ UNCHANGED <<chan, todo, netVars, clientVars, workflows, served, onceVars, supplied>>
      /\ receipts' \subseteq Receipt
  BY Zenon DEF Gossip, vars, dbVars, DbType
<1>2. DbType'
  BY Zenon, <1>1 DEF DbType, onceVars
<1>3. NothingUnasked'
  <2>1. \A a \in Asker : Named(a)' => Named(a)
    BY Zenon, <1>1 DEF Named, netVars
  <2> QED
    BY Zenon, <1>1, <2>1, UnaskedSame, UnaskedFrame DEF clientVars
<1> QED
  BY Zenon, <1>1, <1>2, <1>3, Frames DEF clientVars, netVars, onceVars

-----------------------------------------------------------------------------
(* The theorems *)

\* The handler starts with nothing in its channel and its maps.
LEMMA InitInv == Init => IInv
<1> SUFFICES ASSUME Init PROVE IInv
  OBVIOUS
<1>1. /\ chan \in Seq(Event) /\ Len(chan) = 0 /\ todo \in Seq(Job) /\ Range(chan) = {} /\ Range(todo) = {}
      /\ DOMAIN todo = {} /\ <<>> \in Seq(Message) /\ Len(<<>>) = 0
  BY DEF Init, Range
<1>2. 0 <= EventsBufferLen /\ 0 <= 1
  BY HandlerAssumption
<1>3. LoopType /\ NetType
  BY Zenon, <1>1, <1>2 DEF Init, LoopType, NetType
<1>4. ClientType
  <2>1. "idle" \in Control
    BY Zenon DEF Control
  <2>2. \A a \in Asker : answer[a] = <<>>
    BY Zenon DEF Init
  <2>3. \A a \in Asker : Len(answer[a]) = 0
    BY Zenon, <1>1, <2>2
  <2>4. answer \in [Asker -> Seq(Message)] /\ pc \in [Client -> Control]
    BY Zenon, <1>1, <2>1 DEF Init
  <2>5. \A a \in Asker : Len(answer[a]) <= 1
    BY Zenon, <1>2, <2>3
  <2> QED
    BY Zenon, <2>4, <2>5 DEF Init, ClientType
<1>5. DbType
  <2>1. served \in [Requester -> Workflow \union Reply \union {"none", "unsupported"}]
    BY Zenon DEF Init
  <2> QED
    BY Zenon, <2>1 DEF Init, DbType
<1>6. TodoShape /\ OwnWaits /\ InfoIsKnown /\ KeptQueryRuns /\ NodeEventsAsked
  BY Zenon, <1>1 DEF Init, TodoShape, OwnWaits, InfoIsKnown, KeptQueryRuns, NodeEventsAsked
<1>7. OwnRetrievalUnanswered
  BY Zenon, AskerFacts DEF Init, OwnRetrievalUnanswered
<1>8. NothingUnasked
  BY Zenon, <1>1 DEF Init, NothingUnasked, Named
<1>9. WantedIsSupplied /\ InfoAsksProviders
  BY Zenon, <1>1 DEF Init, WantedIsSupplied, InfoAsksProviders
<1> QED
  BY Zenon, <1>3, <1>4, <1>5, <1>6, <1>7, <1>8, <1>9, TypeParts DEF IInv

\* The steps of the clients, the worker and the runner.
LEMMA LocalStep == IInv /\ Local => IInv'
BY Zenon, BeginStep, AskStep, ReceiveStep, SendStoredStep, ReportStep DEF Local, ClientStep

\* The steps of the loop in what is left of an event.
LEMMA TodoStep == IInv /\ Step => IInv'
BY Zenon, SendOwnStep, SendAnswerStep, FinishQueryStep, AwaitOwnStep, SendResponseStep DEF Step

\* The events of the network.
LEMMA SwarmEventStep == IInv /\ SwarmEvent => IInv'
BY Zenon, FoundRecordStep, QueryEndStep, FoundProvidersStep, RequestEndStep, RequestStep, GossipStep
   DEF SwarmEvent

\* IInv is inductive, and so holds in every state of the handler.
THEOREM HandlerInductive == Spec => []IInv
<1>1. IInv /\ [Next]_vars => IInv'
  BY Zenon, LocalStep, HandleEventStep, TodoStep, SwarmEventStep, GossipStep DEF Next
<1> QED
  BY <1>1, InitInv, PTL DEF Spec

\* The handler, its channel, its maps and its clients keep their shape: its
\* channel never holds more than events_buffer_len events, nor an answer channel
\* more than one message, for any number of clients, peers and requests.
THEOREM HandlerTypeCorrect == Spec => []TypeOK
<1>1. IInv => TypeOK
  BY Zenon DEF IInv
<1> QED
  BY <1>1, HandlerInductive, PTL

\* In no interleaving does the end of a query leave its entry in query_senders,
\* but that of a GetProviders that found no other node.
THEOREM NoQueryLeaks == Spec => []OnlyUnprovidedLeak
<1>1. IInv => OnlyUnprovidedLeak
  BY Zenon DEF IInv, KeptQueryRuns, OnlyUnprovidedLeak
<1> QED
  BY <1>1, HandlerInductive, PTL

\* The retrieval that the handler makes inside its loop, for a peer that asked,
\* is never answered: it waits for what only the loop it holds up can do.
THEOREM OwnRetrievalsTimeOut == Spec => []OwnRetrievalUnanswered
<1>1. IInv => OwnRetrievalUnanswered
  BY Zenon DEF IInv
<1> QED
  BY <1>1, HandlerInductive, PTL

\* A client's step that does not send to the handler leaves a wedged one so: the
\* task that it waits for is waiting to send.
LEMMA WedgedNoSend ==
    ASSUME IInv, Wedged, NEW c \in Client, pc[c] \notin {"store_dht", "store_provider"}, NEW v,
           pc' = [pc EXCEPT ![c] = v], UNCHANGED <<chan, todo>>,
           \A a \in Asker : a[1] # c => answer'[a] = answer[a] /\ (a \in rx => a \in rx')
    PROVE Wedged'
<1> USE InvParts
<1>1. \A d \in Client : d # c => pc'[d] = pc[d]
  BY Zenon DEF ClientType
<1>2. ~ AtSelect' /\ ~ Room' /\ Head(todo') = Head(todo) /\ ~ AtSelect
  BY Zenon DEF Wedged, AtSelect, Room
<1>3. CASE Head(todo).do = "own"
  BY Zenon, <1>2, <1>3 DEF Wedged
<1>4. CASE Head(todo).do # "own"
  <2> DEFINE a == Head(todo).to
  <2>1. /\ Head(todo).do = "answer" /\ a \in rx /\ answer[a] # <<>> /\ a[1] \in Client
        /\ pc[a[1]] = "store_provider"
    BY Zenon, <1>2, <1>4 DEF Wedged
  <2>2. a \in Asker /\ a[1] # c
    BY Zenon, <2>1 DEF ClientType
  <2>3. answer'[a] # <<>> /\ a \in rx' /\ pc'[a[1]] = "store_provider"
    BY Zenon, <1>1, <2>1, <2>2
  <2> QED
    BY Zenon, <1>2, <2>1, <2>3 DEF Wedged
<1> QED
  BY Zenon, <1>3, <1>4

\* What is wedged stays so, whatever the handler, its clients and the network do.
LEMMA WedgedStep ==
    ASSUME IInv, [Next]_vars, Wedged
    PROVE Wedged'
<1>1. ~ AtSelect /\ ~ Room
  BY Zenon DEF Wedged
<1>2. ~ HandleEvent /\ ~ SendOwn
  BY Zenon, <1>1 DEF HandleEvent, SendOwn
<1>3. ~ (SendAnswer \/ FinishQuery \/ AwaitOwn \/ SendResponse)
  BY Zenon, <1>1 DEF Wedged, SendAnswer, FinishQuery, AwaitOwn, SendResponse
<1>4. SwarmEvent => FALSE
  BY Zenon, <1>1 DEF SwarmEvent, FoundRecord, GetRecordEnd, FoundProviders, GetProvidersEnd,
     PutEnd, Request, Response, OutboundFailure, Gossip
<1>5. CASE UNCHANGED vars
  BY Zenon, <1>5 DEF vars, Wedged, AtSelect, Room, clientVars
<1>6. ASSUME NEW c \in Client, Begin(c)
      PROVE Wedged'
  <2>1. \E v : pc' = [pc EXCEPT ![c] = v]
    BY Zenon, <1>6 DEF Begin
  <2> QED
    BY Zenon, <1>6, <2>1, WedgedNoSend DEF Begin
<1>7. ASSUME NEW c \in Client, NEW phase \in {"dht", "provider"}, <<c, phase>> \in Asker,
             Receive(c, phase) \/ Deadline(c, phase)
      PROVE Wedged'
  <2>1. \E v : pc' = [pc EXCEPT ![c] = v]
    BY Zenon, <1>7 DEF Receive, Deadline, GiveUp
  <2>2. pc[c] \notin {"store_dht", "store_provider"} /\ UNCHANGED <<chan, todo>>
    BY Zenon, <1>7 DEF Receive, Deadline, Waits
  <2>3. \A a \in Asker : a[1] # c => a # <<c, phase>>
    OBVIOUS
  <2>4. answer \in [Asker -> Seq(Message)]
    BY Zenon, InvParts DEF ClientType
  <2>5. \/ answer' = answer
        \/ answer' = [answer EXCEPT ![<<c, phase>>] = Tail(@)]
    BY Zenon, <1>7 DEF Receive, Deadline
  <2>6. \A a \in Asker : a[1] # c => answer'[a] = answer[a]
    BY Zenon, <2>3, <2>4, <2>5
  <2>7. rx \ {<<c, phase>>} \subseteq rx'
    BY Zenon, <1>7 DEF Receive, Deadline, GiveUp
  <2>8. \A a \in Asker : a[1] # c => (a \in rx => a \in rx')
    BY Zenon, <2>3, <2>7
  <2>9. \A a \in Asker : a[1] # c => answer'[a] = answer[a] /\ (a \in rx => a \in rx')
    BY Zenon, <2>6, <2>8
  <2> QED
    BY Zenon, <2>1, <2>2, <2>9, WedgedNoSend
<1>8. Local => \/ \E c \in Client : Begin(c)
               \/ \E c \in Client, phase \in {"dht", "provider"} :
                     <<c, phase>> \in Asker /\ (Receive(c, phase) \/ Deadline(c, phase))
  BY Zenon, <1>1 DEF Local, ClientStep, AskDht, AskProvider, Ask, SendStored, Capture, Provide,
     AskNode
<1> QED
  BY Zenon, <1>2, <1>3, <1>4, <1>5, <1>6, <1>7, <1>8 DEF Next, Step

\* Once the handler is wedged it stays so: no deadline, no network event and no
\* client gets it out of its wait for room in the channel that it alone empties.
THEOREM WedgedForEver == Spec => [][Wedged => Wedged']_vars
<1>1. IInv /\ [Next]_vars => [Wedged => Wedged']_vars
  BY Zenon, WedgedStep
<1> QED
  BY <1>1, HandlerInductive, PTL DEF Spec
=============================================================================
