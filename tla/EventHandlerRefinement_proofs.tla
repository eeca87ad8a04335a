-------------------- MODULE EventHandlerRefinement_proofs ---------------------
(***************************************************************************)
(* Proof that every step of the event handler, its clients and the network *)
(* is one that Retrieval allows, for any number of each.                   *)
(***************************************************************************)
EXTENDS EventHandlerRefinement, EventHandler_proofs

\* What a step of a client's control is to those who see only its status.
SeenAs(v) == IF v \in {"idle", "db", "found", "error"} THEN v ELSE "asking"

\* A client's control moves: its status is seen to move with it, or not at all.
LEMMA SeenMoves ==
    ASSUME ClientType, NEW c \in Client, NEW v, pc' = [pc EXCEPT ![c] = v]
    PROVE /\ Seen[c] = SeenAs(pc[c]) /\ Seen' = [Seen EXCEPT ![c] = SeenAs(v)]
          /\ SeenAs(v) = SeenAs(pc[c]) => UNCHANGED Seen
<1>1. /\ Seen = [d \in Client |-> SeenAs(pc[d])]
      /\ Seen' = [d \in Client |-> SeenAs(pc'[d])]
  BY Zenon DEF Seen, Status, SeenAs
<1>2. pc'[c] = v /\ \A d \in Client : d # c => pc'[d] = pc[d]
  BY Zenon DEF ClientType
<1> HIDE DEF SeenAs
<1>3. Seen[c] = SeenAs(pc[c])
  BY Zenon, <1>1
<1>4. Seen' = [Seen EXCEPT ![c] = SeenAs(v)]
  BY <1>1, <1>2
<1>5. SeenAs(v) = SeenAs(pc[c]) => UNCHANGED Seen
  BY <1>1, <1>2
<1> QED
  BY Zenon, <1>3, <1>4, <1>5

\* Who looks at the statuses sees the control of the clients, and nothing else.
LEMMA SeenSame == UNCHANGED pc => UNCHANGED Seen
BY Zenon DEF Seen, Status

\* A client's step begins or ends its retrieval, or is not seen.
LEMMA ClientSeen ==
    ASSUME IInv, NEW c \in Client, Begin(c) \/ ClientStep(c)
    PROVE \/ R!Begin(c) \/ R!Known(c) \/ R!End(c)
          \/ UNCHANGED <<Seen, supplied>>
<1> USE InvParts
<1>1. CASE Begin(c)
  <2> PICK v \in {"db", "ask_dht"} : pc' = [pc EXCEPT ![c] = v]
    BY Zenon, <1>1 DEF Begin
  <2>1. Seen[c] = SeenAs(pc[c]) /\ Seen' = [Seen EXCEPT ![c] = SeenAs(v)]
    BY Zenon, SeenMoves
  <2>2. pc[c] = "idle" /\ UNCHANGED supplied
    BY Zenon, <1>1 DEF Begin
  <2>3. SeenAs("idle") = "idle" /\ (v = "db" => SeenAs(v) = "db") /\ (v # "db" => SeenAs(v) = "asking")
    BY Zenon DEF SeenAs
  <2> QED
    BY Zenon, <2>1, <2>2, <2>3 DEF R!Begin, R!Known
<1>2. CASE AskDht(c) \/ AskProvider(c)
  <2> PICK v \in {"wait_dht", "wait_provider"} : pc' = [pc EXCEPT ![c] = v]
    BY Zenon, <1>2 DEF AskDht, AskProvider, Ask
  <2>1. pc[c] \in {"ask_dht", "ask_provider"} /\ UNCHANGED supplied
    BY Zenon, <1>2 DEF AskDht, AskProvider, Ask
  <2>2. SeenAs(v) = SeenAs(pc[c])
    BY Zenon, <2>1 DEF SeenAs
  <2> QED
    BY Zenon, <2>1, <2>2, SeenMoves
<1>3. ASSUME NEW phase \in {"dht", "provider"}, Receive(c, phase) \/ Deadline(c, phase)
      PROVE R!End(c) \/ UNCHANGED <<Seen, supplied>>
  <2> PICK v \in {"store_dht", "store_provider", "ask_provider", "error"} : pc' = [pc EXCEPT ![c] = v]
    BY Zenon, <1>3 DEF Receive, Deadline, GiveUp
  <2>1. pc[c] \in {"wait_dht", "wait_provider"} /\ UNCHANGED supplied
    BY Zenon, <1>3 DEF Receive, Deadline, Waits
  <2>2. /\ Seen[c] = SeenAs(pc[c]) /\ Seen' = [Seen EXCEPT ![c] = SeenAs(v)]
        /\ SeenAs(v) = SeenAs(pc[c]) => UNCHANGED Seen
    BY Zenon, SeenMoves
  <2>3. /\ SeenAs(pc[c]) = "asking" /\ (v = "error" => SeenAs(v) = "error")
        /\ v # "error" => SeenAs(v) = "asking"
    BY Zenon, <2>1 DEF SeenAs
  <2> QED
    BY Zenon, <2>1, <2>2, <2>3 DEF R!End
<1>4. ASSUME NEW phase, SendStored(c, phase)
      PROVE R!End(c)
  <2>1. /\ pc[c] \in {"store_dht", "store_provider"} /\ UNCHANGED supplied
        /\ pc' = [pc EXCEPT ![c] = "found"]
    BY Zenon, <1>4 DEF SendStored
  <2>2. c \in supplied
    BY Zenon, <2>1 DEF WantedIsSupplied
  <2>3. Seen[c] = SeenAs(pc[c]) /\ Seen' = [Seen EXCEPT ![c] = SeenAs("found")]
    BY Zenon, <2>1, SeenMoves
  <2>4. SeenAs(pc[c]) = "asking" /\ SeenAs("found") = "found"
    BY Zenon, <2>1 DEF SeenAs
  <2> QED
    BY Zenon, <2>1, <2>2, <2>3, <2>4 DEF R!End
<1> QED
  BY Zenon, <1>1, <1>2, <1>3, <1>4 DEF ClientStep

\* A record is supplied only to a client that has asked.
LEMMA SupplySeen ==
    ASSUME IInv, NEW a \in Asker, Named(a), a[1] \in Client, supplied' = supplied \union {a[1]},
           UNCHANGED pc
    PROVE R!Supply(a[1])
<1>1. pc[a[1]] # "idle"
  BY Zenon, InvParts DEF NothingUnasked, Unasked
<1>2. Seen[a[1]] # "idle"
  BY Zenon, <1>1 DEF Seen, Status
<1> QED
  BY Zenon, <1>2, SeenSame DEF R!Supply

\* An event of the network supplies a client with what it wants, or is not seen.
LEMMA SwarmSeen ==
    ASSUME IInv, SwarmEvent
    PROVE (\E c \in Client : R!Supply(c)) \/ UNCHANGED <<Seen, supplied>>
<1> USE InvParts
<1>1. ASSUME NEW a \in DOMAIN kad, NEW v \in Capsule, FoundRecord(a, v)
      PROVE (\E c \in Client : R!Supply(c)) \/ UNCHANGED <<Seen, supplied>>
  <2>1. a[2] = "dht" /\ UNCHANGED pc /\ (supplied' = supplied \/ supplied' = supplied \union {a[1]})
    BY Zenon, <1>1 DEF FoundRecord, clientVars
  <2>2. a \in Asker
    BY Zenon, <2>1, AskerFacts DEF NetType
  <2>3. a[1] \in Client /\ Named(a)
    BY Zenon, <2>1, <2>2, AskerFacts DEF Named
  <2> QED
    BY Zenon, <2>1, <2>2, <2>3, SeenSame, SupplySeen
<1>2. ASSUME NEW ap \in wire, NEW v \in Capsule, Response(ap[1], ap[2], v)
      PROVE (\E c \in Client : R!Supply(c)) \/ UNCHANGED <<Seen, supplied>>
  <2> DEFINE a == ap[1]
  <2>1. ap \in ProviderAsker \X Peer
    BY Zenon DEF NetType
  <2>2. ap = <<a, ap[2]>> /\ a \in ProviderAsker /\ ap[2] \in Peer
    BY <2>1
  <2>3. a \in Asker /\ Named(a)
    BY Zenon, <2>2, AskerFacts DEF Named
  <2>4. UNCHANGED pc /\ (supplied' = supplied \/ supplied' = supplied \union ({a[1]} \cap Client))
    BY Zenon, <1>2 DEF Response, clientVars
  <2> HIDE DEF a
  <2>5. CASE supplied' = supplied
    BY Zenon, <2>4, <2>5, SeenSame
  <2>6. CASE supplied' # supplied
    <3>1. a[1] \in Client
      BY <2>4, <2>6
    <3>2. supplied' = supplied \union {a[1]}
      BY <2>4, <2>6, <3>1
    <3> QED
      BY Zenon, <2>3, <2>4, <3>1, <3>2, SupplySeen
  <2> QED
    BY Zenon, <2>5, <2>6
<1>3. CASE \/ \E a \in DOMAIN kad :
                 \/ GetRecordEnd(a) \/ PutEnd(a)
                 \/ \E ps \in SUBSET (Peer \union {Self}) : FoundProviders(a, ps)
                 \/ \E err \in BOOLEAN : GetProvidersEnd(a, err)
           \/ \E p \in Requester, w \in Workflow \union {"unsupported"} : Request(p, w)
           \/ \E ap \in wire : OutboundFailure(ap[1], ap[2])
           \/ \E r \in Receipt : Gossip(r)
  <2>1. UNCHANGED pc /\ UNCHANGED supplied
    BY Zenon, <1>3 DEF GetRecordEnd, PutEnd, FoundProviders, GetProvidersEnd, Request,
       OutboundFailure, Gossip, clientVars
  <2> QED
    BY Zenon, <2>1, SeenSame
<1> QED
  BY Zenon, <1>1, <1>2, <1>3 DEF SwarmEvent

\* Every step is one of Retrieval, or is not seen.
LEMMA StepSeen ==
    ASSUME IInv, [Next]_vars
    PROVE \/ \E c \in Client : R!Begin(c) \/ R!Known(c) \/ R!Supply(c) \/ R!End(c)
          \/ UNCHANGED <<Seen, supplied>>
<1>1. CASE \/ \E r \in Receipt : Capture(r)
           \/ \E w \in Workflow : Provide(w)
           \/ \E e \in NodeEvent : AskNode(e)
           \/ HandleEvent \/ Step \/ UNCHANGED vars
  <2>1. UNCHANGED pc /\ UNCHANGED supplied
    BY Zenon, <1>1 DEF Capture, Provide, AskNode, HandleEvent, Step, SendOwn, SendAnswer,
       FinishQuery, AwaitOwn, SendResponse, vars, clientVars
  <2> QED
    BY Zenon, <2>1, SeenSame
<1> QED
  BY Zenon, <1>1, ClientSeen, SwarmSeen DEF Next, Local

\* To its clients the handler is what Retrieval says, in every step: a retrieval
\* ends once, its outcome never changes, it is found only when the network
\* supplied a record of its kind to a client that had asked, and the handler, once
\* wedged, stays so.  That a retrieval ends is fairness, and is left to TLC.
THEOREM HandlerStepsAreRetrieval == Spec => R!Init /\ [][R!Next]_(R!vars)
<1>1. Init => R!Init
  <2> SUFFICES ASSUME Init PROVE R!Init
    OBVIOUS
  <2>1. Seen = [c \in Client |-> "idle"]
    BY DEF Init, Seen, Status
  <2>2. Wedged = FALSE
    BY Zenon DEF Init, Wedged, AtSelect
  <2> QED
    BY Zenon, <2>1, <2>2 DEF Init, R!Init
<1>2. IInv /\ [Next]_vars => [R!Next]_(R!vars)
  <2> SUFFICES ASSUME IInv, [Next]_vars PROVE R!Next
    BY Zenon
  <2>1. Wedged' \in {Wedged, TRUE}
    <3>1. Wedged \in BOOLEAN /\ Wedged' \in BOOLEAN
      BY Zenon DEF Wedged
    <3> QED
      BY Zenon, <3>1, WedgedStep
  <2> QED
    BY Zenon, <2>1, StepSeen DEF R!Next
<1> QED
  BY <1>1, <1>2, HandlerInductive, PTL DEF Spec
=============================================================================
