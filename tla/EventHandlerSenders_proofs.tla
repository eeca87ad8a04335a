---------------------- MODULE EventHandlerSenders_proofs ----------------------
(***************************************************************************)
(* Proof that the sender of an answer is never kept behind, for any        *)
(* clients, peers, requests and length of the channel.  The senders of an  *)
(* asker are counted place by place: a step moves one from place to place, *)
(* and only a list of providers makes several of one.                      *)
(***************************************************************************)
EXTENDS EventHandler_proofs

-----------------------------------------------------------------------------
(* The inductive invariant *)

\* The events and the jobs that hold a sender of the asker's channel.
JobCarries(j, a) ==
    \/ j.do = "answer" /\ j.to = a
    \/ j.do = "own" /\ Carries(j.event, a)
EventsWith(a) == {e \in Event : Carries(e, a)}
JobsWith(a) == {j \in Job : JobCarries(j, a)}

Places(s, M) == {i \in DOMAIN s : s[i] \in M}

\* The senders of the asker's channel, by the place that holds them.
InChan(a) == Cardinality(Places(chan, EventsWith(a)))
InTodo(a) == Cardinality(Places(todo, JobsWith(a)))
InQuery(a) == IF a \in query_senders THEN 1 ELSE 0
Requests(a) == {ap \in request_response_senders : ap[1] = a}
Senders(a) == InChan(a) + InTodo(a) + InQuery(a) + Cardinality(Requests(a)) + Len(answer[a])

\* The asker's question has been passed on to the providers: what is left of it are
\* the requests to each of them and their answers.
PassedOn(a) ==
    /\ \A e \in Range(chan) : Carries(e, a) => e.type = "OutboundRequest"
    /\ \A j \in Range(todo) : j.do = "own" /\ Carries(j.event, a) => j.event.type = "OutboundRequest"
    /\ a \notin query_senders

\* An asker has one sender, until its question is passed on to the providers.
SendersInv ==
    \A a \in Asker :
        \/ Senders(a) <= 1
        \/ a[2] = "provider" /\ Senders(a) <= Cardinality(Peer) /\ PassedOn(a)

-----------------------------------------------------------------------------
(* Counting places *)

\* The places of a sequence that hold one of a set are finitely many, and none
\* exactly when no element is of the set.
LEMMA PlacesFinite ==
    ASSUME NEW S, NEW s \in Seq(S), NEW M
    PROVE /\ IsFiniteSet(Places(s, M)) /\ Cardinality(Places(s, M)) \in Nat
          /\ Cardinality(Places(s, M)) <= Len(s)
          /\ Cardinality(Places(s, M)) = 0 <=> \A x \in Range(s) : x \notin M
<1>1. DOMAIN s = 1..Len(s) /\ Len(s) \in Nat /\ Len(s) \in Int /\ 1 \in Int
  OBVIOUS
<1>2. IsFiniteSet(1..Len(s)) /\ Cardinality(1..Len(s)) = IF 1 > Len(s) THEN 0 ELSE Len(s) - 1 + 1
  BY Zenon, <1>1, FS_Interval
<1>3. Places(s, M) \in SUBSET (1..Len(s))
  BY Zenon, <1>1 DEF Places
<1>4. IsFiniteSet(Places(s, M)) /\ Cardinality(Places(s, M)) <= Cardinality(1..Len(s))
  BY Zenon, <1>2, <1>3, FS_Subset
<1>5. Cardinality(Places(s, M)) \in Nat
  BY Zenon, <1>4, FS_CardinalityType
<1>6. Cardinality(Places(s, M)) <= Len(s)
  BY <1>1, <1>2, <1>4, <1>5
<1>7. Places(s, M) = {} <=> \A x \in Range(s) : x \notin M
  BY Zenon DEF Places, Range
<1> QED
  BY Zenon, <1>4, <1>5, <1>6, <1>7, FS_EmptySet

\* Adding an element to a sequence adds a place if it is of the set.
LEMMA PlacesAppend ==
    ASSUME NEW S, NEW s \in Seq(S), NEW x \in S, NEW M
    PROVE Cardinality(Places(Append(s, x), M)) = Cardinality(Places(s, M)) + (IF x \in M THEN 1 ELSE 0)
<1>1. /\ Len(s) + 1 \notin DOMAIN s /\ DOMAIN Append(s, x) = DOMAIN s \union {Len(s) + 1}
      /\ Append(s, x)[Len(s) + 1] = x /\ \A i \in DOMAIN s : Append(s, x)[i] = s[i]
  OBVIOUS
<1>2. IsFiniteSet(Places(s, M)) /\ Cardinality(Places(s, M)) \in Nat
  BY Zenon, PlacesFinite
<1> DEFINE n == Len(s) + 1
<1> HIDE DEF n
<1>3. /\ n \notin DOMAIN s /\ DOMAIN Append(s, x) = DOMAIN s \union {n}
      /\ Append(s, x)[n] = x /\ \A i \in DOMAIN s : Append(s, x)[i] = s[i]
  BY Zenon, <1>1 DEF n
<1>4. CASE x \in M
  <2>1. Places(Append(s, x), M) = Places(s, M) \union {n} /\ n \notin Places(s, M)
    BY Zenon, <1>3, <1>4 DEF Places
  <2>2. Cardinality(Places(Append(s, x), M)) = Cardinality(Places(s, M)) + 1
    BY Zenon, <1>2, <2>1, FS_AddElement
  <2> QED
    BY Zenon, <1>4, <2>2
<1>5. CASE x \notin M
  <2>1. Places(Append(s, x), M) = Places(s, M)
    BY Zenon, <1>3, <1>5 DEF Places
  <2> QED
    BY <1>2, <1>5, <2>1
<1> QED
  BY Zenon, <1>4, <1>5

\* Taking the head of a sequence takes its place if it is of the set.
LEMMA PlacesTail ==
    ASSUME NEW S, NEW s \in Seq(S), s # <<>>, NEW M
    PROVE /\ Cardinality(Places(Tail(s), M)) <= Cardinality(Places(s, M))
          /\ Head(s) \in M => Cardinality(Places(Tail(s), M)) + 1 <= Cardinality(Places(s, M))
<1>1. /\ 1 \in DOMAIN s /\ s[1] = Head(s) /\ Tail(s) \in Seq(S)
      /\ \A i \in DOMAIN Tail(s) : i + 1 \in DOMAIN s /\ Tail(s)[i] = s[i + 1] /\ i \in Nat
  BY Zenon, TailIndices, TailFacts
<1>2. /\ IsFiniteSet(Places(s, M)) /\ Cardinality(Places(s, M)) \in Nat
      /\ Cardinality(Places(Tail(s), M)) \in Nat
  BY Zenon, <1>1, PlacesFinite
<1> DEFINE P == Places(Tail(s), M)
           T == Places(s, M) \ {1}
           f == [i \in P |-> i + 1]
<1>3. f \in Injection(P, T)
  <2>1. \A i \in P : i + 1 \in Places(s, M) /\ i \in Nat
    BY Zenon, <1>1 DEF Places
  <2>2. \A i \in P : i + 1 \in T
    <3>1. \A i \in DOMAIN Tail(s) : i # 0
      OBVIOUS
    <3>2. \A i \in P : i # 0
      BY Zenon, <3>1 DEF Places
    <3> QED
      BY <2>1, <3>2
  <2>3. \A i, j \in P : i + 1 = j + 1 => i = j
    BY <2>1
  <2> HIDE DEF P, T
  <2>4. f \in [P -> T] /\ \A i, j \in DOMAIN f : f[i] = f[j] => i = j
    BY Zenon, <2>2, <2>3
  <2> QED
    BY Zenon, <2>4 DEF Injection, IsInjective
<1>4. /\ IsFiniteSet(T)
      /\ Cardinality(T) = IF 1 \in Places(s, M) THEN Cardinality(Places(s, M)) - 1
                          ELSE Cardinality(Places(s, M))
  BY Zenon, <1>2, FS_RemoveElement
<1>5. Cardinality(P) <= Cardinality(T)
  BY Zenon, <1>3, <1>4, FS_Injection
<1>6. 1 \in Places(s, M) <=> Head(s) \in M
  BY Zenon, <1>1 DEF Places
<1> QED
  BY <1>2, <1>4, <1>5, <1>6

-----------------------------------------------------------------------------
(* What a step does to the senders in each place *)

\* Events and jobs are of the counted sets when they carry a sender.
LEMMA WithFacts ==
    \A a : /\ \A e \in Event : e \in EventsWith(a) <=> Carries(e, a)
           /\ \A j \in Job : j \in JobsWith(a) <=> JobCarries(j, a)
BY Zenon DEF EventsWith, JobsWith

\* Every count is a number.
LEMMA CountsNat ==
    ASSUME NEW c \in Seq(Event), NEW t \in Seq(Job), NEW r, r \subseteq ProviderAsker \X Peer, NEW a
    PROVE /\ Cardinality(Places(c, EventsWith(a))) \in Nat
          /\ Cardinality(Places(t, JobsWith(a))) \in Nat
          /\ IsFiniteSet({ap \in r : ap[1] = a}) /\ Cardinality({ap \in r : ap[1] = a}) \in Nat
          /\ Cardinality(Places(c, EventsWith(a))) = 0 <=> \A e \in Range(c) : ~ Carries(e, a)
          /\ Cardinality(Places(t, JobsWith(a))) = 0 <=> \A j \in Range(t) : ~ JobCarries(j, a)
<1>1. /\ Cardinality(Places(c, EventsWith(a))) \in Nat
      /\ Cardinality(Places(t, JobsWith(a))) \in Nat
      /\ Cardinality(Places(c, EventsWith(a))) = 0 <=> \A e \in Range(c) : e \notin EventsWith(a)
      /\ Cardinality(Places(t, JobsWith(a))) = 0 <=> \A j \in Range(t) : j \notin JobsWith(a)
  BY Zenon, PlacesFinite
<1>2. Range(c) \subseteq Event /\ Range(t) \subseteq Job
  <2>1. (\A i \in DOMAIN c : c[i] \in Event) /\ (\A i \in DOMAIN t : t[i] \in Job)
    OBVIOUS
  <2> QED
    BY Zenon, <2>1 DEF Range
<1>3. IsFiniteSet({ap \in r : ap[1] = a}) /\ Cardinality({ap \in r : ap[1] = a}) \in Nat
  <2> DEFINE R == {ap \in r : ap[1] = a}
             f == [ap \in R |-> ap[2]]
  <2>1. \A ap \in R : ap[2] \in Peer /\ ap = <<a, ap[2]>>
    OBVIOUS
  <2> HIDE DEF R
  <2>2. f \in [R -> Peer] /\ \A x, y \in DOMAIN f : f[x] = f[y] => x = y
    BY <2>1
  <2>3. f \in Injection(R, Peer)
    BY Zenon, <2>2 DEF Injection, IsInjective
  <2>4. IsFiniteSet(R)
    BY Zenon, <2>3, FS_Injection, HandlerAssumption
  <2> QED
    BY Zenon, <2>4, FS_CardinalityType DEF R
<1> QED
  BY Zenon, <1>1, <1>2, <1>3, WithFacts

\* So the counts are numbers before and after a step.
LEMMA SendersNat ==
    ASSUME IInv, NEW a \in Asker
    PROVE /\ InChan(a) \in Nat /\ InTodo(a) \in Nat /\ InQuery(a) \in 0..1
          /\ IsFiniteSet(Requests(a)) /\ Cardinality(Requests(a)) \in Nat
          /\ Len(answer[a]) \in Nat /\ Senders(a) \in Nat
          /\ InChan(a) = 0 <=> \A e \in Range(chan) : ~ Carries(e, a)
          /\ InTodo(a) = 0 <=> \A j \in Range(todo) : ~ JobCarries(j, a)
<1>1. chan \in Seq(Event) /\ todo \in Seq(Job) /\ request_response_senders \subseteq ProviderAsker \X Peer
  BY Zenon DEF IInv, TypeOK
<1>2. /\ InChan(a) \in Nat /\ InTodo(a) \in Nat
      /\ IsFiniteSet(Requests(a)) /\ Cardinality(Requests(a)) \in Nat
      /\ InChan(a) = 0 <=> \A e \in Range(chan) : ~ Carries(e, a)
      /\ InTodo(a) = 0 <=> \A j \in Range(todo) : ~ JobCarries(j, a)
  BY Zenon, <1>1, CountsNat DEF InChan, InTodo, Requests
<1>3. InQuery(a) \in 0..1
  BY DEF InQuery
<1>4. Len(answer[a]) \in Nat
  BY DEF IInv, TypeOK
<1>5. Senders(a) \in Nat
  BY <1>2, <1>3, <1>4 DEF Senders
<1> QED
  BY Zenon, <1>2, <1>3, <1>4, <1>5

\* The same of the state after a step.
LEMMA SendersNatNext ==
    ASSUME IInv', NEW a \in Asker
    PROVE /\ InChan(a)' \in Nat /\ InTodo(a)' \in Nat /\ InQuery(a)' \in 0..1
          /\ Cardinality(Requests(a)') \in Nat /\ Len(answer'[a]) \in Nat /\ Senders(a)' \in Nat
<1>1. chan' \in Seq(Event) /\ todo' \in Seq(Job) /\ request_response_senders' \subseteq ProviderAsker \X Peer
  BY Zenon DEF IInv, TypeOK
<1>2. InChan(a)' \in Nat /\ InTodo(a)' \in Nat /\ Cardinality(Requests(a)') \in Nat
  BY Zenon, <1>1, CountsNat DEF InChan, InTodo, Requests, EventsWith, JobsWith
<1>3. InQuery(a)' \in 0..1
  BY DEF InQuery
<1>4. Len(answer'[a]) \in Nat
  BY DEF IInv, TypeOK
<1>5. Senders(a)' \in Nat
  BY <1>2, <1>3, <1>4 DEF Senders
<1> QED
  BY Zenon, <1>2, <1>3, <1>4, <1>5

\* An event is added to the channel.
LEMMA ChanGains ==
    ASSUME LoopType, NEW e \in Event, chan' = Append(chan, e), NEW a
    PROVE /\ InChan(a)' = InChan(a) + (IF Carries(e, a) THEN 1 ELSE 0)
          /\ Range(chan') \subseteq Range(chan) \union {e}
<1>1. chan \in Seq(Event)
  BY Zenon DEF LoopType
<1>2. InChan(a)' = Cardinality(Places(chan', EventsWith(a)))
  BY Zenon DEF InChan, EventsWith
<1>3. Cardinality(Places(chan', EventsWith(a)))
        = Cardinality(Places(chan, EventsWith(a))) + (IF e \in EventsWith(a) THEN 1 ELSE 0)
  BY Zenon, <1>1, PlacesAppend
<1>4. Range(chan') \subseteq Range(chan) \union {e}
  BY Zenon, <1>1, AppendFacts
<1> QED
  BY Zenon, <1>2, <1>3, <1>4, WithFacts DEF InChan

\* The handler takes an event from the channel.
LEMMA ChanLoses ==
    ASSUME LoopType, chan # <<>>, chan' = Tail(chan), NEW a
    PROVE /\ InChan(a)' <= InChan(a) /\ (Carries(Head(chan), a) => InChan(a)' + 1 <= InChan(a))
          /\ Range(chan') \subseteq Range(chan) /\ Head(chan) \in Range(chan) /\ Head(chan) \in Event
<1>1. chan \in Seq(Event)
  BY Zenon DEF LoopType
<1>2. Range(chan') \subseteq Range(chan) /\ Head(chan) \in Event /\ Head(chan) \in Range(chan)
  BY Zenon, <1>1, TailFacts
<1>3. InChan(a)' = Cardinality(Places(chan', EventsWith(a)))
  BY Zenon DEF InChan, EventsWith
<1>4. /\ Cardinality(Places(chan', EventsWith(a))) <= Cardinality(Places(chan, EventsWith(a)))
      /\ Head(chan) \in EventsWith(a) =>
            Cardinality(Places(chan', EventsWith(a))) + 1 <= Cardinality(Places(chan, EventsWith(a)))
  BY Zenon, <1>1, PlacesTail
<1> QED
  BY Zenon, <1>2, <1>3, <1>4, WithFacts DEF InChan

\* The handler is done with a job.
LEMMA TodoLoses ==
    ASSUME LoopType, todo # <<>>, todo' = Tail(todo), NEW a
    PROVE /\ InTodo(a)' <= InTodo(a) /\ (JobCarries(Head(todo), a) => InTodo(a)' + 1 <= InTodo(a))
          /\ Range(todo') \subseteq Range(todo) /\ Head(todo) \in Range(todo) /\ Head(todo) \in Job
<1>1. todo \in Seq(Job)
  BY Zenon DEF LoopType
<1>2. Range(todo') \subseteq Range(todo) /\ Head(todo) \in Job /\ Head(todo) \in Range(todo)
  BY Zenon, <1>1, TailFacts
<1>3. InTodo(a)' = Cardinality(Places(todo', JobsWith(a)))
  BY Zenon DEF InTodo, JobsWith
<1>4. /\ Cardinality(Places(todo', JobsWith(a))) <= Cardinality(Places(todo, JobsWith(a)))
      /\ Head(todo) \in JobsWith(a) =>
            Cardinality(Places(todo', JobsWith(a))) + 1 <= Cardinality(Places(todo, JobsWith(a)))
  BY Zenon, <1>1, PlacesTail
<1> QED
  BY Zenon, <1>2, <1>3, <1>4, WithFacts DEF InTodo

\* The handler is left with no job that holds a sender of the asker, or with one.
LEMMA TodoBecomes ==
    ASSUME todo' \in Seq(Job), NEW a
    PROVE /\ (\A j \in Range(todo') : ~ JobCarries(j, a)) => InTodo(a)' = 0
          /\ Len(todo') = 1 => InTodo(a)' <= 1
          /\ \A k \in DOMAIN todo' :
                (\A i \in DOMAIN todo' : i # k => ~ JobCarries(todo'[i], a)) => InTodo(a)' <= 1
<1>1. InTodo(a)' = Cardinality(Places(todo', JobsWith(a)))
  BY Zenon DEF InTodo, JobsWith
<1>2. Range(todo') \subseteq Job /\ \A i \in DOMAIN todo' : todo'[i] \in Job
  <2>1. \A i \in DOMAIN todo' : todo'[i] \in Job
    OBVIOUS
  <2> QED
    BY Zenon, <2>1 DEF Range
<1>3. /\ Cardinality(Places(todo', JobsWith(a))) <= Len(todo')
      /\ Cardinality(Places(todo', JobsWith(a))) = 0 <=> \A j \in Range(todo') : j \notin JobsWith(a)
  BY Zenon, PlacesFinite
<1>4. (\A j \in Range(todo') : ~ JobCarries(j, a)) => InTodo(a)' = 0
  BY Zenon, <1>1, <1>2, <1>3, WithFacts
<1>5. ASSUME NEW k \in DOMAIN todo', \A i \in DOMAIN todo' : i # k => ~ JobCarries(todo'[i], a)
      PROVE InTodo(a)' <= 1
  <2>1. Places(todo', JobsWith(a)) \in SUBSET {k}
    BY Zenon, <1>2, <1>5, WithFacts DEF Places
  <2>2. IsFiniteSet({k}) /\ Cardinality({k}) = 1
    BY Zenon, FS_Singleton
  <2>3. Cardinality(Places(todo', JobsWith(a))) <= Cardinality({k})
    BY Zenon, <2>1, <2>2, FS_Subset
  <2> QED
    BY Zenon, <1>1, <2>2, <2>3
<1> QED
  BY Zenon, <1>1, <1>3, <1>4, <1>5

\* An asker that has not asked yet has no sender.
LEMMA UnaskedHasNone ==
    ASSUME IInv, NEW a \in Asker, Unasked(a)
    PROVE Senders(a) = 0
<1> USE InvParts
<1>1. ~ Named(a) /\ answer[a] = <<>>
  BY Zenon DEF NothingUnasked
<1>2. InChan(a) = 0 /\ InTodo(a) = 0
  BY Zenon, <1>1, SendersNat DEF Named, JobNames, JobCarries
<1>3. InQuery(a) = 0
  BY Zenon, <1>1 DEF Named, InQuery
<1>4. Cardinality(Requests(a)) = 0
  <2>1. \A ap \in request_response_senders : ap = <<ap[1], ap[2]>> /\ ap[2] \in Peer
    BY DEF NetType
  <2>2. \A p \in Peer : <<a, p>> \notin request_response_senders
    BY Zenon, <1>1 DEF Named
  <2>3. Requests(a) = {}
    BY Zenon, <2>1, <2>2 DEF Requests
  <2> QED
    BY Zenon, <2>3, FS_EmptySet
<1>5. Len(answer[a]) = 0
  BY <1>1
<1> QED
  BY <1>2, <1>3, <1>4, <1>5 DEF Senders

\* What a step has to show of an asker.
KeepsSenders(a) ==
    \/ Senders(a)' <= 1
    \/ Senders(a)' <= Senders(a) /\ (PassedOn(a) => PassedOn(a)')
    \/ a[2] = "provider" /\ Senders(a)' <= Cardinality(Peer) /\ PassedOn(a)'

\* A step that gives an asker no sender and passes nothing back keeps the invariant.
LEMMA SendersFrame ==
    ASSUME IInv, IInv', SendersInv, \A a \in Asker : KeepsSenders(a)
    PROVE SendersInv'
<1> SUFFICES ASSUME NEW a \in Asker
             PROVE \/ Senders(a)' <= 1
                   \/ a[2] = "provider" /\ Senders(a)' <= Cardinality(Peer) /\ PassedOn(a)'
  BY Zenon DEF SendersInv
<1>1. Cardinality(Peer) \in Nat
  BY Zenon, HandlerAssumption, FS_CardinalityType
<1>2. Senders(a) \in Nat /\ Senders(a)' \in Nat
  BY Zenon, SendersNat, SendersNatNext
<1>3. CASE Senders(a)' <= 1
  BY Zenon, <1>3
<1>4. CASE Senders(a)' <= Senders(a) /\ (PassedOn(a) => PassedOn(a)') /\ ~ (Senders(a)' <= 1)
  <2>1. ~ (Senders(a) <= 1)
    BY <1>2, <1>4
  <2>2. a[2] = "provider" /\ Senders(a) <= Cardinality(Peer) /\ PassedOn(a)
    BY Zenon, <2>1 DEF SendersInv
  <2>3. Senders(a)' <= Cardinality(Peer)
    BY <1>1, <1>2, <1>4, <2>2
  <2> QED
    BY Zenon, <1>4, <2>2, <2>3
<1> QED
  BY Zenon, <1>3, <1>4 DEF KeepsSenders

\* A place that is left alone holds what it held.
LEMMA PlacesSame ==
    ASSUME NEW a
    PROVE /\ UNCHANGED chan => InChan(a)' = InChan(a)
          /\ UNCHANGED todo => InTodo(a)' = InTodo(a)
          /\ UNCHANGED query_senders => InQuery(a)' = InQuery(a)
          /\ UNCHANGED request_response_senders => Cardinality(Requests(a)') = Cardinality(Requests(a))
<1>1. UNCHANGED chan => InChan(a)' = InChan(a)
  BY Zenon DEF InChan, EventsWith
<1>2. UNCHANGED todo => InTodo(a)' = InTodo(a)
  BY Zenon DEF InTodo, JobsWith
<1>3. UNCHANGED query_senders => InQuery(a)' = InQuery(a)
  BY Zenon DEF InQuery
<1>4. UNCHANGED request_response_senders => Cardinality(Requests(a)') = Cardinality(Requests(a))
  BY Zenon DEF Requests
<1> QED
  BY Zenon, <1>1, <1>2, <1>3, <1>4

\* The senders before and after a step are the sums of what the places hold.
LEMMA Totals ==
    ASSUME IInv, IInv', NEW a \in Asker
    PROVE /\ \E c, t, q, r, l \in Nat :
                /\ c = InChan(a) /\ t = InTodo(a) /\ q = InQuery(a) /\ r = Cardinality(Requests(a))
                /\ l = Len(answer[a]) /\ Senders(a) = c + t + q + r + l
          /\ \E c, t, q, r, l \in Nat :
                /\ c = InChan(a)' /\ t = InTodo(a)' /\ q = InQuery(a)' /\ r = Cardinality(Requests(a)')
                /\ l = Len(answer'[a]) /\ Senders(a)' = c + t + q + r + l
<1>1. /\ InChan(a) \in Nat /\ InTodo(a) \in Nat /\ InQuery(a) \in 0..1
      /\ Cardinality(Requests(a)) \in Nat /\ Len(answer[a]) \in Nat
  BY Zenon, SendersNat
<1>2. /\ InChan(a)' \in Nat /\ InTodo(a)' \in Nat /\ InQuery(a)' \in 0..1
      /\ Cardinality(Requests(a)') \in Nat /\ Len(answer'[a]) \in Nat
  BY Zenon, SendersNatNext
<1>3. 0..1 \subseteq Nat
  OBVIOUS
<1>4. InQuery(a) \in Nat /\ InQuery(a)' \in Nat
  BY Zenon, <1>1, <1>2, <1>3
<1>5. Senders(a) = InChan(a) + InTodo(a) + InQuery(a) + Cardinality(Requests(a)) + Len(answer[a])
  BY Zenon DEF Senders
<1>6. Senders(a)' = InChan(a)' + InTodo(a)' + InQuery(a)' + Cardinality(Requests(a)') + Len(answer'[a])
  BY Zenon DEF Senders
<1>7. \E c, t, q, r, l \in Nat :
        /\ c = InChan(a) /\ t = InTodo(a) /\ q = InQuery(a) /\ r = Cardinality(Requests(a))
        /\ l = Len(answer[a]) /\ Senders(a) = c + t + q + r + l
  BY Zenon, <1>1, <1>4, <1>5
<1>8. \E c, t, q, r, l \in Nat :
        /\ c = InChan(a)' /\ t = InTodo(a)' /\ q = InQuery(a)' /\ r = Cardinality(Requests(a)')
        /\ l = Len(answer'[a]) /\ Senders(a)' = c + t + q + r + l
  BY Zenon, <1>2, <1>4, <1>6
<1> QED
  BY Zenon, <1>7, <1>8

\* Terms that do not grow, or between which one unit moves, in the ways it can.
UnitMoves(c, t, q, r, l, c1, t1, q1, r1, l1) ==
    \/ c1 <= c /\ t1 <= t /\ q1 <= q /\ r1 <= r /\ l1 <= l
    \/ c1 + 1 <= c /\ t1 <= t /\ q1 <= q + 1 /\ r1 <= r /\ l1 <= l
    \/ c1 + 1 <= c /\ t1 <= t /\ q1 <= q /\ r1 <= r + 1 /\ l1 <= l
    \/ c1 <= c + 1 /\ t1 + 1 <= t /\ q1 <= q /\ r1 <= r /\ l1 <= l
    \/ c1 <= c /\ t1 + 1 <= t /\ q1 <= q /\ r1 <= r /\ l1 <= l + 1
    \/ c1 <= c /\ t1 <= t + 1 /\ q1 + 1 <= q /\ r1 <= r /\ l1 <= l
    \/ c1 <= c /\ t1 <= t + 1 /\ q1 <= q /\ r1 + 1 <= r /\ l1 <= l

\* Their sum does not grow then.
LEMMA SumsLess ==
    ASSUME NEW c \in Nat, NEW t \in Nat, NEW q \in Nat, NEW r \in Nat, NEW l \in Nat,
           NEW c1 \in Nat, NEW t1 \in Nat, NEW q1 \in Nat, NEW r1 \in Nat, NEW l1 \in Nat,
           UnitMoves(c, t, q, r, l, c1, t1, q1, r1, l1)
    PROVE c1 + t1 + q1 + r1 + l1 <= c + t + q + r + l
BY DEF UnitMoves

\* So an asker has no more senders when one moves on: from an event to the query or
\* the request it starts, from a job to the channel it is sent to, from a query or a
\* request to the job of its answer.
LEMMA SenderMoves ==
    ASSUME IInv, IInv', NEW a \in Asker,
           UnitMoves(InChan(a), InTodo(a), InQuery(a), Cardinality(Requests(a)), Len(answer[a]),
                     InChan(a)', InTodo(a)', InQuery(a)', Cardinality(Requests(a)'), Len(answer'[a]))
    PROVE Senders(a)' <= Senders(a)
<1>1. PICK c, t, q, r, l \in Nat :
        /\ c = InChan(a) /\ t = InTodo(a) /\ q = InQuery(a) /\ r = Cardinality(Requests(a))
        /\ l = Len(answer[a]) /\ Senders(a) = c + t + q + r + l
  BY Zenon, Totals
<1>2. PICK c1, t1, q1, r1, l1 \in Nat :
        /\ c1 = InChan(a)' /\ t1 = InTodo(a)' /\ q1 = InQuery(a)' /\ r1 = Cardinality(Requests(a)')
        /\ l1 = Len(answer'[a]) /\ Senders(a)' = c1 + t1 + q1 + r1 + l1
  BY Zenon, Totals
<1>3. UnitMoves(c, t, q, r, l, c1, t1, q1, r1, l1)
  BY Zenon, <1>1, <1>2
<1>4. c1 + t1 + q1 + r1 + l1 <= c + t + q + r + l
  BY Zenon, <1>3, SumsLess
<1> QED
  BY Zenon, <1>1, <1>2, <1>4

\* An asker that gains no sender in any place, and is not asked for anew.
LEMMA NoneGained ==
    ASSUME IInv, IInv', NEW a \in Asker,
           InChan(a)' <= InChan(a), InTodo(a)' <= InTodo(a), InQuery(a)' <= InQuery(a),
           Cardinality(Requests(a)') <= Cardinality(Requests(a)), Len(answer'[a]) <= Len(answer[a]),
           \A e \in Range(chan') : e \in Range(chan) \/ ~ Carries(e, a),
           \A j \in Range(todo') : j \in Range(todo) \/ j.do # "own" \/ ~ Carries(j.event, a),
           a \in query_senders' => a \in query_senders
    PROVE KeepsSenders(a)
<1>1. Senders(a)' <= Senders(a)
  BY Zenon, SenderMoves DEF UnitMoves
<1>2. PassedOn(a) => PassedOn(a)'
  BY Zenon DEF PassedOn
<1> QED
  BY Zenon, <1>1, <1>2 DEF KeepsSenders

\* What does not grow, in a step that leaves it alone.
LEMMA NoneGainedHere ==
    ASSUME IInv, NEW a \in Asker
    PROVE /\ UNCHANGED chan => InChan(a)' <= InChan(a) /\ Range(chan') \subseteq Range(chan)
          /\ UNCHANGED todo => InTodo(a)' <= InTodo(a) /\ Range(todo') \subseteq Range(todo)
          /\ UNCHANGED query_senders => InQuery(a)' <= InQuery(a)
          /\ UNCHANGED request_response_senders =>
                Cardinality(Requests(a)') <= Cardinality(Requests(a))
          /\ UNCHANGED answer => Len(answer'[a]) <= Len(answer[a])
<1>1. \A n \in Nat : n <= n
  OBVIOUS
<1>2. /\ InChan(a) \in Nat /\ InTodo(a) \in Nat /\ Cardinality(Requests(a)) \in Nat
      /\ Len(answer[a]) \in Nat
  BY Zenon, SendersNat
<1>3. InQuery(a) \in Nat
  BY DEF InQuery
<1> QED
  BY Zenon, <1>1, <1>2, <1>3, PlacesSame

\* Events without a sender, and steps of a client that sends nothing.
LEMMA PlainLocalSenders ==
    ASSUME IInv, IInv', NEW a \in Asker, UNCHANGED <<todo, netVars>>,
           \/ UNCHANGED chan
           \/ \E e \in Event : chan' = Append(chan, e) /\ ~ Carries(e, a),
           Len(answer'[a]) <= Len(answer[a])
    PROVE KeepsSenders(a)
<1>1. InChan(a)' <= InChan(a) /\ \A e \in Range(chan') : e \in Range(chan) \/ ~ Carries(e, a)
  <2>1. CASE UNCHANGED chan
    BY Zenon, <2>1, NoneGainedHere
  <2>2. ASSUME NEW e \in Event, chan' = Append(chan, e), ~ Carries(e, a)
        PROVE InChan(a)' <= InChan(a) /\ \A x \in Range(chan') : x \in Range(chan) \/ ~ Carries(x, a)
    <3>1. InChan(a)' = InChan(a) + 0 /\ Range(chan') \subseteq Range(chan) \union {e}
      BY Zenon, <2>2, InvParts, ChanGains
    <3>2. InChan(a) \in Nat
      BY Zenon, SendersNat
    <3>3. InChan(a)' <= InChan(a)
      BY <3>1, <3>2
    <3> QED
      BY Zenon, <2>2, <3>1, <3>3
  <2> QED
    BY Zenon, <2>1, <2>2
<1> QED
  BY Zenon, <1>1, NoneGainedHere, NoneGained DEF netVars

\* An asker that has no sender has one when it asks.
LEMMA FirstSender ==
    ASSUME IInv, IInv', NEW b \in Asker
    PROVE /\ Senders(b) = 0 /\ InQuery(b)' <= InQuery(b)
          /\ \/ InChan(b)' <= InChan(b) /\ InTodo(b)' <= 1
             \/ InChan(b)' <= InChan(b) + 1 /\ InTodo(b)' <= InTodo(b)
          /\ Cardinality(Requests(b)') <= Cardinality(Requests(b)) /\ Len(answer'[b]) <= Len(answer[b])
          => Senders(b)' <= 1
<1>1. PICK c, t, q, r, l \in Nat :
        /\ c = InChan(b) /\ t = InTodo(b) /\ q = InQuery(b) /\ r = Cardinality(Requests(b))
        /\ l = Len(answer[b]) /\ Senders(b) = c + t + q + r + l
  BY Zenon, Totals
<1>2. PICK c1, t1, q1, r1, l1 \in Nat :
        /\ c1 = InChan(b)' /\ t1 = InTodo(b)' /\ q1 = InQuery(b)' /\ r1 = Cardinality(Requests(b)')
        /\ l1 = Len(answer'[b]) /\ Senders(b)' = c1 + t1 + q1 + r1 + l1
  BY Zenon, Totals
<1>3. /\ c + t + q + r + l = 0 /\ q1 <= q /\ r1 <= r /\ l1 <= l
      /\ (c1 <= c /\ t1 <= 1) \/ (c1 <= c + 1 /\ t1 <= t)
      => c1 + t1 + q1 + r1 + l1 <= 1
  OBVIOUS
<1> QED
  BY Zenon, <1>1, <1>2, <1>3

\* The client asks for the first time in this phase: it has one sender then.
LEMMA AskSenders ==
    ASSUME IInv, IInv', NEW c \in Client, AskDht(c) \/ AskProvider(c)
    PROVE \A a \in Asker : KeepsSenders(a)
<1> USE InvParts
<1> PICK phase \in {"dht", "provider"}, event \in {"FindRecord", "GetProviders"},
         wait \in {"wait_dht", "wait_provider"} :
        /\ Ask(c, phase, event, wait)
        /\ \/ phase = "dht" /\ event = "FindRecord" /\ pc[c] = "ask_dht"
           \/ phase = "provider" /\ event = "GetProviders" /\ pc[c] = "ask_provider" /\ c \in InfoClient
  BY Zenon DEF AskDht, AskProvider, InfoAsksProviders
<1> DEFINE b == <<c, phase>>
           e == [type |-> event, asker |-> b]
<1>1. b \in Asker /\ e \in Event /\ b[1] = c /\ b[2] = phase
  <2>1. b[1] = c /\ b[2] = phase
    OBVIOUS
  <2> QED
    BY Zenon, <2>1, AskerFacts, EventsMade DEF Client
<1>2. Unasked(b)
  BY Zenon, <1>1 DEF Unasked
<1>3. chan' = Append(chan, e) /\ UNCHANGED <<todo, netVars, answer>>
  BY Zenon DEF Ask
<1>4. \A a : Carries(e, a) => a = b
  BY Zenon DEF Carries
<1> HIDE DEF b, e
<1>5. ASSUME NEW a \in Asker, a # b
      PROVE KeepsSenders(a)
  <2>1. Len(answer'[a]) <= Len(answer[a])
    BY Zenon, <1>3, NoneGainedHere
  <2> QED
    BY Zenon, <1>1, <1>3, <1>4, <1>5, <2>1, PlainLocalSenders
<1>6. KeepsSenders(b)
  <2>1. Senders(b) = 0
    BY Zenon, <1>1, <1>2, UnaskedHasNone
  <2>2. InChan(b)' = InChan(b) + (IF Carries(e, b) THEN 1 ELSE 0)
    BY Zenon, <1>1, <1>3, ChanGains
  <2>3. InChan(b)' <= InChan(b) + 1
    <3>1. \A n \in Nat : n + 0 <= n + 1 /\ n + 1 <= n + 1
      OBVIOUS
    <3> QED
      BY Zenon, <1>1, <2>2, <3>1, SendersNat
  <2>4. /\ InTodo(b)' <= InTodo(b) /\ InQuery(b)' <= InQuery(b)
        /\ Cardinality(Requests(b)') <= Cardinality(Requests(b)) /\ Len(answer'[b]) <= Len(answer[b])
    BY Zenon, <1>1, <1>3, NoneGainedHere DEF netVars
  <2>5. Senders(b)' <= 1
    BY Zenon, <1>1, <2>1, <2>3, <2>4, FirstSender
  <2> QED
    BY Zenon, <2>5 DEF KeepsSenders
<1> QED
  BY Zenon, <1>5, <1>6

\* The clients, the worker and the runner: what a client takes from its channel was
\* the end of a sender.
LEMMA LocalSenders ==
    ASSUME IInv, IInv', Local
    PROVE \A a \in Asker : KeepsSenders(a)
<1> USE InvParts
<1>1. ASSUME NEW c \in Client, Begin(c)
      PROVE \A a \in Asker : KeepsSenders(a)
  BY Zenon, <1>1, NoneGainedHere, PlainLocalSenders DEF Begin
<1>2. ASSUME NEW c \in Client, NEW phase, <<c, phase>> \in Asker, Receive(c, phase) \/ Deadline(c, phase)
      PROVE \A a \in Asker : KeepsSenders(a)
  <2>1. /\ UNCHANGED <<chan, todo, netVars>>
        /\ \/ answer' = answer
           \/ answer' = [answer EXCEPT ![<<c, phase>>] = Tail(@)] /\ answer[<<c, phase>>] # <<>>
    BY Zenon, <1>2 DEF Receive, Deadline
  <2>2. ASSUME NEW a \in Asker
        PROVE Len(answer'[a]) <= Len(answer[a])
    <3>1. CASE answer' = answer
      BY Zenon, <3>1, NoneGainedHere
    <3>2. CASE answer' = [answer EXCEPT ![<<c, phase>>] = Tail(@)] /\ answer[<<c, phase>>] # <<>>
      <4>1. answer \in [Asker -> Seq(Message)] /\ answer[a] \in Seq(Message)
        BY Zenon DEF ClientType
      <4>2. answer'[a] = answer[a] \/ (answer[a] # <<>> /\ answer'[a] = Tail(answer[a]))
        BY Zenon, <3>2, <4>1
      <4> QED
        BY <4>1, <4>2
    <3> QED
      BY Zenon, <2>1, <3>1, <3>2
  <2> QED
    BY Zenon, <2>1, <2>2, PlainLocalSenders
<1>3. ASSUME NEW e \in Event, \A a : ~ Carries(e, a), chan' = Append(chan, e),
             UNCHANGED <<todo, netVars, answer>>
      PROVE \A a \in Asker : KeepsSenders(a)
  BY Zenon, <1>3, NoneGainedHere, PlainLocalSenders
<1>4. ASSUME NEW c \in Client, NEW phase, SendStored(c, phase)
      PROVE \A a \in Asker : KeepsSenders(a)
  <2>1. [type |-> "StoredRecord"] \in Event /\ \A a : ~ Carries([type |-> "StoredRecord"], a)
    BY Zenon, EventsMade DEF Carries
  <2> QED
    BY Zenon, <1>3, <1>4, <2>1 DEF SendStored
<1>5. ASSUME NEW r \in Receipt, Capture(r)
      PROVE \A a \in Asker : KeepsSenders(a)
  <2> DEFINE e == [type |-> "CapturedReceipt", receipt |-> r]
  <2>1. e \in Event /\ \A a : ~ Carries(e, a)
    BY Zenon, EventsMade DEF Carries
  <2>2. chan' = Append(chan, e) /\ UNCHANGED <<todo, netVars, answer>>
    BY Zenon, <1>5 DEF Capture, clientVars
  <2> QED
    BY Zenon, <1>3, <2>1, <2>2
<1>6. ASSUME NEW w \in Workflow, Provide(w)
      PROVE \A a \in Asker : KeepsSenders(a)
  <2> DEFINE e == [type |-> "ProvideRecord", workflow |-> w]
  <2>1. e \in Event /\ \A a : ~ Carries(e, a)
    BY Zenon, EventsMade DEF Carries
  <2>2. chan' = Append(chan, e) /\ UNCHANGED <<todo, netVars, answer>>
    BY Zenon, <1>6 DEF Provide, clientVars
  <2> QED
    BY Zenon, <1>3, <2>1, <2>2
<1>7. ASSUME NEW t \in NodeEvent, AskNode(t)
      PROVE \A a \in Asker : KeepsSenders(a)
  <2> DEFINE e == [type |-> t]
  <2>1. e \in Event /\ \A a : ~ Carries(e, a)
    BY Zenon, EventsMade DEF Carries, NodeEvent
  <2>2. chan' = Append(chan, e) /\ UNCHANGED <<todo, netVars, answer>>
    BY Zenon, <1>7 DEF AskNode, clientVars
  <2> QED
    BY Zenon, <1>3, <2>1, <2>2
<1> QED
  BY Zenon, <1>1, <1>2, <1>4, <1>5, <1>6, <1>7, AskSenders DEF Local, ClientStep

\* Others than the asker of what is kept or forgotten keep what they have.
LEMMA OthersKeep ==
    ASSUME IInv, NEW a \in Asker
    PROVE /\ (a \in query_senders' <=> a \in query_senders) => InQuery(a)' <= InQuery(a)
          /\ query_senders' \subseteq query_senders => InQuery(a)' <= InQuery(a)
          /\ InQuery(a)' <= InQuery(a) + 1
          /\ a \in query_senders /\ a \notin query_senders' => InQuery(a)' + 1 <= InQuery(a)
<1>1. CASE a \in query_senders
  <2>1. CASE a \in query_senders'
    BY <1>1, <2>1 DEF InQuery
  <2>2. CASE a \notin query_senders'
    BY <1>1, <2>2 DEF InQuery
  <2> QED
    BY Zenon, <2>1, <2>2
<1>2. CASE a \notin query_senders
  <2>1. CASE a \in query_senders'
    BY <1>2, <2>1 DEF InQuery
  <2>2. CASE a \notin query_senders'
    BY <1>2, <2>2 DEF InQuery
  <2> QED
    BY Zenon, <2>1, <2>2
<1> QED
  BY Zenon, <1>1, <1>2

\* A request is kept for its asker, or answered.
LEMMA RequestKept ==
    ASSUME IInv, NEW b \in Asker, NEW bp, bp[1] = b,
           request_response_senders' = request_response_senders \union {bp}
    PROVE /\ Cardinality(Requests(b)') <= Cardinality(Requests(b)) + 1
          /\ \A a \in Asker : a # b => Cardinality(Requests(a)') <= Cardinality(Requests(a))
<1>1. \A a \in Asker : IsFiniteSet(Requests(a)) /\ Cardinality(Requests(a)) \in Nat
  BY Zenon, SendersNat
<1>2. Requests(b)' = Requests(b) \union {bp} /\ \A a : a # b => Requests(a)' = Requests(a)
  BY Zenon DEF Requests
<1>3. Cardinality(Requests(b)') = IF bp \in Requests(b) THEN Cardinality(Requests(b))
                                  ELSE Cardinality(Requests(b)) + 1
  BY Zenon, <1>1, <1>2, FS_AddElement
<1>4. \A n \in Nat : n <= n /\ n <= n + 1 /\ n + 1 <= n + 1
  OBVIOUS
<1> QED
  BY Zenon, <1>1, <1>2, <1>3, <1>4

\* A request that is answered takes its sender out of the map.
LEMMA RequestDone ==
    ASSUME IInv, NEW b \in Asker, NEW bp, bp[1] = b,
           request_response_senders' = request_response_senders \ {bp}
    PROVE /\ Cardinality(Requests(b)') <= Cardinality(Requests(b))
          /\ bp \in request_response_senders =>
                Cardinality(Requests(b)') + 1 <= Cardinality(Requests(b))
          /\ \A a \in Asker : a # b => Cardinality(Requests(a)') <= Cardinality(Requests(a))
<1>1. \A a \in Asker : IsFiniteSet(Requests(a)) /\ Cardinality(Requests(a)) \in Nat
  BY Zenon, SendersNat
<1>2. /\ Requests(b)' = Requests(b) \ {bp} /\ (bp \in request_response_senders => bp \in Requests(b))
      /\ \A a : a # b => Requests(a)' = Requests(a)
  BY Zenon DEF Requests
<1>3. Cardinality(Requests(b) \ {bp}) = IF bp \in Requests(b) THEN Cardinality(Requests(b)) - 1
                                        ELSE Cardinality(Requests(b))
  BY Zenon, <1>1, FS_RemoveElement
<1>4. \A n \in Nat : n <= n /\ n - 1 <= n /\ (n - 1) + 1 <= n
  OBVIOUS
<1> QED
  BY Zenon, <1>1, <1>2, <1>3, <1>4

\* An asker with one sender, in the event that is taken, has nothing in the other
\* places.
LEMMA OnlyOne ==
    ASSUME IInv, IInv', NEW b \in Asker
    PROVE /\ Senders(b) <= 1 /\ InChan(b)' + 1 <= InChan(b)
          /\ InQuery(b)' = InQuery(b) /\ Cardinality(Requests(b)') = Cardinality(Requests(b))
          /\ Len(answer'[b]) = Len(answer[b])
          => InChan(b)' = 0 /\ InQuery(b) = 0 /\ Senders(b)' = InTodo(b)'
<1>1. PICK c, t, q, r, l \in Nat :
        /\ c = InChan(b) /\ t = InTodo(b) /\ q = InQuery(b) /\ r = Cardinality(Requests(b))
        /\ l = Len(answer[b]) /\ Senders(b) = c + t + q + r + l
  BY Zenon, Totals
<1>2. PICK c1, t1, q1, r1, l1 \in Nat :
        /\ c1 = InChan(b)' /\ t1 = InTodo(b)' /\ q1 = InQuery(b)' /\ r1 = Cardinality(Requests(b)')
        /\ l1 = Len(answer'[b]) /\ Senders(b)' = c1 + t1 + q1 + r1 + l1
  BY Zenon, Totals
<1>3. c + t + q + r + l <= 1 /\ c1 + 1 <= c /\ q1 = q /\ r1 = r /\ l1 = l
      => c1 = 0 /\ q = 0 /\ c1 + t1 + q1 + r1 + l1 = t1
  OBVIOUS
<1> QED
  BY Zenon, <1>1, <1>2, <1>3

\* A list of providers makes of the one sender of its asker one for each of them.
LEMMA ProvidersSenders ==
    ASSUME IInv, IInv', SendersInv, todo = <<>>, UNCHANGED <<netVars, answer>>,
           NEW e \in Range(chan), e.type = "Providers", NEW b \in ProviderAsker, Carries(e, b),
           NEW providers, providers \subseteq Peer, ToProviders(providers, b),
           \A a \in Asker : InChan(a)' <= InChan(a) /\ (Carries(e, a) => InChan(a)' + 1 <= InChan(a)),
           Range(chan') \subseteq Range(chan)
    PROVE \A a \in Asker : KeepsSenders(a)
<1>1. b \in Asker /\ b[2] = "provider"
  BY Zenon, AskerFacts
<1>2. /\ todo' \in Seq(Job)
      /\ \A i \in DOMAIN todo' :
            /\ todo'[i].do = "own" /\ todo'[i].event.type = "OutboundRequest"
            /\ todo'[i].event.asker = b /\ todo'[i].event.peer \in providers
      /\ \A i, j \in DOMAIN todo' : todo'[i].event.peer = todo'[j].event.peer => i = j
  BY Zenon, ProvidersListed
<1> USE InvParts
<1>3. \A j \in Range(todo') : /\ j.do = "own" /\ j.event.type = "OutboundRequest"
                              /\ \A a : Carries(j.event, a) => a = b
  <2>1. \A i \in DOMAIN todo' : \A a : Carries(todo'[i].event, a) => a = b
    BY Zenon, <1>2 DEF Carries
  <2> QED
    BY Zenon, <1>2, <2>1 DEF Range
<1>4. ASSUME NEW a \in Asker, a # b
      PROVE KeepsSenders(a)
  <2>1. InTodo(a)' = 0
    BY Zenon, <1>2, <1>3, <1>4, TodoBecomes DEF JobCarries
  <2>2. \A n \in Nat : 0 <= n
    OBVIOUS
  <2>3. InTodo(a)' <= InTodo(a)
    BY Zenon, <2>1, <2>2, SendersNat
  <2> QED
    BY Zenon, <1>3, <1>4, <2>3, NoneGainedHere, NoneGained DEF netVars
<1>5. InTodo(b)' <= Cardinality(Peer)
  <2> PICK ps \in Injection(1..Cardinality(providers), providers) :
          todo' = [i \in DOMAIN ps |-> Own([type |-> "OutboundRequest", peer |-> ps[i], asker |-> b])]
    BY Zenon DEF ToProviders
  <2>1. ps \in Injection(DOMAIN todo', Peer)
    <3>1. ps \in [1..Cardinality(providers) -> providers] /\ IsInjective(ps) /\ DOMAIN todo' = DOMAIN ps
      BY Zenon DEF Injection
    <3>2. DOMAIN ps = 1..Cardinality(providers) /\ \A i \in DOMAIN ps : ps[i] \in Peer
      BY Zenon, <3>1
    <3>3. ps \in [DOMAIN todo' -> Peer]
      BY Zenon, <3>1, <3>2
    <3> QED
      BY Zenon, <3>1, <3>3 DEF Injection
  <2>2. IsFiniteSet(Peer) /\ Cardinality(Peer) \in Nat
    BY Zenon, HandlerAssumption, FS_CardinalityType
  <2>3. IsFiniteSet(DOMAIN todo') /\ Cardinality(DOMAIN todo') <= Cardinality(Peer)
    BY Zenon, <2>1, <2>2, FS_Injection
  <2>4. Places(todo', JobsWith(b)) \in SUBSET (DOMAIN todo')
    BY Zenon DEF Places
  <2>5. /\ Cardinality(Places(todo', JobsWith(b))) <= Cardinality(DOMAIN todo')
        /\ IsFiniteSet(Places(todo', JobsWith(b)))
    BY Zenon, <2>3, <2>4, FS_Subset
  <2>6. Cardinality(DOMAIN todo') \in Nat /\ Cardinality(Places(todo', JobsWith(b))) \in Nat
    BY Zenon, <2>3, <2>5, FS_CardinalityType
  <2>7. \A x, y, z \in Nat : x <= y /\ y <= z => x <= z
    OBVIOUS
  <2>8. InTodo(b)' = Cardinality(Places(todo', JobsWith(b)))
    BY Zenon DEF InTodo, JobsWith
  <2> QED
    BY Zenon, <2>2, <2>3, <2>5, <2>6, <2>7, <2>8
<1>6. KeepsSenders(b)
  <2>1. ~ PassedOn(b)
    BY Zenon DEF PassedOn
  <2>2. Senders(b) <= 1
    BY Zenon, <1>1, <2>1 DEF SendersInv
  <2>3. /\ InChan(b)' + 1 <= InChan(b) /\ InQuery(b)' = InQuery(b) /\ Len(answer'[b]) = Len(answer[b])
        /\ Cardinality(Requests(b)') = Cardinality(Requests(b))
    BY Zenon, <1>1, PlacesSame DEF netVars
  <2>4. InChan(b)' = 0 /\ InQuery(b) = 0 /\ Senders(b)' = InTodo(b)'
    BY Zenon, <1>1, <2>2, <2>3, OnlyOne
  <2>6. Senders(b)' <= Cardinality(Peer)
    BY Zenon, <1>5, <2>4
  <2>7. PassedOn(b)'
    <3>1. \A x \in Range(chan') : ~ Carries(x, b)
      <4>1. chan' \in Seq(Event) /\ todo' \in Seq(Job) /\ {} \subseteq ProviderAsker \X Peer
        BY Zenon DEF IInv, TypeOK
      <4>2. Cardinality(Places(chan', EventsWith(b))) = 0
        BY Zenon, <2>4 DEF InChan, EventsWith
      <4> QED
        BY Zenon, <4>1, <4>2, CountsNat
    <3>2. b \notin query_senders'
      <4>1. InQuery(b) # 1
        <5>1. 1 # 0
          OBVIOUS
        <5> QED
          BY Zenon, <2>4, <5>1
      <4> QED
        BY Zenon, <4>1 DEF InQuery, netVars
    <3> QED
      BY Zenon, <1>3, <3>1, <3>2 DEF PassedOn
  <2> QED
    BY Zenon, <1>1, <2>6, <2>7 DEF KeepsSenders
<1> QED
  BY Zenon, <1>4, <1>6

\* The handler takes an event: its sender is kept with the query or the request.
LEMMA HandleEventSenders ==
    ASSUME IInv, IInv', SendersInv, HandleEvent
    PROVE \A a \in Asker : KeepsSenders(a)
<1> USE InvParts
<1>1. /\ todo = <<>> /\ chan # <<>> /\ chan' = Tail(chan) /\ UNCHANGED answer
  BY Zenon DEF HandleEvent, AtSelect, clientVars
<1> PICK e \in Event : e = Head(chan) /\ e \in Range(chan)
  BY Zenon, <1>1, ChanLoses
<1>2. /\ \A a \in Asker : InChan(a)' <= InChan(a) /\ (Carries(e, a) => InChan(a)' + 1 <= InChan(a))
      /\ Range(chan') \subseteq Range(chan)
  BY Zenon, <1>1, ChanLoses
<1>3. \/ e.type \in {"FindRecord", "GetProviders"} /\ StartQuery(e.asker)
      \/ e.type = "CapturedReceipt" /\ Publish(e.receipt)
      \/ e.type = "ProvideRecord" /\ ProvideRecord(e.workflow)
      \/ e.type = "Providers" /\ ToProviders(e.providers, e.asker)
      \/ e.type = "OutboundRequest" /\ OutboundRequest(e.peer, e.asker)
      \/ e.type \in NodeEvent /\ ReplyNode(e.type)
      \/ e.type = "StoredRecord" /\ UNCHANGED <<todo, netVars, replied>>
  BY Zenon DEF HandleEvent
<1>5. CASE e.type \in {"FindRecord", "GetProviders"} /\ StartQuery(e.asker)
  <2> DEFINE b == e.asker
  <2>1. /\ UNCHANGED <<todo, request_response_senders>> /\ query_senders' = query_senders \union {b}
        /\ Carries(e, b) /\ b \in Asker
    BY Zenon, <1>2, <1>5, EventFacts, AskerFacts DEF StartQuery, Carries
  <2> HIDE DEF b
  <2>2. ASSUME NEW a \in Asker, a # b
        PROVE KeepsSenders(a)
    <3>1. a \in query_senders' <=> a \in query_senders
      BY Zenon, <2>1, <2>2
    <3>2. InQuery(a)' <= InQuery(a)
      BY Zenon, <3>1, OthersKeep
    <3> QED
      BY Zenon, <1>1, <1>2, <2>1, <3>1, <3>2, NoneGainedHere, NoneGained
  <2>3. KeepsSenders(b)
    <3>1. ~ PassedOn(b)
      BY Zenon, <1>2, <1>5, <2>1 DEF PassedOn
    <3>2. /\ InChan(b)' + 1 <= InChan(b) /\ InTodo(b)' <= InTodo(b) /\ InQuery(b)' <= InQuery(b) + 1
          /\ Cardinality(Requests(b)') <= Cardinality(Requests(b)) /\ Len(answer'[b]) <= Len(answer[b])
      BY Zenon, <1>1, <1>2, <2>1, OthersKeep, NoneGainedHere
    <3>3. Senders(b)' <= Senders(b)
      BY Zenon, <2>1, <3>2, SenderMoves DEF UnitMoves
    <3> QED
      BY Zenon, <3>1, <3>3 DEF KeepsSenders
  <2> QED
    BY Zenon, <2>2, <2>3
<1>6. CASE e.type = "OutboundRequest" /\ OutboundRequest(e.peer, e.asker)
  <2> DEFINE b == e.asker
             bp == <<b, e.peer>>
  <2>1. /\ UNCHANGED <<todo, query_senders>> /\ Carries(e, b) /\ b \in Asker
        /\ request_response_senders' = request_response_senders \union {bp}
    BY Zenon, <1>2, <1>6, EventFacts, AskerFacts DEF OutboundRequest, Carries
  <2>2. bp[1] = b
    OBVIOUS
  <2> HIDE DEF b, bp
  <2>3. /\ Cardinality(Requests(b)') <= Cardinality(Requests(b)) + 1
        /\ \A a \in Asker : a # b => Cardinality(Requests(a)') <= Cardinality(Requests(a))
    BY Zenon, <2>1, <2>2, RequestKept
  <2>4. ASSUME NEW a \in Asker, a # b
        PROVE KeepsSenders(a)
    BY Zenon, <1>1, <1>2, <2>1, <2>3, <2>4, NoneGainedHere, NoneGained
  <2>5. KeepsSenders(b)
    <3>1. PassedOn(b) => PassedOn(b)'
      BY Zenon, <1>2, <2>1 DEF PassedOn
    <3>2. /\ InChan(b)' + 1 <= InChan(b) /\ InTodo(b)' <= InTodo(b) /\ InQuery(b)' <= InQuery(b)
          /\ Len(answer'[b]) <= Len(answer[b])
      BY Zenon, <1>1, <1>2, <2>1, NoneGainedHere
    <3>3. Senders(b)' <= Senders(b)
      BY Zenon, <2>1, <2>3, <3>2, SenderMoves DEF UnitMoves
    <3> QED
      BY Zenon, <3>1, <3>3 DEF KeepsSenders
  <2> QED
    BY Zenon, <2>4, <2>5
<1>7. CASE /\ UNCHANGED <<todo, request_response_senders>>
           /\ \A a \in Asker : a \in query_senders' <=> a \in query_senders
  <2> SUFFICES ASSUME NEW a \in Asker PROVE KeepsSenders(a)
    OBVIOUS
  <2>1. InQuery(a)' <= InQuery(a)
    BY Zenon, <1>7, OthersKeep
  <2> QED
    BY Zenon, <1>1, <1>2, <1>7, <2>1, NoneGainedHere, NoneGained
<1>8. CASE e.type = "CapturedReceipt" /\ Publish(e.receipt)
  <2>1. {e.receipt} \X {"receipt", "workflow"} \subseteq Put
    <3>1. e.receipt \in Receipt
      BY Zenon, <1>2, <1>8, EventFacts
    <3> QED
      BY <3>1 DEF Put
  <2>2. UNCHANGED <<todo, request_response_senders>>
    BY Zenon, <1>8 DEF Publish
  <2>3. \E qs \in SUBSET ({e.receipt} \X {"receipt", "workflow"}) :
           query_senders' = query_senders \union qs
    <3>1. CASE UNCHANGED query_senders
      <4>1. query_senders' = query_senders \union {}
        BY <3>1
      <4> QED
        BY Zenon, <4>1
    <3> QED
      BY Zenon, <1>8, <3>1 DEF Publish
  <2>4. \A a \in Asker : a \in query_senders' <=> a \in query_senders
    BY Zenon, <2>1, <2>3, AskerFacts
  <2> QED
    BY Zenon, <1>7, <2>2, <2>4
<1>9. CASE e.type = "ProvideRecord" /\ ProvideRecord(e.workflow)
  <2>1. <<e.workflow, "provide">> \in Providing
    <3>1. e.workflow \in Workflow
      BY Zenon, <1>2, <1>9, EventFacts
    <3> QED
      BY <3>1 DEF Providing
  <2>2. \A a \in Asker : a # <<e.workflow, "provide">>
    BY Zenon, <2>1, AskerFacts
  <2>3. \A a \in Asker : a \in query_senders' <=> a \in query_senders
    BY Zenon, <1>9, <2>2 DEF ProvideRecord
  <2>4. UNCHANGED <<todo, request_response_senders>>
    BY Zenon, <1>9 DEF ProvideRecord
  <2> QED
    BY Zenon, <1>7, <2>3, <2>4
<1>10. CASE e.type = "Providers" /\ ToProviders(e.providers, e.asker)
  <2>1. UNCHANGED netVars
    BY Zenon, <1>10 DEF ToProviders
  <2>2. e.asker \in ProviderAsker /\ Carries(e, e.asker) /\ e.providers \subseteq Peer
    BY Zenon, <1>2, <1>10, EventFacts DEF Carries
  <2> QED
    BY Zenon, <1>1, <1>2, <1>10, <2>1, <2>2, ProvidersSenders
<1>11. CASE UNCHANGED <<todo, netVars>>
  BY Zenon, <1>7, <1>11 DEF netVars
<1> QED
  BY Zenon, <1>3, <1>5, <1>6, <1>8, <1>9, <1>10, <1>11 DEF ReplyNode

\* An event of the handler's own takes its sender to the channel.
LEMMA SendOwnSenders ==
    ASSUME IInv, IInv', SendOwn
    PROVE \A a \in Asker : KeepsSenders(a)
<1> USE InvParts
<1>1. /\ Head(todo).do = "own" /\ todo # <<>> /\ todo' = Tail(todo)
      /\ chan' = Append(chan, Head(todo).event) /\ UNCHANGED <<netVars, answer>>
  BY Zenon DEF SendOwn, AtSelect, clientVars
<1> PICK j \in Job : j = Head(todo) /\ j \in Range(todo) /\ Range(todo') \subseteq Range(todo)
  BY Zenon, <1>1, TodoLoses
<1>2. j.event \in Event /\ j.do = "own" /\ chan' = Append(chan, j.event)
  BY Zenon, <1>1, JobFacts, EventsMade
<1> SUFFICES ASSUME NEW a \in Asker PROVE KeepsSenders(a)
  OBVIOUS
<1>3. /\ InChan(a)' = InChan(a) + (IF Carries(j.event, a) THEN 1 ELSE 0)
      /\ Range(chan') \subseteq Range(chan) \union {j.event}
  BY Zenon, <1>2, ChanGains
<1>4. InTodo(a)' <= InTodo(a) /\ (JobCarries(j, a) => InTodo(a)' + 1 <= InTodo(a))
  BY Zenon, <1>1, TodoLoses
<1>5. /\ InQuery(a)' <= InQuery(a) /\ Cardinality(Requests(a)') <= Cardinality(Requests(a))
      /\ Len(answer'[a]) <= Len(answer[a]) /\ UNCHANGED query_senders
  BY Zenon, <1>1, NoneGainedHere DEF netVars
<1>6. \A n \in Nat : n + 0 <= n /\ n + 1 <= n + 1
  OBVIOUS
<1>7. CASE ~ Carries(j.event, a)
  <2>1. InChan(a)' <= InChan(a)
    BY Zenon, <1>3, <1>6, <1>7, SendersNat
  <2> QED
    BY Zenon, <1>3, <1>4, <1>5, <1>7, <2>1, NoneGained
<1>8. CASE Carries(j.event, a)
  <2>1. InChan(a)' <= InChan(a) + 1
    BY Zenon, <1>3, <1>6, <1>8, SendersNat
  <2>2. InTodo(a)' + 1 <= InTodo(a)
    BY Zenon, <1>2, <1>4, <1>8 DEF JobCarries
  <2>3. Senders(a)' <= Senders(a)
    BY Zenon, <1>5, <2>1, <2>2, SenderMoves DEF UnitMoves
  <2>4. PassedOn(a) => PassedOn(a)'
    BY Zenon, <1>2, <1>3, <1>5, <1>8 DEF PassedOn
  <2> QED
    BY Zenon, <2>3, <2>4 DEF KeepsSenders
<1> QED
  BY Zenon, <1>7, <1>8

\* An answer takes its sender to the asker's channel, or is dropped with it.
LEMMA SendAnswerSenders ==
    ASSUME IInv, IInv', SendAnswer
    PROVE \A a \in Asker : KeepsSenders(a)
<1> USE InvParts
<1>1. /\ Head(todo).do = "answer" /\ todo # <<>> /\ todo' = Tail(todo) /\ UNCHANGED <<chan, netVars>>
      /\ \/ answer' = answer
         \/ /\ answer[Head(todo).to] = <<>>
            /\ answer' = [answer EXCEPT ![Head(todo).to] = <<Head(todo).msg>>]
  BY Zenon DEF SendAnswer, AtSelect
<1> PICK j \in Job : j = Head(todo) /\ Range(todo') \subseteq Range(todo)
  BY Zenon, <1>1, TodoLoses
<1>2. /\ j.do = "answer" /\ j.to \in Asker
      /\ \/ answer' = answer
         \/ answer[j.to] = <<>> /\ answer' = [answer EXCEPT ![j.to] = <<j.msg>>]
  BY Zenon, <1>1, JobFacts
<1> SUFFICES ASSUME NEW a \in Asker PROVE KeepsSenders(a)
  OBVIOUS
<1>3. InTodo(a)' <= InTodo(a) /\ (JobCarries(j, a) => InTodo(a)' + 1 <= InTodo(a))
  BY Zenon, <1>1, TodoLoses
<1>4. /\ InChan(a)' <= InChan(a) /\ InQuery(a)' <= InQuery(a)
      /\ Cardinality(Requests(a)') <= Cardinality(Requests(a))
      /\ UNCHANGED <<query_senders, chan>>
  BY Zenon, <1>1, NoneGainedHere DEF netVars
<1>5. answer'[a] = answer[a] \/ (a = j.to /\ answer[a] = <<>> /\ answer'[a] = <<j.msg>>)
  <2>1. answer \in [Asker -> Seq(Message)]
    BY Zenon DEF ClientType
  <2> QED
    BY Zenon, <1>2, <2>1
<1>6. CASE answer'[a] = answer[a]
  <2>1. Len(answer'[a]) <= Len(answer[a])
    <3>1. \A n \in Nat : n <= n
      OBVIOUS
    <3> QED
      BY Zenon, <1>6, <3>1, SendersNat
  <2> QED
    BY Zenon, <1>3, <1>4, <2>1, NoneGained
<1>7. CASE a = j.to /\ answer[a] = <<>> /\ answer'[a] = <<j.msg>>
  <2>1. Len(answer'[a]) <= Len(answer[a]) + 1
    <3>1. \A m : Len(<<m>>) <= Len(<<>>) + 1
      OBVIOUS
    <3> QED
      BY Zenon, <1>7, <3>1
  <2>2. InTodo(a)' + 1 <= InTodo(a)
    BY Zenon, <1>2, <1>3, <1>7 DEF JobCarries
  <2>3. Senders(a)' <= Senders(a)
    BY Zenon, <1>4, <2>1, <2>2, SenderMoves DEF UnitMoves
  <2>4. PassedOn(a) => PassedOn(a)'
    BY Zenon, <1>4 DEF PassedOn
  <2> QED
    BY Zenon, <2>3, <2>4 DEF KeepsSenders
<1> QED
  BY Zenon, <1>5, <1>6, <1>7

\* What is left of an event, done job by job.
LEMMA StepSenders ==
    ASSUME IInv, IInv', Step
    PROVE \A a \in Asker : KeepsSenders(a)
<1> USE InvParts
<1>1. CASE FinishQuery \/ SendResponse
  <2>1. /\ todo # <<>> /\ todo' = Tail(todo)
        /\ UNCHANGED <<chan, query_senders, request_response_senders, answer>>
    BY Zenon, <1>1 DEF FinishQuery, SendResponse, AtSelect, netVars, clientVars
  <2> SUFFICES ASSUME NEW a \in Asker PROVE KeepsSenders(a)
    OBVIOUS
  <2>2. InTodo(a)' <= InTodo(a) /\ Range(todo') \subseteq Range(todo)
    BY Zenon, <2>1, TodoLoses
  <2> QED
    BY Zenon, <2>1, <2>2, NoneGainedHere, NoneGained
<1>2. CASE AwaitOwn
  <2> DEFINE p == Head(todo).peer
  <2>1. /\ Head(todo).do = "await" /\ todo \in Seq(Job) /\ todo # <<>>
        /\ UNCHANGED <<chan, netVars>>
        /\ answer' = [answer EXCEPT ![<<p, "provider">>] = <<>>]
        /\ answer[<<p, "provider">>] = <<>> => todo' = <<Respond(p, "Timeout")>>
    BY Zenon, <1>2 DEF AwaitOwn, LoopType, AtSelect
  <2>2. p \in Requester
    BY Zenon, <2>1, TailFacts, JobFacts
  <2>3. answer[<<p, "provider">>] = <<>> /\ answer \in [Asker -> Seq(Message)]
    BY Zenon, <2>2 DEF OwnRetrievalUnanswered, ClientType
  <2>4. answer' = answer /\ todo' = <<Respond(p, "Timeout")>>
    <3>1. \A x : answer[x] = <<>> => [answer EXCEPT ![x] = <<>>] = answer
      BY <2>3
    <3> QED
      BY Zenon, <2>1, <2>3, <3>1
  <2>5. PICK j \in Job : j.do = "respond" /\ todo' = <<j>>
    <3>1. Respond(p, "Timeout") \in Job
      BY Zenon, <2>2, JobsMade DEF Reply
    <3>2. Respond(p, "Timeout").do = "respond"
      BY DEF Respond
    <3> QED
      BY Zenon, <2>4, <3>1, <3>2
  <2>6. todo' \in Seq(Job) /\ Range(todo') = {j}
    BY Zenon, <2>5, OneJob
  <2> SUFFICES ASSUME NEW a \in Asker PROVE KeepsSenders(a)
    OBVIOUS
  <2>7. InTodo(a)' = 0
    BY Zenon, <2>5, <2>6, TodoBecomes DEF JobCarries
  <2>8. InTodo(a)' <= InTodo(a)
    <3>1. \A n \in Nat : 0 <= n
      OBVIOUS
    <3> QED
      BY Zenon, <2>7, <3>1, SendersNat
  <2> QED
    BY Zenon, <2>1, <2>4, <2>5, <2>6, <2>8, NoneGainedHere, NoneGained DEF netVars
<1> QED
  BY Zenon, <1>1, <1>2, SendOwnSenders, SendAnswerSenders DEF Step

\* The handler, at its select, is to do one thing: if it is an answer, or an event
\* with the providers, its sender was kept with the query or the request until now.
LEMMA OneJobSenders ==
    ASSUME IInv, IInv', todo = <<>>, UNCHANGED <<chan, answer>>, todo' \in Seq(Job),
           NEW b \in Asker, NEW k \in DOMAIN todo',
           \A i \in DOMAIN todo' : i # k => \A a : ~ JobCarries(todo'[i], a),
           \A a : JobCarries(todo'[k], a) => a = b,
           \/ InQuery(b)' + 1 <= InQuery(b) /\ Cardinality(Requests(b)') <= Cardinality(Requests(b))
           \/ InQuery(b)' <= InQuery(b) /\ Cardinality(Requests(b)') + 1 <= Cardinality(Requests(b)),
           \A a \in Asker : a # b =>
               InQuery(a)' <= InQuery(a) /\ Cardinality(Requests(a)') <= Cardinality(Requests(a)),
           query_senders' \subseteq query_senders,
           PassedOn(b) => todo'[k].do # "own"
    PROVE \A a \in Asker : KeepsSenders(a)
<1>1. \A a \in Asker : InChan(a)' <= InChan(a) /\ Len(answer'[a]) <= Len(answer[a])
  BY Zenon, NoneGainedHere
<1>2. \A j \in Range(todo') : \A a : a # b => ~ JobCarries(j, a)
  BY Zenon DEF Range
<1>3. ASSUME NEW a \in Asker, a # b
      PROVE KeepsSenders(a)
  <2>1. InTodo(a)' = 0
    BY Zenon, <1>2, <1>3, TodoBecomes
  <2>2. InTodo(a)' <= InTodo(a)
    <3>1. \A n \in Nat : 0 <= n
      OBVIOUS
    <3> QED
      BY Zenon, <2>1, <3>1, SendersNat
  <2>3. \A j \in Range(todo') : j.do # "own" \/ ~ Carries(j.event, a)
    BY Zenon, <1>2, <1>3 DEF JobCarries
  <2> QED
    BY Zenon, <1>1, <1>3, <2>2, <2>3, NoneGained
<1>4. KeepsSenders(b)
  <2>1. InTodo(b)' <= InTodo(b) + 1
    <3>1. InTodo(b)' <= 1 /\ InTodo(b)' \in Nat /\ InTodo(b) \in Nat
      BY Zenon, TodoBecomes, SendersNat, SendersNatNext
    <3>2. \A m, n \in Nat : m <= 1 => m <= n + 1
      OBVIOUS
    <3> QED
      BY Zenon, <3>1, <3>2
  <2>2. Senders(b)' <= Senders(b)
    BY Zenon, <1>1, <2>1, SenderMoves DEF UnitMoves
  <2>3. PassedOn(b) => PassedOn(b)'
    <3>1. ASSUME PassedOn(b)
          PROVE \A j \in Range(todo') : ~ (j.do = "own" /\ Carries(j.event, b))
      BY Zenon, <3>1 DEF Range, JobCarries
    <3> QED
      BY Zenon, <3>1 DEF PassedOn
  <2> QED
    BY Zenon, <2>2, <2>3 DEF KeepsSenders
<1> QED
  BY Zenon, <1>3, <1>4

\* The swarm's events that give the handler nothing to do for an asker.
LEMMA QuietSenders ==
    ASSUME IInv, IInv', todo = <<>>, UNCHANGED <<chan, answer>>, todo' \in Seq(Job),
           \A j \in Range(todo') : \A a : ~ JobCarries(j, a),
           query_senders' \subseteq query_senders,
           \A a \in Asker : Cardinality(Requests(a)') <= Cardinality(Requests(a))
    PROVE \A a \in Asker : KeepsSenders(a)
<1> SUFFICES ASSUME NEW a \in Asker PROVE KeepsSenders(a)
  OBVIOUS
<1>1. InTodo(a)' = 0
  BY Zenon, TodoBecomes
<1>2. InTodo(a)' <= InTodo(a)
  <2>1. \A n \in Nat : 0 <= n
    OBVIOUS
  <2> QED
    BY Zenon, <1>1, <2>1, SendersNat
<1>3. InQuery(a)' <= InQuery(a)
  BY Zenon, OthersKeep
<1>4. \A j \in Range(todo') : j.do # "own" \/ ~ Carries(j.event, a)
  BY Zenon DEF JobCarries
<1> QED
  BY Zenon, <1>2, <1>3, <1>4, NoneGainedHere, NoneGained

\* The answer to a query, or to a request, that the handler kept the sender of.
LEMMA AnswerSenders ==
    ASSUME IInv, IInv', todo = <<>>, UNCHANGED <<chan, answer>>,
           NEW b \in Asker, NEW m \in Message, todo' = <<Answer(b, m)>>,
           \/ InQuery(b)' + 1 <= InQuery(b) /\ Cardinality(Requests(b)') <= Cardinality(Requests(b))
           \/ InQuery(b)' <= InQuery(b) /\ Cardinality(Requests(b)') + 1 <= Cardinality(Requests(b)),
           \A a \in Asker : a # b => Cardinality(Requests(a)') <= Cardinality(Requests(a)),
           query_senders' \subseteq query_senders
    PROVE \A a \in Asker : KeepsSenders(a)
<1>1. PICK j \in Job : todo' = <<j>> /\ j.do = "answer" /\ j.to = b
  <2>1. Answer(b, m) \in Job /\ Answer(b, m).do = "answer" /\ Answer(b, m).to = b
    BY Zenon, JobsMade DEF Answer
  <2> QED
    BY Zenon, <2>1
<1>2. todo' \in Seq(Job) /\ DOMAIN todo' = {1} /\ todo'[1] = j
  BY Zenon, <1>1, OneJob
<1>3. /\ 1 \in DOMAIN todo' /\ todo'[1].do # "own"
      /\ \A i \in DOMAIN todo' : i # 1 => \A a : ~ JobCarries(todo'[i], a)
      /\ \A a : JobCarries(todo'[1], a) => a = b
  BY Zenon, <1>1, <1>2 DEF JobCarries
<1>4. \A a \in Asker : a # b =>
        InQuery(a)' <= InQuery(a) /\ Cardinality(Requests(a)') <= Cardinality(Requests(a))
  BY Zenon, OthersKeep
<1> QED
  BY Zenon, <1>2, <1>3, <1>4, OneJobSenders

\* A query is answered, found or ended.
LEMMA QuerySenders ==
    ASSUME IInv, IInv', NEW a \in DOMAIN kad,
           \/ \E v \in Capsule : FoundRecord(a, v)
           \/ GetRecordEnd(a) \/ PutEnd(a)
           \/ \E err \in BOOLEAN : GetProvidersEnd(a, err)
    PROVE \A x \in Asker : KeepsSenders(x)
<1> USE InvParts
<1>1. /\ todo = <<>> /\ UNCHANGED <<chan, answer, request_response_senders>>
      /\ \/ \E m \in Message : AnswerKept(a, m) /\ query_senders' = query_senders \ {a}
         \/ UNCHANGED todo /\ query_senders' \subseteq query_senders
  <2>1. "Err" \in Message /\ "Providers" \in Message /\ \A v : decode_capsule(v) \in Message
    BY Zenon, DecodedFacts DEF Message
  <2> QED
    BY Zenon, <2>1
       DEF FoundRecord, GetRecordEnd, PutEnd, GetProvidersEnd, Forget, AtSelect, clientVars
<1>2. \A x \in Asker : Cardinality(Requests(x)') <= Cardinality(Requests(x))
  BY Zenon, <1>1, NoneGainedHere
<1>3. CASE todo' = <<>> /\ query_senders' \subseteq query_senders
  <2>1. todo' \in Seq(Job) /\ Range(todo') = {}
    <3>1. <<>> \in Seq(Job) /\ DOMAIN <<>> = {}
      OBVIOUS
    <3> QED
      BY Zenon, <1>3, <3>1 DEF Range
  <2> QED
    BY Zenon, <1>1, <1>2, <1>3, <2>1, QuietSenders
<1>4. ASSUME NEW m \in Message, todo' = <<Answer(a, m)>>, a \in Asker, a \in query_senders,
             query_senders' = query_senders \ {a}
      PROVE \A x \in Asker : KeepsSenders(x)
  <2>1. InQuery(a)' + 1 <= InQuery(a)
    BY Zenon, <1>4, OthersKeep
  <2> QED
    BY Zenon, <1>1, <1>2, <1>4, <2>1, AnswerSenders
<1> QED
  BY Zenon, <1>1, <1>3, <1>4 DEF AnswerKept

\* Providers were found: the sender of the query goes on with the list of them.
LEMMA FoundProvidersSenders ==
    ASSUME IInv, IInv', NEW a \in DOMAIN kad, NEW ps \in SUBSET (Peer \union {Self}),
           FoundProviders(a, ps)
    PROVE \A x \in Asker : KeepsSenders(x)
<1> DEFINE e == [type |-> "Providers", providers |-> ps \ {Self}, asker |-> a]
<1>1. /\ todo = <<>> /\ a[2] = "provider" /\ a \in query_senders
      /\ query_senders' = query_senders \ {a} /\ todo' = <<Own(e), Finish(a)>>
      /\ UNCHANGED <<chan, request_response_senders, answer>>
  BY Zenon DEF FoundProviders, Forget, AtSelect, clientVars
<1> USE InvParts
<1>2. a \in Asker /\ a \in ProviderAsker
  <2>1. a \in Asker
    BY Zenon, <1>1, AskerFacts DEF NetType
  <2> QED
    BY Zenon, <1>1, <2>1, AskerFacts
<1>3. PICK i \in Job, j \in Job :
        todo' = <<i, j>> /\ j.do = "finish" /\ \A x : JobCarries(i, x) => x = a
  <2>1. ps \ {Self} \in SUBSET Peer
    BY Zenon
  <2>2. Own(e) \in Job /\ Finish(a) \in Job
    BY Zenon, <1>2, <2>1, EventsMade, JobsMade
  <2>3. Finish(a).do = "finish" /\ \A x : JobCarries(Own(e), x) => x = a
    BY Zenon DEF Own, Finish, JobCarries, Carries
  <2> HIDE DEF e
  <2> QED
    BY Zenon, <1>1, <2>2, <2>3
<1>4. todo' \in Seq(Job) /\ DOMAIN todo' = {1, 2} /\ todo'[1] = i /\ todo'[2] = j
  <2>1. ASSUME NEW s, s = <<i, j>>
        PROVE s \in Seq(Job) /\ DOMAIN s = {1, 2} /\ s[1] = i /\ s[2] = j
    BY <2>1
  <2> QED
    BY Zenon, <1>3, <2>1
<1>5. /\ 1 \in DOMAIN todo'
      /\ \A k \in DOMAIN todo' : k # 1 => \A x : ~ JobCarries(todo'[k], x)
      /\ \A x : JobCarries(todo'[1], x) => x = a
  BY Zenon, <1>3, <1>4 DEF JobCarries
<1>6. \A x \in Asker : Cardinality(Requests(x)') <= Cardinality(Requests(x))
  BY Zenon, <1>1, NoneGainedHere
<1>7. InQuery(a)' + 1 <= InQuery(a) /\ query_senders' \subseteq query_senders /\ ~ PassedOn(a)
  <2>1. a \notin query_senders' /\ query_senders' \subseteq query_senders /\ ~ PassedOn(a)
    BY Zenon, <1>1 DEF PassedOn
  <2> QED
    BY Zenon, <1>1, <1>2, <2>1, OthersKeep
<1>8. \A x \in Asker : x # a =>
        InQuery(x)' <= InQuery(x) /\ Cardinality(Requests(x)') <= Cardinality(Requests(x))
  BY Zenon, <1>6, <1>7, OthersKeep
<1> HIDE DEF e
<1> QED
  BY Zenon, <1>1, <1>2, <1>4, <1>5, <1>6, <1>7, <1>8, OneJobSenders

\* A provider responds, or its request fails and its entry stays.
LEMMA RequestEndSenders ==
    ASSUME IInv, IInv', NEW ap \in wire,
           OutboundFailure(ap[1], ap[2]) \/ \E v \in Capsule : Response(ap[1], ap[2], v)
    PROVE \A x \in Asker : KeepsSenders(x)
<1> USE InvParts
<1>1. ap \in ProviderAsker \X Peer
  BY Zenon DEF NetType
<1>2. ap = <<ap[1], ap[2]>> /\ ap[1] \in ProviderAsker
  BY <1>1
<1> PICK a \in Asker : a = ap[1]
  BY Zenon, <1>2, AskerFacts
<1>3. todo = <<>> /\ UNCHANGED <<chan, query_senders, answer>>
  BY Zenon DEF OutboundFailure, Response, AtSelect, clientVars
<1>4. \/ UNCHANGED <<todo, request_response_senders>>
      \/ /\ request_response_senders' = request_response_senders \ {ap}
         /\ \/ todo' = <<>>
            \/ /\ ap \in request_response_senders
               /\ \E m \in Message : todo' = <<Answer(a, m)>>
  BY Zenon, <1>2 DEF OutboundFailure, Response, Message
<1>5. CASE todo' = <<>>
  <2>1. todo' \in Seq(Job) /\ Range(todo') = {}
    <3>1. <<>> \in Seq(Job) /\ DOMAIN <<>> = {}
      OBVIOUS
    <3> QED
      BY Zenon, <1>5, <3>1 DEF Range
  <2>2. \A x \in Asker : Cardinality(Requests(x)') <= Cardinality(Requests(x))
    <3>1. CASE UNCHANGED request_response_senders
      BY Zenon, <3>1, NoneGainedHere
    <3>2. CASE request_response_senders' = request_response_senders \ {ap}
      BY Zenon, <3>2, RequestDone
    <3> QED
      BY Zenon, <1>3, <1>4, <3>1, <3>2
  <2> QED
    BY Zenon, <1>3, <2>1, <2>2, QuietSenders
<1>6. ASSUME request_response_senders' = request_response_senders \ {ap},
             ap \in request_response_senders, NEW m \in Message, todo' = <<Answer(a, m)>>
      PROVE \A x \in Asker : KeepsSenders(x)
  <2>1. /\ Cardinality(Requests(a)') + 1 <= Cardinality(Requests(a))
        /\ \A x \in Asker : x # a => Cardinality(Requests(x)') <= Cardinality(Requests(x))
    BY Zenon, <1>6, RequestDone
  <2>2. InQuery(a)' <= InQuery(a) /\ query_senders' \subseteq query_senders
    BY Zenon, <1>3, NoneGainedHere
  <2> QED
    BY Zenon, <1>3, <1>6, <2>1, <2>2, AnswerSenders
<1> QED
  BY Zenon, <1>3, <1>4, <1>5, <1>6

\* A peer asks: for what the database does not have, the handler asks in turn.
LEMMA RequestSenders ==
    ASSUME IInv, IInv', NEW p \in Requester, NEW w \in Workflow \union {"unsupported"}, Request(p, w)
    PROVE \A x \in Asker : KeepsSenders(x)
<1> USE InvParts
<1>1. todo = <<>> /\ served[p] = "none" /\ UNCHANGED <<chan, netVars, answer>>
  BY Zenon DEF Request, AtSelect
<1>2. UNCHANGED <<query_senders, request_response_senders>>
  BY Zenon, <1>1 DEF netVars
<1>3. \A x \in Asker : /\ InChan(x)' <= InChan(x) /\ InQuery(x)' <= InQuery(x)
                       /\ Cardinality(Requests(x)') <= Cardinality(Requests(x))
                       /\ Len(answer'[x]) <= Len(answer[x])
                       /\ Range(chan') \subseteq Range(chan)
  BY Zenon, <1>1, <1>2, NoneGainedHere
<1>4. CASE w = "unsupported" \/ w \in workflows
  <2>1. PICK j \in Job : todo' = <<j>> /\ j.do = "respond"
    <3>1. \A m \in {"Unsupported", "info"} : Respond(p, m) \in Job /\ Respond(p, m).do = "respond"
      BY Zenon, JobsMade DEF Reply, Respond
    <3> QED
      BY Zenon, <1>4, <3>1 DEF Request
  <2>2. todo' \in Seq(Job) /\ Range(todo') = {j}
    BY Zenon, <2>1, OneJob
  <2>3. \A i \in Range(todo') : \A x : ~ JobCarries(i, x)
    BY Zenon, <2>1, <2>2 DEF JobCarries
  <2> QED
    BY Zenon, <1>1, <1>2, <1>3, <2>2, <2>3, QuietSenders
<1>5. CASE ~ (w = "unsupported" \/ w \in workflows)
  <2> DEFINE a == <<p, "provider">>
             e == [type |-> "GetProviders", asker |-> a]
  <2>1. a \in Asker /\ a \in ProviderAsker /\ a[1] = p /\ p \notin Client
    <3>1. a[1] = p
      OBVIOUS
    <3> QED
      BY Zenon, <3>1, AskerFacts
  <2>2. Senders(a) = 0
    <3>1. Unasked(a)
      BY Zenon, <1>1, <2>1 DEF Unasked
    <3> QED
      BY Zenon, <2>1, <3>1, UnaskedHasNone
  <2> HIDE DEF a
  <2>3. PICK i \in Job, j \in Job :
          /\ todo' = <<i, j>> /\ j.do = "await" /\ i.do = "own" /\ \A x : Carries(i.event, x) => x = a
    <3>1. Own(e) \in Job /\ Await(p) \in Job
      BY Zenon, <2>1, EventsMade, JobsMade
    <3>2. Await(p).do = "await" /\ Own(e).do = "own" /\ \A x : Carries(Own(e).event, x) => x = a
      BY Zenon DEF Own, Await, Carries
    <3>3. todo' = <<Own(e), Await(p)>>
      BY Zenon, <1>5 DEF Request, a
    <3> HIDE DEF e
    <3> QED
      BY Zenon, <3>1, <3>2, <3>3
  <2>4. todo' \in Seq(Job) /\ DOMAIN todo' = {1, 2} /\ todo'[1] = i /\ todo'[2] = j
    <3>1. ASSUME NEW s, s = <<i, j>>
          PROVE s \in Seq(Job) /\ DOMAIN s = {1, 2} /\ s[1] = i /\ s[2] = j
      BY <3>1
    <3> QED
      BY Zenon, <2>3, <3>1
  <2>5. /\ \A k \in DOMAIN todo' : k # 1 => \A x : ~ JobCarries(todo'[k], x)
        /\ \A k \in Range(todo') : \A x : x # a => ~ JobCarries(k, x)
    BY Zenon, <2>3, <2>4 DEF JobCarries, Range
  <2>6. KeepsSenders(a)
    <3>1. InTodo(a)' <= 1
      <4>1. 1 \in DOMAIN todo'
        BY Zenon, <2>4
      <4> QED
        BY Zenon, <2>4, <2>5, <4>1, TodoBecomes
    <3>2. Senders(a)' <= 1
      BY Zenon, <1>3, <2>1, <2>2, <3>1, FirstSender
    <3> QED
      BY Zenon, <3>2 DEF KeepsSenders
  <2>7. ASSUME NEW x \in Asker, x # a
        PROVE KeepsSenders(x)
    <3>1. InTodo(x)' = 0
      BY Zenon, <2>4, <2>5, <2>7, TodoBecomes
    <3>2. InTodo(x)' <= InTodo(x)
      <4>1. \A n \in Nat : 0 <= n
        OBVIOUS
      <4> QED
        BY Zenon, <3>1, <4>1, SendersNat
    <3>3. \A k \in Range(todo') : k.do # "own" \/ ~ Carries(k.event, x)
      BY Zenon, <2>5, <2>7 DEF JobCarries
    <3> QED
      BY Zenon, <1>2, <1>3, <3>2, <3>3, NoneGained
  <2> QED
    BY Zenon, <2>6, <2>7
<1> QED
  BY Zenon, <1>4, <1>5

\* A step that touches none of the places.
LEMMA SameSenders ==
    ASSUME IInv, IInv', UNCHANGED <<chan, todo, query_senders, request_response_senders, answer>>
    PROVE \A x \in Asker : KeepsSenders(x)
BY Zenon, NoneGainedHere, NoneGained

\* The swarm's events.
LEMMA SwarmSenders ==
    ASSUME IInv, IInv', SwarmEvent
    PROVE \A x \in Asker : KeepsSenders(x)
<1>1. ASSUME NEW r, Gossip(r)
      PROVE \A x \in Asker : KeepsSenders(x)
  BY Zenon, <1>1, SameSenders DEF Gossip, netVars, clientVars
<1> QED
  BY Zenon, <1>1, QuerySenders, FoundProvidersSenders, RequestEndSenders, RequestSenders
     DEF SwarmEvent

-----------------------------------------------------------------------------
(* The theorems *)

\* Pairs with one tag are no more than what they tag.
LEMMA Tagged ==
    ASSUME NEW S, IsFiniteSet(S), NEW tag
    PROVE /\ IsFiniteSet({<<tag, x>> : x \in S})
          /\ Cardinality({<<tag, x>> : x \in S}) <= Cardinality(S)
<1> DEFINE T == {<<tag, x>> : x \in S}
           f == [x \in S |-> <<tag, x>>]
<1>1. f \in Surjection(S, T)
  BY Zenon DEF Surjection
<1> QED
  BY Zenon, <1>1, FS_Surjection

\* Four sets together hold no more than each of them does.
LEMMA FourUnion ==
    ASSUME NEW A, IsFiniteSet(A), NEW B, IsFiniteSet(B), NEW C, IsFiniteSet(C), NEW D, IsFiniteSet(D)
    PROVE /\ Cardinality(A \union B \union C \union D) \in Nat
          /\ Cardinality(A \union B \union C \union D)
                <= Cardinality(A) + Cardinality(B) + Cardinality(C) + Cardinality(D)
<1>1. ASSUME NEW S, IsFiniteSet(S), NEW T, IsFiniteSet(T)
      PROVE /\ IsFiniteSet(S \union T) /\ Cardinality(S \union T) \in Nat
            /\ Cardinality(S) \in Nat /\ Cardinality(T) \in Nat
            /\ Cardinality(S \union T) <= Cardinality(S) + Cardinality(T)
  <2>1. /\ IsFiniteSet(S \union T)
        /\ Cardinality(S \union T) = Cardinality(S) + Cardinality(T) - Cardinality(S \cap T)
    BY Zenon, <1>1, FS_Union
  <2>2. IsFiniteSet(S \cap T)
    BY Zenon, <1>1, FS_Intersection
  <2>3. /\ Cardinality(S) \in Nat /\ Cardinality(T) \in Nat /\ Cardinality(S \cap T) \in Nat
        /\ Cardinality(S \union T) \in Nat
    BY Zenon, <1>1, <2>1, <2>2, FS_CardinalityType
  <2>4. \A m, n, k, l \in Nat : l = m + n - k => l <= m + n
    OBVIOUS
  <2> QED
    BY Zenon, <2>1, <2>3, <2>4
<1> DEFINE AB == A \union B
           ABC == AB \union C
           ABCD == ABC \union D
<1>2. /\ IsFiniteSet(AB) /\ Cardinality(AB) \in Nat /\ Cardinality(A) \in Nat /\ Cardinality(B) \in Nat
      /\ Cardinality(AB) <= Cardinality(A) + Cardinality(B)
  BY Zenon, <1>1
<1> HIDE DEF AB
<1>3. /\ IsFiniteSet(ABC) /\ Cardinality(ABC) \in Nat /\ Cardinality(C) \in Nat
      /\ Cardinality(ABC) <= Cardinality(AB) + Cardinality(C)
  BY Zenon, <1>1, <1>2
<1> HIDE DEF ABC
<1>4. /\ Cardinality(ABCD) \in Nat /\ Cardinality(D) \in Nat
      /\ Cardinality(ABCD) <= Cardinality(ABC) + Cardinality(D)
  BY Zenon, <1>1, <1>3
<1> HIDE DEF ABCD
<1>5. Cardinality(ABCD) <= Cardinality(A) + Cardinality(B) + Cardinality(C) + Cardinality(D)
  BY <1>2, <1>3, <1>4
<1> QED
  BY Zenon, <1>4, <1>5 DEF AB, ABC, ABCD

\* The places counted one by one are no fewer than the holders.
LEMMA HoldersCounted ==
    ASSUME IInv, NEW a \in Asker
    PROVE /\ Cardinality(Holders(a)) + Len(answer[a]) \in Nat
          /\ Cardinality(Holders(a)) + Len(answer[a]) <= Senders(a)
<1> USE InvParts
<1> DEFINE C == Places(chan, EventsWith(a))
           T == Places(todo, JobsWith(a))
           Q == query_senders \cap {a}
           R == Requests(a)
           TC == {<<"chan", i>> : i \in C}
           TT == {<<"todo", i>> : i \in T}
           TQ == {<<"query", q>> : q \in Q}
           TR == {<<"request", ap>> : ap \in R}
<1>1. chan \in Seq(Event) /\ todo \in Seq(Job)
  BY Zenon DEF LoopType
<1>2. IsFiniteSet(C) /\ IsFiniteSet(T) /\ IsFiniteSet(R)
  BY Zenon, <1>1, PlacesFinite, SendersNat
<1>3. /\ IsFiniteSet(Q) /\ Cardinality(Q) = InQuery(a)
  <2>1. CASE a \in query_senders
    <3>1. Q = {a}
      BY Zenon, <2>1
    <3> HIDE DEF Q
    <3> QED
      BY Zenon, <2>1, <3>1, FS_Singleton DEF InQuery
  <2>2. CASE a \notin query_senders
    <3>1. Q = {}
      BY Zenon, <2>2
    <3> HIDE DEF Q
    <3> QED
      BY Zenon, <2>2, <3>1, FS_EmptySet DEF InQuery
  <2> QED
    BY Zenon, <2>1, <2>2
<1>4. Holders(a) = TC \union TT \union TQ \union TR
  <2>1. /\ {i \in DOMAIN chan : Carries(chan[i], a)} = C
        /\ {i \in DOMAIN todo : \/ todo[i].do = "answer" /\ todo[i].to = a
                                \/ todo[i].do = "own" /\ Carries(todo[i].event, a)} = T
    <3>1. (\A i \in DOMAIN chan : chan[i] \in Event) /\ (\A i \in DOMAIN todo : todo[i] \in Job)
      BY <1>1
    <3> QED
      BY Zenon, <3>1 DEF Places, EventsWith, JobsWith, JobCarries
  <2> HIDE DEF C, T
  <2> QED
    BY Zenon, <2>1 DEF Holders, Requests
<1>5. InChan(a) = Cardinality(C) /\ InTodo(a) = Cardinality(T)
  BY Zenon DEF InChan, InTodo
<1> HIDE DEF C, T, Q, R
<1>6. /\ IsFiniteSet(TC) /\ Cardinality(TC) <= Cardinality(C)
      /\ IsFiniteSet(TT) /\ Cardinality(TT) <= Cardinality(T)
      /\ IsFiniteSet(TQ) /\ Cardinality(TQ) <= Cardinality(Q)
      /\ IsFiniteSet(TR) /\ Cardinality(TR) <= Cardinality(R)
  BY Zenon, <1>2, <1>3, Tagged
<1> HIDE DEF TC, TT, TQ, TR
<1>7. /\ Cardinality(Holders(a)) \in Nat
      /\ Cardinality(Holders(a)) <= Cardinality(TC) + Cardinality(TT) + Cardinality(TQ) + Cardinality(TR)
  BY Zenon, <1>4, <1>6, FourUnion
<1>8. /\ Cardinality(C) \in Nat /\ Cardinality(T) \in Nat /\ Cardinality(Q) \in Nat
      /\ Cardinality(R) \in Nat /\ Cardinality(TC) \in Nat /\ Cardinality(TT) \in Nat
      /\ Cardinality(TQ) \in Nat /\ Cardinality(TR) \in Nat /\ Len(answer[a]) \in Nat
  BY Zenon, <1>2, <1>3, <1>6, FS_CardinalityType, SendersNat
<1>9. Senders(a) = Cardinality(C) + Cardinality(T) + Cardinality(Q) + Cardinality(R) + Len(answer[a])
  BY Zenon, <1>3, <1>5 DEF Senders, R
<1>10. /\ Cardinality(Holders(a)) + Len(answer[a]) \in Nat
       /\ Cardinality(Holders(a)) + Len(answer[a])
          <= Cardinality(C) + Cardinality(T) + Cardinality(Q) + Cardinality(R) + Len(answer[a])
  <2>1. ASSUME NEW h \in Nat, NEW l \in Nat,
               NEW c \in Nat, NEW t \in Nat, NEW q \in Nat, NEW r \in Nat,
               NEW c1 \in Nat, NEW t1 \in Nat, NEW q1 \in Nat, NEW r1 \in Nat,
               h <= c1 + t1 + q1 + r1, c1 <= c, t1 <= t, q1 <= q, r1 <= r
        PROVE h + l \in Nat /\ h + l <= c + t + q + r + l
    BY <2>1
  <2> QED
    BY Zenon, <1>6, <1>7, <1>8, <2>1
<1> QED
  BY Zenon, <1>9, <1>10

\* SendersInv is inductive, given IInv: each step moves senders, and makes several of
\* one only when a list of providers is turned into requests.
THEOREM SendersInductive == Spec => []SendersInv
<1>1. Init /\ IInv => SendersInv
  <2> SUFFICES ASSUME Init, IInv, NEW a \in Asker PROVE Senders(a) <= 1
    BY Zenon DEF SendersInv
  <2>1. pc = [c \in Client |-> "idle"] /\ served = [p \in Requester |-> "none"]
    BY Zenon DEF Init
  <2>2. Unasked(a)
    <3>1. a[1] \in Client \/ a[1] \in Requester
      BY Zenon, AskerFacts
    <3> QED
      BY Zenon, <2>1, <3>1 DEF Unasked
  <2>3. Senders(a) = 0
    BY Zenon, <2>2, UnaskedHasNone
  <2>4. 0 <= 1
    OBVIOUS
  <2> QED
    BY Zenon, <2>3, <2>4
<1>2. IInv /\ IInv' /\ SendersInv /\ [Next]_vars => SendersInv'
  <2> SUFFICES ASSUME IInv, IInv', SendersInv, [Next]_vars PROVE SendersInv'
    OBVIOUS
  <2>1. CASE UNCHANGED vars
    BY Zenon, <2>1, SameSenders, SendersFrame DEF vars, netVars, clientVars
  <2> QED
    BY Zenon, <2>1, LocalSenders, HandleEventSenders, StepSenders, SwarmSenders, SendersFrame DEF Next
<1> QED
  BY <1>1, <1>2, HandlerInductive, PTL DEF Spec

\* The sender of an answer is never kept behind: in no interleaving of clients, peers
\* and the network has a DHT query more than one place that can still send its
\* answer, nor a provider query more than one for each peer.
THEOREM SendersNeverKept == Spec => []OneSender
<1>1. IInv /\ SendersInv => OneSender
  <2> SUFFICES ASSUME IInv, SendersInv, NEW a \in Asker,
                      NEW n, n = Cardinality(Holders(a)) + Len(answer[a])
               PROVE n <= 1 \/ (a[2] = "provider" /\ n <= Cardinality(Peer))
    BY Zenon DEF OneSender
  <2>1. n \in Nat /\ n <= Senders(a) /\ Senders(a) \in Nat
    BY Zenon, HoldersCounted, SendersNat
  <2>2. Senders(a) <= 1 \/ (a[2] = "provider" /\ Senders(a) <= Cardinality(Peer))
    BY Zenon DEF SendersInv
  <2>3. Cardinality(Peer) \in Nat
    BY Zenon, HandlerAssumption, FS_CardinalityType
  <2>4. \A m, l, k \in Nat : m <= l /\ l <= k => m <= k
    OBVIOUS
  <2>5. 1 \in Nat
    OBVIOUS
  <2> QED
    BY Zenon, <2>1, <2>2, <2>3, <2>4, <2>5
<1> QED
  BY <1>1, HandlerInductive, SendersInductive, PTL
=============================================================================
