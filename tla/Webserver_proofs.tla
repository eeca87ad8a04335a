--------------------------- MODULE Webserver_proofs ---------------------------
(***************************************************************************)
(* Proofs that a subscriber of the web server gets exactly the messages of *)
(* its own run, and that only runs that were started are listened to, for  *)
(* any clients, any number of messages and any capacity of the channels.   *)
(***************************************************************************)
EXTENDS Webserver, SequenceTheorems, TLAPS

\* What the runner acknowledged it has started, and only then is a client
\* accepted.
AckedIsRunning ==
    \A c \in RunClient :
        reply[c] = "AckWorkflow" \/ pc[c] \in {"accepting", "accepted", "subscribed"}
            => c \in running

\* A client that is served is listed, and it is listed with its own run.
ListedWithOwnRun ==
    /\ \A s \in RunClient : pc[s] \in {"accepted", "subscribed"} => s \in DOMAIN workflow_listeners
    /\ \A s \in DOMAIN workflow_listeners : workflow_listeners[s] = <<Cid[s], Name[s]>>

\* Nothing is sent before the subscription.
NothingBefore ==
    \A s \in Subscriber : pc[s] \in {"idle", "waiting", "accepting", "accepted"} =>
        received[s] = <<>> /\ sink[s] = <<>>

IInv ==
    /\ TypeOK
    /\ AckedIsRunning /\ ListenedIsRunning /\ ListedWithOwnRun
    /\ NothingBefore /\ DeliveredExactly

-----------------------------------------------------------------------------
(* What Exactly says of the next message, and of a broadcast that grows. *)

\* Nothing has been received of an empty stretch of the broadcast.
LEMMA ExactlyNothing ==
    ASSUME NEW l, NEW h, NEW p \in Nat, NEW drop
    PROVE Exactly(<<>> \o <<>>, l, h, p, p, drop)
BY DEF Exactly, Range

\* A message that is for the client and goes to the sink extends what it gets.
LEMMA ExactlyTaken ==
    ASSUME NEW d \in Seq(Nat), NEW l, NEW h, NEW f \in Nat, NEW p \in Nat, f <= p,
           NEW drop, drop \subseteq 1..p, Exactly(d, l, h, f, p, drop), l[p + 1] = h
    PROVE Exactly(Append(d, p + 1), l, h, f, p + 1, drop)
<1> DEFINE e == Append(d, p + 1)
<1>1. /\ e \in Seq(Nat) /\ DOMAIN e = 1..(Len(d) + 1) /\ DOMAIN d = 1..Len(d) /\ Len(d) \in Nat
      /\ e[Len(d) + 1] = p + 1 /\ \A i \in DOMAIN d : e[i] = d[i]
  OBVIOUS
<1>2. Range(e) = Range(d) \union {p + 1}
  <2>1. \A i \in DOMAIN e : i \in DOMAIN d \/ i = Len(d) + 1
    BY <1>1
  <2>2. \A i \in DOMAIN d : i \in DOMAIN e
    BY <1>1
  <2>3. Len(d) + 1 \in DOMAIN e
    BY <1>1
  <2> HIDE DEF e
  <2> QED
    BY Zenon, <1>1, <2>1, <2>2, <2>3 DEF Range
<1>3. {i \in (f + 1)..(p + 1) : l[i] = h /\ i \notin drop}
        = {i \in (f + 1)..p : l[i] = h /\ i \notin drop} \union {p + 1}
  OBVIOUS
<1>4. \A i \in DOMAIN d : d[i] \in Nat /\ d[i] <= p
  <2>1. \A i \in DOMAIN d : d[i] \in {j \in (f + 1)..p : l[j] = h /\ j \notin drop}
    BY DEF Exactly, Range
  <2> QED
    BY <2>1
<1>5. ASSUME NEW i \in DOMAIN e, NEW j \in DOMAIN e, i < j
      PROVE e[i] < e[j]
  <2>1. i \in DOMAIN d
    BY <1>1, <1>5
  <2>2. CASE j = Len(d) + 1
    BY <1>1, <1>4, <2>1, <2>2
  <2>3. CASE j # Len(d) + 1
    <3>1. j \in DOMAIN d
      BY <1>1, <2>3
    <3> QED
      BY <1>1, <1>5, <2>1, <3>1 DEF Exactly
  <2> QED
    BY <2>2, <2>3
<1> QED
  BY <1>2, <1>3, <1>5 DEF Exactly

\* A message that is for another is passed over.
LEMMA ExactlySkipped ==
    ASSUME NEW d, NEW l, NEW h, NEW f \in Nat, NEW p \in Nat, f <= p, NEW drop,
           Exactly(d, l, h, f, p, drop), l[p + 1] # h
    PROVE Exactly(d, l, h, f, p + 1, drop)
<1>1. {i \in (f + 1)..(p + 1) : l[i] = h /\ i \notin drop}
        = {i \in (f + 1)..p : l[i] = h /\ i \notin drop}
  OBVIOUS
<1> QED
  BY Zenon, <1>1 DEF Exactly

\* A message that finds the sink full is counted as dropped.
LEMMA ExactlyDropped ==
    ASSUME NEW d, NEW l, NEW h, NEW f \in Nat, NEW p \in Nat, f <= p, NEW drop,
           Exactly(d, l, h, f, p, drop)
    PROVE Exactly(d, l, h, f, p + 1, drop \union {p + 1})
<1>1. {i \in (f + 1)..(p + 1) : l[i] = h /\ i \notin drop \union {p + 1}}
        = {i \in (f + 1)..p : l[i] = h /\ i \notin drop}
  OBVIOUS
<1> QED
  BY Zenon, <1>1 DEF Exactly

\* What is broadcast later does not change what was got so far.
LEMMA ExactlyLater ==
    ASSUME NEW H, NEW l \in Seq(H), NEW x \in H, NEW d, NEW h, NEW f \in Nat, NEW p \in Nat,
           p <= Len(l), NEW drop, Exactly(d, l, h, f, p, drop)
    PROVE Exactly(d, Append(l, x), h, f, p, drop)
<1>1. \A i \in (f + 1)..p : Append(l, x)[i] = l[i]
  OBVIOUS
<1>2. {i \in (f + 1)..p : Append(l, x)[i] = h /\ i \notin drop}
        = {i \in (f + 1)..p : l[i] = h /\ i \notin drop}
  BY Zenon, <1>1
<1> QED
  BY Zenon, <1>2 DEF Exactly

\* Concatenation is associative: said of one set of elements, for the provers.
Associative(S) ==
    \A a \in Seq(S) : \A b \in Seq(S) : \A c \in Seq(S) : (a \o b) \o c = a \o (b \o c)

\* It is, for the numbers of messages.
LEMMA NumbersAssociative == Associative(Nat)
<1>1. \A S : Associative(S)
  BY Zenon, ConcatAssociative DEF Associative
<1> QED
  BY Zenon, <1>1

\* The client's read moves the head of the sink to what it has received.
LEMMA ReadKeeps ==
    ASSUME NEW a \in Seq(Nat), NEW b \in Seq(Nat), b # <<>>
    PROVE Append(a, Head(b)) \o Tail(b) = a \o b
<1>1. Head(b) \in Nat /\ Tail(b) \in Seq(Nat) /\ <<Head(b)>> \in Seq(Nat)
  OBVIOUS
<1>2. b = <<Head(b)>> \o Tail(b)
  OBVIOUS
<1>3. Append(a, Head(b)) = a \o <<Head(b)>>
  BY Zenon, <1>1, AppendIsConcat
<1>4. (a \o <<Head(b)>>) \o Tail(b) = a \o (<<Head(b)>> \o Tail(b))
  BY Zenon, <1>1, NumbersAssociative DEF Associative
<1> QED
  BY Zenon, <1>2, <1>3, <1>4

\* A message sent to the sink comes after all that was sent before.
LEMMA AppendToSink ==
    ASSUME NEW a \in Seq(Nat), NEW b \in Seq(Nat), NEW x \in Nat
    PROVE a \o Append(b, x) = Append(a \o b, x)
<1>1. <<x>> \in Seq(Nat) /\ a \o b \in Seq(Nat)
  OBVIOUS
<1>2. Append(b, x) = b \o <<x>> /\ Append(a \o b, x) = (a \o b) \o <<x>>
  BY Zenon, <1>1, AppendIsConcat
<1>3. (a \o b) \o <<x>> = a \o (b \o <<x>>)
  BY Zenon, <1>1, NumbersAssociative DEF Associative
<1> QED
  BY Zenon, <1>2, <1>3

-----------------------------------------------------------------------------
(* Type correctness *)

\* Every control point of a request or subscription task.
Control ==
    {"idle", "waiting", "accepting", "accepted", "subscribed", "ended", "done", "rejected"}

\* What the listed runs are after the end of a task.
LEMMA WithoutOne ==
    ASSUME NEW f, NEW a, NEW g, g = Without(f, a)
    PROVE DOMAIN g = (DOMAIN f) \ {a} /\ \A x \in DOMAIN g : g[x] = f[x]
BY Zenon DEF Without

\* The kinds of client, for the provers.
LEMMA Kinds ==
    /\ RunClient \subseteq Subscriber /\ EventClient \subseteq Subscriber
    /\ Subscriber \subseteq Client /\ Asking \subseteq Client
    /\ RunClient \subseteq Asking /\ NodeClient \subseteq Asking
    /\ \A c \in Asking : c \in RunClient \/ c \in NodeClient
    /\ \A s \in Subscriber : s \in RunClient \/ s \in EventClient
    /\ \A s \in Subscriber : ChannelOf(s) \in Channel
BY Zenon DEF Subscriber, Client, Asking, ChannelOf, Channel

\* The end of a task keeps the types.
LEMMA EndTaskType ==
    ASSUME TypeOK, NEW s \in Subscriber, EndTask(s),
           UNCHANGED <<runnerVars, log, received, closed>>
    PROVE TypeOK'
<1>1. pc' \in [Client -> Control]
  <2>1. pc \in [Client -> Control] /\ s \in Client
    BY Zenon, Kinds DEF TypeOK, Control
  <2> QED
    BY Zenon, <2>1 DEF EndTask, Set, Control
<1>2. DOMAIN workflow_listeners' \subseteq RunClient
  <2>1. DOMAIN workflow_listeners' = (DOMAIN workflow_listeners) \ {s}
    BY Zenon, WithoutOne DEF EndTask
  <2> QED
    BY Zenon, <2>1 DEF TypeOK
<1> QED
  BY Zenon, <1>1, <1>2 DEF EndTask, TypeOK, Control, runnerVars

\* So does a message that is passed over, sent to the sink or dropped.
LEMMA DeliverType ==
    ASSUME TypeOK, NEW s \in Subscriber, pos[s] < Len(log[ChannelOf(s)]), Deliver(s),
           UNCHANGED <<runnerVars, log, received, closed>>
    PROVE TypeOK'
<1>1. /\ pos[s] \in Nat /\ sink[s] \in Seq(Nat) /\ log[ChannelOf(s)] \in Seq(Header)
      /\ first[s] \in Nat /\ first[s] <= pos[s] /\ dropped[s] \subseteq 1..pos[s]
      /\ Len(sink[s]) <= Capacity /\ Capacity \in Nat
      /\ pos \in [Subscriber -> Nat] /\ sink \in [Subscriber -> Seq(Nat)]
  BY Zenon, Kinds, WebserverAssumption DEF TypeOK
<1>2. /\ pos[s] + 1 \in Nat /\ first[s] <= pos[s] + 1 /\ pos[s] + 1 <= Len(log[ChannelOf(s)])
      /\ 1..pos[s] \subseteq 1..(pos[s] + 1) /\ pos[s] + 1 \in 1..(pos[s] + 1)
  BY <1>1
<1>3. pos' = Set(pos, s, pos[s] + 1)
  BY Zenon DEF Deliver
<1>4. /\ pos' \in [Subscriber -> Nat] /\ pos'[s] = pos[s] + 1
      /\ \A x \in Subscriber : x # s => pos'[x] = pos[x]
  BY <1>1, <1>2, <1>3 DEF Set
<1>5. \/ UNCHANGED <<sink, dropped>>
      \/ /\ Len(sink[s]) < Capacity /\ UNCHANGED dropped
         /\ sink' = Set(sink, s, Append(sink[s], pos[s] + 1))
      \/ /\ UNCHANGED sink
         /\ dropped' = Set(dropped, s, dropped[s] \union {pos[s] + 1})
  BY Zenon DEF Deliver
<1>6. /\ sink' \in [Subscriber -> Seq(Nat)]
      /\ \A x \in Subscriber : Len(sink'[x]) <= Capacity
  <2>1. CASE UNCHANGED sink
    BY Zenon, <2>1 DEF TypeOK
  <2>2. CASE Len(sink[s]) < Capacity /\ sink' = Set(sink, s, Append(sink[s], pos[s] + 1))
    <3>1. Append(sink[s], pos[s] + 1) \in Seq(Nat) /\ Len(Append(sink[s], pos[s] + 1)) <= Capacity
      BY <1>1, <1>2, <2>2
    <3>2. /\ sink' \in [Subscriber -> Seq(Nat)] /\ sink'[s] = Append(sink[s], pos[s] + 1)
          /\ \A x \in Subscriber : x # s => sink'[x] = sink[x]
      BY <1>1, <2>2, <3>1 DEF Set
    <3> QED
      BY Zenon, <3>1, <3>2 DEF TypeOK
  <2> QED
    BY Zenon, <1>5, <2>1, <2>2
<1>7. /\ DOMAIN dropped' = Subscriber
      /\ \A x \in Subscriber : dropped'[x] \subseteq 1..pos'[x]
  <2>1. CASE UNCHANGED dropped
    BY Zenon, <1>1, <1>2, <1>4, <2>1 DEF TypeOK
  <2>2. CASE dropped' = Set(dropped, s, dropped[s] \union {pos[s] + 1})
    <3>1. /\ DOMAIN dropped' = Subscriber /\ dropped'[s] = dropped[s] \union {pos[s] + 1}
          /\ \A x \in Subscriber : x # s => dropped'[x] = dropped[x]
      BY Zenon, <2>2 DEF TypeOK, Set
    <3> QED
      BY Zenon, <1>1, <1>2, <1>4, <3>1 DEF TypeOK
  <2> QED
    BY Zenon, <1>5, <2>1, <2>2
<1>8. \A x \in Subscriber : first[x] <= pos'[x] /\ pos'[x] <= Len(log[ChannelOf(x)])
  BY Zenon, <1>2, <1>4 DEF TypeOK
<1> QED
  BY Zenon, <1>4, <1>6, <1>7, <1>8 DEF Deliver, TypeOK, runnerVars, ChannelOf

\* Every step keeps the types.
LEMMA TypeStep == TypeOK /\ [Next]_vars => TypeOK'
<1> SUFFICES ASSUME TypeOK, [Next]_vars
             PROVE TypeOK'
  OBVIOUS
<1>0. /\ pc \in [Client -> Control] /\ queue \in Seq(Asking) /\ log \in [Channel -> Seq(Header)]
      /\ reply \in [Asking -> {"none", "AckWorkflow", "RunErr", "AckNodeInfo"}]
      /\ runner \in NodeClient \union {"loop"} /\ running \subseteq RunClient
  BY Zenon DEF TypeOK, Control
<1>1. CASE RunnerTakes
  <2>1. Head(queue) \in Asking /\ Tail(queue) \in Seq(Asking)
    <3>1. queue # <<>>
      BY Zenon, <1>1 DEF RunnerTakes
    <3> QED
      BY <1>0, <3>1
  <2>2. queue' \in Seq(Asking)
    BY Zenon, <1>1, <2>1 DEF RunnerTakes
  <2>3. CASE Head(queue) \in RunClient
    <3>1. PICK ok \in BOOLEAN : RunWorkflow(Head(queue), ok)
      BY Zenon, <1>1, <2>3 DEF RunnerTakes
    <3>2. running' \subseteq RunClient
      BY Zenon, <1>0, <2>3, <3>1 DEF RunWorkflow
    <3>3. reply' \in [Asking -> {"none", "AckWorkflow", "RunErr", "AckNodeInfo"}]
      BY <1>0, <2>1, <3>1 DEF RunWorkflow, Set
    <3> QED
      BY Zenon, <1>1, <2>2, <3>1, <3>2, <3>3 DEF RunnerTakes, RunWorkflow, TypeOK, subVars
  <2>4. CASE Head(queue) \notin RunClient
    <3>1. runner' \in NodeClient \union {"loop"}
      BY Zenon, <1>1, <2>1, <2>4, Kinds DEF RunnerTakes
    <3> QED
      BY Zenon, <1>1, <2>2, <2>4, <3>1 DEF RunnerTakes, TypeOK, subVars
  <2> QED
    BY Zenon, <2>3, <2>4
<1>2. CASE RunnerAcksNode
  <2>1. runner \in Asking
    BY Zenon, <1>0, <1>2, Kinds DEF RunnerAcksNode
  <2>2. reply' \in [Asking -> {"none", "AckWorkflow", "RunErr", "AckNodeInfo"}]
    BY <1>0, <1>2, <2>1 DEF RunnerAcksNode, Set
  <2> QED
    BY Zenon, <1>2, <2>2 DEF RunnerAcksNode, TypeOK, subVars
<1>3. CASE EmitReceipt \/ EmitEvent
  <2>1. PICK channel \in Channel, header \in Header : Emit(channel, header)
    BY Zenon, <1>0, <1>3 DEF EmitReceipt, EmitEvent, Channel, Header
  <2>2. log' \in [Channel -> Seq(Header)] /\ \A c \in Channel : Len(log[c]) <= Len(log'[c])
    <3>1. log' = [log EXCEPT ![channel] = Append(log[channel], header)]
      BY Zenon, <2>1 DEF Emit
    <3>2. log[channel] \in Seq(Header)
      BY Zenon, <1>0
    <3>3. /\ Append(log[channel], header) \in Seq(Header)
          /\ Len(log[channel]) <= Len(Append(log[channel], header))
      BY <3>2
    <3>4. \A c \in Channel : Len(log[c]) \in Nat
      BY <1>0
    <3> QED
      BY <1>0, <3>1, <3>3, <3>4
  <2>3. \A x \in Subscriber : pos[x] <= Len(log'[ChannelOf(x)])
    <3> SUFFICES ASSUME NEW x \in Subscriber
                 PROVE pos[x] <= Len(log'[ChannelOf(x)])
      OBVIOUS
    <3> DEFINE c == ChannelOf(x)
    <3>1. c \in Channel /\ pos[x] \in Nat /\ pos[x] <= Len(log[c])
      BY Zenon, Kinds DEF TypeOK
    <3>2. log[c] \in Seq(Header) /\ log'[c] \in Seq(Header) /\ Len(log[c]) <= Len(log'[c])
      BY Zenon, <1>0, <2>2, <3>1
    <3> HIDE DEF c
    <3>3. pos[x] <= Len(log'[c])
      BY <3>1, <3>2
    <3> QED
      BY <3>3 DEF c
  <2> QED
    BY Zenon, <2>1, <2>2, <2>3 DEF Emit, TypeOK, subVars, runnerVars, ChannelOf
<1>4. ASSUME NEW c \in Client, Call(c)
      PROVE TypeOK'
  <2>1. pc' \in [Client -> Control]
    <3>1. PICK v \in {"waiting", "rejected", "accepting"} : pc' = Set(pc, c, v)
      BY Zenon, <1>4 DEF Call
    <3> QED
      BY <1>0, <3>1 DEF Set, Control
  <2>2. queue' \in Seq(Asking)
    <3>1. CASE c \in Asking /\ queue' = Append(queue, c)
      BY <1>0, <3>1
    <3> QED
      BY Zenon, <1>0, <1>4, <3>1 DEF Call
  <2> QED
    BY Zenon, <1>4, <2>1, <2>2 DEF Call, TypeOK, Control, subVars
<1>5. ASSUME NEW c \in Asking, Request(c)
      PROVE TypeOK'
  <2>1. PICK v \in {"accepting", "done", "rejected"} : pc' = Set(pc, c, v)
    BY <1>5 DEF Request, Answered, Deadline
  <2>2. pc' \in [Client -> Control]
    BY <1>0, <2>1, Kinds DEF Set, Control
  <2> QED
    BY Zenon, <1>5, <2>2 DEF Request, Answered, Deadline, TypeOK, Control, subVars, runnerVars
<1>6. ASSUME NEW s \in Subscriber, Accept(s)
      PROVE TypeOK'
  <2>1. pc' \in [Client -> Control]
    <3>1. PICK v \in {"ended", "accepted"} : pc' = Set(pc, s, v)
      BY Zenon, <1>6 DEF Accept
    <3> QED
      BY <1>0, <3>1, Kinds DEF Set, Control
  <2>2. DOMAIN workflow_listeners' \subseteq RunClient
    <3>1. \/ UNCHANGED workflow_listeners
          \/ s \in RunClient /\ DOMAIN workflow_listeners' = {s} \union DOMAIN workflow_listeners
      BY <1>6, Kinds DEF Accept
    <3> QED
      BY Zenon, <3>1 DEF TypeOK
  <2> QED
    BY Zenon, <1>6, <2>1, <2>2 DEF Accept, TypeOK, Control, runnerVars
<1>7. ASSUME NEW s \in Subscriber, Subscribe(s)
      PROVE TypeOK'
  <2> DEFINE n == Len(log[ChannelOf(s)])
  <2>1. /\ pc' = Set(pc, s, "subscribed") /\ first' = Set(first, s, n) /\ pos' = Set(pos, s, n)
        /\ UNCHANGED <<log, sink, dropped>>
    BY Zenon, <1>7 DEF Subscribe
  <2>2. /\ log[ChannelOf(s)] \in Seq(Header) /\ pos[s] \in Nat /\ pos[s] <= n
        /\ dropped[s] \subseteq 1..pos[s]
        /\ first \in [Subscriber -> Nat] /\ pos \in [Subscriber -> Nat] /\ s \in Client
        /\ \A x \in Subscriber : /\ first[x] <= pos[x] /\ pos[x] <= Len(log[ChannelOf(x)])
                                 /\ dropped[x] \subseteq 1..pos[x]
    BY Zenon, Kinds DEF TypeOK
  <2>3. n \in Nat
    BY <2>2
  <2> HIDE DEF n
  <2>4. n <= n /\ 1..pos[s] \subseteq 1..n
    BY <2>2, <2>3
  <2>5. pc' \in [Client -> Control]
    BY <1>0, <2>1, <2>2 DEF Set, Control
  <2>6. /\ first' \in [Subscriber -> Nat] /\ first'[s] = n
        /\ \A x \in Subscriber : x # s => first'[x] = first[x]
        /\ pos' \in [Subscriber -> Nat] /\ pos'[s] = n
        /\ \A x \in Subscriber : x # s => pos'[x] = pos[x]
    BY <2>1, <2>2, <2>3 DEF Set
  <2>7. \A x \in Subscriber : /\ first'[x] <= pos'[x] /\ pos'[x] <= Len(log[ChannelOf(x)])
                              /\ dropped[x] \subseteq 1..pos'[x]
    BY Zenon, <2>2, <2>4, <2>6 DEF n
  <2> QED
    BY Zenon, <1>7, <2>5, <2>6, <2>7 DEF Subscribe, TypeOK, Control, runnerVars, ChannelOf
<1>8. ASSUME NEW s \in Subscriber, SinkClosed(s) \/ NextMessage(s)
      PROVE TypeOK'
  BY Zenon, <1>8, EndTaskType, DeliverType DEF SinkClosed, NextMessage
<1>9. ASSUME NEW s \in Subscriber, Read(s)
      PROVE TypeOK'
  <2>1. /\ sink[s] # <<>> /\ sink' = Set(sink, s, Tail(sink[s]))
        /\ received' = Set(received, s, Append(received[s], Head(sink[s])))
    BY Zenon, <1>9 DEF Read
  <2>2. /\ sink \in [Subscriber -> Seq(Nat)] /\ received \in [Subscriber -> Seq(Nat)]
        /\ \A x \in Subscriber : Len(sink[x]) <= Capacity
        /\ Capacity \in Nat
    BY Zenon, WebserverAssumption DEF TypeOK
  <2>3. sink[s] \in Seq(Nat) /\ received[s] \in Seq(Nat) /\ Len(sink[s]) <= Capacity
    BY Zenon, <2>2
  <2>4. /\ Tail(sink[s]) \in Seq(Nat) /\ Len(Tail(sink[s])) <= Capacity
        /\ Append(received[s], Head(sink[s])) \in Seq(Nat)
    BY <2>1, <2>2, <2>3
  <2>5. /\ sink' \in [Subscriber -> Seq(Nat)] /\ received' \in [Subscriber -> Seq(Nat)]
        /\ \A x \in Subscriber : Len(sink'[x]) <= Capacity
    BY Zenon, <2>1, <2>2, <2>4 DEF Set
  <2> QED
    BY Zenon, <1>9, <2>5 DEF Read, TypeOK, runnerVars
<1>10. ASSUME NEW s \in Subscriber, Close(s)
       PROVE TypeOK'
  BY Zenon, <1>10 DEF Close, TypeOK, runnerVars, subVars
<1>11. CASE UNCHANGED vars
  BY Zenon, <1>11 DEF vars, TypeOK, runnerVars, subVars
<1> QED
  BY Zenon, <1>1, <1>2, <1>3, <1>4, <1>5, <1>6, <1>7, <1>8, <1>9, <1>10, <1>11 DEF Next, Task

-----------------------------------------------------------------------------
(* The runs that are listened to *)

\* The part of the invariant about runs and their listeners.
Runs == AckedIsRunning /\ ListenedIsRunning /\ ListedWithOwnRun

\* The end of a task only takes a run off the list.
LEMMA EndTaskRuns ==
    ASSUME TypeOK, Runs, NEW s \in Subscriber, EndTask(s), UNCHANGED runnerVars
    PROVE Runs'
<1>1. /\ DOMAIN workflow_listeners' = (DOMAIN workflow_listeners) \ {s}
      /\ \A x \in DOMAIN workflow_listeners' : workflow_listeners'[x] = workflow_listeners[x]
  <2>1. workflow_listeners' = Without(workflow_listeners, s)
    BY Zenon DEF EndTask
  <2> QED
    BY <2>1 DEF Without
<1>2. pc'[s] = "ended" /\ \A x \in Client : x # s => pc'[x] = pc[x]
  BY Kinds DEF EndTask, TypeOK, Set
<1>3. AckedIsRunning'
  BY Zenon, <1>2, Kinds DEF Runs, AckedIsRunning, runnerVars
<1>4. ListenedIsRunning'
  BY Zenon, <1>1 DEF Runs, ListenedIsRunning, runnerVars
<1>5. ListedWithOwnRun'
  BY Zenon, <1>1, <1>2, Kinds DEF Runs, ListedWithOwnRun
<1> QED
  BY Zenon, <1>3, <1>4, <1>5 DEF Runs

\* A run is listed after its acknowledgement, and off the list once its task has
\* ended: every step keeps what is said of the runs.
LEMMA RunsStep == TypeOK /\ Runs /\ [Next]_vars => Runs'
<1> SUFFICES ASSUME TypeOK, Runs, [Next]_vars
             PROVE Runs'
  OBVIOUS
<1>0. /\ pc \in [Client -> Control] /\ queue \in Seq(Asking)
      /\ reply \in [Asking -> {"none", "AckWorkflow", "RunErr", "AckNodeInfo"}]
      /\ runner \in NodeClient \union {"loop"}
  BY Zenon DEF TypeOK, Control
<1>1. CASE RunnerTakes
  <2>1. CASE Head(queue) \in RunClient
    <3>1. PICK ok \in BOOLEAN : RunWorkflow(Head(queue), ok)
      BY Zenon, <1>1, <2>1 DEF RunnerTakes
    <3>2. \A x \in Asking : x # Head(queue) => reply'[x] = reply[x]
      BY <1>0, <2>1, <3>1, Kinds DEF RunWorkflow, Set
    <3>3. running \subseteq running'
      BY Zenon, <3>1 DEF RunWorkflow
    <3>4. reply'[Head(queue)] = "AckWorkflow" => Head(queue) \in running'
      BY <1>0, <2>1, <3>1, Kinds DEF RunWorkflow, Set
    <3>5. UNCHANGED <<pc, workflow_listeners>>
      BY Zenon, <1>1 DEF RunnerTakes, subVars
    <3> QED
      BY Zenon, <3>2, <3>3, <3>4, <3>5, Kinds
         DEF Runs, AckedIsRunning, ListenedIsRunning, ListedWithOwnRun
  <2>2. CASE Head(queue) \notin RunClient
    BY Zenon, <1>1, <2>2
       DEF RunnerTakes, Runs, AckedIsRunning, ListenedIsRunning, ListedWithOwnRun, subVars
  <2> QED
    BY Zenon, <2>1, <2>2
<1>2. CASE RunnerAcksNode
  <2>1. \A x \in Asking : x # runner => reply'[x] = reply[x]
    BY Zenon, <1>0, <1>2 DEF RunnerAcksNode, Set
  <2>2. runner \notin RunClient
    BY Zenon, <1>0, <1>2, WebserverAssumption DEF RunnerAcksNode
  <2> QED
    BY Zenon, <1>2, <2>1, <2>2, Kinds
       DEF RunnerAcksNode, Runs, AckedIsRunning, ListenedIsRunning, ListedWithOwnRun, subVars
<1>3. CASE EmitReceipt \/ EmitEvent
  BY Zenon, <1>3 DEF EmitReceipt, EmitEvent, Emit, Runs, AckedIsRunning, ListenedIsRunning,
                     ListedWithOwnRun, subVars, runnerVars
<1>4. ASSUME NEW c \in Client, Call(c)
      PROVE Runs'
  <2>1. PICK v \in {"waiting", "rejected", "accepting"} :
          pc' = Set(pc, c, v) /\ (v = "accepting" => c \in EventClient)
    BY <1>4 DEF Call
  <2>2. pc'[c] = v /\ \A x \in Client : x # c => pc'[x] = pc[x]
    BY Zenon, <1>0, <2>1 DEF Set
  <2>3. \A x \in RunClient : pc'[x] \in {"accepting", "accepted", "subscribed"} => pc'[x] = pc[x]
    BY <2>1, <2>2, Kinds, WebserverAssumption
  <2> QED
    BY Zenon, <1>4, <2>3
       DEF Call, Runs, AckedIsRunning, ListenedIsRunning, ListedWithOwnRun, subVars
<1>5. ASSUME NEW c \in Asking, Request(c)
      PROVE Runs'
  <2>1. PICK v \in {"accepting", "done", "rejected"} :
          pc' = Set(pc, c, v) /\ (v = "accepting" => reply[c] = "AckWorkflow")
    BY <1>5 DEF Request, Answered, Deadline
  <2>2. pc'[c] = v /\ \A x \in Client : x # c => pc'[x] = pc[x]
    BY Zenon, <1>0, <2>1, Kinds DEF Set
  <2>3. \A x \in RunClient : /\ pc'[x] \in {"accepted", "subscribed"} => pc'[x] = pc[x]
                             /\ pc'[x] = "accepting" => pc'[x] = pc[x] \/ reply[x] = "AckWorkflow"
    BY <2>1, <2>2, Kinds
  <2>4. UNCHANGED <<runnerVars, workflow_listeners>>
    BY Zenon, <1>5 DEF Request, Answered, Deadline, subVars
  <2> QED
    BY Zenon, <2>3, <2>4 DEF Runs, AckedIsRunning, ListenedIsRunning, ListedWithOwnRun, runnerVars
<1>6. ASSUME NEW s \in Subscriber, Accept(s)
      PROVE Runs'
  <2>1. CASE s \in closed
    <3>1. pc'[s] = "ended" /\ \A x \in Client : x # s => pc'[x] = pc[x]
      BY <1>0, <1>6, <2>1, Kinds DEF Accept, Set
    <3> QED
      BY Zenon, <1>6, <2>1, <3>1, Kinds DEF Accept, Runs, AckedIsRunning, ListenedIsRunning,
                                            ListedWithOwnRun, runnerVars
  <2>2. CASE s \notin closed
    <3>1. pc[s] = "accepting" /\ pc'[s] = "accepted" /\ \A x \in Client : x # s => pc'[x] = pc[x]
      BY <1>0, <1>6, <2>2, Kinds DEF Accept, Set
    <3>2. CASE s \in EventClient
      BY Zenon, <1>6, <2>2, <3>1, <3>2, Kinds, WebserverAssumption
         DEF Accept, Runs, AckedIsRunning, ListenedIsRunning, ListedWithOwnRun, runnerVars
    <3>3. CASE s \in RunClient
      <4>1. s \notin EventClient
        BY Zenon, <3>3, WebserverAssumption
      <4>2. /\ DOMAIN workflow_listeners' = {s} \union DOMAIN workflow_listeners
            /\ workflow_listeners'[s] = <<Cid[s], Name[s]>>
            /\ \A x \in DOMAIN workflow_listeners : x # s =>
                  workflow_listeners'[x] = workflow_listeners[x]
        BY <1>6, <2>2, <4>1 DEF Accept
      <4>3. UNCHANGED <<reply, running>>
        BY Zenon, <1>6 DEF Accept, runnerVars
      <4>4. s \in running
        BY Zenon, <3>1, <3>3 DEF Runs, AckedIsRunning
      <4> QED
        BY Zenon, <3>1, <4>2, <4>3, <4>4, Kinds
           DEF Runs, AckedIsRunning, ListenedIsRunning, ListedWithOwnRun
    <3> QED
      BY Zenon, <3>2, <3>3, Kinds
  <2> QED
    BY Zenon, <2>1, <2>2
<1>7. ASSUME NEW s \in Subscriber, Subscribe(s)
      PROVE Runs'
  <2>1. pc[s] = "accepted" /\ pc'[s] = "subscribed" /\ \A x \in Client : x # s => pc'[x] = pc[x]
    BY <1>0, <1>7, Kinds DEF Subscribe, Set
  <2> QED
    BY Zenon, <1>7, <2>1, Kinds DEF Subscribe, Runs, AckedIsRunning, ListenedIsRunning,
                                    ListedWithOwnRun, runnerVars
<1>8. ASSUME NEW s \in Subscriber, SinkClosed(s)
      PROVE Runs'
  BY Zenon, <1>8, EndTaskRuns DEF SinkClosed
<1>9. ASSUME NEW s \in Subscriber, NextMessage(s)
      PROVE Runs'
  <2>1. CASE EndTask(s)
    BY Zenon, <1>9, <2>1, EndTaskRuns DEF NextMessage
  <2>2. CASE Deliver(s)
    BY Zenon, <1>9, <2>2 DEF NextMessage, Deliver, Runs, AckedIsRunning, ListenedIsRunning,
                             ListedWithOwnRun, runnerVars
  <2> QED
    BY Zenon, <1>9, <2>1, <2>2 DEF NextMessage
<1>10. ASSUME NEW s \in Subscriber, Read(s) \/ Close(s)
       PROVE Runs'
  BY Zenon, <1>10 DEF Read, Close, Runs, AckedIsRunning, ListenedIsRunning, ListedWithOwnRun,
                      runnerVars, subVars
<1>11. CASE UNCHANGED vars
  BY Zenon, <1>11 DEF vars, Runs, AckedIsRunning, ListenedIsRunning, ListedWithOwnRun,
                      runnerVars, subVars
<1> QED
  BY Zenon, <1>1, <1>2, <1>3, <1>4, <1>5, <1>6, <1>7, <1>8, <1>9, <1>10, <1>11 DEF Next, Task

-----------------------------------------------------------------------------
(* What the subscribers get *)

\* The part of the invariant about messages.
Messages == NothingBefore /\ DeliveredExactly

\* A served client takes the messages of the run it asked for, and no others.
LEMMA IsForFollows ==
    ASSUME Runs, NEW s \in Subscriber, pc[s] = "subscribed", NEW h
    PROVE IsFor(s, h) <=> h = Follows(s)
<1>1. CASE s \in EventClient
  BY Zenon, <1>1 DEF IsFor, Follows
<1>2. CASE s \notin EventClient
  <2>1. s \in RunClient
    BY Zenon, <1>2, Kinds
  <2>2. s \in DOMAIN workflow_listeners /\ workflow_listeners[s] = <<Cid[s], Name[s]>>
    BY Zenon, <2>1 DEF Runs, ListedWithOwnRun
  <2>3. Follows(s) = workflow_listeners[s]
    BY Zenon, <1>2, <2>2 DEF Follows
  <2> QED
    BY Zenon, <1>2, <2>2, <2>3 DEF IsFor
<1> QED
  BY Zenon, <1>1, <1>2

\* A step that leaves the broadcasts and what the clients got alone, and takes no
\* client back before its subscription.
LEMMA MessagesFrame ==
    ASSUME Messages, UNCHANGED <<log, first, pos, sink, received, dropped>>,
           \A x \in Subscriber : pc'[x] \in {"idle", "waiting", "accepting", "accepted"} =>
                                pc[x] \in {"idle", "waiting", "accepting", "accepted"}
    PROVE Messages'
<1>1. NothingBefore'
  BY Zenon DEF Messages, NothingBefore
<1>2. DeliveredExactly'
  BY Zenon DEF Messages, DeliveredExactly, Exactly, ChannelOf, Follows
<1> QED
  BY Zenon, <1>1, <1>2 DEF Messages

\* The next message keeps what the client got exact, whether it is for another
\* client, goes to the sink, or finds it full.
LEMMA DeliverMessages ==
    ASSUME TypeOK, Runs, Messages, NEW s \in Subscriber, pc[s] = "subscribed", Deliver(s),
           UNCHANGED <<log, received>>
    PROVE Messages'
<1> DEFINE l == log[ChannelOf(s)]
           d == received[s] \o sink[s]
           h == Follows(s)
           f == first[s]
           p == pos[s]
           drop == dropped[s]
<1>1. /\ p \in Nat /\ f \in Nat /\ f <= p /\ drop \subseteq 1..p
      /\ sink[s] \in Seq(Nat) /\ received[s] \in Seq(Nat)
      /\ sink \in [Subscriber -> Seq(Nat)] /\ pos \in [Subscriber -> Nat]
      /\ DOMAIN dropped = Subscriber
  BY Zenon DEF TypeOK
<1>2. d \in Seq(Nat) /\ p + 1 \in Nat
  BY <1>1
<1>3. Exactly(d, l, h, f, p, drop)
  BY Zenon DEF Messages, DeliveredExactly
<1>4. IsFor(s, l[p + 1]) <=> l[p + 1] = h
  BY Zenon, IsForFollows
<1>5. /\ pos' = Set(pos, s, p + 1) /\ UNCHANGED <<pc, first>>
      /\ \/ l[p + 1] # h /\ UNCHANGED <<sink, dropped>>
         \/ l[p + 1] = h /\ sink' = Set(sink, s, Append(sink[s], p + 1)) /\ UNCHANGED dropped
         \/ dropped' = Set(dropped, s, drop \union {p + 1}) /\ UNCHANGED sink
  BY Zenon, <1>4 DEF Deliver
<1>6. pos'[s] = p + 1 /\ \A x \in Subscriber : x # s => pos'[x] = pos[x]
  BY <1>1, <1>2, <1>5 DEF Set
<1>7. \A x \in Subscriber : x # s => sink'[x] = sink[x] /\ dropped'[x] = dropped[x]
  BY Zenon, <1>1, <1>5 DEF Set
<1>8. Exactly(received[s] \o sink'[s], l, h, f, p + 1, dropped'[s])
  <2>1. CASE l[p + 1] # h /\ UNCHANGED <<sink, dropped>>
    <3>1. Exactly(d, l, h, f, p + 1, drop)
      BY Zenon, <1>1, <1>3, <2>1, ExactlySkipped
    <3> QED
      BY Zenon, <2>1, <3>1
  <2>2. CASE l[p + 1] = h /\ sink' = Set(sink, s, Append(sink[s], p + 1)) /\ UNCHANGED dropped
    <3>1. sink'[s] = Append(sink[s], p + 1)
      BY Zenon, <1>1, <2>2 DEF Set
    <3>2. received[s] \o sink'[s] = Append(d, p + 1)
      <4>1. received[s] \o Append(sink[s], p + 1) = Append(d, p + 1)
        BY Zenon, <1>1, <1>2, AppendToSink
      <4> QED
        BY Zenon, <3>1, <4>1
    <3>3. Exactly(Append(d, p + 1), l, h, f, p + 1, drop)
      BY Zenon, <1>1, <1>2, <1>3, <2>2, ExactlyTaken
    <3> QED
      BY Zenon, <2>2, <3>2, <3>3
  <2>3. CASE dropped' = Set(dropped, s, drop \union {p + 1}) /\ UNCHANGED sink
    <3>1. dropped'[s] = drop \union {p + 1}
      BY Zenon, <1>1, <2>3 DEF Set
    <3>2. Exactly(d, l, h, f, p + 1, drop \union {p + 1})
      BY Zenon, <1>1, <1>3, ExactlyDropped
    <3> QED
      BY Zenon, <2>3, <3>1, <3>2
  <2> QED
    BY Zenon, <1>5, <2>1, <2>2, <2>3
<1>9. DeliveredExactly'
  BY Zenon, <1>5, <1>6, <1>7, <1>8 DEF Messages, DeliveredExactly, ChannelOf, Follows
<1>10. NothingBefore'
  BY Zenon, <1>5, <1>7 DEF Messages, NothingBefore
<1> QED
  BY Zenon, <1>9, <1>10 DEF Messages

\* Every step keeps what the clients got exact.
LEMMA MessagesStep == TypeOK /\ Runs /\ Messages /\ [Next]_vars => Messages'
<1> SUFFICES ASSUME TypeOK, Runs, Messages, [Next]_vars
             PROVE Messages'
  OBVIOUS
<1> DEFINE Before == {"idle", "waiting", "accepting", "accepted"}
<1>0. /\ pc \in [Client -> Control] /\ log \in [Channel -> Seq(Header)]
      /\ first \in [Subscriber -> Nat] /\ pos \in [Subscriber -> Nat]
      /\ sink \in [Subscriber -> Seq(Nat)] /\ received \in [Subscriber -> Seq(Nat)]
  BY Zenon DEF TypeOK, Control
<1>1. CASE RunnerTakes \/ RunnerAcksNode
  BY Zenon, <1>1, MessagesFrame DEF RunnerTakes, RunnerAcksNode, subVars
<1>2. CASE EmitReceipt \/ EmitEvent
  <2>1. PICK channel \in Channel, header \in Header : Emit(channel, header)
    <3>1. running \subseteq RunClient
      BY Zenon DEF TypeOK
    <3> QED
      BY Zenon, <1>2, <3>1 DEF EmitReceipt, EmitEvent, Channel, Header
  <2>2. /\ log' = [log EXCEPT ![channel] = Append(log[channel], header)]
        /\ UNCHANGED <<pc, first, pos, sink, received, dropped>>
    BY Zenon, <2>1 DEF Emit, subVars
  <2>3. ASSUME NEW x \in Subscriber
        PROVE Exactly(received[x] \o sink[x], log'[ChannelOf(x)], Follows(x), first[x], pos[x],
                      dropped[x])
    <3>1. Exactly(received[x] \o sink[x], log[ChannelOf(x)], Follows(x), first[x], pos[x],
                  dropped[x])
      BY Zenon DEF Messages, DeliveredExactly
    <3>2. CASE ChannelOf(x) # channel
      <4>1. log'[ChannelOf(x)] = log[ChannelOf(x)]
        BY Zenon, <1>0, <2>2, <3>2, Kinds
      <4> QED
        BY Zenon, <3>1, <4>1
    <3>3. CASE ChannelOf(x) = channel
      <4>1. log'[ChannelOf(x)] = Append(log[ChannelOf(x)], header)
        BY Zenon, <1>0, <2>2, <3>3
      <4>2. /\ first[x] \in Nat /\ pos[x] \in Nat /\ pos[x] <= Len(log[ChannelOf(x)])
            /\ log[ChannelOf(x)] \in Seq(Header)
        BY Zenon, Kinds DEF TypeOK
      <4>3. Exactly(received[x] \o sink[x], Append(log[ChannelOf(x)], header), Follows(x),
                    first[x], pos[x], dropped[x])
        BY Zenon, <3>1, <4>2, ExactlyLater
      <4> QED
        BY Zenon, <4>1, <4>3
    <3> QED
      BY Zenon, <3>2, <3>3
  <2>4. DeliveredExactly'
    BY Zenon, <2>2, <2>3 DEF DeliveredExactly, ChannelOf, Follows
  <2>5. NothingBefore'
    BY Zenon, <2>2 DEF Messages, NothingBefore
  <2> QED
    BY Zenon, <2>4, <2>5 DEF Messages
<1>3. ASSUME NEW c \in Client, Call(c)
      PROVE Messages'
  <2>1. pc[c] \in Before /\ \A x \in Client : x # c => pc'[x] = pc[x]
    BY <1>0, <1>3 DEF Call, Set
  <2> QED
    BY Zenon, <1>3, <2>1, Kinds, MessagesFrame DEF Call, subVars
<1>4. ASSUME NEW c \in Asking, Request(c)
      PROVE Messages'
  <2>1. pc[c] \in Before /\ \A x \in Client : x # c => pc'[x] = pc[x]
    BY <1>0, <1>4 DEF Request, Answered, Deadline, Set
  <2> QED
    BY Zenon, <1>4, <2>1, Kinds, MessagesFrame DEF Request, Answered, Deadline, subVars
<1>5. ASSUME NEW s \in Subscriber, Accept(s)
      PROVE Messages'
  <2>1. pc[s] \in Before /\ \A x \in Client : x # s => pc'[x] = pc[x]
    BY <1>0, <1>5 DEF Accept, Set
  <2> QED
    BY Zenon, <1>5, <2>1, Kinds, MessagesFrame DEF Accept
<1>6. ASSUME NEW s \in Subscriber, Subscribe(s)
      PROVE Messages'
  <2> DEFINE n == Len(log[ChannelOf(s)])
  <2>1. /\ first' = Set(first, s, n) /\ pos' = Set(pos, s, n) /\ pc' = Set(pc, s, "subscribed")
        /\ pc[s] \in Before /\ UNCHANGED <<log, sink, received, dropped>>
    BY Zenon, <1>6 DEF Subscribe
  <2>2. received[s] = <<>> /\ sink[s] = <<>>
    BY Zenon, <2>1 DEF Messages, NothingBefore
  <2>3. n \in Nat
    BY <1>0, Kinds
  <2> HIDE DEF n
  <2>4. /\ first'[s] = n /\ pos'[s] = n /\ pc'[s] = "subscribed"
        /\ \A x \in Subscriber : x # s =>
              first'[x] = first[x] /\ pos'[x] = pos[x] /\ pc'[x] = pc[x]
    BY <1>0, <2>1, <2>3, Kinds DEF Set
  <2>5. Exactly(received[s] \o sink[s], log[ChannelOf(s)], Follows(s), n, n, dropped[s])
    BY Zenon, <2>2, <2>3, ExactlyNothing
  <2>6. DeliveredExactly'
    BY Zenon, <2>1, <2>4, <2>5 DEF Messages, DeliveredExactly, ChannelOf, Follows
  <2>7. NothingBefore'
    BY Zenon, <2>1, <2>2, <2>4 DEF Messages, NothingBefore
  <2> QED
    BY Zenon, <2>6, <2>7 DEF Messages
<1>7. ASSUME NEW s \in Subscriber, EndTask(s), UNCHANGED <<log, received>>
      PROVE Messages'
  <2>1. pc'[s] = "ended" /\ \A x \in Client : x # s => pc'[x] = pc[x]
    BY <1>0, <1>7, Kinds DEF EndTask, Set
  <2> QED
    BY Zenon, <1>7, <2>1, Kinds, MessagesFrame DEF EndTask
<1>8. ASSUME NEW s \in Subscriber, SinkClosed(s) \/ NextMessage(s)
      PROVE Messages'
  BY Zenon, <1>7, <1>8, DeliverMessages DEF SinkClosed, NextMessage
<1>9. ASSUME NEW s \in Subscriber, Read(s)
      PROVE Messages'
  <2>1. /\ sink[s] # <<>> /\ sink' = Set(sink, s, Tail(sink[s]))
        /\ received' = Set(received, s, Append(received[s], Head(sink[s])))
        /\ UNCHANGED <<log, pc, first, pos, dropped>>
    BY Zenon, <1>9 DEF Read
  <2>2. sink[s] \in Seq(Nat) /\ received[s] \in Seq(Nat)
    BY Zenon, <1>0
  <2>3. Append(received[s], Head(sink[s])) \o Tail(sink[s]) = received[s] \o sink[s]
    BY Zenon, <2>1, <2>2, ReadKeeps
  <2>4. /\ sink'[s] = Tail(sink[s]) /\ received'[s] = Append(received[s], Head(sink[s]))
        /\ \A x \in Subscriber : x # s => sink'[x] = sink[x] /\ received'[x] = received[x]
    BY Zenon, <1>0, <2>1 DEF Set
  <2>5. \A x \in Subscriber : received'[x] \o sink'[x] = received[x] \o sink[x]
    BY Zenon, <2>3, <2>4
  <2>6. DeliveredExactly'
    BY Zenon, <2>1, <2>5 DEF Messages, DeliveredExactly, ChannelOf, Follows
  <2>7. NothingBefore'
    BY Zenon, <2>1, <2>4 DEF Messages, NothingBefore
  <2> QED
    BY Zenon, <2>6, <2>7 DEF Messages
<1>10. CASE (\E s \in Subscriber : Close(s)) \/ UNCHANGED vars
  BY Zenon, <1>10, MessagesFrame DEF Close, vars, subVars
<1> QED
  BY Zenon, <1>1, <1>2, <1>3, <1>4, <1>5, <1>6, <1>8, <1>9, <1>10 DEF Next, Task

-----------------------------------------------------------------------------
(* The theorems *)

\* The invariant is inductive: the runner, the handlers, the subscription tasks
\* and the clients keep it, in whatever order they act.
THEOREM WebserverInductive == Spec => []IInv
<1>1. Init => IInv
  <2> SUFFICES ASSUME Init
               PROVE IInv
    OBVIOUS
  <2>1. TypeOK
    <3>1. \A s \in Subscriber : /\ Len(sink[s]) <= Capacity
                                /\ first[s] <= pos[s] /\ pos[s] <= Len(log[ChannelOf(s)])
                                /\ dropped[s] \subseteq 1..pos[s]
      BY Kinds, WebserverAssumption DEF Init
    <3> QED
      BY <3>1 DEF Init, TypeOK
  <2>2. Runs
    BY Kinds DEF Init, Runs, AckedIsRunning, ListenedIsRunning, ListedWithOwnRun
  <2>3. NothingBefore
    BY Zenon DEF Init, NothingBefore
  <2>4. DeliveredExactly
    <3> SUFFICES ASSUME NEW s \in Subscriber
                 PROVE Exactly(received[s] \o sink[s], log[ChannelOf(s)], Follows(s), first[s],
                               pos[s], dropped[s])
      BY DEF DeliveredExactly
    <3>1. received[s] = <<>> /\ sink[s] = <<>> /\ first[s] = 0 /\ pos[s] = 0
      BY Zenon DEF Init
    <3>2. 0 \in Nat
      OBVIOUS
    <3> QED
      BY Zenon, <3>1, <3>2, ExactlyNothing
  <2> QED
    BY Zenon, <2>1, <2>2, <2>3, <2>4 DEF IInv, Runs
<1>2. IInv /\ [Next]_vars => IInv'
  BY Zenon, TypeStep, RunsStep, MessagesStep DEF IInv, Runs, Messages
<1> QED
  BY <1>1, <1>2, PTL DEF Spec

\* Requests, replies and subscriptions keep their shape, a sink never holds more
\* than its capacity, and no receiver is ahead of its broadcast.
THEOREM WebserverTypeCorrect == Spec => []TypeOK
<1>1. IInv => TypeOK
  BY Zenon DEF IInv
<1> QED
  BY <1>1, WebserverInductive, PTL

\* Whatever the order of requests, broadcasts, reads and disconnections, a client
\* gets the messages of its own run since it was subscribed, in order and once
\* each, but for those that found its sink full.
THEOREM ExactlyOwnMessages == Spec => []DeliveredExactly
<1>1. IInv => DeliveredExactly
  BY Zenon DEF IInv
<1> QED
  BY <1>1, WebserverInductive, PTL

\* A subscription is listed only for a run the runner has started, although its
\* answer may be late, an error, or for a client that is gone.
THEOREM ListenersHaveRuns == Spec => []ListenedIsRunning
<1>1. IInv => ListenedIsRunning
  BY Zenon DEF IInv
<1> QED
  BY <1>1, WebserverInductive, PTL
=============================================================================
