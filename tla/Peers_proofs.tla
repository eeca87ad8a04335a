----------------------------- MODULE Peers_proofs -----------------------------
(***************************************************************************)
(* Proofs about the peers the event handler keeps: what it lists and       *)
(* routes to is connected or configured, it never dials past its limit,    *)
(* and a repeated discovery continues from a cookie, for any peers,        *)
(* settings and number of connections.                                     *)
(***************************************************************************)
EXTENDS Peers, FiniteSetTheorems, TLAPS

\* What makes the three invariants inductive: the addresses can be counted.
IInv ==
    /\ TypeOK /\ IsFiniteSet(external)
    /\ ListedIsConnected /\ TimedDiscoveryHasCookie

-----------------------------------------------------------------------------
(* How many registrations are dialled *)

\* A new registration comes after fewer new ones than every later new one.
LEMMA IndexGrows ==
    ASSUME NEW T, NEW rs \in Seq(T), NEW i \in New(rs), NEW j \in New(rs), i < j
    PROVE Index(rs, i) \in Nat /\ Index(rs, j) \in Nat /\ Index(rs, i) < Index(rs, j)
<1> DEFINE A == {k \in New(rs) : k < i}
           B == {k \in New(rs) : k < j}
<1>1. New(rs) \subseteq 1..Len(rs) /\ Len(rs) \in Nat
  BY DEF New
<1>2. IsFiniteSet(1..Len(rs))
  BY <1>1, FS_Interval
<1>3. IsFiniteSet(B)
  BY Zenon, <1>1, <1>2, FS_Subset
<1>4. A \subseteq B /\ i \in B /\ i \notin A
  BY <1>1
<1>5. IsFiniteSet(A) /\ Cardinality(A) <= Cardinality(B) /\ Cardinality(A) # Cardinality(B)
  BY Zenon, <1>3, <1>4, FS_Subset
<1>6. Cardinality(A) \in Nat /\ Cardinality(B) \in Nat
  BY Zenon, <1>3, <1>5, FS_CardinalityType
<1> HIDE DEF A, B
<1>7. Cardinality(A) < Cardinality(B)
  BY <1>5, <1>6
<1> QED
  BY Zenon, <1>6, <1>7 DEF Index, A, B

\* The registrations that are dialled are new, and no more than there are places
\* left in the list of peers.
LEMMA DialledFit ==
    ASSUME NEW T, NEW rs \in Seq(T), IsFiniteSet(peers), MaxPeers \in Nat,
           Cardinality(peers) < MaxPeers
    PROVE /\ ToDial(rs) \subseteq T \ {Self}
          /\ IsFiniteSet(ToDial(rs)) /\ Cardinality(ToDial(rs)) <= MaxPeers - Cardinality(peers)
<1> DEFINE n == MaxPeers - Cardinality(peers)
           I == {i \in New(rs) : rs[i] # Self /\ Cardinality(peers) + Index(rs, i) < MaxPeers}
           f == [i \in I |-> Index(rs, i)]
           g == [i \in I |-> rs[i]]
<1>1. Cardinality(peers) \in Nat
  BY Zenon, FS_CardinalityType
<1>2. n \in Nat /\ n > 0
  BY <1>1
<1>3. \A i \in New(rs) : i \in 1..Len(rs) /\ rs[i] \in T /\ Index(rs, i) \in Nat
  <2> SUFFICES ASSUME NEW i \in New(rs)
               PROVE i \in 1..Len(rs) /\ rs[i] \in T /\ Index(rs, i) \in Nat
    OBVIOUS
  <2>1. i \in 1..Len(rs) /\ rs[i] \in T
    BY DEF New
  <2>2. New(rs) \subseteq 1..Len(rs) /\ Len(rs) \in Nat
    BY DEF New
  <2>3. IsFiniteSet(1..Len(rs))
    BY <2>2, FS_Interval
  <2>4. IsFiniteSet({k \in New(rs) : k < i})
    BY Zenon, <2>2, <2>3, FS_Subset
  <2> QED
    BY Zenon, <2>1, <2>4, FS_CardinalityType DEF Index
<1>4. f \in Injection(I, 0..(n - 1))
  <2>1. \A i \in I : f[i] \in 0..(n - 1)
    BY <1>1, <1>3
  <2>2. ASSUME NEW i \in I, NEW j \in I, f[i] = f[j]
        PROVE i = j
    <3>1. i \in Nat /\ j \in Nat
      BY <1>3
    <3>2. i < j => Index(rs, i) < Index(rs, j)
      BY Zenon, IndexGrows
    <3>3. j < i => Index(rs, j) < Index(rs, i)
      BY Zenon, IndexGrows
    <3> QED
      BY <1>3, <2>2, <3>1, <3>2, <3>3
  <2> QED
    BY Zenon, <2>1, <2>2 DEF Injection, IsInjective
<1>5. IsFiniteSet(0..(n - 1)) /\ Cardinality(0..(n - 1)) = n
  <2> HIDE DEF n
  <2>1. 0 \in Int /\ n - 1 \in Int /\ ~ (0 > n - 1) /\ n - 1 - 0 + 1 = n
    BY <1>2
  <2> QED
    BY Zenon, <2>1, FS_Interval
<1>6. IsFiniteSet(I) /\ Cardinality(I) <= n
  <2>1. IsFiniteSet(I) /\ Cardinality(I) <= Cardinality(0..(n - 1))
    <3> HIDE DEF n, I, f
    <3> QED
      BY ZenonT(60), <1>4, <1>5, FS_Injection
  <2> QED
    BY Zenon, <1>5, <2>1
<1>7. g \in Surjection(I, ToDial(rs))
  BY DEF Surjection, ToDial
<1>8. IsFiniteSet(ToDial(rs)) /\ Cardinality(ToDial(rs)) <= Cardinality(I)
  BY Zenon, <1>6, <1>7, FS_Surjection
<1>9. ToDial(rs) \subseteq T \ {Self}
  BY Zenon, <1>3 DEF ToDial
<1>10. Cardinality(I) \in Nat /\ Cardinality(ToDial(rs)) \in Nat
  BY Zenon, <1>6, <1>8, FS_CardinalityType
<1> HIDE DEF I, n
<1>11. Cardinality(ToDial(rs)) <= n
  BY <1>2, <1>6, <1>8, <1>10
<1> QED
  BY Zenon, <1>8, <1>9, <1>11 DEF n

\* What a rendezvous node may answer is a sequence of peers.
LEMMA RegistrationsAreSeqs == Registrations \subseteq Seq(Peer \union {Self})
<1> SUFFICES ASSUME NEW ps \in SUBSET (Peer \union {Self}), NEW rs \in Injection(1..Cardinality(ps), ps)
             PROVE rs \in Seq(Peer \union {Self})
  BY Zenon DEF Registrations
<1>1. IsFiniteSet(ps)
  <2>1. IsFiniteSet(Peer \union {Self})
    BY Zenon, PeersAssumption, FS_AddElement
  <2> QED
    BY Zenon, <2>1, FS_Subset
<1>2. Cardinality(ps) \in Nat
  BY Zenon, <1>1, FS_CardinalityType
<1>3. rs \in [1..Cardinality(ps) -> ps]
  BY Zenon DEF Injection
<1> QED
  BY <1>2, <1>3

-----------------------------------------------------------------------------
(* Type correctness *)

\* A request that leaves pending is of a rendezvous node, and so is its entry.
LEMMA RequestType ==
    ASSUME TypeOK, NEW req \in pending
    PROVE req[1] \in Rendezvous /\ \A k \in Kind : <<req[1], k>> \in Rendezvous \X Kind
<1>1. req \in Rendezvous \X Kind \X (Rendezvous \union {"none"})
  BY Zenon DEF TypeOK
<1> QED
  BY <1>1

\* The requests the handler makes are of the kinds it can answer.
LEMMA MadeType ==
    ASSUME TypeOK, NEW n \in Rendezvous, NEW p
    PROVE /\ Register(n) \subseteq Rendezvous \X Kind \X (Rendezvous \union {"none"})
          /\ Discover(n, "none") \subseteq Rendezvous \X Kind \X (Rendezvous \union {"none"})
          /\ Discover(n, CookieOf(p)) \subseteq Rendezvous \X Kind \X (Rendezvous \union {"none"})
<1>1. CookieOf(p) \in Rendezvous \union {"none"}
  BY Zenon DEF CookieOf, TypeOK
<1>2. "register" \in Kind /\ "discover" \in Kind
  BY Zenon DEF Kind
<1>3. \A c \in Rendezvous \union {"none"} :
        /\ <<n, "register", c>> \in Rendezvous \X Kind \X (Rendezvous \union {"none"})
        /\ <<n, "discover", c>> \in Rendezvous \X Kind \X (Rendezvous \union {"none"})
  BY <1>2
<1>4. "none" \in Rendezvous \union {"none"}
  BY Zenon
<1> QED
  BY Zenon, <1>1, <1>3, <1>4 DEF Register, Discover

\* The peers of the list can be counted.
LEMMA PeersFinite ==
    ASSUME TypeOK
    PROVE IsFiniteSet(peers) /\ Cardinality(peers) \in Nat
<1>1. IsFiniteSet(peers)
  BY Zenon, PeersAssumption, FS_Subset DEF TypeOK
<1> QED
  BY Zenon, <1>1, FS_CardinalityType

\* Observed addresses are announced while there are fewer than the limit.
LEMMA IdentifySelfType ==
    ASSUME TypeOK, IsFiniteSet(external), NEW addr \in PublicAddr \union PrivateAddr,
           IdentifySelf(addr)
    PROVE TypeOK' /\ IsFiniteSet(external')
<1>1. CASE external' = external
  BY Zenon, <1>1 DEF IdentifySelf, TypeOK, connVars, rdvVars, cacheVars, Kind
<1>2. CASE external' # external
  <2>1. /\ external' = external \union {addr} /\ addr \in PublicAddr
        /\ Cardinality(external) < AddressLimit
    BY Zenon, <1>2 DEF IdentifySelf
  <2>2. IsFiniteSet(external') /\ Cardinality(external') \in Nat /\ Cardinality(external) \in Nat
    BY Zenon, <2>1, FS_AddElement, FS_CardinalityType
  <2>3. Cardinality(external') <= Cardinality(external) + 1
    <3>1. Cardinality(external') = IF addr \in external THEN Cardinality(external)
                                   ELSE Cardinality(external) + 1
      BY Zenon, <2>1, FS_AddElement
    <3> QED
      BY <2>2, <3>1
  <2>4. /\ IsFiniteSet(external' \ Announced)
        /\ Cardinality(external' \ Announced) <= Cardinality(external')
    BY Zenon, <2>2, FS_Subset
  <2>5. Cardinality(external' \ Announced) \in Nat
    BY Zenon, <2>4, FS_CardinalityType
  <2>6. Cardinality(external' \ Announced) <= AddressLimit
    BY <2>1, <2>2, <2>3, <2>4, <2>5, PeersAssumption
  <2>7. external' \subseteq Announced \union PublicAddr
    BY Zenon, <2>1 DEF TypeOK
  <2> QED
    BY Zenon, <1>2, <2>2, <2>6, <2>7 DEF IdentifySelf, TypeOK, connVars, rdvVars, cacheVars, Kind
<1> QED
  BY Zenon, <1>1, <1>2

\* An answer of a rendezvous node keeps the types.
LEMMA DiscoveredType ==
    ASSUME TypeOK, NEW req \in pending, NEW rs \in Registrations, Discovered(req, rs)
    PROVE TypeOK'
<1>1. req[1] \in Rendezvous /\ <<req[1], "discover">> \in Rendezvous \X Kind
  BY Zenon, RequestType DEF Kind
<1>2. cookies' \subseteq Rendezvous /\ pending' \subseteq pending
  BY Zenon, <1>1 DEF Discovered, TypeOK
<1>3. CASE Cardinality(peers) >= MaxPeers
  BY Zenon, <1>2, <1>3 DEF Discovered, TypeOK, cacheVars, Kind
<1>4. CASE ~ (Cardinality(peers) >= MaxPeers)
  <2> DEFINE dialled == Dialable(ToDial(rs))
  <2>1. Cardinality(peers) < MaxPeers
    BY <1>4, PeersFinite, PeersAssumption
  <2>2. dialled \subseteq Peer
    <3>1. ToDial(rs) \subseteq (Peer \union {Self}) \ {Self}
      BY Zenon, <2>1, PeersFinite, PeersAssumption, RegistrationsAreSeqs, DialledFit
    <3> QED
      BY Zenon, <3>1 DEF Dialable
  <2>3. /\ dialing' = dialing \union dialled
        /\ discovered_peers' = [p \in dialled \union DOMAIN discovered_peers |->
                                  IF p \in dialled THEN req[1] ELSE discovered_peers[p]]
        /\ Insert(<<req[1], "discover">>)
        /\ UNCHANGED <<open, peers, kad, external, chan>>
    BY Zenon, <1>4 DEF Discovered
  <2> HIDE DEF dialled
  <2>4. dialing' \subseteq Peer
    BY Zenon, <2>2, <2>3 DEF TypeOK
  <2>5. DOMAIN discovered_peers' \subseteq Peer /\ Range(discovered_peers') \subseteq Rendezvous
    <3>1. DOMAIN discovered_peers' = dialled \union DOMAIN discovered_peers
      BY Zenon, <2>3
    <3>2. \A p \in DOMAIN discovered_peers' :
            discovered_peers'[p] = IF p \in dialled THEN req[1] ELSE discovered_peers[p]
      BY Zenon, <2>3
    <3> QED
      BY Zenon, <1>1, <2>2, <3>1, <3>2 DEF TypeOK, Range
  <2>6. cache' \subseteq Rendezvous \X Kind /\ stuck' \in BOOLEAN
    BY Zenon, <1>1, <2>3 DEF Insert, TypeOK
  <2> QED
    BY Zenon, <1>2, <2>3, <2>4, <2>5, <2>6 DEF TypeOK, Kind
<1> QED
  BY Zenon, <1>3, <1>4

\* The other actions on connections and on the routing table.
ConnectionStep ==
    \/ \E p \in Peer : \/ ConnectionEstablished(p) \/ ConnectionClosed(p)
                       \/ OutgoingConnectionError(p)
                       \/ \E known \in BOOLEAN : MdnsExpired(p, known)
    \/ \E ps \in SUBSET Peer : MdnsDiscovered(ps)

\* They keep the types.
LEMMA ConnectionType ==
    ASSUME TypeOK, ConnectionStep
    PROVE TypeOK'
<1>0. open \in [Peer -> 0..MaxConn] /\ MaxConn \in Nat
  BY Zenon, PeersAssumption DEF TypeOK
<1>1. ASSUME NEW p \in Peer, ConnectionEstablished(p)
      PROVE TypeOK'
  <2>1. open' \in [Peer -> 0..MaxConn]
    BY <1>0, <1>1 DEF ConnectionEstablished
  <2>2. dialing' \subseteq Peer /\ peers' \subseteq Peer
    BY Zenon, <1>1 DEF ConnectionEstablished, TypeOK
  <2> QED
    BY Zenon, <1>1, <2>1, <2>2 DEF ConnectionEstablished, TypeOK, rdvVars, cacheVars, Kind
<1>2. ASSUME NEW p \in Peer, ConnectionClosed(p)
      PROVE TypeOK'
  <2>1. open' \in [Peer -> 0..MaxConn]
    BY <1>0, <1>2 DEF ConnectionClosed
  <2>2. peers' \subseteq Peer /\ kad' \subseteq Peer
    BY Zenon, <1>2 DEF ConnectionClosed, TypeOK
  <2> QED
    BY Zenon, <1>2, <2>1, <2>2 DEF ConnectionClosed, TypeOK, rdvVars, cacheVars, Kind
<1>3. ASSUME NEW p \in Peer, OutgoingConnectionError(p)
      PROVE TypeOK'
  BY Zenon, <1>3 DEF OutgoingConnectionError, TypeOK, rdvVars, cacheVars, Kind
<1>4. ASSUME NEW p \in Peer, NEW known \in BOOLEAN, MdnsExpired(p, known)
      PROVE TypeOK'
  <2>1. kad' \subseteq Peer
    BY Zenon, <1>4 DEF MdnsExpired, TypeOK
  <2> QED
    BY Zenon, <1>4, <2>1 DEF MdnsExpired, TypeOK, rdvVars, cacheVars, Kind
<1>5. ASSUME NEW ps \in SUBSET Peer, MdnsDiscovered(ps)
      PROVE TypeOK'
  <2>1. dialing' \subseteq Peer
    BY Zenon, <1>5 DEF MdnsDiscovered, TypeOK, Dialable
  <2> QED
    BY Zenon, <1>5, <2>1 DEF MdnsDiscovered, TypeOK, rdvVars, cacheVars, Kind
<1> QED
  BY Zenon, <1>1, <1>2, <1>3, <1>4, <1>5 DEF ConnectionStep

\* The other steps of the rendezvous client and of its cache.
RendezvousStep ==
    \/ \E p \in Peer : Expired(p) \/ \E kademlia \in BOOLEAN : IdentifyReceived(p, kademlia)
    \/ \E req \in pending : RequestFailed(req) \/ Registered(req)
    \/ HandleEvent \/ \E e \in cache : Evict(e)

\* They keep the types.
LEMMA RendezvousType ==
    ASSUME TypeOK, RendezvousStep
    PROVE TypeOK'
<1>0. /\ pending \subseteq Rendezvous \X Kind \X (Rendezvous \union {"none"})
      /\ chan \in Seq(Rendezvous \X Kind) /\ Len(chan) <= EventsBufferLen
      /\ cache \subseteq Rendezvous \X Kind /\ EventsBufferLen \in Nat
  BY Zenon, PeersAssumption DEF TypeOK
<1>1. ASSUME NEW p \in Peer, Expired(p)
      PROVE TypeOK'
  <2>1. discovered_peers[p] \in Rendezvous
    BY Zenon, <1>1 DEF Expired, TypeOK, Range
  <2>2. pending' \subseteq Rendezvous \X Kind \X (Rendezvous \union {"none"})
    BY Zenon, <1>0, <1>1, <2>1, MadeType DEF Expired
  <2>3. DOMAIN discovered_peers' \subseteq Peer /\ Range(discovered_peers') \subseteq Rendezvous
    <3>1. DOMAIN discovered_peers' = (DOMAIN discovered_peers) \ {p}
      BY Zenon, <1>1 DEF Expired
    <3>2. \A q \in DOMAIN discovered_peers' : discovered_peers'[q] = discovered_peers[q]
      BY Zenon, <1>1 DEF Expired
    <3> QED
      BY Zenon, <3>1, <3>2 DEF TypeOK, Range
  <2> QED
    BY Zenon, <1>1, <2>2, <2>3 DEF Expired, TypeOK, connVars, cacheVars, Kind
<1>2. ASSUME NEW p \in Peer, NEW kademlia \in BOOLEAN, IdentifyReceived(p, kademlia)
      PROVE TypeOK'
  <2>1. kad' \subseteq Peer
    BY Zenon, <1>2 DEF IdentifyReceived, TypeOK
  <2>2. pending' \subseteq Rendezvous \X Kind \X (Rendezvous \union {"none"})
    BY Zenon, <1>0, <1>2, MadeType DEF IdentifyReceived
  <2> QED
    BY Zenon, <1>2, <2>1, <2>2 DEF IdentifyReceived, TypeOK, cacheVars, Kind
<1>3. ASSUME NEW req \in pending, RequestFailed(req)
      PROVE TypeOK'
  <2>1. pending' \subseteq Rendezvous \X Kind \X (Rendezvous \union {"none"})
    BY Zenon, <1>0, <1>3 DEF RequestFailed
  <2> QED
    BY Zenon, <1>3, <2>1 DEF RequestFailed, TypeOK, connVars, cacheVars, Kind
<1>4. ASSUME NEW req \in pending, Registered(req)
      PROVE TypeOK'
  <2>1. <<req[1], "register">> \in Rendezvous \X Kind
    BY Zenon, RequestType DEF Kind
  <2>2. cache' \subseteq Rendezvous \X Kind /\ stuck' \in BOOLEAN
    BY Zenon, <1>0, <1>4, <2>1 DEF Registered, Insert
  <2>3. pending' \subseteq Rendezvous \X Kind \X (Rendezvous \union {"none"})
    BY Zenon, <1>0, <1>4 DEF Registered
  <2> QED
    BY Zenon, <1>4, <2>2, <2>3 DEF Registered, TypeOK, connVars, Kind
<1>5. CASE HandleEvent
  <2>1. chan # <<>> /\ chan' = Tail(chan)
    BY Zenon, <1>5 DEF HandleEvent
  <2>2. Head(chan)[1] \in Rendezvous /\ chan' \in Seq(Rendezvous \X Kind) /\ Len(chan') <= EventsBufferLen
    BY <1>0, <2>1
  <2>3. pending' \subseteq Rendezvous \X Kind \X (Rendezvous \union {"none"})
    BY Zenon, <1>0, <1>5, <2>2, MadeType DEF HandleEvent
  <2> QED
    BY Zenon, <1>5, <2>2, <2>3 DEF HandleEvent, TypeOK, connVars, cacheVars, Kind
<1>6. ASSUME NEW e \in cache, Evict(e)
      PROVE TypeOK'
  <2>1. Len(chan) < EventsBufferLen /\ chan' = Append(chan, e) /\ e \in Rendezvous \X Kind
    BY Zenon, <1>0, <1>6 DEF Evict
  <2>2. chan' \in Seq(Rendezvous \X Kind) /\ Len(chan') <= EventsBufferLen
    BY <1>0, <2>1
  <2>3. cache' \subseteq Rendezvous \X Kind
    BY Zenon, <1>0, <1>6 DEF Evict
  <2> QED
    BY Zenon, <1>6, <2>2, <2>3 DEF Evict, TypeOK, connVars, rdvVars, Kind
<1> QED
  BY Zenon, <1>1, <1>2, <1>3, <1>4, <1>5, <1>6 DEF RendezvousStep

\* A step is one of these.
LEMMA StepCases ==
    ASSUME Next
    PROVE \/ ConnectionStep \/ RendezvousStep
          \/ \E addr \in PublicAddr \union PrivateAddr : IdentifySelf(addr)
          \/ \E req \in pending : \E rs \in Registrations : Discovered(req, rs)
BY Zenon DEF Next, SwarmEvent, ConnectionStep, RendezvousStep

\* Every step keeps the types, and announces finitely many addresses.
LEMMA TypeStep == TypeOK /\ IsFiniteSet(external) /\ [Next]_vars => TypeOK' /\ IsFiniteSet(external')
<1> SUFFICES ASSUME TypeOK, IsFiniteSet(external), [Next]_vars
             PROVE TypeOK' /\ IsFiniteSet(external')
  OBVIOUS
<1>1. CASE ConnectionStep
  <2>1. UNCHANGED external
    BY Zenon, <1>1 DEF ConnectionStep, ConnectionEstablished, ConnectionClosed,
                       OutgoingConnectionError, MdnsExpired, MdnsDiscovered
  <2> QED
    BY Zenon, <1>1, <2>1, ConnectionType
<1>2. CASE RendezvousStep
  <2>1. UNCHANGED external
    BY Zenon, <1>2 DEF RendezvousStep, Expired, IdentifyReceived, RequestFailed, Registered,
                       HandleEvent, Evict
  <2> QED
    BY Zenon, <1>2, <2>1, RendezvousType
<1>3. ASSUME NEW addr \in PublicAddr \union PrivateAddr, IdentifySelf(addr)
      PROVE TypeOK' /\ IsFiniteSet(external')
  BY Zenon, <1>3, IdentifySelfType
<1>4. ASSUME NEW req \in pending, NEW rs \in Registrations, Discovered(req, rs)
      PROVE TypeOK' /\ IsFiniteSet(external')
  <2>1. UNCHANGED external
    BY Zenon, <1>4 DEF Discovered
  <2> QED
    BY Zenon, <1>4, <2>1, DiscoveredType
<1>5. CASE UNCHANGED vars
  BY Zenon, <1>5 DEF vars, connVars, rdvVars, cacheVars, TypeOK, Kind
<1> QED
  BY Zenon, <1>1, <1>2, <1>3, <1>4, <1>5, StepCases

-----------------------------------------------------------------------------
(* What is listed and routed to *)

\* A step that leaves the connections, the list and the table alone.
LEMMA ListedFrame ==
    ASSUME ListedIsConnected, UNCHANGED <<open, peers, kad>>
    PROVE ListedIsConnected'
BY Zenon DEF ListedIsConnected, Connected, Configured

\* In whatever order connections open and close, what is listed is connected and
\* what is routed to is connected or configured.
LEMMA ListedStep == TypeOK /\ ListedIsConnected /\ [Next]_vars => ListedIsConnected'
<1> SUFFICES ASSUME TypeOK, ListedIsConnected, [Next]_vars
             PROVE ListedIsConnected'
  OBVIOUS
<1>0. open \in [Peer -> 0..MaxConn] /\ \A p \in Peer : open[p] \in Nat
  <2>1. open \in [Peer -> 0..MaxConn]
    BY Zenon DEF TypeOK
  <2> QED
    BY <2>1
<1>1. CASE ConnectionStep
  <2>1. ASSUME NEW p \in Peer, ConnectionEstablished(p)
        PROVE ListedIsConnected'
    <3>1. open'[p] = open[p] + 1 /\ \A q \in Peer : q # p => open'[q] = open[q]
      BY Zenon, <1>0, <2>1 DEF ConnectionEstablished
    <3>2. open'[p] > 0
      BY <1>0, <3>1
    <3>3. Connected \union {p} \subseteq Connected'
      BY Zenon, <3>1, <3>2 DEF Connected
    <3> QED
      BY Zenon, <2>1, <3>3 DEF ConnectionEstablished, ListedIsConnected, Configured
  <2>2. ASSUME NEW p \in Peer, ConnectionClosed(p)
        PROVE ListedIsConnected'
    <3>1. \A q \in Peer : q # p => open'[q] = open[q]
      BY Zenon, <1>0, <2>2 DEF ConnectionClosed
    <3>2. Connected \ {p} \subseteq Connected'
      BY Zenon, <3>1 DEF Connected
    <3> QED
      BY Zenon, <2>2, <3>2 DEF ConnectionClosed, ListedIsConnected, Configured
  <2>3. ASSUME NEW p \in Peer, NEW known \in BOOLEAN, MdnsExpired(p, known)
        PROVE ListedIsConnected'
    <3>1. kad' \subseteq kad /\ UNCHANGED <<open, peers>>
      BY Zenon, <2>3 DEF MdnsExpired
    <3> QED
      BY Zenon, <3>1 DEF ListedIsConnected, Connected, Configured
  <2> QED
    BY Zenon, <1>1, <2>1, <2>2, <2>3, ListedFrame
       DEF ConnectionStep, OutgoingConnectionError, MdnsDiscovered
<1>2. ASSUME NEW p \in Peer, NEW kademlia \in BOOLEAN, IdentifyReceived(p, kademlia)
      PROVE ListedIsConnected'
  <2>1. p \in Connected /\ kad' \subseteq kad \union {p} /\ UNCHANGED <<open, peers>>
    BY Zenon, <1>2 DEF IdentifyReceived
  <2> QED
    BY Zenon, <2>1 DEF ListedIsConnected, Connected, Configured
<1>3. CASE RendezvousStep
  BY Zenon, <1>2, <1>3, ListedFrame
     DEF RendezvousStep, Expired, RequestFailed, Registered, HandleEvent, Evict, connVars
<1>4. ASSUME NEW addr \in PublicAddr \union PrivateAddr, IdentifySelf(addr)
      PROVE ListedIsConnected'
  BY Zenon, <1>4, ListedFrame DEF IdentifySelf, connVars
<1>5. ASSUME NEW req \in pending, NEW rs \in Registrations, Discovered(req, rs)
      PROVE ListedIsConnected'
  BY Zenon, <1>5, ListedFrame DEF Discovered
<1>6. CASE UNCHANGED vars
  BY Zenon, <1>6, ListedFrame DEF vars, connVars
<1> QED
  BY Zenon, <1>1, <1>3, <1>4, <1>5, <1>6, StepCases

-----------------------------------------------------------------------------
(* The cookies *)

\* A step that enters no discovery and forgets no cookie.
LEMMA CookieFrame ==
    ASSUME TimedDiscoveryHasCookie, cookies \subseteq cookies',
           \A n \in Rendezvous : <<n, "discover">> \in cache' \union Range(chan')
                                => <<n, "discover">> \in cache \union Range(chan)
    PROVE TimedDiscoveryHasCookie'
BY Zenon DEF TimedDiscoveryHasCookie

\* The cookie is kept before the entry is made, and stays while the entry goes
\* through the cache and the channel.
LEMMA CookieStep == TypeOK /\ TimedDiscoveryHasCookie /\ [Next]_vars => TimedDiscoveryHasCookie'
<1> SUFFICES ASSUME TypeOK, TimedDiscoveryHasCookie, [Next]_vars
             PROVE TimedDiscoveryHasCookie'
  OBVIOUS
<1>0. chan \in Seq(Rendezvous \X Kind)
  BY Zenon DEF TypeOK
<1>1. CASE UNCHANGED <<cookies, cache, chan>>
  BY Zenon, <1>1, CookieFrame
<1>2. CASE ConnectionStep
  BY Zenon, <1>1, <1>2 DEF ConnectionStep, ConnectionEstablished, ConnectionClosed, MdnsExpired,
                           OutgoingConnectionError, MdnsDiscovered, rdvVars, cacheVars
<1>3. ASSUME NEW req \in pending, Registered(req)
      PROVE TimedDiscoveryHasCookie'
  <2>1. cache' = cache \union {<<req[1], "register">>} /\ UNCHANGED <<cookies, chan>>
    BY Zenon, <1>3 DEF Registered, Insert
  <2>2. \A n \in Rendezvous : <<n, "discover">> # <<req[1], "register">>
    OBVIOUS
  <2> QED
    BY Zenon, <2>1, <2>2, CookieFrame
<1>4. CASE HandleEvent
  <2>1. chan # <<>> /\ chan' = Tail(chan) /\ UNCHANGED <<cookies, cache>>
    BY Zenon, <1>4 DEF HandleEvent, cacheVars
  <2>2. \A i \in DOMAIN Tail(chan) : i + 1 \in DOMAIN chan /\ Tail(chan)[i] = chan[i + 1]
    BY <1>0, <2>1
  <2>3. Range(chan') \subseteq Range(chan)
    BY Zenon, <2>1, <2>2 DEF Range
  <2> QED
    BY Zenon, <2>1, <2>3, CookieFrame
<1>5. ASSUME NEW e \in cache, Evict(e)
      PROVE TimedDiscoveryHasCookie'
  <2>1. chan' = Append(chan, e) /\ cache' \subseteq cache /\ UNCHANGED cookies
    BY Zenon, <1>5 DEF Evict, rdvVars
  <2>2. \A i \in DOMAIN Append(chan, e) :
          \/ Append(chan, e)[i] = e
          \/ i \in DOMAIN chan /\ Append(chan, e)[i] = chan[i]
    <3>1. e \in Rendezvous \X Kind
      BY Zenon DEF TypeOK
    <3> QED
      BY <1>0, <3>1
  <2>3. Range(chan') \subseteq Range(chan) \union {e}
    BY Zenon, <2>1, <2>2 DEF Range
  <2> QED
    BY Zenon, <2>1, <2>3, CookieFrame
<1>6. CASE RendezvousStep
  BY Zenon, <1>1, <1>3, <1>4, <1>5, <1>6
     DEF RendezvousStep, Expired, IdentifyReceived, RequestFailed, cacheVars
<1>7. ASSUME NEW addr \in PublicAddr \union PrivateAddr, IdentifySelf(addr)
      PROVE TimedDiscoveryHasCookie'
  BY Zenon, <1>1, <1>7 DEF IdentifySelf, rdvVars, cacheVars
<1>8. ASSUME NEW req \in pending, NEW rs \in Registrations, Discovered(req, rs)
      PROVE TimedDiscoveryHasCookie'
  <2>1. /\ cookies' = cookies \union {req[1]} /\ UNCHANGED chan
        /\ cache' \subseteq cache \union {<<req[1], "discover">>}
    BY Zenon, <1>8 DEF Discovered, Insert, cacheVars
  <2>2. \A n \in Rendezvous : <<n, "discover">> = <<req[1], "discover">> => n = req[1]
    OBVIOUS
  <2> QED
    BY Zenon, <2>1, <2>2 DEF TimedDiscoveryHasCookie
<1>9. CASE UNCHANGED vars
  BY Zenon, <1>1, <1>9 DEF vars, rdvVars, cacheVars
<1> QED
  BY Zenon, <1>2, <1>6, <1>7, <1>8, <1>9, StepCases

-----------------------------------------------------------------------------
(* The dials *)

\* Only mDNS and the answers of rendezvous nodes make the handler dial, and both
\* count the peers that are listed.
LEMMA DialStep == TypeOK /\ [Next]_vars => [DialWithinLimit]_vars
<1> SUFFICES ASSUME TypeOK, Next
             PROVE DialWithinLimit
  BY Zenon
<1>1. CASE dialing' \subseteq dialing
  BY Zenon, <1>1 DEF DialWithinLimit
<1>2. ASSUME NEW ps \in SUBSET Peer, MdnsDiscovered(ps)
      PROVE DialWithinLimit
  BY Zenon, <1>2 DEF MdnsDiscovered, DialWithinLimit, rdvVars
<1>3. CASE ConnectionStep
  BY Zenon, <1>1, <1>2, <1>3 DEF ConnectionStep, ConnectionEstablished, ConnectionClosed,
                                 MdnsExpired, OutgoingConnectionError
<1>4. CASE RendezvousStep
  BY Zenon, <1>1, <1>4 DEF RendezvousStep, Expired, IdentifyReceived, RequestFailed, Registered,
                           HandleEvent, Evict, connVars
<1>5. ASSUME NEW addr \in PublicAddr \union PrivateAddr, IdentifySelf(addr)
      PROVE DialWithinLimit
  BY Zenon, <1>1, <1>5 DEF IdentifySelf, connVars
<1>6. ASSUME NEW req \in pending, NEW rs \in Registrations, Discovered(req, rs)
      PROVE DialWithinLimit
  <2>1. CASE Cardinality(peers) >= MaxPeers
    BY Zenon, <1>1, <1>6, <2>1 DEF Discovered
  <2>2. CASE ~ (Cardinality(peers) >= MaxPeers)
    <3> DEFINE dialled == dialing' \ dialing
    <3>1. /\ IsFiniteSet(peers) /\ Cardinality(peers) \in Nat /\ MaxPeers \in Nat
          /\ Cardinality(peers) < MaxPeers
      BY <2>2, PeersFinite, PeersAssumption
    <3>2. dialled \subseteq ToDial(rs)
      BY Zenon, <1>6, <2>2 DEF Discovered, Dialable
    <3>3. /\ IsFiniteSet(ToDial(rs))
          /\ Cardinality(ToDial(rs)) <= MaxPeers - Cardinality(peers)
      BY Zenon, <3>1, RegistrationsAreSeqs, DialledFit
    <3>4. IsFiniteSet(dialled) /\ Cardinality(dialled) <= Cardinality(ToDial(rs))
      BY Zenon, <3>2, <3>3, FS_Subset
    <3>5. Cardinality(peers \union dialled)
            = Cardinality(peers) + Cardinality(dialled) - Cardinality(peers \cap dialled)
      BY Zenon, <3>1, <3>4, FS_Union
    <3>6. IsFiniteSet(peers \cap dialled)
      BY Zenon, <3>1, FS_Intersection
    <3>7. /\ Cardinality(dialled) \in Nat /\ Cardinality(ToDial(rs)) \in Nat
          /\ Cardinality(peers \cap dialled) \in Nat
      BY Zenon, <3>3, <3>4, <3>6, FS_CardinalityType
    <3> HIDE DEF dialled
    <3>8. Cardinality(peers \union dialled) <= MaxPeers
      BY <3>1, <3>3, <3>4, <3>5, <3>7
    <3> QED
      BY Zenon, <3>1, <3>8 DEF DialWithinLimit, dialled
  <2> QED
    BY Zenon, <2>1, <2>2
<1> QED
  BY Zenon, <1>3, <1>4, <1>5, <1>6, StepCases

-----------------------------------------------------------------------------
(* The theorems *)

\* The invariant holds before the first event: what is routed to is configured.
LEMMA InitIInv == Init => IInv
<1> SUFFICES ASSUME Init
             PROVE IInv
  OBVIOUS
<1> DEFINE n == IF Len(NodeAddresses) < MaxPeers THEN Len(NodeAddresses) ELSE MaxPeers
           dialled == Range(SubSeq(NodeAddresses, 1, n))
<1>1. NodeAddresses \in Seq(Peer \union {"no_peer_id"}) /\ MaxPeers \in Nat
  BY Zenon, PeersAssumption
<1>2. n \in Nat /\ n <= Len(NodeAddresses)
  BY <1>1
<1> HIDE DEF n
<1>3. \A i \in DOMAIN SubSeq(NodeAddresses, 1, n) :
        i \in DOMAIN NodeAddresses /\ SubSeq(NodeAddresses, 1, n)[i] = NodeAddresses[i]
  BY <1>1, <1>2
<1>4. dialled \cap Peer \subseteq Configured
  BY Zenon, <1>3 DEF Range, Configured
<1>5. dialing = dialled \cap Peer /\ kad = dialled \cap Peer
  BY Zenon DEF Init, n
<1> HIDE DEF dialled
<1>6. IsFiniteSet(external) /\ external = Announced
  BY Zenon, PeersAssumption DEF Init
<1>7. Cardinality(external \ Announced) <= AddressLimit
  <2>1. external \ Announced = {}
    BY Zenon, <1>6
  <2>2. Cardinality(external \ Announced) = 0
    BY Zenon, <2>1, FS_EmptySet
  <2> QED
    BY <2>2, PeersAssumption
<1>8. open \in [Peer -> 0..MaxConn]
  BY PeersAssumption DEF Init
<1>9. chan \in Seq(Rendezvous \X Kind) /\ Len(chan) <= EventsBufferLen /\ Range(chan) = {}
  BY PeersAssumption DEF Init, Range
<1>10. DOMAIN discovered_peers = {} /\ Range(discovered_peers) = {}
  BY Zenon DEF Init, Range
<1>11. TypeOK
  BY Zenon, <1>5, <1>6, <1>7, <1>8, <1>9, <1>10 DEF Init, TypeOK
<1>12. ListedIsConnected
  BY Zenon, <1>4, <1>5 DEF Init, ListedIsConnected
<1>13. TimedDiscoveryHasCookie
  BY Zenon, <1>9 DEF Init, TimedDiscoveryHasCookie
<1> QED
  BY Zenon, <1>6, <1>11, <1>12, <1>13 DEF IInv

\* The invariant is inductive: the events of the swarm, the timer and the channel
\* keep it in whatever order the loop takes them.
THEOREM PeersInductive == Spec => []IInv
<1>1. IInv /\ [Next]_vars => IInv'
  BY Zenon, TypeStep, ListedStep, CookieStep DEF IInv
<1> QED
  BY <1>1, InitIInv, PTL DEF Spec

\* Tables, requests, entries and events are of the peers they can be of, and the
\* limits on connections, events and announced addresses hold.
THEOREM PeersTypeCorrect == Spec => []TypeOK
<1>1. IInv => TypeOK
  BY Zenon DEF IInv
<1> QED
  BY <1>1, PeersInductive, PTL

\* The node lists only connected peers and routes only to connected or configured
\* ones, however many connections each of them opens and closes.
THEOREM ListedAreConnected == Spec => []ListedIsConnected
<1>1. IInv => ListedIsConnected
  BY Zenon DEF IInv
<1> QED
  BY <1>1, PeersInductive, PTL

\* A discovery that the timer repeats always continues from a cookie.
THEOREM TimedDiscoveriesContinue == Spec => []TimedDiscoveryHasCookie
<1>1. IInv => TimedDiscoveryHasCookie
  BY Zenon DEF IInv
<1> QED
  BY <1>1, PeersInductive, PTL

\* No event makes the node dial past its limit of peers, whatever a rendezvous
\* node answers.
THEOREM NeverDialsPastLimit == Spec => DialsWithinLimit
<1>1. IInv /\ [Next]_vars => [DialWithinLimit]_vars
  BY Zenon, DialStep DEF IInv
<1> QED
  BY <1>1, PeersInductive, PTL DEF Spec, DialsWithinLimit
=============================================================================
