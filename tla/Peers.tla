------------------------------- MODULE Peers --------------------------------
(***************************************************************************)
(* How the event handler keeps its peers: the connections it lists, the    *)
(* peers it dials, the Kademlia routing table (inserts are manual), and    *)
(* the rendezvous client, which registers this node and discovers others,  *)
(* and does both again when an entry of the cache expires and its eviction *)
(* listener sends an event to the handler's channel.                       *)
(*                                                                         *)
(* Every action is one event handled by the loop, an eviction, or the      *)
(* environment (open, pending).  Two equal requests to a rendezvous node   *)
(* that are both pending count as one, and so do two dials of a peer.      *)
(***************************************************************************)
EXTENDS Naturals, Sequences, FiniteSets, Functions

CONSTANTS Peer,             \* the other nodes
          Rendezvous,       \* those that run the rendezvous protocol
          Self,             \* this node
          NodeAddresses,    \* settings: configured addresses, a peer or "no_peer_id"
          Announced,        \* settings: external addresses to announce
          PublicAddr, PrivateAddr,  \* addresses this node may be observed at
          MaxPeers,         \* settings: max_connected_peers
          AddressLimit,     \* settings: max_announce_addresses
          Enabled,          \* settings: behaviours that are switched on
          EventsBufferLen,  \* settings: events_buffer_len
          MaxConn           \* bound: connections open to one peer

\* The limits are counts, and the settings name finitely many addresses.
ASSUME PeersAssumption ==
    /\ MaxPeers \in Nat /\ AddressLimit \in Nat /\ EventsBufferLen \in Nat /\ MaxConn \in Nat
    /\ IsFiniteSet(Peer) /\ Rendezvous \subseteq Peer
    /\ NodeAddresses \in Seq(Peer \union {"no_peer_id"}) /\ IsFiniteSet(Announced)

VARIABLES open,        \* peer -> number of its open connections
          dialing,     \* peers dialled, the outcome pending
          peers,       \* connections.peers: the peers listed as connected
          kad,         \* peers of the Kademlia routing table
          external,    \* external addresses of the swarm
          cookies,     \* rendezvous nodes whose cookie is kept
          discovered_peers,  \* peer -> the rendezvous node it was discovered at
          pending,     \* rendezvous requests <<node, kind, whose cookie>>
          cache,       \* entries <<node, kind>>
          stuck,       \* the loop waits for room in its own channel
          chan         \* RegisterPeer and DiscoverPeers events <<node, kind>>

connVars == <<open, dialing, peers, kad>>
rdvVars == <<cookies, discovered_peers, pending>>
cacheVars == <<cache, stuck>>
vars == <<connVars, external, rdvVars, cacheVars, chan>>

Configured == Range(NodeAddresses) \cap Peer

\* The optional behaviours of the swarm.
Toggle(behaviour) == behaviour \in Enabled

Connected == {p \in Peer : open[p] > 0}

-----------------------------------------------------------------------------
(* The swarm *)

\* A dial is refused when the peer is connected (PeerCondition::Disconnected).
Dialable(ps) == ps \ Connected

\* Up to MaxPeers configured nodes are dialled; those of them whose address
\* names a peer are added to the routing table.
Init ==
    LET dialled == Range(SubSeq(NodeAddresses, 1, IF Len(NodeAddresses) < MaxPeers
                                                  THEN Len(NodeAddresses) ELSE MaxPeers))
    IN /\ dialing = dialled \cap Peer /\ kad = dialled \cap Peer
       /\ open = [p \in Peer |-> 0] /\ peers = {}
       /\ external = Announced
       /\ cookies = {} /\ discovered_peers = [p \in {} |-> Self] /\ pending = {}
       /\ cache = {} /\ stuck = FALSE /\ chan = <<>>

\* A dial succeeds, or a peer connects by itself.
ConnectionEstablished(p) ==
    /\ open[p] < MaxConn
    /\ open' = [open EXCEPT ![p] = @ + 1]
    /\ dialing' = dialing \ {p}
    /\ peers' = peers \union {p}
    /\ UNCHANGED <<kad, external, rdvVars, cacheVars, chan>>

\* Variant: a closed connection leaves the routing table as it is.
ConnectionClosedRouted(p) ==
    /\ open[p] > 0
    /\ open' = [open EXCEPT ![p] = @ - 1]
    /\ peers' = peers \ {p}
    /\ UNCHANGED <<dialing, kad, external, rdvVars, cacheVars, chan>>

\* One of the connections of a peer closes: the peer is no longer listed, nor
\* routed to unless it is configured, whether it has others or not.
ConnectionClosed(p) ==
    /\ open[p] > 0
    /\ open' = [open EXCEPT ![p] = @ - 1]
    /\ peers' = peers \ {p}
    /\ kad' = IF p \in Configured THEN kad ELSE kad \ {p}
    /\ UNCHANGED <<dialing, external, rdvVars, cacheVars, chan>>

OutgoingConnectionError(p) ==
    /\ p \in dialing
    /\ dialing' = dialing \ {p}
    /\ UNCHANGED <<open, peers, kad, external, rdvVars, cacheVars, chan>>

\* mDNS: every peer found is dialled while the list is not full; of one that
\* expires and is known, the address is removed from the routing table.
MdnsDiscovered(ps) ==
    /\ Toggle("mdns")
    /\ dialing' = IF Cardinality(peers) < MaxPeers THEN dialing \union Dialable(ps) ELSE dialing
    /\ UNCHANGED <<open, peers, kad, external, rdvVars, cacheVars, chan>>

MdnsExpired(p, known) ==
    /\ Toggle("mdns")
    /\ kad' = IF known THEN kad \ {p} ELSE kad
    /\ UNCHANGED <<open, dialing, peers, external, rdvVars, cacheVars, chan>>

-----------------------------------------------------------------------------
(* The rendezvous client *)

\* register fails at once while the swarm has no external address to register.
Register(n) == IF external = {} THEN {} ELSE {<<n, "register", "none">>}
Discover(n, cookie) == {<<n, "discover", cookie>>}
CookieOf(p) == IF p \in cookies THEN p ELSE "none"

\* A peer of this protocol version is identified over a connection: it is
\* added to the routing table, and with a rendezvous node this node registers
\* and discovers, without a cookie.  Other versions are ignored.
IdentifyReceived(p, kademlia) ==
    /\ p \in Connected
    /\ kad' = IF kademlia THEN kad \union {p} ELSE kad
    /\ pending' = IF p \in Rendezvous /\ Toggle("rendezvous_client")
                  THEN pending \union Register(p) \union Discover(p, "none") ELSE pending
    /\ UNCHANGED <<open, dialing, peers, external, cookies, discovered_peers, cacheVars, chan>>

\* Variant: private addresses are announced.
IdentifySelfAny(addr) ==
    /\ external' = IF Cardinality(external) < AddressLimit THEN external \union {addr} ELSE external
    /\ UNCHANGED <<connVars, rdvVars, cacheVars, chan>>

\* This node identifies itself: the address it is observed at is announced if
\* it is not private and there are not too many.
IdentifySelf(addr) ==
    /\ external' = IF Cardinality(external) < AddressLimit /\ addr \notin PrivateAddr
                   THEN external \union {addr} ELSE external
    /\ UNCHANGED <<connVars, rdvVars, cacheVars, chan>>

\* The registrations of peers that are not listed, and how many of them come
\* before the one at i.
New(registrations) == {i \in DOMAIN registrations : registrations[i] \notin peers}
Index(registrations, i) == Cardinality({j \in New(registrations) : j < i})

\* Variant: one registration too many.
ToDialPastLimit(registrations) ==
    {registrations[i] : i \in
        {i \in New(registrations) : /\ registrations[i] # Self
                                    /\ Cardinality(peers) + Index(registrations, i) <= MaxPeers}}

\* The registrations that are dialled: new, not this node, and while the place
\* in the list of new ones leaves the limit respected.
ToDial(registrations) ==
    {registrations[i] : i \in
        {i \in New(registrations) : /\ registrations[i] # Self
                                    /\ Cardinality(peers) + Index(registrations, i) < MaxPeers}}

\* cache.insert: the entry is made.  The cache may use the occasion to evict what
\* has expired, in the loop itself: with a full channel the listener's send is
\* then one that only the loop could make room for.
Insert(e) ==
    /\ cache' = cache \union {e}
    /\ stuck' \in IF cache # {} /\ Len(chan) = EventsBufferLen THEN BOOLEAN ELSE {FALSE}

\* Variant: the cookie is not kept.
DiscoveredNoCookie(req, registrations) ==
    /\ req \in pending /\ req[2] = "discover"
    /\ pending' = pending \ {req}
    /\ Insert(<<req[1], "discover">>)
    /\ UNCHANGED <<connVars, external, cookies, discovered_peers, chan>>

\* Discovered: the cookie is kept; below the limit peers are dialled and
\* discovery is entered in the cache to be repeated.
Discovered(req, registrations) ==
    /\ req \in pending /\ req[2] = "discover"
    /\ pending' = pending \ {req}
    /\ cookies' = cookies \union {req[1]}
    /\ IF Cardinality(peers) >= MaxPeers
       THEN UNCHANGED <<dialing, discovered_peers, cacheVars>>
       ELSE LET dialled == Dialable(ToDial(registrations)) IN
            /\ dialing' = dialing \union dialled
            /\ discovered_peers' = [p \in dialled \union DOMAIN discovered_peers |->
                                      IF p \in dialled THEN req[1] ELSE discovered_peers[p]]
            /\ Insert(<<req[1], "discover">>)
    /\ UNCHANGED <<open, peers, kad, external, chan>>

\* DiscoverFailed, RegisterFailed, and a discovery of another namespace: logged.
RequestFailed(req) ==
    /\ req \in pending
    /\ pending' = pending \ {req}
    /\ UNCHANGED <<connVars, external, cookies, discovered_peers, cacheVars, chan>>

Registered(req) ==
    /\ req \in pending /\ req[2] = "register"
    /\ pending' = pending \ {req}
    /\ Insert(<<req[1], "register">>)
    /\ UNCHANGED <<connVars, external, cookies, discovered_peers, chan>>

\* The registration of a discovered peer expires: discovered again where it was
\* found, with the cookie kept under the name of the peer.
Expired(p) ==
    /\ p \in DOMAIN discovered_peers
    /\ discovered_peers' = [q \in (DOMAIN discovered_peers) \ {p} |-> discovered_peers[q]]
    /\ pending' = pending \union Discover(discovered_peers[p], CookieOf(p))
    /\ UNCHANGED <<connVars, external, cookies, cacheVars, chan>>

\* Variant: an expired entry is dropped like a replaced one.
EvictSilently(e) ==
    /\ e \in cache
    /\ cache' = cache \ {e}
    /\ UNCHANGED <<connVars, external, rdvVars, stuck, chan>>

\* An entry expires and poll_cache evicts it: the eviction listener waits for room in the channel.
Evict(e) ==
    /\ e \in cache /\ Len(chan) < EventsBufferLen
    /\ cache' = cache \ {e}
    /\ chan' = Append(chan, e)
    /\ UNCHANGED <<connVars, external, rdvVars, stuck>>

\* RegisterPeer and DiscoverPeers are taken from the channel.
HandleEvent ==
    /\ ~ stuck /\ chan # <<>>
    /\ chan' = Tail(chan)
    /\ LET n == Head(chan)[1] IN
       pending' = pending \union IF Head(chan)[2] = "register" THEN Register(n)
                                 ELSE Discover(n, CookieOf(n))
    /\ UNCHANGED <<connVars, external, cookies, discovered_peers, cacheVars>>

-----------------------------------------------------------------------------
\* What a rendezvous node may answer: registrations, of this node too.
Registrations == UNION {Injection(1..Cardinality(ps), ps) : ps \in SUBSET (Peer \union {Self})}

SwarmEvent ==
    \/ \E p \in Peer : \/ ConnectionEstablished(p) \/ ConnectionClosed(p)
                       \/ OutgoingConnectionError(p)
                       \/ \E known \in BOOLEAN : MdnsExpired(p, known)
                       \/ \E kademlia \in BOOLEAN : IdentifyReceived(p, kademlia)
                       \/ Expired(p)
    \/ \E ps \in SUBSET Peer : MdnsDiscovered(ps)
    \/ \E addr \in PublicAddr \union PrivateAddr : IdentifySelf(addr)
    \/ \E req \in pending : \/ \E rs \in Registrations : Discovered(req, rs)
                            \/ RequestFailed(req) \/ Registered(req)

Next == (~ stuck /\ SwarmEvent) \/ HandleEvent \/ \E e \in cache : Evict(e)

\* poll_cache runs for ever, and the loop comes back to its channel (see
\* EventHandler).  Nothing is assumed of the network.
Fairness == SF_vars(HandleEvent) /\ \A e \in Rendezvous \X {"register", "discover"} : SF_vars(Evict(e))

Spec == Init /\ [][Next]_vars /\ Fairness

-----------------------------------------------------------------------------
Kind == {"register", "discover"}

\* The connections, tables, requests, cache entries and events are of the peers
\* they can be of, and the limits on connections, events and addresses hold.
TypeOK ==
    /\ open \in [Peer -> 0..MaxConn] /\ dialing \subseteq Peer /\ peers \subseteq Peer
    /\ kad \subseteq Peer
    /\ external \subseteq Announced \union PublicAddr
    /\ Cardinality(external \ Announced) <= AddressLimit
    /\ cookies \subseteq Rendezvous
    /\ DOMAIN discovered_peers \subseteq Peer /\ Range(discovered_peers) \subseteq Rendezvous
    /\ pending \subseteq Rendezvous \X Kind \X (Rendezvous \union {"none"})
    /\ cache \subseteq Rendezvous \X Kind /\ stuck \in BOOLEAN
    /\ chan \in Seq(Rendezvous \X Kind) /\ Len(chan) <= EventsBufferLen

\* The node information the runner reports lists only peers with an open
\* connection, and records and queries are routed only to connected or
\* configured peers, in whatever order connections are opened, identified and
\* closed (ConnectionEstablished, ConnectionClosed, Identify).
ListedIsConnected == peers \subseteq Connected /\ kad \subseteq Connected \union Configured

\* A discovery that the timer repeats continues from a cookie: the cookie is
\* kept before the entry is made, and nothing on the way through the cache, the
\* eviction listener and the channel loses it.
TimedDiscoveryHasCookie ==
    \A n \in Rendezvous : <<n, "discover">> \in cache \union Range(chan) => n \in cookies

\* What a step may dial: nothing when the peers listed fill the limit, and on the
\* answer of a rendezvous node no more than there are places.
DialWithinLimit ==
    LET dialled == dialing' \ dialing IN
    dialled # {} => /\ Cardinality(peers) < MaxPeers
                    /\ pending' # pending => Cardinality(peers \union dialled) <= MaxPeers

\* No event makes the node dial when the peers listed fill the limit, and the
\* answer of a rendezvous node never makes it dial more than there are places.
DialsWithinLimit == [][DialWithinLimit]_vars

\* An entry made by a registration or a discovery leads to the next one: it
\* expires, the listener's event is taken, and the request is made, unless the
\* loop has evicted an entry itself while its channel was full.
RenewalsSent ==
    \A e \in Rendezvous \X Kind :
        e \in cache ~> (stuck \/ \E req \in pending : <<req[1], req[2]>> = e)
=============================================================================
