CONSTANTS
    n1 = n1
    p1 = p1
    Peer = {n1, p1}
    Rendezvous = {n1}
    Self = self
    NodeAddresses <- MCNodeAddresses
    Announced = {}
    PublicAddr = {a1}
    PrivateAddr = {a2}
    MaxPeers = 1
    AddressLimit = 1
    Enabled = {"mdns", "rendezvous_client"}
    EventsBufferLen = 1
    MaxConn = 2
SPECIFICATION Spec
INVARIANTS
    TypeOK
    ListedIsConnected
    TimedDiscoveryHasCookie
PROPERTIES
    
    RenewalsSent
CHECK_DEADLOCK FALSE
