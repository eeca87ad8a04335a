------------------------------ MODULE MCPeers -------------------------------
(***************************************************************************)
(* Small instances of Peers: the rendezvous nodes are configured.          *)
(***************************************************************************)
EXTENDS Peers

CONSTANTS n1, p1

MCNodeAddresses == <<n1, "no_peer_id">>
=============================================================================
