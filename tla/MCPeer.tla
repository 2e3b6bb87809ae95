------------------------------- MODULE MCPeer -------------------------------
(***************************************************************************)
(* Peer with a few calls and requests: the configurations give numbers.    *)
(***************************************************************************)
EXTENDS Peer
=============================================================================
