--------------------------- MODULE MCPeerDiscovery ---------------------------
(* Small instances of PeerDiscovery for TLC.                               *)
EXTENDS PeerDiscovery, TLC

CONSTANTS self, p1, p2, i1, i2

\* The two remote peers are interchangeable, and so are the announcements.
Interchangeable == Permutations({p1, p2}) \cup Permutations({i1, i2})
=============================================================================
