------------------------ MODULE MCEcosystemDiscovery ------------------------
(* Instances of EcosystemDiscovery: two calls, two gateway peers, and a     *)
(* peer that announces itself.                                              *)
EXTENDS EcosystemDiscovery, TLC

CONSTANTS here, f1, f2, u1, files, flux, t1, t2
=============================================================================
