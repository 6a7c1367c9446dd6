------------------------ MODULE MCSocksUdpGwClient ------------------------
(* Small instances of SocksUdpGwClient for TLC. *)
EXTENDS SocksUdpGwClient, TLC

Symmetry == Permutations(Con) \cup Permutations(Locals) \cup Permutations(Remotes)
=============================================================================
