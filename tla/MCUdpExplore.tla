---------------------------- MODULE MCUdpExplore ----------------------------
(* Small networks for UdpExplore: the routers are interchangeable.           *)
EXTENDS UdpExplore, TLC

Routers == Permutations(Hosts)
=============================================================================
