-------------------------------- MODULE MCIp4 --------------------------------
(***************************************************************************)
(* Ip4 for TLC: hosts and MAC addresses are interchangeable.               *)
(***************************************************************************)
EXTENDS Ip4, TLC

\* Three requests for each host.
ThreeCalls == [ip \in Ips |-> 3]

Ip4Symmetry == Permutations(Ips) \union Permutations(Macs)
=============================================================================
