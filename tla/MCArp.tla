-------------------------------- MODULE MCArp --------------------------------
(***************************************************************************)
(* Arp for TLC: two hosts, the first of which is asked for twice, so that  *)
(* a second AddressResolve can restart the shared timer and, once a slot   *)
(* before it was freed, record its address in two slots.                   *)
(***************************************************************************)
EXTENDS Arp, TLC

CONSTANTS host1, host2

TwoHosts    == {host1, host2}
CallsOfHost == host1 :> 2 @@ host2 :> 1
=============================================================================
