--------------------------------- MODULE Ip4 ---------------------------------
(***************************************************************************)
(* The sending half of IP4Protocol (mcucpp/net/Ip4Protocol) on top of ARP: *)
(* SendMessage transmits a packet at once when the address is known and    *)
(* else keeps it in _pendingPackets until ARP reports the address.         *)
(*                                                                         *)
(* Extends module Arp: SendMessage is the caller of AddressResolve, and    *)
(* AddressResolved is called by ArpProtocol::ProcessMessage, in the same   *)
(* step.  A packet is its number in order of the SendMessage calls.  The   *)
(* time stamp of a pending packet is left out: only ProcessPendingPackets  *)
(* reads it, and nothing calls that.                                       *)
(***************************************************************************)
EXTENDS Arp

CONSTANTS
  MaxPendingPackets,
  MaxPackets       \* bound of the model: SendMessage calls

ASSUME PacketsAssumption ==
  MaxPendingPackets \in Nat \ {0} /\ MaxPackets \in Nat

NoPacket    == 0
Packets     == 1..MaxPackets
PacketSlots == 1..MaxPendingPackets

VARIABLES
  resolver,  \* _adresssResolve is set
  waiting,   \* _pendingPackets
  next,      \* number of the next packet
  wire,      \* history: the frames the interface took
  refused,   \* history: packets SendMessage returned false for
  dropped,   \* history: pending packets whose Transmit failed
  since      \* history: packets whose destination announced itself after
             \*   SendMessage had accepted them

ip4Vars == <<resolver, waiting, next, wire, refused, dropped, since>>

EmptySlot == [packet |-> NoPacket, dest |-> NoIp]

(* Types of the packet state. *)
Ip4TypeOK ==
  /\ resolver \in BOOLEAN
  /\ waiting \in [PacketSlots -> [packet : Packets \union {NoPacket},
                                  dest : Ips \union {NoIp}]]
  /\ next \in 1..(MaxPackets + 1)
  /\ wire \subseteq [packet : Packets, dest : Ips, mac : Macs]
  /\ refused \subseteq Packets /\ dropped \subseteq Packets
  /\ since \subseteq Packets

Ip4Init ==
  /\ ArpInit
  /\ resolver = FALSE
  /\ waiting = [i \in PacketSlots |-> EmptySlot]
  /\ next = 1
  /\ wire = {} /\ refused = {} /\ dropped = {} /\ since = {}

Frame(packet, dest, mac) == [packet |-> packet, dest |-> dest, mac |-> mac]
FreeSlots == {i \in PacketSlots : waiting[i].packet = NoPacket}

-----------------------------------------------------------------------------

\* No memory for the header, or the interface refuses the frame.
SendFails ==
  /\ refused' = refused \union {next}
  /\ UNCHANGED <<waiting, wire>>

SendResolved(ip) ==
  /\ resolver /\ Resolved(ip)
  /\ UNCHANGED arpVars
  /\ \/ SendFails
     \/ /\ wire' = wire \union {Frame(next, ip, MacOf(ip))}
        /\ UNCHANGED <<waiting, refused>>

\* Mutant: with no free slot the first one is overwritten.
EnqueuePacketOver(ip) ==
  /\ waiting' = [i \in PacketSlots |->
                   IF i \in FirstOf(IF FreeSlots = {} THEN PacketSlots ELSE FreeSlots)
                   THEN [packet |-> next, dest |-> ip] ELSE waiting[i]]
  /\ UNCHANGED <<wire, refused>>

\* EnqueuePacket: the first free slot takes the packet, or it is released.
EnqueuePacket(ip) ==
  \/ FreeSlots = {} /\ SendFails
  \/ /\ FreeSlots # {}
     /\ waiting' = [i \in PacketSlots |->
                      IF i \in FirstOf(FreeSlots) THEN [packet |-> next, dest |-> ip]
                      ELSE waiting[i]]
     /\ UNCHANGED <<wire, refused>>

\* No resolver is asked before one is set: the packet waits all the same.
SendUnresolved(ip) ==
  /\ IF resolver THEN AddressResolve(ip) ELSE UNCHANGED arpVars
  /\ EnqueuePacket(ip)

SendWithoutHeader == UNCHANGED arpVars /\ SendFails

SendMessage(ip) ==
  /\ next <= MaxPackets
  /\ next' = next + 1
  /\ SendWithoutHeader \/ SendResolved(ip) \/ SendUnresolved(ip)
  /\ UNCHANGED <<resolver, dropped, since>>

SetAddressResolver(given) ==
  /\ resolver' = given
  /\ UNCHANGED <<arpVars, waiting, next, wire, refused, dropped, since>>

\* Mutant: AddressResolved sends the first packet only.
FlushedFirst(ip) == FirstOf({i \in PacketSlots : waiting[i].packet # NoPacket
                                                  /\ waiting[i].dest = ip})

\* Mutant: AddressResolved does not compare the destination.
FlushedAll(ip) == {i \in PacketSlots : waiting[i].packet # NoPacket}

\* The slots AddressResolved empties.
Flushed(ip) == {i \in PacketSlots : waiting[i].packet # NoPacket
                                     /\ waiting[i].dest = ip}

\* Mutant: the slot is not reset.
AfterFlushKept(slots) == waiting

AfterFlush(slots) ==
  [i \in PacketSlots |-> IF i \in slots THEN EmptySlot ELSE waiting[i]]

\* AddressResolved: every packet for the address leaves its slot; the
\* interface takes some of them, the others are lost.
AddressResolved(ip, mac) ==
  \E out \in SUBSET Flushed(ip) :
    /\ waiting' = AfterFlush(Flushed(ip))
    /\ wire' = wire \union {Frame(waiting[i].packet, waiting[i].dest, mac) : i \in out}
    /\ dropped' = dropped \union {waiting[i].packet : i \in Flushed(ip) \ out}

ArpReply(ip, mac) ==
  /\ ProcessReply(ip, mac)
  /\ AddressResolved(ip, mac)
  /\ since' = since \union
       {waiting[i].packet : i \in {j \in PacketSlots : waiting[j].dest = ip
                                     /\ waiting[j].packet # NoPacket}}
  /\ UNCHANGED <<resolver, next, refused>>

ArpStep ==
  /\ \/ \E ip \in Ips, mac \in Macs : AddAddress(ip, mac)
     \/ RunTask \/ ResendTimerFires \/ CacheTimerFires \/ ArpTick
  /\ UNCHANGED ip4Vars

Ip4Next ==
  \/ \E ip \in Ips : SendMessage(ip)
  \/ \E ip \in Ips, mac \in Macs : ArpReply(ip, mac)
  \/ \E given \in BOOLEAN : SetAddressResolver(given)
  \/ ArpStep

Ip4Spec == Ip4Init /\ [][Ip4Next]_<<arpVars, ip4Vars>>

-----------------------------------------------------------------------------
(* Properties *)

OnWire == {frame.packet : frame \in wire}
Waiting == {waiting[i].packet : i \in PacketSlots} \ {NoPacket}

(* A packet goes to the interface at most once: it is never both sent and  *)
(* still waiting, never sent from two slots, and never sent after          *)
(* SendMessage reported failure or Transmit failed.                        *)
SentOnce ==
  /\ \A f, g \in wire : f.packet = g.packet => f = g
  /\ \A i, j \in PacketSlots :
       waiting[i].packet = waiting[j].packet /\ waiting[i].packet # NoPacket => i = j
  /\ OnWire \intersect Waiting = {}
  /\ (OnWire \union Waiting) \intersect (refused \union dropped) = {}

(* No packet disappears between SendMessage, the slots and the interface:  *)
(* every packet was sent, waits, was refused, or was dropped by the        *)
(* interface when its address was resolved.                                *)
Accounted == OnWire \union Waiting \union refused \union dropped = 1..(next - 1)

(* When a host announces its address, all packets waiting for it leave,    *)
(* also when the table had no room for the announcement: a packet that     *)
(* waits has had no reply for its destination since it was accepted.       *)
NoneLeftBehind == Waiting \intersect since = {}

(* A frame goes to the MAC address that was last announced for its         *)
(* destination, whether it is sent at once from the table or when the      *)
(* reply arrives.                                                          *)
SentToLatest ==
  [][\A frame \in wire' \ wire : frame.mac = learned'[frame.dest]]_wire
=============================================================================
