------------------------------ MODULE Ip4Proofs ------------------------------
(***************************************************************************)
(* Proofs about modules Arp and Ip4, for every number of hosts, table      *)
(* entries, pending requests, attempts, packet slots and packets.          *)
(*                                                                         *)
(* ARP: the table holds one entry per address and always the latest one, and *)
(* a pending request is watched by the retry timer.  The inductive invariant *)
(* is the conjunction of the three with the type invariant: TableUnique is *)
(* what keeps an older entry from surviving behind the renewed one, which  *)
(* FreshMapping needs.  ChainOnce is the timer of the cache, and Owed what *)
(* the pending slots may still send, which bounds the requests.            *)
(*                                                                         *)
(* IPv4: packets are sent at most once, none disappears, none is left behind *)
(* by a reply, and each goes to the MAC address last announced.  The       *)
(* invariant adds that every packet the history knows is older than next   *)
(* (PacketsOld), so that SendMessage brings in a new one.                  *)
(***************************************************************************)
EXTENDS Ip4, FiniteSetTheorems, WellFoundedInduction, TLAPS

ArpInv == ArpTypeOK /\ TableUnique /\ FreshMapping /\ PendingIsWatched

USE SizesAssumption, AddressAssumption

(* What ArpTable::Add leaves: the entries of other addresses as they were, *)
(* and at most one entry of the address, with the new MAC address.         *)
LEMMA AddFacts ==
  ASSUME NEW tbl \in [TableSlots -> [ip : Ips \union {NoIp}, mac : Macs \union {NoMac},
                                     age : EntryAges]],
         \A i, j \in TableSlots : tbl[i].ip = tbl[j].ip /\ tbl[i].ip # NoIp => i = j,
         NEW ip \in Ips, NEW mac \in Macs
  PROVE  LET new == Add(tbl, ip, mac) IN
         /\ new \in [TableSlots -> [ip : Ips \union {NoIp}, mac : Macs \union {NoMac},
                                    age : EntryAges]]
         /\ \A i, j \in TableSlots : new[i].ip = new[j].ip /\ new[i].ip # NoIp => i = j
         /\ \A i \in TableSlots : \/ new[i].ip = ip /\ new[i].mac = mac
                                  \/ new[i] = tbl[i] /\ tbl[i].ip # ip
<1> DEFINE slot == FirstOf(IF EntriesOf(tbl, ip) # {} THEN EntriesOf(tbl, ip)
                                                      ELSE EntriesOf(tbl, NoIp))
           new == Add(tbl, ip, mac)
<1>1. \A i, j \in slot : i = j /\ i \in TableSlots
  BY DEF FirstOf, EntriesOf, TableSlots
<1>2. \A i \in TableSlots : tbl[i].ip = ip => i \in slot
  BY DEF FirstOf, EntriesOf, TableSlots
<1>3. \A i \in TableSlots : new[i] = IF i \in slot
                                     THEN [ip |-> ip, mac |-> mac, age |-> 0] ELSE tbl[i]
  BY DEF Add
<1>4. 0 \in EntryAges
  BY DEF EntryAges
<1>5. new \in [TableSlots -> [ip : Ips \union {NoIp}, mac : Macs \union {NoMac},
                              age : EntryAges]]
  BY <1>4 DEF Add
<1> HIDE DEF slot, new
<1>6. \A i \in TableSlots : \/ new[i].ip = ip /\ new[i].mac = mac /\ i \in slot
                            \/ new[i] = tbl[i] /\ tbl[i].ip # ip
  BY <1>2, <1>3
<1>7. \A i, j \in TableSlots : new[i].ip = new[j].ip /\ new[i].ip # NoIp => i = j
  BY <1>1, <1>6
<1> QED  BY <1>5, <1>6, <1>7 DEF new

(* Growing older and being sent again keep the types of the records. *)
LEMMA RecordTypes ==
  /\ \A r \in [ip : Ips \union {NoIp}, mac : Macs \union {NoMac}, age : EntryAges] :
       Older(r, CacheTimeout + 1) \in
         [ip : Ips \union {NoIp}, mac : Macs \union {NoMac}, age : EntryAges]
  /\ \A r \in [ip : Ips \union {NoIp}, age : RequestAges,
               attempts : 0..(ArpAttempts - 1)] :
       /\ Older(r, ArpResendTimeout + 1) \in
            [ip : Ips \union {NoIp}, age : RequestAges, attempts : 0..(ArpAttempts - 1)]
       /\ r.attempts # 0 => Retried(r) \in
            [ip : Ips \union {NoIp}, age : RequestAges, attempts : 0..(ArpAttempts - 1)]
<1>1. ASSUME NEW r \in [ip : Ips \union {NoIp}, mac : Macs \union {NoMac},
                        age : EntryAges]
      PROVE  Older(r, CacheTimeout + 1) \in
               [ip : Ips \union {NoIp}, mac : Macs \union {NoMac}, age : EntryAges]
  <2>1. r.age < CacheTimeout + 1 => r.age + 1 \in EntryAges
    BY DEF EntryAges
  <2> QED  BY <2>1 DEF Older
<1>2. ASSUME NEW r \in [ip : Ips \union {NoIp}, age : RequestAges,
                        attempts : 0..(ArpAttempts - 1)]
      PROVE  Older(r, ArpResendTimeout + 1) \in
               [ip : Ips \union {NoIp}, age : RequestAges,
                attempts : 0..(ArpAttempts - 1)]
  <2>1. r.age < ArpResendTimeout + 1 => r.age + 1 \in RequestAges
    BY DEF RequestAges
  <2> QED  BY <2>1 DEF Older
<1>3. ASSUME NEW r \in [ip : Ips \union {NoIp}, age : RequestAges,
                        attempts : 0..(ArpAttempts - 1)], r.attempts # 0
      PROVE  Retried(r) \in
               [ip : Ips \union {NoIp}, age : RequestAges,
                attempts : 0..(ArpAttempts - 1)]
  <2>1. r.attempts - 1 \in 0..(ArpAttempts - 1) /\ 0 \in RequestAges
    BY <1>3 DEF RequestAges
  <2> QED  BY <2>1 DEF Retried
<1> QED  BY <1>1, <1>2, <1>3

(* The constructor establishes the invariant. *)
LEMMA InitArpInv == ArpInit => ArpInv
<1> SUFFICES ASSUME ArpInit PROVE ArpInv
  OBVIOUS
<1>1. ArpTypeOK
  <2>1. table \in [TableSlots -> [ip : Ips \union {NoIp}, mac : Macs \union {NoMac},
                                  age : EntryAges]]
    BY DEF ArpInit, EmptyEntry, EntryAges
  <2>2. pending \in [PendingSlots -> [ip : Ips \union {NoIp}, age : RequestAges,
                                      attempts : 0..(ArpAttempts - 1)]]
    BY DEF ArpInit, EmptyRequest, RequestAges
  <2>3. resendIn \in Off..ArpResendTimeout /\ cacheIn \in Off..CacheTimeout
    BY DEF ArpInit, Off
  <2>4. taskq \in Seq({"resend", "invalidate"})
    BY DEF ArpInit
  <2>5. /\ learned \in [Ips -> Macs \union {NoMac}]
        /\ calls \in [Ips -> Nat] /\ sent \in [Ips -> Nat]
    BY DEF ArpInit
  <2> QED  BY <2>1, <2>2, <2>3, <2>4, <2>5 DEF ArpInit, ArpTypeOK
<1>2. TableUnique /\ FreshMapping
  BY DEF ArpInit, TableUnique, FreshMapping, EmptyEntry
<1>3. PendingIsWatched
  BY DEF ArpInit, PendingIsWatched, EmptyRequest
<1> QED  BY <1>1, <1>2, <1>3 DEF ArpInv

(* AddressResolve keeps it: the timer is set, or lost, with the request. *)
LEMMA ResolveStep ==
  ASSUME ArpInv, NEW ip \in Ips, AddressResolve(ip)  PROVE ArpInv'
<1> USE DEF ArpInv
<1>1. ArpTypeOK'
  <2>1. pending' \in [PendingSlots -> [ip : Ips \union {NoIp}, age : RequestAges,
                                       attempts : 0..(ArpAttempts - 1)]]
    BY DEF ArpTypeOK, AddressResolve, StartRequest, NewRequest, RequestAges
  <2>2. resendIn' \in Off..ArpResendTimeout /\ lost' \in BOOLEAN
    <3>1. resendIn' \in Off..ArpResendTimeout
      BY DEF ArpTypeOK, AddressResolve, StartRequest, SetArpTimer, Off
    <3>2. lost' \in BOOLEAN
      BY Zenon DEF ArpTypeOK, AddressResolve, StartRequest, SetArpTimer
    <3> QED  BY <3>1, <3>2
  <2>3. calls' \in [Ips -> Nat] /\ sent' \in [Ips -> Nat]
    BY DEF ArpTypeOK, AddressResolve, StartRequest
  <2> QED  BY <2>1, <2>2, <2>3 DEF ArpTypeOK, AddressResolve
<1>2. TableUnique' /\ FreshMapping'
  BY DEF TableUnique, FreshMapping, AddressResolve
<1>3. PendingIsWatched'
  BY DEF PendingIsWatched, ArpTypeOK, AddressResolve, StartRequest, SetArpTimer, Off
<1> QED  BY <1>1, <1>2, <1>3

(* The table after a reply or an addition by hand. *)
LEMMA LearnStep ==
  ASSUME ArpInv, NEW ip \in Ips, NEW mac \in Macs,
         table' = Add(table, ip, mac), learned' = [learned EXCEPT ![ip] = mac]
  PROVE  /\ table' \in [TableSlots -> [ip : Ips \union {NoIp}, mac : Macs \union {NoMac},
                                       age : EntryAges]]
         /\ learned' \in [Ips -> Macs \union {NoMac}]
         /\ TableUnique' /\ FreshMapping'
<1> USE DEF ArpInv
<1>1. /\ table' \in [TableSlots -> [ip : Ips \union {NoIp}, mac : Macs \union {NoMac},
                                    age : EntryAges]]
      /\ TableUnique'
      /\ \A i \in TableSlots : \/ table'[i].ip = ip /\ table'[i].mac = mac
                               \/ table'[i] = table[i] /\ table[i].ip # ip
  <2>1. table \in [TableSlots -> [ip : Ips \union {NoIp}, mac : Macs \union {NoMac},
                                  age : EntryAges]]
    BY DEF ArpTypeOK
  <2>2. \A i, j \in TableSlots : table[i].ip = table[j].ip /\ table[i].ip # NoIp => i = j
    BY DEF TableUnique
  <2> HIDE DEF ArpInv
  <2> QED  BY <2>1, <2>2, AddFacts DEF TableUnique
<1>2. learned' \in [Ips -> Macs \union {NoMac}]
  BY DEF ArpTypeOK
<1>3. \A i \in TableSlots : table[i].ip \in Ips \union {NoIp}
  BY DEF ArpTypeOK
<1>4. learned'[ip] = mac /\ \A other \in Ips \ {ip} : learned'[other] = learned[other]
  BY DEF ArpTypeOK
<1>5. FreshMapping'
  BY <1>1, <1>3, <1>4 DEF FreshMapping
<1> QED  BY <1>1, <1>2, <1>5

(* A reply keeps it. *)
LEMMA ReplyStep ==
  ASSUME ArpInv, NEW ip \in Ips, NEW mac \in Macs, ProcessReply(ip, mac)
  PROVE  ArpInv'
<1>1. table' = Add(table, ip, mac) /\ learned' = [learned EXCEPT ![ip] = mac]
  BY DEF ProcessReply
<1>2. pending' \in [PendingSlots -> [ip : Ips \union {NoIp}, age : RequestAges,
                                     attempts : 0..(ArpAttempts - 1)]]
  BY DEF ArpInv, ArpTypeOK, ProcessReply, EmptyRequest, RequestAges
<1>3. ArpTypeOK'
  BY <1>1, <1>2, LearnStep DEF ArpInv, ArpTypeOK, ProcessReply
<1>4. PendingIsWatched'
  BY DEF ArpInv, ArpTypeOK, PendingIsWatched, ProcessReply, EmptyRequest
<1> QED  BY <1>1, <1>3, <1>4, LearnStep DEF ArpInv

(* AddAddress keeps it. *)
LEMMA AddAddressStep ==
  ASSUME ArpInv, NEW ip \in Ips, NEW mac \in Macs, AddAddress(ip, mac)
  PROVE  ArpInv'
<1>1. table' = Add(table, ip, mac) /\ learned' = [learned EXCEPT ![ip] = mac]
  BY DEF AddAddress
<1>2. ArpTypeOK'
  BY <1>1, LearnStep DEF ArpInv, ArpTypeOK, AddAddress
<1>3. PendingIsWatched'
  BY DEF ArpInv, PendingIsWatched, AddAddress
<1> QED  BY <1>1, <1>2, <1>3, LearnStep DEF ArpInv

(* ProcessPendingRequests keeps it: what it leaves pending it repeated, and so *)
(* set the timer again, or skipped. *)
LEMMA ResendTaskStep ==
  ASSUME ArpInv, taskq # <<>>, taskq' = Tail(taskq), ProcessPendingRequests
  PROVE  ArpInv'
<1> USE DEF ArpInv
<1> DEFINE used   == {i \in PendingSlots : pending[i].ip # NoIp}
           spent  == {i \in used : pending[i].attempts = 0}
           resend == {i \in used \ spent : pending[i].age > ArpResendTimeout}
<1>1. \A i \in PendingSlots :
        pending'[i] = IF i \in spent THEN EmptyRequest
                      ELSE IF i \in resend THEN Retried(pending[i]) ELSE pending[i]
  BY DEF ProcessPendingRequests
<1>2. ArpTypeOK'
  <2>1. \A i \in resend : Retried(pending[i]) \in
           [ip : Ips \union {NoIp}, age : RequestAges, attempts : 0..(ArpAttempts - 1)]
    BY RecordTypes DEF ArpTypeOK
  <2>2. EmptyRequest \in
           [ip : Ips \union {NoIp}, age : RequestAges, attempts : 0..(ArpAttempts - 1)]
    BY DEF EmptyRequest, RequestAges
  <2>3. pending' \in [PendingSlots -> [ip : Ips \union {NoIp}, age : RequestAges,
                                       attempts : 0..(ArpAttempts - 1)]]
    BY <2>1, <2>2 DEF ArpTypeOK, ProcessPendingRequests
  <2>4. sent' \in [Ips -> Nat]
    <3>1. \A ip \in Ips : Cardinality({i \in resend : pending[i].ip = ip}) \in Nat
      <4>1. IsFiniteSet(PendingSlots)
        BY FS_Interval DEF PendingSlots
      <4>2. \A ip \in Ips : {i \in resend : pending[i].ip = ip} \subseteq PendingSlots
        OBVIOUS
      <4> QED  BY <4>1, <4>2, FS_Subset, FS_CardinalityType
    <3> HIDE DEF resend
    <3>2. sent' = [ip \in Ips |-> sent[ip]
                     + Cardinality({i \in resend : pending[i].ip = ip})]
      BY DEF ProcessPendingRequests, resend
    <3>3. \A ip \in Ips : sent[ip] \in Nat
      BY DEF ArpTypeOK
    <3>4. \A ip \in Ips : sent[ip] + Cardinality({i \in resend : pending[i].ip = ip}) \in Nat
      BY <3>1, <3>3
    <3> QED  BY <3>2, <3>4
  <2>5. resendIn' \in Off..ArpResendTimeout
    BY DEF ArpTypeOK, ProcessPendingRequests, Rearm, SetArpTimer, Off
  <2>6. lost' \in BOOLEAN /\ skipped' \in BOOLEAN
    BY Zenon DEF ArpTypeOK, ProcessPendingRequests, Rearm, SetArpTimer
  <2>7. taskq' \in Seq({"resend", "invalidate"})
    BY DEF ArpTypeOK
  <2> QED  BY <2>3, <2>4, <2>5, <2>6, <2>7 DEF ArpTypeOK, ProcessPendingRequests
<1>3. TableUnique' /\ FreshMapping'
  BY DEF TableUnique, FreshMapping, ProcessPendingRequests
<1>4. PendingIsWatched'
  <2>1. CASE resend # {}
    BY <2>1 DEF PendingIsWatched, ProcessPendingRequests, Rearm, SetArpTimer, Off
  <2>2. CASE resend = {}
    <3>1. CASE used = spent
      BY <1>1, <2>2, <3>1 DEF PendingIsWatched, EmptyRequest
    <3>2. CASE used # spent
      BY <2>2, <3>2 DEF PendingIsWatched, ProcessPendingRequests
    <3> QED  BY <3>1, <3>2
  <2> QED  BY <2>1, <2>2
<1> QED  BY <1>2, <1>3, <1>4

(* InvalidateChache keeps it. *)
LEMMA InvalidateTaskStep ==
  ASSUME ArpInv, taskq # <<>>, Head(taskq) = "invalidate", taskq' = Tail(taskq),
         InvalidateChache
  PROVE  ArpInv'
<1> USE DEF ArpInv
<1>1. ArpTypeOK'
  <2>1. table' \in [TableSlots -> [ip : Ips \union {NoIp}, mac : Macs \union {NoMac},
                                   age : EntryAges]]
    BY DEF ArpTypeOK, InvalidateChache, Invalidate, EmptyEntry, EntryAges
  <2>2. cacheIn' \in Off..CacheTimeout
    BY DEF ArpTypeOK, InvalidateChache, SetArpTimer, Off
  <2>3. lost' \in BOOLEAN
    BY Zenon DEF ArpTypeOK, InvalidateChache, SetArpTimer
  <2>4. taskq' \in Seq({"resend", "invalidate"})
    BY DEF ArpTypeOK
  <2> QED  BY <2>1, <2>2, <2>3, <2>4 DEF ArpTypeOK, InvalidateChache
<1>2. TableUnique' /\ FreshMapping'
  BY DEF ArpTypeOK, TableUnique, FreshMapping, InvalidateChache, Invalidate, EmptyEntry
<1>3. PendingIsWatched'
  <2>1. \A k \in DOMAIN taskq : taskq[k] = "resend" =>
          \E l \in DOMAIN taskq' : taskq'[l] = "resend"
    <3> SUFFICES ASSUME NEW k \in DOMAIN taskq, taskq[k] = "resend"
                 PROVE  k - 1 \in DOMAIN taskq' /\ taskq'[k - 1] = "resend"
      OBVIOUS
    <3>1. k # 1
      BY DEF ArpTypeOK
    <3> QED  BY <3>1 DEF ArpTypeOK
  <2>2. lost => lost'
    BY Zenon DEF InvalidateChache, SetArpTimer
  <2> QED  BY <2>1, <2>2 DEF PendingIsWatched, InvalidateChache
<1> QED  BY <1>1, <1>2, <1>3

(* A timer that fires keeps it. *)
LEMMA TimerStep ==
  ASSUME ArpInv, ResendTimerFires \/ CacheTimerFires  PROVE ArpInv'
<1> USE DEF ArpInv
<1>1. ArpTypeOK'
  <2>1. resendIn' \in Off..ArpResendTimeout /\ cacheIn' \in Off..CacheTimeout
    BY DEF ArpTypeOK, ResendTimerFires, CacheTimerFires, TimerFires, Off
  <2>2. taskq' \in Seq({"resend", "invalidate"})
    <3>1. taskq' \in {taskq, Append(taskq, "resend"), Append(taskq, "invalidate")}
      BY DEF ResendTimerFires, CacheTimerFires, TimerFires
    <3>2. taskq \in Seq({"resend", "invalidate"})
      BY DEF ArpTypeOK
    <3>3. \A t \in {"resend", "invalidate"} :
            Append(taskq, t) \in Seq({"resend", "invalidate"})
      BY <3>2
    <3> QED  BY <3>1, <3>2, <3>3
  <2>3. lost' \in BOOLEAN
    BY Zenon DEF ArpTypeOK, ResendTimerFires, CacheTimerFires, TimerFires
  <2> QED  BY <2>1, <2>2, <2>3
           DEF ArpTypeOK, ResendTimerFires, CacheTimerFires, TimerFires
<1>2. TableUnique' /\ FreshMapping'
  BY DEF TableUnique, FreshMapping, ResendTimerFires, CacheTimerFires, TimerFires
<1>3. PendingIsWatched'
  <2>1. CASE lost'
    BY <2>1 DEF PendingIsWatched
  <2>2. CASE ~lost' /\ ResendTimerFires
    <3>1. taskq' = Append(taskq, "resend")
      BY <2>2 DEF ResendTimerFires, TimerFires
    <3>2. Len(taskq) + 1 \in DOMAIN taskq' /\ taskq'[Len(taskq) + 1] = "resend"
      BY <3>1 DEF ArpTypeOK
    <3> QED  BY <3>2 DEF PendingIsWatched
  <2>3. CASE ~lost' /\ CacheTimerFires
    <3>1. taskq' = Append(taskq, "invalidate") /\ ~lost
      BY <2>3 DEF CacheTimerFires, TimerFires
    <3>2. \A k \in DOMAIN taskq : k \in DOMAIN taskq' /\ taskq'[k] = taskq[k]
      BY <3>1 DEF ArpTypeOK
    <3> QED  BY <2>3, <3>1, <3>2 DEF PendingIsWatched, CacheTimerFires, TimerFires
  <2> QED  BY <2>1, <2>2, <2>3
<1> QED  BY <1>1, <1>2, <1>3

(* The tick keeps it. *)
LEMMA TickStep == ASSUME ArpInv, ArpTick PROVE ArpInv'
<1> USE DEF ArpInv
<1>1. ArpTypeOK'
  <2>1. table' \in [TableSlots -> [ip : Ips \union {NoIp}, mac : Macs \union {NoMac},
                                   age : EntryAges]]
    BY RecordTypes DEF ArpTypeOK, ArpTick
  <2>2. pending' \in [PendingSlots -> [ip : Ips \union {NoIp}, age : RequestAges,
                                       attempts : 0..(ArpAttempts - 1)]]
    BY RecordTypes DEF ArpTypeOK, ArpTick
  <2>3. resendIn' \in Off..ArpResendTimeout /\ cacheIn' \in Off..CacheTimeout
    BY DEF ArpTypeOK, ArpTick, TimerLeft, Off
  <2> QED  BY <2>1, <2>2, <2>3 DEF ArpTypeOK, ArpTick
<1>2. \A i \in TableSlots : table'[i].ip = table[i].ip /\ table'[i].mac = table[i].mac
  BY DEF ArpTypeOK, ArpTick, Older
<1>3. TableUnique' /\ FreshMapping'
  BY <1>2 DEF TableUnique, FreshMapping, ArpTick
<1>4. \A i \in PendingSlots : pending'[i].ip = pending[i].ip
  BY DEF ArpTypeOK, ArpTick, Older
<1>5. resendIn # Off => resendIn' # Off
  BY DEF ArpTypeOK, ArpTick, TimerLeft, Off
<1>6. PendingIsWatched'
  BY <1>4, <1>5 DEF PendingIsWatched, ArpTick
<1> QED  BY <1>1, <1>3, <1>6

-----------------------------------------------------------------------------

(* The invariant is inductive. *)
LEMMA NextArpInv == ArpInv /\ [ArpNext]_arpVars => ArpInv'
<1> SUFFICES ASSUME ArpInv, [ArpNext]_arpVars PROVE ArpInv'
  OBVIOUS
<1>1. ASSUME NEW ip \in Ips, AddressResolve(ip) PROVE ArpInv'
  BY <1>1, ResolveStep
<1>2. ASSUME NEW ip \in Ips, NEW mac \in Macs, ProcessReply(ip, mac) PROVE ArpInv'
  BY <1>2, ReplyStep
<1>3. ASSUME NEW ip \in Ips, NEW mac \in Macs, AddAddress(ip, mac) PROVE ArpInv'
  BY <1>3, AddAddressStep
<1>4. CASE RunTask
  BY <1>4, ResendTaskStep, InvalidateTaskStep DEF RunTask
<1>5. CASE ResendTimerFires \/ CacheTimerFires
  BY <1>5, TimerStep
<1>6. CASE ArpTick
  BY <1>6, TickStep
<1>7. CASE UNCHANGED arpVars
  BY <1>7 DEF arpVars, ArpInv, ArpTypeOK, TableUnique, FreshMapping, PendingIsWatched
<1> QED  BY <1>1, <1>2, <1>3, <1>4, <1>5, <1>6, <1>7 DEF ArpNext

-----------------------------------------------------------------------------

(* The ARP table and the retry timer stay coherent: ArpProtocol keeps the  *)
(* type invariant, TableUnique, FreshMapping and PendingIsWatched through  *)
(* every call, message, task, timer and tick.                              *)
THEOREM ArpInvariant == ArpSpec => [](ArpTypeOK /\ TableUnique /\ FreshMapping
                                        /\ PendingIsWatched)
<1> QED  BY InitArpInv, NextArpInv, PTL DEF ArpSpec, ArpInv

(* ArpTable::Resolve answers with the MAC address that was last announced  *)
(* for the address, for any number of hosts and entries.                   *)
THEOREM TableIsFresh == ArpSpec => []FreshMapping
<1> QED  BY ArpInvariant, PTL

-----------------------------------------------------------------------------
(* The chain of cache timers, and the number of requests                   *)

(* The places of InvalidateChache among the posted tasks. *)
Posted(q) == {k \in DOMAIN q : q[k] = "invalidate"}

(* CacheChain without counting. *)
ChainOnce ==
  ~lost => /\ \A j, k \in Posted(taskq) : j = k
           /\ Posted(taskq) # {} <=> cacheIn = Off

LEMMA ChainCounts ==
  ASSUME ArpTypeOK  PROVE CacheChain <=> ChainOnce
<1> DEFINE P == Posted(taskq)
<1>1. IsFiniteSet(P)
  <2>1. DOMAIN taskq = 1..Len(taskq) /\ Len(taskq) \in Nat
    BY DEF ArpTypeOK
  <2>2. IsFiniteSet(DOMAIN taskq)
    BY <2>1, FS_Interval
  <2>3. P \in SUBSET DOMAIN taskq
    BY DEF Posted
  <2> QED  BY <2>2, <2>3, FS_Subset
<1>2. CacheChain <=> (~lost => (IF cacheIn = Off THEN 1 ELSE 0) = Cardinality(P))
  BY DEF CacheChain, Posted
<1> HIDE DEF P
<1>3. (Cardinality(P) = 0 <=> P = {}) /\ (Cardinality(P) = 1 <=> \E x : P = {x})
  BY <1>1, FS_EmptySet, FS_Singleton
<1>4. (\E x : P = {x}) <=> (P # {} /\ \A j, k \in P : j = k)
  <2>1. ASSUME P # {}, \A j, k \in P : j = k
        PROVE  \E x : P = {x}
    <3>1. PICK x : x \in P
      BY <2>1
    <3>2. P = {x}
      BY <2>1, <3>1
    <3> QED  BY <3>2
  <2>2. ASSUME NEW x, P = {x}
        PROVE  P # {} /\ \A j, k \in P : j = k
    BY <2>2
  <2> QED  BY <2>1, <2>2
<1>5. ChainOnce <=> (~lost => /\ \A j, k \in P : j = k
                              /\ P # {} <=> cacheIn = Off)
  BY DEF ChainOnce, P
<1> QED  BY <1>2, <1>3, <1>4, <1>5

(* How posting a task and running one move the places. *)
LEMMA PostedStep ==
  ASSUME NEW q \in Seq({"resend", "invalidate"})
  PROVE  /\ Posted(Append(q, "resend")) = Posted(q)
         /\ Posted(Append(q, "invalidate")) = Posted(q) \union {Len(q) + 1}
         /\ q # <<>> =>
              /\ \A k : k \in Posted(Tail(q)) <=> k + 1 \in Posted(q) /\ k \in Nat \ {0}
              /\ 1 \in Posted(q) <=> Head(q) = "invalidate"
              /\ Posted(q) \subseteq Nat \ {0}
<1> DEFINE T == {"resend", "invalidate"}
<1>1. Len(q) \in Nat /\ DOMAIN q = 1..Len(q)
  OBVIOUS
<1>2. \A t \in T : /\ DOMAIN Append(q, t) = 1..(Len(q) + 1)
                   /\ \A k \in 1..Len(q) : Append(q, t)[k] = q[k]
                   /\ Append(q, t)[Len(q) + 1] = t
  OBVIOUS
<1>3. ASSUME NEW t \in T
      PROVE  Posted(Append(q, t)) =
               Posted(q) \union (IF t = "invalidate" THEN {Len(q) + 1} ELSE {})
  <2>1. \A k : k \in 1..(Len(q) + 1) <=> k \in 1..Len(q) \/ k = Len(q) + 1
    BY <1>1
  <2> QED  BY <1>1, <1>2, <2>1 DEF Posted
<1>4. ASSUME q # <<>>
      PROVE  /\ \A k : k \in Posted(Tail(q)) <=> k + 1 \in Posted(q) /\ k \in Nat \ {0}
             /\ 1 \in Posted(q) <=> Head(q) = "invalidate"
             /\ Posted(q) \subseteq Nat \ {0}
  <2>1. /\ Len(q) \in Nat \ {0} /\ DOMAIN Tail(q) = 1..(Len(q) - 1)
        /\ \A k \in 1..(Len(q) - 1) : Tail(q)[k] = q[k + 1]
        /\ Head(q) = q[1]
    BY <1>4
  <2>2. \A k : k \in Posted(Tail(q)) <=> k + 1 \in Posted(q) /\ k \in Nat \ {0}
    <3> SUFFICES ASSUME NEW k
                 PROVE  k \in Posted(Tail(q)) <=> k + 1 \in Posted(q) /\ k \in Nat \ {0}
      OBVIOUS
    <3>1. k \in 1..(Len(q) - 1) <=> k \in Nat \ {0} /\ k + 1 \in 1..Len(q)
      BY <2>1
    <3> QED  BY <1>1, <2>1, <3>1 DEF Posted
  <2> QED  BY <1>1, <2>1, <2>2 DEF Posted
<1> QED  BY <1>3, <1>4

(* The constructor posts the first link. *)
LEMMA InitChain == ArpInit => ChainOnce
<1> SUFFICES ASSUME ArpInit PROVE ChainOnce
  OBVIOUS
<1>1. Posted(<<"invalidate">>) = {1}
  BY DEF Posted
<1> QED  BY <1>1 DEF ArpInit, ChainOnce

(* Each step keeps the chain, or the dispatcher loses the timer. *)
LEMMA NextChain ==
  ArpTypeOK /\ ChainOnce /\ [ArpNext]_arpVars => ChainOnce'
<1> SUFFICES ASSUME ArpTypeOK, ChainOnce, [ArpNext]_arpVars, ~lost'
             PROVE  ChainOnce'
  BY DEF ChainOnce
<1>1. taskq \in Seq({"resend", "invalidate"}) /\ cacheIn \in Off..CacheTimeout
  BY DEF ArpTypeOK
<1>2. ASSUME UNCHANGED <<taskq, cacheIn>>, ~lost
      PROVE  ChainOnce'
  BY <1>2 DEF ChainOnce
<1>3. ASSUME NEW ip \in Ips, AddressResolve(ip) PROVE ChainOnce'
  BY <1>2, <1>3 DEF AddressResolve, StartRequest, SetArpTimer
<1>4. ASSUME NEW ip \in Ips, NEW mac \in Macs,
             ProcessReply(ip, mac) \/ AddAddress(ip, mac)
      PROVE  ChainOnce'
  BY <1>2, <1>4 DEF ProcessReply, AddAddress
<1>5. CASE RunTask
  <2>1. /\ \A k : k \in Posted(taskq') <=> k + 1 \in Posted(taskq) /\ k \in Nat \ {0}
        /\ 1 \in Posted(taskq) <=> Head(taskq) = "invalidate"
        /\ Posted(taskq) \subseteq Nat \ {0}
    BY <1>1, <1>5, PostedStep DEF RunTask
  <2>2. CASE Head(taskq) = "resend" /\ ProcessPendingRequests
    <3>1. ~lost /\ cacheIn' = cacheIn
      BY <2>2 DEF ProcessPendingRequests, Rearm, SetArpTimer
    <3>2. \A k \in Posted(taskq) : k - 1 \in Posted(taskq')
      <4> SUFFICES ASSUME NEW k \in Posted(taskq) PROVE k - 1 \in Posted(taskq')
        OBVIOUS
      <4>1. k \in Nat \ {0} /\ k # 1
        BY <2>1, <2>2
      <4>2. (k - 1) + 1 = k /\ k - 1 \in Nat \ {0}
        BY <4>1
      <4> QED  BY <2>1, <4>2
    <3>3. Posted(taskq') # {} <=> Posted(taskq) # {}
      BY <2>1, <3>2
    <3>4. \A j, k \in Posted(taskq') : j = k
      <4> SUFFICES ASSUME NEW j \in Posted(taskq'), NEW k \in Posted(taskq')
                   PROVE  j = k
        OBVIOUS
      <4>1. j + 1 = k + 1 /\ j \in Nat /\ k \in Nat
        BY <2>1, <3>1 DEF ChainOnce
      <4> QED  BY <4>1
    <3> QED  BY <3>1, <3>3, <3>4 DEF ChainOnce
  <2>3. CASE Head(taskq) = "invalidate" /\ InvalidateChache
    <3>1. ~lost /\ cacheIn' = CacheTimeout
      BY <2>3 DEF InvalidateChache, SetArpTimer
    <3>2. \A k \in Posted(taskq) : k = 1
      BY <2>1, <2>3, <3>1 DEF ChainOnce
    <3>3. Posted(taskq') = {}
      <4> SUFFICES ASSUME NEW k \in Posted(taskq') PROVE FALSE
        OBVIOUS
      <4>1. k + 1 = 1 /\ k \in Nat \ {0}
        BY <2>1, <3>2
      <4> QED  BY <4>1
    <3> QED  BY <3>1, <3>3 DEF ChainOnce, Off
  <2> QED  BY <1>5, <2>2, <2>3 DEF RunTask
<1>6. CASE ResendTimerFires
  <2>1. ~lost /\ taskq' = Append(taskq, "resend") /\ cacheIn' = cacheIn
    BY <1>6 DEF ResendTimerFires, TimerFires
  <2>2. Posted(taskq') = Posted(taskq)
    BY <1>1, <2>1, PostedStep
  <2> QED  BY <2>1, <2>2 DEF ChainOnce
<1>7. CASE CacheTimerFires
  <2>1. ~lost /\ taskq' = Append(taskq, "invalidate") /\ cacheIn = 0 /\ cacheIn' = Off
    BY <1>7 DEF CacheTimerFires, TimerFires
  <2>2. Posted(taskq) = {}
    BY <2>1 DEF ChainOnce, Off
  <2>3. Posted(taskq') = {Len(taskq) + 1}
    BY <1>1, <2>1, <2>2, PostedStep
  <2> QED  BY <2>1, <2>3 DEF ChainOnce
<1>8. CASE ArpTick
  <2>1. ~lost /\ taskq' = taskq /\ (cacheIn' = Off <=> cacheIn = Off)
    BY <1>1, <1>8 DEF ArpTick, TimerLeft, Off
  <2> QED  BY <2>1 DEF ChainOnce
<1>9. CASE UNCHANGED arpVars
  BY <1>2, <1>9 DEF arpVars
<1> QED  BY <1>3, <1>4, <1>5, <1>6, <1>7, <1>8, <1>9 DEF ArpNext

(* The chain of one-shot timers behind InvalidateChache neither breaks nor *)
(* doubles unless the dispatcher lost one.                                 *)
THEOREM CacheChainHolds == ArpSpec => []CacheChain
<1>1. ArpTypeOK /\ ChainOnce => CacheChain
  BY ChainCounts
<1> QED  BY <1>1, ArpInvariant, InitChain, NextChain, PTL DEF ArpSpec

(* What the requests for an address still owe: one for every attempt left in *)
(* a slot that holds the address. *)
Owed(pend, ip) ==
  {p \in PendingSlots \X (1..ArpAttempts) :
     pend[p[1]].ip = ip /\ p[2] <= pend[p[1]].attempts}

LEMMA OwedFinite ==
  ASSUME NEW S \in SUBSET (PendingSlots \X (1..ArpAttempts))
  PROVE  IsFiniteSet(S) /\ Cardinality(S) \in Nat
<1>1. IsFiniteSet(PendingSlots) /\ IsFiniteSet(1..ArpAttempts)
  BY FS_Interval DEF PendingSlots
<1>2. IsFiniteSet(PendingSlots \X (1..ArpAttempts))
  BY <1>1, FS_Product
<1> QED  BY <1>2, FS_Subset, FS_CardinalityType

(* A step that sends nothing and adds nothing to what is owed. *)
LEMMA QuietRequests ==
  ASSUME RequestsBounded, ArpTypeOK, UNCHANGED <<sent, calls>>,
         \A i \in PendingSlots :
           \/ pending'[i].ip \notin Ips
           \/ /\ pending'[i].ip = pending[i].ip
              /\ pending'[i].attempts = pending[i].attempts
  PROVE  RequestsBounded'
<1> SUFFICES ASSUME NEW ip \in Ips
             PROVE  sent[ip] + Cardinality(Owed(pending', ip)) <= ArpAttempts * calls[ip]
  BY DEF RequestsBounded, Owed
<1>1. Owed(pending', ip) \in SUBSET Owed(pending, ip)
  BY DEF Owed
<1>2. /\ IsFiniteSet(Owed(pending, ip)) /\ Cardinality(Owed(pending, ip)) \in Nat
      /\ Cardinality(Owed(pending', ip)) \in Nat
  <2>1. \A pend : Owed(pend, ip) \in SUBSET (PendingSlots \X (1..ArpAttempts))
    BY DEF Owed
  <2> QED  BY <2>1, OwedFinite
<1>3. Cardinality(Owed(pending', ip)) <= Cardinality(Owed(pending, ip))
  BY <1>1, <1>2, FS_Subset
<1>4. sent[ip] + Cardinality(Owed(pending, ip)) <= ArpAttempts * calls[ip]
  BY DEF RequestsBounded, Owed
<1>5. sent[ip] \in Nat /\ calls[ip] \in Nat
  BY DEF ArpTypeOK
<1>6. ArpAttempts * calls[ip] \in Nat
  BY <1>5
<1> QED  BY <1>2, <1>3, <1>4, <1>5, <1>6

(* A call sends one request and leaves at most ArpAttempts - 1 owed. *)
LEMMA StartRequests ==
  ASSUME RequestsBounded, ArpTypeOK, NEW ip \in Ips, AddressResolve(ip)
  PROVE  RequestsBounded'
<1> DEFINE slots == FirstOf({j \in PendingSlots : pending[j].ip \in {NoIp, ip}})
<1>1. /\ calls' = [calls EXCEPT ![ip] = @ + 1] /\ sent' = [sent EXCEPT ![ip] = @ + 1]
      /\ pending' = [i \in PendingSlots |-> IF i \in slots THEN NewRequest(ip)
                                                           ELSE pending[i]]
  BY DEF AddressResolve, StartRequest
<1>2. /\ \A i, j \in slots : i = j
      /\ \A i \in slots : i \in PendingSlots /\ pending[i].ip \in {NoIp, ip}
  BY DEF FirstOf, PendingSlots
<1> HIDE DEF slots
<1> SUFFICES ASSUME NEW other \in Ips
             PROVE  sent'[other] + Cardinality(Owed(pending', other))
                      <= ArpAttempts * calls'[other]
  BY DEF RequestsBounded, Owed
<1> DEFINE old == Owed(pending, other)
           new == Owed(pending', other)
<1>3. /\ IsFiniteSet(old) /\ Cardinality(old) \in Nat
      /\ IsFiniteSet(new) /\ Cardinality(new) \in Nat
  <2>1. old \in SUBSET (PendingSlots \X (1..ArpAttempts))
    BY DEF Owed
  <2>2. new \in SUBSET (PendingSlots \X (1..ArpAttempts))
    BY DEF Owed
  <2> HIDE DEF old, new
  <2> QED  BY <2>1, <2>2, OwedFinite
<1>4. /\ sent[other] \in Nat /\ calls[other] \in Nat
      /\ sent[other] + Cardinality(old) <= ArpAttempts * calls[other]
  BY DEF ArpTypeOK, RequestsBounded, Owed
<1>5. CASE other # ip
  <2>1. new \in SUBSET old
    BY <1>1, <1>2, <1>5 DEF Owed, NewRequest
  <2>2. sent'[other] = sent[other] /\ calls'[other] = calls[other]
    BY <1>1, <1>5 DEF ArpTypeOK
  <2> HIDE DEF old, new
  <2>3. Cardinality(new) <= Cardinality(old)
    BY <1>3, <2>1, FS_Subset
  <2>4. ArpAttempts * calls[other] \in Nat
    BY <1>4
  <2>5. sent'[other] + Cardinality(new) <= ArpAttempts * calls'[other]
    BY <1>3, <1>4, <2>2, <2>3, <2>4
  <2> QED  BY <2>5 DEF new
<1>6. CASE other = ip
  <2> DEFINE added == slots \X (1..(ArpAttempts - 1))
  <2>1. new \in SUBSET (old \union added)
    <3> SUFFICES ASSUME NEW p \in new, p \notin old PROVE p \in added
      OBVIOUS
    <3>1. p \in PendingSlots \X (1..ArpAttempts)
          /\ pending'[p[1]].ip = ip /\ p[2] <= pending'[p[1]].attempts
          /\ ~ (pending[p[1]].ip = ip /\ p[2] <= pending[p[1]].attempts)
      BY <1>6 DEF Owed
    <3>2. p[1] \in slots
      BY <1>1, <3>1
    <3>3. pending'[p[1]].attempts = ArpAttempts - 1
      BY <1>1, <3>1, <3>2 DEF NewRequest
    <3>4. p[2] \in 1..(ArpAttempts - 1) /\ p = <<p[1], p[2]>>
      BY <3>1, <3>3
    <3> QED  BY <3>2, <3>4
  <2>2. IsFiniteSet(added) /\ Cardinality(added) \in Nat
        /\ Cardinality(added) <= ArpAttempts - 1
    <3>1. IsFiniteSet(slots) /\ (Cardinality(slots) = 0 \/ Cardinality(slots) = 1)
      <4>1. CASE slots = {}
        BY <4>1, FS_EmptySet
      <4>2. CASE slots # {}
        <5>1. PICK i : i \in slots
          BY <4>2
        <5>2. slots = {i}
          BY <1>2, <5>1
        <5> QED  BY <5>2, FS_Singleton
      <4> QED  BY <4>1, <4>2
    <3>2. /\ IsFiniteSet(1..(ArpAttempts - 1))
          /\ Cardinality(1..(ArpAttempts - 1)) = ArpAttempts - 1
      BY FS_Interval
    <3>3. /\ IsFiniteSet(added)
          /\ Cardinality(added) = Cardinality(slots) * (ArpAttempts - 1)
      <4>1. Cardinality(added) = Cardinality(slots) * Cardinality(1..(ArpAttempts - 1))
            /\ IsFiniteSet(added)
        BY <3>1, <3>2, FS_Product
      <4> QED  BY <3>2, <4>1
    <3> HIDE DEF added
    <3> QED  BY <3>1, <3>3
  <2>3. sent'[other] = sent[other] + 1 /\ calls'[other] = calls[other] + 1
    BY <1>1, <1>6 DEF ArpTypeOK
  <2> HIDE DEF old, new, added
  <2>4. Cardinality(new) <= Cardinality(old) + (ArpAttempts - 1)
    <3>1. /\ IsFiniteSet(old \union added)
          /\ Cardinality(old \union added)
               = Cardinality(old) + Cardinality(added) - Cardinality(old \intersect added)
      BY <1>3, <2>2, FS_Union
    <3>2. Cardinality(new) <= Cardinality(old \union added)
      BY <2>1, <3>1, FS_Subset
    <3>3. Cardinality(old \intersect added) \in Nat
      BY <1>3, FS_Intersection, FS_CardinalityType
    <3> QED  BY <1>3, <2>2, <3>1, <3>2, <3>3
  <2>5. /\ ArpAttempts * (calls[other] + 1) = ArpAttempts * calls[other] + ArpAttempts
        /\ ArpAttempts * calls[other] \in Nat
    BY <1>4
  <2>6. sent'[other] + Cardinality(new) <= ArpAttempts * calls'[other]
    BY <1>3, <1>4, <2>3, <2>4, <2>5
  <2> QED  BY <2>6 DEF new
<1> QED  BY <1>5, <1>6

(* Every request ProcessPendingRequests sends takes one from what is owed. *)
LEMMA ResendRequests ==
  ASSUME RequestsBounded, ArpTypeOK, ProcessPendingRequests
  PROVE  RequestsBounded'
<1> DEFINE used   == {i \in PendingSlots : pending[i].ip # NoIp}
           spent  == {i \in used : pending[i].attempts = 0}
           resend == {i \in used \ spent : pending[i].age > ArpResendTimeout}
<1>1. /\ \A i \in PendingSlots :
           pending'[i] = IF i \in spent THEN EmptyRequest
                         ELSE IF i \in resend THEN Retried(pending[i]) ELSE pending[i]
      /\ sent' = [ip \in Ips |-> sent[ip]
                    + Cardinality({i \in resend : pending[i].ip = ip})]
      /\ calls' = calls
  BY DEF ProcessPendingRequests
<1>2. /\ \A i \in resend : /\ i \in PendingSlots /\ pending[i].attempts # 0
                           /\ i \notin spent
  OBVIOUS
<1>3. \A i \in PendingSlots : /\ pending[i].attempts \in 0..(ArpAttempts - 1)
                              /\ pending[i] \in [ip : Ips \union {NoIp}, age : RequestAges,
                                                 attempts : 0..(ArpAttempts - 1)]
  BY DEF ArpTypeOK
<1> HIDE DEF used, spent, resend
<1>4. \A i \in PendingSlots :
        /\ i \in resend => /\ pending'[i].ip = pending[i].ip
                           /\ pending'[i].attempts = pending[i].attempts - 1
        /\ pending'[i].ip \in {NoIp, pending[i].ip}
        /\ pending'[i].ip # NoIp => pending'[i].attempts <= pending[i].attempts
  <2> SUFFICES ASSUME NEW i \in PendingSlots
               PROVE  /\ i \in resend => /\ pending'[i].ip = pending[i].ip
                                         /\ pending'[i].attempts = pending[i].attempts - 1
                      /\ pending'[i].ip \in {NoIp, pending[i].ip}
                      /\ pending'[i].ip # NoIp =>
                           pending'[i].attempts <= pending[i].attempts
    OBVIOUS
  <2>1. pending[i].attempts \in Nat
    BY <1>3
  <2>2. CASE i \in spent
    BY <1>1, <1>2, <2>2 DEF EmptyRequest
  <2>3. CASE i \in resend
    <3>1. pending'[i] = Retried(pending[i])
      BY <1>1, <1>2, <2>3
    <3>2. /\ Retried(pending[i]).ip = pending[i].ip
          /\ Retried(pending[i]).attempts = pending[i].attempts - 1
      BY <1>3 DEF Retried
    <3> QED  BY <1>2, <2>1, <2>3, <3>1, <3>2
  <2>4. CASE i \notin spent /\ i \notin resend
    BY <1>1, <2>1, <2>4
  <2> QED  BY <2>2, <2>3, <2>4
<1> SUFFICES ASSUME NEW ip \in Ips
             PROVE  sent'[ip] + Cardinality(Owed(pending', ip)) <= ArpAttempts * calls[ip]
  BY <1>1 DEF RequestsBounded, Owed
<1> DEFINE old == Owed(pending, ip)
           new == Owed(pending', ip)
           again == {i \in resend : pending[i].ip = ip}
           f == [i \in again |-> <<i, pending[i].attempts>>]
<1>5. new \in SUBSET old
  <2> SUFFICES ASSUME NEW p \in new PROVE p \in old
    OBVIOUS
  <2>1. p \in PendingSlots \X (1..ArpAttempts) /\ pending'[p[1]].ip = ip
        /\ p[2] <= pending'[p[1]].attempts
    BY DEF Owed
  <2>2. pending[p[1]].ip = ip /\ pending'[p[1]].attempts <= pending[p[1]].attempts
    BY <1>4, <2>1
  <2>3. p[1] \in PendingSlots /\ p[2] \in Nat
    BY <2>1
  <2>4. pending[p[1]].attempts \in Nat /\ pending'[p[1]].attempts \in Int
    <3>1. pending[p[1]].attempts \in Nat
      BY <1>3, <2>3
    <3>2. pending'[p[1]].attempts \in Int
      BY <1>1, <1>3, <1>4, <2>3, <3>1 DEF EmptyRequest
    <3> QED  BY <3>1, <3>2
  <2> QED  BY <2>1, <2>2, <2>3, <2>4 DEF Owed
<1>6. f \in Injection(again, old \ new)
  <2>1. ASSUME NEW i \in again
        PROVE  <<i, pending[i].attempts>> \in old \ new
    <3>1. i \in resend /\ pending[i].ip = ip /\ i \in PendingSlots
          /\ pending[i].attempts \in 1..ArpAttempts
      BY <1>2, <1>3, <2>1
    <3>2. pending'[i].attempts = pending[i].attempts - 1
      BY <1>4, <3>1
    <3>3. <<i, pending[i].attempts>> \in old
      BY <3>1 DEF Owed
    <3>4. <<i, pending[i].attempts>> \notin new
      BY <3>1, <3>2 DEF Owed
    <3> QED  BY <3>3, <3>4
  <2>2. f \in [again -> old \ new]
    BY <2>1
  <2>3. \A i, j \in again : f[i] = f[j] => i = j
    OBVIOUS
  <2> QED  BY <2>2, <2>3 DEF Injection, IsInjective
<1>7. /\ IsFiniteSet(old) /\ Cardinality(old) \in Nat
      /\ IsFiniteSet(new) /\ Cardinality(new) \in Nat
  <2>1. old \in SUBSET (PendingSlots \X (1..ArpAttempts))
    BY DEF Owed
  <2>2. new \in SUBSET (PendingSlots \X (1..ArpAttempts))
    BY DEF Owed
  <2> HIDE DEF old, new
  <2> QED  BY <2>1, <2>2, OwedFinite
<1>8. /\ sent[ip] \in Nat /\ calls[ip] \in Nat
      /\ sent[ip] + Cardinality(old) <= ArpAttempts * calls[ip]
  BY DEF ArpTypeOK, RequestsBounded, Owed
<1>9. sent'[ip] = sent[ip] + Cardinality(again)
  BY <1>1
<1> HIDE DEF old, new, again, f
<1>10. /\ IsFiniteSet(old \ new)
       /\ Cardinality(old \ new) = Cardinality(old) - Cardinality(new)
  <2>1. /\ IsFiniteSet(old \ new)
        /\ Cardinality(old \ new) = Cardinality(old) - Cardinality(old \intersect new)
    BY <1>7, FS_Difference
  <2>2. old \intersect new = new
    BY <1>5
  <2> QED  BY <2>1, <2>2
<1>11. IsFiniteSet(again) /\ Cardinality(again) <= Cardinality(old) - Cardinality(new)
  BY <1>6, <1>10, FS_Injection
<1>12. Cardinality(again) \in Nat /\ ArpAttempts * calls[ip] \in Nat
  BY <1>8, <1>11, FS_CardinalityType
<1>13. sent'[ip] + Cardinality(new) <= ArpAttempts * calls[ip]
  BY <1>7, <1>8, <1>9, <1>11, <1>12
<1> QED  BY <1>13 DEF new

LEMMA NextRequests ==
  ArpTypeOK /\ RequestsBounded /\ [ArpNext]_arpVars => RequestsBounded'
<1> SUFFICES ASSUME ArpTypeOK, RequestsBounded, [ArpNext]_arpVars
             PROVE  RequestsBounded'
  OBVIOUS
<1>1. ASSUME NEW ip \in Ips, NEW mac \in Macs,
             ProcessReply(ip, mac) \/ AddAddress(ip, mac)
      PROVE  RequestsBounded'
  <2>1. CASE ProcessReply(ip, mac)
    BY <2>1, QuietRequests DEF ProcessReply, EmptyRequest
  <2>2. CASE AddAddress(ip, mac)
    BY <2>2, QuietRequests DEF AddAddress
  <2> QED  BY <1>1, <2>1, <2>2
<1>2. CASE RunTask
  <2>1. CASE InvalidateChache
    BY <2>1, QuietRequests DEF InvalidateChache
  <2> QED  BY <1>2, <2>1, ResendRequests DEF RunTask
<1>3. CASE ResendTimerFires \/ CacheTimerFires
  BY <1>3, QuietRequests DEF ResendTimerFires, CacheTimerFires, TimerFires
<1>4. CASE ArpTick
  <2>1. \A i \in PendingSlots : /\ pending'[i].ip = pending[i].ip
                                /\ pending'[i].attempts = pending[i].attempts
    BY <1>4 DEF ArpTypeOK, ArpTick, Older
  <2> QED  BY <1>4, <2>1, QuietRequests DEF ArpTick
<1>5. CASE UNCHANGED arpVars
  BY <1>5, QuietRequests DEF arpVars
<1> QED  BY <1>1, <1>2, <1>3, <1>4, <1>5, StartRequests DEF ArpNext

(* However calls, replies and the retry timer interleave, no more requests *)
(* go out for an address than ArpAttempts for every call.                  *)
THEOREM RequestsAreBounded == ArpSpec => []RequestsBounded
<1>1. ArpInit => RequestsBounded
  <2> SUFFICES ASSUME ArpInit, NEW ip \in Ips
               PROVE  sent[ip] + Cardinality(Owed(pending, ip)) <= ArpAttempts * calls[ip]
    BY DEF RequestsBounded, Owed
  <2>1. Owed(pending, ip) = {}
    BY DEF ArpInit, Owed, EmptyRequest
  <2>2. sent[ip] = 0 /\ calls[ip] = 0 /\ Cardinality({}) = 0
    BY FS_EmptySet DEF ArpInit
  <2> QED  BY <2>1, <2>2
<1> QED  BY <1>1, ArpInvariant, NextRequests, PTL DEF ArpSpec

-----------------------------------------------------------------------------

PacketsOld ==
  (OnWire \union Waiting \union refused \union dropped \union since) \subseteq 1..(next - 1)

PacketInv == Ip4TypeOK /\ SentOnce /\ Accounted /\ NoneLeftBehind /\ PacketsOld

\* The address of a used entry was announced by some host.
MacsKnown == \A i \in TableSlots : table[i].ip # NoIp => table[i].mac \in Macs

Ip4Inv == ArpInv /\ MacsKnown /\ PacketInv

USE SizesAssumption, AddressAssumption, PacketsAssumption

(* The loops that take the first slot of a set take exactly one. *)
LEMMA FirstOfExists ==
  ASSUME NEW n \in Nat, NEW S \in SUBSET (1..n), S # {}
  PROVE  \E i \in S : FirstOf(S) = {i}
<1> DEFINE R == OpToRel(<, Nat)
<1>1. S \subseteq Nat
  OBVIOUS
<1>2. IsWellFoundedOn(R, Nat)
  BY NatLessThanWellFounded
<1>3. \A i, j \in Nat : <<i, j>> \in R <=> i < j
  BY DEF OpToRel
<1> HIDE DEF R
<1>4. PICK i \in S : \A j \in S : ~ (<<j, i>> \in R)
  BY <1>1, <1>2, WFMin
<1>5. \A j \in S : i <= j
  <2>1. \A j \in S : ~ (j < i)
    BY <1>1, <1>3, <1>4, Zenon
  <2> QED  BY <1>1, <2>1
<1>6. \A k \in S : k \in FirstOf(S) <=> k = i
  BY <1>1, <1>5 DEF FirstOf
<1>7. FirstOf(S) \subseteq S
  BY DEF FirstOf
<1>8. FirstOf(S) = {i}
  BY <1>6, <1>7
<1> QED  BY <1>8

(* A packet that SendMessage refuses keeps the invariant. *)
LEMMA FailStep ==
  ASSUME PacketInv, next <= MaxPackets, next' = next + 1, SendFails,
         UNCHANGED <<resolver, dropped, since>>
  PROVE  PacketInv'
<1> USE DEF PacketInv
<1>1. Ip4TypeOK'
  BY DEF Ip4TypeOK, SendFails, Packets
<1>2. OnWire' = OnWire /\ Waiting' = Waiting /\ refused' = refused \union {next}
  BY DEF SendFails, OnWire, Waiting
<1>3. next \notin OnWire \union Waiting
  BY DEF PacketsOld, Ip4TypeOK
<1>4. SentOnce'
  BY <1>2, <1>3 DEF SentOnce, SendFails
<1>5. Accounted' /\ PacketsOld'
  BY <1>2 DEF Accounted, PacketsOld, Ip4TypeOK
<1>6. NoneLeftBehind'
  BY <1>2 DEF NoneLeftBehind
<1> QED  BY <1>1, <1>4, <1>5, <1>6

(* A packet that is transmitted at once keeps the invariant. *)
LEMMA TransmitStep ==
  ASSUME PacketInv, next <= MaxPackets, next' = next + 1,
         NEW ip \in Ips, NEW mac \in Macs,
         wire' = wire \union {Frame(next, ip, mac)},
         UNCHANGED <<resolver, waiting, refused, dropped, since>>
  PROVE  PacketInv'
<1> USE DEF PacketInv
<1>1. Ip4TypeOK'
  BY DEF Ip4TypeOK, Packets, Frame
<1>2. OnWire' = OnWire \union {next} /\ Waiting' = Waiting
  <2>1. Frame(next, ip, mac).packet = next
    BY DEF Frame
  <2>2. OnWire' = OnWire \union {next}
    BY <2>1 DEF OnWire
  <2> QED  BY <2>2 DEF Waiting
<1>3. next \notin OnWire \union Waiting \union refused \union dropped
  BY DEF PacketsOld, Ip4TypeOK
<1>4. SentOnce'
  <2>1. \A f, g \in wire' : f.packet = g.packet => f = g
    BY <1>3 DEF SentOnce, OnWire, Frame
  <2> QED  BY <2>1, <1>2, <1>3 DEF SentOnce
<1>5. Accounted' /\ PacketsOld'
  BY <1>2 DEF Accounted, PacketsOld, Ip4TypeOK
<1>6. NoneLeftBehind'
  BY <1>2 DEF NoneLeftBehind
<1> QED  BY <1>1, <1>4, <1>5, <1>6

(* A packet that EnqueuePacket stores keeps the invariant. *)
LEMMA EnqueueStep ==
  ASSUME PacketInv, next <= MaxPackets, next' = next + 1, NEW ip \in Ips,
         FreeSlots # {}, EnqueuePacket(ip), UNCHANGED <<resolver, dropped, since>>
  PROVE  PacketInv'
<1> USE DEF PacketInv
<1>1. PICK s \in FreeSlots : FirstOf(FreeSlots) = {s}
  BY FirstOfExists DEF FreeSlots, PacketSlots
<1>2. s \in PacketSlots /\ waiting[s].packet = NoPacket
  BY DEF FreeSlots
<1>3. waiting' = [i \in PacketSlots |-> IF i = s THEN [packet |-> next, dest |-> ip]
                                         ELSE waiting[i]]
  BY <1>1 DEF EnqueuePacket
<1>4. UNCHANGED <<wire, refused>>
  BY DEF EnqueuePacket
<1>5. Ip4TypeOK'
  <2>1. waiting' \in [PacketSlots -> [packet : Packets \union {NoPacket},
                                      dest : Ips \union {NoIp}]]
    BY <1>3 DEF Ip4TypeOK, Packets
  <2> QED  BY <2>1, <1>4 DEF Ip4TypeOK
<1>6. next # NoPacket
  BY DEF Ip4TypeOK, NoPacket
<1>7. OnWire' = OnWire /\ Waiting' = Waiting \union {next}
  BY <1>2, <1>3, <1>4, <1>6 DEF OnWire, Waiting
<1>8. next \notin OnWire \union Waiting \union refused \union dropped \union since
  BY DEF PacketsOld, Ip4TypeOK
<1>9. SentOnce'
  <2>1. \A i, j \in PacketSlots :
          waiting'[i].packet = waiting'[j].packet /\ waiting'[i].packet # NoPacket
            => i = j
    BY <1>2, <1>3, <1>6, <1>8 DEF SentOnce, Waiting
  <2> QED  BY <2>1, <1>4, <1>7, <1>8 DEF SentOnce
<1>10. Accounted' /\ PacketsOld'
  BY <1>4, <1>7 DEF Accounted, PacketsOld, Ip4TypeOK
<1>11. NoneLeftBehind'
  BY <1>7, <1>8 DEF NoneLeftBehind
<1> QED  BY <1>5, <1>9, <1>10, <1>11

(* AddressResolved keeps the invariant: the packets of the address leave   *)
(* their slots, for the interface or for nowhere.                          *)
LEMMA FlushStep ==
  ASSUME PacketInv, NEW ip \in Ips, NEW mac \in Macs, ArpReply(ip, mac)
  PROVE  PacketInv'
<1> USE DEF PacketInv
<1> DEFINE gone == {waiting[i].packet : i \in Flushed(ip)}
<1>1. PICK out \in SUBSET Flushed(ip) :
        /\ waiting' = AfterFlush(Flushed(ip))
        /\ wire' = wire \union {Frame(waiting[i].packet, waiting[i].dest, mac) : i \in out}
        /\ dropped' = dropped \union {waiting[i].packet : i \in Flushed(ip) \ out}
  BY DEF ArpReply, AddressResolved
<1> DEFINE taken == {waiting[i].packet : i \in out}
           left  == {waiting[i].packet : i \in Flushed(ip) \ out}
<1>2. Flushed(ip) \subseteq PacketSlots
  BY DEF Flushed
<1>3. \A i \in Flushed(ip) : waiting[i].packet \in Waiting /\ waiting[i].dest = ip
                              /\ waiting[i].packet \in Packets
  BY DEF Flushed, Waiting, Ip4TypeOK
<1>4. \A i \in PacketSlots :
        waiting'[i] = IF i \in Flushed(ip) THEN EmptySlot ELSE waiting[i]
  BY <1>1 DEF AfterFlush
<1>5. taken \subseteq Waiting /\ left \subseteq Waiting /\ gone = taken \union left
  BY <1>3
<1>6. taken \intersect left = {}
  BY <1>2, <1>3 DEF SentOnce, Waiting
<1>7. Waiting' = Waiting \ gone
  <2>1. \A i \in PacketSlots : i \notin Flushed(ip) /\ waiting[i].packet # NoPacket
          => waiting[i].packet \notin gone
    BY <1>2 DEF SentOnce
  <2> QED  BY <1>4, <2>1 DEF Waiting, EmptySlot
<1>8. OnWire' = OnWire \union taken
  <2>1. \A i \in out : Frame(waiting[i].packet, waiting[i].dest, mac).packet
                        = waiting[i].packet
    BY DEF Frame
  <2> QED  BY <1>1, <2>1 DEF OnWire
<1>9. dropped' = dropped \union left /\ UNCHANGED <<resolver, next, refused>>
  BY <1>1 DEF ArpReply
<1>10. since' = since \union gone
  BY DEF ArpReply, Flushed
<1>11. Ip4TypeOK'
  <2>1. waiting' \in [PacketSlots -> [packet : Packets \union {NoPacket},
                                      dest : Ips \union {NoIp}]]
    BY <1>1 DEF Ip4TypeOK, AfterFlush, EmptySlot
  <2>2. \A i \in out : Frame(waiting[i].packet, waiting[i].dest, mac) \in
                         [packet : Packets, dest : Ips, mac : Macs]
    BY <1>3 DEF Frame
  <2>3. wire' \subseteq [packet : Packets, dest : Ips, mac : Macs]
    BY <1>1, <2>2 DEF Ip4TypeOK
  <2>4. gone \subseteq Packets
    BY <1>3
  <2> QED  BY <1>5, <1>9, <1>10, <2>1, <2>3, <2>4 DEF Ip4TypeOK
<1>12. SentOnce'
  <2>1. \A f, g \in wire' : f.packet = g.packet => f = g
    <3> SUFFICES ASSUME NEW f \in wire', NEW g \in wire', f.packet = g.packet
                 PROVE  f = g
      OBVIOUS
    <3>1. \A h \in wire' \ wire : \E i \in out :
            h = Frame(waiting[i].packet, waiting[i].dest, mac) /\ h.packet = waiting[i].packet
      BY <1>1 DEF Frame
    <3>2. \A h \in wire : h.packet \notin taken
      BY <1>5 DEF SentOnce, OnWire
    <3>3. CASE f \in wire /\ g \in wire
      BY <3>3 DEF SentOnce
    <3>4. CASE f \notin wire /\ g \notin wire
      <4>1. PICK i \in out : f = Frame(waiting[i].packet, waiting[i].dest, mac)
                             /\ f.packet = waiting[i].packet
        BY <3>1, <3>4
      <4>2. PICK j \in out : g = Frame(waiting[j].packet, waiting[j].dest, mac)
                             /\ g.packet = waiting[j].packet
        BY <3>1, <3>4
      <4>3. i = j
        BY <1>2, <1>3, <4>1, <4>2 DEF SentOnce, Waiting
      <4> QED  BY <4>1, <4>2, <4>3
    <3> QED  BY <3>1, <3>2, <3>3, <3>4
  <2>2. \A i, j \in PacketSlots :
          waiting'[i].packet = waiting'[j].packet /\ waiting'[i].packet # NoPacket
            => i = j
    BY <1>4 DEF SentOnce, EmptySlot
  <2>3. /\ OnWire' \intersect Waiting' = {}
        /\ (OnWire' \union Waiting') \intersect (refused' \union dropped') = {}
    <3> HIDE DEF taken, left, gone
    <3> QED  BY <1>5, <1>6, <1>7, <1>8, <1>9 DEF SentOnce
  <2> QED  BY <2>1, <2>2, <2>3 DEF SentOnce
<1> HIDE DEF taken, left, gone
<1>13. Accounted'
  BY <1>5, <1>7, <1>8, <1>9 DEF Accounted
<1>14. NoneLeftBehind'
  BY <1>7, <1>10 DEF NoneLeftBehind
<1>15. PacketsOld'
  BY <1>5, <1>7, <1>8, <1>9, <1>10 DEF PacketsOld
<1> QED  BY <1>11, <1>12, <1>13, <1>14, <1>15

-----------------------------------------------------------------------------

(* The address Resolve finds is the one last announced. *)
LEMMA ResolvedIsLearned ==
  ASSUME ArpInv, NEW ip \in Ips, Resolved(ip)
  PROVE  MacOf(ip) = learned[ip]
<1>1. PICK i \in EntriesOf(table, ip) : FirstOf(EntriesOf(table, ip)) = {i}
  <2>1. EntriesOf(table, ip) \in SUBSET (1..TableSize) /\ EntriesOf(table, ip) # {}
    BY DEF Resolved, EntriesOf, TableSlots
  <2>2. TableSize \in Nat
    OBVIOUS
  <2> QED  BY <2>1, <2>2, FirstOfExists
<1>2. MacOf(ip) = table[i].mac
  BY <1>1 DEF MacOf
<1>3. i \in TableSlots /\ table[i].ip = ip
  BY DEF EntriesOf
<1>4. ip # NoIp
  OBVIOUS
<1>5. i \in TableSlots => (table[i].ip # NoIp => table[i].mac = learned[table[i].ip])
  BY DEF ArpInv, FreshMapping
<1> QED  BY <1>2, <1>3, <1>4, <1>5

(* The steps of module Arp keep MacsKnown. *)
LEMMA MacsKnownStep ==
  ASSUME ArpInv, MacsKnown, [ArpNext]_arpVars  PROVE MacsKnown'
<1>1. ASSUME NEW ip \in Ips, NEW mac \in Macs, table' = Add(table, ip, mac)
      PROVE  MacsKnown'
  <2>1. \A i \in TableSlots : \/ table'[i].ip = ip /\ table'[i].mac = mac
                              \/ table'[i] = table[i]
    <3>1. /\ table \in [TableSlots -> [ip : Ips \union {NoIp},
                                       mac : Macs \union {NoMac}, age : EntryAges]]
          /\ \A i, j \in TableSlots :
               table[i].ip = table[j].ip /\ table[i].ip # NoIp => i = j
      BY DEF ArpInv, ArpTypeOK, TableUnique
    <3>2. \A i \in TableSlots : \/ table'[i].ip = ip /\ table'[i].mac = mac
                                \/ table'[i] = table[i] /\ table[i].ip # ip
      BY <1>1, <3>1, AddFacts
    <3> QED  BY <3>2
  <2> QED  BY <2>1 DEF MacsKnown
<1>2. ASSUME UNCHANGED table PROVE MacsKnown'
  BY <1>2 DEF MacsKnown
<1>3. ASSUME InvalidateChache PROVE MacsKnown'
  BY <1>3 DEF MacsKnown, InvalidateChache, Invalidate, EmptyEntry
<1>4. ASSUME ArpTick PROVE MacsKnown'
  <2>1. \A i \in TableSlots : table'[i].ip = table[i].ip /\ table'[i].mac = table[i].mac
    BY <1>4 DEF ArpInv, ArpTypeOK, ArpTick, Older
  <2> QED  BY <2>1 DEF MacsKnown
<1>5. CASE RunTask
  BY <1>2, <1>3, <1>5 DEF RunTask, ProcessPendingRequests
<1>6. CASE \E ip \in Ips, mac \in Macs : ProcessReply(ip, mac) \/ AddAddress(ip, mac)
  BY <1>1, <1>6 DEF ProcessReply, AddAddress
<1>7. CASE \/ \E ip \in Ips : AddressResolve(ip)
           \/ ResendTimerFires \/ CacheTimerFires \/ UNCHANGED arpVars
  BY <1>2, <1>7 DEF AddressResolve, ResendTimerFires, CacheTimerFires, TimerFires, arpVars
<1> QED  BY <1>4, <1>5, <1>6, <1>7 DEF ArpNext

(* Every step of the network stack is a step of ARP. *)
LEMMA StepsUseArp == [Ip4Next]_<<arpVars, ip4Vars>> => [ArpNext]_arpVars
<1> SUFFICES ASSUME [Ip4Next]_<<arpVars, ip4Vars>> PROVE [ArpNext]_arpVars
  OBVIOUS
<1>1. ASSUME NEW ip \in Ips, SendMessage(ip) PROVE [ArpNext]_arpVars
  BY <1>1 DEF SendMessage, SendWithoutHeader, SendResolved, SendUnresolved, ArpNext
<1>2. ASSUME NEW ip \in Ips, NEW mac \in Macs, ArpReply(ip, mac)
      PROVE  [ArpNext]_arpVars
  BY <1>2 DEF ArpReply, ArpNext
<1>3. CASE ArpStep
  BY <1>3 DEF ArpStep, ArpNext
<1>4. CASE UNCHANGED <<arpVars, ip4Vars>>
  BY <1>4
<1>5. ASSUME NEW given \in BOOLEAN, SetAddressResolver(given) PROVE UNCHANGED arpVars
  BY <1>5 DEF SetAddressResolver
<1> QED  BY <1>1, <1>2, <1>3, <1>4, <1>5 DEF Ip4Next

(* A step of IP4Protocol keeps the packet part of the invariant. *)
LEMMA PacketStep ==
  ASSUME Ip4Inv, [Ip4Next]_<<arpVars, ip4Vars>>  PROVE PacketInv'
<1> USE DEF Ip4Inv
<1>1. ASSUME NEW ip \in Ips, SendMessage(ip) PROVE PacketInv'
  <2>1. next <= MaxPackets /\ next' = next + 1 /\ UNCHANGED <<resolver, dropped, since>>
    BY <1>1 DEF SendMessage
  <2>2. CASE SendFails
    BY <2>1, <2>2, FailStep
  <2>3. CASE SendResolved(ip) /\ ~SendFails
    <3>1. Resolved(ip) /\ wire' = wire \union {Frame(next, ip, MacOf(ip))}
          /\ UNCHANGED <<waiting, refused>>
      BY <2>3 DEF SendResolved
    <3>2. MacOf(ip) \in Macs
      <4>1. PICK i \in EntriesOf(table, ip) : FirstOf(EntriesOf(table, ip)) = {i}
        <5>1. /\ EntriesOf(table, ip) \in SUBSET (1..TableSize)
              /\ EntriesOf(table, ip) # {}
          BY <3>1 DEF Resolved, EntriesOf, TableSlots
        <5>2. TableSize \in Nat
          OBVIOUS
        <5> QED  BY <5>1, <5>2, FirstOfExists
      <4>2. MacOf(ip) = table[i].mac
        BY <4>1 DEF MacOf
      <4>3. i \in TableSlots /\ table[i].ip = ip /\ ip # NoIp
        BY DEF EntriesOf
      <4> QED  BY <4>2, <4>3 DEF MacsKnown
    <3> QED  BY <2>1, <3>1, <3>2, TransmitStep
  <2>4. CASE SendUnresolved(ip) /\ ~SendFails
    <3>1. EnqueuePacket(ip) /\ FreeSlots # {}
      BY <2>4 DEF SendUnresolved, EnqueuePacket
    <3> QED  BY <2>1, <3>1, EnqueueStep
  <2> QED  BY <1>1, <2>2, <2>3, <2>4 DEF SendMessage, SendWithoutHeader
<1>2. ASSUME NEW ip \in Ips, NEW mac \in Macs, ArpReply(ip, mac) PROVE PacketInv'
  BY <1>2, FlushStep
<1>3. CASE UNCHANGED ip4Vars
  <2>1. Ip4TypeOK'
    BY <1>3, Zenon DEF ip4Vars, PacketInv, Ip4TypeOK
  <2>2. SentOnce' /\ Accounted' /\ NoneLeftBehind' /\ PacketsOld'
    BY <1>3 DEF ip4Vars, PacketInv, SentOnce, Accounted, NoneLeftBehind, PacketsOld,
                OnWire, Waiting
  <2> QED  BY <2>1, <2>2 DEF PacketInv
<1>4. ASSUME NEW given \in BOOLEAN, SetAddressResolver(given) PROVE PacketInv'
  <2>1. Ip4TypeOK'
    BY <1>4 DEF PacketInv, Ip4TypeOK, SetAddressResolver
  <2>2. SentOnce' /\ Accounted' /\ NoneLeftBehind' /\ PacketsOld'
    BY <1>4 DEF PacketInv, SentOnce, Accounted, NoneLeftBehind, PacketsOld,
                OnWire, Waiting, SetAddressResolver
  <2> QED  BY <2>1, <2>2 DEF PacketInv
<1> QED  BY <1>1, <1>2, <1>3, <1>4 DEF Ip4Next, ArpStep

(* The packet history is coherent from the start. *)
LEMMA InitIp4Inv == Ip4Init => Ip4Inv
<1> SUFFICES ASSUME Ip4Init PROVE Ip4Inv
  OBVIOUS
<1>1. ArpInv
  BY InitArpInv DEF Ip4Init
<1>2. MacsKnown
  BY DEF Ip4Init, ArpInit, MacsKnown, EmptyEntry
<1>3. \A i \in PacketSlots : waiting[i] = EmptySlot
  BY DEF Ip4Init
<1>4. OnWire = {} /\ Waiting = {}
  BY <1>3 DEF Ip4Init, OnWire, Waiting, EmptySlot
<1>5. Ip4TypeOK
  <2>1. resolver \in BOOLEAN
    BY Zenon DEF Ip4Init
  <2>2. waiting \in [PacketSlots -> [packet : Packets \union {NoPacket},
                                     dest : Ips \union {NoIp}]]
    BY DEF Ip4Init, EmptySlot
  <2> QED  BY <2>1, <2>2 DEF Ip4Init, Ip4TypeOK
<1>6. SentOnce /\ Accounted /\ NoneLeftBehind /\ PacketsOld
  BY <1>3, <1>4 DEF Ip4Init, SentOnce, Accounted, NoneLeftBehind, PacketsOld, EmptySlot
<1> QED  BY <1>1, <1>2, <1>5, <1>6 DEF Ip4Inv, PacketInv

(* The invariant is inductive. *)
LEMMA NextIp4Inv == Ip4Inv /\ [Ip4Next]_<<arpVars, ip4Vars>> => Ip4Inv'
<1> SUFFICES ASSUME Ip4Inv, [Ip4Next]_<<arpVars, ip4Vars>> PROVE Ip4Inv'
  OBVIOUS
<1>1. [ArpNext]_arpVars
  BY StepsUseArp
<1>2. ArpInv'
  BY <1>1, NextArpInv DEF Ip4Inv
<1>3. MacsKnown'
  BY <1>1, MacsKnownStep DEF Ip4Inv
<1> QED  BY <1>2, <1>3, PacketStep DEF Ip4Inv

-----------------------------------------------------------------------------

(* IP4Protocol sends no packet twice, whatever the number of slots, hosts  *)
(* and packets.                                                            *)
THEOREM PacketsSentOnce == Ip4Spec => []SentOnce
<1> QED  BY InitIp4Inv, NextIp4Inv, PTL DEF Ip4Spec, Ip4Inv, PacketInv

(* No packet disappears between SendMessage, _pendingPackets and the       *)
(* interface.                                                              *)
THEOREM PacketsAccounted == Ip4Spec => []Accounted
<1> QED  BY InitIp4Inv, NextIp4Inv, PTL DEF Ip4Spec, Ip4Inv, PacketInv

(* A reply leaves no packet for its sender behind in _pendingPackets.      *)
THEOREM RepliesLeaveNone == Ip4Spec => []NoneLeftBehind
<1> QED  BY InitIp4Inv, NextIp4Inv, PTL DEF Ip4Spec, Ip4Inv, PacketInv

(* Every frame IP4Protocol transmits is addressed to the MAC address last  *)
(* announced for its destination.                                          *)
THEOREM FramesToLatest == Ip4Spec => SentToLatest
<1>1. Ip4Inv /\ [Ip4Next]_<<arpVars, ip4Vars>>
        => [\A frame \in wire' \ wire : frame.mac = learned'[frame.dest]]_wire
  <2> SUFFICES ASSUME Ip4Inv, [Ip4Next]_<<arpVars, ip4Vars>>,
                      NEW frame \in wire' \ wire
               PROVE  frame.mac = learned'[frame.dest]
    OBVIOUS
  <2>1. ASSUME NEW ip \in Ips, SendMessage(ip) PROVE frame.mac = learned'[frame.dest]
    <3>1. Resolved(ip) /\ UNCHANGED learned /\ frame = Frame(next, ip, MacOf(ip))
      BY <2>1 DEF SendMessage, SendWithoutHeader, SendResolved, SendUnresolved,
                  SendFails, EnqueuePacket, arpVars
    <3>2. MacOf(ip) = learned[ip]
      BY <3>1, ResolvedIsLearned DEF Ip4Inv
    <3> QED  BY <3>1, <3>2 DEF Frame
  <2>2. ASSUME NEW ip \in Ips, NEW mac \in Macs, ArpReply(ip, mac)
        PROVE  frame.mac = learned'[frame.dest]
    <3>1. PICK i \in Flushed(ip) : frame = Frame(waiting[i].packet, waiting[i].dest, mac)
      BY <2>2 DEF ArpReply, AddressResolved
    <3>2. frame.dest = ip /\ frame.mac = mac
      BY <3>1 DEF Frame, Flushed
    <3>3. learned'[ip] = mac
      BY <2>2 DEF ArpReply, ProcessReply, Ip4Inv, ArpInv, ArpTypeOK
    <3> QED  BY <3>2, <3>3
  <2>3. CASE UNCHANGED ip4Vars
    BY <2>3 DEF ip4Vars
  <2>4. ASSUME NEW given \in BOOLEAN, SetAddressResolver(given) PROVE FALSE
    BY <2>4 DEF SetAddressResolver
  <2> QED  BY <2>1, <2>2, <2>3, <2>4 DEF Ip4Next, ArpStep
<1> QED  BY <1>1, InitIp4Inv, NextIp4Inv, PTL DEF Ip4Spec, SentToLatest
==============================================================================
