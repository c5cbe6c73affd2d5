--------------------------------- MODULE Arp ---------------------------------
(***************************************************************************)
(* The ARP protocol of Mcucpp (mcucpp/net/ArpProtocol): the address table, *)
(* the pending requests, the resend timer and the cache timer.             *)
(*                                                                         *)
(* Everything here runs in the main context, one handler at a time: calls  *)
(* of AddressResolve by IP4Protocol, messages NetDispatch::RxComplete      *)
(* hands over, and the two tasks the dispatcher runs.  Of the dispatcher   *)
(* the module keeps the two timers and the order of the posted tasks; that *)
(* the dispatcher has no slot for a timer, or drops its task because the   *)
(* task queue is full, is the choice MayLose allows (TimerDropped of       *)
(* module Dispatcher says when it happens).                                *)
(*                                                                         *)
(* The network may lose, delay and duplicate replies: a reply may arrive   *)
(* at any time or never.                                                   *)
(*                                                                         *)
(* A time stamp ts is represented by its age, GetTicks() - ts, up to the   *)
(* first age at which the code's comparison no longer changes, and a timer *)
(* by the ticks left until it is due.  Time is thus unbounded; that the    *)
(* 32-bit counter wraps is left out here (module Dispatcher has it).       *)
(***************************************************************************)
EXTENDS Integers, Sequences, FiniteSets

CONSTANTS
  Ips, Macs,      \* addresses of the other hosts
  TableSize,      \* ArpTableSize
  PendingCount,   \* PendingRequestsCount
  ArpAttempts,
  ArpResendTimeout,
  CacheTimeout,   \* _cacheTimeoutMsec
  MayLose,        \* the dispatcher may lose a timer
  MaxCalls        \* bound of the model: requests started for each address

ASSUME SizesAssumption ==
  /\ TableSize \in Nat \ {0} /\ PendingCount \in Nat \ {0}
  /\ ArpAttempts \in Nat \ {0} /\ ArpResendTimeout \in Nat \ {0}
  /\ CacheTimeout \in Nat \ {0} /\ MayLose \in BOOLEAN

ASSUME CallsAssumption == MaxCalls \in [Ips -> Nat]

NoIp  == "noIp"    \* IpAddr(), or the broadcast address of an expired entry
NoMac == "noMac"
Off   == -1        \* a timer that is not set
ASSUME AddressAssumption == NoIp \notin Ips /\ NoMac \notin Macs

TableSlots   == 1..TableSize
PendingSlots == 1..PendingCount
EntryAges    == 0..(CacheTimeout + 1)
RequestAges  == 0..(ArpResendTimeout + 1)

VARIABLES
  table,     \* _arpTable
  pending,   \* _pendingRequests
  resendIn,  \* timer of ProcessPendingRequests: ticks left, or Off
  cacheIn,   \* timer of InvalidateChache: ticks left, or Off
  taskq,     \* the tasks of this module the dispatcher holds, oldest first
  learned,   \* history: the MAC address last announced for an address
  calls,     \* history: AddressResolve calls that started a request
  sent,      \* history: requests passed to SendMessage
  skipped,   \* history: ProcessPendingRequests found a request too young
  lost       \* history: the dispatcher lost a timer

arpVars == <<table, pending, resendIn, cacheIn, taskq, learned, calls, sent,
             skipped, lost>>

EmptyEntry   == [ip |-> NoIp, mac |-> NoMac, age |-> 0]
EmptyRequest == [ip |-> NoIp, age |-> 0, attempts |-> 0]

(* Types of the ARP state; no request has more attempts left than it       *)
(* started with.                                                           *)
ArpTypeOK ==
  /\ table \in [TableSlots -> [ip : Ips \union {NoIp}, mac : Macs \union {NoMac},
                               age : EntryAges]]
  /\ pending \in [PendingSlots -> [ip : Ips \union {NoIp}, age : RequestAges,
                                   attempts : 0..(ArpAttempts - 1)]]
  /\ resendIn \in Off..ArpResendTimeout
  /\ cacheIn \in Off..CacheTimeout
  /\ taskq \in Seq({"resend", "invalidate"})
  /\ learned \in [Ips -> Macs \union {NoMac}]
  /\ calls \in [Ips -> Nat]
  /\ sent \in [Ips -> Nat]
  /\ skipped \in BOOLEAN /\ lost \in BOOLEAN

\* The constructor posts InvalidateChache.
ArpInit ==
  /\ table = [i \in TableSlots |-> EmptyEntry]
  /\ pending = [i \in PendingSlots |-> EmptyRequest]
  /\ resendIn = Off /\ cacheIn = Off
  /\ taskq = <<"invalidate">>
  /\ learned = [ip \in Ips |-> NoMac]
  /\ calls = [ip \in Ips |-> 0]
  /\ sent = [ip \in Ips |-> 0]
  /\ skipped = FALSE /\ lost = FALSE

FirstOf(S) == {i \in S : \A j \in S : i <= j}

-----------------------------------------------------------------------------
(* ArpTable *)

EntriesOf(tbl, ip) == {i \in TableSlots : tbl[i].ip = ip}

\* Mutant: Add returns when the address is known.
AddOnlyNew(tbl, ip, mac) ==
  LET slot == IF EntriesOf(tbl, ip) # {} THEN {} ELSE FirstOf(EntriesOf(tbl, NoIp))
  IN  [i \in TableSlots |->
         IF i \in slot THEN [ip |-> ip, mac |-> mac, age |-> 0] ELSE tbl[i]]

\* Add: the entry of the address, else the first free one, else nothing.
Add(tbl, ip, mac) ==
  LET slot == FirstOf(IF EntriesOf(tbl, ip) # {} THEN EntriesOf(tbl, ip)
                                                 ELSE EntriesOf(tbl, NoIp))
  IN  [i \in TableSlots |->
         IF i \in slot THEN [ip |-> ip, mac |-> mac, age |-> 0] ELSE tbl[i]]

Resolved(ip) == EntriesOf(table, ip) # {}
MacOf(ip) == table[CHOOSE i \in FirstOf(EntriesOf(table, ip)) : TRUE].mac

\* Mutant: the ages are compared the wrong way round.
ExpiredNever(entry) == entry.age < 0

Expired(entry) == entry.age > CacheTimeout

Invalidate(tbl) ==
  [i \in TableSlots |-> IF Expired(tbl[i]) THEN EmptyEntry ELSE tbl[i]]

-----------------------------------------------------------------------------
(* Requests *)

\* SetTimer: the timer starts anew, or the dispatcher has no slot for it.
SetArpTimer(timer, period) ==
  \/ timer' = period /\ UNCHANGED lost
  \/ MayLose /\ UNCHANGED timer /\ lost' = TRUE

NewRequest(ip) == [ip |-> ip, age |-> 0, attempts |-> ArpAttempts - 1]

\* AddressResolve for an address that is not in the table: a request goes out
\* and the first slot that is empty or holds the address records it.
StartRequest(ip) ==
  /\ calls[ip] < MaxCalls[ip]
  /\ calls' = [calls EXCEPT ![ip] = @ + 1]
  /\ sent' = [sent EXCEPT ![ip] = @ + 1]
  /\ pending' =
       [i \in PendingSlots |->
          IF i \in FirstOf({j \in PendingSlots : pending[j].ip \in {NoIp, ip}})
          THEN NewRequest(ip)
          ELSE pending[i]]
  /\ SetArpTimer(resendIn, ArpResendTimeout)

AddressResolve(ip) ==
  /\ ~Resolved(ip)
  /\ StartRequest(ip)
  /\ UNCHANGED <<table, cacheIn, taskq, learned, skipped>>

\* ProcessMessage for a reply to this host: the first pending request for the
\* address is done, the table learns the address.
ProcessReply(ip, mac) ==
  /\ pending' =
       [i \in PendingSlots |->
          IF i \in FirstOf({j \in PendingSlots : pending[j].ip = ip})
          THEN EmptyRequest ELSE pending[i]]
  /\ table' = Add(table, ip, mac)
  /\ learned' = [learned EXCEPT ![ip] = mac]
  /\ UNCHANGED <<resendIn, cacheIn, taskq, calls, sent, skipped, lost>>

\* AddAddress, called by the application.
AddAddress(ip, mac) ==
  /\ table' = Add(table, ip, mac)
  /\ learned' = [learned EXCEPT ![ip] = mac]
  /\ UNCHANGED <<pending, resendIn, cacheIn, taskq, calls, sent, skipped, lost>>

-----------------------------------------------------------------------------
(* The tasks *)

\* Mutant: a request is repeated without counting the attempt.
RetriedForEver(request) == [request EXCEPT !.age = 0]

\* A request that is sent again.
Retried(request) == [request EXCEPT !.attempts = @ - 1, !.age = 0]

\* Mutant: the timer is not set again after requests were repeated.
RearmNever(again) == UNCHANGED <<resendIn, lost>>

\* The end of ProcessPendingRequests: if (invokeAgain) SetTimer.
Rearm(again) ==
  IF again THEN SetArpTimer(resendIn, ArpResendTimeout)
           ELSE UNCHANGED <<resendIn, lost>>

ProcessPendingRequests ==
  LET used   == {i \in PendingSlots : pending[i].ip # NoIp}
      spent  == {i \in used : pending[i].attempts = 0}
      resend == {i \in used \ spent : pending[i].age > ArpResendTimeout}
  IN  /\ pending' = [i \in PendingSlots |->
                       IF i \in spent THEN EmptyRequest
                       ELSE IF i \in resend THEN Retried(pending[i])
                       ELSE pending[i]]
      /\ sent' = [ip \in Ips |-> sent[ip]
                    + Cardinality({i \in resend : pending[i].ip = ip})]
      /\ Rearm(resend # {})
      /\ skipped' = (skipped \/ used # spent \union resend)
      /\ UNCHANGED <<table, cacheIn, learned, calls>>

\* Mutant: the timer is set again only if an entry expired.
InvalidateChacheOnce ==
  /\ table' = Invalidate(table)
  /\ IF table' # table THEN SetArpTimer(cacheIn, CacheTimeout)
                       ELSE UNCHANGED <<cacheIn, lost>>
  /\ UNCHANGED <<pending, resendIn, learned, calls, sent, skipped>>

InvalidateChache ==
  /\ table' = Invalidate(table)
  /\ SetArpTimer(cacheIn, CacheTimeout)
  /\ UNCHANGED <<pending, resendIn, learned, calls, sent, skipped>>

\* Poll runs the oldest task.
RunTask ==
  /\ taskq # <<>>
  /\ taskq' = Tail(taskq)
  /\ \/ Head(taskq) = "resend" /\ ProcessPendingRequests
     \/ Head(taskq) = "invalidate" /\ InvalidateChache

\* TimerHandler posts the task of a timer that is due, or loses it.
TimerFires(timer, task) ==
  /\ timer = 0
  /\ timer' = Off
  /\ \/ taskq' = Append(taskq, task) /\ UNCHANGED lost
     \/ MayLose /\ UNCHANGED taskq /\ lost' = TRUE
  /\ UNCHANGED <<table, pending, learned, calls, sent, skipped>>

ResendTimerFires == TimerFires(resendIn, "resend") /\ UNCHANGED cacheIn
CacheTimerFires  == TimerFires(cacheIn, "invalidate") /\ UNCHANGED resendIn

Older(record, max) == [record EXCEPT !.age = IF @ < max THEN @ + 1 ELSE @]
TimerLeft(left) == IF left > 0 THEN left - 1 ELSE left

\* The tick interrupt: every time stamp and every timer is one tick older.
ArpTick ==
  /\ table' = [i \in TableSlots |-> IF table[i].ip = NoIp THEN table[i]
                                    ELSE Older(table[i], CacheTimeout + 1)]
  /\ pending' = [i \in PendingSlots |-> IF pending[i].ip = NoIp THEN pending[i]
                                        ELSE Older(pending[i], ArpResendTimeout + 1)]
  /\ resendIn' = TimerLeft(resendIn)
  /\ cacheIn' = TimerLeft(cacheIn)
  /\ UNCHANGED <<taskq, learned, calls, sent, skipped, lost>>

-----------------------------------------------------------------------------

ArpNext ==
  \/ \E ip \in Ips : AddressResolve(ip)
  \/ \E ip \in Ips, mac \in Macs : ProcessReply(ip, mac)
  \/ \E ip \in Ips, mac \in Macs : AddAddress(ip, mac)
  \/ RunTask \/ ResendTimerFires \/ CacheTimerFires
  \/ ArpTick

\* The main loop polls for ever and time goes on; nothing is said of the
\* network or of the callers.
ArpFairness ==
  /\ WF_arpVars(RunTask)
  /\ WF_arpVars(ResendTimerFires)
  /\ WF_arpVars(CacheTimerFires)
  /\ WF_arpVars(ArpTick)

ArpSpec == ArpInit /\ [][ArpNext]_arpVars /\ ArpFairness

-----------------------------------------------------------------------------
(* Properties *)

(* Whatever order replies, additions by hand and expiry come in, an        *)
(* address has at most one entry in _arpTable, so Resolve(ipAddr) cannot   *)
(* return a second, older one after the first expired.                     *)
TableUnique ==
  \A i, j \in TableSlots : table[i].ip = table[j].ip /\ table[i].ip # NoIp => i = j

(* An entry of _arpTable holds the address last announced for its host,    *)
(* also after the table was full and refused an announcement: Resolve      *)
(* never answers with an overtaken address.                                *)
FreshMapping ==
  \A i \in TableSlots : table[i].ip # NoIp => table[i].mac = learned[table[i].ip]

(* However calls of AddressResolve, replies and the retry timer interleave *)
(* (an address may be pending in two slots at once), no more requests go   *)
(* out for an address than ArpAttempts for every call, those still to be   *)
(* sent included.                                                          *)
RequestsBounded ==
  \A ip \in Ips :
    sent[ip] + Cardinality({p \in PendingSlots \X (1..ArpAttempts) :
                              pending[p[1]].ip = ip /\ p[2] <= pending[p[1]].attempts})
      <= ArpAttempts * calls[ip]

(* A pending request has the retry timer or its task behind it, unless the *)
(* dispatcher lost the timer or ProcessPendingRequests ran so early that   *)
(* it left a request alone.                                                *)
PendingIsWatched ==
  (\E i \in PendingSlots : pending[i].ip # NoIp) =>
    \/ resendIn # Off
    \/ \E k \in DOMAIN taskq : taskq[k] = "resend"
    \/ skipped \/ lost

(* The chain of one-shot timers behind InvalidateChache never breaks, and  *)
(* never doubles, unless the dispatcher lost one: the cache timer runs, or *)
(* else its task is posted, once.                                          *)
CacheChain ==
  ~lost => (IF cacheIn = Off THEN 1 ELSE 0)
             = Cardinality({k \in DOMAIN taskq : taskq[k] = "invalidate"})

(* An entry that has outlived the cache timeout is removed or renewed by a *)
(* new announcement, unless the dispatcher lost the timer of               *)
(* InvalidateChache.                                                       *)
OldEntriesLeave ==
  \A i \in TableSlots :
    table[i].age > CacheTimeout ~> (table[i].age <= CacheTimeout \/ lost)

(* A request that is not answered is repeated until its attempts are used  *)
(* up and is then given up, unless the timer was lost or a run of          *)
(* ProcessPendingRequests found a request too young.                       *)
RequestsEnd ==
  \A i \in PendingSlots :
    pending[i].ip # NoIp ~> (pending[i].ip = NoIp \/ skipped \/ lost)

=============================================================================
