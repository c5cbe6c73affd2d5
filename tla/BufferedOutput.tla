---------------------------- MODULE BufferedOutput ----------------------------
(***************************************************************************)
(* BufferedOutput of mcucpp/buffered_output.h: Write puts a byte into the  *)
(* transmit register of the USART or, when that is busy, into the ring     *)
(* buffer; TxInterruptHandler refills the register from the ring buffer.   *)
(*                                                                         *)
(* Extends module RingBuffer: Write is the producer and takes the steps of *)
(* push_back.  The handler is the consumer; it preempts Write between any  *)
(* two steps and runs to its end, so it is one step here.  A byte is its   *)
(* number in order of the calls of Write.                                  *)
(*                                                                         *)
(* When the interrupt is requested the handler runs before the next step   *)
(* of Write if prompt holds; otherwise it runs some time later, as it does *)
(* with interrupt latency or when Write is called with interrupts masked.  *)
(***************************************************************************)
EXTENDS RingBuffer

CONSTANT MayTimeOut    \* the TimeoutMonitor can run out
ASSUME TimeOutAssumption == MayTimeOut \in BOOLEAN

Bytes == 1..MaxItems
ASSUME BytesAssumption == Items = Bytes
None == 0

VARIABLES
  prompt,       \* the interrupt is served at once; chosen at the start
  wpc,          \* where Write is
  cur,          \* the byte of the current or last call of Write
  txInt,        \* the TxEmpty interrupt is enabled
  ready,        \* Source::WriteReady(): the transmit register is free
  register,     \* the transmit register
  line,         \* history: the bytes that were shifted out
  dropped,      \* history: bytes given up after the time-out
  overwritten   \* history: bytes lost in the register

outVars == <<prompt, wpc, cur, txInt, ready, register, line, dropped, overwritten>>
allVars == <<ringVars, outVars>>

OutputInit ==
  /\ RingInit
  /\ data = [i \in Slots |-> 1] /\ got = 1    \* never read
  /\ prompt \in BOOLEAN
  /\ wpc = "idle" /\ cur = 0
  /\ txInt = FALSE /\ ready = TRUE /\ register = None
  /\ line = <<>> /\ dropped = {} /\ overwritten = {}

Requested == txInt /\ ready
MayRun == ~(prompt /\ Requested)     \* Write is not preempted now

\* Source::Write: a byte that is still in the register is lost.
WriteRegister(byte) ==
  /\ register' = byte
  /\ ready' = FALSE
  /\ overwritten' = IF ready THEN overwritten ELSE overwritten \union {register}

-----------------------------------------------------------------------------
(* Write *)

\* Mutant: the interrupt is not enabled.
WriteBeginDisabled ==
  /\ wpc = "idle" /\ MayRun
  /\ cur < MaxItems
  /\ cur' = cur + 1
  /\ wpc' = "test"
  /\ UNCHANGED <<ringVars, prompt, txInt, ready, register, line, dropped, overwritten>>

WriteBegin ==
  /\ wpc = "idle" /\ MayRun
  /\ cur < MaxItems
  /\ cur' = cur + 1
  /\ txInt' = TRUE
  /\ wpc' = "test"
  /\ UNCHANGED <<ringVars, prompt, ready, register, line, dropped, overwritten>>

\* Mutant: Write does not look at the register.
GoDirectAlways == TRUE

GoDirect == ready

WriteTest ==
  /\ wpc = "test" /\ MayRun
  /\ wpc' = IF GoDirect THEN "direct" ELSE "push"
  /\ UNCHANGED <<ringVars, prompt, cur, txInt, ready, register, line, dropped, overwritten>>

WriteDirect ==
  /\ wpc = "direct" /\ MayRun
  /\ WriteRegister(cur)
  /\ wpc' = "idle"
  /\ UNCHANGED <<ringVars, prompt, cur, txInt, line, dropped>>

\* push_back returns false; the handler may free a slot before Tick is called.
PushFails ==
  /\ wpc = "push" /\ ppc = "idle" /\ MayRun
  /\ ~HasRoom
  /\ wpc' = "tick"
  /\ UNCHANGED <<ringVars, prompt, cur, txInt, ready, register, line, dropped, overwritten>>

\* Tick returns true: the loop tries again.
TickAgain ==
  /\ wpc = "tick" /\ MayRun
  /\ wpc' = "push"
  /\ UNCHANGED <<ringVars, prompt, cur, txInt, ready, register, line, dropped, overwritten>>

\* Tick returns false: the byte is given up, whether or not there is room by now.
WriteTimesOut ==
  /\ wpc = "tick" /\ MayRun
  /\ MayTimeOut
  /\ dropped' = dropped \union {cur}
  /\ wpc' = "idle"
  /\ UNCHANGED <<ringVars, prompt, cur, txInt, ready, register, line, overwritten>>

WritePush ==
  /\ wpc = "push" /\ MayRun
  /\ \/ (PushTest \/ PushStore(cur)) /\ UNCHANGED wpc
     \/ PushCount /\ wpc' = "idle"
  /\ UNCHANGED <<prompt, cur, txInt, ready, register, line, dropped, overwritten>>

-----------------------------------------------------------------------------

\* Mutant: the handler forgets pop_front.
HandlerSendsKept ==
  /\ WriteRegister(data[first])
  /\ got' = data[first]
  /\ UNCHANGED <<data, first, last, count, ppc, cpc, log, popped, txInt>>

\* front() and pop_front(), the steps TakeFront, PopSub and PopAdvance at once.
HandlerSends ==
  /\ WriteRegister(data[first])
  /\ got' = data[first]
  /\ count' = count - 1
  /\ first' = Advanced(first)
  /\ popped' = popped + 1
  /\ UNCHANGED <<data, last, ppc, cpc, log, txInt>>

HandlerStops ==
  /\ txInt' = FALSE
  /\ UNCHANGED <<ringVars, ready, register, overwritten>>

TxInterruptHandler ==
  /\ Requested
  /\ \/ count # 0 /\ HandlerSends
     \/ count = 0 /\ HandlerStops
  /\ UNCHANGED <<prompt, wpc, cur, line, dropped>>

\* The hardware takes the byte out of the register.
TxDone ==
  /\ ~ready
  /\ ready' = TRUE
  /\ line' = Append(line, register)
  /\ UNCHANGED <<ringVars, prompt, wpc, cur, txInt, register, dropped, overwritten>>

-----------------------------------------------------------------------------

OutputNext ==
  \/ WriteBegin \/ WriteTest \/ WriteDirect
  \/ WritePush \/ PushFails \/ TickAgain \/ WriteTimesOut
  \/ TxInterruptHandler \/ TxDone

\* The hardware sends, a requested interrupt is served and a call of Write
\* that has begun goes on; nothing says that Write is called again.
OutputFairness ==
  /\ WF_allVars(TxDone) /\ WF_allVars(TxInterruptHandler)
  /\ WF_allVars(WriteTest) /\ WF_allVars(WriteDirect)
  /\ WF_allVars(WritePush) /\ WF_allVars(PushFails)
  /\ WF_allVars(TickAgain \/ WriteTimesOut)

OutputSpec == OutputInit /\ [][OutputNext]_allVars /\ OutputFairness

-----------------------------------------------------------------------------
(* Properties *)

Buffered == {log[k] : k \in (popped + 1)..Len(log)}
InRegister == IF ready THEN {} ELSE {register}
OnLine == {line[k] : k \in DOMAIN line}
Started == {b \in Bytes : b < cur \/ (b = cur /\ wpc = "idle")}

(* A byte whose Write has returned is on the line, in the register, in the *)
(* ring buffer, given up after a time-out or overwritten in the register:  *)
(* no byte disappears between Write and the handler, and none is in two    *)
(* places or sent twice, also when the handler frees a slot between the    *)
(* push_back that failed and the Tick that gives the byte up.              *)
BytesConserved ==
  /\ Started \subseteq OnLine \union InRegister \union Buffered \union dropped
                         \union overwritten
  /\ \A i, j \in DOMAIN line : line[i] = line[j] => i = j
  /\ Buffered \intersect (OnLine \union InRegister \union dropped \union overwritten) = {}
  /\ InRegister \intersect OnLine = {}

(* With an interrupt that is served at once, bytes leave in the order of   *)
(* the calls of Write, whichever of the two ways they take, and neither    *)
(* Write nor the handler writes into a register that still holds a byte.   *)
(* With a late one a byte written directly may overtake buffered ones.     *)
PromptInOrder ==
  prompt => /\ \A i, j \in DOMAIN line : i < j => line[i] < line[j]
            /\ overwritten = {}

(* A byte in the ring buffer may be left behind with the interrupt off,    *)
(* but the next call of Write gets it sent, unless a direct write          *)
(* overwrites it in the register.                                          *)
WriteUnsticks ==
  \A b \in Bytes :
    (b \in Buffered /\ wpc = "test") ~> (b \in OnLine \union overwritten)

(* The test Usart.Buffered: a byte that was buffered while the register    *)
(* was busy is sent by the handler once it is free.                        *)
EveryByteSent ==
  \A b \in Bytes : (b \in Buffered) ~> (b \in OnLine \union overwritten)
===============================================================================
