------------------------------- MODULE Modbus -------------------------------
(***************************************************************************)
(* A Modbus RTU slave: ModbusTransportRtu over the DMA of a USART and      *)
(* ModbusSlave behind it.  The receiver fills one DataChunk at a time and  *)
(* collects them in _rxBuffer until the line falls idle; the answer is a   *)
(* list of chunks, _txBuffer, sent one after the other.  Chunks come from  *)
(* the heap, but the two that SetStaticBuffers is given.                   *)
(*                                                                         *)
(* The DMA calls back in an interrupt handler, the receive time-out in a   *)
(* task of the main loop, which runs before the master sends again: while  *)
(* it composes an answer the handler of the transmitter may run.  The      *)
(* master sends when it likes: after a time-out of its own also while the  *)
(* answer to its last request is on the line.                              *)
(***************************************************************************)
EXTENDS Naturals, Sequences

CONSTANTS Chunks,      \* chunks the heap can hold
          MaxFull,     \* chunks a request fills entirely, at most
          Header,      \* sizeof(DataChunk)
          ReadBytes,   \* sizes of the answers to a read
          StaticBytes  \* capacities of a static chunk for the answers

ASSUME ModbusAssumption ==
    /\ Chunks \in Nat \ {0} /\ MaxFull \in Nat /\ Header \in Nat
    /\ ReadBytes \subseteq Nat \ {0} /\ StaticBytes \subseteq Nat

Function == {"read", "writeCoils", "writeRegister", "writeCoil",
             "writeRegisters", "readWrite", "other"}
\* legal: the handler's own checks pass; store: the write callback returns
\* NoError; accept: the range and the callback of a read, which returns `bytes`.
Request == [fn : Function, legal : BOOLEAN, store : BOOLEAN, accept : BOOLEAN,
            bytes : ReadBytes]

\* What a chunk of the answer holds: nothing, all of it, the payload or the CRC behind
\* it, or a payload whose last two bytes the CRC overwrote.  heap: it can be released.
Part == [what : {"empty", "all", "payload", "crc", "cut"}, current : BOOLEAN,
         heap : BOOLEAN]
NoPart == [what |-> "none", current |-> FALSE, heap |-> FALSE]
Silence == [open |-> FALSE, full |-> 0, rest |-> FALSE]

VARIABLES
    mem,       \* the transport's buffers and the heap
    rx,        \* the read DMA: never started, off, on, or off while the task answers
    byte,      \* a byte that came while nothing read waits, or was stored uncounted
    frame,     \* what the line still delivers of the current request
    clean,     \* _rxBuffer and the chunk being filled hold only this frame
    leaked,    \* chunks whose last pointer Stop forgot
    wild,      \* DetachFront was called on an empty list
    taken,     \* history: GetTxBuffer or Stop took the list of the transmission
    answers,   \* history: valid answers to the current request on the line
    excused    \* history: the current request may stay without an answer

vars == <<mem, rx, byte, frame, clean, leaked, wild, taken, answers, excused>>

Init ==
    /\ mem = [static |-> FALSE, room |-> 0, free |-> Chunks, chunk |-> FALSE, held |-> 0,
              txb |-> <<>>, tx |-> NoPart, txLive |-> TRUE]
    /\ rx = "never" /\ byte = FALSE /\ frame = Silence /\ clean = TRUE
    /\ leaked = 0 /\ wild = FALSE /\ taken = FALSE
    /\ answers = 0 /\ excused = TRUE

-----------------------------------------------------------------------------
\* DataChunk::GetNew rounds the size of chunk and data up to the next sixteen.
Capacity(size) == ((size + Header + 16) \div 16) * 16 - Header

Freed(m, n) == [m EXCEPT !.free = @ + n]

\* The chunks of a list that are released: only the front can be the static one.
OfHeap(list) ==
    IF list # <<>> /\ ~Head(list).heap THEN Len(list) - 1 ELSE Len(list)

\* Mutant: the list is forgotten, its chunks are not released.
ClearTxLeaks(m) == [m EXCEPT !.txb = <<>>, !.txLive = @ /\ m.tx = NoPart]

\* GetTxBuffer and ~DataBuffer: the list goes, also from under a running DMA.
ClearTx(m) == [Freed(m, OfHeap(m.txb)) EXCEPT !.txb = <<>>,
                                              !.txLive = @ /\ m.tx = NoPart]
ClearRx(m) == [Freed(m, m.held) EXCEPT !.held = 0]

\* InsertBack into the list GetTxBuffer returned: the static chunk holds the payload,
\* or one from the heap does, behind the static one if there is one.
Own(m, size) == m.static /\ size <= m.room
Inserted(m, size) == Own(m, size) \/ m.free > 0

\* The CRC goes into the last chunk, into a new one, or, when there is no memory for
\* one, over the end of the payload.
Composed(m, size) ==
    LET own     == Own(m, size)
        P(w, h) == [what |-> w, current |-> TRUE, heap |-> h]
        fits    == size + 2 <= IF own THEN m.room ELSE Capacity(size)
        lead    == IF m.static /\ ~own THEN <<P("empty", FALSE)>> ELSE <<>>
        body    == IF fits THEN <<P("all", ~own)>>
                   ELSE IF m.free > IF own THEN 0 ELSE 1
                        THEN <<P("payload", ~own), P("crc", TRUE)>>
                        ELSE <<P("cut", ~own)>>
    IN  lead \o body

\* Mutant: the answer is queued and its transmission is not started.
SendMessageUnstarted(m, size) ==
    LET parts == Composed(m, size)
    IN  [m EXCEPT !.free = @ - OfHeap(parts), !.txb = parts]

\* SendMessage: a busy DMA refuses, and so does an empty front chunk.
SendMessage(m, size) ==
    LET parts == Composed(m, size)
    IN  [m EXCEPT !.free = @ - OfHeap(parts), !.txb = parts,
                  !.tx = IF @ = NoPart /\ Head(parts).what # "empty"
                         THEN Head(parts) ELSE @]

\* Mutant: the answer is copied; its chunks go with the handler's own list.
RespondCopied(m, size) ==
    LET c == ClearTx(m)
    IN  IF Inserted(c, size) THEN ClearTx(SendMessage(c, size)) ELSE c

\* GetTxBuffer, InsertBack(size) and SendMessage; nothing is sent without memory.
Respond(m, size) ==
    LET c == ClearTx(m)
    IN  IF Inserted(c, size) THEN SendMessage(c, size) ELSE c
SendError(m) == Respond(m, 3)
Confirm(m) == Respond(ClearRx(m), 6)

\* The four read functions, and the second half of ReadWriteMultipleRegisters.
Read(m, r) ==
    LET c == ClearTx(ClearRx(m))
    IN  IF r.accept /\ Inserted(c, r.bytes) THEN SendMessage(c, r.bytes)
        ELSE SendError(c)

\* ModbusSlave::MessageReceived and the handlers of the functions.
Succeeds(r) ==
    CASE r.fn = "other"                            -> FALSE
      [] r.fn \in {"read", "writeRegister"}        -> TRUE
      [] r.fn = "writeCoils"                       -> r.legal
      [] r.fn = "writeCoil"                        -> r.store
      [] r.fn \in {"writeRegisters", "readWrite"}  -> r.legal /\ r.store
MessageReceived(m, r) ==
    IF ~Succeeds(r) THEN SendError(m)
    ELSE IF r.fn \in {"read", "readWrite"} THEN Read(m, r) ELSE Confirm(m)

\* Why the slave may stay silent: another answer is still on the line, the static
\* chunk is too small for the answer, or the heap may not hold it.
Size(r) ==
    IF ~Succeeds(r) THEN 3
    ELSE IF r.fn \notin {"read", "readWrite"} THEN 6
    ELSE IF r.accept THEN r.bytes ELSE 3
Silenced(m, r) ==
    \/ m.tx # NoPart
    \/ m.static /\ m.room < Size(r)
    \/ ClearTx(m).free < 2 /\ ~(m.static /\ Size(r) + 2 <= m.room)

-----------------------------------------------------------------------------
\* ReadAsync: a byte that came before it is stored but not counted.
ReadAsync == rx' = "on" /\ byte' \in BOOLEAN

More(f) == f.full > 0 \/ f.rest
LastChunk == frame.full = 0 \/ (frame.full = 1 /\ ~frame.rest)

\* The CRC is 0: nothing is in _rxBuffer but one complete frame.
Valid(end, good) ==
    clean /\ good /\ ~byte /\ LastChunk /\ (end \/ mem.static)

\* A chunk is attached to _rxBuffer and the next one allocated.
AttachBack ==
    IF mem.static THEN mem
    ELSE [mem EXCEPT !.held = @ + 1, !.chunk = mem.free > 0,
                     !.free = IF mem.free > 0 THEN @ - 1 ELSE @]

\* The request of another slave's; the slave's own, received by the DMA's handler; or
\* by the task, which the transmitter interrupts once GetTxBuffer has taken the list.
Deliver(m, end, next) ==
    \/ /\ mem' = ClearRx(m) /\ excused' = TRUE
       /\ frame' = next /\ ReadAsync /\ UNCHANGED <<clean, taken>>
    \/ /\ ~end
       /\ \E r \in Request : /\ mem' = ClearRx(MessageReceived(m, r))
                            /\ excused' = Silenced(m, r)
       /\ taken' = (m.tx # NoPart)
       /\ frame' = next /\ ReadAsync /\ UNCHANGED clean
    \/ /\ end
       /\ mem' = ClearTx(m) /\ taken' = (m.tx # NoPart)
       /\ rx' = "task" /\ frame' = [Silence EXCEPT !.open = TRUE]
       /\ UNCHANGED <<byte, clean, excused>>

\* MessageReceived goes on behind GetTxBuffer, then RxHandler.
Answer ==
    /\ rx = "task"
    /\ \E r \in Request : /\ mem' = ClearRx(MessageReceived(mem, r))
                         /\ excused' = Silenced(mem, r)
    /\ frame' = Silence /\ ReadAsync
    /\ UNCHANGED <<clean, leaked, wild, taken, answers>>

\* RxHandler, or RxHandlerStatic, called with bytes; `end`: the line fell idle.
\* With static buffers every chunk is taken for a whole frame.
RxHandler(end, good, next) ==
    /\ LET m == AttachBack
       IN  \/ /\ ~mem.chunk                       \* stopped in the meantime
              /\ rx' = "off" /\ byte' \in BOOLEAN /\ excused' = TRUE
              /\ frame' = next /\ UNCHANGED <<mem, clean, taken>>
           \/ /\ mem.chunk /\ ~m.chunk            \* out of memory
              /\ mem' = m /\ rx' = "off" /\ byte' \in BOOLEAN /\ excused' = TRUE
              /\ frame' = next /\ UNCHANGED <<clean, taken>>
           \/ /\ mem.chunk /\ m.chunk /\ Valid(end, good)
              /\ Deliver(m, end, next)
           \/ /\ mem.chunk /\ m.chunk /\ ~Valid(end, good)
              /\ mem' = IF end THEN ClearRx(m) ELSE m
              /\ clean' = (clean /\ good /\ ~byte /\ ~end /\ ~mem.static)
              /\ excused' = (excused \/ ~clean')
              /\ frame' = next /\ ReadAsync /\ UNCHANGED taken
    /\ UNCHANGED <<leaked, wild, answers>>

\* The DMA has filled the chunk.
RxComplete ==
    /\ frame.open /\ rx = "on" /\ frame.full > 0
    /\ RxHandler(FALSE, TRUE, [frame EXCEPT !.full = @ - 1])

\* OnReadTimeout behind the last byte; its task may run before the DMA's handler.
RxTimeout ==
    /\ frame.open /\ rx = "on" /\ More(frame) /\ LastChunk
    /\ RxHandler(TRUE, TRUE, Silence)

\* OnReadTimeout with no byte counted: the frame filled its last chunk exactly, or
\* its last byte came before the read.
RxTimeoutEmpty ==
    /\ frame.open /\ rx = "on"
    /\ ~More(frame) \/ (byte /\ frame.full = 0)
    /\ frame' = Silence
    /\ IF mem.chunk THEN ReadAsync ELSE rx' = "off" /\ byte' \in BOOLEAN
    /\ excused' = (excused \/ mem.held > 0 \/ byte)
    /\ UNCHANGED <<mem, clean, leaked, wild, taken, answers>>

\* A DMA error reports a full chunk and the end of the frame.
RxError ==
    /\ frame.open /\ rx = "on" /\ More(frame)
    /\ RxHandler(TRUE, FALSE, IF frame.full > 0 THEN [frame EXCEPT !.full = @ - 1]
                              ELSE [frame EXCEPT !.rest = FALSE])

\* Nothing reads: the bytes are lost, one stays in the data register.
RxLost ==
    /\ frame.open /\ rx \in {"never", "off"}
    /\ frame' = Silence /\ byte' = TRUE /\ excused' = TRUE
    /\ UNCHANGED <<mem, rx, clean, leaked, wild, taken, answers>>

\* Mutant: the chunk behind the one that was sent is not started.
TxCompleteStops ==
    LET t    == mem.tx
        good == mem.txLive /\ t.current /\ t.what \in {"all", "crc"}
    IN  /\ ~wild /\ t # NoPart
        /\ answers' = IF good THEN answers + 1 ELSE answers
        /\ IF mem.txb = <<>>
           THEN wild' = TRUE /\ mem' = [mem EXCEPT !.tx = NoPart] /\ UNCHANGED taken
           ELSE /\ mem' = [Freed(mem, IF Head(mem.txb).heap THEN 1 ELSE 0) EXCEPT
                    !.txb = Tail(mem.txb), !.tx = NoPart, !.txLive = TRUE]
                /\ taken' = FALSE /\ UNCHANGED wild
        /\ UNCHANGED <<rx, byte, frame, clean, leaked, excused>>

\* TxHandler of a chunk that was sent: it is detached and the next one started.
TxComplete ==
    LET t    == mem.tx
        rest == Tail(mem.txb)
        good == mem.txLive /\ t.current /\ t.what \in {"all", "crc"}
    IN  /\ ~wild /\ t # NoPart
        /\ answers' = IF good THEN answers + 1 ELSE answers
        /\ IF mem.txb = <<>>
           THEN wild' = TRUE /\ mem' = [mem EXCEPT !.tx = NoPart] /\ UNCHANGED taken
           ELSE /\ mem' = [Freed(mem, IF Head(mem.txb).heap THEN 1 ELSE 0) EXCEPT
                    !.txb = rest,
                    !.tx = IF rest = <<>> THEN NoPart ELSE Head(rest),
                    !.txLive = \/ rest = <<>> \/ Head(rest).what # "crc"
                               \/ @ /\ t.what = "payload"]
                /\ taken' = FALSE /\ UNCHANGED wild
        /\ UNCHANGED <<rx, byte, frame, clean, leaked, excused>>

TxError ==
    /\ ~wild /\ mem.tx # NoPart
    /\ mem' = [ClearTx(mem) EXCEPT !.tx = NoPart, !.txLive = TRUE]
    /\ taken' = FALSE
    /\ excused' = (excused \/ mem.tx.current)
    /\ UNCHANGED <<rx, byte, frame, clean, leaked, wild, answers>>

-----------------------------------------------------------------------------
\* By the application, which calls it while nothing is read.
StartListen ==
    /\ ~wild /\ rx \in {"never", "off"}
    /\ mem.static \/ ClearRx(mem).free > 0
    /\ mem' = IF mem.static THEN mem
              ELSE [ClearRx(mem) EXCEPT !.chunk = TRUE, !.free = @ - 1]
    /\ rx' = "on" /\ byte' \in {byte, byte \/ frame.open}
    /\ clean' = TRUE /\ excused' = (excused \/ byte')
    /\ UNCHANGED <<frame, leaked, wild, taken, answers>>

\* With two chunks, by the application before it starts to listen.
SetStaticBuffers ==
    /\ ~wild /\ rx = "never"
    /\ \E size \in StaticBytes :
           mem' = [ClearTx(ClearRx(mem)) EXCEPT !.static = TRUE, !.room = size,
                                                !.chunk = TRUE]
    /\ UNCHANGED <<rx, byte, frame, clean, leaked, wild, taken, answers, excused>>

DiscardReadBuffer ==
    /\ ~wild /\ rx # "task" /\ mem.held > 0
    /\ mem' = ClearRx(mem)
    /\ clean' = FALSE /\ excused' = TRUE
    /\ UNCHANGED <<rx, byte, frame, leaked, wild, taken, answers>>

Stop ==
    /\ ~wild /\ rx # "task"
    /\ mem' = [ClearTx(ClearRx(mem)) EXCEPT !.static = FALSE, !.room = 0, !.chunk = FALSE]
    /\ leaked' = IF mem.chunk /\ ~mem.static THEN leaked + 1 ELSE leaked
    /\ taken' = (taken \/ mem.tx # NoPart)
    /\ excused' = TRUE
    /\ UNCHANGED <<rx, byte, frame, clean, wild, answers>>

\* The master's next request: from now on an answer on its way is a late one.
Old(p) == [p EXCEPT !.current = FALSE]
MasterSends ==
    /\ ~wild /\ ~frame.open
    /\ \E n \in 0 .. MaxFull, b \in BOOLEAN :
           frame' = [open |-> TRUE, full |-> n, rest |-> b] /\ More(frame')
    /\ mem' = [mem EXCEPT !.tx = Old(@), !.txb = [i \in DOMAIN @ |-> Old(@[i])]]
    /\ clean' = (mem.held = 0)
    /\ answers' = 0 /\ excused' = (mem.held > 0 \/ byte)
    /\ UNCHANGED <<rx, byte, leaked, wild, taken>>

\* Behind DetachFront on an empty list anything may happen until a reset.
Reset ==
    /\ wild
    /\ mem' = [static |-> FALSE, room |-> 0, free |-> Chunks, chunk |-> FALSE, held |-> 0,
               txb |-> <<>>, tx |-> NoPart, txLive |-> TRUE]
    /\ rx' = "never" /\ byte' = FALSE /\ frame' = Silence /\ clean' = TRUE
    /\ leaked' = 0 /\ wild' = FALSE /\ taken' = FALSE
    /\ answers' = 0 /\ excused' = TRUE

Receive ==
    ~wild /\ (RxComplete \/ RxTimeout \/ RxTimeoutEmpty \/ RxError \/ RxLost \/ Answer)

Next ==
    \/ Receive \/ TxComplete \/ TxError
    \/ StartListen \/ Stop \/ SetStaticBuffers \/ DiscardReadBuffer
    \/ MasterSends \/ Reset

Spec == Init /\ [][Next]_vars /\ WF_vars(Receive) /\ WF_vars(TxComplete)

-----------------------------------------------------------------------------
\* No path of receiving, answering, failing or running out of memory loses or
\* frees a chunk twice; only Stop forgets the one that is being filled.
ChunksConserved ==
    mem.free + leaked + mem.held + OfHeap(mem.txb)
        + (IF mem.chunk /\ ~mem.static THEN 1 ELSE 0) = Chunks

\* A request is answered once, or one of these happened to it: bytes came while
\* nothing read or between two reads, the frame filled its last chunk exactly or
\* came behind one that had, it was longer than the static chunk, a DMA error,
\* no memory or too small a static chunk, an earlier answer still on the line,
\* Stop, DiscardReadBuffer, or it was another slave's.
AnsweredOrExcused ==
    /\ answers <= 1
    /\ ~frame.open /\ mem.tx = NoPart /\ ~wild => answers = 1 \/ excused

\* TxHandler detaches from an empty list only if, since that transmission began, Stop
\* emptied the list or a request was taken up, static buffers or not.
ListOutlivesTransmission ==
    wild \/ (mem.tx # NoPart /\ mem.txb = <<>>) => taken

\* A master that waits for the answer before it sends again gets each request
\* answered, or given up for one of these reasons.
RequestSettles ==
    <>[][MasterSends => answers = 1 \/ excused]_vars
        => (frame.open ~> (answers = 1 \/ excused \/ wild))
=============================================================================
