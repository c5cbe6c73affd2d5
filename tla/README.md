# A TLA+ verification of Mcucpp

Mcucpp is a C++ template library for microcontrollers (AVR, MSP430, Cortex-M):
ports, timers and buses wrapped in templates, and on top of them a small
run-time: a task dispatcher, ring buffers, allocators, a network stack
(ARP, IPv4, UDP, ICMP), Modbus RTU, non-volatile storage, file systems,
graphics and text formatting. This directory holds TLA+ modules that model the
parts with state and ordering of their own, TLC configurations that check them
on small instances, and proofs that TLAPS checks for every value of the
constants. `PROJECT.json` lists components, runs, mutants, the map from
definitions to source lines, findings, hazards and theorems.

## 1. Inventory

| Component | State | Operations | What is hard | What makes it correct |
|---|---|---|---|---|
| Task queue (`dispatcher.h`) | ring `_tasks`, `_first`, `_last`, `_count` | `SetTask` (main loop and interrupt handlers), `Poll` | handlers preempt between test and critical section, and between releasing a slot and invoking through it | indices coherent, order and exactly once until a task is stored over, nothing else loses a task, bounded overrun, every task not stored over runs |
| Timers (`dispatcher.h`) | `_timers` slots, `_timerSequence`, tick function | `SetTimer`, `StopTimer` (task / id), `RestartTimer`, `TimerHandler` in `Poll` | tick and sequence wrap, stale ids, slot reuse, full queue | one slot per task, fires once, early only across a wrap, never hangs |
| Ring buffers (`ring_buffer.h`) | `_first`, `_last`, `_count`, array | push, pop, front, back, clear, index | one producer and one consumer in different contexts, policy of atomicity, index width | contents are a FIFO, size right under interleaving |
| ARP (`net/ArpProtocol`) | table, pending requests, timer | `Resolve`, `ProcessMessage`, `ProcessPendingRequests` | lost and duplicated replies, retry timer, table eviction | one current entry per address, every pending request is answered or given up |
| IPv4 (`net/Ip4Protocol`) | pending packets, identification | `SendMessage`, `ProcessMessage`, `AddressResolved` | packet waits for ARP, buffers exhausted | each packet is sent once or dropped, slots are freed |
| Net dispatch, UDP, ICMP | port table, rx queue | route, listen, echo | order of received messages | routed to the right protocol |
| NVM storage (`Storage/NvmStorage.h`, `flash.h`) | flash pages with versioned records | read, write | power loss between two double words or around an erase, refused words, erased first page | what `Read` returns after a fault, versions identify records, how far `Read` may be behind |
| Bitmap allocator (`allocators/bitmap_alloc`), behind `operator new` | bit map, `_lastBlock` | `Alloc`, `Free`, `FreeAll` | `Free` touches `_lastBlock` with interrupts enabled; word boundaries | regions disjoint, freed ones found again unless calls raced, blocks lost in two named ways only |
| Memory pool (`mempool.h`) | bit map | `Alloc`, `Free`, `FreeAll` | compare-and-exchange from several contexts, ABA | no block twice, null only for a reason |
| Data buffers (`data_buffer`) | lists of chunks | attach, detach, clear, move | ownership of chunks in callbacks | no chunk lost or freed twice |
| Modbus RTU (`modbus.h`, `src/modbus.cpp`, `impl/modbus_impl.h`) | transport, slave, chunk lists | reception, request handlers, response, `StartListen`, `Stop`, static buffers | frames of several chunks, no memory, DMA errors, bytes that came while nothing read, a transmitter that interrupts the composing of an answer, a master that repeats | a request is answered once or there is a reason |
| USART, DMA, I2C drivers | transfer state | async read and write with callback, interrupt handlers | interrupt against caller, time-outs | each transfer calls back once |
| Ethernet descriptors (`EtherRxTxQueue`, `mac_descriptors`) | rx and tx rings shared with DMA | enqueue, poll, complete | ownership bit shared with hardware | no buffer owned twice |
| Keyboard, encoder, servo, 7-segment, RFM70, SD card, FAT, PID, text formatting, fixed point, UTF-8 | small | sequential | boundaries | reference definitions |

Components call each other directly; asynchrony enters through `SetTask` and
`SetTimer`. The network stack posts its work to the dispatcher, ARP arms a
dispatcher timer for retries and calls IPv4 back when an address is resolved,
drivers post the callbacks of completed transfers from interrupt handlers.

## 2. Modules

`TaskFifo` is the abstract promise: a bounded first-in first-out queue in which
tasks run exactly once and in order of acceptance. It is a safety specification;
that tasks do run is stated of `TaskQueue` itself.

`TaskQueue` is the queue of `Dispatcher`. Context 0 is the main loop, contexts
1..Levels are interrupt priority levels; `Running(c)` says that a context runs
only while all higher ones are idle. A section under `DisableInterrupts` or
`ATOMIC` is one step, and a handler can start between any two steps:
`SetTaskBegin` is the test of `_count`, made with interrupts enabled,
`SetTaskEnd` the critical section; `PollTest`, `PollTake` and `PollInvoke` are
the test, the `ATOMIC` block and the invocation through the reference. A task is
the number of the `SetTask` call that was accepted. `invoked`, `posted` and
`overrun` (a task not yet run has been stored over) are history variables.

`Dispatcher` extends `TaskQueue` with the timers. Each queue step of `Poll` and
`TimerHandler` is an action of `TaskQueue`, conjoined with what happens to the
timers; hence the refinement `DispatcherSpec => Spec`. `clock` is real time and
the code sees `clock % TickMod`. The id of a timer is its sequence number plus
`SeqMod` times its slot, as the code packs it into 24 + 8 bits. Periods start at 0,
for `SetTimer` and `RestartTimer` alike.

`Arp` is `ArpProtocol` with its table and its pending requests: `AddressResolve`,
replies (`ProcessReply`), `AddAddress`, the two tasks `ProcessPendingRequests`
and `InvalidateChache`, and the two dispatcher timers that post them. A time
stamp is represented by its age, saturated at the first age at which no
comparison of the code changes, and a timer by the ticks it has left. What the
dispatcher does with a timer it has no slot or no queue entry for is the choice
`MayLose`: `TimerDropped` of `Dispatcher` says when that happens. The
network answers at any time, several times or never. `MaxCalls` bounds the calls for
each address. `learned`, `calls`,
`sent`, `skipped` and `lost` are history variables.

`Ip4` extends `Arp` with the sending half of `IP4Protocol`. `SendMessage` asks
ARP for the address in the same step, as the code does, and sends, enqueues or
fails; `ArpReply` is the reply of ARP together with the call of
`AddressResolved` that flushes the packets waiting for that address. `resolver` says whether `SetAddressResolver` was called: without a resolver a packet
waits in its slot and nobody is asked. Every other step is a step of `Arp`.

`RingBuffer` is the class of the same name, one producer and one consumer in
different contexts, split at every access to shared state: `PushTest`,
`PushStore`, `PushCount` against `TakeTest`, `TakeFront`, `PopSub`,
`PopAdvance`. A refused `push_back` changes nothing and is no action. `At` is `operator[]`, whose sum
of `_first` and the index is kept in a `size_type`: `IndexMod` is the number of values
that type has.

`BufferedOutput` extends `RingBuffer`: `Write` takes the producer's steps one by
one, and the transmit interrupt handler, which nothing in this model preempts,
runs as one step between any two of them, also between a `push_back` that fails
(`PushFails`) and the `Tick` that tries again (`TickAgain`) or gives the byte up
(`WriteTimesOut`). `prompt` says whether a requested
interrupt is served before `Write` goes on. The USART (`WriteRegister`,
`Requested`, `TxDone`) is external.

`NvmStorage` is the record store over its flash driver. `Write` is split where a
fault can fall: `WriteSame` and `WriteNew` choose the cell, `ProgramWord` programs
one double word, `ProgramFails` is a word the flash refuses, `ErasePage` and
`EraseFails` the recovery, `PowerLoss` forgets the call and keeps the cells.
`layout` is the order in which the words of a record are programmed, which the
application's type decides. `acked`, `pending`, `erased` and `behind` are history
variables. `behind` counts the contents that `Write` acknowledged and `Read` misses,
whichever return statement acknowledged them (`Lag`), `WriteSame` included.

`Heap` is the abstract promise of an allocator: a region handed out overlaps no
other one in use. `inUse` counts what was handed out, so that the same region
given out twice is not a stuttering step.

`BitMap` refines it: the allocator below `operator new`. `Alloc` runs with
interrupts disabled and is one step; `Free` compares `_lastBlock` (`FreeBegin`),
stores into it (`FreeLowersHint`) and clears the bits (`FreeClears`), and a handler
may come in between. `FreeRefused` is its early return. `Places` and
`FittingWords` are the two searches of `Alloc` as sets of positions.

`MemPool` refines `Heap` too, with regions of one block: `Alloc` is split into the
fetch of a word, the next word, the compare-and-exchange and its failure, and
contexts are nested as in `TaskQueue`.

`Modbus` is the RTU slave: the transport with its receive chunk, receive list and
transmit list, and the handlers of `ModbusSlave`. The DMA's callbacks are interrupt
handlers (`RxComplete`, `RxError`, `TxComplete`, `TxError`). The receive time-out is a
task that the driver posts (`OnReadTimeout`, `ARM/Stm32L4x1/src/usart.cpp:11`), so
that the transmitter's handler can run while it composes the answer: `RxTimeout` goes
as far as `GetTxBuffer`, which takes the transmit list, and `Answer` is the rest
(`rx` is `"task"` in between).
The frame on the line is the number of chunks it fills entirely and whether bytes
follow; contents are what the properties tell apart: a complete good frame or not, an
answer with or without a valid CRC. `byte` is the one that no count includes: it came
while nothing read and stayed in the data register, or `ReadAsync` stored it without
counting it (`ARM/Stm32L4x1/usart.h:454`), and the frame it belongs to fails its CRC.
A part of the answer knows whether its chunk comes from the heap, and a static chunk
that is too small stays as an empty front chunk, which `WriteAsync` refuses.
`StartListen`, `Stop`, `SetStaticBuffers` and `DiscardReadBuffer` are the calls of
the application. `MasterSends` and `RxLost` are external. `wild` marks the call of
`DetachFront` on an empty list, behind which only `Reset` goes on; `taken` records that
`Stop` or a request took the list since the running transmission began. `Silenced` names
the reasons for which a request taken up may stay without an answer.

`MCArp` and `MCIp4` define hosts and calls for the network runs, and `MCIp4` their
symmetry. `ModuloFacts` holds lemmas about
`%`. The theorems are in `DispatcherProofs` (`TaskQueue` and `Dispatcher`),
`Ip4Proofs` (`Arp` and `Ip4`), `BufferedOutputProofs` (`RingBuffer` and
`BufferedOutput`), `NvmProofs`, `BitMapProofs`, `MemPoolProofs` and `ModbusProofs`.

How they fit together:

```
TaskFifo <- refined by - TaskQueue <- extended and refined by - Dispatcher
                                                                  : timers (MayLose)
                                             Arp <- extended by - Ip4
                                      RingBuffer <- extended by - BufferedOutput
    Heap <- refined by - BitMap          NvmStorage (with the flash driver)
    Heap <- refined by - MemPool         Modbus (transport, slave, chunks, DMA)
```

Operators whose comment begins with "Mutant" are not part of the model. Each is a
plausible mistake in the definition after it; `PROJECT.json` says which property
notices it.

## 3. Runs

| Run | Instance | What it shows |
|---|---|---|
| `queue_interrupts` | 3 slots, main loop and 2 nested levels, 7 posts | the overrun is at most one task per level; an accepted task is lost only to a `SetTask` that stores over it; until that first happens the queue is step by step a `TaskFifo`; every task not stored over runs |
| `queue_overwrite` (violation) | 2 slots, 1 level | a task in the queue can be overwritten before `Poll` invokes it |
| `timers` | 1 queue slot, 1 level that posts, 2 posts, 2 timer slots, 2 tasks, tick counter and sequence of width 3, 3 `SetTimer`, 1 `RestartTimer`, periods 0 to 2 | one slot per task, each arming fires at most once, early only across a wrap, stale ids stop and move no other timer until the sequence wraps, a due timer is posted or lost to a full queue |
| `arp` | 2 hosts, the first asked for twice, 1 table entry, 2 pending slots, 2 attempts, timers may be lost | unbroken cache chain, bounded requests, watched requests, entries expire, requests end |
| `ip4_packets` | 2 hosts, 2 MAC addresses, 1 table entry, 2 packet slots, 3 packets, resolver unset or set | fresh addresses; packets sent once, to the latest address, none disappears, none is left behind by a reply |
| `nvm` | 2 pages of 2 records, 3 contents, both word orders | what `Read` returns after any sequence of writes, power failures and flash errors before the first erase; versions distinct for ever; without a new fault `Read` is at most three acknowledged contents behind; only the first page is ever erased |
| `ring_spsc` | 3 slots, indices of 2 bits, 7 items, 2 values | order under every interleaving, `operator[]` as far as `size_type` reaches, every item is taken |
| `uart` | 2 slots, 5 bytes, time-outs, prompt and late interrupts | bytes conserved, also when the handler frees a slot before `Tick`; order with a prompt interrupt; a byte left behind is sent after the next `Write` |
| `uart_stuck` (violation) | 2 slots, 4 bytes | a byte stays in the buffer with the interrupt disabled |
| `heap` | 8 bits in words of 3 (so one bit behind the map), lengths 1, 2 and 4, main program and one handler | regions disjoint and marked, a freed region is found again unless calls raced, blocks lost in two ways only, `BitMap` refines `Heap` |
| `mempool` | 5 blocks, words of 2, 3 nested contexts | `MemPool` refines `Heap`; null means full or a concurrent `Free` |
| `modbus` | heap of 5 chunks, requests of up to 2 full chunks and a rest, answers of one and of two chunks, static chunks of 4 and 32 bytes | chunks conserved, a request is answered once or for a named reason not at all, a transmission keeps its list unless `Stop` or a request takes it, a waiting master gets its answer |

The bounds are small but let the cases happen that the code distinguishes. The
queue wraps more than twice and is overrun by both levels. Order is a question for
`queue_interrupts` and its three slots. In `timers` both timer slots are in
use, freed and reused while a third timer is set; tick counter and sequence wrap;
a handler's task fills the queue, also while `TimerHandler` is inside `SetTask`, so a
due timer is lost. In `arp` the second call for the first host restarts the shared
timer while its first request waits, and finds a slot in front of the one that holds
it once the other host's is freed: one address in two slots. The ARP table of
one entry refuses the second host. The last retry gives a request up. The packet queue overflows with three packets for two
slots. The ring of three slots is passed more than twice, and its indices of two bits hold
some sums of `_first` and an index and not others, as 8 bits do from 129 slots on. The
output buffer is full while `Write` waits. The flash fills, is erased and filled again with a fault
at any word; every state of it is reached, as nothing bounds the number of writes.
The map of eight bits has three words, short regions cross one boundary, regions of
four blocks start inside a word, at its end and on the next one, and the last word reaches
behind `_mapSizeBits`. The last word of the pool has a bit that is no block's, and three contexts can
exchange, free and fill a word inside one another's `Alloc`. Of five chunks a request of three, the chunk behind it and an answer of
two want six, so memory runs out in reception and in the answer. `Header` 12 gives
the answer of 19 bytes, and the error answer, a chunk that the CRC does not fit into. A
static chunk of 4 bytes holds the error answer without its CRC and none of the others;
one of 32 bytes holds them all.

Bounds of the model (`MaxPosts`, `MaxClock`, `MaxCalls`, `MaxPackets`, `MaxItems`,
`MaxSetTimer`, `MaxRestart`) appear only as guards of the steps that start something new and of the
passing of time; what is under way always finishes. `NvmStorage`, `BitMap`,
`MemPool` and `Modbus` need none: their versions, regions and histories are bounded by the code.
`CHECK_DEADLOCK FALSE` is set for the output, where the program may simply have
nothing more to write, and for `queue_overwrite`, which stops at its bound.

Fairness is what the contexts themselves guarantee. The main loop keeps calling
`Poll`, a critical section that was entered is left, time advances (`WF` on `Poll`,
`SetTaskEnd`, `Tick`; on `RunTask`, the two timers and `ArpTick` for ARP), the
transmitter empties its register, a requested interrupt is served and a call that
began goes on: a full buffer fails `push_back`, and `Tick` answers. For Modbus a frame
that has begun comes to an end, and the time-out task that takes it up runs (`WF` on
`Receive`, of which `Answer` is a part),
and a started transmission ends with its interrupt (`WF` on `TxComplete`); nothing
makes the master send. Nothing is assumed of the network, of callers, of timers that were
lost or of a further call of `Write`. Storage and allocators have safety properties
only: their calls are loops over a bounded range, and a failed exchange means that
an interrupt came in between.

## 4. Proofs

All theorems hold for every value of the constants under the named assumptions
(positive sizes, contexts as numbers, no address equal to the reserved ones, an
`EmptyCell` above every version). Each module of proofs first lists the invariant's
parts, then has a lemma for `Init`, lemmas for the steps with a case per action, and
the theorems. Every safety invariant and every action property that a passing run
checks is the statement of a theorem. Each inductive invariant was also checked by
TLC on small instances.

| Component | Theorems | Rest on |
|---|---|---|
| Task queue | `OverrunIsBounded`, `AcceptedTasksAreKept`, `FifoOrder`, `QueueBehavesAsFifo` | `IInv` |
| Timers | `DispatcherImplementsQueue`, `DispatcherKeepsOrder`, `DispatcherBehavesAsFifo`, `TimersDoNotDuplicate`, `TimersEarlyOnlyAcrossWrap`, `TimersFireOnce`, `StaleIdsAreHarmless` | `TimerInv`, `PostsDue`, `HistoryInv` |
| ARP | `TableIsFresh`, `ArpInvariant`, `CacheChainHolds`, `RequestsAreBounded` | `ArpInv`, `ChainOnce`, `Owed` |
| IPv4 | `PacketsSentOnce`, `PacketsAccounted`, `RepliesLeaveNone`, `FramesToLatest` | `Ip4Inv` |
| Ring buffer | `RingTakenInOrder`, `RingConsumerNotFooled`, `RingIndexedInOrder`, `RingIndexesAll` | `RingInv` |
| Output | `OutputConservesBytes`, `PromptOutputInOrder` | `OutputInv` |
| NVM | `NvmDurableUntilErase`, `NvmVersionsDistinct`, `NvmLossBounded`, `NvmLaterPagesStay` | `NvmInv` |
| Bitmap | `RegionsAreHeld`, `BitMapImplementsHeap`, `LostInTwoWays`, `FreedRegionsAreFound` | `BitMapInv`, `FreedInv` |
| Memory pool | `PoolImplementsHeap`, `NullOnlyWhenFull` | `PoolInv`, `Scanned` |
| Modbus | `ChunksAreConserved`, `TransmissionKeepsItsList`, `RequestsAnsweredOnce` | `ModbusInv` |

*Task queue.* `RingCoherent` alone is not inductive, nor is the order of
the tasks. `IInv` adds `OverrunBound` (how many contexts have passed the capacity
test and not yet stored), `PollHolds` and `RefBehindFirst` (what `Poll` holds between
its steps), the balance of the numbers (`CountsBalance`) and `OrderUnlessOverrun`:
until a task is stored over, the waiting tasks lie in order from `_first`, the one
`Poll` holds lies in front of them, and together they fit. From it follow
`CountBound` and `FifoUnlessOverrun`, and that every step is one of `TaskFifo` or the
first overrun (`QueueBehavesAsFifo`), for every number of levels that post.

`CountsBalance` says nothing of the single task: where one is overwritten and another
runs twice the numbers still agree. `AcceptedTasksAreKept` speaks of each task by its
number: a step that takes it from the queue and from `Poll`'s hand without running it
is a `SetTask` that stores over its slot, when as many tasks as there are slots wait or
are held. Its proof shows that the slots in use are the `_count` ones from `_first` on,
round the array when it was overrun (`LiveSlots`), and that no step but that one writes
any of them.

*Timers.* `DispatcherImplementsQueue` shows that each step of the dispatcher is a
step of `TaskQueue` or leaves the queue alone, so the queue's theorems carry over.
`TimerInv` (`SlotsOK`, `OneSlotPerTask`, `TimesAgree`) and `PostsDue` tie the stored
time to the due time modulo the width of the counter. Early firing across a wrap is
then the only case in which the unsigned comparison is wrong.

`HistoryInv` relates the slots to the calls that took them: a running timer was
started by exactly one `SetTimer`, whose outcome is still open (`OwnersOpen`, hence
`TimersFireOnce`), and the n-th call used the n-th number of a cycle that skips 0
(`IdsInTurn`). Two equal ids are therefore a whole number of cycles apart, which is
what `StaleIdsAreHarmless` excepts.

*ARP.* `ArpInv` is the conjunction of type, uniqueness, freshness and
`PendingIsWatched`. `AddFacts` describes what `ArpTable::Add` leaves. `CacheChain`
follows from a form without cardinalities (`ChainOnce`). For `RequestsBounded`, each
step that sends a request takes one element out of `Owed`, the attempts left in the
slots of an address, and each call adds at most `ArpAttempts`.

*IPv4.* `Ip4Inv` adds to `ArpInv` that packets in slots are older than the next one
to be made (`PacketsOld`) and that used entries hold real addresses (`MacsKnown`).
`FramesToLatest` is an action property: every frame put on the wire goes to the
address its host announced last.

*Ring buffer.* `RingInv` relates `_count` to the history in every state between two
steps: `CountLags` (the count lags behind the stored items and runs ahead of the
removed ones by the step under way), `Indices` (both indices are the history counts
modulo the size), `RoomHeld` (a producer that found room keeps it), `Window` (the
slots in use hold the items not yet removed).

*Output.* `OutputInv` adds to `RingInv` where the byte of every call of `Write` is:
in the ring, in the register, on the line, or given up (`Placed`), each in one place.
The order needs `Ordered`: with a prompt interrupt, everything on the line precedes
the register, which precedes the ring, and `Write` goes the direct way only while the
ring is empty. Without promptness that last conjunct fails, as in finding 2.

*NVM.* `MaxElement` and `MinElement` are recursive functions over the cells; what
they return for any number of cells is proved from the least cell at which the claim
fails, which needs no induction theorem. `NvmInv` says that a page fills from its start, that the
first cell holds version 1 or none, what the cell being written holds half-way
(`HalfWay`), and how large a version can be in each page (`CellsInv`). The last is
needed because versions start again at 1 behind an erased first page: a record of a
later page is written at most once, and between two of them the first page fills at
most once, so that no version exceeds `CellsPerPage * (N - CellsPerPage + 1)`. The
assumption on `EmptyCell` is this bound, and a smaller one such
as `(Pages + 1) * CellsPerPage` is not enough for 3 pages of 3 records.
The code's 0xffffffff is far above it for the flash of these controllers. `NvmLossBounded` assumes two
records in a page, as the run has: with one record in a page TLC finds the bound
violated. Its part of the invariant is `BehindOK`: while `Read` is behind, the first page
holds at most its first record, so that the call that fills the second one ends the lag.

*Memory pool.* `PoolInv` says that the bits set are exactly the blocks handed out
(`MapIsLive`) and that a bit about to be exchanged is a block's (`BitOfBlock`). With
the first, equal words mean equal sets of blocks, which is why a comparison by value
is enough and ABA harmless: `PoolImplementsHeap`. `NullOnlyWhenFull` needs `Scanned`
besides: without an excuse, the words an `Alloc` has passed are still full.

*Bitmap.* `BitMapInv` is `HeldIsBusy` with `OneOwner` (a region is in use or inside
one context's `Free`), without which clearing its bits could take some from another
region. `FoundIsFree` describes what the searches of `Alloc` find; the refinement of
`Heap` and `LostInTwoWays` follow, whatever the race on `_lastBlock` left in it.
`FreedIsFound` needs that a region in use starts where `Alloc` can find it again
(`Placed`: not every free position is one that the two searches try) and that, as
long as no calls raced, the regions being freed lie at or behind `_lastBlock`, or
their `Free` is about to lower it (`HintFollows`).

*Modbus.* `ModbusInv` says what lists of chunks `_txBuffer` can hold (`IsList`: an
empty front chunk or a payload is followed by something, and a CRC comes last), how
the running transmission relates to its front (`TxList`), that nothing of the answer
to the current request exists while that request still comes in (`OneAnswer`), what a
task that is composing has left (`Composing`), and where the answer is that was neither
given nor excused (`AnswerComing`). `RxHoldsChunk` is why `SetStaticBuffers` loses no
chunk: a receiver that never read holds none. What composing and sending leave behind is
stated once (`ComposedFacts`, `AnswerFacts`), as every answer of the slave goes through
it. Once `wild` is set only the count of chunks, the types and `taken` are
claimed, as only `Reset` follows.

Only model-checked, because they need fairness or `ENABLED`: `EveryTaskRuns`,
`TimerDelivered`, `OldEntriesLeave`,
`RequestsEnd`, `EveryItemTaken`, `WriteUnsticks`, `RequestSettles`.
`AlwaysFifo` and `EveryByteSent` are what the two violation runs refute.

## 5. Findings

1. `Poll` (`dispatcher.h:257`) invokes through a reference to a slot it has already
   released. A handler that posts to a full queue in between replaces the task: one
   task is lost and another runs twice (`queue_overwrite`). The unprotected test of
   `_count` in `SetTask` (line 132) makes a full queue reachable beyond its capacity
   too, by at most one task per interrupt level (`CountBound`).
2. `BufferedOutput::Write` (`buffered_output.h:55`) enables the interrupt before it
   buffers the byte. A handler in between disables it again (`uart_stuck`). With a
   late interrupt a byte written directly can also overtake buffered ones, which is
   why `PromptInOrder` is conditional.

Behaviour of the code that no text of the repository contradicts, and that the
properties therefore name as exceptions:

- `TimerHandler` (`dispatcher.h:266`) compares times as plain unsigned numbers: a timer
  whose due time wraps fires at the next `Poll` (second case of `EarlyOnlyAcrossWrap`).
- `ProcessPendingRequests` (`ArpProtocol.cpp:229`) skips a request whose age equals the
  time-out, which is its age when the timer is due, and then does not set the timer
  again (`skipped` in `RequestsEnd` and `PendingIsWatched`).
- `NvmStorage::Write` (`NvmStorage.h:79`) reports success for a record it did not
  store when the flash is full, because `ErasePage(page) || WritePage(...)` writes only
  if the erase failed; then `max_element` stays on the empty first cell and versions
  start again at 1. Each costs one acknowledged content, and a third is lost when the
  first record was torn with its content in place and `Write`, called with that content,
  acknowledges it without writing (`LossBounded`). All wear goes to the first page
  (`LaterPagesStay`). A torn record may also be returned
  or taken for a stored one (exceptions of `DurableUntilErase`).
- `RingBuffer::operator[]` (`ring_buffer.h:270`) keeps `_first + index` in a `size_type`,
  which is `uint_fast8_t` for capacities up to 255. Where that has 8 bits (AVR, hosts) the
  sum wraps from 129 elements on and another item is returned: the condition of
  `IndexedInOrder`. `RingIndexesAll` says when it cannot happen.
- `BitMap` loses blocks for good when a region ends behind `_mapSizeBits`, or when a
  long region starts on a word boundary and a shift by the word's width marks the
  word before it (`LostOnlyTwoWays`). A race in `Free` can leave `_lastBlock` behind
  free blocks until a later `Free` lowers it (`raced` in `FreedIsFound`).
- `MemPool::Alloc` may return null although a block was free all the time: it does not
  look again at words it has passed (`NullMeansFull`).
- The Modbus transport leaves a request without an answer when memory runs out or the
  static chunk is too small for it, when a frame fills its last chunk exactly, when a
  byte arrives between two reads, or when one that came while nothing read is stored
  uncounted by the next `ReadAsync`: the first request after `StartListen` on a line that
  carried bytes before may fail its CRC (`AnsweredOrExcused`).
- `DetachFront` may run on an empty list (`wild`), with static buffers too: when the
  master repeats a request during the answer, when the time-out task has taken the list
  and the transmitter's handler runs before it sends, and when `Stop` is called during
  a transmission. `ListOutlivesTransmission` says that nothing else empties it.
- `Stop` forgets the chunk being filled (`ChunksConserved`).

Some hazards are in the models and happen in the code, but no property catches them,
because nothing in the repository promises otherwise: a due timer lost to a full queue
(`dispatcher.h:268`) and what ARP does after such a loss (`ArpProtocol.cpp:206`), the
race on `_lastBlock` (`bitmap_alloc.cpp:181`), and the requests Modbus drops for lack of
memory, for an exactly filled chunk, after a DMA error and for a byte between two reads.
The properties name them as exceptions and say what holds besides; under `hazards` they
are listed without a property.

## 6. Assumptions and what is left out

- A section under `DisableInterrupts` or `ATOMIC` is one step. On Cortex-M3 and AVR
  the inline assembly has no memory clobber, so this relies on the compiler.
- Timers are set, stopped and restarted only by the main context, as in the repository.
- In `Arp` the 32-bit tick counter does not wrap between a time stamp and its test
  (ages); `Dispatcher` models the wrap of the timers.
- `SetIp4Protocol` is called before the first frame arrives.
- `RingBuffer` is used with an atomic `Atomic` class; `VoidAtomic` is for one context.
- `clear()` is called while neither side is inside a call, and the `FreeAll` of the
  allocators while nobody is.
- `MemPool` is used with the `Mcucpp::Atomic` policy; the default one is for one context.
- `StartListen` is called when nothing is being read, `SetStaticBuffers` before the first
  `StartListen`, `Stop` and `DiscardReadBuffer` not from within the time-out task.
- The Modbus time-out task runs before the master's next frame begins, and the
  transmitter's handler may interrupt it at `GetTxBuffer` only: the transmission is over
  before or after `SendMessage`, not inside it.
- The size of a record divides the size of a flash page. `NvmStorage.h:22` asks only for
  a multiple of 8, but `WritePage` refuses a record across the end of a page
  (`flash.h:175`).
- A version of a record does not reach 2^32 - 1. A flash word is programmed entirely
  or not at all, and so is an erase.
- The ARP and IPv4 sources still use the names of an earlier buffer class
  (`DataBuffer::ReleaseRecursive`, now of `DataChunk`); the modules keep only which
  slot owns a packet.
- `Heap` knows positions of the bit map, not addresses. `Alloc` can hand out blocks
  behind `_mapSizeBits`, and where the map was rounded up to whole words
  (`bitmap_alloc.h:80`) such a block can lie behind the storage of `BitMapAllocator`,
  which is not modelled.
- `RingBuffer::back()` is not modelled. A test calls it (`tests/UnitTests/containers.cpp:31`);
  it reads in front of the array when `_last` has just wrapped to 0 (`ring_buffer.h:256`).
- Not modelled: contents of frames, header checksums, replies to other hosts'
  requests (they change no state), reception of IPv4 packets (routing only),
  `ProcessPendingPackets` (never called).

`PROJECT.json` lists the components that are not modelled and why. The Ethernet
descriptor queues are left out because `EtherRxTxQueue.h` calls functions and uses
constants that nothing at this commit declares. Drivers for displays, radio, SD card
and sensors are blocking sequences of bytes whose correctness is agreement with a
data sheet; pins, ports and clocks are templates over registers; filters and
mathematics use floating point; TLSF is a port of a library made of pointer
arithmetic. By lines, most of the repository is register headers of the
vendors, fonts, start-up code and examples, which have no behaviour to model: that is
why the modules map only a small share of it.

## 7. Plan

What would come next, in order of importance:

1. `RingBufferPO2` beside `RingBuffer`, with free-running counters of finite width. Its
   `push_back` increments the counter and stores through it in one expression
   (`ring_buffer.h:91`), so that what a consumer sees in between is the compiler's choice.
2. I2C transfers: one callback per transfer, time-out against completion.
3. The Ethernet queue, once it is ported to `DataChunk`.
4. Keyboard, encoder, median filter, and the pure algorithms (UTF-8, CRC, saturated
   arithmetic, division by ten) against reference definitions.
