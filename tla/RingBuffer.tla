------------------------------ MODULE RingBuffer ------------------------------
(***************************************************************************)
(* RingBuffer<SIZE, T, Atomic> of mcucpp/ring_buffer.h with one producer   *)
(* and one consumer in different contexts (a main loop and an interrupt    *)
(* handler, whichever way round).  The producer calls push_back, the       *)
(* consumer calls empty, front and pop_front.  The accesses to _count are  *)
(* those of an Atomic class that is atomic; between any two accesses to    *)
(* shared state the other context may run.  _last is touched only by the   *)
(* producer and _first only by the consumer, so they move with the step    *)
(* next to them.  clear() is called while neither is active.               *)
(***************************************************************************)
EXTENDS Integers, Sequences

CONSTANTS
  SIZE,
  IndexMod,    \* 2 to the width of size_type: uint_fast8_t has 8 bits or more
  Items,       \* values of T
  MaxItems     \* bound of the model: items pushed since the last clear

ASSUME RingAssumption ==
  SIZE \in Nat \ {0} /\ MaxItems \in Nat /\ Items # {}

\* SelectSizeForLength: size_type holds SIZE itself, nothing more is asked.
ASSUME SizeTypeAssumption == IndexMod \in Nat /\ SIZE < IndexMod

Slots == 0..(SIZE - 1)

VARIABLES
  data,    \* _buffer
  first, last, count,
  ppc,     \* where the producer is inside push_back
  cpc,     \* where the consumer is between empty() and the end of pop_front
  got,     \* what front() returned
  log,     \* history: the items stored since the last clear
  popped   \* history: items removed since the last clear

ringVars == <<data, first, last, count, ppc, cpc, got, log, popped>>

(* Types of the ring; _count stays within the capacity and the indices     *)
(* within the array.                                                       *)
RingTypeOK ==
  /\ data \in [Slots -> Items]
  /\ first \in Slots /\ last \in Slots
  /\ count \in 0..SIZE
  /\ ppc \in {"idle", "store", "count"}
  /\ cpc \in {"idle", "front", "sub", "advance"}
  /\ got \in Items
  /\ log \in Seq(Items)
  /\ popped \in Nat

RingInit ==
  /\ data \in [Slots -> Items]    \* not initialised
  /\ got \in Items
  /\ first = 0 /\ last = 0 /\ count = 0
  /\ ppc = "idle" /\ cpc = "idle"
  /\ log = <<>> /\ popped = 0

Advanced(i) == IF i + 1 >= SIZE THEN 0 ELSE i + 1

-----------------------------------------------------------------------------
(* The producer *)

\* Mutant: room for one more than SIZE.
HasRoomOneMore == count # SIZE + 1

HasRoom == count # SIZE

\* push_back returns false when the buffer is full, without a change.
PushTest ==
  /\ ppc = "idle"
  /\ HasRoom
  /\ Len(log) < MaxItems
  /\ ppc' = "store"
  /\ UNCHANGED <<data, first, last, count, cpc, got, log, popped>>

PushStore(item) ==
  /\ ppc = "store"
  /\ data' = [data EXCEPT ![last] = item]
  /\ last' = Advanced(last)
  /\ log' = Append(log, item)
  /\ ppc' = "count"
  /\ UNCHANGED <<first, count, cpc, got, popped>>

PushCount ==
  /\ ppc = "count"
  /\ count' = count + 1
  /\ ppc' = "idle"
  /\ UNCHANGED <<data, first, last, cpc, got, log, popped>>

-----------------------------------------------------------------------------
(* The consumer *)

\* Mutant: the last item is not seen.
TakeTestLeavesOne ==
  /\ cpc = "idle"
  /\ count > 1
  /\ cpc' = "front"
  /\ UNCHANGED <<data, first, last, count, ppc, got, log, popped>>

TakeTest ==
  /\ cpc = "idle"
  /\ count # 0                   \* !empty()
  /\ cpc' = "front"
  /\ UNCHANGED <<data, first, last, count, ppc, got, log, popped>>

TakeFront ==
  /\ cpc = "front"
  /\ got' = data[first]
  /\ cpc' = "sub"
  /\ UNCHANGED <<data, first, last, count, ppc, log, popped>>

\* pop_front tests _count again; nobody else removes items.
PopSub ==
  /\ cpc = "sub"
  /\ count # 0
  /\ count' = count - 1
  /\ cpc' = "advance"
  /\ UNCHANGED <<data, first, last, ppc, got, log, popped>>

PopAdvance ==
  /\ cpc = "advance"
  /\ first' = Advanced(first)
  /\ popped' = popped + 1
  /\ cpc' = "idle"
  /\ UNCHANGED <<data, last, count, ppc, got, log>>

\* Mutant: clear keeps _last.
ClearFirstOnly ==
  /\ ppc = "idle" /\ cpc = "idle"
  /\ first' = 0 /\ count' = 0
  /\ log' = <<>> /\ popped' = 0
  /\ UNCHANGED <<data, last, ppc, cpc, got>>

Clear ==
  /\ ppc = "idle" /\ cpc = "idle"
  /\ first' = 0 /\ last' = 0 /\ count' = 0
  /\ log' = <<>> /\ popped' = 0
  /\ UNCHANGED <<data, ppc, cpc, got>>

-----------------------------------------------------------------------------

RingNext ==
  \/ PushTest \/ (\E item \in Items : PushStore(item)) \/ PushCount
  \/ TakeTest \/ TakeFront \/ PopSub \/ PopAdvance
  \/ Clear

\* Calls that have begun are finished: both contexts keep running.
RingFairness ==
  /\ WF_ringVars(PushCount)
  /\ WF_ringVars(TakeTest) /\ WF_ringVars(TakeFront)
  /\ WF_ringVars(PopSub) /\ WF_ringVars(PopAdvance)

RingSpec == RingInit /\ [][RingNext]_ringVars /\ RingFairness

-----------------------------------------------------------------------------
(* Properties *)

\* operator[]: the sum is stored in a size_type.
At(i) == LET offset == (first + i) % IndexMod
         IN  data[IF offset >= SIZE THEN offset - SIZE ELSE offset]

Quiet == ppc = "idle" /\ cpc = "idle"

(* However push_back and pop_front interleave, the n-th item the consumer  *)
(* takes is the n-th item that was stored: front() never returns a slot    *)
(* the producer has already overwritten or not yet written.                *)
TakenInOrder == cpc \in {"sub", "advance"} =>
                  popped < Len(log) /\ got = log[popped + 1]

(* Between calls, the elements buffer[0], buffer[1], ... up to size() are  *)
(* the items stored and not yet removed, oldest first, across any number   *)
(* of wraps of the indices and after clear(), as long as size_type can     *)
(* hold _first + index.  It always can when 2 * SIZE - 2 < IndexMod; with  *)
(* an 8 bit size_type, which takes capacities up to 255, an index beyond   *)
(* it reads another slot from 129 elements on.                             *)
IndexedInOrder ==
  Quiet => /\ count = Len(log) - popped
           /\ \A i \in 0..(count - 1) :
                first + i < IndexMod => At(i) = log[popped + 1 + i]

(* A consumer that passed its test of empty() still finds the item when    *)
(* pop_front tests again, so an item it has used is always removed.        *)
ConsumerNotFooled == cpc \in {"front", "sub"} => count # 0

(* An item that push_back stored is taken, unless the buffer is cleared.   *)
EveryItemTaken ==
  \A n \in 1..MaxItems : Len(log) >= n ~> (popped >= n \/ Len(log) < n)

===============================================================================
