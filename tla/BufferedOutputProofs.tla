------------------------- MODULE BufferedOutputProofs -------------------------
(***************************************************************************)
(* Proofs about modules RingBuffer and BufferedOutput for every capacity.  *)
(*                                                                         *)
(* The ring: with one producer and one consumer that interleave in any     *)
(* way, items are taken in order.  RingInv says how the shared fields      *)
(* relate in the middle of the calls: _count lags behind a store and runs  *)
(* ahead of the advance of _first (CountLags), the indices are the item    *)
(* counts modulo SIZE, and the slots of the items that are still promised  *)
(* are intact (Window).                                                    *)
(*                                                                         *)
(* The output: bytes go round the ring or straight into the register and   *)
(* none is lost between the two; with prompt interrupts they stay in       *)
(* order.  OutputInv adds where each byte of a begun call is (Placed) and  *)
(* that everything on the line precedes the register, which precedes the   *)
(* ring (Ordered).                                                         *)
(***************************************************************************)
EXTENDS BufferedOutput, ModuloFacts, TLAPS

Uncounted == IF ppc = "count" THEN 1 ELSE 0   \* stored, not in _count yet
Released  == IF cpc = "advance" THEN 1 ELSE 0 \* out of _count, _first not moved

CountLags == count + Uncounted + Released = Len(log) - popped
Indices == first = popped % SIZE /\ last = Len(log) % SIZE
RoomHeld == ppc \in {"store", "count"} => count < SIZE
Window == \A k \in (popped + Released)..(Len(log) - 1) : data[k % SIZE] = log[k + 1]

RingInv == /\ RingTypeOK /\ CountLags /\ Indices /\ RoomHeld /\ Window
           /\ ConsumerNotFooled /\ TakenInOrder

USE RingAssumption

\* Moving an index with the wrap of push_back and pop_front.
LEMMA AdvancedMod ==
  ASSUME NEW n \in Nat
  PROVE  Advanced(n % SIZE) = (n + 1) % SIZE /\ n % SIZE \in Slots
<1> DEFINE q == n \div SIZE
           r == n % SIZE
<1>1. q \in Int /\ r \in 0..(SIZE - 1) /\ n = SIZE * q + r
  BY DivMod
<1> HIDE DEF q, r
<1>2. CASE r + 1 < SIZE
  <2>1. (SIZE * q + (r + 1)) % SIZE = r + 1
    BY <1>1, <1>2, RemainderOf
  <2>2. n + 1 = SIZE * q + (r + 1)
    BY <1>1
  <2> QED  BY <1>1, <1>2, <2>1, <2>2 DEF Advanced, Slots, r
<1>3. CASE r + 1 >= SIZE
  <2>1. (SIZE * (q + 1) + 0) % SIZE = 0
    BY <1>1, RemainderOf
  <2>2. n + 1 = SIZE * (q + 1) + 0
    BY <1>1, <1>3
  <2> QED  BY <1>1, <1>3, <2>1, <2>2 DEF Advanced, Slots, r
<1> QED  BY <1>1, <1>2, <1>3

\* The offset operator[] computes.
LEMMA OffsetMod ==
  ASSUME NEW n \in Nat, NEW i \in Slots
  PROVE  (IF (n % SIZE) + i >= SIZE THEN (n % SIZE) + i - SIZE ELSE (n % SIZE) + i)
           = (n + i) % SIZE
<1> DEFINE q == n \div SIZE
           r == n % SIZE
<1>1. q \in Int /\ r \in 0..(SIZE - 1) /\ n = SIZE * q + r /\ i \in 0..(SIZE - 1)
  BY DivMod DEF Slots
<1> HIDE DEF q, r
<1>2. CASE r + i < SIZE
  <2>1. (SIZE * q + (r + i)) % SIZE = r + i
    BY <1>1, <1>2, RemainderOf
  <2>2. n + i = SIZE * q + (r + i)
    BY <1>1
  <2> QED  BY <1>1, <1>2, <2>1, <2>2 DEF r
<1>3. CASE r + i >= SIZE
  <2>1. (SIZE * (q + 1) + (r + i - SIZE)) % SIZE = r + i - SIZE
    <3>1. q + 1 \in Int /\ r + i - SIZE \in 0..(SIZE - 1)
      BY <1>1, <1>3
    <3> QED  BY <3>1, RemainderOf, Zenon
  <2>2. n + i = SIZE * (q + 1) + (r + i - SIZE)
    BY <1>1
  <2> QED  BY <1>1, <1>3, <2>1, <2>2 DEF r
<1> QED  BY <1>1, <1>2, <1>3

\* Items less than SIZE apart are in different slots.
LEMMA WindowDistinct ==
  ASSUME NEW a \in Nat, NEW b \in Nat, a < b, b - a < SIZE
  PROVE  a % SIZE # b % SIZE
<1> DEFINE p == a \div SIZE
           q == b \div SIZE
           r == a % SIZE
           s == b % SIZE
<1>1. /\ p \in Int /\ r \in 0..(SIZE - 1) /\ a = SIZE * p + r
      /\ q \in Int /\ s \in 0..(SIZE - 1) /\ b = SIZE * q + s
  BY DivMod
<1> HIDE DEF p, q, r, s
<1> SUFFICES ASSUME r = s PROVE FALSE
  BY DEF r, s
<1>2. b - a = SIZE * (q - p)
  BY <1>1
<1>3. CASE q - p <= 0
  <2>1. SIZE * (q - p) <= 0
    BY <1>1, <1>3
  <2> QED  BY <1>2, <2>1
<1>4. CASE q - p >= 1
  <2>1. SIZE * (q - p) >= SIZE
    BY <1>1, <1>4
  <2> QED  BY <1>2, <2>1
<1> QED  BY <1>1, <1>3, <1>4

-----------------------------------------------------------------------------

(* A constructed buffer satisfies the invariant. *)
LEMMA InitRingInv == RingInit => RingInv
<1> SUFFICES ASSUME RingInit PROVE RingInv
  OBVIOUS
<1>1. (SIZE * 0 + 0) % SIZE = 0
  BY RemainderOf
<1>2. RingTypeOK
  BY DEF RingInit, RingTypeOK, Slots
<1>3. CountLags /\ RoomHeld /\ ConsumerNotFooled /\ TakenInOrder
  BY DEF RingInit, CountLags, RoomHeld, ConsumerNotFooled, TakenInOrder, Uncounted, Released
<1>4. Indices
  BY <1>1 DEF RingInit, Indices
<1>5. Window
  BY DEF RingInit, Window, Released
<1> QED  BY <1>2, <1>3, <1>4, <1>5 DEF RingInv

(* The tests of full() and empty() keep the invariant. *)
LEMMA TestStep == RingInv /\ (PushTest \/ TakeTest) => RingInv'
<1> SUFFICES ASSUME RingInv, PushTest \/ TakeTest PROVE RingInv'
  OBVIOUS
<1> USE DEF RingInv, PushTest, TakeTest, HasRoom
<1>1. RingTypeOK'
  BY DEF RingTypeOK
<1>2. CountLags' /\ RoomHeld' /\ ConsumerNotFooled' /\ TakenInOrder'
  BY DEF RingTypeOK, CountLags, RoomHeld, ConsumerNotFooled, TakenInOrder, Uncounted,
         Released
<1>3. Indices'
  BY DEF Indices
<1>4. Released' = Released
  BY DEF Released
<1>5. Window'
  BY <1>4 DEF Window
<1> QED  BY <1>1, <1>2, <1>3, <1>5

(* Storing an item disturbs no item that is still promised. *)
LEMMA StoreStep ==
  ASSUME RingInv, NEW item \in Items, PushStore(item)  PROVE RingInv'
<1> USE DEF RingInv
<1>1. /\ ppc = "store" /\ ppc' = "count"
      /\ data' = [data EXCEPT ![last] = item] /\ last' = Advanced(last)
      /\ log' = Append(log, item) /\ UNCHANGED <<first, count, cpc, got, popped>>
  BY DEF PushStore
<1>2. log \in Seq(Items) /\ Len(log) \in Nat /\ popped \in Nat
  BY DEF RingTypeOK
<1>3. /\ log' \in Seq(Items) /\ Len(log') = Len(log) + 1
      /\ log'[Len(log) + 1] = item
      /\ \A k \in 1..Len(log) : log'[k] = log[k]
  BY <1>1, <1>2
<1>4. last = Len(log) % SIZE /\ last' = (Len(log) + 1) % SIZE
  BY <1>1, <1>2, AdvancedMod DEF Indices
<1>5. RingTypeOK'
  <2>1. last' \in Slots
    <3>1. Len(log) + 1 \in Nat
      BY <1>2
    <3>2. (Len(log) + 1) % SIZE \in Slots
      BY <3>1, AdvancedMod, Zenon
    <3> QED  BY <1>4, <3>2
  <2> QED  BY <1>1, <1>3, <2>1 DEF RingTypeOK
<1>6. Uncounted' = 1 /\ Uncounted = 0 /\ Released' = Released /\ Released \in {0, 1}
  BY <1>1 DEF Uncounted, Released
<1>7. count \in Nat /\ count + Released = Len(log) - popped /\ count < SIZE
  BY <1>1, <1>6 DEF CountLags, RoomHeld, RingTypeOK
<1>8. CountLags'
  BY <1>1, <1>2, <1>3, <1>6, <1>7 DEF CountLags
<1>9. RoomHeld' /\ ConsumerNotFooled'
  BY <1>1 DEF RoomHeld, ConsumerNotFooled
<1>10. Indices'
  BY <1>1, <1>3, <1>4 DEF Indices
<1>11. Window'
  <2> SUFFICES ASSUME NEW k \in (popped + Released)..Len(log)
               PROVE  data'[k % SIZE] = log'[k + 1]
    BY <1>1, <1>2, <1>3, <1>6 DEF Window
  <2>0. k \in Nat /\ data \in [Slots -> Items] /\ last \in Slots
    BY <1>2, <1>6 DEF RingTypeOK
  <2>1. CASE k = Len(log)
    BY <1>1, <1>3, <1>4, <2>0, <2>1
  <2>2. CASE k # Len(log)
    <3>1. k < Len(log) /\ Len(log) - k < SIZE /\ k + 1 \in 1..Len(log)
      BY <1>2, <1>6, <1>7, <2>0, <2>2
    <3>2. k % SIZE # last
      BY <1>2, <1>4, <2>0, <3>1, WindowDistinct
    <3>3. k % SIZE \in Slots
      BY <2>0, AdvancedMod
    <3>4. data[k % SIZE] = log[k + 1]
      BY <1>2, <1>6, <2>2 DEF Window
    <3> QED  BY <1>1, <1>3, <2>0, <3>1, <3>2, <3>3, <3>4
  <2> QED  BY <2>1, <2>2
<1>12. TakenInOrder'
  BY <1>1, <1>2, <1>3 DEF TakenInOrder
<1> QED  BY <1>5, <1>8, <1>9, <1>10, <1>11, <1>12

(* Counting a stored item, and releasing one, keep the invariant. *)
LEMMA CountStep == RingInv /\ (PushCount \/ PopSub) => RingInv'
<1> SUFFICES ASSUME RingInv, PushCount \/ PopSub PROVE RingInv'
  OBVIOUS
<1> USE DEF RingInv
<1>0. UNCHANGED <<data, first, last, got, log, popped>>
  BY DEF PushCount, PopSub
<1>1. RingTypeOK'
  BY DEF RingTypeOK, PushCount, PopSub, RoomHeld
<1>2. CountLags'
  BY DEF RingTypeOK, CountLags, PushCount, PopSub, Uncounted, Released
<1>3. RoomHeld' /\ ConsumerNotFooled'
  BY DEF RingTypeOK, RoomHeld, ConsumerNotFooled, PushCount, PopSub
<1>4. Indices'
  BY <1>0 DEF Indices
<1>5. Window'
  <2>1. Released' >= Released /\ Released \in {0, 1} /\ Released' \in {0, 1}
    BY DEF Released, PushCount, PopSub
  <2>2. popped \in Nat /\ Len(log) \in Nat
    BY DEF RingTypeOK
  <2>3. (popped + Released')..(Len(log) - 1) \subseteq (popped + Released)..(Len(log) - 1)
    BY <2>1, <2>2
  <2> QED  BY <1>0, <2>3 DEF Window
<1>6. TakenInOrder'
  BY <1>0 DEF TakenInOrder, PushCount, PopSub
<1> QED  BY <1>1, <1>2, <1>3, <1>4, <1>5, <1>6

(* front() reads the oldest item. *)
LEMMA FrontStep == RingInv /\ TakeFront => RingInv'
<1> SUFFICES ASSUME RingInv, TakeFront PROVE RingInv'
  OBVIOUS
<1> USE DEF RingInv, TakeFront
<1>1. RingTypeOK'
  BY DEF RingTypeOK
<1>2. Released = 0 /\ Released' = 0 /\ Uncounted' = Uncounted /\ Uncounted \in {0, 1}
  BY DEF Released, Uncounted
<1>3. CountLags' /\ RoomHeld' /\ ConsumerNotFooled' /\ Indices' /\ Window'
  BY <1>2 DEF CountLags, RoomHeld, ConsumerNotFooled, Indices, Window
<1>4. popped \in Nat /\ Len(log) \in Nat /\ count \in Nat /\ popped < Len(log)
  BY <1>2 DEF RingTypeOK, CountLags, ConsumerNotFooled
<1>5. data[popped % SIZE] = log[popped + 1]
  BY <1>2, <1>4 DEF Window
<1>6. TakenInOrder'
  BY <1>4, <1>5 DEF TakenInOrder, Indices
<1> QED  BY <1>1, <1>3, <1>6

(* Moving _first keeps the invariant. *)
LEMMA AdvanceStep == RingInv /\ PopAdvance => RingInv'
<1> SUFFICES ASSUME RingInv, PopAdvance PROVE RingInv'
  OBVIOUS
<1> USE DEF RingInv, PopAdvance
<1>1. popped \in Nat /\ Len(log) \in Nat
  BY DEF RingTypeOK
<1>2. first = popped % SIZE /\ first' = (popped + 1) % SIZE /\ first' \in Slots
  <2>1. first = popped % SIZE
    BY DEF Indices
  <2>2. Advanced(popped % SIZE) = (popped + 1) % SIZE /\ (popped + 1) % SIZE \in Slots
    <3>1. popped + 1 \in Nat
      BY <1>1
    <3> QED  BY <1>1, <3>1, AdvancedMod, Zenon
  <2> QED  BY <2>1, <2>2
<1>3. RingTypeOK'
  BY <1>2 DEF RingTypeOK
<1>4. Released = 1 /\ Released' = 0 /\ Uncounted' = Uncounted /\ Uncounted \in {0, 1}
  BY DEF Released, Uncounted
<1>5. CountLags'
  BY <1>1, <1>4 DEF CountLags, RingTypeOK
<1>6. RoomHeld' /\ ConsumerNotFooled' /\ TakenInOrder'
  BY DEF RoomHeld, ConsumerNotFooled, TakenInOrder
<1>7. Indices'
  BY <1>2 DEF Indices
<1>8. popped' + Released' = popped + Released
  BY <1>1, <1>4
<1>9. Window'
  BY <1>8 DEF Window
<1> QED  BY <1>3, <1>5, <1>6, <1>7, <1>9

(* clear() starts anew. *)
LEMMA ClearStep == RingInv /\ Clear => RingInv'
<1> SUFFICES ASSUME RingInv, Clear PROVE RingInv'
  OBVIOUS
<1> USE DEF RingInv, Clear
<1>1. (SIZE * 0 + 0) % SIZE = 0
  BY RemainderOf
<1>2. RingTypeOK'
  BY DEF RingTypeOK, Slots
<1>3. CountLags' /\ RoomHeld' /\ ConsumerNotFooled' /\ TakenInOrder'
  BY DEF CountLags, RoomHeld, ConsumerNotFooled, TakenInOrder, Uncounted, Released
<1>4. Indices'
  BY <1>1 DEF Indices
<1>5. Window'
  BY DEF Window, Released
<1> QED  BY <1>2, <1>3, <1>4, <1>5

(* The invariant is inductive. *)
LEMMA NextRingInv == RingInv /\ [RingNext]_ringVars => RingInv'
<1> SUFFICES ASSUME RingInv, [RingNext]_ringVars PROVE RingInv'
  OBVIOUS
<1>1. ASSUME NEW item \in Items, PushStore(item) PROVE RingInv'
  BY <1>1, StoreStep
<1>2. CASE UNCHANGED ringVars
  BY <1>2 DEF ringVars, RingInv, RingTypeOK, CountLags, Indices, RoomHeld, Window,
              ConsumerNotFooled, TakenInOrder, Uncounted, Released
<1> QED  BY <1>1, <1>2, TestStep, CountStep, FrontStep, AdvanceStep, ClearStep DEF RingNext

-----------------------------------------------------------------------------

(* For every SIZE: the n-th item taken through front() and pop_front() is  *)
(* the n-th item push_back stored, however the two contexts interleave.    *)
THEOREM RingTakenInOrder == RingSpec => []TakenInOrder
<1> QED  BY InitRingInv, NextRingInv, PTL DEF RingSpec, RingInv

(* For every SIZE: the consumer that passed empty() is never refused by    *)
(* pop_front.                                                              *)
THEOREM RingConsumerNotFooled == RingSpec => []ConsumerNotFooled
<1> QED  BY InitRingInv, NextRingInv, PTL DEF RingSpec, RingInv

(* For every SIZE and every width of size_type: between calls operator[]   *)
(* and size() show exactly the items stored and not yet removed, in order, *)
(* at every index whose sum with _first fits size_type.                    *)
THEOREM RingIndexedInOrder == RingSpec => []IndexedInOrder
<1>1. RingInv => IndexedInOrder
  <2> SUFFICES ASSUME RingInv, Quiet
               PROVE  /\ count = Len(log) - popped
                      /\ \A i \in 0..(count - 1) :
                           first + i < IndexMod => At(i) = log[popped + 1 + i]
    BY DEF IndexedInOrder
  <2>1. /\ popped \in Nat /\ Len(log) \in Nat /\ count \in 0..SIZE
        /\ first = popped % SIZE
    BY DEF RingInv, RingTypeOK, Indices
  <2>2. Released = 0 /\ Uncounted = 0
    BY DEF Quiet, Released, Uncounted
  <2>3. count = Len(log) - popped
    BY <2>1, <2>2 DEF RingInv, CountLags
  <2>4. ASSUME NEW i \in 0..(count - 1), first + i < IndexMod
        PROVE  At(i) = log[popped + 1 + i]
    <3>1. i \in Slots /\ popped + i \in (popped + Released)..(Len(log) - 1)
      BY <2>1, <2>2, <2>3 DEF Slots
    <3>2. data[(popped + i) % SIZE] = log[(popped + i) + 1]
      BY <3>1 DEF RingInv, Window
    <3>3. At(i) = data[(popped + i) % SIZE]
      <4>1. (IF (popped % SIZE) + i >= SIZE THEN (popped % SIZE) + i - SIZE
                                            ELSE (popped % SIZE) + i)
              = (popped + i) % SIZE
        BY <2>1, <3>1, OffsetMod, Zenon
      <4>2. At(i) = data[IF (popped % SIZE) + i >= SIZE THEN (popped % SIZE) + i - SIZE
                                                        ELSE (popped % SIZE) + i]
        <5> DEFINE sum == first + i
        <5>1. sum \in 0..(IndexMod - 1) /\ IndexMod \in Nat \ {0} /\ IndexMod * 0 + sum = sum
          <6>1. first \in Nat /\ i \in Nat
            BY DEF RingInv, RingTypeOK, Slots
          <6> QED  BY <2>4, <6>1, SizeTypeAssumption
        <5> HIDE DEF sum
        <5>2. (IndexMod * 0 + sum) % IndexMod = sum
          <6>1. 0 \in Int
            OBVIOUS
          <6> QED  BY <5>1, <6>1, RemainderOf, Zenon
        <5>3. sum % IndexMod = sum
          BY <5>1, <5>2, Zenon
        <5>4. At(i) = data[IF sum >= SIZE THEN sum - SIZE ELSE sum]
          BY <5>3 DEF At, sum
        <5> QED  BY <2>1, <5>4 DEF sum
      <4> QED  BY <4>1, <4>2, Zenon
    <3>4. (popped + i) + 1 = popped + 1 + i
      BY <2>1
    <3> QED  BY <3>2, <3>3, <3>4
  <2> QED  BY <2>3, <2>4
<1> QED  BY <1>1, InitRingInv, NextRingInv, PTL DEF RingSpec

(* Where size_type can hold the sum of any two indices, as it does for up  *)
(* to 128 elements with 8 bits, operator[] is right for every element.     *)
THEOREM RingIndexesAll ==
  ASSUME 2 * SIZE - 1 <= IndexMod
  PROVE  RingSpec => [](Quiet => \A i \in 0..(count - 1) : At(i) = log[popped + 1 + i])
<1>1. RingInv /\ IndexedInOrder
        => (Quiet => \A i \in 0..(count - 1) : At(i) = log[popped + 1 + i])
  <2> SUFFICES ASSUME RingInv, IndexedInOrder, Quiet, NEW i \in 0..(count - 1)
               PROVE  At(i) = log[popped + 1 + i]
    OBVIOUS
  <2>1. first \in 0..(SIZE - 1) /\ count \in 0..SIZE
    BY DEF RingInv, RingTypeOK, Slots
  <2>2. first + i < IndexMod
    BY <2>1, SizeTypeAssumption
  <2> QED  BY <2>2 DEF IndexedInOrder
<1> QED  BY <1>1, InitRingInv, NextRingInv, RingIndexedInOrder, PTL DEF RingSpec

-----------------------------------------------------------------------------
(* The buffered output *)

\* The call of Write has begun and its byte is in no place yet.
Pending == wpc \in {"test", "direct", "tick"} \/ (wpc = "push" /\ ppc # "count")
Limit == IF Pending THEN cur - 1 ELSE cur     \* the bytes 1..Limit are placed
Gone == OnLine \union InRegister \union dropped \union overwritten
Stored == {log[k] : k \in DOMAIN log}

OutputTypeOK ==
  /\ cpc = "idle"                             \* the handler is one step
  /\ wpc \in {"idle", "test", "direct", "push", "tick"}
  /\ cur \in 0..MaxItems
  /\ prompt \in BOOLEAN /\ txInt \in BOOLEAN /\ ready \in BOOLEAN
  /\ register \in 0..MaxItems
  /\ line \in Seq(Bytes)
  /\ dropped \subseteq Bytes /\ overwritten \subseteq Bytes

\* Write is in push_back, and has a byte, only where its loop is.
CallOK ==
  /\ ppc # "idle" => wpc = "push"
  /\ wpc # "idle" => cur \in Bytes
  /\ ~ready => register \in Bytes

LogRising == \A i, j \in DOMAIN log : i < j => log[i] < log[j]

Placed ==
  /\ Gone \subseteq 1..Limit /\ Stored \subseteq 1..Limit
  /\ 1..Limit \subseteq Gone \union Buffered
  /\ Buffered \intersect Gone = {}
  /\ InRegister \intersect OnLine = {}

LineDistinct == \A i, j \in DOMAIN line : line[i] = line[j] => i = j
LineRising == \A i, j \in DOMAIN line : i < j => line[i] < line[j]

Ordered ==
  prompt =>
    /\ overwritten = {}
    /\ \A b \in OnLine, c \in InRegister : b < c
    /\ \A b \in OnLine, c \in Buffered : b < c
    /\ \A b \in InRegister, c \in Buffered : b < c
    /\ wpc \in {"test", "direct"} /\ ~txInt => Buffered = {}
    /\ wpc = "direct" => ready /\ ~txInt

OutputInv ==
  /\ RingInv /\ OutputTypeOK /\ CallOK /\ LogRising
  /\ Placed /\ LineDistinct /\ (prompt => LineRising) /\ Ordered

USE BytesAssumption

(* Write uses the ring as its producer. *)
LEMMA WritePushRing ==
  ASSUME OutputInv, WritePush  PROVE RingInv'
<1>1. RingInv /\ wpc = "push" /\ cur \in Items
  BY DEF OutputInv, CallOK, WritePush
<1> QED  BY <1>1, TestStep, StoreStep, CountStep DEF WritePush

(* A step that leaves the ring alone keeps its invariant. *)
LEMMA RingUntouched ==
  ASSUME RingInv, UNCHANGED ringVars  PROVE RingInv'
BY DEF ringVars, RingInv, RingTypeOK, CountLags, Indices, RoomHeld, Window,
       ConsumerNotFooled, TakenInOrder, Uncounted, Released

(* The handler takes the oldest item of the ring, as the consumer's three  *)
(* steps would.                                                            *)
LEMMA HandlerRing ==
  ASSUME RingInv, cpc = "idle", count # 0, HandlerSends
  PROVE  /\ RingInv'
         /\ popped \in Nat /\ popped < Len(log) /\ popped' = popped + 1 /\ log' = log
         /\ data[first] = log[popped + 1]
<1> USE DEF RingInv
<1>0. /\ got' = data[first] /\ count' = count - 1 /\ first' = Advanced(first)
      /\ popped' = popped + 1
      /\ UNCHANGED <<data, last, ppc, cpc, log>>
  BY DEF HandlerSends
<1>1. popped \in Nat /\ Len(log) \in Nat /\ count \in 0..SIZE
  BY DEF RingTypeOK
<1>2. Released = 0 /\ Released' = 0 /\ Uncounted' = Uncounted /\ Uncounted \in {0, 1}
  BY <1>0 DEF Released, Uncounted
<1>3. popped < Len(log) /\ data[first] = log[popped + 1]
  BY <1>1, <1>2 DEF CountLags, Window, Indices
<1>4. first' = (popped + 1) % SIZE /\ first' \in Slots
  <2>1. first = popped % SIZE
    BY DEF Indices
  <2>2. Advanced(popped % SIZE) = (popped + 1) % SIZE
    BY <1>1, AdvancedMod
  <2>3. (popped + 1) % SIZE \in Slots
    <3>1. popped + 1 \in Nat
      BY <1>1
    <3> QED  BY <3>1, AdvancedMod, Zenon
  <2> QED  BY <1>0, <2>1, <2>2, <2>3
<1>5. RingTypeOK'
  BY <1>0, <1>1, <1>4 DEF RingTypeOK
<1>6. CountLags' /\ RoomHeld' /\ ConsumerNotFooled' /\ TakenInOrder'
  BY <1>0, <1>1, <1>2 DEF CountLags, RoomHeld, ConsumerNotFooled, TakenInOrder
<1>7. Indices'
  BY <1>0, <1>4 DEF Indices
<1>8. Window'
  BY <1>0, <1>1, <1>2 DEF Window
<1> QED  BY <1>0, <1>1, <1>3, <1>5, <1>6, <1>7, <1>8

(* Where the ring is between its calls: the log runs from the first item   *)
(* not removed.                                                            *)
LEMMA RingBounds ==
  ASSUME RingInv, cpc = "idle"
  PROVE  /\ popped \in Nat /\ Len(log) \in Nat /\ popped <= Len(log)
         /\ DOMAIN log = 1..Len(log) /\ log \in Seq(Bytes)
         /\ (count = 0 /\ ppc # "count" => popped = Len(log))
<1>1. /\ log \in Seq(Bytes) /\ popped \in Nat /\ count \in Nat
      /\ count + Uncounted + Released = Len(log) - popped
  BY DEF RingInv, RingTypeOK, CountLags
<1>2. Released = 0 /\ Uncounted \in {0, 1} /\ (ppc # "count" => Uncounted = 0)
  BY DEF Released, Uncounted
<1> QED  BY <1>1, <1>2

-----------------------------------------------------------------------------

(* A constructed output satisfies the invariant. *)
LEMMA InitOutputInv == OutputInit => OutputInv
<1> SUFFICES ASSUME OutputInit PROVE OutputInv
  OBVIOUS
<1> USE DEF OutputInit
<1>1. RingInit /\ RingInv
  BY InitRingInv
<1>2. log = <<>> /\ popped = 0 /\ ppc = "idle" /\ cpc = "idle" /\ <<>> \in Seq(Bytes)
  BY <1>1 DEF RingInit
<1>3. OutputTypeOK
  <2>1. /\ cpc = "idle" /\ wpc = "idle" /\ cur = 0 /\ register = 0 /\ line \in Seq(Bytes)
        /\ prompt \in BOOLEAN /\ txInt \in BOOLEAN /\ ready \in BOOLEAN
        /\ dropped = {} /\ overwritten = {}
    BY <1>2 DEF None
  <2>2. 0 \in 0..MaxItems
    OBVIOUS
  <2> HIDE DEF OutputInit
  <2> QED  BY <2>1, <2>2 DEF OutputTypeOK
<1>4. CallOK /\ LogRising /\ LineDistinct /\ LineRising
  BY <1>2 DEF CallOK, LogRising, LineDistinct, LineRising
<1>5. OnLine = {} /\ InRegister = {} /\ Buffered = {} /\ Gone = {} /\ Stored = {}
  BY <1>2 DEF OnLine, InRegister, Buffered, Gone, Stored
<1>6. Limit = 0
  BY <1>2 DEF Limit, Pending
<1>7. Placed
  BY <1>5, <1>6 DEF Placed
<1>8. Ordered
  BY <1>5 DEF Ordered
<1> QED  BY <1>1, <1>3, <1>4, <1>7, <1>8 DEF OutputInv

(* Steps that move no byte. *)
LEMMA QuietStep ==
  ASSUME OutputInv,
         WriteBegin \/ WriteTest \/ PushFails \/ TickAgain
           \/ (WritePush /\ (PushTest \/ PushCount))
  PROVE  OutputInv'
<1> USE DEF OutputInv
<1>0. UNCHANGED <<prompt, ready, register, line, dropped, overwritten, log, popped, cpc>>
  BY DEF WriteBegin, WriteTest, PushFails, TickAgain, WritePush, ringVars, PushTest, PushCount
<1> DEFINE Began == /\ wpc = "idle" /\ wpc' = "test" /\ cur < MaxItems /\ cur' = cur + 1
                    /\ txInt' = TRUE /\ ppc' = ppc
           Tested == /\ wpc = "test" /\ wpc' \in {"direct", "push"} /\ UNCHANGED <<cur, txInt, ppc>>
           Waits  == /\ UNCHANGED <<cur, txInt, ppc>> /\ ppc = "idle"
                     /\ \/ wpc = "push" /\ wpc' = "tick"
                        \/ wpc = "tick" /\ wpc' = "push"
           Pushed == /\ wpc = "push" /\ UNCHANGED <<cur, txInt>>
                     /\ \/ ppc = "idle" /\ ppc' = "store" /\ wpc' = "push"
                        \/ ppc = "count" /\ ppc' = "idle" /\ wpc' = "idle"
<1>a. Began \/ Tested \/ Waits \/ Pushed
  <2>1. CASE WriteBegin
    BY <2>1 DEF WriteBegin, ringVars
  <2>2. CASE WriteTest
    BY <2>2 DEF WriteTest, ringVars
  <2>3. CASE WritePush /\ (PushTest \/ PushCount)
    BY <2>3 DEF WritePush, PushTest, PushCount, PushStore
  <2>4. CASE PushFails \/ TickAgain
    BY <2>4 DEF PushFails, TickAgain, ringVars, CallOK
  <2> QED  BY <2>1, <2>2, <2>3, <2>4
<1>b. /\ cur \in 0..MaxItems /\ cur' \in 0..MaxItems /\ txInt' \in BOOLEAN
      /\ wpc' \in {"idle", "test", "direct", "push", "tick"}
  <2>1. cur \in 0..MaxItems /\ txInt \in BOOLEAN
    BY DEF OutputTypeOK
  <2>2. txInt' = TRUE \/ txInt' = txInt
    BY <1>a, Zenon
  <2>3. txInt' \in BOOLEAN
    BY <2>1, <2>2, Zenon
  <2>4. cur' \in 0..MaxItems /\ wpc' \in {"idle", "test", "direct", "push", "tick"}
    BY <1>a, <2>1
  <2> QED  BY <2>1, <2>3, <2>4
<1>1. RingInv'
  BY RingUntouched, WritePushRing DEF WriteBegin, WriteTest, PushFails, TickAgain
<1>2. OutputTypeOK'
  BY <1>0, <1>b DEF OutputTypeOK
<1>3. CallOK'
  BY <1>0, <1>a, <1>b DEF CallOK, Bytes
<1>4. /\ OnLine' = OnLine /\ InRegister' = InRegister /\ Buffered' = Buffered
      /\ Gone' = Gone /\ Stored' = Stored
  BY <1>0 DEF OnLine, InRegister, Buffered, Gone, Stored
<1>5. Limit' = Limit
  <2>1. CASE Began
    <3>1. ~Pending /\ Pending' /\ cur' - 1 = cur
      BY <1>b, <2>1 DEF Pending
    <3> QED  BY <3>1 DEF Limit
  <2>2. CASE Tested
    <3>1. Pending /\ Pending' /\ cur' = cur
      BY <2>2 DEF Pending, CallOK
    <3> QED  BY <3>1 DEF Limit
  <2>3. CASE Pushed
    <3>1. (Pending <=> Pending') /\ cur' = cur
      BY <2>3 DEF Pending
    <3> QED  BY <3>1 DEF Limit
  <2>4. CASE Waits
    <3>1. Pending /\ Pending' /\ cur' = cur
      BY <2>4 DEF Pending
    <3> QED  BY <3>1 DEF Limit
  <2> QED  BY <1>a, <2>1, <2>2, <2>3, <2>4
<1>6. Placed' /\ LogRising' /\ LineDistinct' /\ (prompt' => LineRising')
  BY <1>0, <1>4, <1>5 DEF Placed, LogRising, LineDistinct, LineRising
<1>7. Ordered'
  <2>1. CASE WriteBegin
    BY <1>0, <1>4, <2>1 DEF Ordered, WriteBegin
  <2>2. CASE WriteTest
    BY <1>0, <1>4, <2>2 DEF Ordered, WriteTest, MayRun, Requested, GoDirect
  <2>3. CASE WritePush /\ (PushTest \/ PushCount)
    BY <1>0, <1>4, <2>3 DEF Ordered, WritePush
  <2>4. CASE PushFails \/ TickAgain
    BY <1>0, <1>4, <2>4 DEF Ordered, PushFails, TickAgain
  <2> QED  BY <2>1, <2>2, <2>3, <2>4
<1> QED  BY <1>1, <1>2, <1>3, <1>6, <1>7

(* A byte written directly goes to the register; one whose time is out is  *)
(* given up.  Both come after every byte placed before.                    *)
LEMMA LeaveStep ==
  ASSUME OutputInv, WriteDirect \/ WriteTimesOut  PROVE OutputInv'
<1> USE DEF OutputInv
<1>0. /\ UNCHANGED <<ringVars, prompt, cur, txInt, line>>
      /\ UNCHANGED <<log, popped, ppc, cpc>> /\ ppc = "idle"
      /\ wpc \in {"direct", "tick"} /\ wpc' = "idle" /\ cur \in Bytes /\ cur \in 1..MaxItems
  BY DEF WriteDirect, WriteTimesOut, ringVars, CallOK, Bytes
<1>1. RingInv'
  BY <1>0, RingUntouched
<1>2. OutputTypeOK' /\ CallOK'
  BY <1>0 DEF OutputTypeOK, CallOK, WriteDirect, WriteTimesOut, WriteRegister, Bytes
<1>3. /\ OnLine' = OnLine /\ Buffered' = Buffered /\ Stored' = Stored
      /\ LogRising' /\ LineDistinct' /\ (prompt' => LineRising')
  BY <1>0 DEF OnLine, Buffered, Stored, LogRising, LineDistinct, LineRising
<1>4. Limit = cur - 1 /\ Limit' = cur
  BY <1>0 DEF Limit, Pending
<1>5. /\ Gone' = Gone \union {cur}
      /\ InRegister' = InRegister \/ InRegister' = {cur}
  BY <1>0, <1>3 DEF Gone, InRegister, WriteDirect, WriteTimesOut, WriteRegister
<1>6. cur \notin Gone /\ cur \notin Buffered /\ cur \notin OnLine
  <2>1. Buffered \subseteq Stored
    BY RingBounds DEF OutputTypeOK, Buffered, Stored
  <2>2. cur \notin Gone /\ cur \notin Stored
    BY <1>0, <1>4 DEF Placed
  <2> QED  BY <2>1, <2>2 DEF Gone
<1>7. Placed'
  <2>1. 1..cur = (1..(cur - 1)) \union {cur}
    BY <1>0
  <2> QED  BY <1>3, <1>4, <1>5, <1>6, <2>1 DEF Placed
<1>8. Ordered'
  <2>1. CASE WriteTimesOut
    BY <1>0, <1>3, <2>1 DEF Ordered, WriteTimesOut, InRegister
  <2>2. CASE WriteDirect /\ prompt
    <3>1. ready /\ ~txInt /\ Buffered = {} /\ overwritten' = {} /\ InRegister' = {cur}
      BY <2>2 DEF Ordered, WriteDirect, WriteRegister, InRegister
    <3>2. \A b \in OnLine : b < cur
      <4>1. OnLine \subseteq 1..(cur - 1)
        BY <1>4 DEF Placed, Gone
      <4> QED  BY <1>0, <4>1
    <3> QED  BY <1>0, <1>3, <3>1, <3>2 DEF Ordered
  <2> QED  BY <1>0, <2>1, <2>2 DEF Ordered
<1> QED  BY <1>1, <1>2, <1>3, <1>7, <1>8

(* push_back puts the byte behind the others. *)
LEMMA StoredStep ==
  ASSUME OutputInv, WritePush, PushStore(cur)  PROVE OutputInv'
<1> USE DEF OutputInv
<1>0. /\ UNCHANGED <<prompt, wpc, cur, txInt, ready, register, line, dropped, overwritten>>
      /\ wpc = "push" /\ ppc = "store" /\ ppc' = "count" /\ cpc' = cpc /\ popped' = popped
      /\ log' = Append(log, cur) /\ cur \in Bytes /\ cur \in 1..MaxItems
  BY DEF WritePush, PushStore, PushCount, CallOK, Bytes
<1>1. RingInv'
  BY WritePushRing
<1>2. OutputTypeOK' /\ CallOK'
  BY <1>0 DEF OutputTypeOK, CallOK
<1>3. OnLine' = OnLine /\ InRegister' = InRegister /\ Gone' = Gone
  BY <1>0 DEF OnLine, InRegister, Gone
<1>4. LineDistinct' /\ (prompt' => LineRising')
  BY <1>0 DEF LineDistinct, LineRising
<1>5. Limit = cur - 1 /\ Limit' = cur
  BY <1>0 DEF Limit, Pending
<1>6. /\ popped \in Nat /\ Len(log) \in Nat /\ popped <= Len(log) /\ log \in Seq(Bytes)
      /\ DOMAIN log = 1..Len(log)
  BY RingBounds DEF OutputTypeOK
<1>7. /\ Len(log') = Len(log) + 1 /\ DOMAIN log' = 1..(Len(log) + 1)
      /\ log'[Len(log) + 1] = cur /\ \A k \in 1..Len(log) : log'[k] = log[k]
  BY <1>0, <1>6
<1>8. Buffered' = Buffered \union {cur} /\ Stored' = Stored \union {cur}
  BY <1>0, <1>6, <1>7 DEF Buffered, Stored
<1>9. \A k \in 1..Len(log) : log[k] \in 1..(cur - 1)
  BY <1>5, <1>6 DEF Placed, Stored
<1>10. LogRising'
  BY <1>0, <1>6, <1>7, <1>9 DEF LogRising
<1>11. cur \notin Gone
  BY <1>0, <1>5 DEF Placed
<1>12. Placed'
  <2>1. 1..cur = (1..(cur - 1)) \union {cur}
    BY <1>0
  <2> QED  BY <1>3, <1>5, <1>8, <1>11, <2>1 DEF Placed
<1>13. Ordered'
  <2>1. \A b \in Gone : b < cur
    BY <1>0, <1>5 DEF Placed
  <2>2. \A b \in OnLine \union InRegister : b < cur
    BY <2>1 DEF Gone
  <2> QED  BY <1>0, <1>3, <1>8, <2>2 DEF Ordered
<1> QED  BY <1>1, <1>2, <1>4, <1>10, <1>12, <1>13

(* The handler moves the oldest byte of the ring to the free register. *)
LEMMA SendStep ==
  ASSUME OutputInv, TxInterruptHandler, count # 0  PROVE OutputInv'
<1> USE DEF OutputInv
<1>0. /\ ready /\ txInt /\ HandlerSends
      /\ UNCHANGED <<prompt, wpc, cur, line, dropped, txInt, ppc, cpc, overwritten>>
      /\ register' = data[first] /\ ready' = FALSE
  BY DEF TxInterruptHandler, Requested, HandlerSends, WriteRegister
<1> DEFINE byte == log[popped + 1]
<1>1. /\ RingInv' /\ popped < Len(log) /\ popped' = popped + 1 /\ log' = log
      /\ register' = byte
  BY <1>0, HandlerRing DEF OutputTypeOK
<1>2. /\ popped \in Nat /\ Len(log) \in Nat /\ log \in Seq(Bytes)
      /\ DOMAIN log = 1..Len(log)
  BY RingBounds DEF OutputTypeOK
<1>3. byte \in Bytes /\ byte \in 1..MaxItems
  BY <1>1, <1>2 DEF Bytes
<1>4. \A k \in (popped + 2)..Len(log) : byte < log[k]
  BY <1>1, <1>2 DEF LogRising
<1>5. Buffered = Buffered' \union {byte}
  BY <1>1, <1>2 DEF Buffered
<1>6. \A c \in Buffered' : byte < c
  BY <1>1, <1>2, <1>4 DEF Buffered
<1> HIDE DEF byte
<1>7. byte \notin Buffered'
  BY <1>3, <1>6
<1>8. OutputTypeOK' /\ CallOK'
  <2>1. register' \in 0..MaxItems /\ register' \in Bytes
    BY <1>0, <1>1, <1>3
  <2>2. ready' \in BOOLEAN
    BY <1>0, Zenon
  <2> QED  BY <1>0, <2>1, <2>2 DEF OutputTypeOK, CallOK
<1>9. /\ OnLine' = OnLine /\ InRegister = {} /\ InRegister' = {byte}
      /\ Stored' = Stored
  BY <1>0, <1>1 DEF OnLine, InRegister, Stored
<1>10. Gone' = Gone \union {byte}
  BY <1>0, <1>9 DEF Gone
<1>11. Limit' = Limit
  BY <1>0 DEF Limit, Pending
<1>12. LogRising' /\ LineDistinct' /\ (prompt' => LineRising')
  BY <1>0, <1>1 DEF LogRising, LineDistinct, LineRising
<1>13. Placed'
  <2>1. byte \in Stored
    BY <1>1, <1>2 DEF Stored, byte
  <2>2. byte \notin OnLine
    BY <1>5 DEF Placed, Gone
  <2> QED  BY <1>5, <1>7, <1>9, <1>10, <1>11, <2>1, <2>2 DEF Placed
<1>14. Ordered'
  BY <1>0, <1>5, <1>6, <1>9 DEF Ordered
<1> QED  BY <1>1, <1>8, <1>12, <1>13, <1>14

(* With an empty ring the handler turns itself off. *)
LEMMA StopStep ==
  ASSUME OutputInv, TxInterruptHandler, count = 0  PROVE OutputInv'
<1> USE DEF OutputInv
<1>0. /\ UNCHANGED <<ringVars, ready, register, overwritten, prompt, wpc, cur, line, dropped>>
      /\ UNCHANGED <<log, popped, ppc, cpc>> /\ txInt' = FALSE /\ ready
  BY DEF TxInterruptHandler, Requested, HandlerStops, ringVars
<1>1. RingInv'
  BY <1>0, RingUntouched
<1>2. OutputTypeOK' /\ CallOK'
  BY <1>0 DEF OutputTypeOK, CallOK
<1>3. /\ OnLine' = OnLine /\ InRegister' = InRegister /\ Buffered' = Buffered
      /\ Gone' = Gone /\ Stored' = Stored /\ Limit' = Limit
  BY <1>0 DEF OnLine, InRegister, Buffered, Gone, Stored, Limit, Pending
<1>4. Placed' /\ LogRising' /\ LineDistinct' /\ (prompt' => LineRising')
  BY <1>0, <1>3 DEF Placed, LogRising, LineDistinct, LineRising
<1>5. wpc \in {"test", "direct"} => Buffered = {}
  <2> SUFFICES ASSUME wpc \in {"test", "direct"} PROVE Buffered = {}
    OBVIOUS
  <2>1. ppc = "idle"
    BY DEF CallOK
  <2>2. popped = Len(log) /\ popped \in Nat
    BY <2>1, RingBounds DEF OutputTypeOK
  <2>3. (popped + 1)..Len(log) = {}
    BY <2>2
  <2> QED  BY <2>3 DEF Buffered
<1>6. Ordered'
  BY <1>0, <1>3, <1>5 DEF Ordered
<1> QED  BY <1>1, <1>2, <1>4, <1>6

(* The byte of the register goes out behind those on the line. *)
LEMMA DoneStep ==
  ASSUME OutputInv, TxDone  PROVE OutputInv'
<1> USE DEF OutputInv
<1>0. /\ UNCHANGED <<ringVars, prompt, wpc, cur, txInt, register, dropped, overwritten>>
      /\ UNCHANGED <<log, popped, ppc, cpc>> /\ ~ready /\ ready' = TRUE
      /\ line' = Append(line, register) /\ register \in Bytes /\ line \in Seq(Bytes)
  BY DEF TxDone, ringVars, CallOK, OutputTypeOK
<1>1. RingInv'
  BY <1>0, RingUntouched
<1>2. line' \in Seq(Bytes)
  BY <1>0
<1>3. OutputTypeOK' /\ CallOK'
  BY <1>0, <1>2 DEF OutputTypeOK, CallOK
<1>4. /\ Len(line) \in Nat /\ DOMAIN line = 1..Len(line)
      /\ DOMAIN line' = 1..(Len(line) + 1)
      /\ line'[Len(line) + 1] = register /\ \A k \in 1..Len(line) : line'[k] = line[k]
  BY <1>0
<1>5. /\ InRegister = {register} /\ InRegister' = {} /\ OnLine' = OnLine \union {register}
      /\ Buffered' = Buffered /\ Stored' = Stored /\ Limit' = Limit
  <2>1. InRegister = {register} /\ InRegister' = {}
    BY <1>0 DEF InRegister
  <2>2. Buffered' = Buffered /\ Stored' = Stored /\ Limit' = Limit
    BY <1>0 DEF Buffered, Stored, Limit, Pending
  <2>3. OnLine' = OnLine \union {register}
    BY <1>4 DEF OnLine
  <2> QED  BY <2>1, <2>2, <2>3
<1>6. Gone' = Gone
  BY <1>0, <1>5 DEF Gone
<1>7. Placed'
  BY <1>5, <1>6 DEF Placed
<1>8. \A k \in 1..Len(line) : line[k] \in OnLine
  BY <1>4 DEF OnLine
<1>9. register \notin OnLine
  BY <1>5 DEF Placed
<1>10. LineDistinct'
  BY <1>4, <1>8, <1>9 DEF LineDistinct
<1>11. LogRising'
  BY <1>0 DEF LogRising
<1>12. prompt' => LineRising'
  <2> SUFFICES ASSUME prompt PROVE LineRising'
    BY <1>0
  <2>1. \A k \in 1..Len(line) : line[k] < register
    BY <1>5, <1>8 DEF Ordered
  <2> QED  BY <1>4, <2>1 DEF LineRising
<1>13. Ordered'
  BY <1>0, <1>5 DEF Ordered
<1> QED  BY <1>1, <1>3, <1>7, <1>10, <1>11, <1>12, <1>13

(* The invariant is inductive. *)
LEMMA NextOutputInv == OutputInv /\ [OutputNext]_allVars => OutputInv'
<1> SUFFICES ASSUME OutputInv, [OutputNext]_allVars PROVE OutputInv'
  OBVIOUS
<1>1. CASE UNCHANGED allVars
  <2>1. UNCHANGED ringVars /\ RingInv'
    BY <1>1, RingUntouched DEF allVars, OutputInv
  <2>2. UNCHANGED <<prompt, wpc, cur, txInt, ready, register, line, dropped, overwritten>>
        /\ UNCHANGED <<log, popped, ppc, cpc>>
    BY <1>1 DEF allVars, outVars, ringVars
  <2>3. OutputTypeOK' /\ CallOK'
    BY <2>2 DEF OutputInv, OutputTypeOK, CallOK
  <2>4. /\ OnLine' = OnLine /\ InRegister' = InRegister /\ Buffered' = Buffered
        /\ Gone' = Gone /\ Stored' = Stored /\ Limit' = Limit
    BY <2>2 DEF OnLine, InRegister, Buffered, Gone, Stored, Limit, Pending
  <2>5. LogRising' /\ LineDistinct' /\ (prompt' => LineRising')
    BY <2>2 DEF OutputInv, LogRising, LineDistinct, LineRising
  <2>6. Placed' /\ Ordered'
    BY <2>2, <2>4 DEF OutputInv, Placed, Ordered
  <2> QED  BY <2>1, <2>3, <2>5, <2>6 DEF OutputInv
<1>2. CASE WritePush
  BY <1>2, QuietStep, StoredStep DEF WritePush
<1>3. CASE TxInterruptHandler
  BY <1>3, SendStep, StopStep
<1>4. CASE TxDone
  BY <1>4, DoneStep
<1> QED  BY <1>1, <1>2, <1>3, <1>4, QuietStep, LeaveStep DEF OutputNext

-----------------------------------------------------------------------------

(* For every SIZE and every number of bytes, with prompt and with late     *)
(* interrupts: every byte whose Write has returned is in exactly one of    *)
(* the ring and the places behind it, and none is sent twice.              *)
THEOREM OutputConservesBytes == OutputSpec => []BytesConserved
<1>1. OutputInv => BytesConserved
  <2> SUFFICES ASSUME OutputInv PROVE BytesConserved
    OBVIOUS
  <2>1. Started \subseteq 1..Limit
    BY DEF OutputInv, OutputTypeOK, Started, Limit, Pending, Bytes
  <2>2. 1..Limit \subseteq OnLine \union InRegister \union Buffered \union dropped
                             \union overwritten
    BY DEF OutputInv, Placed, Gone
  <2> QED  BY <2>1, <2>2 DEF OutputInv, Placed, Gone, LineDistinct, BytesConserved
<1> QED  BY <1>1, InitOutputInv, NextOutputInv, PTL DEF OutputSpec

(* For every SIZE and every number of bytes: when the interrupt is served  *)
(* at once, bytes leave in the order of the calls of Write, whichever way  *)
(* they take, and no register that holds a byte is written.                *)
THEOREM PromptOutputInOrder == OutputSpec => []PromptInOrder
<1>1. OutputInv => PromptInOrder
  BY DEF OutputInv, LineRising, Ordered, PromptInOrder
<1> QED  BY <1>1, InitOutputInv, NextOutputInv, PTL DEF OutputSpec
===============================================================================
