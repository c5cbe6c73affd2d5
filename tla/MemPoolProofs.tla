---------------------------- MODULE MemPoolProofs ----------------------------
(***************************************************************************)
(* Proofs about module MemPool for every pool, word width and number of    *)
(* interrupt levels.  Why values suffice in the compare-and-exchange: the  *)
(* bits that are set are exactly the blocks handed out (MapIsLive), so a   *)
(* word that has changed and changed back says the same about its blocks.  *)
(***************************************************************************)
EXTENDS MemPool, ModuloFacts, TLAPS

\* What a call of Alloc has in hand; outside of Alloc nothing.
Call == [pc : {"idle", "scan", "exchange"}, i : 0 .. MapSize, elem : SUBSET Nat]
CallsOK ==
    /\ call \in [Contexts -> Call]
    /\ \A c \in Contexts : call[c].pc = "idle" => call[c].i = 0

MapIsLive == map = live /\ live \subseteq Block

\* The bit of a word about to be exchanged is a block's.
BitOfBlock ==
    \A c \in Contexts : call[c].pc = "exchange" =>
        \A b \in FreeBit(call[c].i, call[c].elem) : b < NBlocks

PoolInv == CallsOK /\ MapIsLive /\ BitOfBlock

\* Without an excuse the words already passed are still full, and so is not the pool.
Scanned ==
    \A c \in Calling : c \notin excuse =>
        /\ ~(Block \subseteq live)
        /\ \A w \in 0 .. call[c].i - 1 : Word(w) \subseteq map

USE MemPoolAssumption

LEMMA MapSizeFacts == MapSize \in Nat /\ NBlocks < MapSize * W
<1> DEFINE q == NBlocks \div W
           r == NBlocks % W
<1>1. q \in Int /\ NBlocks = W * q + r /\ r \in 0 .. W - 1
  BY DivMod
<1> HIDE DEF q, r
<1>2. W * q + W = (q + 1) * W
  BY <1>1
<1>3. q >= 0
  <2>1. SUFFICES ASSUME q <= -1 PROVE FALSE
    BY <1>1
  <2>2. W * q <= W * (-1)
    BY <1>1, <2>1
  <2> QED  BY <1>1, <2>2
<1> QED  BY <1>1, <1>2, <1>3 DEF MapSize, q

\* A block below the first bit of word i lies in an earlier word.
LEMMA EarlierWord ==
  ASSUME NEW i \in Nat, NEW k \in Nat, k < i * W
  PROVE  \E w \in 0 .. i - 1 : k \in Word(w)
<1> DEFINE q == k \div W
           r == k % W
<1>1. q \in Int /\ k = W * q + r /\ r \in 0 .. W - 1
  BY DivMod
<1> HIDE DEF q, r
<1>2. W * q = q * W
  BY <1>1
<1>3. q < i
  <2>1. SUFFICES ASSUME i <= q PROVE FALSE
    BY <1>1
  <2>2. i * W <= q * W
    BY <1>1, <2>1
  <2> QED  BY <1>1, <1>2, <2>2
<1>4. q >= 0
  <2>1. SUFFICES ASSUME q <= -1 PROVE FALSE
    BY <1>1
  <2>2. W * q <= W * (-1)
    BY <1>1, <2>1
  <2> QED  BY <1>1, <2>2
<1>5. k \in Word(q)
  BY <1>1, <1>2 DEF Word
<1> QED  BY <1>1, <1>3, <1>4, <1>5

\* FreeBit depends on the bits of its own word only, and finds at most one.
LEMMA FreeBitFacts ==
  ASSUME NEW i \in Nat, NEW m
  PROVE  /\ FreeBit(i, m) \subseteq Nat
         /\ FreeBit(i, m \cap Word(i)) = FreeBit(i, m)
         /\ \A a, b \in FreeBit(i, m) : a = b
         /\ \A b \in FreeBit(i, m) : b \in Word(i) /\ b \notin m
<1>1. i * W \in Nat
  OBVIOUS
<1>2. Word(i) \subseteq Nat
  BY <1>1 DEF Word
<1>3. Word(i) \ (m \cap Word(i)) = Word(i) \ m
  OBVIOUS
<1>4. \A a, b \in Nat : a <= b /\ b <= a => a = b
  OBVIOUS
<1> QED  BY <1>2, <1>3, <1>4 DEF FreeBit

-----------------------------------------------------------------------------
LEMMA PoolInit == Init => PoolInv
BY MapSizeFacts DEF Init, PoolInv, CallsOK, MapIsLive, BitOfBlock, Idle, Call

\* What Exchange does to the blocks: it hands out one that nobody holds.
LEMMA ExchangeTakesFree ==
  ASSUME PoolInv, NEW c \in Contexts, Exchange(c)
  PROVE  \E b \in Block : /\ b \notin live /\ live' = live \cup {b}
                        /\ map' = map \cup {b} /\ inUse' = inUse + 1
<1> DEFINE i == call[c].i
           elem == call[c].elem
<1>1. i \in Nat
  BY MapSizeFacts DEF PoolInv, CallsOK, Call
<1>2. PICK b \in FreeBit(i, elem) :
          map' = map \cup {b} /\ live' = live \cup {b} /\ inUse' = inUse + 1
  BY DEF Exchange
<1>3. b \in Word(i) /\ b \notin elem
  BY <1>2 DEF FreeBit
<1>4. b < NBlocks
  BY <1>2 DEF PoolInv, BitOfBlock, Exchange
<1>5. b \notin map
  BY <1>3 DEF Exchange
<1>6. b \in Nat
  <2>1. i * W \in Nat
    BY <1>1
  <2> QED  BY <1>3, <2>1 DEF Word
<1> QED  BY <1>2, <1>4, <1>5, <1>6 DEF Block, PoolInv, MapIsLive

LEMMA PoolNext == PoolInv /\ [Next]_vars => PoolInv'
<1> SUFFICES ASSUME PoolInv, [Next]_vars PROVE PoolInv'
  OBVIOUS
<1>1. ASSUME NEW c \in Contexts, AllocBegin(c) PROVE PoolInv'
  BY <1>1 DEF PoolInv, CallsOK, MapIsLive, BitOfBlock, AllocBegin, Call, Calling
<1>2. ASSUME NEW c \in Contexts, NextWord(c) PROVE PoolInv'
  BY <1>2, MapSizeFacts DEF PoolInv, CallsOK, MapIsLive, BitOfBlock, NextWord, Call
<1>3. ASSUME NEW c \in Contexts, Fetch(c) PROVE PoolInv'
  <2> DEFINE i == call[c].i
  <2>1. i \in Nat
    BY MapSizeFacts DEF PoolInv, CallsOK, Call
  <2>2. map \cap Word(i) \subseteq Nat
    <3>1. \A x \in map : x \in Nat
      BY DEF PoolInv, MapIsLive, Block
    <3> QED  BY <3>1
  <2>3. \A b \in FreeBit(i, map \cap Word(i)) : b < NBlocks
    BY <1>3, <2>1, FreeBitFacts DEF Fetch
  <2>4. CallsOK'
    BY <1>3, <2>2 DEF PoolInv, CallsOK, Fetch, Call
  <2>5. \A d \in Contexts \ {c} : call'[d] = call[d]
    BY <1>3 DEF PoolInv, CallsOK, Fetch
  <2>6. call'[c].i = i /\ call'[c].elem = map \cap Word(i)
    BY <1>3 DEF PoolInv, CallsOK, Call, Fetch
  <2> QED  BY <1>3, <2>3, <2>4, <2>5, <2>6 DEF PoolInv, MapIsLive, BitOfBlock, Fetch
<1>4. ASSUME NEW c \in Contexts, AllocFails(c) PROVE PoolInv'
  BY <1>4, MapSizeFacts
     DEF PoolInv, CallsOK, MapIsLive, BitOfBlock, AllocFails, Call, Idle
<1>5. ASSUME NEW c \in Contexts, Exchange(c) PROVE PoolInv'
  <2>1. CallsOK' /\ BitOfBlock'
    BY <1>5, MapSizeFacts DEF PoolInv, CallsOK, BitOfBlock, Exchange, Call, Idle
  <2>2. MapIsLive'
    BY <1>5, ExchangeTakesFree DEF PoolInv, MapIsLive
  <2> QED  BY <2>1, <2>2 DEF PoolInv
<1>6. ASSUME NEW c \in Contexts, ExchangeFails(c) PROVE PoolInv'
  BY <1>6 DEF PoolInv, CallsOK, MapIsLive, BitOfBlock, ExchangeFails, Call
<1>7. ASSUME NEW c \in Contexts, NEW b \in live, Free(c, b) PROVE PoolInv'
  BY <1>7 DEF PoolInv, CallsOK, MapIsLive, BitOfBlock, Free
<1>8. CASE FreeAll
  BY <1>8 DEF PoolInv, CallsOK, MapIsLive, BitOfBlock, FreeAll
<1>9. CASE UNCHANGED vars
  BY <1>9 DEF PoolInv, CallsOK, MapIsLive, BitOfBlock, vars
<1> QED  BY <1>1, <1>2, <1>3, <1>4, <1>5, <1>6, <1>7, <1>8, <1>9 DEF Next

(* The inductive invariant: Alloc and Free keep the map equal to the set   *)
(* of blocks handed out, whatever interrupts whom.                         *)
THEOREM PoolInvariant == Spec => []PoolInv
BY PoolInit, PoolNext, PTL DEF Spec

-----------------------------------------------------------------------------
\* The region that stands for a block.
LEMMA RegionOfBlock ==
  ASSUME NEW b \in Nat
  PROVE  Pool!Blocks([at |-> b, len |-> 1]) = {b}
BY DEF Pool!Blocks

Regions == {[at |-> b, len |-> 1] : b \in live}

LEMMA HeapStep ==
  PoolInv /\ [Next]_vars => [Pool!HeapNext]_<<Regions, inUse>>
<1> SUFFICES ASSUME PoolInv, [Next]_vars 
             PROVE  Pool!HeapNext \/ (Regions' = Regions /\ inUse' = inUse)
  BY DEF Regions
<1>1. ASSUME NEW c \in Contexts, Exchange(c) PROVE Pool!HeapNext
  <2>1. PICK b \in Block :
            b \notin live /\ live' = live \cup {b} /\ inUse' = inUse + 1
    BY <1>1, ExchangeTakesFree
  <2> DEFINE e == [at |-> b, len |-> 1]
  <2>2. e \in Pool!Region /\ b \in Nat
    BY DEF Pool!Region, Block
  <2>3. e \in Regions' /\ e \notin Regions
    BY <2>1 DEF Regions
  <2>4. Regions' = Regions \cup {e}
    BY <2>1 DEF Regions
  <2>5. \A f \in Regions : Pool!Blocks(e) \cap Pool!Blocks(f) = {}
    <3> SUFFICES ASSUME NEW a \in live
                 PROVE  Pool!Blocks(e) \cap Pool!Blocks([at |-> a, len |-> 1]) = {}
      BY DEF Regions
    <3>1. a \in Nat /\ a # b
      BY <2>1 DEF PoolInv, MapIsLive, Block
    <3> QED  BY <2>2, <3>1, RegionOfBlock
  <2>6. Pool!New(e)
    BY <2>1, <2>4, <2>5 DEF Pool!New, Regions
  <2> QED  BY <2>2, <2>3, <2>6 DEF Pool!HeapNext, Regions
<1>2. ASSUME NEW c \in Contexts, NEW b \in live, Free(c, b) PROVE Pool!HeapNext
  <2> DEFINE e == [at |-> b, len |-> 1]
  <2>1. e \in Regions /\ Regions' = Regions \ {e} /\ inUse' = inUse - 1
    BY <1>2 DEF Free, Regions
  <2>2. Pool!Delete(e)
    BY <2>1 DEF Pool!Delete, Regions
  <2> QED  BY <2>1, <2>2 DEF Pool!HeapNext, Regions
<1>3. CASE FreeAll
  BY <1>3 DEF FreeAll, Pool!HeapNext, Pool!DeleteAll
<1>4. CASE live' = live /\ inUse' = inUse
  BY <1>4 DEF Regions
<1> QED  BY <1>1, <1>2, <1>3, <1>4
            DEF Next, vars, AllocBegin, NextWord, Fetch, AllocFails, ExchangeFails

(* MemPool is an allocator of single blocks for every number of contexts:  *)
(* ABA in the compare-and-exchange of Alloc hands no block out twice.      *)
THEOREM PoolImplementsHeap == Spec => ImplementsHeap
<1>1. Init => Pool!HeapInit
  BY DEF Init, Pool!HeapInit
<1>2. PoolInv /\ [Next]_vars => [Pool!HeapNext]_<<Regions, inUse>>
  BY HeapStep
<1> QED  BY <1>1, <1>2, PoolInvariant, PTL DEF Spec, ImplementsHeap, Pool!HeapSpec, Regions
-----------------------------------------------------------------------------
LEMMA ScannedNext == PoolInv /\ Scanned /\ [Next]_vars => Scanned'
<1> SUFFICES ASSUME PoolInv, Scanned, [Next]_vars,
                    NEW d \in Contexts, call'[d].pc # "idle", d \notin excuse'
             PROVE  /\ ~(Block \subseteq live')
                    /\ \A w \in 0 .. call'[d].i - 1 : Word(w) \subseteq map'
  BY DEF Scanned, Calling
<1> USE DEF PoolInv, CallsOK
<1>1. ASSUME NEW c \in Contexts, AllocBegin(c)
      PROVE  /\ ~(Block \subseteq live')
             /\ \A w \in 0 .. call'[d].i - 1 : Word(w) \subseteq map'
  <2>1. CASE d = c
    <3>1. call'[d].i = 0
      BY <1>1, <2>1, MapSizeFacts DEF AllocBegin, Calling, Call
    <3>2. ~(Block \subseteq live)
      BY <1>1, <2>1 DEF AllocBegin
    <3> QED  BY <1>1, <3>1, <3>2 DEF AllocBegin
  <2>2. CASE d # c
    <3>1. call'[d] = call[d] /\ d \notin excuse
      BY <1>1, <2>2 DEF AllocBegin
    <3> QED  BY <1>1, <3>1 DEF AllocBegin, Scanned, Calling
  <2> QED  BY <2>1, <2>2
<1>2. ASSUME NEW c \in Contexts, NextWord(c)
      PROVE  /\ ~(Block \subseteq live')
             /\ \A w \in 0 .. call'[d].i - 1 : Word(w) \subseteq map'
  <2>1. d \in Calling /\ d \notin excuse
    BY <1>2 DEF NextWord, Calling, Call
  <2>2. CASE d = c
    <3>1. call'[d].i = call[d].i + 1 /\ call[d].i \in Nat
      BY <1>2, <2>2, MapSizeFacts DEF NextWord, Call
    <3>2. \A w \in 0 .. call'[d].i - 1 : w \in 0 .. call[d].i - 1 \/ w = call[d].i
      BY <3>1
    <3> QED  BY <1>2, <2>1, <2>2, <3>2 DEF NextWord, Scanned
  <2>3. CASE d # c
    <3>1. call'[d] = call[d]
      BY <1>2, <2>3 DEF NextWord
    <3> QED  BY <1>2, <2>1, <3>1 DEF NextWord, Scanned
  <2> QED  BY <2>2, <2>3
<1>3. ASSUME NEW c \in Contexts, Fetch(c) \/ ExchangeFails(c) \/ AllocFails(c)
      PROVE  /\ ~(Block \subseteq live')
             /\ \A w \in 0 .. call'[d].i - 1 : Word(w) \subseteq map'
  <2>1. live' = live /\ map' = map /\ excuse' = excuse
    BY <1>3 DEF Fetch, ExchangeFails, AllocFails
  <2>2. call'[d].i = call[d].i /\ d \in Calling
    <3>1. CASE Fetch(c)
      BY <3>1 DEF Fetch, Calling, Call
    <3>2. CASE ExchangeFails(c)
      BY <3>2 DEF ExchangeFails, Calling, Call
    <3>3. CASE AllocFails(c)
      BY <3>3 DEF AllocFails, Calling, Call, Idle
    <3> QED  BY <1>3, <3>1, <3>2, <3>3
  <2> QED  BY <2>1, <2>2 DEF Scanned
<1>4. ASSUME NEW c \in Contexts, Exchange(c)
      PROVE  /\ ~(Block \subseteq live')
             /\ \A w \in 0 .. call'[d].i - 1 : Word(w) \subseteq map'
  <2>1. ~(Block \subseteq live') /\ d \notin excuse
    BY <1>4 DEF Exchange
  <2>2. call'[d] = call[d] /\ d \in Calling
    BY <1>4 DEF Exchange, Calling, Idle
  <2>3. map \subseteq map'
    BY <1>4 DEF Exchange
  <2> QED  BY <2>1, <2>2, <2>3 DEF Scanned
<1>5. ASSUME NEW c \in Contexts, NEW b \in live, Free(c, b) PROVE FALSE
  BY <1>5 DEF Free
<1>6. CASE FreeAll
  BY <1>6 DEF FreeAll, Calling
<1>7. CASE UNCHANGED vars
  BY <1>7 DEF vars, Scanned, Calling
<1> QED  BY <1>1, <1>2, <1>3, <1>4, <1>5, <1>6, <1>7 DEF Next

\* Where Alloc gives up it has seen every word up to the last block's.
LEMMA FailStep ==
  PoolInv /\ Scanned => \A c \in Contexts : AllocFails(c) => c \in excuse
<1> SUFFICES ASSUME PoolInv, Scanned, NEW c \in Contexts, AllocFails(c), c \notin excuse
             PROVE  FALSE
  OBVIOUS
<1> DEFINE i == call[c].i
<1>1. i \in 0 .. MapSize /\ i \in Nat
  BY MapSizeFacts DEF PoolInv, CallsOK, Call
<1>2. /\ ~(Block \subseteq live)
      /\ \A w \in 0 .. i - 1 : Word(w) \subseteq map
  BY DEF Scanned, Calling, AllocFails
<1>3. PICK k \in Block : k \notin map
  BY <1>2 DEF PoolInv, MapIsLive
<1>4. k \in Nat /\ k < NBlocks
  BY DEF Block
<1>5. ~(k < i * W)
  BY <1>1, <1>2, <1>3, <1>4, EarlierWord
<1>6. CASE i < MapSize
  <2>1. PICK b \in FreeBit(i, map) : b >= NBlocks
    BY <1>6 DEF AllocFails
  <2>2. b \in Word(i) /\ \A a \in Word(i) \ map : b <= a
    BY DEF FreeBit
  <2>3. i * W \in Nat
    BY <1>1
  <2>4. k \in Word(i)
    BY <1>4, <1>5, <2>1, <2>2, <2>3 DEF Word
  <2>5. b <= k
    BY <1>3, <2>2, <2>4
  <2> QED  BY <1>4, <2>1, <2>2, <2>3, <2>5 DEF Word
<1>7. CASE i = MapSize
  BY <1>4, <1>5, <1>7, MapSizeFacts
<1> QED  BY <1>1, <1>6, <1>7, MapSizeFacts

(* Alloc returns 0 only if the pool was full at some moment of the call or *)
(* a Free ran during it, for every pool and number of interrupt levels.    *)
THEOREM NullOnlyWhenFull == Spec => NullMeansFull
<1>1. Init => Scanned
  BY DEF Init, Scanned, Calling, Idle
<1>2. PoolInv /\ Scanned /\ [Next]_vars => Scanned'
  BY ScannedNext
<1>3. PoolInv /\ Scanned /\ [Next]_vars
        => [\A c \in Contexts : AllocFails(c) => c \in excuse]_vars
  BY FailStep
<1> QED  BY <1>1, <1>2, <1>3, PoolInvariant, PTL DEF Spec, NullMeansFull
=============================================================================
