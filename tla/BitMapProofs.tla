----------------------------- MODULE BitMapProofs -----------------------------
(***************************************************************************)
(* Proofs about module BitMap for every map, word width, set of lengths    *)
(* and number of contexts: regions never overlap, a block is lost in the   *)
(* two named ways only, and a freed region is found again.  The inductive  *)
(* invariant says that a region has one owner (OneOwner), so that clearing *)
(* its bits takes none from another region, and that the bits of all       *)
(* regions are set (HeldIsBusy).  FreedInv adds, for the search, that a    *)
(* region in use starts where Alloc can find it (Placed) and that the hint *)
(* of a region freed without a race is not behind it (HintFollows).        *)
(***************************************************************************)
EXTENDS BitMap, ModuloFacts, WellFoundedInduction

RegionsOK ==
    /\ live \subseteq Region
    /\ freeing \in [Contexts -> SUBSET Region]
    /\ _lastBlock \in Nat

\* A region is in use, or inside one context's Free, which has no other.
OneOwner ==
    \A c \in Contexts : \A e \in freeing[c] :
        /\ freeing[c] = {e}
        /\ e \notin live
        /\ \A d \in Contexts : e \in freeing[d] => d = c

BitMapInv == RegionsOK /\ OneOwner /\ HeldIsBusy

USE BitMapAssumption

LEMMA QuotientIsNat ==
  ASSUME NEW a \in Nat
  PROVE  a \div W \in Nat
<1> DEFINE q == a \div W
           r == a % W
<1>1. q \in Int /\ a = W * q + r /\ r \in 0 .. W - 1
  BY DivMod
<1> HIDE DEF q, r
<1>2. q >= 0
  <2>1. SUFFICES ASSUME q <= -1 PROVE FALSE
    BY <1>1
  <2>2. W * q <= W * (-1)
    BY <1>1, <2>1
  <2> QED  BY <1>1, <2>2
<1> QED  BY <1>1, <1>2 DEF q

LEMMA WordStart ==
  ASSUME NEW w \in Nat
  PROVE  ((w + 1) * W) % W = 0 /\ ((w + 1) * W) \div W = w + 1
<1> DEFINE a == (w + 1) * W
           q == a \div W
           r == a % W
<1>1. a \in Int /\ a = W * (w + 1) + 0
  OBVIOUS
<1> HIDE DEF a
<1>2. q \in Int /\ a = W * q + r /\ r \in 0 .. W - 1
  BY <1>1, DivMod
<1> HIDE DEF q, r
<1>3. q = w + 1
  BY <1>1, <1>2, QuotientUnique
<1>4. r = 0
  BY <1>1, <1>2, <1>3
<1> QED  BY <1>3, <1>4 DEF a, q, r

LEMMA LeastExists ==
  ASSUME NEW S, S \subseteq Nat, S # {}
  PROVE  \E i \in S : \A j \in S : i <= j
<1> DEFINE R == OpToRel(<, Nat)
<1>1. IsWellFoundedOn(R, Nat)
  BY NatLessThanWellFounded
<1>2. \A i, j \in Nat : <<i, j>> \in R <=> i < j
  BY DEF OpToRel
<1> HIDE DEF R
<1>3. PICK i \in S : \A j \in S : ~ (<<j, i>> \in R)
  BY <1>1, WFMin
<1>4. \A j \in S : i <= j
  <2>1. \A j \in S : ~ (j < i)
    BY <1>2, <1>3, Zenon
  <2> QED  BY <2>1
<1> QED  BY <1>4

LEMMA LeastIsMember ==
  ASSUME NEW S, S \subseteq Nat, S # {}
  PROVE  Least(S) \in S
BY LeastExists DEF Least

\* The region a search ends with: free, and where it can be behind a full word.
LEMMA FoundIsFree ==
  ASSUME RegionsOK, NEW n \in Lengths, FittingWords(n) # {}
  PROVE  LET w == Least(FittingWords(n))
             s == Least(Places(w, n))
         IN  /\ w \in Nat /\ s \in Nat /\ Free(At(s, n))
             /\ n >= W => s = Tail(w)
<1> DEFINE w == Least(FittingWords(n))
           s == Least(Places(w, n))
<1>1. FittingWords(n) \subseteq Nat
  BY DEF FittingWords, RegionsOK
<1>2. w \in FittingWords(n)
  BY <1>1, LeastIsMember
<1>3. w \in Nat /\ Places(w, n) # {}
  BY <1>1, <1>2 DEF FittingWords
<1> HIDE DEF w
<1>4. w * W \in Nat
  BY <1>3
<1>5. /\ Places(w, n) \subseteq Nat
      /\ \A x \in Places(w, n) : Free(At(x, n)) /\ (n >= W => x = Tail(w))
  <2> DEFINE inside == {x \in w * W .. w * W + W - n - 1 : Free(At(x, n))}
             over == {x \in Bits : x = Tail(w) /\ Free(At(x, n))}
  <2>1. inside \subseteq Nat /\ \A x \in inside : Free(At(x, n))
    BY <1>4
  <2>2. over \subseteq Nat /\ \A x \in over : Free(At(x, n)) /\ x = Tail(w)
    BY DEF Bits
  <2>3. Places(w, n) \subseteq inside \cup over
    BY DEF Places
  <2>4. n >= W => Places(w, n) \subseteq over
    BY DEF Places
  <2> HIDE DEF inside, over
  <2> QED  BY <2>1, <2>2, <2>3, <2>4
<1>6. s \in Places(w, n)
  BY <1>3, <1>5, LeastIsMember
<1> QED  BY <1>3, <1>5, <1>6 DEF w

LEMMA RegionBlocks ==
  ASSUME NEW e \in Region
  PROVE  /\ e.at \in Nat /\ e.len \in Nat \ {0}
         /\ Blocks(e) \subseteq Nat /\ e.at \in Blocks(e)
<1>1. e.at \in Nat /\ e.len \in Nat \ {0}
  BY DEF Region
<1> QED  BY <1>1 DEF Blocks

\* What Alloc does to the regions and the map.
LEMMA AllocTakesFree ==
  ASSUME RegionsOK, NEW c \in Contexts, NEW n \in Lengths, Alloc(c, n)
  PROVE  \E w \in Nat, e \in Region :
             /\ live' = live \cup {e} /\ inUse' = inUse + 1 /\ freeing' = freeing
             /\ busy \cup Blocks(e) \subseteq busy'
             /\ Blocks(e) \cap busy = {}
             /\ \A b \in busy' \ (busy \cup Blocks(e)) :
                    e.len >= W /\ LeadingZeros(w) = 0 /\ b \in WordBits(w)
             /\ e.len >= W => e.at = Tail(w)
             /\ _lastBlock' \in Nat
<1> DEFINE w == Least(FittingWords(n))
           s == Least(Places(w, n))
<1>1. FittingWords(n) # {}
  BY DEF Alloc
<1>2. w \in Nat /\ s \in Nat /\ Free(At(s, n)) /\ (n >= W => s = Tail(w))
  BY <1>1, FoundIsFree
<1>3. \E extra \in Marked(w, n) :
          /\ busy' = busy \cup Blocks(At(s, n)) \cup extra
          /\ _lastBlock' = NewHint(w, At(s, n))
          /\ live' = live \cup {At(s, n)} /\ inUse' = inUse + 1
  BY DEF Alloc
<1>4. freeing' = freeing
  BY DEF Alloc
<1> HIDE DEF w, s
<1>5. PICK extra \in Marked(w, n) :
          /\ busy' = busy \cup Blocks(At(s, n)) \cup extra
          /\ _lastBlock' = NewHint(w, At(s, n))
          /\ live' = live \cup {At(s, n)} /\ inUse' = inUse + 1
  BY <1>3
<1> DEFINE e == At(s, n)
<1>6. e \in Region /\ e.len = n /\ e.at = s
  BY <1>2 DEF At, Region
<1>7. Blocks(e) \cap busy = {}
  BY <1>2 DEF Free
<1>8. _lastBlock' \in Nat
  BY <1>2, <1>5 DEF NewHint
<1>9. \A b \in extra : n >= W /\ LeadingZeros(w) = 0 /\ b \in WordBits(w)
  BY <1>5 DEF Marked
<1>10. /\ live' = live \cup {e} /\ inUse' = inUse + 1
       /\ busy \cup Blocks(e) \subseteq busy'
       /\ busy' \ (busy \cup Blocks(e)) \subseteq extra
  BY <1>5
<1> HIDE DEF e
<1> QED  BY <1>2, <1>4, <1>6, <1>7, <1>8, <1>9, <1>10

-----------------------------------------------------------------------------
LEMMA BitMapInit == Init => BitMapInv
BY DEF Init, BitMapInv, RegionsOK, OneOwner, HeldIsBusy, Held, Owned

\* Steps that leave every region with an owner and clear no bit.
LEMMA SameHeld ==
  ASSUME Held' = Held, Owned' = Owned, busy' = busy, HeldIsBusy
  PROVE  HeldIsBusy'
BY DEF HeldIsBusy

LEMMA FreeBeginMoves ==
  ASSUME BitMapInv, NEW c \in Contexts, NEW e \in live, FreeBegin(c, e)
  PROVE  Owned' = Owned /\ Held' = Held /\ RegionsOK' /\ OneOwner'
<1>1. /\ live' = live \ {e} /\ freeing' = [freeing EXCEPT ![c] = {e}]
      /\ freeing[c] = {} /\ _lastBlock' = _lastBlock
  BY DEF FreeBegin
<1>2. freeing \in [Contexts -> SUBSET Region] /\ live \subseteq Region
  BY DEF BitMapInv, RegionsOK
<1>3. freeing'[c] = {e} /\ \A d \in Contexts \ {c} : freeing'[d] = freeing[d]
  BY <1>1, <1>2
<1>4. Owned' = Owned
  BY <1>1, <1>3 DEF Owned
<1>5. OneOwner'
  BY <1>1, <1>3 DEF BitMapInv, OneOwner
<1>6. RegionsOK'
  BY <1>1, <1>2 DEF BitMapInv, RegionsOK
<1> QED  BY <1>4, <1>5, <1>6 DEF Held

\* FreeClears takes the bits of its own region and of no other.
LEMMA FreeClearsOwn ==
  ASSUME BitMapInv, NEW c \in Contexts, NEW e \in freeing[c], FreeClears(c, e)
  PROVE  /\ Owned' = Owned \ {e} /\ Held' = Held \ Blocks(e)
         /\ RegionsOK' /\ OneOwner'
<1>1. /\ live' = live /\ freeing' = [freeing EXCEPT ![c] = {}]
      /\ _lastBlock' = _lastBlock
  BY DEF FreeClears
<1>2. freeing \in [Contexts -> SUBSET Region] /\ live \subseteq Region
  BY DEF BitMapInv, RegionsOK
<1>3. freeing'[c] = {} /\ \A d \in Contexts \ {c} : freeing'[d] = freeing[d]
  BY <1>1, <1>2
<1>4. freeing[c] = {e} /\ e \notin live /\ \A d \in Contexts \ {c} : e \notin freeing[d]
  BY DEF BitMapInv, OneOwner
<1>5. e \in Owned /\ Owned' = Owned \ {e}
  BY <1>1, <1>3, <1>4 DEF Owned
<1>6. \A f \in Owned' : Blocks(f) \cap Blocks(e) = {}
  BY <1>5 DEF BitMapInv, HeldIsBusy
<1>7. Held' = Held \ Blocks(e)
  BY <1>5, <1>6 DEF Held
<1>8. OneOwner'
  BY <1>1, <1>3 DEF BitMapInv, OneOwner
<1>9. RegionsOK'
  BY <1>1, <1>2 DEF BitMapInv, RegionsOK
<1> QED  BY <1>5, <1>7, <1>8, <1>9

LEMMA BitMapNext == BitMapInv /\ [Next]_vars => BitMapInv'
<1> SUFFICES ASSUME BitMapInv, [Next]_vars PROVE BitMapInv'
  OBVIOUS
<1>1. ASSUME NEW c \in Contexts, NEW n \in Lengths, Alloc(c, n) PROVE BitMapInv'
  <2>1. PICK w \in Nat, e \in Region :
            /\ live' = live \cup {e} /\ freeing' = freeing
            /\ busy \cup Blocks(e) \subseteq busy'
            /\ Blocks(e) \cap busy = {}
            /\ _lastBlock' \in Nat
    BY <1>1, AllocTakesFree DEF BitMapInv
  <2>2. Owned' = Owned \cup {e}
    BY <2>1 DEF Owned
  <2>3. \A f \in Owned : Blocks(f) \cap Blocks(e) = {} /\ Blocks(f) \subseteq busy
    BY <2>1 DEF BitMapInv, HeldIsBusy, Held
  <2>4. e \notin Owned
    BY <2>1, <2>3, RegionBlocks
  <2>5. HeldIsBusy'
    BY <2>1, <2>2, <2>3 DEF BitMapInv, HeldIsBusy, Held
  <2>6. OneOwner'
    <3>1. \A d \in Contexts : \A f \in freeing[d] : f # e
      BY <2>4 DEF Owned
    <3>2. /\ freeing' = freeing /\ live' = live \cup {e}
          /\ OneOwner
      BY <2>1 DEF BitMapInv
    <3> QED  BY <3>1, <3>2 DEF OneOwner
  <2>7. RegionsOK'
    BY <2>1 DEF BitMapInv, RegionsOK
  <2> QED  BY <2>5, <2>6, <2>7 DEF BitMapInv
<1>2. ASSUME NEW c \in Contexts, NEW n \in Lengths, AllocFails(c, n) PROVE BitMapInv'
  BY <1>2 DEF AllocFails, vars, BitMapInv, RegionsOK, OneOwner, HeldIsBusy, Held, Owned
<1>3. ASSUME NEW c \in Contexts, NEW e \in live, FreeRefused(c, e) PROVE BitMapInv'
  <2>1. live' = live \ {e} /\ UNCHANGED <<busy, _lastBlock, freeing>>
    BY <1>3 DEF FreeRefused
  <2>2. Owned' \subseteq Owned /\ Held' \subseteq Held
    BY <2>1 DEF Owned, Held
  <2>3. HeldIsBusy'
    BY <2>1, <2>2 DEF BitMapInv, HeldIsBusy
  <2> QED  BY <2>1, <2>3 DEF BitMapInv, RegionsOK, OneOwner
<1>4. ASSUME NEW c \in Contexts, NEW e \in live, FreeBegin(c, e) PROVE BitMapInv'
  <2>1. busy' = busy
    BY <1>4 DEF FreeBegin
  <2> QED  BY <1>4, <2>1, FreeBeginMoves, SameHeld DEF BitMapInv
<1>5. ASSUME NEW c \in Contexts, NEW e \in freeing[c], FreeLowersHint(c, e)
      PROVE  BitMapInv'
  <2>1. UNCHANGED <<busy, live, freeing>> /\ _lastBlock' = e.at \div W
    BY <1>5 DEF FreeLowersHint
  <2>2. e \in Region
    BY DEF BitMapInv, RegionsOK
  <2>3. _lastBlock' \in Nat
    BY <2>1, <2>2, RegionBlocks, QuotientIsNat
  <2> QED  BY <2>1, <2>3 DEF BitMapInv, RegionsOK, OneOwner, HeldIsBusy, Held, Owned
<1>6. ASSUME NEW c \in Contexts, NEW e \in freeing[c], FreeClears(c, e)
      PROVE  BitMapInv'
  <2>1. busy' = busy \ Blocks(e)
    BY <1>6 DEF FreeClears
  <2>2. /\ Owned' = Owned \ {e} /\ Held' = Held \ Blocks(e)
        /\ RegionsOK' /\ OneOwner'
    BY <1>6, FreeClearsOwn
  <2>3. HeldIsBusy'
    BY <2>1, <2>2 DEF BitMapInv, HeldIsBusy
  <2> QED  BY <2>2, <2>3 DEF BitMapInv
<1>7. CASE FreeAll
  <2>1. /\ \A c \in Contexts : freeing[c] = {}
        /\ live' = {} /\ UNCHANGED <<_lastBlock, freeing>>
    BY <1>7 DEF FreeAll
  <2>2. Owned' = {} /\ Held' = {}
    BY <2>1 DEF Owned, Held
  <2> QED  BY <2>1, <2>2 DEF BitMapInv, RegionsOK, OneOwner, HeldIsBusy
<1>8. CASE UNCHANGED vars
  BY <1>8 DEF vars, BitMapInv, RegionsOK, OneOwner, HeldIsBusy, Held, Owned
<1> QED  BY <1>1, <1>2, <1>3, <1>4, <1>5, <1>6, <1>7, <1>8 DEF Next

(* The inductive invariant of the bitmap allocator.                        *)
THEOREM BitMapInvariant == Spec => []BitMapInv
BY BitMapInit, BitMapNext, PTL DEF Spec

(* Regions are disjoint and their bits set until Free has cleared them, in *)
(* every interleaving of Alloc and Free of any number of levels.           *)
THEOREM RegionsAreHeld == Spec => []HeldIsBusy
<1>1. BitMapInv => HeldIsBusy
  BY DEF BitMapInv
<1> QED  BY <1>1, BitMapInvariant, PTL

-----------------------------------------------------------------------------
LEMMA HeapStep == BitMapInv /\ [Next]_vars => [HeapNext]_<<live, inUse>>
<1> SUFFICES ASSUME BitMapInv, [Next]_vars 
             PROVE  HeapNext \/ (live' = live /\ inUse' = inUse)
  OBVIOUS
<1>1. ASSUME NEW c \in Contexts, NEW n \in Lengths, Alloc(c, n)
      PROVE  HeapNext
  <2>1. PICK w \in Nat, e \in Region :
            /\ live' = live \cup {e} /\ inUse' = inUse + 1
            /\ Blocks(e) \cap busy = {}
    BY <1>1, AllocTakesFree DEF BitMapInv
  <2>2. \A f \in live : Blocks(e) \cap Blocks(f) = {}
    BY <2>1 DEF BitMapInv, HeldIsBusy, Held, Owned
  <2>3. e \notin live
    BY <2>2, RegionBlocks
  <2>4. New(e)
    BY <2>1, <2>2 DEF New
  <2> QED  BY <2>1, <2>3, <2>4 DEF HeapNext
<1>2. ASSUME NEW c \in Contexts, NEW e \in live, FreeRefused(c, e) \/ FreeBegin(c, e)
      PROVE  HeapNext
  BY <1>2 DEF FreeRefused, FreeBegin, HeapNext, Delete
<1>3. CASE FreeAll
  BY <1>3 DEF FreeAll, HeapNext, DeleteAll
<1>4. ASSUME NEW c \in Contexts, NEW e \in freeing[c],
             FreeLowersHint(c, e) \/ FreeClears(c, e)
      PROVE  live' = live /\ inUse' = inUse
  BY <1>4 DEF FreeLowersHint, FreeClears
<1>5. ASSUME NEW c \in Contexts, NEW n \in Lengths, AllocFails(c, n)
      PROVE  live' = live /\ inUse' = inUse
  BY <1>5 DEF AllocFails, vars
<1>6. CASE UNCHANGED vars
  BY <1>6 DEF vars
<1> QED  BY <1>1, <1>2, <1>3, <1>4, <1>5, <1>6 DEF Next

(* Callers of operator new see the abstract Heap, whatever _lastBlock is   *)
(* after the races of Free and whichever way a mask was shifted.           *)
THEOREM BitMapImplementsHeap == Spec => HeapSpec
<1>1. Init => HeapInit
  BY DEF Init, HeapInit
<1>2. BitMapInv /\ [Next]_vars => [HeapNext]_<<live, inUse>>
  BY HeapStep
<1> QED  BY <1>1, <1>2, BitMapInvariant, PTL DEF Spec, HeapSpec

-----------------------------------------------------------------------------
\* The two reasons of LostOnlyTwoWays.
Refused(b) == \E e \in live \ live' : b \in Blocks(e) /\ e.at + e.len > MapBits
Overmarked(b) ==
    \E e \in live' \ live : /\ e.len >= W /\ e.at % W = 0
                            /\ b \in WordBits(e.at \div W - 1)

LEMMA LostStep ==
  BitMapInv /\ [Next]_vars => \A b \in Lost' \ Lost : Refused(b) \/ Overmarked(b)
<1> SUFFICES ASSUME BitMapInv, [Next]_vars, NEW b \in Lost', b \notin Lost
             PROVE  Refused(b) \/ Overmarked(b)
  OBVIOUS
<1> USE DEF Lost
<1>1. ASSUME NEW c \in Contexts, NEW n \in Lengths, Alloc(c, n) PROVE Overmarked(b)
  <2>1. PICK w \in Nat, e \in Region :
            /\ live' = live \cup {e} /\ freeing' = freeing
            /\ busy \cup Blocks(e) \subseteq busy'
            /\ Blocks(e) \cap busy = {}
            /\ \A x \in busy' \ (busy \cup Blocks(e)) :
                   e.len >= W /\ LeadingZeros(w) = 0 /\ x \in WordBits(w)
            /\ e.len >= W => e.at = Tail(w)
    BY <1>1, AllocTakesFree DEF BitMapInv
  <2>2. Owned' = Owned \cup {e}
    BY <2>1 DEF Owned
  <2>3. Held' = Held \cup Blocks(e)
    BY <2>2 DEF Held
  <2>4. b \in busy' \ (busy \cup Blocks(e))
    BY <2>1, <2>3
  <2>5. e.len >= W /\ LeadingZeros(w) = 0 /\ b \in WordBits(w)
    BY <2>1, <2>4
  <2>6. e.at = (w + 1) * W
    BY <2>1, <2>5 DEF Tail
  <2>7. e.at % W = 0 /\ e.at \div W = w + 1
    BY <2>6, WordStart
  <2>8. w + 1 - 1 = w
    OBVIOUS
  <2>9. b \in WordBits(e.at \div W - 1)
    BY <2>5, <2>7, <2>8
  <2>10. e \notin live
    BY <2>1, RegionBlocks DEF BitMapInv, HeldIsBusy, Held, Owned
  <2> QED  BY <2>1, <2>5, <2>7, <2>9, <2>10 DEF Overmarked
<1>2. ASSUME NEW c \in Contexts, NEW e \in live, FreeRefused(c, e) PROVE Refused(b)
  <2>1. /\ live' = live \ {e} /\ UNCHANGED <<busy, freeing>>
        /\ e.at + e.len > MapBits
    BY <1>2 DEF FreeRefused
  <2>2. Owned \ Owned' \subseteq {e}
    BY <2>1 DEF Owned
  <2>3. b \in Held /\ b \notin Held'
    BY <2>1
  <2>4. b \in Blocks(e)
    BY <2>2, <2>3 DEF Held
  <2> QED  BY <2>1, <2>4 DEF Refused
<1>3. ASSUME NEW c \in Contexts, NEW e \in live, FreeBegin(c, e) PROVE FALSE
  <2>1. busy' = busy
    BY <1>3 DEF FreeBegin
  <2> QED  BY <1>3, <2>1, FreeBeginMoves
<1>4. ASSUME NEW c \in Contexts, NEW e \in freeing[c], FreeClears(c, e) PROVE FALSE
  <2>1. busy' = busy \ Blocks(e)
    BY <1>4 DEF FreeClears
  <2> QED  BY <1>4, <2>1, FreeClearsOwn
<1>5. CASE FreeAll
  BY <1>5 DEF FreeAll
<1>6. ASSUME NEW c \in Contexts, NEW e \in freeing[c], FreeLowersHint(c, e) PROVE FALSE
  BY <1>6 DEF FreeLowersHint, Held, Owned
<1>7. ASSUME NEW c \in Contexts, NEW n \in Lengths, AllocFails(c, n) PROVE FALSE
  BY <1>7 DEF AllocFails, vars, Held, Owned
<1>8. CASE UNCHANGED vars
  BY <1>8 DEF vars, Held, Owned
<1> QED  BY <1>1, <1>2, <1>3, <1>4, <1>5, <1>6, <1>7, <1>8 DEF Next

(* A block stays marked without an owner only because Free refused its     *)
(* region or because a mask was shifted by a whole word.                   *)
THEOREM LostInTwoWays == Spec => LostOnlyTwoWays
<1> DEFINE Reasons ==
      \A b \in Lost' \ Lost :
          \/ \E e \in live \ live' : b \in Blocks(e) /\ e.at + e.len > MapBits
          \/ \E e \in live' \ live : /\ e.len >= W /\ e.at % W = 0
                                    /\ b \in WordBits(e.at \div W - 1)
<1>1. BitMapInv /\ [Next]_vars => Reasons
  BY LostStep, Zenon DEF Refused, Overmarked
<1>2. BitMapInv /\ [Next]_vars => [Reasons]_vars
  BY <1>1
<1> QED  BY <1>2, BitMapInvariant, PTL DEF Spec, LostOnlyTwoWays

-----------------------------------------------------------------------------
(* What a Free that nothing raced with leaves can be found again           *)

WordOf(e) == e.at \div W

\* A region where Alloc looks: a short one at the very end of the map is not.
Findable(e) ==
    /\ Blocks(e) \subseteq Bits
    /\ e.len < W => e.at + e.len < (WordOf(e) + 1) * W \/ WordOf(e) + 1 < Elements

Placed == \A e \in Owned : Findable(e)

LoweringInFree == lowering \subseteq Contexts /\ \A c \in lowering : freeing[c] # {}

\* Without a race one context at most is about to lower _lastBlock, and below
\* the words of all others.
HintFollows ==
    ~raced =>
      /\ \A c, d \in lowering : c = d
      /\ \A c \in Contexts : \A e \in freeing[c] :
             IF c \in lowering THEN WordOf(e) < _lastBlock
                               ELSE _lastBlock <= WordOf(e)

\* The free place that FreedIsFound promises, and that _lastBlock is not raised
\* above it.
FreedPlace ==
    freed # 0 =>
      /\ freed \in Lengths
      /\ \E s \in Bits : LET e == At(s, freed)
                         IN  /\ Findable(e) /\ Blocks(e) \cap busy = {}
                             /\ _lastBlock <= WordOf(e)
      /\ \A c \in lowering :
             Running(c) => \A e \in freeing[c] : WordOf(e) < _lastBlock

FreedInv == Placed /\ LoweringInFree /\ HintFollows /\ FreedPlace


LEMMA WordBounds ==
  ASSUME NEW a \in Nat
  PROVE  /\ a \div W \in Nat
         /\ (a \div W) * W <= a /\ a < (a \div W + 1) * W
<1> DEFINE q == a \div W
           r == a % W
<1>1. q \in Nat
  BY QuotientIsNat
<1>2. a = W * q + r /\ r \in 0 .. W - 1
  BY DivMod
<1> HIDE DEF q, r
<1>3. q * W <= a /\ a < (q + 1) * W
  <2>1. W * q = q * W /\ (q + 1) * W = q * W + W /\ q * W \in Nat
    BY <1>1
  <2> QED  BY <1>2, <2>1
<1> QED  BY <1>1, <1>3 DEF q

LEMMA WordUnique ==
  ASSUME NEW a \in Nat, NEW w \in Nat, w * W <= a, a < (w + 1) * W
  PROVE  a \div W = w
<1> DEFINE q == a \div W
           r == a % W
<1>1. q \in Int /\ a = W * q + r /\ r \in 0 .. W - 1
  BY DivMod
<1>2. w * W = W * w /\ (w + 1) * W = W * w + W /\ W * w \in Nat
  OBVIOUS
<1>3. a - W * w \in 0 .. W - 1
  BY <1>2
<1> HIDE DEF q, r
<1>4. W * q + r = W * w + (a - W * w)
  BY <1>1, <1>2
<1>5. q = w
  BY <1>1, <1>3, <1>4, QuotientUnique
<1> QED  BY <1>5 DEF q

LEMMA BitsWord ==
  /\ Elements \in Nat
  /\ \A a \in Bits : a \in Nat /\ a \div W \in 0 .. Elements - 1
<1>1. Elements \in Nat
  <2>1. MapBits + W - 1 \in Nat
    OBVIOUS
  <2> QED  BY <2>1, QuotientIsNat DEF Elements
<1>2. ASSUME NEW a \in Bits
      PROVE  a \in Nat /\ a \div W \in 0 .. Elements - 1
  <2>1. Elements * W \in Nat
    BY <1>1
  <2>2. a \in Nat /\ a < Elements * W
    BY <2>1 DEF Bits
  <2> DEFINE q == a \div W
  <2>3. q \in Nat /\ q * W <= a
    BY <2>2, WordBounds
  <2> HIDE DEF q
  <2>4. q < Elements
    <3>1. SUFFICES ASSUME q >= Elements PROVE FALSE
      BY <1>1, <2>3
    <3>2. q * W >= Elements * W
      BY <1>1, <2>3, <3>1
    <3> QED  BY <2>1, <2>2, <2>3, <3>2
  <2> QED  BY <1>1, <2>2, <2>3, <2>4 DEF q
<1> QED  BY <1>1, <1>2

\* CountLeadingZeros finds the whole free run at the end of the word.
LEMMA LeadingZerosAre ==
  ASSUME NEW w \in Nat
  PROVE  LET K == (w + 1) * W
             z == LeadingZeros(w)
         IN  /\ z \in 0 .. W
             /\ \A b \in K - z .. K - 1 : b \notin busy
             /\ z < W => K - z - 1 \in busy
<1> DEFINE K == (w + 1) * W
           Run(z) == /\ \A b \in K - z .. K - 1 : b \notin busy
                     /\ z < W => K - z - 1 \in busy
           D == {z \in 0 .. W - 1 : K - z - 1 \in busy}
<1>1. LeadingZeros(w) = CHOOSE z \in 0 .. W : Run(z)
  BY DEF LeadingZeros
<1>2. K \in Nat
  OBVIOUS
<1> HIDE DEF K
<1>3. \E z \in 0 .. W : Run(z)
  <2>1. CASE D = {}
    <3>1. \A b \in K - W .. K - 1 : b \notin busy
      <4> SUFFICES ASSUME NEW b \in K - W .. K - 1, b \in busy PROVE FALSE
        OBVIOUS
      <4>1. K - b - 1 \in 0 .. W - 1 /\ K - (K - b - 1) - 1 = b
        BY <1>2
      <4>2. K - b - 1 \in D
        BY <4>1
      <4> QED  BY <2>1, <4>2
    <3> QED  BY <3>1
  <2>2. CASE D # {}
    <3> DEFINE z == Least(D)
    <3>1. D \subseteq Nat
      OBVIOUS
    <3>2. z \in D
      BY <2>2, <3>1, LeastIsMember
    <3>3. \A x \in D : z <= x
      <4>1. \E m \in D : \A x \in D : m <= x
        BY <2>2, <3>1, LeastExists
      <4> HIDE DEF D
      <4> QED  BY <4>1 DEF Least
    <3> HIDE DEF z
    <3>4. \A b \in K - z .. K - 1 : b \notin busy
      <4> SUFFICES ASSUME NEW b \in K - z .. K - 1, b \in busy PROVE FALSE
        OBVIOUS
      <4>1. /\ K - b - 1 \in 0 .. W - 1 /\ K - (K - b - 1) - 1 = b
            /\ K - b - 1 < z
        BY <1>2, <3>2
      <4>2. K - b - 1 \in D
        BY <4>1
      <4> QED  BY <3>2, <3>3, <4>1, <4>2
    <3>5. z \in 0 .. W /\ K - z - 1 \in busy
      BY <3>2
    <3> QED  BY <3>4, <3>5
  <2> QED  BY <2>1, <2>2
<1> DEFINE z == LeadingZeros(w)
<1>4. z \in 0 .. W /\ Run(z)
  <2> HIDE DEF Run
  <2> QED  BY <1>1, <1>3
<1> QED  BY <1>4 DEF K

\* Where a free region runs out of its word, the whole free run at the end of
\* that word can start one of the same length.
LEMMA TailIsFree ==
  ASSUME NEW w \in Nat, NEW s \in Nat, NEW n \in Nat \ {0}, Free(At(s, n)),
         w * W <= s, s < (w + 1) * W, s + n >= (w + 1) * W
  PROVE  Tail(w) \in Bits /\ Free(At(Tail(w), n)) /\ LeadingZeros(w) # 0
<1> DEFINE K == (w + 1) * W
           z == LeadingZeros(w)
           t == K - z
<1>1. /\ z \in 0 .. W /\ \A b \in K - z .. K - 1 : b \notin busy
      /\ z < W => K - z - 1 \in busy
  BY LeadingZerosAre
<1>2. K \in Nat /\ w * W = K - W /\ K - W \in Nat /\ s < K /\ s + n >= K /\ K - W <= s
  OBVIOUS
<1>3. Tail(w) = t
  BY DEF Tail
<1>4. \A b \in s .. s + n - 1 : b \in Bits /\ b \notin busy
  BY DEF Free, Blocks, At
<1> HIDE DEF K, z
<1>5. t <= s
  <2>1. SUFFICES ASSUME K - z > s PROVE FALSE
    BY <1>1, <1>2
  <2>2. K - z - 1 \in s .. s + n - 1 /\ z < W
    BY <1>1, <1>2, <2>1
  <2> QED  BY <1>1, <1>4, <2>2
<1>6. t \in Nat /\ t < K /\ z # 0
  BY <1>1, <1>2, <1>5
<1> HIDE DEF t
<1>7. \A b \in t .. t + n - 1 : b \in Bits /\ b \notin busy
  <2> SUFFICES ASSUME NEW b \in t .. t + n - 1 PROVE b \in Bits /\ b \notin busy
    OBVIOUS
  <2>1. b \notin busy
    <3>1. CASE b < K
      <4>1. b \in K - z .. K - 1
        BY <1>1, <1>2, <1>6, <3>1 DEF t
      <4> QED  BY <1>1, <4>1
    <3>2. CASE b >= K
      <4>1. b \in s .. s + n - 1
        BY <1>2, <1>5, <1>6, <3>2
      <4> QED  BY <1>4, <4>1
    <3> QED  BY <1>2, <1>6, <3>1, <3>2
  <2>2. b \in Bits
    <3>1. s + n - 1 \in Bits
      BY <1>4
    <3>2. s + n - 1 <= Elements * W - 1 /\ Elements * W \in Nat
      BY <3>1, BitsWord DEF Bits
    <3>3. b \in Nat /\ b <= s + n - 1
      BY <1>5, <1>6
    <3> QED  BY <3>2, <3>3 DEF Bits
  <2> QED  BY <2>1, <2>2
<1>8. t \in t .. t + n - 1
  BY <1>6
<1>9. t \in Bits
  BY <1>7, <1>8
<1>10. Free(At(t, n))
  BY <1>7 DEF Free, Blocks, At
<1> QED  BY <1>3, <1>6, <1>9, <1>10 DEF z

\* Alloc finds a place where a findable region is free.
LEMMA FindableIsFound ==
  ASSUME RegionsOK, NEW s \in Bits, NEW n \in Lengths,
         Findable(At(s, n)), Blocks(At(s, n)) \cap busy = {},
         _lastBlock <= s \div W
  PROVE  FittingWords(n) # {}
<1> DEFINE w == s \div W
<1>1. /\ s \in Nat /\ w \in Nat /\ w <= Elements - 1 /\ Elements \in Nat
      /\ w * W <= s /\ s < (w + 1) * W
  BY BitsWord, WordBounds
<1>2. n \in Nat \ {0} /\ At(s, n).at = s /\ At(s, n).len = n
  BY DEF At
<1>3. Free(At(s, n))
  BY DEF Free, Findable
<1>4. n < W => s + n < (w + 1) * W \/ w + 1 < Elements
  BY <1>2 DEF Findable, WordOf
<1>5. s \in Blocks(At(s, n))
  BY <1>1, <1>2 DEF Blocks
<1>6. _lastBlock \in Nat /\ _lastBlock <= w
  BY DEF RegionsOK
<1> HIDE DEF w
<1>7. w \in _lastBlock .. Elements - 1
  BY <1>1, <1>6
<1>8. /\ w * W \in Nat /\ (w + 1) * W = w * W + W
  BY <1>1
<1>9. ~ (WordBits(w) \subseteq busy)
  <2>1. s \in WordBits(w)
    BY <1>1, <1>8 DEF WordBits
  <2> QED  BY <1>5, <2>1
<1> DEFINE inside == {x \in w * W .. w * W + W - n - 1 : Free(At(x, n))}
           over   == {x \in Bits : x = Tail(w) /\ Free(At(x, n))}
<1>10. Places(w, n) = IF n >= W THEN over
                      ELSE IF inside # {} \/ LeadingZeros(w) = 0 \/ w + 1 = Elements
                           THEN inside ELSE over
  BY <1>9 DEF Places
<1>11. s + n < (w + 1) * W => s \in inside
  BY <1>1, <1>2, <1>3, <1>8
<1>12. s + n >= (w + 1) * W => over # {} /\ LeadingZeros(w) # 0
  <2> SUFFICES ASSUME s + n >= (w + 1) * W
               PROVE  over # {} /\ LeadingZeros(w) # 0
    OBVIOUS
  <2>1. Tail(w) \in Bits /\ Free(At(Tail(w), n)) /\ LeadingZeros(w) # 0
    BY <1>1, <1>2, <1>3, TailIsFree
  <2> QED  BY <2>1
<1>13. n >= W => s + n >= (w + 1) * W
  BY <1>1, <1>2, <1>8
<1>14. s + n < (w + 1) * W \/ s + n >= (w + 1) * W
  BY <1>1, <1>2, <1>8
<1> HIDE DEF inside, over
<1>15. Places(w, n) # {}
  <2>1. CASE n >= W
    BY <1>10, <1>12, <1>13, <2>1
  <2>2. CASE n < W /\ inside # {}
    <3>1. ~ (n >= W)
      BY <1>2, <2>2
    <3> QED  BY <1>10, <2>2, <3>1
  <2>3. CASE n < W /\ inside = {}
    <3>1. over # {} /\ LeadingZeros(w) # 0 /\ w + 1 < Elements
      BY <1>4, <1>11, <1>12, <1>14, <2>3
    <3>2. w + 1 # Elements /\ ~ (n >= W)
      BY <1>1, <1>2, <2>3, <3>1
    <3> QED  BY <1>10, <2>3, <3>1, <3>2
  <2> QED  BY <1>2, <2>1, <2>2, <2>3
<1> QED  BY <1>7, <1>15 DEF FittingWords

\* Alloc takes a region that can be found again.
LEMMA AllocIsFindable ==
  ASSUME RegionsOK, NEW c \in Contexts, NEW n \in Lengths, Alloc(c, n)
  PROVE  \E e \in Region : live' = live \cup {e} /\ Findable(e)
<1> DEFINE w == Least(FittingWords(n))
           s == Least(Places(w, n))
           inside == {x \in w * W .. w * W + W - n - 1 : Free(At(x, n))}
           over   == {x \in Bits : x = Tail(w) /\ Free(At(x, n))}
<1>1. FittingWords(n) # {} /\ live' = live \cup {At(s, n)}
  BY DEF Alloc
<1>2. w \in Nat /\ s \in Nat /\ Free(At(s, n))
  BY <1>1, FoundIsFree
<1>3. w \in FittingWords(n)
  <2>1. FittingWords(n) \subseteq Nat
    BY DEF FittingWords, RegionsOK
  <2> QED  BY <1>1, <2>1, LeastIsMember
<1>4. w <= Elements - 1 /\ Places(w, n) # {} /\ Elements \in Nat
  <2>1. _lastBlock \in Nat /\ Elements \in Nat
    BY BitsWord DEF RegionsOK
  <2> HIDE DEF w
  <2>2. w \in _lastBlock .. Elements - 1 /\ Places(w, n) # {}
    BY <1>3 DEF FittingWords
  <2> QED  BY <2>1, <2>2
<1>5. Places(w, n) \subseteq Nat
  <2>1. inside \subseteq Nat
    <3>1. w * W \in Nat
      BY <1>2
    <3> HIDE DEF w, s
    <3> QED  BY <3>1
  <2>2. over \subseteq Nat
    BY BitsWord
  <2>3. Places(w, n) \subseteq inside \cup over
    BY DEF Places
  <2> HIDE DEF inside, over
  <2> QED  BY <2>1, <2>2, <2>3
<1>6. s \in Places(w, n)
  BY <1>4, <1>5, LeastIsMember
<1>7. At(s, n) \in Region /\ At(s, n).at = s /\ At(s, n).len = n
  BY <1>2 DEF At, Region
<1>8. n \in Nat \ {0}
  OBVIOUS
<1> HIDE DEF w, s
<1>9. w * W \in Nat /\ (w + 1) * W = w * W + W
  BY <1>2
<1>10. ASSUME n < W
       PROVE  s + n < (WordOf(At(s, n)) + 1) * W \/ WordOf(At(s, n)) + 1 < Elements
  <2>1. ~ (n >= W)
    BY <1>8, <1>10
  <2>2. \/ s \in inside
        \/ s \in over /\ LeadingZeros(w) # 0 /\ w + 1 # Elements
    BY <1>6, <2>1 DEF Places
  <2>3. CASE s \in inside
    <3>1. w * W <= s /\ s + n < (w + 1) * W /\ s < (w + 1) * W
      BY <1>2, <1>8, <1>9, <2>3
    <3>2. s \div W = w
      BY <1>2, <3>1, WordUnique
    <3> QED  BY <1>7, <3>1, <3>2 DEF WordOf
  <2>4. CASE s \in over /\ LeadingZeros(w) # 0 /\ w + 1 # Elements
    <3>1. LeadingZeros(w) \in 1 .. W
      <4>1. LeadingZeros(w) \in 0 .. W
        BY <1>2, LeadingZerosAre
      <4> QED  BY <2>4, <4>1
    <3>2. s = (w + 1) * W - LeadingZeros(w)
      BY <2>4 DEF Tail
    <3>3. w * W <= s /\ s < (w + 1) * W
      BY <1>9, <3>1, <3>2
    <3>4. s \div W = w
      BY <1>2, <3>3, WordUnique
    <3>5. w + 1 < Elements
      BY <1>2, <1>4, <2>4
    <3> QED  BY <1>7, <3>4, <3>5 DEF WordOf
  <2> QED  BY <2>2, <2>3, <2>4
<1>11. Findable(At(s, n))
  BY <1>2, <1>7, <1>10 DEF Findable, Free
<1> QED  BY <1>1, <1>7, <1>11 DEF w, s

-----------------------------------------------------------------------------
LEMMA InitFreed == Init => FreedInv
BY DEF Init, FreedInv, Placed, Owned, LoweringInFree, HintFollows, FreedPlace

\* The regions stay findable.
LEMMA NextPlaced ==
  BitMapInv /\ Placed /\ [Next]_vars => Placed'
<1> SUFFICES ASSUME BitMapInv, Placed, [Next]_vars PROVE Placed'
  OBVIOUS
<1>1. ASSUME NEW c \in Contexts, NEW n \in Lengths, Alloc(c, n) PROVE Placed'
  <2>1. PICK e \in Region : live' = live \cup {e} /\ Findable(e)
    BY <1>1, AllocIsFindable DEF BitMapInv
  <2>2. freeing' = freeing
    BY <1>1 DEF Alloc
  <2>3. Owned' = Owned \cup {e}
    BY <2>1, <2>2 DEF Owned
  <2> QED  BY <2>1, <2>3 DEF Placed
<1>2. ASSUME Owned' \subseteq Owned PROVE Placed'
  BY <1>2 DEF Placed
<1>3. ASSUME NEW c \in Contexts, NEW n \in Lengths, AllocFails(c, n) PROVE Placed'
  BY <1>2, <1>3 DEF AllocFails, vars, Owned
<1>4. ASSUME NEW c \in Contexts, NEW e \in live, FreeRefused(c, e) PROVE Placed'
  BY <1>2, <1>4 DEF FreeRefused, Owned
<1>5. ASSUME NEW c \in Contexts, NEW e \in live, FreeBegin(c, e) PROVE Placed'
  BY <1>2, <1>5, FreeBeginMoves
<1>6. ASSUME NEW c \in Contexts, NEW e \in freeing[c], FreeLowersHint(c, e)
      PROVE  Placed'
  BY <1>2, <1>6 DEF FreeLowersHint, Owned
<1>7. ASSUME NEW c \in Contexts, NEW e \in freeing[c], FreeClears(c, e) PROVE Placed'
  BY <1>2, <1>7, FreeClearsOwn
<1>8. CASE FreeAll
  BY <1>8 DEF FreeAll, Owned, Placed
<1>9. CASE UNCHANGED vars
  BY <1>2, <1>9 DEF vars, Owned
<1> QED  BY <1>1, <1>3, <1>4, <1>5, <1>6, <1>7, <1>8, <1>9 DEF Next

\* A context that lowers _lastBlock runs alone; what it compared still holds
\* unless another call came in between.
LEMMA NextHint ==
  BitMapInv /\ LoweringInFree /\ HintFollows /\ [Next]_vars
    => LoweringInFree' /\ HintFollows'
<1> SUFFICES ASSUME BitMapInv, LoweringInFree, HintFollows, [Next]_vars
             PROVE  LoweringInFree' /\ HintFollows'
  OBVIOUS
<1>1. freeing \in [Contexts -> SUBSET Region] /\ _lastBlock \in Nat
  BY DEF BitMapInv, RegionsOK
<1>2. \A e \in Region : WordOf(e) \in Nat
  BY RegionBlocks, QuotientIsNat DEF WordOf
<1>3. ASSUME NEW c \in Contexts, NEW n \in Lengths, Alloc(c, n)
      PROVE  LoweringInFree' /\ HintFollows'
  BY <1>3 DEF Alloc, LoweringInFree, HintFollows
<1>4. ASSUME UNCHANGED <<_lastBlock, freeing, lowering, raced>>
      PROVE  LoweringInFree' /\ HintFollows'
  BY <1>4 DEF LoweringInFree, HintFollows
<1>5. ASSUME NEW c \in Contexts, NEW e \in live, FreeBegin(c, e)
      PROVE  LoweringInFree' /\ HintFollows'
  <2>1. /\ freeing[c] = {} /\ freeing' = [freeing EXCEPT ![c] = {e}]
        /\ lowering' = IF _lastBlock > WordOf(e) THEN lowering \cup {c} ELSE lowering
        /\ raced' = (raced \/ lowering # {}) /\ _lastBlock' = _lastBlock
    BY <1>5 DEF FreeBegin, WordOf
  <2>2. freeing'[c] = {e} /\ \A d \in Contexts \ {c} : freeing'[d] = freeing[d]
    BY <1>1, <2>1
  <2>3. LoweringInFree'
    BY <2>1, <2>2 DEF LoweringInFree
  <2>4. WordOf(e) \in Nat
    BY <1>2 DEF BitMapInv, RegionsOK
  <2>5. ASSUME ~raced'
        PROVE  /\ \A x, d \in lowering' : x = d
               /\ \A d \in Contexts : \A f \in freeing'[d] :
                    IF d \in lowering' THEN WordOf(f) < _lastBlock'
                                       ELSE _lastBlock' <= WordOf(f)
    <3>1. ~raced /\ lowering = {}
      BY <2>1, <2>5
    <3>2. \A d \in Contexts : \A f \in freeing[d] : _lastBlock <= WordOf(f)
      BY <3>1 DEF HintFollows
    <3>3. lowering' = IF _lastBlock > WordOf(e) THEN {c} ELSE {}
      BY <2>1, <3>1
    <3> QED  BY <1>1, <2>1, <2>2, <2>4, <3>2, <3>3
  <2>6. HintFollows'
    BY <2>5 DEF HintFollows, WordOf
  <2> QED  BY <2>3, <2>6
<1>6. ASSUME NEW c \in Contexts, NEW e \in freeing[c], FreeLowersHint(c, e)
      PROVE  LoweringInFree' /\ HintFollows'
  <2>1. /\ c \in lowering /\ lowering' = lowering \ {c} /\ _lastBlock' = WordOf(e)
        /\ UNCHANGED <<freeing, raced>>
    BY <1>6 DEF FreeLowersHint, WordOf
  <2>2. freeing[c] = {e}
    BY DEF BitMapInv, OneOwner
  <2>3. LoweringInFree'
    BY <2>1 DEF LoweringInFree
  <2>4. ASSUME ~raced
        PROVE  /\ \A x, d \in lowering' : x = d
               /\ \A d \in Contexts : \A f \in freeing[d] :
                    IF d \in lowering' THEN WordOf(f) < _lastBlock'
                                       ELSE _lastBlock' <= WordOf(f)
    <3>1. lowering = {c} /\ lowering' = {}
      BY <2>1, <2>4 DEF HintFollows
    <3>2. WordOf(e) < _lastBlock /\ WordOf(e) \in Nat
      BY <1>1, <1>2, <2>1, <2>4 DEF HintFollows
    <3>3. ASSUME NEW d \in Contexts, NEW f \in freeing[d]
          PROVE  WordOf(e) <= WordOf(f)
      <4>1. CASE d = c
        BY <2>2, <3>2, <3>3, <4>1
      <4>2. CASE d # c
        <5>1. _lastBlock <= WordOf(f) /\ WordOf(f) \in Nat
          BY <1>1, <1>2, <2>4, <3>1, <3>3, <4>2 DEF HintFollows
        <5> QED  BY <1>1, <3>2, <5>1
      <4> QED  BY <4>1, <4>2
    <3> QED  BY <2>1, <3>1, <3>3
  <2>5. HintFollows'
    BY <2>1, <2>4 DEF HintFollows, WordOf
  <2> QED  BY <2>3, <2>5
<1>7. ASSUME NEW c \in Contexts, NEW e \in freeing[c], FreeClears(c, e)
      PROVE  LoweringInFree' /\ HintFollows'
  <2>1. /\ c \notin lowering /\ lowering' = lowering /\ _lastBlock' = _lastBlock
        /\ freeing' = [freeing EXCEPT ![c] = {}]
        /\ raced' = (raced /\ \E d \in Contexts \ {c} : freeing[d] # {})
    BY <1>7 DEF FreeClears
  <2>2. freeing'[c] = {} /\ \A d \in Contexts \ {c} : freeing'[d] = freeing[d]
    BY <1>1, <2>1
  <2>3. LoweringInFree'
    BY <2>1, <2>2 DEF LoweringInFree
  <2>4. HintFollows'
    <3>1. CASE raced
      <4> SUFFICES ASSUME ~raced' PROVE HintFollows'
        BY DEF HintFollows
      <4>1. \A d \in Contexts : freeing'[d] = {}
        BY <2>1, <2>2, <3>1
      <4>2. lowering' = {}
        BY <2>3, <4>1 DEF LoweringInFree
      <4> QED  BY <4>1, <4>2 DEF HintFollows
    <3>2. CASE ~raced
      BY <2>1, <2>2, <3>2 DEF HintFollows, WordOf
    <3> QED  BY <3>1, <3>2
  <2> QED  BY <2>3, <2>4
<1>8. ASSUME NEW c \in Contexts, NEW n \in Lengths, AllocFails(c, n)
      PROVE  LoweringInFree' /\ HintFollows'
  BY <1>4, <1>8 DEF AllocFails, vars
<1>9. ASSUME NEW c \in Contexts, NEW e \in live, FreeRefused(c, e)
      PROVE  LoweringInFree' /\ HintFollows'
  BY <1>4, <1>9 DEF FreeRefused
<1>10. CASE FreeAll
  BY <1>4, <1>10 DEF FreeAll
<1>11. CASE UNCHANGED vars
  BY <1>4, <1>11 DEF vars
<1> QED  BY <1>3, <1>5, <1>6, <1>7, <1>8, <1>9, <1>10, <1>11 DEF Next

\* A step that is no Alloc and no Free that ends keeps the free place.
LEMMA KeepsPlace ==
  ASSUME FreedPlace, freed' = freed, freed # 0, busy' \subseteq busy,
         \/ _lastBlock' = _lastBlock
         \/ _lastBlock \in Nat /\ _lastBlock' \in Nat /\ _lastBlock' < _lastBlock
  PROVE  /\ freed' \in Lengths
         /\ \E s \in Bits : LET e == At(s, freed')
                            IN  /\ Findable(e) /\ Blocks(e) \cap busy' = {}
                                /\ _lastBlock' <= WordOf(e)
<1>1. PICK s \in Bits : /\ Findable(At(s, freed)) /\ Blocks(At(s, freed)) \cap busy = {}
                        /\ _lastBlock <= WordOf(At(s, freed))
  BY DEF FreedPlace
<1>2. freed \in Lengths
  BY DEF FreedPlace
<1>3. WordOf(At(s, freed)) \in Nat
  BY BitsWord DEF WordOf, At
<1>4. _lastBlock' <= WordOf(At(s, freed))
  BY <1>1, <1>3
<1> QED  BY <1>1, <1>2, <1>4

\* The free place stays until the next Alloc.
LEMMA NextFreedPlace ==
  BitMapInv /\ FreedInv /\ [Next]_vars => FreedPlace'
<1> SUFFICES ASSUME BitMapInv, FreedInv, [Next]_vars, freed' # 0
             PROVE  FreedPlace'
  BY DEF FreedPlace
<1>1. freeing \in [Contexts -> SUBSET Region] /\ _lastBlock \in Nat
  BY DEF BitMapInv, RegionsOK
<1>2. \A e \in Region : WordOf(e) \in Nat
  BY RegionBlocks, QuotientIsNat DEF WordOf
<1> USE DEF FreedInv
<1>3. ASSUME UNCHANGED <<busy, _lastBlock, freeing, lowering, freed>>
      PROVE  FreedPlace'
  BY <1>3 DEF FreedPlace, Running
<1>4. ASSUME NEW c \in Contexts, NEW e \in live, FreeBegin(c, e) PROVE FreedPlace'
  <2>1. /\ Running(c) /\ freeing[c] = {} /\ freeing' = [freeing EXCEPT ![c] = {e}]
        /\ lowering' = IF _lastBlock > WordOf(e) THEN lowering \cup {c} ELSE lowering
        /\ UNCHANGED <<busy, _lastBlock, freed>>
    BY <1>4 DEF FreeBegin, WordOf
  <2>2. freeing'[c] = {e} /\ \A d \in Contexts \ {c} : freeing'[d] = freeing[d]
    BY <1>1, <2>1
  <2>3. \A d \in lowering' : d \in Contexts /\ (Running(d)' => d = c)
    <3> SUFFICES ASSUME NEW d \in lowering', d # c
                 PROVE  d \in Contexts /\ ~Running(d)'
      BY <2>1 DEF LoweringInFree
    <3>1. d \in Contexts /\ freeing[d] # {} /\ d \in lowering
      BY <2>1 DEF LoweringInFree
    <3>2. ~ (d > c)
      BY <2>1, <3>1 DEF Running
    <3>3. c > d
      BY <3>1, <3>2
    <3> QED  BY <2>2, <3>1, <3>3 DEF Running
  <2>4. \A d \in lowering' : Running(d)' => \A f \in freeing'[d] : WordOf(f) < _lastBlock
    <3> SUFFICES ASSUME NEW d \in lowering', Running(d)', NEW f \in freeing'[d]
                 PROVE  WordOf(f) < _lastBlock
      OBVIOUS
    <3>1. d = c /\ f = e
      BY <2>2, <2>3
    <3>2. c \notin lowering
      BY <2>1 DEF LoweringInFree
    <3>3. _lastBlock > WordOf(e)
      BY <2>1, <3>1, <3>2
    <3>4. WordOf(e) \in Nat
      BY <1>2 DEF BitMapInv, RegionsOK
    <3> QED  BY <1>1, <3>1, <3>3, <3>4
  <2>5. /\ freed' \in Lengths
        /\ \E s \in Bits : LET g == At(s, freed')
                           IN  /\ Findable(g) /\ Blocks(g) \cap busy' = {}
                               /\ _lastBlock' <= WordOf(g)
    BY <2>1, KeepsPlace
  <2> QED  BY <2>1, <2>4, <2>5 DEF FreedPlace, WordOf, Findable
<1>5. ASSUME NEW c \in Contexts, NEW e \in freeing[c], FreeLowersHint(c, e)
      PROVE  FreedPlace'
  <2>1. /\ Running(c) /\ c \in lowering /\ lowering' = lowering \ {c}
        /\ _lastBlock' = WordOf(e) /\ UNCHANGED <<freeing, busy, freed>>
    BY <1>5 DEF FreeLowersHint, WordOf
  <2>2. WordOf(e) < _lastBlock /\ WordOf(e) \in Nat
    BY <1>1, <1>2, <2>1 DEF FreedPlace
  <2>3. \A d \in lowering' : ~Running(d)
    <3> SUFFICES ASSUME NEW d \in lowering' PROVE ~Running(d)
      OBVIOUS
    <3>1. d \in Contexts /\ freeing[d] # {} /\ d # c
      BY <2>1 DEF LoweringInFree
    <3>2. ~ (d > c)
      BY <2>1, <3>1 DEF Running
    <3>3. c > d /\ freeing[c] # {}
      BY <3>1, <3>2
    <3> QED  BY <3>1, <3>3 DEF Running
  <2>4. \A d : Running(d)' <=> Running(d)
    BY <2>1 DEF Running
  <2>5. /\ freed' \in Lengths
        /\ \E s \in Bits : LET g == At(s, freed')
                           IN  /\ Findable(g) /\ Blocks(g) \cap busy' = {}
                               /\ _lastBlock' <= WordOf(g)
    BY <1>1, <2>1, <2>2, KeepsPlace
  <2> QED  BY <2>1, <2>3, <2>4, <2>5 DEF FreedPlace, WordOf, Findable
<1>6. ASSUME NEW c \in Contexts, NEW e \in freeing[c], FreeClears(c, e)
      PROVE  FreedPlace'
  <2>1. /\ c \notin lowering /\ busy' = busy \ Blocks(e)
        /\ freeing' = [freeing EXCEPT ![c] = {}]
        /\ freed' = (IF raced THEN 0 ELSE e.len)
        /\ UNCHANGED <<_lastBlock, lowering>>
    BY <1>6 DEF FreeClears
  <2>2. ~raced /\ freed' = e.len
    BY <2>1
  <2>3. e \in Region /\ e.at \in Nat /\ e.len \in Lengths /\ e.at \in Blocks(e)
    BY <1>1, RegionBlocks DEF Region
  <2>4. Findable(e) /\ _lastBlock <= WordOf(e)
    BY <2>1, <2>2 DEF Placed, Owned, HintFollows
  <2>5. At(e.at, freed') = e
    BY <2>2, <2>3 DEF At, Region
  <2>6. e.at \in Bits
    BY <2>3, <2>4 DEF Findable
  <2>7. freeing'[c] = {} /\ \A d \in Contexts \ {c} : freeing'[d] = freeing[d]
    BY <1>1, <2>1
  <2>8. \A d \in lowering' : \A f \in freeing'[d] : WordOf(f) < _lastBlock
    BY <2>1, <2>2, <2>7 DEF HintFollows, LoweringInFree
  <2>9. Blocks(At(e.at, freed')) \cap busy' = {}
    BY <2>1, <2>5
  <2> QED  BY <2>1, <2>2, <2>3, <2>4, <2>5, <2>6, <2>8, <2>9
           DEF FreedPlace, WordOf, Findable
<1>7. ASSUME NEW c \in Contexts, NEW n \in Lengths, Alloc(c, n) PROVE FreedPlace'
  BY <1>7 DEF Alloc
<1>8. ASSUME NEW c \in Contexts, NEW n \in Lengths, AllocFails(c, n) PROVE FreedPlace'
  BY <1>3, <1>8 DEF AllocFails, vars
<1>9. ASSUME NEW c \in Contexts, NEW e \in live, FreeRefused(c, e) PROVE FreedPlace'
  BY <1>3, <1>9 DEF FreeRefused
<1>10. CASE FreeAll
  BY <1>10 DEF FreeAll
<1>11. CASE UNCHANGED vars
  BY <1>3, <1>11 DEF vars
<1> QED  BY <1>4, <1>5, <1>6, <1>7, <1>8, <1>9, <1>10, <1>11 DEF Next

(* After a Free that no other call raced with, and until the next Alloc, a *)
(* region of the same length is found, for every map, width and region.    *)
THEOREM FreedRegionsAreFound == Spec => []FreedIsFound
<1>1. BitMapInv /\ FreedInv /\ [Next]_vars => FreedInv'
  BY NextPlaced, NextHint, NextFreedPlace DEF FreedInv
<1>2. BitMapInv /\ FreedInv => FreedIsFound
  <2> SUFFICES ASSUME BitMapInv, FreedInv, freed # 0
               PROVE  FittingWords(freed) # {}
    BY DEF FreedIsFound
  <2>1. freed \in Lengths
    BY DEF FreedInv, FreedPlace
  <2>2. PICK s \in Bits : /\ Findable(At(s, freed))
                          /\ Blocks(At(s, freed)) \cap busy = {}
                          /\ _lastBlock <= WordOf(At(s, freed))
    BY DEF FreedInv, FreedPlace
  <2>3. _lastBlock <= s \div W
    BY <2>2 DEF WordOf, At
  <2> QED  BY <2>1, <2>2, <2>3, FindableIsFound DEF BitMapInv
<1> QED  BY <1>1, <1>2, InitFreed, BitMapInvariant, PTL DEF Spec
=============================================================================
