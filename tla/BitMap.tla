------------------------------- MODULE BitMap -------------------------------
(***************************************************************************)
(* BitMap, the allocator below the library's operator new: one bit per     *)
(* block of the heap, in words of W bits, and _lastBlock, the word where   *)
(* the next search starts.  Alloc runs with interrupts disabled; Free      *)
(* lowers _lastBlock before it disables them.  The main program is context *)
(* 0 and an interrupt handler of a higher context runs to its end before   *)
(* the interrupted one goes on.                                            *)
(***************************************************************************)
EXTENDS Integers, FiniteSets

CONSTANTS W,          \* BitsInWord
          MapBits,    \* _mapSizeBits
          Lengths,    \* block counts that are asked for
          Contexts    \* the main program, 0, and the interrupt levels above it

ASSUME BitMapAssumption ==
    /\ W \in Nat \ {0} /\ MapBits \in Nat \ {0}
    /\ Lengths \subseteq Nat \ {0}
    /\ Contexts \subseteq Nat

Elements == (MapBits + W - 1) \div W
Bits == 0 .. Elements * W - 1
WordBits(w) == w * W .. w * W + W - 1

VARIABLES
    busy,       \* the bits set in _map
    _lastBlock,
    live,       \* the regions in use
    inUse,      \* history: how many were handed out and not given back
    freeing,    \* the regions each context is inside Free with
    lowering,   \* the contexts inside Free that are about to lower _lastBlock
    raced,      \* history: another call came between two accesses to _lastBlock
    freed       \* history: length of the region freed last unless raced, else 0

vars == <<busy, _lastBlock, live, inUse, freeing, lowering, raced, freed>>

INSTANCE Heap

Init ==
    /\ busy = {} /\ _lastBlock = 0
    /\ live = {} /\ inUse = 0 /\ freeing = [c \in Contexts |-> {}]
    /\ lowering = {} /\ raced = FALSE /\ freed = 0

TypeOK ==
    /\ busy \subseteq Bits
    /\ _lastBlock \in 0 .. Elements - 1
    /\ live \subseteq Region /\ inUse = Cardinality(live)
    /\ freeing \in [Contexts -> SUBSET Region]
    /\ lowering \subseteq Contexts
    /\ raced \in BOOLEAN /\ freed \in Nat

\* No handler of a higher level is inside a call.
Running(c) == \A d \in Contexts : d > c => freeing[d] = {}

\* Mutant: the words behind the first are not looked at.
FreeFirstWord(e) ==
    Blocks(e) \subseteq Bits /\ WordBits(e.at \div W) \cap Blocks(e) \cap busy = {}

Free(e) == Blocks(e) \subseteq Bits \ busy
At(s, n) == [at |-> s, len |-> n]

\* CountLeadingZeros of word w; the free run at its end starts at Tail(w).
LeadingZeros(w) ==
    CHOOSE z \in 0 .. W : /\ \A b \in (w + 1) * W - z .. (w + 1) * W - 1 : b \notin busy
                          /\ z < W => (w + 1) * W - z - 1 \in busy
Tail(w) == (w + 1) * W - LeadingZeros(w)

\* Fewer blocks than a word: the lowest place within the word, its last place
\* excepted; else at the end of the word, if there is a next word.
\* Otherwise only the end of the word and the words behind it.
Places(w, n) ==
    IF WordBits(w) \subseteq busy THEN {}
    ELSE LET inside == {s \in w * W .. w * W + W - n - 1 : Free(At(s, n))}
             over   == {s \in Bits : s = Tail(w) /\ Free(At(s, n))}
         IN  IF n >= W THEN over
             ELSE IF inside # {} \/ LeadingZeros(w) = 0 \/ w + 1 = Elements
                  THEN inside ELSE over

FittingWords(n) == {w \in _lastBlock .. Elements - 1 : Places(w, n) # {}}
Least(S) == CHOOSE x \in S : \A y \in S : x <= y

\* The word a search ends with: for a short region that crosses into the next
\* word, that word.
NewHint(w, e) ==
    IF e.len < W /\ e.at + e.len >= (w + 1) * W THEN w + 1 ELSE w

\* A long region that starts on the next word shifts a mask by the width of the
\* word: depending on the machine that marks nothing or the whole word.
Marked(w, n) ==
    IF n >= W /\ LeadingZeros(w) = 0 THEN {{}, WordBits(w)} ELSE {{}}

Alloc(c, n) ==
    /\ Running(c) /\ freeing[c] = {}
    /\ FittingWords(n) # {}
    /\ LET w == Least(FittingWords(n))
           e == At(Least(Places(w, n)), n)
       IN  \E extra \in Marked(w, n) :
               /\ busy' = busy \cup Blocks(e) \cup extra
               /\ _lastBlock' = NewHint(w, e)
               /\ live' = live \cup {e} /\ inUse' = inUse + 1
    /\ raced' = \E d \in Contexts : freeing[d] # {}
    /\ freed' = 0
    /\ UNCHANGED <<freeing, lowering>>

AllocFails(c, n) ==
    /\ Running(c) /\ freeing[c] = {}
    /\ FittingWords(n) = {}
    /\ UNCHANGED vars

\* Free returns at once when the region ends behind the map.
FreeRefused(c, e) ==
    /\ Running(c) /\ freeing[c] = {}
    /\ e.at + e.len > MapBits
    /\ live' = live \ {e} /\ inUse' = inUse - 1
    /\ UNCHANGED <<busy, _lastBlock, freeing, lowering, raced, freed>>

\* Mutant: _lastBlock is not lowered.
FreeBeginKeepsHint(c, e) ==
    /\ Running(c) /\ freeing[c] = {}
    /\ e.at + e.len <= MapBits
    /\ live' = live \ {e} /\ inUse' = inUse - 1
    /\ freeing' = [freeing EXCEPT ![c] = {e}]
    /\ raced' = (raced \/ lowering # {})
    /\ UNCHANGED <<busy, _lastBlock, lowering, freed>>

\* Free compares _lastBlock and stores into it with interrupts enabled.
FreeBegin(c, e) ==
    /\ Running(c) /\ freeing[c] = {}
    /\ e.at + e.len <= MapBits
    /\ live' = live \ {e} /\ inUse' = inUse - 1
    /\ freeing' = [freeing EXCEPT ![c] = {e}]
    /\ lowering' = IF _lastBlock > e.at \div W THEN lowering \cup {c} ELSE lowering
    /\ raced' = (raced \/ lowering # {})
    /\ UNCHANGED <<busy, _lastBlock, freed>>

FreeLowersHint(c, e) ==
    /\ Running(c) /\ e \in freeing[c] /\ c \in lowering
    /\ _lastBlock' = e.at \div W
    /\ lowering' = lowering \ {c}
    /\ UNCHANGED <<busy, live, inUse, freeing, raced, freed>>

\* Mutant: only the bits in the region's first word are cleared.
FreeClearsFirstWord(c, e) ==
    /\ Running(c) /\ e \in freeing[c] /\ c \notin lowering
    /\ busy' = busy \ (Blocks(e) \cap WordBits(e.at \div W))
    /\ freeing' = [freeing EXCEPT ![c] = {}]
    /\ freed' = IF raced THEN 0 ELSE e.len
    /\ raced' = (raced /\ \E d \in Contexts \ {c} : freeing[d] # {})
    /\ UNCHANGED <<_lastBlock, live, inUse, lowering>>

\* Mutant: one bit too many is cleared.
FreeClearsOneMore(c, e) ==
    /\ Running(c) /\ e \in freeing[c] /\ c \notin lowering
    /\ busy' = busy \ (e.at .. e.at + e.len)
    /\ freeing' = [freeing EXCEPT ![c] = {}]
    /\ freed' = IF raced THEN 0 ELSE e.len
    /\ raced' = (raced /\ \E d \in Contexts \ {c} : freeing[d] # {})
    /\ UNCHANGED <<_lastBlock, live, inUse, lowering>>

FreeClears(c, e) ==
    /\ Running(c) /\ e \in freeing[c] /\ c \notin lowering
    /\ busy' = busy \ Blocks(e)
    /\ freeing' = [freeing EXCEPT ![c] = {}]
    /\ freed' = IF raced THEN 0 ELSE e.len
    /\ raced' = (raced /\ \E d \in Contexts \ {c} : freeing[d] # {})
    /\ UNCHANGED <<_lastBlock, live, inUse, lowering>>

\* FreeAll clears the map and leaves _lastBlock; nobody may be inside a call.
FreeAll ==
    /\ \A c \in Contexts : freeing[c] = {}
    /\ busy' = {} /\ live' = {} /\ inUse' = 0 /\ freed' = 0
    /\ UNCHANGED <<_lastBlock, freeing, lowering, raced>>

Next ==
    \/ \E c \in Contexts, n \in Lengths : Alloc(c, n) \/ AllocFails(c, n)
    \/ \E c \in Contexts : \E e \in live : FreeRefused(c, e) \/ FreeBegin(c, e)
    \/ \E c \in Contexts : \E e \in freeing[c] : FreeLowersHint(c, e) \/ FreeClears(c, e)
    \/ FreeAll

Spec == Init /\ [][Next]_vars

-----------------------------------------------------------------------------
Owned == live \cup UNION {freeing[c] : c \in Contexts}
Held == UNION {Blocks(e) : e \in Owned}
Lost == busy \ Held

\* Whatever interrupts whom, the regions in use or still being freed are disjoint
\* and every one of their bits is set.
HeldIsBusy ==
    /\ Held \subseteq busy
    /\ \A e, f \in Owned : e = f \/ Blocks(e) \cap Blocks(f) = {}

\* A block stays marked without an owner only for two reasons: its region ended
\* behind the map, so Free refused it, or the shift by a whole word marked the
\* word before a long region.
LostOnlyTwoWays ==
    [][\A b \in Lost' \ Lost :
           \/ \E e \in live \ live' : b \in Blocks(e) /\ e.at + e.len > MapBits
           \/ \E e \in live' \ live : /\ e.len >= W /\ e.at % W = 0
                                     /\ b \in WordBits(e.at \div W - 1)]_vars

\* After a Free that no other call raced with, and until the next Alloc, a region
\* of the same length is found again, wherever _lastBlock was, whatever is in use.
FreedIsFound == freed # 0 => FittingWords(freed) # {}
=============================================================================
