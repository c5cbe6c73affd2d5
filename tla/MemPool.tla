------------------------------- MODULE MemPool -------------------------------
(***************************************************************************)
(* MemPool<BlockSize, NBlocks, MapT, Atomic>: blocks of one size and a map *)
(* with one bit for each.  Alloc looks for a clear bit with plain fetches  *)
(* of one word after the other and sets it with a compare-and-exchange,    *)
(* which may also fail because an interrupt came in between.  Contexts are *)
(* the main program, 0, and interrupt levels: a higher one runs to its end *)
(* before a lower one goes on, at any point of Alloc.                      *)
(***************************************************************************)
EXTENDS Naturals

CONSTANTS W,          \* bits of MapT
          NBlocks,    \* blocks of the pool
          Contexts

ASSUME MemPoolAssumption ==
    W \in Nat \ {0} /\ NBlocks \in Nat \ {0} /\ Contexts \subseteq Nat

MapSize == NBlocks \div W + 1
Block == 0 .. NBlocks - 1
Word(i) == i * W .. i * W + W - 1

VARIABLES
    map,     \* the bits set in _map
    call,    \* Alloc of each context: where it stands, i, and mapElem
    live,    \* the blocks handed out
    inUse,   \* history: how often, less the times one was given back
    excuse   \* history: contexts in whose Alloc the pool was full or a Free ran

vars == <<map, call, live, inUse, excuse>>

Idle == [pc |-> "idle", i |-> 0, elem |-> {}]
Calling == {c \in Contexts : call[c].pc # "idle"}
Running(c) == \A d \in Calling : d <= c

Init ==
    /\ map = {} /\ live = {} /\ inUse = 0 /\ excuse = {}
    /\ call = [c \in Contexts |-> Idle]

\* The lowest clear bit of a fetched word, as a set that a full word leaves empty.
FreeBit(i, elem) ==
    {b \in Word(i) \ elem : \A a \in Word(i) \ elem : b <= a}

AllocBegin(c) ==
    /\ Running(c) /\ c \notin Calling
    /\ call' = [call EXCEPT ![c].pc = "scan"]
    /\ excuse' = IF Block \subseteq live THEN excuse \cup {c} ELSE excuse \ {c}
    /\ UNCHANGED <<map, live, inUse>>

\* The word is full: the scan goes on with the next one.
NextWord(c) ==
    /\ Running(c) /\ call[c].pc = "scan" /\ call[c].i < MapSize
    /\ Word(call[c].i) \subseteq map
    /\ call' = [call EXCEPT ![c].i = @ + 1]
    /\ UNCHANGED <<map, live, inUse, excuse>>

Fetch(c) ==
    /\ Running(c) /\ call[c].pc = "scan" /\ call[c].i < MapSize
    /\ \E b \in FreeBit(call[c].i, map) : b < NBlocks
    /\ call' = [call EXCEPT ![c].pc = "exchange",
                            ![c].elem = map \cap Word(call[c].i)]
    /\ UNCHANGED <<map, live, inUse, excuse>>

\* Mutant: index + 1 >= NBlocks, so the last block is never handed out.
AllocFailsEarly(c) ==
    /\ Running(c) /\ call[c].pc = "scan"
    /\ call[c].i < MapSize => \E b \in FreeBit(call[c].i, map) : b + 1 >= NBlocks
    /\ call' = [call EXCEPT ![c] = Idle]
    /\ UNCHANGED <<map, live, inUse, excuse>>

\* Alloc returns 0 behind the last word, or when the bit found is no block's.
AllocFails(c) ==
    /\ Running(c) /\ call[c].pc = "scan"
    /\ call[c].i < MapSize => \E b \in FreeBit(call[c].i, map) : b >= NBlocks
    /\ call' = [call EXCEPT ![c] = Idle]
    /\ UNCHANGED <<map, live, inUse, excuse>>

\* Mutant: the word is stored whether or not it still is what was fetched.
ExchangeUnchecked(c) ==
    /\ Running(c) /\ call[c].pc = "exchange"
    /\ \E b \in FreeBit(call[c].i, call[c].elem) :
           map' = map \cup {b} /\ live' = live \cup {b} /\ inUse' = inUse + 1
    /\ call' = [call EXCEPT ![c] = Idle]
    /\ excuse' = IF Block \subseteq live' THEN Contexts ELSE excuse

\* The word is compared by value: it may have changed and changed back.
Exchange(c) ==
    /\ Running(c) /\ call[c].pc = "exchange"
    /\ map \cap Word(call[c].i) = call[c].elem
    /\ \E b \in FreeBit(call[c].i, call[c].elem) :
           map' = map \cup {b} /\ live' = live \cup {b} /\ inUse' = inUse + 1
    /\ call' = [call EXCEPT ![c] = Idle]
    /\ excuse' = IF Block \subseteq live' THEN Contexts ELSE excuse

\* The word is fetched again; i is not reset.
ExchangeFails(c) ==
    /\ Running(c) /\ call[c].pc = "exchange"
    /\ call' = [call EXCEPT ![c].pc = "scan"]
    /\ UNCHANGED <<map, live, inUse, excuse>>

\* AndAndFetch clears the bit in one step.
Free(c, b) ==
    /\ Running(c) /\ c \notin Calling
    /\ map' = map \ {b} /\ live' = live \ {b} /\ inUse' = inUse - 1
    /\ excuse' = Contexts
    /\ UNCHANGED call

\* FreeAll writes word by word, so nobody may be inside a call.
FreeAll ==
    /\ Calling = {}
    /\ map' = {} /\ live' = {} /\ inUse' = 0
    /\ UNCHANGED <<call, excuse>>

Next ==
    \/ \E c \in Contexts :
           \/ AllocBegin(c) \/ NextWord(c) \/ Fetch(c) \/ AllocFails(c)
           \/ Exchange(c) \/ ExchangeFails(c)
           \/ \E b \in live : Free(c, b)
    \/ FreeAll

Spec == Init /\ [][Next]_vars

-----------------------------------------------------------------------------
\* Callers see an allocator of single blocks: a block handed out is nobody
\* else's until it is given back, although the exchange compares values and not
\* histories (the possible ABA problem that a comment in Alloc names).
Pool == INSTANCE Heap WITH
            Lengths <- {1}, live <- {[at |-> b, len |-> 1] : b \in live}
ImplementsHeap == Pool!HeapSpec

\* Alloc returns 0 only if the pool was full at some moment of the call or a Free
\* ran during it: a free block alone is not enough, since a lower level may pass
\* a full word that is freed behind it and meet a word that was filled before it.
NullMeansFull ==
    [][\A c \in Contexts : AllocFails(c) => c \in excuse]_vars
=============================================================================
