-------------------------------- MODULE Heap --------------------------------
(***************************************************************************)
(* What operator new and operator delete promise their callers: a region   *)
(* handed out overlaps no other region in use, and stays in use until its  *)
(* owner gives it back.                                                    *)
(***************************************************************************)
EXTENDS Naturals

CONSTANT Lengths     \* region lengths that are asked for, in blocks

VARIABLES
    live,       \* the regions in use
    inUse       \* how many were handed out and not given back

Region == [at : Nat, len : Lengths]
Blocks(e) == e.at .. e.at + e.len - 1

HeapInit == live = {} /\ inUse = 0

New(e) ==
    /\ \A f \in live : Blocks(e) \cap Blocks(f) = {}
    /\ live' = live \cup {e} /\ inUse' = inUse + 1

Delete(e) ==
    /\ e \in live
    /\ live' = live \ {e} /\ inUse' = inUse - 1

DeleteAll == live' = {} /\ inUse' = 0

HeapNext ==
    \/ \E e \in live' \ live : e \in Region /\ New(e)
    \/ \E e \in live : Delete(e)
    \/ DeleteAll

HeapSpec == HeapInit /\ [][HeapNext]_<<live, inUse>>
=============================================================================
