-------------------------- MODULE DispatcherProofs ---------------------------
(***************************************************************************)
(* Machine-checked proofs about modules TaskQueue and Dispatcher, for every *)
(* capacity of the queue, every number of interrupt levels, timer slots and *)
(* tasks and every width of the tick counter: first the queue, then the    *)
(* dispatcher with timers, which implements it, then the ids of timers     *)
(* (HistoryInv), and at the end that the queue behaves as a TaskFifo.      *)
(***************************************************************************)
EXTENDS Dispatcher, ModuloFacts, SequenceTheorems, TLAPS

USE TasksLenAssumption, LevelsAssumption, MaxPostsAssumption

\* Incrementing an index with the wrap of SetTask and Poll stays inside the
\* array.
LEMMA AdvanceType ==
  ASSUME NEW s \in Slots
  PROVE  Advance(s) \in Slots
BY DEF Advance, Slots

\* The distance from _last to _first + _count stays a multiple of the
\* capacity when SetTask stores an item and when Poll takes one.
LEMMA RingStep ==
  ASSUME NEW f \in Slots, NEW l \in Slots, NEW n \in Int,
         (f + n - l) % TasksLen = 0
  PROVE  /\ (f + (n + 1) - Advance(l)) % TasksLen = 0
         /\ (Advance(f) + (n - 1) - l) % TasksLen = 0
<1> DEFINE a == f + n - l
<1>1. a \in Int /\ f \in Int /\ l \in Int
  BY DEF Slots
<1>2. (a + TasksLen) % TasksLen = 0 /\ (a - TasksLen) % TasksLen = 0
  BY <1>1, ModShift
<1>3. \/ f + (n + 1) - Advance(l) = a
      \/ f + (n + 1) - Advance(l) = a + TasksLen
  BY <1>1 DEF Advance, Slots
<1>4. \/ Advance(f) + (n - 1) - l = a
      \/ Advance(f) + (n - 1) - l = a - TasksLen
  BY <1>1 DEF Advance, Slots
<1>5. QED BY <1>2, <1>3, <1>4

\* The initial state of a constructed Dispatcher satisfies the invariant.
LEMMA InitIInv == Init => IInv
<1> SUFFICES ASSUME Init PROVE IInv
  OBVIOUS
<1>1. Main \in Contexts /\ 0 \in Slots
  BY DEF Contexts, Main, Slots
<1>2. TypeOK
  BY <1>1 DEF Init, TypeOK, Main
<1>3. RingCoherent
  <2>1. (TasksLen * 0 + 0) % TasksLen = 0
    BY RemainderOf
  <2>2. QED BY <2>1 DEF Init, RingCoherent
<1>4. OverrunBound /\ PollHolds /\ CountsBalance /\ FifoUnlessOverrun
  BY <1>1 DEF Init, OverrunBound, CountBound, PollHolds, CountsBalance,
              FifoUnlessOverrun, InFlight, Contexts
<1>5. RefBehindFirst /\ OrderUnlessOverrun
  BY <1>1 DEF Init, RefBehindFirst, OrderUnlessOverrun, InFlight, SlotAt
<1>6. QED BY <1>2, <1>3, <1>4, <1>5 DEF IInv

\* SetTask passing its test of _count preserves the invariant.
LEMMA SetTaskBeginIInv ==
  ASSUME IInv, NEW c \in Contexts, SetTaskBegin(c)
  PROVE  IInv'
<1> USE DEF IInv
<1>1. /\ UNCHANGED queueVars
      /\ pc' = [pc EXCEPT ![c] = "setTask"]
      /\ count < TasksLen
      /\ pc[c] = "idle"
      /\ \A d \in Contexts : d > c => pc[d] = "idle"
  BY DEF SetTaskBegin, SetTaskTest, Goto, Running
<1>2. Main \in Contexts
  BY DEF Contexts, Main
<1>3. TypeOK'
  BY <1>1, <1>2 DEF TypeOK, queueVars
<1>4. RingCoherent'
  BY <1>1 DEF RingCoherent, queueVars
<1>5. OverrunBound'
  BY <1>1 DEF OverrunBound, CountBound, TypeOK, queueVars, Contexts
<1>6. PollHolds' /\ CountsBalance'
  BY <1>1, <1>2 DEF PollHolds, CountsBalance, InFlight, TypeOK, queueVars
<1>7. FifoUnlessOverrun'
  BY <1>1 DEF FifoUnlessOverrun, queueVars
<1>8. RefBehindFirst' /\ OrderUnlessOverrun'
  BY <1>1, <1>2 DEF RefBehindFirst, OrderUnlessOverrun, InFlight, SlotAt,
                    Advance, TypeOK, queueVars
<1>9. QED BY <1>3, <1>4, <1>5, <1>6, <1>7, <1>8

\* The critical section of SetTask preserves the invariant.
LEMMA SetTaskEndIInv ==
  ASSUME IInv, NEW c \in Contexts, SetTaskEnd(c)
  PROVE  IInv'
<1> USE DEF IInv
<1>1. /\ tasks' = [tasks EXCEPT ![last] = posted + 1]
      /\ last' = Advance(last)
      /\ count' = count + 1
      /\ posted' = posted + 1
      /\ overrun' = (overrun \/ count + InFlight >= TasksLen)
      /\ UNCHANGED <<first, ref, invoked>>
      /\ pc' = [pc EXCEPT ![c] = "idle"]
      /\ pc[c] = "setTask"
      /\ \A d \in Contexts : d > c => pc[d] = "idle"
  BY DEF SetTaskEnd, SetTaskStore, Goto, Running
<1>2. Main \in Contexts
  BY DEF Contexts, Main
<1>3. TypeOK'
  <2>1. last' \in Slots
    BY <1>1, AdvanceType DEF TypeOK
  <2>2. overrun' \in BOOLEAN
    BY <1>1
  <2>3. QED BY <1>1, <1>2, <2>1, <2>2 DEF TypeOK
<1>4. RingCoherent'
  BY <1>1, RingStep DEF RingCoherent, TypeOK
<1>5. OverrunBound'
  <2>1. count <= TasksLen - 1 + Levels - c
    BY <1>1 DEF OverrunBound
  <2>2. CountBound'
    BY <1>1, <2>1 DEF CountBound, TypeOK, Contexts
  <2>3. ASSUME NEW d \in Contexts, pc'[d] = "setTask"
        PROVE  count' <= TasksLen - 1 + Levels - d
    <3>1. d < c
      BY <1>1, <2>3 DEF TypeOK, Contexts
    <3>2. count' = count + 1 /\ count \in Nat /\ c \in Nat /\ d \in Nat
      BY <1>1 DEF TypeOK, Contexts
    <3>3. QED BY <2>1, <3>1, <3>2
  <2>4. QED BY <2>2, <2>3 DEF OverrunBound
<1>6. PollHolds' /\ CountsBalance'
  <2>1. /\ (pc'[Main] = "take") <=> (pc[Main] = "take")
        /\ InFlight' = InFlight
    BY <1>1, <1>2 DEF InFlight, TypeOK
  <2>2. PollHolds'
    BY <1>1, <2>1 DEF PollHolds, TypeOK
  <2>3. Len(invoked) \in Nat /\ count \in Nat /\ InFlight \in Nat
    BY DEF InFlight, TypeOK
  <2>4. /\ Len(invoked') = Len(invoked) /\ count' = count + 1
        /\ posted' = posted + 1 /\ Len(invoked) + count + InFlight = posted
    BY <1>1 DEF CountsBalance
  <2>5. CountsBalance'
    BY <2>1, <2>3, <2>4 DEF CountsBalance
  <2> QED  BY <2>2, <2>5
<1>7. FifoUnlessOverrun'
  BY <1>1 DEF FifoUnlessOverrun
<1>8. RefBehindFirst' /\ InFlight' = InFlight
  BY <1>1, <1>2 DEF RefBehindFirst, InFlight, Advance, TypeOK
<1>9. OrderUnlessOverrun'
  <2> SUFFICES ASSUME ~overrun'
               PROVE  /\ count' + InFlight' <= TasksLen
                      /\ last' = SlotAt(count)'
                      /\ \A k \in 0..(count' - 1) :
                           tasks'[SlotAt(k)'] = posted' - count' + k + 1
                      /\ pc'[Main] = "invoke" => tasks'[ref'] = posted' - count'
    BY DEF OrderUnlessOverrun
  <2>1. ~overrun /\ count + InFlight < TasksLen /\ InFlight \in 0..1
    <3>1. ~overrun /\ ~(count + InFlight >= TasksLen)
      BY <1>1, Zenon
    <3>2. InFlight \in 0..1
      BY DEF InFlight
    <3>3. QED BY <3>1, <3>2 DEF TypeOK
  <2>2. last = SlotAt(count) /\ SlotAt(count + 1) = Advance(last)
    BY <2>1 DEF OrderUnlessOverrun, SlotAt, Advance, TypeOK, Slots
  <2>3. \A k : SlotAt(k)' = SlotAt(k)
    BY <1>1 DEF SlotAt
  <2>4. count' + InFlight' <= TasksLen /\ last' = SlotAt(count)'
    <3>1. count' + InFlight' <= TasksLen
      BY <1>1, <1>8, <2>1 DEF TypeOK
    <3>2. last' = SlotAt(count)'
      BY <1>1, <2>2 DEF SlotAt
    <3>3. QED BY <3>1, <3>2
  <2>5. ASSUME NEW k \in 0..(count' - 1)
        PROVE  tasks'[SlotAt(k)] = posted' - count' + k + 1
    <3>1. CASE k = count
      BY <1>1, <2>2, <3>1 DEF TypeOK
    <3>2. CASE k \in 0..(count - 1)
      <4>1. SlotAt(k) # last /\ SlotAt(k) \in Slots
        BY <2>1, <2>2, <3>2 DEF SlotAt, TypeOK, Slots
      <4>2. tasks'[SlotAt(k)] = tasks[SlotAt(k)]
        BY <1>1, <4>1 DEF TypeOK
      <4>3. tasks[SlotAt(k)] = posted - count + k + 1
        BY <2>1, <3>2 DEF OrderUnlessOverrun
      <4>4. QED BY <1>1, <4>2, <4>3 DEF TypeOK
    <3>3. QED BY <1>1, <3>1, <3>2 DEF TypeOK
  <2>6. ASSUME pc'[Main] = "invoke"
        PROVE  tasks'[ref] = posted' - count'
    <3>1. pc[Main] = "invoke" /\ InFlight = 1
      BY <1>1, <1>2, <2>6 DEF InFlight, TypeOK
    <3>2. first = Advance(ref) /\ tasks[ref] = posted - count
      BY <2>1, <3>1 DEF OrderUnlessOverrun, RefBehindFirst
    <3>3. ref # last
      BY <2>1, <2>2, <3>1, <3>2 DEF SlotAt, Advance, TypeOK, Slots
    <3>4. tasks'[ref] = tasks[ref]
      BY <1>1, <3>3 DEF TypeOK
    <3>5. QED BY <1>1, <3>2, <3>4 DEF TypeOK
  <2>7. QED BY <1>1, <2>3, <2>4, <2>5, <2>6
<1>10. QED BY <1>3, <1>4, <1>5, <1>6, <1>7, <1>8, <1>9

\* Poll's test of _count preserves the invariant.
LEMMA PollTestIInv == IInv /\ PollTest => IInv'
<1> SUFFICES ASSUME IInv, PollTest PROVE IInv'
  OBVIOUS
<1> USE DEF IInv
<1>1. /\ pc[Main] = "idle"
      /\ pc' = [pc EXCEPT ![Main] = "take"]
      /\ count > 0
      /\ ref' = first
      /\ UNCHANGED <<count, first, last, tasks, posted, invoked, overrun>>
  BY DEF PollTest, Goto
<1>2. Main \in Contexts
  BY DEF Contexts, Main
<1>3. TypeOK'
  BY <1>1, <1>2 DEF TypeOK
<1>4. RingCoherent' /\ FifoUnlessOverrun'
  BY <1>1 DEF RingCoherent, FifoUnlessOverrun
<1>5. OverrunBound'
  BY <1>1, <1>2 DEF OverrunBound, CountBound, TypeOK
<1>6. PollHolds' /\ CountsBalance'
  BY <1>1, <1>2 DEF PollHolds, CountsBalance, InFlight, TypeOK
<1>7. RefBehindFirst' /\ OrderUnlessOverrun'
  BY <1>1, <1>2 DEF RefBehindFirst, OrderUnlessOverrun, InFlight, SlotAt, TypeOK
<1>8. QED BY <1>3, <1>4, <1>5, <1>6, <1>7

\* The ATOMIC block of Poll preserves the invariant.
LEMMA PollTakeIInv == IInv /\ PollTake => IInv'
<1> SUFFICES ASSUME IInv, PollTake PROVE IInv'
  OBVIOUS
<1> USE DEF IInv
<1>1. /\ pc[Main] = "take"
      /\ pc' = [pc EXCEPT ![Main] = "invoke"]
      /\ count' = count - 1
      /\ first' = Advance(first)
      /\ UNCHANGED <<last, tasks, ref, posted, invoked, overrun>>
  BY DEF PollTake, Goto
<1>2. Main \in Contexts
  BY DEF Contexts, Main
<1>3. count > 0 /\ ref = first
  BY <1>1 DEF PollHolds
<1>4. TypeOK'
  <2>1. first' \in Slots
    BY <1>1, AdvanceType DEF TypeOK
  <2>2. QED BY <1>1, <1>2, <1>3, <2>1 DEF TypeOK
<1>5. RingCoherent'
  BY <1>1, RingStep DEF RingCoherent, TypeOK
<1>6. FifoUnlessOverrun'
  BY <1>1 DEF FifoUnlessOverrun
<1>7. OverrunBound'
  BY <1>1, <1>2 DEF OverrunBound, CountBound, TypeOK, Contexts
<1>8. PollHolds' /\ CountsBalance'
  BY <1>1, <1>2 DEF PollHolds, CountsBalance, InFlight, TypeOK
<1>9. RefBehindFirst' /\ InFlight = 0 /\ InFlight' = 1
  BY <1>1, <1>2, <1>3 DEF RefBehindFirst, InFlight, Advance, TypeOK
<1>10. OrderUnlessOverrun'
  <2> SUFFICES ASSUME ~overrun
               PROVE  /\ count' + InFlight' <= TasksLen
                      /\ last' = SlotAt(count)'
                      /\ \A k \in 0..(count' - 1) :
                           tasks'[SlotAt(k)'] = posted' - count' + k + 1
                      /\ tasks'[ref'] = posted' - count'
    BY <1>1 DEF OrderUnlessOverrun
  <2>1. /\ count <= TasksLen
        /\ last = SlotAt(count)
        /\ \A k \in 0..(count - 1) : tasks[SlotAt(k)] = posted - count + k + 1
    BY <1>9 DEF OrderUnlessOverrun, TypeOK
  <2>2. \A k \in 0..(count - 1) : SlotAt(k)' = SlotAt(k + 1)
    BY <1>1, <2>1 DEF SlotAt, Advance, TypeOK, Slots
  <2>3. last' = SlotAt(count)'
    BY <1>1, <1>3, <2>1 DEF SlotAt, Advance, TypeOK, Slots
  <2>4. ASSUME NEW k \in 0..(count' - 1)
        PROVE  tasks'[SlotAt(k)'] = posted' - count' + k + 1
    <3>1. k + 1 \in 0..(count - 1) /\ k \in 0..(count - 1)
      BY <1>1 DEF TypeOK
    <3>2. tasks[SlotAt(k + 1)] = posted - count + (k + 1) + 1
      BY <2>1, <3>1
    <3>3. QED BY <1>1, <2>2, <3>1, <3>2 DEF TypeOK
  <2>5. tasks'[ref'] = posted' - count'
    <3>1. tasks[SlotAt(0)] = posted - count + 0 + 1
      BY <1>3, <2>1 DEF TypeOK
    <3>2. SlotAt(0) = first
      BY DEF SlotAt, TypeOK, Slots
    <3>3. QED BY <1>1, <1>3, <3>1, <3>2 DEF TypeOK
  <2>6. count' + InFlight' <= TasksLen
    BY <1>1, <1>9, <2>1 DEF TypeOK
  <2>7. QED BY <2>3, <2>4, <2>5, <2>6
<1>11. QED BY <1>4, <1>5, <1>6, <1>7, <1>8, <1>9, <1>10

\* The invocation of the taken item preserves the invariant.
LEMMA PollInvokeIInv == IInv /\ PollInvoke => IInv'
<1> SUFFICES ASSUME IInv, PollInvoke PROVE IInv'
  OBVIOUS
<1> USE DEF IInv
<1>1. /\ pc[Main] = "invoke"
      /\ pc' = [pc EXCEPT ![Main] = "idle"]
      /\ invoked' = Append(invoked, tasks[ref])
      /\ UNCHANGED <<count, first, last, tasks, ref, posted, overrun>>
  BY DEF PollInvoke, Goto
<1>2. Main \in Contexts
  BY DEF Contexts, Main
<1>3. TypeOK'
  BY <1>1, <1>2 DEF TypeOK
<1>4. RingCoherent'
  BY <1>1 DEF RingCoherent
<1>5. OverrunBound'
  BY <1>1, <1>2 DEF OverrunBound, CountBound, TypeOK
<1>6. PollHolds' /\ CountsBalance'
  BY <1>1, <1>2 DEF PollHolds, CountsBalance, InFlight, TypeOK
<1>7. FifoUnlessOverrun'
  <2> SUFFICES ASSUME ~overrun, NEW k \in 1..Len(invoked')
               PROVE  invoked'[k] = k
    BY <1>1 DEF FifoUnlessOverrun
  <2>1. CASE k = Len(invoked) + 1
    <3>1. tasks[ref] = posted - count
      BY <1>1 DEF OrderUnlessOverrun
    <3>2. posted - count = Len(invoked) + 1
      BY <1>1 DEF CountsBalance, InFlight, TypeOK
    <3>3. QED BY <1>1, <2>1, <3>1, <3>2 DEF TypeOK
  <2>2. CASE k \in 1..Len(invoked)
    BY <1>1, <2>2 DEF FifoUnlessOverrun, TypeOK
  <2>3. QED BY <1>1, <2>1, <2>2 DEF TypeOK
<1>8. RefBehindFirst' /\ OrderUnlessOverrun'
  BY <1>1, <1>2 DEF RefBehindFirst, OrderUnlessOverrun, InFlight, SlotAt, TypeOK
<1>9. QED BY <1>3, <1>4, <1>5, <1>6, <1>7, <1>8

\* A step that leaves the variables alone preserves the invariant.
LEMMA StutterIInv == IInv /\ UNCHANGED vars => IInv'
BY DEF IInv, vars, queueVars, TypeOK, RingCoherent, OverrunBound, CountBound,
       PollHolds, CountsBalance, InFlight, RefBehindFirst, FifoUnlessOverrun,
       OrderUnlessOverrun, SlotAt, Advance

\* Every step of SetTask and Poll, in any context, preserves the invariant.
LEMMA NextIInv == IInv /\ [Next]_vars => IInv'
<1> SUFFICES ASSUME IInv, [Next]_vars PROVE IInv'
  OBVIOUS
<1>1. ASSUME NEW c \in Contexts, SetTaskBegin(c) PROVE IInv'
  BY <1>1, SetTaskBeginIInv
<1>2. ASSUME NEW c \in Contexts, SetTaskEnd(c) PROVE IInv'
  BY <1>2, SetTaskEndIInv
<1>3. CASE Poll
  <2>1. CASE PollEmpty
    BY <2>1, StutterIInv DEF PollEmpty
  <2>2. QED BY <1>3, <2>1, PollTestIInv, PollTakeIInv, PollInvokeIInv DEF Poll
<1>4. CASE UNCHANGED vars
  BY <1>4, StutterIInv
<1>5. QED BY <1>1, <1>2, <1>3, <1>4 DEF Next

\* The inductive invariant holds in every reachable state of the queue.
THEOREM QueueInvariant == Spec => []IInv
BY InitIInv, NextIInv, PTL DEF Spec

\* The variables of the queue keep their types and the three indices agree,
\* whatever the interrupt handlers do between SetTask's test and its update.
THEOREM RingAlwaysCoherent == Spec => [](TypeOK /\ RingCoherent)
<1>1. IInv => TypeOK /\ RingCoherent
  BY DEF IInv
<1>2. QED BY <1>1, QueueInvariant, PTL

\* SetTask's unprotected test overruns the queue by at most one task for each
\* interrupt level; without interrupt handlers it never overruns it.
THEOREM OverrunIsBounded == Spec => []CountBound
<1>1. IInv => CountBound
  BY DEF IInv, OverrunBound
<1>2. QED BY <1>1, QueueInvariant, PTL

\* Until a task is stored over for the first time, tasks run exactly once and
\* in the order of acceptance.
THEOREM FifoOrder == Spec => []FifoUnlessOverrun
<1>1. IInv => FifoUnlessOverrun
  BY DEF IInv
<1>2. QED BY <1>1, QueueInvariant, PTL

-----------------------------------------------------------------------------
(* What becomes of a task that SetTask accepted                            *)

\* A multiple of the capacity that is less than the capacity is zero.
LEMMA SmallMultiple ==
  ASSUME NEW d \in Int, d % TasksLen = 0, -TasksLen < d, d < TasksLen
  PROVE  d = 0
<1> DEFINE q == d \div TasksLen
<1>1. q \in Int /\ d = TasksLen * q + 0
  BY DivMod
<1> HIDE DEF q
<1>2. ASSUME q >= 1 PROVE FALSE
  <2>1. TasksLen * q >= TasksLen * 1
    BY <1>1, <1>2
  <2>2. QED BY <1>1, <2>1
<1>3. ASSUME q <= -1 PROVE FALSE
  <2>1. TasksLen * q <= TasksLen * (-1)
    BY <1>1, <1>3
  <2>2. QED BY <1>1, <2>1
<1>4. q = 0
  BY <1>1, <1>2, <1>3
<1>5. QED BY <1>1, <1>4

\* Two multiples of the capacity differ by one.
LEMMA DifferenceOfMultiples ==
  ASSUME NEW a \in Int, NEW b \in Int, a % TasksLen = 0, b % TasksLen = 0
  PROVE  (a - b) % TasksLen = 0
<1> DEFINE p == a \div TasksLen
           q == b \div TasksLen
<1>1. p \in Int /\ q \in Int /\ a = TasksLen * p + 0 /\ b = TasksLen * q + 0
  BY DivMod
<1> HIDE DEF p, q
<1>2. p - q \in Int /\ a - b = TasksLen * (p - q) + 0 /\ 0 \in 0..(TasksLen - 1)
  BY <1>1
<1>3. QED BY <1>2, RemainderOf

\* A step keeps task n, or n was lost already, or n is stored over.
KeepsOrStoresOver(n) ==
  \/ n \in Ran' \union Live'
  \/ n <= posted /\ n \notin Ran \union Live
  \/ /\ posted' = posted + 1
     /\ n = tasks[last] /\ count + InFlight >= TasksLen

\* A step that accepts nothing, writes no slot and keeps every slot in use until
\* its task has run loses no task.
LEMMA KeepsSlots ==
  ASSUME posted' = posted, NEW n \in 1..posted',
         posted \in Nat, tasks' = tasks, Ran \subseteq Ran',
         \A s \in LiveSlots : s \in LiveSlots' \/ tasks[s] \in Ran'
  PROVE  KeepsOrStoresOver(n)
BY DEF KeepsOrStoresOver, Live

\* SetTask stores over the oldest task only when all slots are in use.
LEMMA StoreKeeps ==
  ASSUME IInv, NEW c \in Contexts, SetTaskEnd(c), NEW n \in 1..posted'
  PROVE  KeepsOrStoresOver(n)
<1> USE DEF IInv
<1>1. /\ tasks' = [tasks EXCEPT ![last] = posted + 1]
      /\ count' = count + 1
      /\ posted' = posted + 1
      /\ UNCHANGED <<first, ref, invoked>>
      /\ pc' = [pc EXCEPT ![c] = "idle"]
      /\ pc[c] = "setTask"
  BY DEF SetTaskEnd, SetTaskStore, Goto
<1>2. Main \in Contexts
  BY DEF Contexts, Main
<1>3. /\ first \in Slots /\ last \in Slots /\ ref \in Slots
      /\ count \in Nat /\ posted \in Nat /\ tasks \in [Slots -> Nat]
      /\ InFlight \in 0..1
  BY DEF TypeOK, InFlight
<1>4. InFlight' = InFlight
  BY <1>1, <1>2 DEF InFlight, TypeOK
<1>5. LiveSlots \subseteq LiveSlots'
  <2>1. 0..(count - 1) \subseteq 0..(count' - 1)
    BY <1>1, <1>3
  <2>2. QED BY <1>1, <1>4, <2>1 DEF LiveSlots
<1>6. CASE n = posted + 1
  <2>1. count \in 0..(count' - 1) /\ (first' + count - last) % TasksLen = 0
    BY <1>1, <1>3 DEF RingCoherent
  <2>2. last \in LiveSlots'
    BY <1>3, <2>1 DEF LiveSlots
  <2>3. tasks'[last] = n
    BY <1>1, <1>3, <1>6
  <2>4. QED BY <2>2, <2>3 DEF KeepsOrStoresOver, Live
<1>7. CASE n \in Ran
  BY <1>1, <1>7 DEF KeepsOrStoresOver, Ran
<1>8. ASSUME NEW s \in LiveSlots, n = tasks[s] PROVE KeepsOrStoresOver(n)
  <2>1. s \in Slots
    BY <1>3 DEF LiveSlots
  <2>2. CASE s # last
    <3>1. tasks'[s] = n
      BY <1>1, <1>3, <1>8, <2>1, <2>2
    <3>2. QED BY <1>5, <3>1 DEF KeepsOrStoresOver, Live
  <2>3. CASE s = last
    <3>1. (first + count - last) % TasksLen = 0 /\ first + count - last \in Int
      BY <1>3 DEF RingCoherent, Slots
    <3>2. ASSUME InFlight = 1, s = ref PROVE count + InFlight >= TasksLen
      <4>1. first = Advance(last)
        BY <2>3, <3>2 DEF RefBehindFirst, InFlight
      <4>2. (count + 1) % TasksLen = 0
        <5>1. CASE first = last + 1
          BY <1>3, <3>1, <5>1 DEF Slots
        <5>2. CASE first = last + 1 - TasksLen
          <6>1. first + count - last = (count + 1) - TasksLen /\ count + 1 \in Int
            BY <1>3, <5>2 DEF Slots
          <6>2. QED BY <3>1, <6>1, ModShift
        <5>3. QED BY <1>3, <4>1, <5>1, <5>2 DEF Advance, Slots
      <4>3. ~(count + 1 < TasksLen)
        BY <1>3, <4>2, SmallMultiple
      <4>4. QED BY <1>3, <3>2, <4>3
    <3>3. ASSUME NEW k \in 0..(count - 1), (first + k - s) % TasksLen = 0
          PROVE  count + InFlight >= TasksLen
      <4>1. first + k - s \in Int /\ k \in Int
        BY <1>3, <2>1 DEF Slots
      <4>2. ((first + count - last) - (first + k - s)) % TasksLen = 0
        BY <3>1, <3>3, <4>1, DifferenceOfMultiples
      <4>3. (first + count - last) - (first + k - s) = count - k
            /\ count - k \in Int /\ count - k > 0
        BY <1>3, <2>3, <4>1 DEF Slots
      <4>4. ~(count - k < TasksLen)
        BY <4>2, <4>3, SmallMultiple
      <4>5. QED BY <1>3, <4>3, <4>4
    <3>4. count + InFlight >= TasksLen
      BY <3>2, <3>3 DEF LiveSlots
    <3>5. QED BY <1>1, <1>8, <2>3, <3>4 DEF KeepsOrStoresOver
  <2>4. QED BY <2>2, <2>3
<1>9. CASE n <= posted /\ n \notin Ran \union Live
  BY <1>9 DEF KeepsOrStoresOver
<1>10. QED BY <1>1, <1>3, <1>6, <1>7, <1>8, <1>9 DEF Live

\* Poll taking the oldest task keeps its slot in hand.
LEMMA TakeKeeps ==
  ASSUME IInv, PollTake, NEW n \in 1..posted'
  PROVE  KeepsOrStoresOver(n)
<1> USE DEF IInv
<1>1. /\ pc[Main] = "take"
      /\ pc' = [pc EXCEPT ![Main] = "invoke"]
      /\ count' = count - 1
      /\ first' = Advance(first)
      /\ UNCHANGED <<tasks, ref, posted, invoked>>
  BY DEF PollTake, Goto
<1>2. /\ first \in Slots /\ count \in Nat /\ posted \in Nat /\ ref = first
      /\ InFlight = 0 /\ InFlight' = 1
  BY <1>1 DEF TypeOK, PollHolds, InFlight, Contexts, Main
<1>3. ASSUME NEW s \in LiveSlots PROVE s \in LiveSlots'
  <2>1. PICK k \in 0..(count - 1) : (first + k - s) % TasksLen = 0
    BY <1>2 DEF LiveSlots
  <2>2. s \in Slots /\ first \in Int /\ s \in Int /\ k \in Int
    BY <1>2 DEF LiveSlots, Slots
  <2>3. CASE k = 0
    <3>1. first - s \in Int /\ -TasksLen < first - s /\ first - s < TasksLen
          /\ (first - s) % TasksLen = 0
      BY <1>2, <2>1, <2>2, <2>3 DEF Slots
    <3>2. s = first
      <4>1. first - s = 0
        BY <3>1, SmallMultiple
      <4>2. QED BY <2>2, <4>1
    <3>3. QED BY <1>1, <1>2, <3>2 DEF LiveSlots
  <2>4. CASE k # 0
    <3>1. (Advance(first) + (k - 1) - s) % TasksLen = 0
      BY <1>2, <2>1, <2>2, RingStep
    <3>2. k - 1 \in 0..(count' - 1)
      BY <1>1, <1>2, <2>4
    <3>3. QED BY <1>1, <2>2, <3>1, <3>2 DEF LiveSlots
  <2>5. QED BY <2>3, <2>4
<1>4. Ran \subseteq Ran'
  BY <1>1 DEF Ran
<1>5. QED BY <1>1, <1>2, <1>3, <1>4, KeepsSlots

\* Poll lets go of a slot by running its task.
LEMMA InvokeKeeps ==
  ASSUME IInv, PollInvoke, NEW n \in 1..posted'
  PROVE  KeepsOrStoresOver(n)
<1> USE DEF IInv
<1>1. /\ invoked' = Append(invoked, tasks[ref])
      /\ UNCHANGED <<count, first, tasks, ref, posted>>
  BY DEF PollInvoke
<1>2. invoked \in Seq(Nat) /\ posted \in Nat /\ tasks[ref] \in Nat
  BY DEF TypeOK
<1>3. /\ Len(invoked') = Len(invoked) + 1 /\ Len(invoked) \in Nat
      /\ \A k \in 1..Len(invoked) : invoked'[k] = invoked[k]
      /\ invoked'[Len(invoked) + 1] = tasks[ref]
  BY <1>1, <1>2
<1>4. Ran \subseteq Ran' /\ tasks[ref] \in Ran'
  <2>1. 1..Len(invoked) \subseteq 1..Len(invoked')
        /\ Len(invoked) + 1 \in 1..Len(invoked')
    BY <1>3
  <2>2. QED BY <1>3, <2>1 DEF Ran
<1>5. \A s \in LiveSlots : s = ref \/ s \in LiveSlots'
  BY <1>1 DEF LiveSlots
<1>6. QED BY <1>1, <1>2, <1>4, <1>5, KeepsSlots

\* Every step keeps every task, or stores over one when all slots are in use.
LEMMA StepKeeps ==
  ASSUME IInv, [Next]_vars, NEW n \in 1..posted'
  PROVE  KeepsOrStoresOver(n)
<1>1. Main \in Contexts
  BY DEF Contexts, Main
<1>2. ASSUME posted' = posted, tasks' = tasks, invoked' = invoked,
             LiveSlots' = LiveSlots
      PROVE  KeepsOrStoresOver(n)
  <2>1. Ran \subseteq Ran' /\ posted \in Nat
    BY <1>2 DEF Ran, IInv, TypeOK
  <2>2. QED BY <1>2, <2>1, KeepsSlots
<1>3. ASSUME NEW c \in Contexts, SetTaskBegin(c) PROVE KeepsOrStoresOver(n)
  <2>1. UNCHANGED queueVars /\ (pc'[Main] = "invoke" <=> pc[Main] = "invoke")
    BY <1>1, <1>3 DEF SetTaskBegin, SetTaskTest, Goto, IInv, TypeOK
  <2>2. LiveSlots' = LiveSlots
    BY <2>1 DEF LiveSlots, InFlight, queueVars
  <2>3. QED BY <1>2, <2>1, <2>2 DEF queueVars
<1>4. CASE PollTest
  <2>1. /\ UNCHANGED <<count, first, tasks, posted, invoked>>
        /\ pc[Main] = "idle" /\ pc'[Main] = "take"
    BY <1>1, <1>4 DEF PollTest, Goto, IInv, TypeOK
  <2>2. LiveSlots' = LiveSlots
    BY <2>1 DEF LiveSlots, InFlight
  <2>3. QED BY <1>2, <2>1, <2>2
<1>5. CASE PollEmpty \/ UNCHANGED vars
  <2>1. UNCHANGED <<count, first, tasks, ref, posted, invoked, pc>>
    BY <1>5 DEF PollEmpty, vars, queueVars
  <2>2. LiveSlots' = LiveSlots
    BY <2>1 DEF LiveSlots, InFlight
  <2>3. QED BY <1>2, <2>1, <2>2
<1>6. QED
  BY <1>3, <1>4, <1>5, StoreKeeps, TakeKeeps, InvokeKeeps DEF Next, Poll

\* What a step may do to the accepted tasks.
TasksKept == \A n \in 1..posted' : KeepsOrStoresOver(n)

\* An accepted task stays in the queue or in Poll's hand until it has run; it is
\* lost only to a SetTask that stores a further task over it when all slots are
\* in use.
THEOREM AcceptedTasksAreKept == Spec => LostOnlyByOverrun
<1>1. IInv /\ [Next]_vars => TasksKept
  BY StepKeeps DEF TasksKept
<1>2. Spec => [][TasksKept]_vars
  BY <1>1, QueueInvariant, PTL DEF Spec
<1>3. QED BY <1>2 DEF LostOnlyByOverrun, TasksKept, KeepsOrStoresOver

-----------------------------------------------------------------------------

USE TimersLenAssumption, WidthAssumption, NoTaskAssumption, BoundsAssumption

\* Every step of the dispatcher is a step of the queue or leaves it alone.
LEMMA StepsAreQueueSteps == [DispatcherNext]_dispatcherVars => [Next]_vars
<1> SUFFICES ASSUME [DispatcherNext]_dispatcherVars PROVE [Next]_vars
  OBVIOUS
<1>1. Main \in Contexts
  BY LevelsAssumption DEF Main, Contexts
<1>2. CASE UNCHANGED dispatcherVars
  BY <1>2 DEF dispatcherVars
<1>3. CASE SetTimerFunc \/ Tick
  BY <1>3 DEF SetTimerFunc, Tick
<1>4. ASSUME NEW w \in Work, NEW period \in 0..MaxPeriod, SetTimer(w, period)
      PROVE  UNCHANGED vars
  BY <1>4 DEF SetTimer
<1>5. ASSUME NEW w \in Work, StopTask(w) PROVE UNCHANGED vars
  BY <1>5 DEF StopTask
<1>6. ASSUME NEW n \in 1..Len(handles), StopId(n) PROVE UNCHANGED vars
  BY <1>6 DEF StopId
<1>7. ASSUME NEW n \in 1..Len(handles), NEW period \in 0..MaxPeriod,
             RestartTimer(n, period)
      PROVE  UNCHANGED vars
  BY <1>7 DEF RestartTimer
<1>8. CASE PollStep
  <2>1. CASE PollBegin \/ TimerNotDue \/ TimerDropped \/ TimerHandlerEnd
    BY <2>1 DEF PollBegin, TimerNotDue, TimerDropped, TimerHandlerEnd
  <2>2. CASE TimerPostBegin \/ TimerPostEnd
    BY <1>1, <2>2 DEF TimerPostBegin, TimerPostEnd, Next
  <2>3. CASE PollQueue
    BY <2>3 DEF PollQueue, Next, Poll
  <2>4. QED BY <1>8, <2>1, <2>2, <2>3 DEF PollStep
<1>9. ASSUME NEW c \in Contexts, Post(c) PROVE Next
  BY <1>9 DEF Post, Next
<1>10. QED
  BY <1>2, <1>3, <1>4, <1>5, <1>6, <1>7, <1>8, <1>9 DEF DispatcherNext

\* The dispatcher uses its queue only as module TaskQueue describes.
THEOREM DispatcherImplementsQueue == DispatcherSpec => QueueSpec
<1>1. DispatcherInit => Init
  BY DEF DispatcherInit
<1>2. QED
  BY <1>1, StepsAreQueueSteps, PTL DEF DispatcherSpec, QueueSpec, Spec

\* With timers and interrupt handlers posting together, tasks still run once
\* and in order until one is first stored over, and the overrun is bounded.
THEOREM DispatcherKeepsOrder ==
  DispatcherSpec => [](FifoUnlessOverrun /\ CountBound)
BY DispatcherImplementsQueue, FifoOrder, OverrunIsBounded, PTL DEF QueueSpec

-----------------------------------------------------------------------------
TimerInv == SlotsOK /\ OneSlotPerTask /\ TimesAgree

\* Only these steps write the slots or the times; the others leave them alone.
LEMMA TimerSteps ==
  ASSUME [DispatcherNext]_dispatcherVars
  PROVE  \/ UNCHANGED <<clock, sequence, timers, dueAt, setAt>>
            /\ (scan' = scan \/ ScanNext)
            /\ (phase' = "scan" => phase = "scan")
         \/ Tick
         \/ PollBegin
         \/ \E w \in Work, period \in 0..MaxPeriod : SetTimer(w, period)
         \/ \E w \in Work : StopTask(w)
         \/ \E n \in 1..Len(handles) : StopId(n)
         \/ \E n \in 1..Len(handles), period \in 0..MaxPeriod :
              RestartTimer(n, period)
         \/ TimerPostEnd
         \/ TimerDropped
<1>1. CASE UNCHANGED dispatcherVars \/ SetTimerFunc
  BY <1>1 DEF dispatcherVars, timerVars, SetTimerFunc
<1>2. CASE PollStep
  <2>1. CASE TimerNotDue
    BY <2>1 DEF TimerNotDue
  <2>2. CASE TimerPostBegin \/ TimerHandlerEnd
    BY <2>2 DEF TimerPostBegin, TimerHandlerEnd, timerVars
  <2>3. CASE PollQueue
    BY <2>3 DEF PollQueue
  <2>4. QED BY <1>2, <2>1, <2>2, <2>3 DEF PollStep
<1>3. ASSUME NEW c \in Contexts, Post(c)
      PROVE  UNCHANGED timerVars
  BY <1>3 DEF Post
<1>4. QED BY <1>1, <1>2, <1>3 DEF DispatcherNext, timerVars

\* The constructed dispatcher satisfies the timer invariant.
LEMMA InitTimerInv == DispatcherInit => TimerInv
<1> SUFFICES ASSUME DispatcherInit PROVE TimerInv
  OBVIOUS
<1>1. SlotsOK
  BY DEF DispatcherInit, SlotsOK
<1>2. OneSlotPerTask /\ Armed = {}
  BY DEF DispatcherInit, OneSlotPerTask, Armed
<1>3. TimesAgree
  BY <1>2 DEF DispatcherInit, TimesAgree
<1>4. QED BY <1>1, <1>2, <1>3 DEF TimerInv

\* A step that leaves slots and times alone keeps the invariant.
LEMMA QuietTimerInv ==
  ASSUME TimerInv, UNCHANGED <<clock, sequence, timers, dueAt, setAt>>,
         scan' = scan \/ ScanNext, phase' = "scan" => phase = "scan"
  PROVE  TimerInv'
<1>1. scan' \in [i : Nat, time : Int] /\ scan'.time = scan.time
  BY DEF TimerInv, SlotsOK, ScanNext
<1>2. QED BY <1>1 DEF TimerInv, SlotsOK, OneSlotPerTask, TimesAgree, Armed

\* The passing of time keeps the invariant.
LEMMA TickTimerInv ==
  ASSUME TimerInv, Tick
  PROVE  TimerInv'
<1>1. /\ clock' = clock + 1
      /\ UNCHANGED <<sequence, timers, dueAt, setAt, phase, scan>>
  BY DEF Tick
<1>2. SlotsOK' /\ OneSlotPerTask'
  BY <1>1 DEF TimerInv, SlotsOK, OneSlotPerTask, Armed
<1>3. TimesAgree'
  <2>1. /\ clock' \in Nat /\ clock \in Nat
        /\ \A t \in 0..clock : t \in 0..clock'
    BY <1>1 DEF TimerInv, TimesAgree
  <2>2. \A i \in TimerSlots : setAt[i] <= clock'
    BY <1>1, <2>1 DEF TimerInv, TimesAgree
  <2>3. QED BY <1>1, <2>1, <2>2 DEF TimerInv, TimesAgree, Armed
<1>4. QED BY <1>2, <1>3 DEF TimerInv

\* Poll reading the tick counter establishes what TimerHandler relies on.
LEMMA PollBeginTimerInv ==
  ASSUME TimerInv, PollBegin
  PROVE  TimerInv'
<1>1. UNCHANGED <<clock, sequence, timers, dueAt, setAt>>
  BY DEF PollBegin
<1>2. /\ phase' = "scan" => scan'.time = clock % TickMod
      /\ scan' = scan \/ scan' = [i |-> 0, time |-> clock % TickMod]
  BY DEF PollBegin, Ticks
<1>3. SlotsOK' /\ OneSlotPerTask'
  <2>1. clock % TickMod \in Int
    BY DivMod DEF TimerInv, TimesAgree
  <2>2. QED BY <1>1, <1>2, <2>1 DEF TimerInv, SlotsOK, OneSlotPerTask, Armed
<1>4. TimesAgree'
  <2>1. clock \in 0..clock /\ \A i \in TimerSlots : setAt[i] <= clock
    BY DEF TimerInv, TimesAgree
  <2>2. QED BY <1>1, <1>2, <2>1 DEF TimerInv, TimesAgree, Armed
<1>5. QED BY <1>3, <1>4 DEF TimerInv

\* Freeing a slot keeps the invariant.
LEMMA ClearTimerInv ==
  ASSUME TimerInv, NEW i \in TimerSlots, ClearSlot(i), ForgetTimes(i),
         UNCHANGED <<clock, sequence>>,
         scan' = scan \/ ScanNext, phase' = "scan" => phase = "scan"
  PROVE  TimerInv'
<1>0. scan' \in [i : Nat, time : Int] /\ scan'.time = scan.time
  BY DEF TimerInv, SlotsOK, ScanNext
<1>1. SlotsOK'
  BY <1>0 DEF TimerInv, SlotsOK, ClearSlot
<1>2. \A j \in TimerSlots : /\ timers'[j].task \in {timers[j].task, NoTask}
                            /\ timers'[j].time = timers[j].time
  BY DEF TimerInv, SlotsOK, ClearSlot
<1>3. /\ Armed' \subseteq Armed /\ i \notin Armed'
      /\ \A j \in Armed' : timers'[j].task = timers[j].task
  BY <1>2 DEF Armed, ClearSlot, TimerInv, SlotsOK
<1>4. OneSlotPerTask'
  BY <1>3 DEF TimerInv, OneSlotPerTask
<1>5. TimesAgree'
  <2>1. /\ dueAt' \in [TimerSlots -> Nat] /\ setAt' \in [TimerSlots -> Nat]
        /\ \A j \in TimerSlots : j # i => dueAt'[j] = dueAt[j]
        /\ \A j \in TimerSlots : setAt'[j] <= setAt[j] /\ setAt[j] \in Nat
    BY DEF ForgetTimes, TimerInv, TimesAgree
  <2>2. clock' \in Nat /\ \A j \in TimerSlots : setAt'[j] <= clock'
    BY <2>1 DEF TimerInv, TimesAgree
  <2>3. \A j \in Armed' : timers'[j].time = dueAt'[j] % TickMod
    BY <1>2, <1>3, <2>1 DEF TimerInv, TimesAgree, Armed
  <2>4. phase' = "scan" =>
          \E t \in 0..clock' : /\ scan'.time = t % TickMod
                               /\ \A j \in TimerSlots : setAt'[j] <= t
    <3>1. \A t \in 0..clock, j \in TimerSlots : setAt[j] <= t => setAt'[j] <= t
      BY <2>1, <2>2
    <3>2. QED BY <1>0, <3>1 DEF TimerInv, TimesAgree
  <2>5. QED BY <2>1, <2>2, <2>3, <2>4 DEF TimesAgree
<1>6. QED BY <1>1, <1>4, <1>5 DEF TimerInv

\* The time SetTimer and RestartTimer compute is the due time modulo TickMod.
LEMMA TicksLater ==
  ASSUME clock \in Nat, NEW period \in Nat
  PROVE  (Ticks + period) % TickMod = (clock + period) % TickMod
<1>1. clock \in Int /\ period \in Int /\ TickMod \in Nat \ {0}
  OBVIOUS
<1>2. ((clock % TickMod) + period) % TickMod = (clock + period) % TickMod
  BY <1>1, ModAdd, Zenon
<1>3. QED BY <1>2, Zenon DEF Ticks

\* SetTimer keeps the invariant: it writes the slot of its task if there is
\* one, and a free slot only if there is none.
LEMMA SetTimerTimerInv ==
  ASSUME TimerInv, NEW w \in Work, NEW period \in 0..MaxPeriod,
         SetTimer(w, period)
  PROVE  TimerInv'
<1> DEFINE item(id) ==
             IF period = 0 THEN [task |-> NoTask, time |-> 0, id |-> id]
             ELSE [task |-> w, time |-> (Ticks + period) % TickMod, id |-> id]
<1>1. PICK i \in TimerSlotFor(w) :
        /\ timers' = [timers EXCEPT ![i] =
             item(NextSequence(sequence).value + SeqMod * i)]
        /\ sequence' = NextSequence(sequence).next
        /\ dueAt' = [dueAt EXCEPT ![i] = clock + period]
        /\ setAt' = [setAt EXCEPT ![i] = clock]
  BY DEF SetTimer
<1>2. UNCHANGED <<clock, phase, scan>> /\ phase = "user"
  BY DEF SetTimer, InUserCode
<1>3. i \in TimerSlots
  BY DEF TimerSlotFor, FirstOf
<1>4. \A j \in TimerSlots : timers[j].task = w => j = i
  <2>1. ASSUME NEW j \in TimerSlots, timers[j].task = w
        PROVE  j = i
    <3>1. timers[i].task = w
      BY <2>1 DEF TimerSlotFor, FirstOf
    <3>2. i \in Armed /\ j \in Armed
      BY <1>3, <2>1, <3>1 DEF Armed
    <3>3. QED BY <2>1, <3>1, <3>2 DEF TimerInv, OneSlotPerTask
  <2>2. QED BY <2>1
<1>5. PICK id \in Int : timers' = [timers EXCEPT ![i] = item(id)]
  <2>1. NextSequence(sequence).value \in Int
    BY DEF NextSequence, TimerInv, SlotsOK
  <2>2. NextSequence(sequence).value + SeqMod * i \in Int
    BY <1>3, <2>1 DEF TimerSlots
  <2>3. QED BY <1>1, <2>2
<1>6. clock \in Nat /\ period \in Nat
  BY DEF TimerInv, TimesAgree
<1>7. (Ticks + period) % TickMod = (clock + period) % TickMod
  BY <1>6, TicksLater
<1>8. (clock + period) % TickMod \in Int
  BY <1>6, DivMod
<1>9. SlotsOK'
  <2>1. sequence' \in Int
    BY <1>1 DEF NextSequence, TimerInv, SlotsOK
  <2>2. item(id) \in [task : Work \union {NoTask}, time : Int, id : Int]
    BY <1>5, <1>7, <1>8
  <2>3. QED BY <1>2, <1>3, <1>5, <2>1, <2>2 DEF TimerInv, SlotsOK
<1>10. /\ timers'[i] = item(id)
       /\ \A j \in TimerSlots \ {i} : timers'[j] = timers[j]
  BY <1>3, <1>5 DEF TimerInv, SlotsOK
<1>11. Armed' \subseteq Armed \union {i}
  BY <1>10 DEF Armed
<1>12. OneSlotPerTask'
  <2> SUFFICES ASSUME NEW j \in Armed', NEW k \in Armed',
                      timers'[j].task = timers'[k].task
               PROVE  j = k
    BY DEF OneSlotPerTask
  <2>1. \A m \in Armed' : m \in TimerSlots /\ timers'[m].task # NoTask
    BY DEF Armed
  <2>2. i \in Armed' => timers'[i].task = w
    BY <1>10, <2>1
  <2>3. CASE j # i /\ k # i
    BY <1>10, <1>11, <2>1, <2>3 DEF TimerInv, OneSlotPerTask
  <2>4. CASE j = i /\ k # i
    BY <1>4, <1>10, <2>1, <2>2, <2>4
  <2>5. CASE j # i /\ k = i
    BY <1>4, <1>10, <2>1, <2>2, <2>5
  <2>6. QED BY <2>3, <2>4, <2>5
<1>13. TimesAgree'
  <2>1. /\ dueAt' \in [TimerSlots -> Nat] /\ setAt' \in [TimerSlots -> Nat]
        /\ \A j \in TimerSlots : setAt'[j] <= clock
        /\ dueAt'[i] = clock + period
        /\ \A j \in TimerSlots \ {i} : dueAt'[j] = dueAt[j]
    BY <1>1, <1>3, <1>6 DEF TimerInv, TimesAgree
  <2>2. ASSUME NEW j \in Armed' PROVE timers'[j].time = dueAt'[j] % TickMod
    <3>1. j \in TimerSlots /\ timers'[j].task # NoTask
      BY DEF Armed
    <3>2. CASE j = i
      BY <1>7, <1>10, <2>1, <3>1, <3>2
    <3>3. CASE j # i
      BY <1>10, <1>11, <2>1, <3>1, <3>3 DEF TimerInv, TimesAgree
    <3>4. QED BY <3>2, <3>3
  <2>3. QED BY <1>2, <1>6, <2>1, <2>2 DEF TimesAgree
<1>14. QED BY <1>9, <1>12, <1>13 DEF TimerInv

\* RestartTimer keeps the invariant: it changes only the time of a slot.
LEMMA RestartTimerInv ==
  ASSUME TimerInv, NEW n, NEW period \in 0..MaxPeriod, RestartTimer(n, period)
  PROVE  TimerInv'
<1>1. PICK i \in TimerSlots :
        /\ timers' = [timers EXCEPT ![i].time = (Ticks + period) % TickMod]
        /\ dueAt' = [dueAt EXCEPT ![i] = clock + period]
        /\ setAt' = [setAt EXCEPT ![i] = clock]
  BY DEF RestartTimer, SlotOf
<1>2. UNCHANGED <<clock, sequence, phase, scan>> /\ phase = "user"
  BY DEF RestartTimer, InUserCode
<1>3. clock \in Nat /\ period \in Nat
  BY DEF TimerInv, TimesAgree
<1>4. /\ (Ticks + period) % TickMod = (clock + period) % TickMod
      /\ (clock + period) % TickMod \in Int
  BY <1>3, TicksLater, DivMod
<1>5. SlotsOK'
  BY <1>1, <1>2, <1>4 DEF TimerInv, SlotsOK
<1>6. \A j \in TimerSlots :
        /\ timers'[j].task = timers[j].task
        /\ j # i => timers'[j].time = timers[j].time
        /\ j = i => timers'[j].time = (clock + period) % TickMod
  BY <1>1, <1>4 DEF TimerInv, SlotsOK
<1>7. Armed' = Armed
  BY <1>6 DEF Armed
<1>8. OneSlotPerTask'
  BY <1>6, <1>7 DEF TimerInv, OneSlotPerTask, Armed
<1>9. TimesAgree'
  <2>1. /\ dueAt' \in [TimerSlots -> Nat] /\ setAt' \in [TimerSlots -> Nat]
        /\ \A j \in TimerSlots : setAt'[j] <= clock
        /\ dueAt'[i] = clock + period
        /\ \A j \in TimerSlots \ {i} : dueAt'[j] = dueAt[j]
    BY <1>1, <1>3 DEF TimerInv, TimesAgree
  <2>2. ASSUME NEW j \in Armed' PROVE timers'[j].time = dueAt'[j] % TickMod
    BY <1>6, <1>7, <2>1 DEF TimerInv, TimesAgree, Armed
  <2>3. QED BY <1>2, <1>3, <2>1, <2>2 DEF TimesAgree
<1>10. QED BY <1>5, <1>8, <1>9 DEF TimerInv

\* An interrupt handler that posts leaves the main context where it was.
LEMMA PostKeepsMain ==
  ASSUME TypeOK, NEW c \in Contexts, c # Main, Post(c)
  PROVE  pc'[Main] = pc[Main]
<1>1. Main \in Contexts
  BY LevelsAssumption DEF Main, Contexts
<1>2. QED
  BY <1>1 DEF Post, SetTaskBegin, SetTaskEnd, Goto, TypeOK

\* The slot TimerHandler posts stays due until SetTask has stored its task.
LEMMA NextPostsDue ==
  TypeOK /\ SlotsOK /\ PostsDue /\ [DispatcherNext]_dispatcherVars => PostsDue'
<1> SUFFICES ASSUME TypeOK, SlotsOK, PostsDue, [DispatcherNext]_dispatcherVars,
                    phase' = "scan", pc'[Main] = "setTask"
             PROVE  (scan.i \in TimerSlots /\ Due(scan.i))'
  BY DEF PostsDue
<1>0. Main \in Contexts
  BY LevelsAssumption DEF Main, Contexts
<1>1. ASSUME UNCHANGED <<timers, scan, phase>>, pc'[Main] = pc[Main]
      PROVE  (scan.i \in TimerSlots /\ Due(scan.i))'
  BY <1>1 DEF PostsDue, Due
<1>2. CASE UNCHANGED dispatcherVars
  BY <1>1, <1>2 DEF dispatcherVars, vars, timerVars
<1>3. CASE Tick
  BY <1>1, <1>3 DEF Tick, vars
<1>4. ASSUME InUserCode, UNCHANGED vars PROVE FALSE
  BY <1>4 DEF InUserCode, vars
<1>5. CASE PollStep
  <2>1. CASE PollBegin \/ TimerNotDue \/ TimerDropped \/ TimerHandlerEnd
    BY <2>1 DEF PollBegin, TimerNotDue, TimerDropped, TimerHandlerEnd,
                InUserCode, Scanning, vars
  <2>2. CASE TimerPostBegin
    <3>1. UNCHANGED <<timers, scan>> /\ scan.i < TimersLen /\ Due(scan.i)
      BY <2>2 DEF TimerPostBegin, timerVars
    <3>2. scan.i \in TimerSlots
      BY <3>1 DEF SlotsOK, TimerSlots
    <3>3. QED BY <3>1, <3>2 DEF Due
  <2>3. CASE TimerPostEnd
    BY <1>0, <2>3 DEF TimerPostEnd, SetTaskEnd, Goto, TypeOK
  <2>4. CASE PollQueue
    BY <2>4 DEF PollQueue
  <2>5. QED BY <1>5, <2>1, <2>2, <2>3, <2>4 DEF PollStep
<1>6. ASSUME NEW c \in Contexts, Post(c)
      PROVE  (scan.i \in TimerSlots /\ Due(scan.i))'
  <2>1. UNCHANGED <<timers, scan, phase>>
    BY <1>6 DEF Post, timerVars
  <2>2. c # Main
    BY <1>6, <2>1 DEF Post
  <2>3. QED BY <1>1, <1>6, <2>1, <2>2, PostKeepsMain
<1>7. QED
  BY <1>2, <1>3, <1>4, <1>5, <1>6
     DEF DispatcherNext, SetTimerFunc, SetTimer, StopTask, StopId, RestartTimer

\* Every step of the dispatcher keeps the timer invariant.
LEMMA NextTimerInv ==
  TypeOK /\ TimerInv /\ PostsDue /\ [DispatcherNext]_dispatcherVars => TimerInv'
<1> SUFFICES ASSUME TypeOK, TimerInv, PostsDue, [DispatcherNext]_dispatcherVars
             PROVE  TimerInv'
  OBVIOUS
<1>1. ASSUME NEW w \in Work, StopTask(w) PROVE TimerInv'
  BY <1>1, ClearTimerInv DEF StopTask, FirstOf, InUserCode
<1>2. ASSUME NEW n \in 1..Len(handles), StopId(n) PROVE TimerInv'
  BY <1>2, ClearTimerInv DEF StopId, SlotOf, InUserCode
<1>3. CASE TimerPostEnd \/ TimerDropped
  <2>1. /\ ClearSlot(scan.i) /\ ForgetTimes(scan.i) /\ ScanNext
        /\ UNCHANGED <<clock, sequence, phase>>
    BY <1>3 DEF TimerPostEnd, TimerDropped
  <2>2. CASE TimerPostEnd
    BY <2>1, <2>2, ClearTimerInv DEF TimerPostEnd, SetTaskEnd, PostsDue
  <2>3. CASE TimerDropped
    <3>1. scan.i \in TimerSlots
      BY <2>3 DEF TimerDropped, TimerInv, SlotsOK, TimerSlots
    <3>2. QED BY <2>1, <3>1, ClearTimerInv
  <2>4. QED BY <1>3, <2>2, <2>3
<1>4. QED
  BY <1>1, <1>2, <1>3, TimerSteps, QuietTimerInv, TickTimerInv,
     PollBeginTimerInv, SetTimerTimerInv, RestartTimerInv

\* The timer invariant holds in every reachable state.
THEOREM TimerInvariant == DispatcherSpec => [](TypeOK /\ TimerInv /\ PostsDue)
<1>1. DispatcherInit => PostsDue
  BY DEF DispatcherInit, PostsDue
<1>2. TimerInv => SlotsOK
  BY DEF TimerInv
<1>3. DispatcherSpec => []TypeOK
  BY DispatcherImplementsQueue, RingAlwaysCoherent, PTL DEF QueueSpec
<1>4. QED
  BY <1>1, <1>2, <1>3, InitTimerInv, NextTimerInv, NextPostsDue, PTL
     DEF DispatcherSpec

\* A task and tag never hold two timer slots.
THEOREM TimersDoNotDuplicate == DispatcherSpec => []OneSlotPerTask
<1>1. TimerInv => OneSlotPerTask
  BY DEF TimerInv
<1>2. QED BY <1>1, TimerInvariant, PTL

\* What one step of the dispatcher may do to a timer that fires.
OnTime ==
  \A i \in TimerSlots :
    Fires(i) => \/ clock >= dueAt[i]
                \/ setAt[i] \div TickMod < dueAt[i] \div TickMod

\* A slot that fires was found due by TimerHandler, at an instant t since it
\* was set; if it was set and due in one turn of the counter, t is late enough.
LEMMA FiresOnTime ==
  TimerInv /\ PostsDue /\ [DispatcherNext]_dispatcherVars => OnTime
<1> SUFFICES ASSUME TimerInv, PostsDue, [DispatcherNext]_dispatcherVars,
                    NEW i \in TimerSlots, Fires(i),
                    ~(setAt[i] \div TickMod < dueAt[i] \div TickMod)
             PROVE  clock >= dueAt[i]
  BY DEF OnTime
<1>1. phase = "scan" /\ i \in Armed /\ timers'[i].task # timers[i].task
  BY DEF Fires, Armed
<1>2. TimerPostEnd \/ TimerDropped
  BY <1>1, TimerSteps DEF Tick, PollBegin, SetTimer, StopTask, StopId,
                          RestartTimer, InUserCode
<1>3. ClearSlot(scan.i) /\ Due(scan.i)
  BY <1>1, <1>2 DEF TimerPostEnd, TimerDropped, SetTaskEnd, PostsDue
<1>4. i = scan.i
  BY <1>1, <1>3 DEF ClearSlot, TimerInv, SlotsOK
<1>5. timers[i].time <= scan.time /\ timers[i].time = dueAt[i] % TickMod
  BY <1>1, <1>3, <1>4 DEF Due, TimerInv, TimesAgree
<1>6. PICK t \in 0..clock : scan.time = t % TickMod /\ setAt[i] <= t
  BY <1>1 DEF TimerInv, TimesAgree
<1>7. clock \in Nat /\ t \in Int /\ dueAt[i] \in Int /\ setAt[i] \in Int
  BY <1>6 DEF TimerInv, TimesAgree
<1>8. setAt[i] \div TickMod <= t \div TickMod
  BY <1>6, <1>7, DivMonotonic
<1>9. dueAt[i] \div TickMod <= t \div TickMod
  <2>1. /\ setAt[i] \div TickMod \in Int /\ dueAt[i] \div TickMod \in Int
        /\ t \div TickMod \in Int
    BY <1>7, DivMod
  <2>2. QED BY <1>8, <2>1
<1>10. dueAt[i] <= t
  BY <1>5, <1>6, <1>7, <1>9, OrderByDivMod
<1>11. QED BY <1>6, <1>7, <1>10

\* A timer that TimerHandler fires has waited its period, or the tick counter
\* wraps between the time it was set and the time it is due.
THEOREM TimersEarlyOnlyAcrossWrap == DispatcherSpec => EarlyOnlyAcrossWrap
<1>1. DispatcherSpec => [][OnTime]_dispatcherVars
  BY TimerInvariant, FiresOnTime, PTL DEF DispatcherSpec
<1>2. QED BY <1>1 DEF EarlyOnlyAcrossWrap, OnTime

-----------------------------------------------------------------------------
(* Which SetTimer call owns a slot, and which slot an id names             *)

\* The sequence part of the id the n-th SetTimer returns: 1, 2, .. SeqMod - 1
\* and again from 1.
Turn(n) == ((n - 1) % (SeqMod - 1)) + 1

Outcomes == {"armed", "stopped", "posted", "dropped"}

HistoryOK ==
  /\ handles \in Seq(Int) /\ outcome \in Seq(Outcomes)
  /\ Len(outcome) = Len(handles)
  /\ arming \in [TimerSlots -> Nat]
  /\ sequence \in 0..(SeqMod - 1)

\* A running timer was started by one SetTimer that is still open, no other
\* slot was written by the same one, and the slot keeps the id it returned.
OwnersOpen ==
  \A i \in Armed :
    /\ arming[i] \in 1..Len(handles)
    /\ outcome[arming[i]] = "armed"
    /\ timers[i].id = handles[arming[i]]
    /\ \A j \in Armed : arming[j] = arming[i] => j = i

\* An id names the slot SetTimer wrote, which a later SetTimer may have taken
\* over, and its number in the turn.
IdsInTurn ==
  /\ NextSequence(sequence).value = Turn(Len(handles) + 1)
  /\ \A i \in TimerSlots : arming[i] <= Len(handles)
  /\ \A n \in 1..Len(handles) :
       \E i \in TimerSlots : /\ handles[n] = SeqMod * i + Turn(n)
                             /\ n <= arming[i]

HistoryInv == HistoryOK /\ OwnersOpen /\ IdsInTurn

\* The steps of the dispatcher as they look to the owners of the slots.
LEMMA OwnerSteps ==
  ASSUME SlotsOK, PostsDue, [DispatcherNext]_dispatcherVars
  PROVE  \/ UNCHANGED <<sequence, timers, handles, arming, outcome>>
         \/ /\ \E i \in TimerSlots, r \in Outcomes :
                 ClearSlot(i) /\ outcome' = Ended(outcome, i, r)
            /\ UNCHANGED <<sequence, handles, arming>>
         \/ /\ \E i \in TimerSlots : \E t : timers' = [timers EXCEPT ![i].time = t]
            /\ UNCHANGED <<sequence, handles, arming, outcome>>
         \/ \E w \in Work, period \in 0..MaxPeriod : SetTimer(w, period)
<1> DEFINE Quiet == UNCHANGED <<sequence, timers, handles, arming, outcome>>
           Cleared ==
             /\ \E i \in TimerSlots, r \in Outcomes :
                  ClearSlot(i) /\ outcome' = Ended(outcome, i, r)
             /\ UNCHANGED <<sequence, handles, arming>>
<1>1. CASE UNCHANGED dispatcherVars \/ SetTimerFunc \/ Tick
  BY <1>1 DEF dispatcherVars, timerVars, SetTimerFunc, Tick
<1>2. CASE PollStep
  <2>1. CASE PollBegin \/ TimerNotDue \/ TimerHandlerEnd \/ PollQueue
    BY <2>1 DEF PollBegin, TimerNotDue, TimerHandlerEnd, PollQueue
  <2>2. CASE TimerPostBegin
    BY <2>2 DEF TimerPostBegin, timerVars
  <2>3. CASE TimerPostEnd
    <3>1. scan.i \in TimerSlots
      BY <2>3 DEF TimerPostEnd, SetTaskEnd, PostsDue
    <3>2. Cleared
      BY <2>3, <3>1 DEF TimerPostEnd, Outcomes
    <3>3. QED BY <3>2
  <2>4. CASE TimerDropped
    <3>1. scan.i \in TimerSlots
      BY <2>4 DEF TimerDropped, SlotsOK, TimerSlots
    <3>2. Cleared
      BY <2>4, <3>1 DEF TimerDropped, Outcomes
    <3>3. QED BY <3>2
  <2>5. QED BY <1>2, <2>1, <2>2, <2>3, <2>4 DEF PollStep
<1>3. ASSUME NEW c \in Contexts, Post(c)
      PROVE  Quiet
  BY <1>3 DEF Post, timerVars
<1>4. ASSUME NEW w \in Work, StopTask(w)
      PROVE  Cleared
  BY <1>4 DEF StopTask, FirstOf, Outcomes
<1>5. ASSUME NEW n \in 1..Len(handles), StopId(n)
      PROVE  Cleared
  BY <1>5 DEF StopId, SlotOf, Outcomes
<1>6. ASSUME NEW n \in 1..Len(handles), NEW period \in 0..MaxPeriod,
             RestartTimer(n, period)
      PROVE  /\ \E i \in TimerSlots : \E t : timers' = [timers EXCEPT ![i].time = t]
             /\ UNCHANGED <<sequence, handles, arming, outcome>>
  BY <1>6 DEF RestartTimer, SlotOf
<1>7. QED BY <1>1, <1>2, <1>3, <1>4, <1>5, <1>6 DEF DispatcherNext

\* The numbers of the ids go round without zero.
LEMMA TurnAdvances ==
  ASSUME NEW n \in Nat \ {0}
  PROVE  /\ Turn(n) \in 1..(SeqMod - 1)
         /\ Turn(n + 1) = IF Turn(n) = SeqMod - 1 THEN 1 ELSE Turn(n) + 1
<1> DEFINE M == SeqMod - 1
           q == (n - 1) \div M
           r == (n - 1) % M
<1>1. M \in Nat \ {0} /\ n - 1 \in Int
  BY WidthAssumption
<1> HIDE DEF M
<1>2. q \in Int /\ r \in 0..(M - 1) /\ n - 1 = M * q + r
  BY <1>1, DivMod
<1>3. Turn(n) = r + 1 /\ Turn(n + 1) = (n % M) + 1
  <2>1. (n + 1) - 1 = n
    OBVIOUS
  <2>2. QED BY <2>1 DEF Turn, M
<1> HIDE DEF q, r
<1>4. CASE r = M - 1
  <2>1. n = M * (q + 1) + 0 /\ q + 1 \in Int /\ 0 \in 0..(M - 1)
    BY <1>1, <1>2, <1>4
  <2>2. n % M = 0
    BY <1>1, <2>1, RemainderOf
  <2>3. QED BY <1>1, <1>2, <1>3, <1>4, <2>2 DEF M
<1>5. CASE r < M - 1
  <2>1. n = M * q + (r + 1) /\ r + 1 \in 0..(M - 1)
    BY <1>1, <1>2, <1>5
  <2>2. n % M = r + 1
    BY <1>1, <1>2, <2>1, RemainderOf
  <2>3. QED BY <1>1, <1>2, <1>3, <1>5, <2>2 DEF M
<1>6. QED BY <1>2, <1>1, <1>4, <1>5

\* Two SetTimer calls with one number are a whole turn apart.
LEMMA TurnGap ==
  ASSUME NEW n \in Nat \ {0}, NEW a \in Nat \ {0}, n <= a, Turn(n) = Turn(a)
  PROVE  a = n \/ a - n >= SeqMod - 1
<1> DEFINE M == SeqMod - 1
           p == (n - 1) \div M
           q == (a - 1) \div M
           r == (n - 1) % M
           s == (a - 1) % M
<1>1. M \in Nat \ {0} /\ n - 1 \in Int /\ a - 1 \in Int
  BY WidthAssumption
<1>2. r = s
  BY <1>1, DivMod DEF Turn
<1> HIDE DEF M
<1>3. /\ p \in Int /\ q \in Int /\ r \in 0..(M - 1)
      /\ n - 1 = M * p + r /\ a - 1 = M * q + s
  BY <1>1, DivMod
<1> HIDE DEF p, q, r, s
<1>4. CASE q <= p
  <2>1. M * q <= M * p
    BY <1>1, <1>3, <1>4
  <2>2. QED BY <1>1, <1>2, <1>3, <2>1
<1>5. CASE q >= p + 1
  <2>1. M * q >= M * (p + 1) /\ M * (p + 1) = M * p + M
    BY <1>1, <1>3, <1>5
  <2>2. a - n >= M
    BY <1>1, <1>2, <1>3, <2>1
  <2>3. QED BY <2>2 DEF M
<1>6. QED BY <1>3, <1>4, <1>5

\* NextSequence goes on in the turn.
LEMMA SequenceAdvances ==
  ASSUME sequence \in 0..(SeqMod - 1), NEW n \in Nat \ {0},
         NextSequence(sequence).value = Turn(n),
         sequence' = NextSequence(sequence).next
  PROVE  /\ sequence' \in 0..(SeqMod - 1)
         /\ NextSequence(sequence).value \in Int
         /\ NextSequence(sequence').value = Turn(n + 1)
<1> DEFINE v == NextSequence(sequence).value
<1>1. SeqMod \in Nat \ {0, 1}
  BY WidthAssumption
<1>2. v \in 1..(SeqMod - 1) /\ sequence' = (v + 1) % SeqMod
  BY <1>1 DEF NextSequence
<1>3. \A x : NextSequence(x).value = IF x = 0 THEN 1 ELSE x
  BY DEF NextSequence
<1>4. v = Turn(n)
  OBVIOUS
<1> HIDE DEF v
<1>5. CASE v = SeqMod - 1
  <2>1. SeqMod * 1 + 0 = v + 1 /\ 0 \in 0..(SeqMod - 1)
    BY <1>1, <1>5
  <2>2. sequence' = 0
    BY <1>1, <1>2, <2>1, RemainderOf
  <2>3. NextSequence(sequence').value = 1 /\ Turn(n + 1) = 1
    BY <1>3, <1>4, <1>5, <2>2, TurnAdvances
  <2>4. QED BY <1>1, <1>2, <2>2, <2>3 DEF v
<1>6. CASE v # SeqMod - 1
  <2>1. SeqMod * 0 + (v + 1) = v + 1 /\ v + 1 \in 0..(SeqMod - 1)
    BY <1>1, <1>2, <1>6
  <2>2. sequence' = v + 1
    BY <1>1, <1>2, <2>1, RemainderOf
  <2>3. NextSequence(sequence').value = v + 1 /\ Turn(n + 1) = v + 1
    BY <1>2, <1>3, <1>4, <1>6, <2>2, TurnAdvances
  <2>4. QED BY <1>1, <1>2, <2>1, <2>2, <2>3 DEF v
<1>7. QED BY <1>5, <1>6

\* The constructed dispatcher has no timers and no ids.
LEMMA InitHistory == DispatcherInit => HistoryInv
<1> SUFFICES ASSUME DispatcherInit PROVE HistoryInv
  OBVIOUS
<1>1. HistoryOK /\ Len(handles) = 0
  BY WidthAssumption DEF DispatcherInit, HistoryOK
<1>2. OwnersOpen
  BY DEF DispatcherInit, OwnersOpen, Armed
<1>3. IdsInTurn
  <2>1. Turn(1) = 1
    <3>1. SeqMod - 1 \in Nat \ {0} /\ (SeqMod - 1) * 0 + 0 = 1 - 1
      BY WidthAssumption
    <3>2. (1 - 1) % (SeqMod - 1) = 0
      BY <3>1, RemainderOf
    <3>3. QED BY <3>2 DEF Turn
  <2>2. NextSequence(0).value = 1
    BY DEF NextSequence
  <2>3. QED BY <1>1, <2>1, <2>2 DEF DispatcherInit, IdsInTurn
<1>4. QED BY <1>1, <1>2, <1>3 DEF HistoryInv

\* Ending the timer of one slot leaves the others open.
LEMMA ClearHistory ==
  ASSUME SlotsOK, HistoryInv, NEW i \in TimerSlots, NEW r \in Outcomes, ClearSlot(i),
         outcome' = Ended(outcome, i, r), UNCHANGED <<sequence, handles, arming>>
  PROVE  HistoryInv'
<1>1. /\ timers'[i].task = NoTask
      /\ \A j \in TimerSlots \ {i} : timers'[j] = timers[j]
  BY DEF ClearSlot, SlotsOK
<1>2. Armed' = Armed \ {i}
  BY <1>1 DEF Armed
<1>3. /\ outcome' \in Seq(Outcomes) /\ Len(outcome') = Len(outcome)
      /\ i \notin Armed => outcome' = outcome
      /\ i \in Armed => \A n \in 1..Len(outcome) :
                          n # arming[i] => outcome'[n] = outcome[n]
  BY DEF Ended, HistoryInv, HistoryOK, OwnersOpen
<1>4. HistoryOK'
  BY <1>3 DEF HistoryInv, HistoryOK
<1>5. OwnersOpen'
  <2> SUFFICES ASSUME NEW j \in Armed'
               PROVE  /\ arming[j] \in 1..Len(handles)
                      /\ outcome'[arming[j]] = "armed"
                      /\ timers'[j].id = handles[arming[j]]
                      /\ \A k \in Armed' : arming[k] = arming[j] => k = j
    BY DEF OwnersOpen
  <2>1. j \in Armed /\ j # i /\ j \in TimerSlots
    BY <1>2 DEF Armed
  <2>2. outcome'[arming[j]] = outcome[arming[j]]
    BY <1>3, <2>1 DEF HistoryInv, HistoryOK, OwnersOpen
  <2>3. QED BY <1>1, <1>2, <2>1, <2>2 DEF HistoryInv, OwnersOpen
<1>6. IdsInTurn'
  BY DEF HistoryInv, IdsInTurn
<1>7. QED BY <1>4, <1>5, <1>6 DEF HistoryInv

\* SetTimer ends the timer it replaces and opens one under a new id.
LEMMA SetTimerHistory ==
  ASSUME SlotsOK, HistoryInv, NEW w \in Work, NEW period \in 0..MaxPeriod,
         SetTimer(w, period)
  PROVE  HistoryInv'
<1> DEFINE n == Len(handles) + 1
           v == NextSequence(sequence).value
<1>1. PICK i \in TimerSlots :
        /\ timers' = [timers EXCEPT ![i] =
             IF period = 0
             THEN [task |-> NoTask, time |-> 0, id |-> v + SeqMod * i]
             ELSE [task |-> w, time |-> (Ticks + period) % TickMod,
                   id |-> v + SeqMod * i]]
        /\ sequence' = NextSequence(sequence).next
        /\ handles' = Append(handles, v + SeqMod * i)
        /\ arming' = [arming EXCEPT ![i] = n]
        /\ outcome' = Append(Ended(outcome, i, "stopped"),
                             IF period = 0 THEN "stopped" ELSE "armed")
  BY DEF SetTimer, TimerSlotFor, FirstOf
<1>2. n \in Nat \ {0} /\ v = Turn(n) /\ v \in Int /\ i \in Int /\ SeqMod \in Int
  <2>1. n \in Nat \ {0} /\ v = Turn(n)
    BY DEF HistoryInv, HistoryOK, IdsInTurn
  <2>2. Turn(n) \in Int
    BY <2>1, TurnAdvances, WidthAssumption
  <2>3. QED BY <2>1, <2>2, TimersLenAssumption, WidthAssumption DEF TimerSlots
<1>3. sequence' \in 0..(SeqMod - 1) /\ NextSequence(sequence').value = Turn(n + 1)
  BY <1>1, <1>2, SequenceAdvances DEF HistoryInv, HistoryOK
<1>4. v + SeqMod * i = SeqMod * i + Turn(n) /\ v + SeqMod * i \in Int
  BY <1>2
<1> DEFINE id == v + SeqMod * i
<1>5. /\ timers'[i].id = id
      /\ i \in Armed' => period # 0
      /\ \A j \in TimerSlots \ {i} : timers'[j] = timers[j]
  BY <1>1 DEF SlotsOK, Armed
<1>6. PICK old \in Seq(Outcomes) :
        /\ old = Ended(outcome, i, "stopped") /\ Len(old) = Len(outcome)
        /\ i \in Armed => \A m \in 1..Len(outcome) :
                            m # arming[i] => old[m] = outcome[m]
        /\ i \notin Armed => old = outcome
  <2>1. "stopped" \in Outcomes
    BY DEF Outcomes
  <2>2. /\ outcome \in Seq(Outcomes) /\ Len(outcome) = Len(handles)
        /\ i \in Armed => arming[i] \in 1..Len(outcome)
    BY DEF HistoryInv, HistoryOK, OwnersOpen
  <2>3. CASE i \in Armed
    <3>1. Ended(outcome, i, "stopped") = [outcome EXCEPT ![arming[i]] = "stopped"]
      BY <2>3 DEF Ended
    <3>2. [outcome EXCEPT ![arming[i]] = "stopped"] \in Seq(Outcomes)
      BY <2>1, <2>2, <2>3
    <3>3. /\ Len([outcome EXCEPT ![arming[i]] = "stopped"]) = Len(outcome)
          /\ \A m \in 1..Len(outcome) : m # arming[i] =>
               [outcome EXCEPT ![arming[i]] = "stopped"][m] = outcome[m]
      BY <2>1, <2>2, <2>3
    <3>4. QED BY <2>3, <3>1, <3>2, <3>3
  <2>4. CASE i \notin Armed
    BY <2>2, <2>4 DEF Ended
  <2>5. QED BY <2>3, <2>4
<1> HIDE DEF v, id, n
<1>7. /\ handles' = Append(handles, id)
      /\ id = SeqMod * i + Turn(n)
      /\ id \in Int
  BY <1>1, <1>4 DEF id
<1>8. /\ handles' \in Seq(Int) /\ Len(handles') = n /\ handles'[n] = id
      /\ \A m \in 1..Len(handles) : handles'[m] = handles[m]
  BY <1>7 DEF HistoryInv, HistoryOK, n
<1>9. /\ outcome' \in Seq(Outcomes) /\ Len(outcome') = n
      /\ period # 0 => outcome'[n] = "armed"
      /\ \A m \in 1..Len(handles) : outcome'[m] = old[m]
  <2> DEFINE r == IF period = 0 THEN "stopped" ELSE "armed"
  <2>1. r \in Outcomes /\ (period # 0 => r = "armed")
    BY DEF Outcomes
  <2> HIDE DEF r
  <2>2. outcome' = Append(old, r) /\ Len(old) = Len(handles)
    BY <1>1, <1>6 DEF r, HistoryInv, HistoryOK
  <2>3. QED BY <1>6, <2>1, <2>2 DEF n
<1>10. /\ arming' \in [TimerSlots -> Nat] /\ arming'[i] = n
       /\ \A j \in TimerSlots \ {i} : arming'[j] = arming[j]
  BY <1>1, <1>2 DEF HistoryInv, HistoryOK
<1>11. n = Len(handles) + 1 /\ Len(handles) \in Nat
  BY DEF n, HistoryInv, HistoryOK
<1>12. HistoryOK'
  BY <1>3, <1>8, <1>9, <1>10 DEF HistoryOK
<1>13. \A j \in Armed' : j \in TimerSlots /\ (j # i => j \in Armed)
  BY <1>5 DEF Armed
<1>14. \A j \in Armed : arming[j] \in 1..Len(handles)
  BY DEF HistoryInv, OwnersOpen
<1>15. OwnersOpen'
  <2> SUFFICES ASSUME NEW j \in Armed'
               PROVE  /\ arming'[j] \in 1..n
                      /\ outcome'[arming'[j]] = "armed"
                      /\ timers'[j].id = handles'[arming'[j]]
                      /\ \A k \in Armed' : arming'[k] = arming'[j] => k = j
    BY <1>8 DEF OwnersOpen
  <2>1. CASE j = i
    <3>1. period # 0 /\ arming'[j] = n
      BY <1>5, <1>10, <2>1
    <3>2. \A k \in Armed' : arming'[k] = n => k = j
      BY <1>10, <1>11, <1>13, <1>14, <2>1
    <3>3. QED BY <1>5, <1>8, <1>9, <1>11, <2>1, <3>1, <3>2
  <2>2. CASE j # i
    <3>1. j \in Armed /\ j \in TimerSlots /\ arming'[j] = arming[j]
          /\ arming[j] \in 1..Len(handles)
      BY <1>10, <1>13, <1>14, <2>2
    <3>2. outcome[arming[j]] = "armed" /\ timers[j].id = handles[arming[j]]
          /\ \A k \in Armed : arming[k] = arming[j] => k = j
      BY <3>1 DEF HistoryInv, OwnersOpen
    <3>3. outcome'[arming'[j]] = "armed"
      <4>1. i \in Armed => arming[i] # arming[j]
        BY <2>2, <3>2
      <4>2. old[arming[j]] = "armed"
        BY <1>6, <3>1, <3>2, <4>1 DEF HistoryInv, HistoryOK
      <4>3. QED BY <1>9, <3>1, <4>2
    <3>4. timers'[j].id = handles'[arming'[j]]
      BY <1>5, <1>8, <2>2, <3>1, <3>2
    <3>5. \A k \in Armed' : arming'[k] = arming'[j] => k = j
      BY <1>10, <1>11, <1>13, <3>1, <3>2
    <3>6. QED BY <1>11, <3>1, <3>3, <3>4, <3>5
  <2>3. QED BY <2>1, <2>2
<1>16. IdsInTurn'
  <2>1. \A j \in TimerSlots : arming[j] \in Nat /\ arming[j] <= Len(handles)
    BY DEF HistoryInv, HistoryOK, IdsInTurn
  <2>2. \A j \in TimerSlots : arming[j] <= arming'[j] /\ arming'[j] <= n
    BY <1>10, <1>11, <2>1
  <2>3. ASSUME NEW m \in 1..n
        PROVE  \E j \in TimerSlots : /\ handles'[m] = SeqMod * j + Turn(m)
                                     /\ m <= arming'[j]
    <3>1. CASE m = n
      BY <1>7, <1>8, <1>10, <1>11, <3>1
    <3>2. CASE m # n
      <4>1. m \in 1..Len(handles) /\ handles'[m] = handles[m]
        BY <1>8, <1>11, <3>2
      <4>2. PICK j \in TimerSlots : handles[m] = SeqMod * j + Turn(m)
                                    /\ m <= arming[j]
        BY <4>1 DEF HistoryInv, IdsInTurn
      <4>3. m <= arming'[j]
        BY <2>1, <2>2, <4>1, <4>2, <1>10
      <4>4. QED BY <4>1, <4>2, <4>3
    <3>3. QED BY <3>1, <3>2
  <2>4. QED BY <1>3, <1>8, <2>2, <2>3 DEF IdsInTurn
<1>17. QED BY <1>12, <1>15, <1>16 DEF HistoryInv

\* Every step keeps the owners and the ids.
LEMMA NextHistory ==
  SlotsOK /\ PostsDue /\ HistoryInv /\ [DispatcherNext]_dispatcherVars
    => HistoryInv'
<1> SUFFICES ASSUME SlotsOK, PostsDue, HistoryInv, [DispatcherNext]_dispatcherVars
             PROVE  HistoryInv'
  OBVIOUS
<1>1. CASE UNCHANGED <<sequence, timers, handles, arming, outcome>>
  BY <1>1 DEF HistoryInv, HistoryOK, OwnersOpen, IdsInTurn, Armed
<1>2. ASSUME NEW i \in TimerSlots, NEW t, timers' = [timers EXCEPT ![i].time = t],
             UNCHANGED <<sequence, handles, arming, outcome>>
      PROVE  HistoryInv'
  <2>1. \A j \in TimerSlots :
          timers'[j].task = timers[j].task /\ timers'[j].id = timers[j].id
    BY <1>2 DEF SlotsOK
  <2>2. Armed' = Armed /\ Armed \subseteq TimerSlots
    BY <2>1 DEF Armed
  <2>3. OwnersOpen'
    BY <1>2, <2>1, <2>2 DEF HistoryInv, OwnersOpen
  <2>4. QED BY <1>2, <2>3 DEF HistoryInv, HistoryOK, IdsInTurn
<1>3. QED BY <1>1, <1>2, OwnerSteps, ClearHistory, SetTimerHistory

\* What the history records about owners and ids holds in every reachable state.
THEOREM HistoryInvariant ==
  DispatcherSpec => [](TypeOK /\ SlotsOK /\ PostsDue /\ HistoryInv)
<1>1. TimerInv => SlotsOK
  BY DEF TimerInv
<1>2. QED
  BY <1>1, TimerInvariant, InitHistory, NextHistory, PTL DEF DispatcherSpec

\* The slot TimerHandler is posting belongs to an open SetTimer.
FiredIsOpen ==
  phase = "scan" /\ pc[Main] = "setTask" /\ pc'[Main] = "idle"
    => Open(arming[scan.i])

\* The task of a SetTimer is posted at most once, and not after the timer was
\* stopped or replaced.
THEOREM TimersFireOnce == DispatcherSpec => FiresOnce
<1>1. PostsDue /\ HistoryInv /\ [DispatcherNext]_dispatcherVars => FiredIsOpen
  BY DEF PostsDue, HistoryInv, HistoryOK, OwnersOpen, FiredIsOpen, Open, Due, Armed
<1>2. DispatcherSpec => [][FiredIsOpen]_dispatcherVars
  BY <1>1, HistoryInvariant, PTL DEF DispatcherSpec
<1>3. QED BY <1>2 DEF FiresOnce, FiredIsOpen

\* What StopTimer and RestartTimer with an id may end or move.
HarmsOwnTimer ==
  \A n \in 1..Len(handles) :
    StopId(n) \/ (\E period \in 0..MaxPeriod : RestartTimer(n, period)) =>
      \A i \in Armed :
        timers'[i] # timers[i]
          => arming[i] = n \/ arming[i] - n >= SeqMod - 1

\* The slot an id names was last written by the SetTimer that returned it or by
\* a later one; if the ids are equal the two are a whole turn of the sequence
\* apart.
LEMMA IdHarmsOwn == SlotsOK /\ HistoryInv => HarmsOwnTimer
<1> SUFFICES ASSUME SlotsOK, HistoryInv, NEW n \in 1..Len(handles),
                    StopId(n) \/ (\E period \in 0..MaxPeriod : RestartTimer(n, period)),
                    NEW i \in Armed, timers'[i] # timers[i]
             PROVE  arming[i] = n \/ arming[i] - n >= SeqMod - 1
  BY DEF HarmsOwnTimer
<1> DEFINE a == arming[i]
<1>1. i \in TimerSlots /\ timers[i].task # NoTask
  BY DEF Armed
<1>2. timers[i].id = handles[n] /\ i = handles[n] \div SeqMod
  <2>1. PICK k \in TimerSlots :
               /\ k = handles[n] \div SeqMod
               /\ timers[k].id = handles[n]
               /\ ClearSlot(k) \/ \E t : timers' = [timers EXCEPT ![k].time = t]
    BY DEF StopId, RestartTimer, SlotOf
  <2>2. i = k
    BY <1>1, <2>1 DEF ClearSlot, SlotsOK
  <2>3. QED BY <2>1, <2>2
<1>3. a \in 1..Len(handles) /\ handles[a] = handles[n]
  BY <1>2 DEF HistoryInv, OwnersOpen
<1>4. PICK j \in TimerSlots : handles[n] = SeqMod * j + Turn(n) /\ n <= arming[j]
  BY DEF HistoryInv, IdsInTurn
<1>5. PICK k \in TimerSlots : handles[a] = SeqMod * k + Turn(a)
  BY <1>3 DEF HistoryInv, IdsInTurn
<1>6. /\ SeqMod \in Nat \ {0} /\ j \in Int /\ k \in Int
      /\ Turn(n) \in 0..(SeqMod - 1) /\ Turn(a) \in 0..(SeqMod - 1)
      /\ n \in Nat \ {0} /\ a \in Nat \ {0}
  <2>1. Len(handles) \in Nat
    BY DEF HistoryInv, HistoryOK
  <2>2. n \in Nat \ {0} /\ a \in Nat \ {0}
    BY <1>3, <2>1
  <2>3. Turn(n) \in 1..(SeqMod - 1) /\ Turn(a) \in 1..(SeqMod - 1)
    BY <2>2, TurnAdvances, Zenon
  <2> HIDE DEF a
  <2>4. QED BY <2>2, <2>3, TimersLenAssumption, WidthAssumption DEF TimerSlots
<1> HIDE DEF a
<1>7. SeqMod * j + Turn(n) = SeqMod * k + Turn(a)
  BY <1>3, <1>4, <1>5
<1>8. j = k
  BY <1>6, <1>7, QuotientUnique
<1>9. Turn(n) = Turn(a)
  <2>1. SeqMod * j \in Int
    BY <1>6
  <2>2. QED BY <1>6, <1>7, <1>8, <2>1
<1>10. i = j
  <2> DEFINE h == handles[n]
  <2>1. h \in Int /\ h = SeqMod * j + Turn(n) /\ i = h \div SeqMod
    BY <1>2, <1>4 DEF HistoryInv, HistoryOK
  <2> HIDE DEF h
  <2>2. /\ h \div SeqMod \in Int /\ h % SeqMod \in 0..(SeqMod - 1)
        /\ h = SeqMod * (h \div SeqMod) + (h % SeqMod)
    BY <1>6, <2>1, DivMod
  <2>3. h \div SeqMod = j
    BY <1>6, <2>1, <2>2, QuotientUnique
  <2>4. QED BY <2>1, <2>3
<1>11. n <= a
  BY <1>4, <1>10 DEF a
<1>12. a = n \/ a - n >= SeqMod - 1
  BY <1>6, <1>9, <1>11, TurnGap
<1>13. QED BY <1>12 DEF a

\* An id that outlived its timer stops and moves no other, unless the sequence
\* numbers have wrapped round.
THEOREM StaleIdsAreHarmless == DispatcherSpec => StaleIdHarmless
<1>1. DispatcherSpec => [][HarmsOwnTimer]_dispatcherVars
  BY IdHarmsOwn, HistoryInvariant, PTL DEF DispatcherSpec
<1>2. QED BY <1>1 DEF StaleIdHarmless, HarmsOwnTimer

-----------------------------------------------------------------------------
(* The ring implements the bounded first-in first-out queue of TaskFifo    *)
(* until a task is stored over for the first time.                         *)

\* The n tasks accepted last, when p were accepted in all.
Newest(n, p) == [k \in 1..n |-> p - n + k]

LEMMA NewestElements ==
  ASSUME NEW n \in Nat, NEW p \in Nat
  PROVE  /\ Newest(n, p) \in Seq(Int) /\ Len(Newest(n, p)) = n
         /\ \A k \in 1..n : Newest(n, p)[k] = p - n + k
BY DEF Newest

LEMMA NewestProperties ==
  ASSUME NEW n \in Nat, NEW p \in Nat
  PROVE  /\ Newest(n, p) \in Seq(Int)
         /\ Len(Newest(n, p)) = n
         /\ Append(Newest(n, p), p + 1) = Newest(n + 1, p + 1)
         /\ n > 0 => /\ Newest(n, p) # <<>>
                     /\ Head(Newest(n, p)) = p - n + 1
                     /\ Tail(Newest(n, p)) = Newest(n - 1, p)
<1> DEFINE s == Newest(n, p)
<1>1. /\ s \in Seq(Int) /\ Len(s) = n
      /\ \A k \in 1..n : s[k] = p - n + k
  BY NewestElements, Zenon
<1>2. p + 1 \in Int /\ p + 1 \in Nat /\ n + 1 \in Nat
  OBVIOUS
<1> HIDE DEF s
<1>3. Append(s, p + 1) = Newest(n + 1, p + 1)
  <2> DEFINE a == Append(s, p + 1)
             b == Newest(n + 1, p + 1)
  <2>1. /\ a \in Seq(Int) /\ Len(a) = n + 1
        /\ \A k \in 1..n : a[k] = s[k]
        /\ a[n + 1] = p + 1
    BY <1>1, <1>2, AppendProperties
  <2>2. /\ b \in Seq(Int) /\ Len(b) = n + 1
        /\ \A k \in 1..(n + 1) : b[k] = (p + 1) - (n + 1) + k
    BY <1>2, NewestElements, Zenon
  <2> HIDE DEF a, b
  <2>3. \A k \in 1..Len(a) : a[k] = b[k]
    <3> SUFFICES ASSUME NEW k \in 1..(n + 1) PROVE a[k] = b[k]
      BY <2>1
    <3>1. b[k] = p - n + k
      BY <2>2
    <3>2. CASE k = n + 1
      BY <2>1, <3>1, <3>2
    <3>3. CASE k \in 1..n
      BY <1>1, <2>1, <3>1, <3>3
    <3>4. QED BY <3>2, <3>3
  <2>4. a = b
    BY <2>1, <2>2, <2>3, SeqEqual
  <2>5. QED BY <2>4 DEF a, b
<1>4. ASSUME n > 0
      PROVE  s # <<>> /\ Head(s) = p - n + 1 /\ Tail(s) = Newest(n - 1, p)
  <2> DEFINE a == Tail(s)
             b == Newest(n - 1, p)
  <2>1. s # <<>>
    BY <1>1, <1>4
  <2>2. Head(s) = p - n + 1
    BY <1>1, <1>4, <2>1
  <2>3. a \in Seq(Int) /\ Len(a) = n - 1 /\ \A k \in 1..(n - 1) : a[k] = s[k + 1]
    BY <1>1, <2>1, HeadTailProperties
  <2>4. b \in Seq(Int) /\ Len(b) = n - 1
        /\ \A k \in 1..(n - 1) : b[k] = p - (n - 1) + k
    <3>1. n - 1 \in Nat
      BY <1>4
    <3>2. QED BY <3>1, NewestElements, Zenon
  <2> HIDE DEF a, b
  <2>5. \A k \in 1..Len(a) : a[k] = b[k]
    BY <1>1, <1>4, <2>3, <2>4
  <2>6. a = b
    BY <2>3, <2>4, <2>5, SeqEqual
  <2>7. QED BY <2>1, <2>2, <2>6 DEF a, b
<1>5. QED BY <1>1, <1>3, <1>4 DEF s

\* The tasks that wait and the one Poll holds are the newest ones, in order.
LEMMA WaitingIsNewest ==
  ASSUME IInv, ~overrun
  PROVE  /\ Waiting = Newest(count + InFlight, posted)
         /\ count \in Nat /\ InFlight \in 0..1 /\ posted \in Nat
<1> DEFINE head == IF pc[Main] = "invoke" THEN <<tasks[ref]>> ELSE <<>>
           rest == [k \in 1..count |-> tasks[SlotAt(k - 1)]]
           n == count + InFlight
           b == Newest(n, posted)
<1>1. count \in Nat /\ posted \in Nat /\ tasks \in [Slots -> Nat] /\ ref \in Slots
  BY DEF IInv, TypeOK
<1>2. InFlight \in 0..1 /\ (InFlight = 1 <=> pc[Main] = "invoke")
  BY DEF InFlight
<1>3. \A k \in 1..count : tasks[SlotAt(k - 1)] = posted - count + k
  <2>1. ASSUME NEW k \in 1..count PROVE tasks[SlotAt(k - 1)] = posted - count + k
    <3>1. k - 1 \in 0..(count - 1)
      BY <1>1
    <3>2. tasks[SlotAt(k - 1)] = posted - count + (k - 1) + 1
      BY <3>1 DEF IInv, OrderUnlessOverrun
    <3>3. QED BY <1>1, <3>2
  <2>2. QED BY <2>1
<1>4. /\ head \in Seq(Int) /\ Len(head) = InFlight
      /\ InFlight = 1 => head[1] = posted - count
  <2>1. CASE pc[Main] = "invoke"
    <3>1. tasks[ref] = posted - count
      BY <2>1 DEF IInv, OrderUnlessOverrun
    <3>2. head = <<posted - count>> /\ InFlight = 1
      BY <2>1, <3>1 DEF InFlight
    <3> HIDE DEF head
    <3>3. QED BY <1>1, <3>2
  <2>2. CASE pc[Main] # "invoke"
    BY <2>2 DEF InFlight
  <2>3. QED BY <2>1, <2>2
<1>5. /\ rest \in Seq(Int) /\ Len(rest) = count
      /\ \A k \in 1..count : rest[k] = posted - count + k
  <2>1. rest = [k \in 1..count |-> posted - count + k]
    BY <1>3
  <2> HIDE DEF rest
  <2>2. QED BY <1>1, <2>1
<1>6. Waiting = head \o rest
  BY DEF Waiting
<1>7. n \in Nat
  BY <1>1, <1>2
<1>8. b \in Seq(Int) /\ Len(b) = n /\ \A k \in 1..n : b[k] = posted - n + k
  <2> HIDE DEF n
  <2>1. b \in Seq(Int) /\ Len(b) = n
    BY <1>1, <1>7, NewestProperties
  <2>2. QED BY <1>1, <1>7, <2>1 DEF Newest
<1> HIDE DEF head, rest, b
<1> DEFINE a == head \o rest
<1>9. /\ a \in Seq(Int) /\ Len(a) = InFlight + count
      /\ \A k \in 1..(InFlight + count) :
           a[k] = IF k <= InFlight THEN head[k] ELSE rest[k - InFlight]
  <2>1. /\ a \in Seq(Int) /\ Len(a) = Len(head) + Len(rest)
        /\ \A k \in 1..(Len(head) + Len(rest)) :
             a[k] = IF k <= Len(head) THEN head[k] ELSE rest[k - Len(head)]
    BY <1>4, <1>5, ConcatProperties
  <2> HIDE DEF a
  <2>2. QED BY <1>4, <1>5, <2>1
<1> HIDE DEF a
<1>10. \A k \in 1..n : a[k] = b[k]
  <2> SUFFICES ASSUME NEW k \in 1..n PROVE a[k] = b[k]
    OBVIOUS
  <2>1. CASE k <= InFlight
    <3>1. k = 1 /\ InFlight = 1
      BY <1>1, <1>2, <2>1
    <3>2. QED BY <1>1, <1>4, <1>8, <1>9, <3>1
  <2>2. CASE k > InFlight
    <3>1. k - InFlight \in 1..count
      BY <1>1, <1>2, <2>2
    <3>2. QED BY <1>1, <1>2, <1>5, <1>8, <1>9, <2>2, <3>1
  <2>3. QED BY <1>1, <1>2, <2>1, <2>2
<1>11. a = b
  <2>1. Len(a) = Len(b) /\ Len(a) = n
    BY <1>1, <1>2, <1>8, <1>9
  <2>2. QED BY <1>8, <1>9, <1>10, <2>1, SeqEqual
<1>12. QED BY <1>1, <1>2, <1>6, <1>11 DEF a, b

\* Until the first overrun, every step of the ring accepts a task, runs one, or
\* is not seen.
LEMMA StepIsFifoStep ==
  ASSUME IInv, IInv', ~overrun', [Next]_vars
  PROVE  [Fifo!FifoNext]_(Fifo!fifoVars)
<1>1. Main \in Contexts
  BY DEF Contexts, Main
<1>2. ~overrun
  <2>1. CASE UNCHANGED vars
    BY <2>1 DEF vars, queueVars
  <2>2. ASSUME NEW c \in Contexts, SetTaskEnd(c) PROVE ~overrun
    BY <2>2, Zenon DEF SetTaskEnd, SetTaskStore
  <2>3. ASSUME NEW c \in Contexts, SetTaskBegin(c) PROVE ~overrun
    BY <2>3 DEF SetTaskBegin, SetTaskTest, queueVars
  <2>4. CASE Poll
    BY <2>4 DEF Poll, PollTest, PollTake, PollInvoke, PollEmpty, vars, queueVars
  <2>5. QED BY <2>1, <2>2, <2>3, <2>4 DEF Next
<1>3. /\ Waiting = Newest(count + InFlight, posted)
      /\ count \in Nat /\ InFlight \in 0..1 /\ posted \in Nat
  BY <1>2, WaitingIsNewest
<1>4. /\ Waiting' = Newest(count' + InFlight', posted')
      /\ count' \in Nat /\ InFlight' \in 0..1 /\ posted' \in Nat
  <2>1. ASSUME IInv', ~overrun'
        PROVE  (/\ Waiting = Newest(count + InFlight, posted)
                /\ count \in Nat /\ InFlight \in 0..1 /\ posted \in Nat)'
    BY <2>1, WaitingIsNewest, PTL
  <2>2. QED BY <2>1 DEF Newest
<1>5. ASSUME NEW c \in Contexts, SetTaskEnd(c)
      PROVE  [Fifo!FifoNext]_(Fifo!fifoVars)
  <2>1. /\ count' = count + 1 /\ posted' = posted + 1 /\ invoked' = invoked
        /\ overrun' = (overrun \/ count + InFlight >= TasksLen)
        /\ InFlight' = InFlight
    BY <1>1, <1>5 DEF SetTaskEnd, SetTaskStore, Goto, InFlight, IInv, TypeOK
  <2> DEFINE n == count + InFlight
  <2>2. n \in Nat /\ n < TasksLen /\ count' + InFlight' = n + 1
    <3>1. ~(count + InFlight >= TasksLen)
      BY <2>1, Zenon
    <3>2. QED BY <1>3, <2>1, <3>1
  <2>3. Waiting = Newest(n, posted) /\ Waiting' = Newest(n + 1, posted + 1)
    BY <1>3, <1>4, <2>1, <2>2
  <2> HIDE DEF n
  <2>4. /\ Len(Newest(n, posted)) = n
        /\ Append(Newest(n, posted), posted + 1) = Newest(n + 1, posted + 1)
    BY <1>3, <2>2, NewestProperties, Zenon
  <2>5. Len(Waiting) < TasksLen /\ Waiting' = Append(Waiting, posted + 1)
    BY <2>2, <2>3, <2>4
  <2>6. QED BY <2>1, <2>5 DEF Fifo!FifoNext, Fifo!Accept
<1>6. CASE PollInvoke
  <2>1. /\ count' = count /\ posted' = posted
        /\ invoked' = Append(invoked, tasks[ref])
        /\ pc[Main] = "invoke" /\ pc'[Main] = "idle"
    BY <1>1, <1>6 DEF PollInvoke, Goto, IInv, TypeOK
  <2>2. InFlight = 1 /\ InFlight' = 0 /\ tasks[ref] = posted - count
    BY <1>2, <2>1 DEF InFlight, IInv, OrderUnlessOverrun
  <2>3. /\ Waiting = Newest(count + 1, posted) /\ Waiting' = Newest(count, posted)
        /\ count + 1 \in Nat /\ count + 1 > 0 /\ (count + 1) - 1 = count
        /\ posted - (count + 1) + 1 = posted - count
    <3>1. count + InFlight = count + 1 /\ count' + InFlight' = count
      BY <1>3, <2>1, <2>2
    <3>2. Waiting = Newest(count + 1, posted) /\ Waiting' = Newest(count, posted)
      BY <1>3, <1>4, <2>1, <3>1
    <3>3. QED BY <1>3, <3>2
  <2> DEFINE n == count + 1
  <2>4. n \in Nat /\ n > 0
    BY <2>3
  <2> HIDE DEF n
  <2>5. /\ Newest(n, posted) # <<>> /\ Head(Newest(n, posted)) = posted - n + 1
        /\ Tail(Newest(n, posted)) = Newest(n - 1, posted)
    BY <1>3, <2>4, NewestProperties, Zenon
  <2>6. /\ Waiting # <<>> /\ Head(Waiting) = posted - count
        /\ Tail(Waiting) = Waiting'
    BY <2>3, <2>5 DEF n
  <2>7. QED BY <2>1, <2>2, <2>6 DEF Fifo!FifoNext, Fifo!Run
<1>7. ASSUME \/ \E c \in Contexts : SetTaskBegin(c)
             \/ PollTest \/ PollTake \/ PollEmpty \/ UNCHANGED vars
      PROVE  UNCHANGED Fifo!fifoVars
  <2>1. /\ posted' = posted /\ invoked' = invoked
        /\ count' + InFlight' = count + InFlight
    <3>1. CASE (\E c \in Contexts : SetTaskBegin(c)) \/ PollTest
      <4>1. /\ UNCHANGED <<posted, invoked, count>>
            /\ pc'[Main] = "invoke" <=> pc[Main] = "invoke"
        BY <1>1, <3>1 DEF SetTaskBegin, SetTaskTest, PollTest, queueVars, Goto,
                          IInv, TypeOK
      <4>2. QED BY <4>1 DEF InFlight
    <3>2. CASE PollTake
      <4>1. /\ UNCHANGED <<posted, invoked>> /\ count' = count - 1
            /\ pc[Main] = "take" /\ pc'[Main] = "invoke"
        BY <1>1, <3>2 DEF PollTake, Goto, IInv, TypeOK
      <4>2. QED BY <1>3, <4>1 DEF InFlight
    <3>3. CASE PollEmpty \/ UNCHANGED vars
      BY <3>3 DEF PollEmpty, vars, queueVars, InFlight
    <3>4. QED BY <1>7, <3>1, <3>2, <3>3
  <2>2. Waiting' = Waiting
    BY <1>3, <1>4, <2>1
  <2>3. QED BY <2>1, <2>2 DEF Fifo!fifoVars
<1>8. QED BY <1>5, <1>6, <1>7 DEF Next, Poll

\* The constructed queue is an empty TaskFifo.
LEMMA InitIsFifoInit == Init => Fifo!FifoInit
<1> SUFFICES ASSUME Init PROVE Fifo!FifoInit
  OBVIOUS
<1>1. count = 0 /\ posted = 0 /\ invoked = <<>> /\ InFlight = 0 /\ ~overrun
  BY DEF Init, InFlight, Main, Contexts
<1>2. Waiting = Newest(0, 0)
  BY <1>1, InitIInv, WaitingIsNewest
<1>3. Newest(0, 0) = <<>>
  BY NewestProperties
<1>4. QED BY <1>1, <1>2, <1>3 DEF Fifo!FifoInit

\* A step of the ring that is not the first overrun, nor after it.
FifoStep == overrun' \/ [Fifo!FifoNext]_(Fifo!fifoVars)

\* Until the first overrun the queue behaves as a bounded queue that runs every
\* accepted task once and in order, with every interrupt level posting.
THEOREM QueueBehavesAsFifo == Spec => ImplementsFifo
<1>1. IInv /\ IInv' /\ [Next]_vars => FifoStep
  BY StepIsFifoStep DEF FifoStep
<1>2. Spec => [][FifoStep]_vars
  BY <1>1, QueueInvariant, PTL DEF Spec
<1>3. Spec => Fifo!FifoInit
  BY InitIsFifoInit, PTL DEF Spec
<1>4. QED BY <1>2, <1>3 DEF ImplementsFifo, FifoStep

\* The same for the dispatcher with timers, whose TimerHandler posts too; and a
\* run of it without an overrun is a run of TaskFifo.
THEOREM DispatcherBehavesAsFifo ==
  DispatcherSpec => /\ ImplementsFifo
                    /\ LostOnlyByOverrun
                    /\ []~overrun => Fifo!FifoSpec
<1>1. IInv /\ IInv' /\ [Next]_vars => FifoStep
  BY StepIsFifoStep DEF FifoStep
<1>2. FifoStep /\ ~overrun' => [Fifo!FifoNext]_(Fifo!fifoVars)
  BY DEF FifoStep
<1>3. DispatcherSpec => Fifo!FifoInit /\ Spec
  BY DispatcherImplementsQueue, InitIsFifoInit, PTL DEF QueueSpec, Spec
<1>4. UNCHANGED vars => UNCHANGED Fifo!fifoVars
  BY DEF vars, queueVars, Fifo!fifoVars, Waiting, SlotAt
<1>5. DispatcherSpec => ([]~overrun => Fifo!FifoSpec)
  BY <1>1, <1>2, <1>3, <1>4, QueueInvariant, PTL DEF Spec, Fifo!FifoSpec
<1>6. QED
  BY <1>3, <1>5, QueueBehavesAsFifo, AcceptedTasksAreKept, PTL
==============================================================================
