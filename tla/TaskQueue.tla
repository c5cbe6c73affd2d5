------------------------------ MODULE TaskQueue ------------------------------
(***************************************************************************)
(* The task queue of Mcucpp::Dispatcher (mcucpp/dispatcher.h): SetTask and *)
(* the queue half of Poll, called from the main loop and from interrupt    *)
(* handlers that preempt it.                                               *)
(*                                                                         *)
(* Context 0 is the main loop.  Contexts 1..Levels are the interrupt       *)
(* priority levels whose handlers call SetTask (the USART and I2C handlers *)
(* do).  A context runs only while every higher one is idle; a handler may *)
(* start between any two steps, because a section executed under           *)
(* DisableInterrupts or ATOMIC is one step here and interrupts are enabled *)
(* everywhere else.                                                        *)
(*                                                                         *)
(* A posted task (a task_t and its tag) is represented by the number of    *)
(* the SetTask call that was accepted: 1, 2, 3, ...  The default TaskItem, *)
(* whose task pointer is null, is 0.                                       *)
(***************************************************************************)
EXTENDS Integers, Sequences

CONSTANTS
  TasksLen,  \* _tasksLen, the capacity of the queue
  Levels,    \* number of interrupt levels that call SetTask; 0: none does
  MaxPosts   \* bound of the model: how many SetTask calls are accepted

ASSUME TasksLenAssumption == TasksLen \in Nat \ {0}
ASSUME LevelsAssumption   == Levels \in Nat
ASSUME MaxPostsAssumption == MaxPosts \in Nat

Contexts == 0..Levels
Main     == 0
Slots    == 0..(TasksLen - 1)

VARIABLES
  count,    \* _count
  first,    \* _first
  last,     \* _last
  tasks,    \* _tasks
  pc,       \* where each context stands inside a Dispatcher method
  ref,      \* the slot Poll's reference "TaskItem &task" is bound to
  posted,   \* history: how many SetTask calls returned true
  invoked,  \* history: the items passed to TaskItem::Invoke, in order
  overrun   \* history: SetTask has stored over a task not yet run

queueVars == <<count, first, last, tasks, ref, posted, invoked, overrun>>
vars == <<queueVars, pc>>

\* Types of the queue: _first and _last stay inside the array; only the main
\* loop is ever inside Poll.
TypeOK ==
  /\ count \in Nat
  /\ first \in Slots
  /\ last \in Slots
  /\ tasks \in [Slots -> Nat]
  /\ pc \in [Contexts -> {"idle", "setTask", "take", "invoke"}]
  /\ \A c \in Contexts \ {Main} : pc[c] \in {"idle", "setTask"}
  /\ ref \in Slots
  /\ posted \in Nat
  /\ invoked \in Seq(Nat)
  /\ overrun \in BOOLEAN

Init ==
  /\ count = 0
  /\ first = 0
  /\ last = 0
  /\ tasks = [s \in Slots |-> 0]
  /\ pc = [c \in Contexts |-> "idle"]
  /\ ref = 0
  /\ posted = 0
  /\ invoked = <<>>
  /\ overrun = FALSE

\* Context c has the processor: no handler of a higher level is active.
Running(c) == \A d \in Contexts : d > c => pc[d] = "idle"

Goto(c, label) == pc' = [pc EXCEPT ![c] = label]

\* The increment of _first and of _last, with its wrap.
Advance(s) == IF s + 1 >= TasksLen THEN 0 ELSE s + 1

\* How many tasks Poll took out of the queue and did not run yet.
InFlight == IF pc[Main] = "invoke" THEN 1 ELSE 0

-----------------------------------------------------------------------------
(* SetTask *)

\* Mutant: <= where the code tests _count >= _tasksLen.
SetTaskTestOffByOne(c) == count <= TasksLen /\ UNCHANGED queueVars

\* The test of _count, made while interrupts are still enabled.  When it
\* fails SetTask returns false and has changed nothing.
SetTaskTest(c) ==
  /\ count < TasksLen
  /\ UNCHANGED queueVars

\* Mutant: the slot is stored and _last advanced, _count forgotten.
SetTaskStoreUncounted ==
  /\ tasks' = [tasks EXCEPT ![last] = posted + 1]
  /\ last' = Advance(last)
  /\ posted' = posted + 1
  /\ UNCHANGED <<count, first, ref, invoked, overrun>>

\* The body of SetTask under DisableInterrupts.
SetTaskStore ==
  /\ tasks' = [tasks EXCEPT ![last] = posted + 1]
  /\ last' = Advance(last)
  /\ count' = count + 1
  /\ posted' = posted + 1
  /\ overrun' = (overrun \/ count + InFlight >= TasksLen)
  /\ UNCHANGED <<first, ref, invoked>>

SetTaskBegin(c) ==
  /\ Running(c) /\ pc[c] = "idle"
  /\ posted < MaxPosts
  /\ SetTaskTest(c)
  /\ Goto(c, "setTask")

SetTaskEnd(c) ==
  /\ Running(c) /\ pc[c] = "setTask"
  /\ SetTaskStore
  /\ Goto(c, "idle")

-----------------------------------------------------------------------------
(* Poll, for a Dispatcher without a timer function.  Only the main loop,   *)
(* or a task it invokes, calls Poll.  Invoke is the last thing Poll does,  *)
(* so a task body (which may call SetTask, or Poll again, as the blocking  *)
(* I2C transfers do) runs with the main context idle.                      *)

\* Mutant: the last waiting task is never taken.
PollTestLeavesOne ==
  /\ Running(Main) /\ pc[Main] = "idle"
  /\ count > 1
  /\ ref' = first
  /\ Goto(Main, "take")
  /\ UNCHANGED <<count, first, last, tasks, posted, invoked, overrun>>

PollTest ==
  /\ Running(Main) /\ pc[Main] = "idle"
  /\ count > 0
  /\ ref' = first
  /\ Goto(Main, "take")
  /\ UNCHANGED <<count, first, last, tasks, posted, invoked, overrun>>

\* Mutant: _count is decremented, _first is not moved on.
PollTakeKeepsFirst ==
  /\ Running(Main) /\ pc[Main] = "take"
  /\ count' = count - 1
  /\ Goto(Main, "invoke")
  /\ UNCHANGED <<first, last, tasks, ref, posted, invoked, overrun>>

PollTake ==
  /\ Running(Main) /\ pc[Main] = "take"
  /\ count' = count - 1
  /\ first' = Advance(first)
  /\ Goto(Main, "invoke")
  /\ UNCHANGED <<last, tasks, ref, posted, invoked, overrun>>

\* Mutant: _tasks[_first] is read again after _first moved on.
PollInvokeNext ==
  /\ Running(Main) /\ pc[Main] = "invoke"
  /\ invoked' = Append(invoked, tasks[first])
  /\ Goto(Main, "idle")
  /\ UNCHANGED <<count, first, last, tasks, ref, posted, overrun>>

\* task.Invoke() reads the item through the reference, with interrupts enabled.
PollInvoke ==
  /\ Running(Main) /\ pc[Main] = "invoke"
  /\ invoked' = Append(invoked, tasks[ref])
  /\ Goto(Main, "idle")
  /\ UNCHANGED <<count, first, last, tasks, ref, posted, overrun>>

\* Poll finds no task and returns.
PollEmpty == Running(Main) /\ pc[Main] = "idle" /\ count = 0 /\ UNCHANGED vars

Poll == PollTest \/ PollTake \/ PollInvoke \/ PollEmpty

Next == (\E c \in Contexts : SetTaskBegin(c) \/ SetTaskEnd(c)) \/ Poll

\* The main loop calls Poll for ever, and a SetTask call that was entered
\* returns.  Nobody is obliged to call SetTask.
Fairness == WF_vars(Poll) /\ \A c \in Contexts : WF_vars(SetTaskEnd(c))

Spec == Init /\ [][Next]_vars
FairSpec == Spec /\ Fairness

-----------------------------------------------------------------------------
(* Properties *)

\* The slot k places behind the oldest waiting task.
SlotAt(k) == IF first + k < TasksLen THEN first + k ELSE first + k - TasksLen

\* _last stays _count places ahead of _first (modulo _tasksLen) whatever the
\* interrupt handlers do between the test of _count in SetTask, its critical
\* section, and the ATOMIC block of Poll: the three indices are never torn.
RingCoherent == (first + count - last) % TasksLen = 0

\* SetTask tests _count before it disables interrupts, so the queue may be
\* overrun, but by at most one task for each interrupt level: a context that
\* passed the test holds at most one unfinished SetTask call, and a lower one
\* stays suspended while a higher one runs.
CountBound == count <= TasksLen + Levels

\* The numbers of tasks balance, whatever becomes of each of them.
CountsBalance == Len(invoked) + count + InFlight = posted

\* Why CountBound holds: a context that passed the test of _count leaves room
\* for its own item and for one of every level below it.
OverrunBound ==
  /\ CountBound
  /\ \A c \in Contexts :
       pc[c] = "setTask" => count <= TasksLen - 1 + Levels - c

\* Between its two critical steps Poll holds the oldest task.
PollHolds == pc[Main] = "take" => count > 0 /\ ref = first

\* Poll's reference points to the slot in front of the waiting tasks.
RefBehindFirst == pc[Main] = "invoke" => first = Advance(ref)

\* Until SetTask first stores over a task that has not run, tasks run exactly
\* once and in the order SetTask accepted them, whatever contexts posted them
\* and however SetTask and Poll were interleaved: also while the queue is full,
\* and although Poll invokes through a reference to a slot it has released.
FifoUnlessOverrun == ~overrun => \A k \in 1..Len(invoked) : invoked[k] = k

\* Why FifoUnlessOverrun holds: the waiting tasks lie in order from _first, the
\* task Poll holds lies in front of them, and together they fit.
OrderUnlessOverrun ==
  ~overrun =>
    /\ count + InFlight <= TasksLen
    /\ last = SlotAt(count)
    /\ \A k \in 0..(count - 1) : tasks[SlotAt(k)] = posted - count + k + 1
    /\ pc[Main] = "invoke" => tasks[ref] = posted - count

\* The inductive invariant of the queue.
IInv ==
  /\ TypeOK
  /\ RingCoherent
  /\ OverrunBound
  /\ PollHolds
  /\ CountsBalance
  /\ RefBehindFirst
  /\ FifoUnlessOverrun
  /\ OrderUnlessOverrun

\* The slots of the tasks still to run: the one Poll's reference is bound to,
\* and the count slots from _first on, round the array when it was overrun.
LiveSlots ==
  (IF InFlight = 1 THEN {ref} ELSE {})
    \union {s \in Slots :
              \E k \in 0..(count - 1) : (first + k - s) % TasksLen = 0}

\* The tasks still to run, and the tasks that were run.
Live == {tasks[s] : s \in LiveSlots}
Ran  == {invoked[k] : k \in 1..Len(invoked)}

\* A task SetTask accepted is kept in the queue, or in Poll's hand, until it has
\* run.  The one way to lose it is a SetTask that stores a further task in its
\* slot, when as many tasks as the queue has slots wait or are held.
LostOnlyByOverrun ==
  [][\A n \in 1..posted' :
       \/ n \in Ran' \union Live'
       \/ n <= posted /\ n \notin Ran \union Live
       \/ /\ posted' = posted + 1
          /\ n = tasks[last] /\ count + InFlight >= TasksLen]_vars

\* Poll finds every task SetTask accepted: each one is run in the end, also
\* after an overrun, unless it was itself stored over.
EveryTaskRuns ==
  \A n \in 1..MaxPosts : posted >= n ~> n \in Ran \/ n \notin Live

\* The waiting tasks, oldest first, with the one Poll holds in front.
Waiting ==
  (IF pc[Main] = "invoke" THEN <<tasks[ref]>> ELSE <<>>)
    \o [k \in 1..count |-> tasks[SlotAt(k - 1)]]

Fifo == INSTANCE TaskFifo WITH
          Capacity <- TasksLen, pending <- Waiting,
          accepted <- posted, ran <- invoked

\* Until the first overrun the ring implements the bounded exactly-once FIFO of
\* module TaskFifo step by step, with every interrupt level posting: SetTask
\* accepts only while the waiting tasks and the one Poll holds leave a slot.
ImplementsFifo ==
  /\ Fifo!FifoInit
  /\ [][overrun' \/ [Fifo!FifoNext]_(Fifo!fifoVars)]_vars

\* What the tests SetTask and SetTaskOverflow state: every accepted task is
\* run once, in order.
AlwaysFifo == \A k \in 1..Len(invoked) : invoked[k] = k
=============================================================================
