----------------------------- MODULE Dispatcher -----------------------------
(***************************************************************************)
(* Mcucpp::Dispatcher with its timers (mcucpp/dispatcher.h): SetTimer,     *)
(* StopTimer by task and by id, RestartTimer, and Poll, which runs         *)
(* TimerHandler before it takes a task.  The queue is module TaskQueue;    *)
(* every queue step here is one of its actions.                            *)
(*                                                                         *)
(* In this repository interrupt handlers only call SetTask: timers are set *)
(* and polled by the main context.  While the main context is inside       *)
(* TimerHandler, handlers of every level may post between the test and the *)
(* critical section of the SetTask calls that TimerHandler makes.          *)
(*                                                                         *)
(* The tick counter is a uint32_t that GetTimerTicksFunc returns.  clock   *)
(* is the time that really passed; the code sees clock % TickMod.  A timer *)
(* task and its tag, which the code always compares together, are one      *)
(* member of Work.                                                         *)
(***************************************************************************)
EXTENDS TaskQueue, FiniteSets

CONSTANTS
  TimersLen,   \* _timersLen
  Work,        \* the (task, tag) pairs timers are set for
  TickMod,     \* 2^32: the tick counter wraps at TickMod
  SeqMod,      \* 2^24: timer ids keep this many values of _timerSequence
  MaxClock,    \* bound of the model: time that passes
  MaxPeriod,   \* bound of the model: longest period
  MaxSetTimer, \* bound of the model: successful SetTimer calls
  MaxRestart   \* bound of the model: RestartTimer calls

ASSUME TimersLenAssumption == TimersLen \in Nat \ {0}
ASSUME WidthAssumption == TickMod \in Nat \ {0} /\ SeqMod \in Nat \ {0, 1}

ASSUME BoundsAssumption ==
  {MaxClock, MaxPeriod, MaxSetTimer, MaxRestart} \subseteq Nat

NoTask == "noTask"   \* the null task pointer of an idle slot
ASSUME NoTaskAssumption == NoTask \notin Work

VARIABLES
  hasTicks,  \* GetTimerTicksFunc is set
  clock,     \* the time that passed
  sequence,  \* _timerSequence, modulo SeqMod
  timers,    \* _timers: task, time and id of each slot
  phase,     \* main context: "user" code, "scan" (TimerHandler), "queue"
  scan,      \* TimerHandler: the index i, and the argument time
  handles,   \* history: the id returned by the n-th successful SetTimer
  arming,    \* history: which SetTimer call last wrote each slot
  outcome,   \* history: what became of the n-th successful SetTimer
  dueAt,     \* history: the real time each slot is due
  setAt,     \* history: the real time each slot's time was computed
  restarts   \* bound of the model: how many RestartTimer calls were made

timerVars == <<hasTicks, clock, sequence, timers, phase, scan, handles,
               arming, outcome, dueAt, setAt, restarts>>
dispatcherVars == <<vars, timerVars>>

TimerSlots == 0..(TimersLen - 1)
Ticks == clock % TickMod
Armed == {i \in TimerSlots : timers[i].task # NoTask}

DispatcherInit ==
  /\ Init
  /\ hasTicks = FALSE
  /\ clock = 0
  /\ sequence = 0
  /\ timers = [i \in TimerSlots |-> [task |-> NoTask, time |-> 0, id |-> 0]]
  /\ phase = "user"
  /\ scan = [i |-> 0, time |-> 0]
  /\ handles = <<>>
  /\ arming = [i \in TimerSlots |-> 0]
  /\ outcome = <<>>
  /\ dueAt = [i \in TimerSlots |-> 0]
  /\ setAt = [i \in TimerSlots |-> 0]
  /\ restarts = 0

\* The main context is outside Dispatcher methods and may enter one.
InUserCode == phase = "user" /\ Running(Main) /\ pc[Main] = "idle"

\* Bound of the model: every post still owed fits below MaxPosts.
Budget ==
  posted + Cardinality({c \in Contexts : pc[c] = "setTask"})
         + Cardinality(Armed) < MaxPosts

\* The first slot of a set of slots, as a set that may be empty.
FirstOf(S) == {i \in S : \A j \in S : i <= j}

\* The arming that slot i held, if any, ends with result r.
Ended(out, i, r) ==
  IF i \in Armed THEN [out EXCEPT ![arming[i]] = r] ELSE out

-----------------------------------------------------------------------------
(* Timers *)

SetTimerFunc ==
  /\ InUserCode /\ ~hasTicks
  /\ hasTicks' = TRUE
  /\ UNCHANGED <<vars, clock, sequence, timers, phase, scan, handles, arming,
                 outcome, dueAt, setAt, restarts>>

Tick ==
  /\ clock < MaxClock
  /\ clock' = clock + 1
  /\ UNCHANGED <<vars, hasTicks, sequence, timers, phase, scan, handles,
                 arming, outcome, dueAt, setAt, restarts>>

\* Mutant: the search for a free slot does not go on to look for the same task.
TimerSlotForFirstFit(w) ==
  FirstOf({i \in TimerSlots : timers[i].task \in {NoTask, w}})

\* The slot SetTimer uses: the one already set for this task and tag, else
\* the first free one, else none.
TimerSlotFor(w) ==
  LET same == {i \in TimerSlots : timers[i].task = w}
  IN  FirstOf(IF same # {} THEN same ELSE TimerSlots \ Armed)

\* Mutant: the sequence number is not advanced.
NextSequenceStuck(s) == [value |-> 1, next |-> s]

\* The sequence part of a new id, and the sequence after it: zero is skipped.
NextSequence(s) ==
  IF s = 0 THEN [value |-> 1, next |-> 2 % SeqMod]
           ELSE [value |-> s, next |-> (s + 1) % SeqMod]

\* SetTimer without a tick function, or without a usable slot, returns 0 and
\* changes nothing.
SetTimer(w, period) ==
  /\ InUserCode /\ Budget
  /\ Len(handles) < MaxSetTimer
  /\ hasTicks
  /\ \E i \in TimerSlotFor(w) :
       LET seq == NextSequence(sequence)
           id  == seq.value + SeqMod * i
           old == Ended(outcome, i, "stopped")
       IN  /\ timers' = [timers EXCEPT ![i] =
                IF period = 0
                THEN [task |-> NoTask, time |-> 0, id |-> id]
                ELSE [task |-> w, time |-> (Ticks + period) % TickMod,
                      id |-> id]]
           /\ sequence' = seq.next
           /\ handles' = Append(handles, id)
           /\ arming' = [arming EXCEPT ![i] = Len(handles) + 1]
           /\ outcome' = Append(old, IF period = 0 THEN "stopped" ELSE "armed")
           /\ dueAt' = [dueAt EXCEPT ![i] = clock + period]
           /\ setAt' = [setAt EXCEPT ![i] = clock]
  /\ UNCHANGED <<vars, hasTicks, clock, phase, scan, restarts>>

\* The slot an id names in its upper bits.
SlotOf(id) == {i \in TimerSlots : i = id \div SeqMod}

\* Mutant: the id is reset, the task is not.
ClearSlotKeepsTask(i) == timers' = [timers EXCEPT ![i].id = 0]

ClearSlot(i) ==
  timers' = [timers EXCEPT ![i] = [task |-> NoTask, time |-> @.time, id |-> 0]]

\* The times of a slot that runs no timer are forgotten.
ForgetTimes(i) ==
  dueAt' = [dueAt EXCEPT ![i] = 0] /\ setAt' = [setAt EXCEPT ![i] = 0]

StopTask(w) ==
  /\ InUserCode
  /\ \E i \in FirstOf({j \in TimerSlots : timers[j].task = w}) :
       /\ ClearSlot(i)
       /\ ForgetTimes(i)
       /\ outcome' = Ended(outcome, i, "stopped")
  /\ UNCHANGED <<vars, hasTicks, clock, sequence, phase, scan, handles,
                 arming, restarts>>

\* StopTimer with the id the n-th SetTimer returned, however old it is.
StopId(n) ==
  /\ InUserCode
  /\ \E i \in SlotOf(handles[n]) :
       /\ timers[i].id = handles[n]
       /\ ClearSlot(i)
       /\ ForgetTimes(i)
       /\ outcome' = Ended(outcome, i, "stopped")
  /\ UNCHANGED <<vars, hasTicks, clock, sequence, phase, scan, handles,
                 arming, restarts>>

RestartTimer(n, period) ==
  /\ InUserCode
  /\ restarts < MaxRestart
  /\ \E i \in SlotOf(handles[n]) :
       /\ timers[i].id = handles[n]
       /\ timers' = [timers EXCEPT ![i].time = (Ticks + period) % TickMod]
       /\ dueAt' = [dueAt EXCEPT ![i] = clock + period]
       /\ setAt' = [setAt EXCEPT ![i] = clock]
  /\ restarts' = restarts + 1
  /\ UNCHANGED <<vars, hasTicks, clock, sequence, phase, scan, handles,
                 arming, outcome>>

-----------------------------------------------------------------------------
(* Poll *)

PollBegin ==
  /\ InUserCode
  /\ IF hasTicks
     THEN phase' = "scan" /\ scan' = [i |-> 0, time |-> Ticks]
     ELSE phase' = "queue" /\ UNCHANGED scan
  /\ UNCHANGED <<vars, hasTicks, clock, sequence, timers, handles, arming,
                 outcome, dueAt, setAt, restarts>>

\* Mutant: the comparison is strict, so the tick counter must pass the time.
DueStrict(i) == timers[i].task # NoTask /\ timers[i].time < scan.time

\* Mutant: a timer fires one tick before its time.
DueEarly(i) == timers[i].task # NoTask /\ timers[i].time <= scan.time + 1

Due(i) == timers[i].task # NoTask /\ timers[i].time <= scan.time

Scanning == phase = "scan" /\ Running(Main) /\ pc[Main] = "idle"
ScanNext == scan' = [scan EXCEPT !.i = @ + 1]

TimerNotDue ==
  /\ Scanning /\ scan.i < TimersLen /\ ~Due(scan.i)
  /\ ScanNext
  /\ UNCHANGED <<vars, hasTicks, clock, sequence, timers, phase, handles,
                 arming, outcome, dueAt, setAt, restarts>>

\* TimerHandler enters SetTask, which finds room.
TimerPostBegin ==
  /\ Scanning /\ scan.i < TimersLen /\ Due(scan.i)
  /\ SetTaskBegin(Main)
  /\ UNCHANGED timerVars

\* SetTask stores the task; TimerHandler then frees the slot.
TimerPostEnd ==
  /\ phase = "scan"
  /\ SetTaskEnd(Main)
  /\ ClearSlot(scan.i)
  /\ ForgetTimes(scan.i)
  /\ outcome' = Ended(outcome, scan.i, "posted")
  /\ ScanNext
  /\ UNCHANGED <<hasTicks, clock, sequence, phase, handles, arming, restarts>>

\* SetTask returns false; TimerHandler ignores that and frees the slot.
TimerDropped ==
  /\ Scanning /\ scan.i < TimersLen /\ Due(scan.i)
  /\ count >= TasksLen
  /\ ClearSlot(scan.i)
  /\ ForgetTimes(scan.i)
  /\ outcome' = Ended(outcome, scan.i, "dropped")
  /\ ScanNext
  /\ UNCHANGED <<vars, hasTicks, clock, sequence, phase, handles, arming,
                 restarts>>

TimerHandlerEnd ==
  /\ Scanning /\ scan.i = TimersLen
  /\ phase' = "queue"
  /\ UNCHANGED <<vars, hasTicks, clock, sequence, timers, scan, handles,
                 arming, outcome, dueAt, setAt, restarts>>

\* The rest of Poll is TaskQueue's; it ends in user code.
PollQueue ==
  /\ phase = "queue"
  /\ \/ (PollTest \/ PollTake) /\ UNCHANGED phase
     \/ (PollInvoke \/ PollEmpty) /\ phase' = "user"
  /\ UNCHANGED <<hasTicks, clock, sequence, timers, scan, handles, arming,
                 outcome, dueAt, setAt, restarts>>

PollStep ==
  PollBegin \/ TimerNotDue \/ TimerPostBegin \/ TimerPostEnd \/ TimerDropped
    \/ TimerHandlerEnd \/ PollQueue

-----------------------------------------------------------------------------
\* SetTask called by user code and by interrupt handlers.
Post(c) ==
  /\ c = Main => phase = "user"
  /\ (Budget /\ SetTaskBegin(c)) \/ SetTaskEnd(c)
  /\ UNCHANGED timerVars

DispatcherNext ==
  \/ SetTimerFunc
  \/ Tick
  \/ \E w \in Work, period \in 0..MaxPeriod : SetTimer(w, period)
  \/ \E w \in Work : StopTask(w)
  \/ \E n \in 1..Len(handles) : StopId(n)
  \/ \E n \in 1..Len(handles), period \in 0..MaxPeriod : RestartTimer(n, period)
  \/ PollStep
  \/ \E c \in Contexts : Post(c)

DispatcherSpec == DispatcherInit /\ [][DispatcherNext]_dispatcherVars

\* The main loop calls Poll for ever, time passes, SetTask calls return.
DispatcherFairSpec ==
  /\ DispatcherSpec
  /\ WF_dispatcherVars(PollStep)
  /\ WF_dispatcherVars(Tick)
  /\ \A c \in Contexts : WF_dispatcherVars(SetTaskEnd(c) /\ Post(c))

-----------------------------------------------------------------------------
(* Properties *)

\* TimerHandler gives up slot i in this step, as fired or as dropped.
Fires(i) ==
  phase = "scan" /\ timers[i].task # NoTask /\ timers'[i].task = NoTask

\* The timer the n-th SetTimer started is still running.
Open(n) == n \in 1..Len(outcome) /\ outcome[n] = "armed"

\* Why EarlyOnlyAcrossWrap holds: the time kept in a slot is its due time
\* modulo the width of the counter, and TimerHandler's argument is the
\* remainder of an instant after every slot was set and before now.
TimesAgree ==
  /\ clock \in Nat
  /\ dueAt \in [TimerSlots -> Nat] /\ setAt \in [TimerSlots -> Nat]
  /\ \A i \in Armed : timers[i].time = dueAt[i] % TickMod
  /\ \A i \in TimerSlots : setAt[i] <= clock
  /\ phase = "scan" =>
       \E t \in 0..clock : /\ scan.time = t % TickMod
                          /\ \A i \in TimerSlots : setAt[i] <= t

\* While TimerHandler is inside SetTask, the slot it works on stays due.
PostsDue ==
  phase = "scan" /\ pc[Main] = "setTask" => scan.i \in TimerSlots /\ Due(scan.i)

\* The type of the slots without the bounds of the model.
SlotsOK ==
  /\ sequence \in Int
  /\ scan \in [i : Nat, time : Int]
  /\ timers \in [TimerSlots -> [task : Work \union {NoTask},
                                time : Int, id : Int]]

\* However SetTimer, StopTimer and TimerHandler free and reuse slots, a task
\* and tag never hold two of them: SetTimer replaces the running timer.
OneSlotPerTask ==
  \A i, j \in Armed : timers[i].task = timers[j].task => i = j

\* Each SetTimer posts its task at most once, and never after it was stopped
\* or replaced: TimerHandler only fires a slot whose arming is still open.
FiresOnce ==
  [][phase = "scan" /\ pc[Main] = "setTask" /\ pc'[Main] = "idle"
       => Open(arming[scan.i])]_dispatcherVars

\* A timer does not fire before its period has passed, unless the tick
\* counter wraps between setting it and its due time: time <= ticks compares
\* the two as plain unsigned numbers.
EarlyOnlyAcrossWrap ==
  [][\A i \in TimerSlots :
       Fires(i) => \/ clock >= dueAt[i]
                   \/ setAt[i] \div TickMod < dueAt[i] \div TickMod
    ]_dispatcherVars

\* An id that outlived its timer harms no other: when StopTimer(id) ends, or
\* RestartTimer(id) moves, a later arming of the same slot, the sequence numbers
\* have wrapped round.
StaleIdHarmless ==
  [][\A n \in 1..Len(handles) :
       StopId(n) \/ (\E period \in 0..MaxPeriod : RestartTimer(n, period)) =>
         \A i \in Armed :
           timers'[i] # timers[i]
             => arming[i] = n \/ arming[i] - n >= SeqMod - 1]_dispatcherVars

\* A timer whose time comes is posted, stopped or replaced, or lost to a full
\* queue: it does not hang in its slot while the tick counter stands at its time
\* or behind it.  The last tick of the model stays for ever.
TimerDelivered ==
  \A n \in 1..MaxSetTimer :
    Open(n)
      ~> (\/ ~Open(n)
          \/ \E i \in TimerSlots :
               arming[i] = n /\ dueAt[i] % TickMod > MaxClock % TickMod)

\* The dispatcher uses the queue only through the steps of TaskQueue, so what
\* holds of the queue holds of the dispatcher.
QueueSpec == Spec

=============================================================================
