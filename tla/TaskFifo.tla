------------------------------- MODULE TaskFifo -------------------------------
(***************************************************************************)
(* What a caller of Mcucpp::Dispatcher is promised about tasks: a bounded  *)
(* first-in first-out queue.  A task that SetTask accepts is run exactly   *)
(* once, in the order of acceptance, and SetTask refuses when Capacity     *)
(* tasks are waiting.  Tasks are numbered by their acceptance.             *)
(***************************************************************************)
EXTENDS Naturals, Sequences

CONSTANT Capacity

VARIABLES
  pending,   \* accepted tasks that have not run, oldest first
  accepted,  \* how many tasks were accepted
  ran        \* the tasks that have run, in order

fifoVars == <<pending, accepted, ran>>

FifoInit == pending = <<>> /\ accepted = 0 /\ ran = <<>>

Accept ==
  /\ Len(pending) < Capacity
  /\ accepted' = accepted + 1
  /\ pending' = Append(pending, accepted + 1)
  /\ UNCHANGED ran

Run ==
  /\ pending # <<>>
  /\ ran' = Append(ran, Head(pending))
  /\ pending' = Tail(pending)
  /\ UNCHANGED accepted

FifoNext == Accept \/ Run

FifoSpec == FifoInit /\ [][FifoNext]_fifoVars
=============================================================================
