---------------------------- MODULE GgmlBarrier ------------------------------
(***************************************************************************)
(* ggml_barrier: the barrier ggml's compute threads meet at after every    *)
(* node of a graph, and inside of some.  Its two counters belong to the    *)
(* call of ggml_graph_compute whose threads share them.                    *)
(*                                                                         *)
(* Each atomic operation on a counter is a step.  The module says what the *)
(* barrier does to its own variables; ComputeThreads calls it.             *)
(***************************************************************************)
EXTENDS Integers

CONSTANT N  \* threads of a computation

ASSUME ThreadsAssumption == N \in Nat \ {0}

Threads == 0..(N - 1)

VARIABLES
  n_barrier,         \* threads that have arrived in this round
  n_barrier_passed,  \* rounds that are over
  at,                \* where each thread is in ggml_barrier, or "out"
  passed_old,        \* n_barrier_passed as each thread read it on entry
  rounds             \* calls of ggml_barrier each thread has left (history)

barrierVars == <<n_barrier, n_barrier_passed, at, passed_old, rounds>>

\* A computation starts with its counters on its own stack
NewBarrier ==
  /\ n_barrier' = 0 /\ n_barrier_passed' = 0
  /\ at' = [t \in Threads |-> "out"]
  /\ passed_old' = [t \in Threads |-> 0]
  /\ rounds' = [t \in Threads |-> 0]

BarrierInit ==
  /\ n_barrier = 0 /\ n_barrier_passed = 0
  /\ at = [t \in Threads |-> "out"]
  /\ passed_old = [t \in Threads |-> 0]
  /\ rounds = [t \in Threads |-> 0]

-----------------------------------------------------------------------------
\* With one thread there is nobody to wait for.
PassAlone(t) ==
  /\ N = 1 /\ at[t] = "out"
  /\ rounds' = [rounds EXCEPT ![t] = @ + 1]
  /\ UNCHANGED <<n_barrier, n_barrier_passed, at, passed_old>>

LoadPassed(t) ==
  /\ N # 1 /\ at[t] = "out"
  /\ at' = [at EXCEPT ![t] = "add"]
  /\ passed_old' = [passed_old EXCEPT ![t] = n_barrier_passed]
  /\ UNCHANGED <<n_barrier, n_barrier_passed, rounds>>

\* Mutant: the last but one already opens the barrier.
AddOneShort(t) ==
  /\ at[t] = "add"
  /\ n_barrier' = n_barrier + 1
  /\ at' = [at EXCEPT ![t] = IF n_barrier = N - 2 THEN "last" ELSE "spin"]
  /\ UNCHANGED <<n_barrier_passed, passed_old, rounds>>

\* atomic_fetch_add(n_barrier, 1) == n_threads - 1: the last to arrive
Add(t) ==
  /\ at[t] = "add"
  /\ n_barrier' = n_barrier + 1
  /\ at' = [at EXCEPT ![t] = IF n_barrier = N - 1 THEN "last" ELSE "spin"]
  /\ UNCHANGED <<n_barrier_passed, passed_old, rounds>>

\* Mutant: the count is not made ready for the next round.
KeepCount(t) ==
  /\ at[t] = "last"
  /\ at' = [at EXCEPT ![t] = "bump"]
  /\ UNCHANGED <<n_barrier, n_barrier_passed, passed_old, rounds>>

\* The last one makes the barrier ready for the next round ...
ResetCount(t) ==
  /\ at[t] = "last"
  /\ n_barrier' = 0
  /\ at' = [at EXCEPT ![t] = "bump"]
  /\ UNCHANGED <<n_barrier_passed, passed_old, rounds>>

Out(t) ==
  /\ at' = [at EXCEPT ![t] = "out"]
  /\ rounds' = [rounds EXCEPT ![t] = @ + 1]

\* ... and only then lets the others go.
Release(t) ==
  /\ at[t] = "bump"
  /\ n_barrier_passed' = n_barrier_passed + 1
  /\ Out(t)
  /\ UNCHANGED <<n_barrier, passed_old>>

\* A waiting thread sees that the round is over.
SpinEnds(t) ==
  /\ at[t] = "spin" /\ n_barrier_passed # passed_old[t]
  /\ Out(t)
  /\ UNCHANGED <<n_barrier, n_barrier_passed, passed_old>>

\* It is not over; sched_yield() every 100000 rounds of this loop.
SpinAgain(t) ==
  /\ at[t] = "spin" /\ n_barrier_passed = passed_old[t]
  /\ UNCHANGED barrierVars

\* The steps inside of ggml_barrier, and those that leave it
BarrierWork(t) == LoadPassed(t) \/ Add(t) \/ ResetCount(t) \/ SpinAgain(t)
BarrierExit(t) == PassAlone(t) \/ Release(t) \/ SpinEnds(t)

-----------------------------------------------------------------------------
(* The abstract barrier: a thread has arrived once it is counted.           *)

Inside == [t \in Threads |-> at[t] \in {"last", "bump", "spin"}]

Abstract == INSTANCE PhaseBarrier WITH round <- rounds, arrived <- Inside
=============================================================================
