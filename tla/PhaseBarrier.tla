---------------------------- MODULE PhaseBarrier -----------------------------
(***************************************************************************)
(* What a reusable barrier promises to the threads that call it again and  *)
(* again: nobody leaves a round before everybody has arrived in it, however *)
(* far the others have gone on since.                                      *)
(***************************************************************************)
EXTENDS Naturals

CONSTANT Threads

VARIABLES
  round,    \* how many rounds each thread has completed
  arrived   \* it is inside the barrier, in its next round

bvars == <<round, arrived>>

Init ==
  /\ round = [t \in Threads |-> 0]
  /\ arrived = [t \in Threads |-> FALSE]

\* u has come as far as the end of the round t is in
Reached(u, t) == round[u] > round[t] \/ (round[u] = round[t] /\ arrived[u])

Arrive(t) ==
  /\ ~arrived[t]
  /\ arrived' = [arrived EXCEPT ![t] = TRUE]
  /\ UNCHANGED round

Leave(t) ==
  /\ arrived[t]
  /\ \A u \in Threads : Reached(u, t)
  /\ arrived' = [arrived EXCEPT ![t] = FALSE]
  /\ round' = [round EXCEPT ![t] = @ + 1]

\* A thread that everybody else is waiting for may pass without waiting.
Pass(t) ==
  /\ ~arrived[t]
  /\ \A u \in Threads \ {t} : Reached(u, t)
  /\ round' = [round EXCEPT ![t] = @ + 1]
  /\ UNCHANGED arrived

\* The barrier is given up and made anew only while nobody is inside.
Renew ==
  /\ \A t \in Threads : ~arrived[t]
  /\ round' = [t \in Threads |-> 0]
  /\ UNCHANGED arrived

Next == Renew \/ \E t \in Threads : Arrive(t) \/ Leave(t) \/ Pass(t)

Spec == Init /\ [][Next]_bvars
=============================================================================
