-------------------------- MODULE MCComputeThreads ---------------------------
(* Graphs for TLC: multiplications with chunks by thread and from the        *)
(* counter, with sizes that do not divide evenly, between split nodes.       *)
EXTENDS ComputeThreads

Fine == [op |-> "mul_mat", nr0 |-> 7, nr1 |-> 5]
ByThread == [op |-> "mul_mat", nr0 |-> 2, nr1 |-> 5]
Rows == [op |-> "split", nr0 |-> 4, nr1 |-> 1]

MCCalls == {
  [graph |-> <<Fine, Fine>>, abortable |-> FALSE],
  [graph |-> <<ByThread, Rows, ByThread>>, abortable |-> FALSE],
  [graph |-> <<Rows>>, abortable |-> TRUE]}

=============================================================================
