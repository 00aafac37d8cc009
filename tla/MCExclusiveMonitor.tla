------------------------- MODULE MCExclusiveMonitor -------------------------
(***************************************************************************)
(* Two threads on two one-bit cells, with a few operands.                  *)
(***************************************************************************)
EXTENDS ExclusiveMonitor, TLC

ToWord(s) == [i \in 0..(S64 - 1) |-> s[i + 1]]
TwoOperands == {ToWord(<<1, 0>>), ToWord(<<0, 1>>)}

\* The threads are interchangeable.
ThreadSymmetry == Permutations(Threads)

=============================================================================
