----------------------------- MODULE MCSignals ------------------------------
(***************************************************************************)
(* Signals with two signals, sigint and one more, that are caught from the *)
(* beginning, in builds where ++ and -- are two accesses.                  *)
(***************************************************************************)
EXTENDS Signals

Caught == [s \in Sig |-> "catch"]

TwoAccesses == {[atomic |-> FALSE, readline |-> FALSE]}

=============================================================================
