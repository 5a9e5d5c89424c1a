------------------------------ MODULE MCUnwind ------------------------------
(***************************************************************************)
(* Unwind with one variable besides 0, whose settor may fail.              *)
(***************************************************************************)
EXTENDS Unwind

FailingSettor == {[settors |-> {"x"}, fail |-> TRUE, maxevaldepth |-> 6, height |-> 3]}

=============================================================================
