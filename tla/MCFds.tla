------------------------------- MODULE MCFds --------------------------------
(***************************************************************************)
(* Fds with redirections of 0 and 1 while the script is open on 3; with    *)
(* those of 3 and 4, which the shell uses itself; and with the names of    *)
(* <{...}, one at a time.                                                  *)
(***************************************************************************)
EXTENDS Fds

SetupOf(user, dup, left, right, input, names) ==
  [user |-> user, dup |-> dup, left |-> left, right |-> right, input |-> input, names |-> names]

Low   == SetupOf({0, 1}, {1, 2}, {1, 2}, {0}, 3, 0)
High  == SetupOf({1, 3, 4}, {}, {1}, {}, 0, 0)
Names == SetupOf({1}, {}, {1}, {0}, 3, 1)

MCSetups == {Low, High, Names}
=============================================================================
