------------------------------- MODULE MCProc -------------------------------
(***************************************************************************)
(* Proc with programs that start background jobs anywhere, with forks that *)
(* fail and waits anywhere besides, and with inherited children.           *)
(***************************************************************************)
EXTENDS Proc

SetupOf(pids, depth, waitInside, startInside, forkFails, inherited) ==
  [pids |-> pids, depth |-> depth, waitInside |-> waitInside, startInside |-> startInside,
   forkFails  |-> forkFails,  inherited   |-> inherited]

MCSetups ==
  {SetupOf({1, 2, 3}, 2, FALSE, TRUE, FALSE, FALSE), SetupOf({1, 2}, 2, TRUE, TRUE, TRUE, FALSE),
   SetupOf({1, 2, 3}, 3, FALSE, FALSE, FALSE, TRUE)}
=============================================================================
