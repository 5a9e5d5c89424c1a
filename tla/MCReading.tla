------------------------------ MODULE MCReading -----------------------------
(***************************************************************************)
(* What es waits for: signals (Signals), with two of them, in every build, *)
(* and its input (Input), with a signal and a failing read, with two       *)
(* signals, and with none.  In each behaviour one of the two runs and the  *)
(* other waits.                                                            *)
(***************************************************************************)
EXTENDS MCSignals, InputState

AllBuilds == [atomic : BOOLEAN, readline : BOOLEAN]

LimitOf(d, s, f) == [depth |-> d, signals |-> s, failures |-> f]

MCLimits == {LimitOf(3, 1, 1), LimitOf(2, 2, 0), LimitOf(2, 0, 0)}

VARIABLE which   \* the one that runs

Sources == INSTANCE Input

inputVars == <<calls, input, openfds, exc, error, hereq, queued, ignoreeof, deep, skip, aborted,
               limits, left, signals, failures>>

\* Where the one that does not run waits.
SignalsWait == build = [atomic |-> TRUE, readline |-> FALSE] /\ Init

InputWaits ==
  limits = LimitOf(2, 0, 0) /\ calls = <<Sources!Source("fd", 0, TRUE)>> /\ Sources!Init

ReadingInit ==
  \/ which = "signals" /\ Init /\ InputWaits
  \/ which = "input" /\ SignalsWait /\ Sources!Init

ReadingNext ==
  \/ which = "signals" /\ Next /\ UNCHANGED <<which, inputVars>>
  \/ which = "input" /\ Sources!Next /\ UNCHANGED <<which, vars>>

\* The fairness of Signals!FairSpec, and that of Input!FairSpec.
ReadingSpec ==
  /\ ReadingInit /\ [][ReadingNext]_<<which, vars, inputVars>>
  /\ WF_vars(which = "signals" /\ \E s \in Sig : Deliver(s))
  /\ WF_vars(which = "signals" /\ Catcher)
  /\ WF_vars(which = "signals" /\ Delivery)
  /\ SF_vars(which = "signals" /\ Unblocksignals)
  /\ WF_vars(which = "signals" /\ (HasForked \/ Setsigdefaults))
  /\ WF_vars(which = "signals" /\ ReadEnd)
  /\ WF_vars(which = "signals" /\ (Readline \/ ReadlineEnd \/ NotSlow))
  /\ WF_inputVars(which = "input" /\ Sources!Next)
  /\ SF_inputVars(which = "input" /\ Sources!EvalEnds)

-----------------------------------------------------------------------------
\* At the end of its input the shell ends (input.c).
EofEnds == Sources!EofEnds

=============================================================================
