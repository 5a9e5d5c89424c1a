------------------------------- MODULE MCVars -------------------------------
(***************************************************************************)
(* What es does with variables: the environment made of them (Env), and    *)
(* their scopes under exceptions (Unwind).  In each behaviour one of the   *)
(* two runs and the other waits.                                           *)
(***************************************************************************)
EXTENDS Unwind, EnvState

\* x and z have settors, are imported and may be removed; z is also hidden, bound by
\* local and set by setenv; y, bound by local too, is one of initial.es.
MCValues == [x |-> {"null", "clo"}, y |-> {"clo"}, z |-> {"null", "clo"}]

\* One variable besides 0: without a settor and with a low max-eval-depth, with a
\* settor that lets no exception out and a max-eval-depth out of reach, and with
\* one that may fail.
SetupOf(settors, fail, maxevaldepth, height) ==
  [settors |-> settors, fail |-> fail, maxevaldepth |-> maxevaldepth, height |-> height]

NoSettor == SetupOf({}, FALSE, 4, 5)

MCSetups == {NoSettor, SetupOf({"x"}, FALSE, 20, 5), SetupOf({"x"}, TRUE, 6, 4)}

VARIABLE which   \* the one that runs

Environment == INSTANCE Env

envVars == <<table, cell, noexport, isdirty, rebound, sortenv, nested, importing>>

\* Where the one that does not run waits.
EnvWaits == cell = (CHOOSE c \in Cells : TRUE) /\ Environment!Init

UnwindWaits == setup = NoSettor /\ Init

VarsInit ==
  \/ which = "env" /\ Environment!Init /\ UnwindWaits
  \/ which = "unwind" /\ EnvWaits /\ Init

\* A shell that died in initenv does nothing more.
VarsNext ==
  \/ which = "env" /\ Environment!Next /\ Environment!Orderly /\ UNCHANGED <<which, uvars>>
  \/ which = "env" /\ Environment!TopIs("dead") /\ UNCHANGED <<which, envVars, uvars>>
  \/ which = "unwind" /\ Next /\ UNCHANGED <<which, envVars>>

VarsSpec == VarsInit /\ [][VarsNext]_<<which, envVars, uvars>>

=============================================================================
