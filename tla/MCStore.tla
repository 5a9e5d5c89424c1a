------------------------------- MODULE MCStore ------------------------------
(***************************************************************************)
(* Where es keeps what it stores: the hash table (Dict) and the collected  *)
(* heap (Gc).  In each behaviour one of them runs and the other waits.     *)
(*                                                                         *)
(* The table has four names.  k1 and k2 share a home slot in every table,  *)
(* k3's home is the slot before it and k4 meets them in the table of four, *)
(* so that runs of entries and marks meet and cross the end of the table.  *)
(***************************************************************************)
EXTENDS Gc, DictState, TLC

CONSTANTS k1, k2, k3, k4

MCKey == {k1, k2, k3, k4}
MCHash == (k1 :> 7) @@ (k2 :> 15) @@ (k3 :> 6) @@ (k4 :> 3)

VARIABLE which   \* the one that runs

Dictionary == INSTANCE Dict

dictVars == <<dict, filling, pc, cursor, arg>>

StoreInit == which \in {"dict", "gc"} /\ Dictionary!Init /\ Init

StoreNext ==
  \/ which = "dict" /\ Dictionary!Next /\ UNCHANGED <<which, vars>>
  \/ which = "gc" /\ Next /\ UNCHANGED <<which, dictVars>>

\* The fairness of Dict!Spec, and that of Gc!FairSpec.
StoreSpec ==
  /\ StoreInit /\ [][StoreNext]_<<which, vars, dictVars>>
  /\ WF_dictVars(which = "dict" /\ Dictionary!Loop)
  /\ WF_vars(which = "gc" /\ Gc)
  /\ WF_vars(which = "gc" /\ GcallocFits)
  /\ WF_vars(which = "gc" /\ GcallocGrows)
  /\ WF_vars(which = "gc" /\ GcallocCollects)

-----------------------------------------------------------------------------
\* A call of dictput or dictget returns (dict.c).
DictCallsEnd == Dictionary!CallsEnd

=============================================================================
