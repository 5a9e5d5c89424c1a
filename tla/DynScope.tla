------------------------------ MODULE DynScope ------------------------------
(***************************************************************************)
(* What `local' promises: each dynamic scope has its own binding, a name   *)
(* means the innermost one, and leaving a scope brings back the binding    *)
(* below it as it was.  Only the settor of the name may change the value   *)
(* that comes back (varpop calls it, and keeps what it returns).           *)
(***************************************************************************)
EXTENDS Naturals, Sequences

CONSTANTS Name, Value, NULL

VARIABLES
  settors,  \* the names that have a settor, the same all the time
  base,     \* the bindings outside every scope
  scopes    \* the scopes, innermost last, each a name and its value

Init ==
  /\ settors \subseteq Name
  /\ base   = [x \in Name |-> NULL]
  /\ scopes = <<>>

Binds(x) == {i \in DOMAIN scopes : scopes[i].name = x}

Innermost(S) == CHOOSE i \in S : \A j \in S : j <= i

\* The innermost binding of x among the first n scopes becomes v.
SetBelow(x, n, v) ==
  LET S == Binds(x) \cap (1 .. n)
      kept == SubSeq(scopes, 1, n)
  IN  IF S = {}
      THEN base' = [base EXCEPT ![x] = v] /\ scopes' = kept
      ELSE base' = base /\ scopes' = [kept EXCEPT ![Innermost(S)].value = v]

Enter(x, v) ==
  /\ scopes' = Append(scopes, [name |-> x, value |-> v])
  /\ UNCHANGED base

Leave ==
  /\ scopes # <<>>
  /\ LET n == Len(scopes)
         x == scopes[n].name
     IN  \/ base' = base /\ scopes' = SubSeq(scopes, 1, n - 1)
         \/ x \in settors /\ \E v \in Value \cup {NULL} : SetBelow(x, n - 1, v)

Assign(x, v) == SetBelow(x, Len(scopes), v)

Next ==
  \/ \E x \in Name, v \in Value \cup {NULL} : Enter(x, v) \/ Assign(x, v)
  \/ Leave

Spec == Init /\ [][Next /\ UNCHANGED settors]_<<settors, base, scopes>>

=============================================================================
