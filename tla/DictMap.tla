------------------------------- MODULE DictMap -------------------------------
(***************************************************************************)
(* What a dictionary promises the rest of the shell (dict.c, as vars, the  *)
(* noexport set, the primitive table and the parser's tables use it): a    *)
(* map from names to values that dictput changes at one name at a time and *)
(* dictget reads.  NULL is the answer for a name that is not there.        *)
(***************************************************************************)
CONSTANTS Key, Value, NULL

VARIABLE map

Init == map = [k \in Key |-> NULL]

Dictput(k, v) == map' = [map EXCEPT ![k] = v]

Next == \E k \in Key, v \in Value \cup {NULL} : Dictput(k, v)

Spec == Init /\ [][Next]_map

=============================================================================
