-------------------------------- MODULE Dict --------------------------------
(***************************************************************************)
(* The hash table of dict.c: open addressing with linear probing, tables   *)
(* whose size is a power of two, tombstones (DELETED_ENTRY) for removed    *)
(* entries, and a counter, remain, of the empty slots that may still be    *)
(* used before the table must grow.                                        *)
(*                                                                         *)
(* A call that changes several slots is several steps, one per loop        *)
(* iteration: the copy of the entries into the new table (dictforall over  *)
(* recurseput), the forward scan of rm and its walk back.  A probe (the    *)
(* loops of get and put) reads only, and is one condition, StopsAt.        *)
(***************************************************************************)
EXTENDS DictState

vars == <<dict, filling, pc, cursor, arg>>

-----------------------------------------------------------------------------
INIT_DICT_SIZE == 2

GROW(n) == n * 2

\* struct Dict
Table(size, remain, name, value) ==
  [size |-> size, remain |-> remain, name |-> name, value |-> value]

mkdict0(n) ==
  Table(n, REMAIN(n), [s \in 0 .. n - 1 |-> NULL], [s \in 0 .. n - 1 |-> NULL])

Succ(d, s) == IF s = d.size - 1 THEN 0 ELSE s + 1

Pred(d, s) == IF s = 0 THEN d.size - 1 ELSE s - 1

\* mutant: a mark ends get's loop
Missing_AtMark(d, k) ==
  \E s \in Slots(d) : StopsAt(d, k, {NULL, DELETED, k}, s) /\ d.name[s] # k

\* get returns NULL (its loop ended at an empty slot).
Missing(d, k) == \E s \in Slots(d) : StopsAt(d, k, {NULL, k}, s) /\ d.name[s] = NULL

\* put's last part: store the entry in slot s.
StoreAt(d, s, k, v) ==
  Table(d.size,
        IF d.name[s] = NULL THEN d.remain - 1 ELSE d.remain,
        [d.name EXCEPT ![s] = k],
        [d.value EXCEPT ![s] = v])

\* dictput of a name that is there: the entry in slot s gets a new value.
Revalued(d, s, v) == Table(d.size, d.remain, d.name, [d.value EXCEPT ![s] = v])

\* mutant: the entry's slot is emptied at once
Marked_Empty(d, s) ==
  Table(d.size, d.remain + 1, [d.name EXCEPT ![s] = NULL], [d.value EXCEPT ![s] = NULL])

\* mutant: a marked slot is counted as free
Marked_Counted(d, s) ==
  Table(d.size, d.remain + 1, [d.name EXCEPT ![s] = DELETED], [d.value EXCEPT ![s] = NULL])

\* rm: the entry in slot s becomes a mark.
Marked(d, s) ==
  Table(d.size, d.remain, [d.name EXCEPT ![s] = DELETED], [d.value EXCEPT ![s] = NULL])

\* mutant: the emptied slot is not counted
Trimmed_NotCounted(d, s) ==
  Table(d.size, d.remain, [d.name EXCEPT ![s] = NULL], d.value)

\* rm: the mark in slot s becomes an empty slot.
Trimmed(d, s) ==
  Table(d.size, d.remain + 1, [d.name EXCEPT ![s] = NULL], d.value)

IsFull(d) == d.remain <= 1

NoArg == [key |-> NULL, value |-> NULL]

-----------------------------------------------------------------------------
Init ==
  /\ dict   = mkdict0(INIT_DICT_SIZE)
  /\ filling    = mkdict0(INIT_DICT_SIZE)
  /\ pc     = "idle"
  /\ cursor = 0
  /\ arg    = NoArg

\* dictput of a name that is already there: overwrite the value.
DictputReplace(k, v) ==
  /\ pc = "idle"
  /\ \E s \in Slots(dict) : /\ Found(dict, k, s)
                            /\ dict' = Revalued(dict, s, v)
  /\ UNCHANGED <<filling, pc, cursor, arg>>

\* dictput of a new name while there is room.
DictputInsert(k, v) ==
  /\ pc = "idle"
  /\ Missing(dict, k)
  /\ ~IsFull(dict)
  /\ \E s \in Slots(dict) : /\ StopsAt(dict, k, {NULL, DELETED}, s)
                            /\ dict' = StoreAt(dict, s, k, v)
  /\ UNCHANGED <<filling, pc, cursor, arg>>

\* dictput of a new name when the table is full: put makes a new table.
GrowBegin(k, v) ==
  /\ pc = "idle"
  /\ Missing(dict, k)
  /\ IsFull(dict)
  /\ GROW(dict.size) <= MaxSize
  /\ filling'    = mkdict0(GROW(dict.size))
  /\ arg'    = [key |-> k, value |-> v]
  /\ cursor' = 0
  /\ pc'     = "copy"
  /\ UNCHANGED dict

\* One iteration of dictforall(old, recurseput, new).  recurseput ignores the
\* table that put returns: if that put had to grow, the entry would be in a
\* table nobody holds and the new table would be left as it is.
CopyEntry ==
  /\ pc = "copy"
  /\ cursor < dict.size
  /\ \/ /\ ~IsLive(dict, cursor) \/ IsFull(filling)
        /\ filling' = filling
     \/ /\ IsLive(dict, cursor) /\ ~IsFull(filling)
        /\ \E s \in Slots(filling) :
             /\ StopsAt(filling, dict.name[cursor], {NULL, DELETED}, s)
             /\ filling' = StoreAt(filling, s, dict.name[cursor], dict.value[cursor])
  /\ cursor' = cursor + 1
  /\ UNCHANGED <<dict, pc, arg>>

\* The rest of put, in the new table, which dictput returns.
GrowEnd ==
  /\ pc = "copy"
  /\ cursor = dict.size
  /\ \E s \in Slots(filling) : /\ StopsAt(filling, arg.key, {NULL, DELETED}, s)
                               /\ dict' = StoreAt(filling, s, arg.key, arg.value)
  /\ pc'     = "idle"
  /\ cursor' = 0
  /\ arg'    = NoArg
  /\ UNCHANGED filling

\* dictput of NULL: rm marks the entry and starts to look at what follows it.
DictputRemove(k) ==
  /\ pc = "idle"
  /\ \E s \in Slots(dict) :
       /\ Found(dict, k, s)
       /\ dict'   = Marked(dict, s)
       /\ cursor' = Succ(dict, s)
  /\ pc' = "scan"
  /\ UNCHANGED <<filling, arg>>

\* rm's first loop, and the return when the run of marks ends at an entry.
ScanForward ==
  /\ pc = "scan"
  /\ \/ /\ dict.name[cursor] = DELETED
        /\ cursor' = Succ(dict, cursor)
        /\ pc' = pc
     \/ /\ IsLive(dict, cursor)
        /\ cursor' = 0
        /\ pc' = "idle"
     \/ /\ dict.name[cursor] = NULL
        /\ cursor' = Pred(dict, cursor)
        /\ pc' = "trim"
  /\ UNCHANGED <<dict, filling, arg>>

\* rm's second loop: the marks in front of an empty slot become empty slots.
TrimBack ==
  /\ pc = "trim"
  /\ \/ /\ dict.name[cursor] = DELETED
        /\ dict'   = Trimmed(dict, cursor)
        /\ cursor' = Pred(dict, cursor)
        /\ pc' = pc
     \/ /\ dict.name[cursor] # DELETED
        /\ cursor' = 0
        /\ pc' = "idle"
        /\ UNCHANGED dict
  /\ UNCHANGED <<filling, arg>>

Call(k, v) ==
  \/ DictputReplace(k, v)
  \/ DictputInsert(k, v)
  \/ GrowBegin(k, v)

Loop == CopyEntry \/ GrowEnd \/ ScanForward \/ TrimBack

Next ==
  \/ \E k \in Key, v \in Value : Call(k, v)
  \/ \E k \in Key : DictputRemove(k)
  \/ Loop

\* A call, once made, runs: nothing suspends the shell inside dict.c.
Spec == Init /\ [][Next]_vars /\ WF_vars(Loop)

-----------------------------------------------------------------------------
IsDict(d) ==
  /\ d.size \in Nat \ {0, 1}
  /\ d = Table(d.size, d.remain, d.name, d.value)
  /\ d.remain \in Int
  /\ d.name \in [Slots(d) -> Key \cup {NULL, DELETED}]
  /\ d.value \in [Slots(d) -> Value \cup {NULL}]

\* Every variable has its type; a loop's index stays in the table.
TypeOK ==
  /\ IsDict(dict)
  /\ IsDict(filling)
  /\ pc \in {"idle", "copy", "scan", "trim"}
  /\ cursor \in 0 .. dict.size
  /\ pc \in {"scan", "trim"} => cursor < dict.size
  /\ arg \in [key : Key \cup {NULL}, value : Value \cup {NULL}]
  /\ pc = "copy" <=> arg.key \in Key

\* The loops of get and put have no other end than an empty slot (or a hit):
\* there must always be one, in both tables.
HasEmptySlot(d) == \E s \in Slots(d) : d.name[s] = NULL

ProbesTerminate == HasEmptySlot(dict) /\ HasEmptySlot(filling)

\* recurseput drops what put returns, so no insertion made while copying may
\* find the new table full.
ReinsertionFits ==
  pc = "copy" /\ cursor < dict.size /\ IsLive(dict, cursor) => ~IsFull(filling)

\* A call ends: the scans of rm and the copy do not go round for ever.
CallsEnd == pc # "idle" ~> pc = "idle"

=============================================================================
