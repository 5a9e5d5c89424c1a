------------------------------ MODULE DictState -----------------------------
(***************************************************************************)
(* The state of Dict, what a probe finds in it, and what must be true of   *)
(* it: what dictput's callers rely on between two of its steps.            *)
(***************************************************************************)
EXTENDS Integers, FiniteSets

CONSTANTS
  Key,       \* the names
  Value,     \* the values stored, all different from NULL
  Hash,      \* strhash, a number for each name
  MaxSize,   \* bound: no call is made that would grow the table beyond it
  NULL,      \* name of an empty slot; answer of dictget for a missing name
  DELETED    \* name of a slot whose entry was removed

ASSUME HashAssumption == Hash \in [Key -> Nat]
ASSUME MarkAssumption ==
  NULL \notin Key \cup Value \cup {DELETED} /\ DELETED \notin Key

VARIABLES
  dict,      \* the table the callers of dictput hold
  filling,   \* the table being filled while put grows dict
  pc,        \* where the current call is
  cursor,    \* loop index of the current call
  arg        \* the entry that put will store once the table has grown

-----------------------------------------------------------------------------
REMAIN(n) == (n * 2) \div 3

Slots(d) == 0 .. d.size - 1

\* hash & (size - 1): the size is a power of two
Home(d, k) == Hash[k] % d.size

\* The slots a probe that starts at h looks at before it looks at s.
Before(d, h, s) == IF h <= s THEN h .. s - 1 ELSE (h .. d.size - 1) \cup (0 .. s - 1)

\* A probe for k that stops at a name in Stop does so at slot s.
StopsAt(d, k, Stop, s) ==
  /\ d.name[s] \in Stop
  /\ \A t \in Before(d, Home(d, k), s) : d.name[t] \notin Stop

\* get returns the entry in slot s.
Found(d, k, s) == StopsAt(d, k, {NULL, k}, s) /\ d.name[s] = k

dictget(d, k) ==
  IF \E s \in Slots(d) : Found(d, k, s)
  THEN d.value[CHOOSE s \in Slots(d) : Found(d, k, s)]
  ELSE NULL

IsLive(d, s) == d.name[s] \in Key

-----------------------------------------------------------------------------
Taken(d) == {s \in Slots(d) : d.name[s] # NULL}

\* remain is exactly the number of empty slots that may still be taken: one
\* less for every entry and for every mark, through insertions, removals,
\* trimming and growth (dict.c keeps it by hand in three places).
RemainExact ==
  /\ dict.remain = REMAIN(dict.size) - Cardinality(Taken(dict))
  /\ filling.remain = REMAIN(filling.size) - Cardinality(Taken(filling))

\* Every entry is where get looks for it: no empty slot on the way from its
\* home, and no second entry of the same name.
EntriesReachable(d) == \A s \in Slots(d) : IsLive(d, s) => Found(d, d.name[s], s)

Reachable == EntriesReachable(dict) /\ EntriesReachable(filling)

\* What dictget answers, for every name, is the abstract map: a growth in
\* progress, a mark or a trimmed mark never shows.
Map == INSTANCE DictMap WITH map <- [k \in Key |-> dictget(dict, k)]

RefinesMap == Map!Spec

=============================================================================
