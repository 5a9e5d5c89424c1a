----------------------------- MODULE Dict_proofs -----------------------------
(***************************************************************************)
(* Proofs about Dict, for every set of names and values, every hash        *)
(* function and tables of every size.                                      *)
(***************************************************************************)
EXTENDS Dict, FiniteSetTheorems, TLAPS

USE DEF Slots

-----------------------------------------------------------------------------
(* Facts about one table. *)

\* Of two slots, a probe comes to one before the other.
LEMMA BeforeTotal ==
  ASSUME NEW d, IsDict(d), NEW h \in Slots(d), NEW s \in Slots(d), NEW u \in Slots(d)
  PROVE  s = u \/ s \in Before(d, h, u) \/ u \in Before(d, h, s)
BY DEF IsDict, Before

\* A probe only looks at slots of the table.
LEMMA BeforeSlots ==
  ASSUME NEW d, IsDict(d), NEW h \in Slots(d), NEW s \in Slots(d)
  PROVE  Before(d, h, s) \subseteq Slots(d)
BY DEF IsDict, Before

\* After every slot before s but the last one comes another slot before s.
LEMMA BeforeSucc ==
  ASSUME NEW d, IsDict(d), NEW h \in Slots(d), NEW s \in Slots(d),
         NEW t \in Before(d, h, s)
  PROVE  Succ(d, t) = s \/ Succ(d, t) \in Before(d, h, s)
<1>. DEFINE n == d.size
<1>1. n \in Nat /\ n >= 2 /\ h \in 0 .. n - 1 /\ s \in 0 .. n - 1
  BY DEF IsDict
<1>2. CASE h <= s
  <2>1. t \in h .. s - 1 /\ Before(d, h, s) = h .. s - 1
    BY <1>2 DEF Before
  <2>2. Succ(d, t) = t + 1
    BY <1>1, <2>1 DEF Succ
  <2>3. QED
    BY <1>1, <2>1, <2>2
<1>3. CASE ~(h <= s)
  <2>1. /\ t \in h .. n - 1 \/ t \in 0 .. s - 1
        /\ Before(d, h, s) = (h .. n - 1) \cup (0 .. s - 1)
    BY <1>3 DEF Before
  <2>2. Succ(d, t) = IF t = n - 1 THEN 0 ELSE t + 1
    BY DEF Succ
  <2>3. QED
    BY <1>1, <1>3, <2>1, <2>2
<1>4. QED
  BY <1>2, <1>3

LEMMA HomeSlot ==
  ASSUME NEW d, IsDict(d), NEW k \in Key
  PROVE  Home(d, k) \in Slots(d)
BY HashAssumption DEF IsDict, Home

LEMMA SuccPred ==
  ASSUME NEW d, IsDict(d), NEW s \in Slots(d)
  PROVE  /\ Succ(d, s) \in Slots(d)
         /\ Pred(d, s) \in Slots(d)
         /\ Succ(d, Pred(d, s)) = s
BY DEF IsDict, Succ, Pred

\* The slots of a table are finitely many, and so are the used ones.
LEMMA UsedFinite ==
  ASSUME NEW d, IsDict(d)
  PROVE  /\ IsFiniteSet(Slots(d))
         /\ Cardinality(Slots(d)) = d.size
         /\ IsFiniteSet(Taken(d))
         /\ Cardinality(Taken(d)) \in Nat
<1>1. IsFiniteSet(Slots(d)) /\ Cardinality(Slots(d)) = d.size
  <2>1. d.size \in Nat /\ d.size >= 2 /\ 0 \in Int /\ d.size - 1 \in Int
    BY DEF IsDict
  <2>2. IsFiniteSet(0 .. d.size - 1)
    BY <2>1, FS_Interval
  <2>3. Cardinality(0 .. d.size - 1) =
          IF 0 > d.size - 1 THEN 0 ELSE (d.size - 1) - 0 + 1
    BY <2>1, FS_Interval, Zenon
  <2>4. QED
    BY <2>1, <2>2, <2>3
<1>2. Taken(d) \subseteq Slots(d)
  BY DEF Taken
<1>3. QED
  BY <1>1, <1>2, FS_Subset, FS_CardinalityType

\* A table whose entries are all reachable holds no name twice.
LEMMA NameUnique ==
  ASSUME NEW d, IsDict(d), EntriesReachable(d),
         NEW s \in Slots(d), NEW u \in Slots(d),
         IsLive(d, s), d.name[u] = d.name[s]
  PROVE  s = u
<1>1. Found(d, d.name[s], s) /\ Found(d, d.name[s], u)
  BY DEF EntriesReachable, IsLive
<1>2. Home(d, d.name[s]) \in Slots(d)
  BY HomeSlot DEF IsLive
<1>3. QED
  BY <1>1, <1>2, BeforeTotal DEF Found, StopsAt

\* get's answer is right: a name that get misses is in no slot.
LEMMA MissingAbsent ==
  ASSUME NEW d, IsDict(d), EntriesReachable(d), NEW k \in Key, Missing(d, k)
  PROVE  \A u \in Slots(d) : d.name[u] # k
<1>1. PICK s \in Slots(d) : StopsAt(d, k, {NULL, k}, s) /\ d.name[s] = NULL
  BY DEF Missing
<1>2. ASSUME NEW u \in Slots(d), d.name[u] = k
      PROVE  FALSE
  <2>1. Found(d, k, u)
    BY <1>2 DEF EntriesReachable, IsLive
  <2>2. s = u \/ s \in Before(d, Home(d, k), u) \/ u \in Before(d, Home(d, k), s)
    BY BeforeTotal, HomeSlot
  <2>3. QED
    BY <1>1, <1>2, <2>1, <2>2, MarkAssumption DEF Found, StopsAt
<1>3. QED
  BY <1>2
-----------------------------------------------------------------------------
(* What the parts of dictput do to one table. *)

Stored(d, e, s, k, v) ==
  /\ IsDict(e) /\ e.size = d.size
  /\ e.name = [d.name EXCEPT ![s] = k]
  /\ e.value = [d.value EXCEPT ![s] = v]
  /\ EntriesReachable(e)
  /\ Taken(e) = Taken(d) \cup {s}
  /\ e.remain = IF d.name[s] = NULL THEN d.remain - 1 ELSE d.remain

\* Storing an absent name where put's probe stops keeps every entry
\* reachable, and takes one slot from remain and from the empty slots, if it
\* takes one at all.
LEMMA StoreAtOK ==
  ASSUME NEW d, IsDict(d), EntriesReachable(d),
         NEW k \in Key, NEW v \in Value \cup {NULL}, NEW s \in Slots(d),
         \A u \in Slots(d) : d.name[u] # k,
         StopsAt(d, k, {NULL, DELETED}, s),
         NEW e, e = StoreAt(d, s, k, v)
  PROVE  Stored(d, e, s, k, v)
<1>1. /\ e.size = d.size
      /\ e.name = [d.name EXCEPT ![s] = k]
      /\ e.value = [d.value EXCEPT ![s] = v]
      /\ e.remain = IF d.name[s] = NULL THEN d.remain - 1 ELSE d.remain
      /\ e = Table(e.size, e.remain, e.name, e.value)
  BY DEF StoreAt, Table
<1>2. IsDict(e)
  BY <1>1 DEF IsDict
<1>3. Taken(e) = Taken(d) \cup {s}
  BY <1>1, MarkAssumption DEF Taken, IsDict
<1>4. ASSUME NEW h \in Slots(d), NEW u \in Slots(d)
      PROVE  Before(e, h, u) = Before(d, h, u) /\ Before(d, h, u) \subseteq Slots(d)
  BY <1>1, BeforeSlots DEF Before
<1>5. ASSUME NEW j \in Key
      PROVE  Home(e, j) = Home(d, j) /\ Home(d, j) \in Slots(d)
  BY <1>1, HomeSlot DEF Home
<1>6. ASSUME NEW u \in Slots(e), IsLive(e, u)
      PROVE  Found(e, e.name[u], u)
  <2>1. CASE u = s
    <3>1. e.name[u] = k
      BY <1>1, <2>1 DEF IsDict
    <3>2. \A t \in Before(d, Home(d, k), s) : d.name[t] \notin {NULL, DELETED, k} /\ t # s
      BY <1>4, <1>5 DEF StopsAt
    <3>3. \A t \in Before(d, Home(d, k), s) : e.name[t] = d.name[t]
      BY <1>1, <1>4, <1>5, <3>2 DEF IsDict
    <3>4. QED
      BY <1>1, <1>4, <1>5, <2>1, <3>1, <3>2, <3>3 DEF Found, StopsAt
  <2>2. CASE u # s
    <3>1. e.name[u] = d.name[u] /\ u \in Slots(d) /\ IsLive(d, u)
      BY <1>1, <1>6, <2>2 DEF IsDict, IsLive
    <3>2. Found(d, d.name[u], u)
      BY <3>1 DEF EntriesReachable
    <3>3. d.name[u] # k /\ d.name[u] \in Key
      BY <3>1 DEF IsLive
    <3>4. \A t \in Before(d, Home(d, d.name[u]), u) :
             e.name[t] = d.name[t] \/ e.name[t] = k
      BY <1>1, <1>4, <1>5, <3>3 DEF IsDict
    <3>5. QED
      BY <1>4, <1>5, <3>1, <3>2, <3>3, <3>4, MarkAssumption DEF Found, StopsAt
  <2>3. QED
    BY <2>1, <2>2
<1>7. EntriesReachable(e)
  BY <1>6 DEF EntriesReachable
<1>8. QED
  BY <1>1, <1>2, <1>3, <1>7 DEF Stored

MarkedIn(d, e, s) ==
  /\ IsDict(e) /\ e.size = d.size /\ e.remain = d.remain
  /\ e.name = [d.name EXCEPT ![s] = DELETED]
  /\ e.value = [d.value EXCEPT ![s] = NULL]
  /\ EntriesReachable(e)
  /\ Taken(e) = Taken(d)

\* Marking an entry keeps the others reachable and the empty slots empty.
LEMMA MarkedOK ==
  ASSUME NEW d, IsDict(d), EntriesReachable(d), NEW s \in Slots(d), IsLive(d, s),
         NEW e, e = Marked(d, s)
  PROVE  MarkedIn(d, e, s)
<1>1. /\ e.size = d.size /\ e.remain = d.remain
      /\ e.name = [d.name EXCEPT ![s] = DELETED]
      /\ e.value = [d.value EXCEPT ![s] = NULL]
      /\ e = Table(e.size, e.remain, e.name, e.value)
  BY DEF Marked, Table
<1>2. IsDict(e)
  BY <1>1 DEF IsDict
<1>3. Taken(e) = Taken(d)
  BY <1>1, MarkAssumption DEF Taken, IsDict, IsLive
<1>4. ASSUME NEW u \in Slots(e), IsLive(e, u)
      PROVE  Found(e, e.name[u], u)
  <2>1. u # s /\ e.name[u] = d.name[u] /\ IsLive(d, u) /\ u \in Slots(d)
    BY <1>1, <1>4, MarkAssumption DEF IsDict, IsLive
  <2>2. Found(d, d.name[u], u) /\ d.name[u] \in Key
    BY <2>1 DEF EntriesReachable, IsLive
  <2>3. Home(e, d.name[u]) = Home(d, d.name[u]) /\ Home(d, d.name[u]) \in Slots(d)
    BY <1>1, <2>2, HomeSlot DEF Home
  <2>4. /\ Before(e, Home(d, d.name[u]), u) = Before(d, Home(d, d.name[u]), u)
        /\ Before(d, Home(d, d.name[u]), u) \subseteq Slots(d)
    BY <1>1, <2>1, <2>3, BeforeSlots DEF Before
  <2>5. \A t \in Slots(d) : e.name[t] = d.name[t] \/ e.name[t] = DELETED
    BY <1>1 DEF IsDict
  <2>6. QED
    BY <2>1, <2>2, <2>3, <2>4, <2>5, MarkAssumption DEF Found, StopsAt
<1>5. EntriesReachable(e)
  BY <1>4 DEF EntriesReachable
<1>6. QED
  BY <1>1, <1>2, <1>3, <1>5 DEF MarkedIn

TrimmedIn(d, e, s) ==
  /\ IsDict(e) /\ e.size = d.size /\ e.remain = d.remain + 1
  /\ e.name = [d.name EXCEPT ![s] = NULL] /\ e.value = d.value
  /\ EntriesReachable(e)
  /\ Taken(e) = Taken(d) \ {s}
  /\ s \in Taken(d)

\* Emptying a marked slot in front of an empty one cuts no probe short.
LEMMA TrimmedOK ==
  ASSUME NEW d, IsDict(d), EntriesReachable(d), NEW s \in Slots(d),
         d.name[s] = DELETED, d.name[Succ(d, s)] = NULL,
         NEW e, e = Trimmed(d, s)
  PROVE  TrimmedIn(d, e, s)
<1>1. /\ e.size = d.size /\ e.remain = d.remain + 1
      /\ e.name = [d.name EXCEPT ![s] = NULL]
      /\ e.value = d.value
      /\ e = Table(e.size, e.remain, e.name, e.value)
  BY DEF Trimmed, Table
<1>2. IsDict(e)
  BY <1>1 DEF IsDict
<1>3. Taken(e) = Taken(d) \ {s} /\ s \in Taken(d)
  BY <1>1, MarkAssumption DEF Taken, IsDict
<1>4. ASSUME NEW u \in Slots(e), IsLive(e, u)
      PROVE  Found(e, e.name[u], u)
  <2>1. u # s /\ e.name[u] = d.name[u] /\ IsLive(d, u) /\ u \in Slots(d)
    BY <1>1, <1>4, MarkAssumption DEF IsDict, IsLive
  <2>2. Found(d, d.name[u], u) /\ d.name[u] \in Key
    BY <2>1 DEF EntriesReachable, IsLive
  <2>3. Home(e, d.name[u]) = Home(d, d.name[u]) /\ Home(d, d.name[u]) \in Slots(d)
    BY <1>1, <2>2, HomeSlot DEF Home
  <2>4. /\ Before(e, Home(d, d.name[u]), u) = Before(d, Home(d, d.name[u]), u)
        /\ Before(d, Home(d, d.name[u]), u) \subseteq Slots(d)
    BY <1>1, <2>1, <2>3, BeforeSlots DEF Before
  <2>5. s \notin Before(d, Home(d, d.name[u]), u)
    <3>1. SUFFICES ASSUME s \in Before(d, Home(d, d.name[u]), u) PROVE FALSE
      OBVIOUS
    <3>2. Succ(d, s) = u \/ Succ(d, s) \in Before(d, Home(d, d.name[u]), u)
      BY <2>1, <2>3, <3>1, BeforeSucc
    <3>3. QED
      BY <2>2, <3>2, MarkAssumption DEF Found, StopsAt
  <2>6. \A t \in Slots(d) : t # s => e.name[t] = d.name[t]
    BY <1>1 DEF IsDict
  <2>7. QED
    BY <2>1, <2>2, <2>3, <2>4, <2>5, <2>6 DEF Found, StopsAt
<1>5. EntriesReachable(e)
  BY <1>4 DEF EntriesReachable
<1>6. QED
  BY <1>1, <1>2, <1>3, <1>5 DEF TrimmedIn
-----------------------------------------------------------------------------
(* The inductive invariant. *)

\* The slots of dict whose entries have been copied.
Copied == {s \in Slots(dict) : s < cursor /\ IsLive(dict, s)}

\* While put grows the table: the new one has no marks and holds the copied
\* entries, which are as many as its used slots, and the name to be stored is
\* in neither table.
CopyInv ==
  /\ filling.size = GROW(dict.size)
  /\ \A s \in Slots(dict) : dict.name[s] # arg.key
  /\ arg.value \in Value
  /\ \A t \in Slots(filling) : filling.name[t] # DELETED
  /\ \A t \in Slots(filling) : IsLive(filling, t) => \E s \in Copied : dict.name[s] = filling.name[t]
  /\ Cardinality(Taken(filling)) = Cardinality(Copied)
  /\ \A s \in Copied : \E t \in Slots(filling) : /\ filling.name[t] = dict.name[s]
                                                  /\ filling.value[t] = dict.value[s]

\* The slot after the one that the walk back looks at is empty.
TrimInv == dict.name[Succ(dict, cursor)] = NULL

IInv ==
  /\ TypeOK
  /\ RemainExact
  /\ dict.remain >= 1
  /\ filling.remain >= 1
  /\ Reachable
  /\ pc = "copy" => CopyInv
  /\ pc = "trim" => TrimInv

-----------------------------------------------------------------------------
LEMMA RoomLeavesEmpty ==
  ASSUME NEW d, IsDict(d), d.remain >= 1,
         d.remain = REMAIN(d.size) - Cardinality(Taken(d))
  PROVE  HasEmptySlot(d)
<1>1. Cardinality(Taken(d)) < Cardinality(Slots(d))
  BY UsedFinite DEF IsDict, REMAIN
<1>2. Taken(d) # Slots(d)
  BY <1>1, UsedFinite
<1>3. QED
  BY <1>2 DEF Taken, HasEmptySlot

LEMMA NewTableOK ==
  ASSUME NEW n \in Nat \ {0, 1}
  PROVE  LET d == mkdict0(n) IN
         /\ IsDict(d) /\ d.size = n /\ d.remain = REMAIN(n) /\ d.remain >= 1
         /\ \A s \in Slots(d) : d.name[s] = NULL
         /\ Taken(d) = {} /\ Cardinality(Taken(d)) = 0
         /\ EntriesReachable(d)
<1>. DEFINE d == mkdict0(n)
<1>1. /\ d.size = n /\ d.remain = REMAIN(n)
      /\ d.name = [s \in 0 .. n - 1 |-> NULL]
      /\ d.value = [s \in 0 .. n - 1 |-> NULL]
      /\ d = Table(d.size, d.remain, d.name, d.value)
  BY DEF mkdict0, Table
<1>2. REMAIN(n) \in Int /\ REMAIN(n) >= 1
  BY DEF REMAIN
<1>3. IsDict(d)
  BY <1>1, <1>2 DEF IsDict
<1>4. \A s \in Slots(d) : d.name[s] = NULL
  BY <1>1
<1>5. Taken(d) = {}
  BY <1>4 DEF Taken
<1>6. EntriesReachable(d)
  BY <1>4, MarkAssumption DEF EntriesReachable, IsLive
<1>7. QED
  BY <1>1, <1>2, <1>3, <1>4, <1>5, <1>6, FS_EmptySet

LEMMA InitOK == Init => IInv
<1>. SUFFICES ASSUME Init PROVE IInv
  OBVIOUS
<1>1. dict = mkdict0(2) /\ filling = mkdict0(2) /\ pc = "idle" /\ cursor = 0 /\ arg = NoArg
  BY DEF Init, INIT_DICT_SIZE
<1>2. /\ IsDict(dict) /\ dict.size = 2 /\ dict.remain = REMAIN(2) /\ dict.remain >= 1
      /\ Cardinality(Taken(dict)) = 0 /\ EntriesReachable(dict)
  BY <1>1, NewTableOK
<1>3. TypeOK
  BY <1>1, <1>2, MarkAssumption DEF TypeOK, NoArg
<1>4. REMAIN(2) \in Int
  BY DEF REMAIN
<1>5. QED
  BY <1>1, <1>2, <1>3, <1>4 DEF IInv, RemainExact, Reachable
-----------------------------------------------------------------------------
(* Each action preserves the invariant. *)

\* What the invariant says of the two tables, without their contents.
LEMMA IInvFacts ==
  ASSUME IInv
  PROVE  /\ IsDict(dict) /\ IsDict(filling)
         /\ EntriesReachable(dict) /\ EntriesReachable(filling)
         /\ dict.size \in Nat /\ dict.size >= 2
         /\ dict.remain \in Nat /\ filling.remain \in Nat
         /\ REMAIN(dict.size) \in Nat /\ REMAIN(dict.size) >= 1
         /\ Cardinality(Taken(dict)) \in Nat /\ Cardinality(Taken(filling)) \in Nat
         /\ dict.remain = REMAIN(dict.size) - Cardinality(Taken(dict))
         /\ filling.remain = REMAIN(filling.size) - Cardinality(Taken(filling))
<1>1. /\ IsDict(dict) /\ IsDict(filling)
      /\ EntriesReachable(dict) /\ EntriesReachable(filling)
  BY DEF IInv, TypeOK, Reachable
<1>2. /\ dict.size \in Nat /\ dict.size >= 2
      /\ dict.remain \in Nat /\ filling.remain \in Nat
  BY <1>1 DEF IInv, IsDict
<1>3. REMAIN(dict.size) \in Nat /\ REMAIN(dict.size) >= 1
  BY <1>2 DEF REMAIN
<1>4. Cardinality(Taken(dict)) \in Nat /\ Cardinality(Taken(filling)) \in Nat
  BY <1>1, UsedFinite
<1>5. QED
  BY <1>1, <1>2, <1>3, <1>4 DEF IInv, RemainExact

\* A name that get finds has an entry, and the one slot is the one found.
LEMMA FoundLive ==
  ASSUME NEW d, NEW k \in Key, NEW s \in Slots(d), Found(d, k, s)
  PROVE  IsLive(d, s) /\ d.name[s] = k
BY DEF Found, IsLive

RevaluedIn(d, e, s, v) ==
  /\ IsDict(e) /\ e.size = d.size /\ e.remain = d.remain /\ e.name = d.name
  /\ e.value = [d.value EXCEPT ![s] = v]
  /\ EntriesReachable(e)
  /\ Taken(e) = Taken(d)

\* Overwriting a value changes no name.
LEMMA RevaluedOK ==
  ASSUME NEW d, IsDict(d), EntriesReachable(d), NEW s \in Slots(d), NEW v \in Value,
         NEW e, e = Revalued(d, s, v)
  PROVE  RevaluedIn(d, e, s, v)
<1>1. /\ e.size = d.size /\ e.remain = d.remain /\ e.name = d.name
      /\ e.value = [d.value EXCEPT ![s] = v]
      /\ e = Table(e.size, e.remain, e.name, e.value)
  BY DEF Revalued, Table
<1>2. IsDict(e)
  BY <1>1 DEF IsDict
<1>3. EntriesReachable(e) /\ Taken(e) = Taken(d)
  BY <1>1 DEF EntriesReachable, IsLive, Found, StopsAt, Home, Before, Taken
<1>4. QED
  BY <1>1, <1>2, <1>3 DEF RevaluedIn

LEMMA ReplaceOK ==
  ASSUME IInv, NEW k \in Key, NEW v \in Value, DictputReplace(k, v)
  PROVE  IInv'
<1>1. PICK s \in Slots(dict) : Found(dict, k, s) /\ dict' = Revalued(dict, s, v)
  BY DEF DictputReplace
<1>2. /\ IsDict(dict') /\ dict'.size = dict.size /\ dict'.remain = dict.remain
      /\ EntriesReachable(dict') /\ Taken(dict') = Taken(dict)
  <2>1. RevaluedIn(dict, dict', s, v)
    BY <1>1, IInvFacts, RevaluedOK
  <2>2. QED
    BY <2>1 DEF RevaluedIn
<1>3. pc' = "idle" /\ filling' = filling /\ cursor' = cursor /\ arg' = arg
  BY DEF DictputReplace
<1>4. TypeOK'
  BY <1>2, <1>3 DEF IInv, TypeOK, DictputReplace
<1>5. RemainExact'
  BY <1>2, <1>3 DEF IInv, RemainExact, Taken
<1>6. Reachable'
  BY <1>2, <1>3 DEF IInv, Reachable
<1>7. QED
  BY <1>2, <1>3, <1>4, <1>5, <1>6 DEF IInv

LEMMA InsertOK ==
  ASSUME IInv, NEW k \in Key, NEW v \in Value, DictputInsert(k, v)
  PROVE  IInv'
<1>1. PICK s \in Slots(dict) : /\ StopsAt(dict, k, {NULL, DELETED}, s)
                               /\ dict' = StoreAt(dict, s, k, v)
  BY DEF DictputInsert
<1>2. \A u \in Slots(dict) : dict.name[u] # k
  BY MissingAbsent DEF DictputInsert, IInv, TypeOK, Reachable
<1>3. /\ IsDict(dict') /\ dict'.size = dict.size
      /\ EntriesReachable(dict')
      /\ Taken(dict') = Taken(dict) \cup {s}
      /\ dict'.remain = IF dict.name[s] = NULL THEN dict.remain - 1 ELSE dict.remain
  <2>1. IsDict(dict) /\ EntriesReachable(dict)
    BY IInvFacts
  <2>2. Stored(dict, dict', s, k, v)
    BY <1>1, <1>2, <2>1, StoreAtOK
  <2>3. QED
    BY <2>2 DEF Stored
<1>4. pc' = "idle" /\ filling' = filling /\ cursor' = cursor /\ arg' = arg
  BY DEF DictputInsert
<1>5. TypeOK'
  BY <1>3, <1>4 DEF IInv, TypeOK, DictputInsert
<1>6. dict'.remain = REMAIN(dict'.size) - Cardinality(Taken(dict'))
  <2>1. s \in Taken(dict) <=> dict.name[s] # NULL
    BY DEF Taken
  <2>2. Cardinality(Taken(dict')) =
          IF s \in Taken(dict) THEN Cardinality(Taken(dict)) ELSE Cardinality(Taken(dict)) + 1
    <3>1. IsFiniteSet(Taken(dict))
      <4>1. IsDict(dict)
        BY IInvFacts
      <4>2. QED
        BY <4>1, UsedFinite
    <3>2. Taken(dict') = Taken(dict) \cup {s}
      BY <1>3
    <3>3. QED
      BY <3>1, <3>2, FS_AddElement
  <2>3. QED
    BY <1>3, <2>1, <2>2, IInvFacts
<1>7. dict'.remain >= 1
  BY <1>3 DEF DictputInsert, IsFull, IInv, TypeOK, IsDict
<1>8. RemainExact' /\ Reachable'
  BY <1>3, <1>4, <1>6 DEF IInv, RemainExact, Reachable, Taken
<1>9. QED
  BY <1>3, <1>4, <1>5, <1>7, <1>8 DEF IInv

LEMMA GrowBeginOK ==
  ASSUME IInv, NEW k \in Key, NEW v \in Value, GrowBegin(k, v)
  PROVE  IInv'
<1>1. /\ filling' = mkdict0(GROW(dict.size)) /\ dict' = dict /\ cursor' = 0 /\ pc' = "copy"
      /\ arg' = [key |-> k, value |-> v]
  BY DEF GrowBegin
<1>2. GROW(dict.size) \in Nat \ {0, 1}
  BY DEF IInv, TypeOK, IsDict, GROW
<1>3. /\ IsDict(filling') /\ filling'.size = GROW(dict.size) /\ filling'.remain = REMAIN(filling'.size)
      /\ filling'.remain >= 1 /\ Taken(filling') = {} /\ Cardinality(Taken(filling')) = 0
      /\ EntriesReachable(filling')
      /\ \A t \in Slots(filling') : filling'.name[t] = NULL
  BY <1>1, <1>2, NewTableOK
<1>4. \A u \in Slots(dict) : dict.name[u] # k
  BY MissingAbsent DEF GrowBegin, IInv, TypeOK, Reachable
<1>5. TypeOK'
  BY <1>1, <1>3 DEF IInv, TypeOK, IsDict
<1>6. RemainExact'
  BY <1>1, <1>2, <1>3 DEF IInv, RemainExact, Taken, REMAIN
<1>7. CopyInv'
  <2>1. Copied' = {}
    BY <1>1 DEF Copied, IInv, TypeOK, IsDict
  <2>2. Cardinality({}) = 0
    BY FS_EmptySet
  <2>3. QED
    BY <1>1, <1>3, <1>4, <2>1, <2>2, MarkAssumption DEF CopyInv, IsLive
<1>8. QED
  BY <1>1, <1>3, <1>5, <1>6, <1>7 DEF IInv, Reachable

\* What the invariant says while the entries are being copied.
LEMMA CopyFacts ==
  ASSUME IInv, pc = "copy", cursor < dict.size
  PROVE  /\ CopyInv /\ cursor \in Slots(dict) /\ cursor \in Nat /\ cursor \notin Copied
         /\ IsFiniteSet(Copied) /\ Cardinality(Copied) \in Nat
         /\ IsLive(dict, cursor) => Cardinality(Copied) + 2 <= REMAIN(dict.size)
<1>1. CopyInv /\ cursor \in Slots(dict) /\ cursor \in Nat /\ cursor \notin Copied
  BY IInvFacts DEF IInv, TypeOK, Copied
<1>2. IsFiniteSet(Copied) /\ Cardinality(Copied) \in Nat
  <2>1. Copied \subseteq Slots(dict)
    BY DEF Copied
  <2>2. QED
    BY <2>1, IInvFacts, UsedFinite, FS_Subset, FS_CardinalityType
<1>3. ASSUME IsLive(dict, cursor)
      PROVE  Cardinality(Copied) + 2 <= REMAIN(dict.size)
  <2>1. Copied \cup {cursor} \subseteq Taken(dict)
    BY <1>1, <1>3, MarkAssumption DEF Copied, Taken, IsLive
  <2>2. Cardinality(Copied \cup {cursor}) = Cardinality(Copied) + 1
    BY <1>1, <1>2, FS_AddElement
  <2>3. IsFiniteSet(Taken(dict))
    BY IInvFacts, UsedFinite
  <2>4. Cardinality(Copied \cup {cursor}) <= Cardinality(Taken(dict))
    BY <2>1, <2>3, FS_Subset
  <2>5. dict.remain >= 1
    BY DEF IInv
  <2>6. QED
    BY <1>2, <2>2, <2>4, <2>5, IInvFacts
<1>4. QED
  BY <1>1, <1>2, <1>3

\* The new table has room for all that is copied.
LEMMA CopyHasRoom ==
  ASSUME IInv, pc = "copy", cursor < dict.size, IsLive(dict, cursor)
  PROVE  ~IsFull(filling)
<1>1. /\ filling.size = GROW(dict.size)
      /\ Cardinality(Taken(filling)) = Cardinality(Copied)
  BY CopyFacts DEF CopyInv
<1>2. REMAIN(GROW(dict.size)) >= REMAIN(dict.size) /\ REMAIN(GROW(dict.size)) \in Nat
  BY IInvFacts DEF REMAIN, GROW
<1>3. filling.remain = REMAIN(GROW(dict.size)) - Cardinality(Copied)
  BY <1>1, IInvFacts
<1>4. Cardinality(Copied) + 2 <= REMAIN(dict.size) /\ Cardinality(Copied) \in Nat
  BY CopyFacts
<1>5. filling.remain >= 2
  BY <1>2, <1>3, <1>4, IInvFacts
<1>6. QED
  BY <1>5, IInvFacts DEF IsFull

LEMMA CopyEntryOK ==
  ASSUME IInv, CopyEntry
  PROVE  IInv'
<1>0. /\ IsDict(dict) /\ IsDict(filling) /\ EntriesReachable(dict) /\ EntriesReachable(filling)
      /\ dict.size \in Nat /\ dict.size >= 2 /\ cursor \in Nat /\ cursor < dict.size
      /\ pc = "copy" /\ CopyInv /\ cursor \in Slots(dict) /\ arg.key \in Key
  BY IInvFacts DEF IInv, TypeOK, CopyEntry
<1>1. dict' = dict /\ pc' = pc /\ arg' = arg /\ cursor' = cursor + 1
  BY DEF CopyEntry
<1>2. CASE ~IsLive(dict, cursor)
  <2>1. filling' = filling
    BY <1>2 DEF CopyEntry
  <2>2. Copied' = Copied
    BY <1>0, <1>1, <1>2 DEF Copied
  <2>3. CopyInv'
    BY <1>0, <1>1, <2>1, <2>2 DEF CopyInv, Taken, IsLive
  <2>4. TypeOK'
    BY <1>0, <1>1, <2>1 DEF IInv, TypeOK
  <2>5. QED
    BY <1>0, <1>1, <2>1, <2>3, <2>4 DEF IInv, RemainExact, Reachable, Taken
<1>3. CASE IsLive(dict, cursor)
  <2>. DEFINE k == dict.name[cursor]
              v == dict.value[cursor]
  <2>1. ~IsFull(filling)
    BY <1>0, <1>3, CopyHasRoom
  <2>2. PICK s \in Slots(filling) : /\ StopsAt(filling, k, {NULL, DELETED}, s)
                                    /\ filling' = StoreAt(filling, s, k, v)
    BY <1>3, <2>1 DEF CopyEntry
  <2>3. k \in Key /\ v \in Value \cup {NULL}
    BY <1>0, <1>3 DEF IsDict, IsLive
  <2>4. \A u \in Slots(filling) : filling.name[u] # k
    <3>1. SUFFICES ASSUME NEW u \in Slots(filling), filling.name[u] = k PROVE FALSE
      OBVIOUS
    <3>2. PICK c \in Copied : dict.name[c] = filling.name[u]
      BY <1>0, <2>3, <3>1 DEF CopyInv, IsLive
    <3>3. c \in Slots(dict) /\ c < cursor /\ dict.name[c] = dict.name[cursor]
      BY <3>1, <3>2 DEF Copied
    <3>4. QED
      BY <1>0, <1>3, <3>3, NameUnique
  <2>5. Stored(filling, filling', s, k, v)
    <3>. HIDE DEF k, v
    <3>1. QED
      BY <1>0, <2>2, <2>3, <2>4, StoreAtOK
  <2>6. filling.name[s] = NULL
    BY <1>0, <2>2 DEF StopsAt, CopyInv
  <2>7. /\ IsDict(filling') /\ filling'.size = filling.size /\ EntriesReachable(filling')
        /\ filling'.name = [filling.name EXCEPT ![s] = k]
        /\ filling'.value = [filling.value EXCEPT ![s] = v]
        /\ Taken(filling') = Taken(filling) \cup {s} /\ filling'.remain = filling.remain - 1
    BY <2>5, <2>6 DEF Stored
  <2>8. Cardinality(Taken(filling')) = Cardinality(Taken(filling)) + 1
    <3>1. s \notin Taken(filling)
      BY <2>6 DEF Taken
    <3>2. IsFiniteSet(Taken(filling))
      BY <1>0, UsedFinite
    <3>3. Cardinality(Taken(filling) \cup {s}) = Cardinality(Taken(filling)) + 1
      BY <3>1, <3>2, FS_AddElement
    <3>4. QED
      BY <2>7, <3>3
  <2>9. Copied' = Copied \cup {cursor}
    BY <1>0, <1>1, <1>3 DEF Copied, IsLive
  <2>10. Cardinality(Copied') = Cardinality(Copied) + 1
    BY <1>0, <2>9, CopyFacts, FS_AddElement
  <2>11. \A t \in Slots(filling) : t # s => /\ filling'.name[t] = filling.name[t]
                                            /\ filling'.value[t] = filling.value[t]
    BY <1>0, <2>7 DEF IsDict
  <2>12. filling'.name[s] = k /\ filling'.value[s] = v
    BY <1>0, <2>7 DEF IsDict
  <2>13. CopyInv'
    <3>1. \A t \in Slots(filling') : filling'.name[t] # DELETED
      BY <1>0, <2>3, <2>7, <2>11, <2>12, MarkAssumption DEF CopyInv
    <3>2. \A t \in Slots(filling') : IsLive(filling', t) =>
             \E c \in Copied' : dict.name[c] = filling'.name[t]
      BY <1>0, <2>7, <2>9, <2>11, <2>12 DEF CopyInv, IsLive
    <3>3. \A c \in Copied' : \E t \in Slots(filling') : /\ filling'.name[t] = dict.name[c]
                                                        /\ filling'.value[t] = dict.value[c]
      <4>1. SUFFICES ASSUME NEW c \in Copied'
                     PROVE  \E t \in Slots(filling') : /\ filling'.name[t] = dict.name[c]
                                                       /\ filling'.value[t] = dict.value[c]
        OBVIOUS
      <4>2. CASE c = cursor
        BY <2>7, <2>12, <4>2
      <4>3. CASE c \in Copied
        <5>1. PICK t \in Slots(filling) : /\ filling.name[t] = dict.name[c]
                                          /\ filling.value[t] = dict.value[c]
          BY <1>0, <4>3 DEF CopyInv
        <5>2. t # s
          BY <2>6, <4>3, <5>1, MarkAssumption DEF Copied, IsLive
        <5>3. QED
          BY <2>7, <2>11, <5>1, <5>2
      <4>4. QED
        BY <2>9, <4>2, <4>3
    <3>4. Cardinality(Taken(filling)) = Cardinality(Copied) /\ Cardinality(Copied) \in Nat
      BY <1>0, CopyFacts DEF CopyInv
    <3>5. Cardinality(Taken(filling')) = Cardinality(Copied')
      BY <2>8, <2>10, <3>4
    <3>6. QED
      BY <1>0, <1>1, <2>7, <3>1, <3>2, <3>3, <3>5 DEF CopyInv, IsLive
  <2>14. TypeOK'
    BY <1>0, <1>1, <2>7 DEF IInv, TypeOK
  <2>15. filling'.remain >= 1
    BY <2>1, <2>7, IInvFacts DEF IsFull
  <2>16. filling'.remain = REMAIN(filling'.size) - Cardinality(Taken(filling'))
    <3>1. REMAIN(filling.size) \in Int
      BY <1>0 DEF IsDict, REMAIN
    <3>2. QED
      BY <2>7, <2>8, <3>1, IInvFacts
  <2>17. QED
    BY <1>0, <1>1, <2>7, <2>13, <2>14, <2>15, <2>16 DEF IInv, RemainExact, Reachable, Taken
<1>4. QED
  BY <1>2, <1>3

\* put's last part: all is copied, and there is room for the new entry.
LEMMA GrowEndOK ==
  ASSUME IInv, GrowEnd
  PROVE  IInv'
<1>1. PICK s \in Slots(filling) : /\ StopsAt(filling, arg.key, {NULL, DELETED}, s)
                                  /\ dict' = StoreAt(filling, s, arg.key, arg.value)
  BY DEF GrowEnd
<1>2. filling' = filling /\ pc' = "idle" /\ cursor' = 0 /\ arg' = NoArg /\ pc = "copy"
  BY DEF GrowEnd
<1>3. CopyInv /\ arg.key \in Key /\ arg.value \in Value
  BY <1>2 DEF IInv, TypeOK, CopyInv
<1>4. \A u \in Slots(filling) : filling.name[u] # arg.key
  BY <1>3, MarkAssumption DEF CopyInv, IsLive, Copied
<1>5. Stored(filling, dict', s, arg.key, arg.value)
  BY <1>1, <1>3, <1>4, IInvFacts, StoreAtOK
<1>6. filling.name[s] = NULL
  BY <1>1, <1>3 DEF StopsAt, CopyInv
<1>7. /\ IsDict(dict') /\ dict'.size = filling.size /\ EntriesReachable(dict')
      /\ Taken(dict') = Taken(filling) \cup {s} /\ dict'.remain = filling.remain - 1
  BY <1>5, <1>6 DEF Stored
<1>8. Cardinality(Taken(dict')) = Cardinality(Taken(filling)) + 1
  <2>1. s \notin Taken(filling)
    BY <1>6 DEF Taken
  <2>2. IsFiniteSet(Taken(filling))
    BY IInvFacts, UsedFinite
  <2>3. Cardinality(Taken(filling) \cup {s}) = Cardinality(Taken(filling)) + 1
    BY <2>1, <2>2, FS_AddElement
  <2>4. QED
    BY <1>7, <2>3
<1>9. filling.remain >= 2
  <2>1. /\ IsFiniteSet(Taken(dict))
        /\ Copied \subseteq Taken(dict)
    <3>1. IsDict(dict)
      BY IInvFacts
    <3>2. IsFiniteSet(Taken(dict))
      BY <3>1, UsedFinite
    <3>3. Copied \subseteq Taken(dict)
      BY MarkAssumption DEF Copied, Taken, IsLive
    <3>4. QED
      BY <3>2, <3>3
  <2>2. Cardinality(Copied) <= Cardinality(Taken(dict))
    BY <2>1, FS_Subset
  <2>3. filling.size = GROW(dict.size) /\ Cardinality(Taken(filling)) = Cardinality(Copied)
    BY <1>3 DEF CopyInv
  <2>4. REMAIN(GROW(dict.size)) >= REMAIN(dict.size) + 1 /\ REMAIN(GROW(dict.size)) \in Nat
    BY IInvFacts DEF REMAIN, GROW
  <2>5. dict.remain >= 1
    BY DEF IInv
  <2>6. /\ REMAIN(dict.size) \in Nat
        /\ Cardinality(Taken(dict)) \in Nat /\ Cardinality(Taken(filling)) \in Nat
        /\ dict.remain = REMAIN(dict.size) - Cardinality(Taken(dict))
        /\ filling.remain = REMAIN(filling.size) - Cardinality(Taken(filling))
    BY IInvFacts
  <2>7. QED
    BY <2>2, <2>3, <2>4, <2>5, <2>6
<1>10. TypeOK'
  <2>1. IsDict(filling)
    BY IInvFacts
  <2>2. filling.size \in Nat
    BY <2>1 DEF IsDict
  <2>3. QED
    BY <1>2, <1>7, <2>1, <2>2, MarkAssumption DEF TypeOK, NoArg
<1>11. dict'.remain = REMAIN(dict'.size) - Cardinality(Taken(dict')) /\ dict'.remain >= 1
  <2>0. IsDict(filling) /\ filling.remain = REMAIN(filling.size) - Cardinality(Taken(filling))
    BY IInvFacts
  <2>1. REMAIN(filling.size) \in Int /\ Cardinality(Taken(filling)) \in Nat
    <3>1. REMAIN(filling.size) \in Int
      BY <2>0 DEF IsDict, REMAIN
    <3>2. IsFiniteSet(Taken(filling))
      BY <2>0, UsedFinite
    <3>3. QED
      BY <3>1, <3>2, FS_CardinalityType
  <2>2. filling.remain = REMAIN(filling.size) - Cardinality(Taken(filling)) /\ filling.remain \in Int
    BY <2>0, <2>1
  <2>3. QED
    BY <1>7, <1>8, <1>9, <2>1, <2>2
<1>12. QED
  BY <1>2, <1>7, <1>10, <1>11, IInvFacts DEF IInv, RemainExact, Reachable, Taken

LEMMA RemoveOK ==
  ASSUME IInv, NEW k \in Key, DictputRemove(k)
  PROVE  IInv'
<1>1. PICK s \in Slots(dict) : /\ Found(dict, k, s) /\ dict' = Marked(dict, s)
                               /\ cursor' = Succ(dict, s)
  BY DEF DictputRemove
<1>2. MarkedIn(dict, dict', s)
  BY <1>1, IInvFacts, FoundLive, MarkedOK
<1>3. /\ IsDict(dict') /\ dict'.size = dict.size /\ dict'.remain = dict.remain
      /\ EntriesReachable(dict') /\ Taken(dict') = Taken(dict)
  BY <1>2 DEF MarkedIn
<1>4. filling' = filling /\ pc' = "scan" /\ arg' = arg /\ pc = "idle"
  BY DEF DictputRemove
<1>5. cursor' \in Slots(dict)
  BY <1>1, IInvFacts, SuccPred
<1>6. cursor' \in 0 .. dict'.size /\ cursor' < dict'.size
  BY <1>3, <1>5, IInvFacts
<1>7. TypeOK'
  BY <1>3, <1>4, <1>6 DEF IInv, TypeOK
<1>8. QED
  BY <1>3, <1>4, <1>7 DEF IInv, RemainExact, Reachable, Taken

LEMMA ScanOK ==
  ASSUME IInv, ScanForward
  PROVE  IInv'
<1>1. dict' = dict /\ filling' = filling /\ arg' = arg /\ pc = "scan"
  BY DEF ScanForward
<1>2. cursor \in Slots(dict) /\ ~(arg.key \in Key)
  BY <1>1, IInvFacts DEF IInv, TypeOK
<1>3. /\ Succ(dict, cursor) \in Slots(dict) /\ Pred(dict, cursor) \in Slots(dict)
      /\ Succ(dict, Pred(dict, cursor)) = cursor
  BY <1>2, IInvFacts, SuccPred
<1>4. /\ cursor' \in Slots(dict) /\ pc' \in {"scan", "idle", "trim"}
      /\ pc' = "trim" => dict.name[Succ(dict, cursor')] = NULL
  BY <1>1, <1>2, <1>3, IInvFacts DEF ScanForward
<1>5. TypeOK'
  BY <1>1, <1>2, <1>4, IInvFacts DEF IInv, TypeOK
<1>6. TrimInv' <=> dict.name[Succ(dict, cursor')] = NULL
  BY <1>1 DEF TrimInv, Succ
<1>7. QED
  BY <1>1, <1>4, <1>5, <1>6 DEF IInv, RemainExact, Reachable, Taken

LEMMA TrimOK ==
  ASSUME IInv, TrimBack
  PROVE  IInv'
<1>1. filling' = filling /\ arg' = arg /\ pc = "trim"
  BY DEF TrimBack
<1>2. cursor \in Slots(dict) /\ ~(arg.key \in Key) /\ TrimInv
  BY <1>1, IInvFacts DEF IInv, TypeOK
<1>3. Pred(dict, cursor) \in Slots(dict) /\ Succ(dict, Pred(dict, cursor)) = cursor
  BY <1>2, IInvFacts, SuccPred
<1>4. CASE dict.name[cursor] = DELETED
  <2>1. dict' = Trimmed(dict, cursor) /\ cursor' = Pred(dict, cursor) /\ pc' = pc
    BY <1>4 DEF TrimBack
  <2>2. TrimmedIn(dict, dict', cursor)
    BY <1>2, <1>4, <2>1, IInvFacts, TrimmedOK DEF TrimInv
  <2>3. /\ IsDict(dict') /\ dict'.size = dict.size /\ dict'.remain = dict.remain + 1
        /\ dict'.name = [dict.name EXCEPT ![cursor] = NULL]
        /\ EntriesReachable(dict') /\ Taken(dict') = Taken(dict) \ {cursor}
        /\ cursor \in Taken(dict)
    BY <2>2 DEF TrimmedIn
  <2>4. Cardinality(Taken(dict')) = Cardinality(Taken(dict)) - 1
    BY <2>3, IInvFacts, UsedFinite, FS_RemoveElement
  <2>5. TypeOK'
    BY <1>1, <1>2, <1>3, <2>1, <2>3, IInvFacts DEF IInv, TypeOK
  <2>6. Succ(dict', cursor') = cursor
    BY <1>3, <2>1, <2>3 DEF Succ
  <2>7. dict'.name[cursor] = NULL
    BY <1>2, <2>3, IInvFacts DEF IsDict
  <2>8. TrimInv'
    BY <2>6, <2>7 DEF TrimInv
  <2>9. dict'.remain = REMAIN(dict'.size) - Cardinality(Taken(dict')) /\ dict'.remain >= 1
    BY <2>3, <2>4, IInvFacts
  <2>10. QED
    BY <1>1, <2>1, <2>3, <2>5, <2>8, <2>9 DEF IInv, RemainExact, Reachable, Taken
<1>5. CASE dict.name[cursor] # DELETED
  <2>1. dict' = dict /\ cursor' = 0 /\ pc' = "idle"
    BY <1>5 DEF TrimBack
  <2>2. TypeOK'
    BY <1>1, <1>2, <2>1, IInvFacts DEF IInv, TypeOK
  <2>3. QED
    BY <1>1, <2>1, <2>2 DEF IInv, RemainExact, Reachable, Taken
<1>6. QED
  BY <1>4, <1>5

LEMMA StepOK == IInv /\ [Next]_vars => IInv'
<1>. SUFFICES ASSUME IInv, [Next]_vars PROVE IInv'
  OBVIOUS
<1>1. CASE \E k \in Key, v \in Value : Call(k, v)
  BY <1>1, ReplaceOK, InsertOK, GrowBeginOK DEF Call
<1>2. CASE \E k \in Key : DictputRemove(k)
  BY <1>2, RemoveOK
<1>3. CASE Loop
  BY <1>3, CopyEntryOK, GrowEndOK, ScanOK, TrimOK DEF Loop
<1>4. CASE UNCHANGED vars
  BY <1>4 DEF vars, IInv, TypeOK, RemainExact, Reachable, CopyInv, TrimInv, Copied, Taken
<1>5. QED
  BY <1>1, <1>2, <1>3, <1>4 DEF Next

-----------------------------------------------------------------------------
(* The theorems. *)

\* The inductive invariant holds in every reachable state.
THEOREM Invariance == Spec => []IInv
<1>1. Init => IInv
  BY InitOK
<1>2. IInv /\ [Next]_vars => IInv'
  BY StepOK
<1>3. QED
  BY <1>1, <1>2, PTL DEF Spec

\* Every variable has its type: the loops of put and rm stay in the table.
THEOREM Typing == Spec => []TypeOK
<1>1. IInv => TypeOK
  BY DEF IInv
<1>2. QED
  BY <1>1, Invariance, PTL

\* dict.c's count of free slots is exact, for tables of every size.
THEOREM RemainIsExact == Spec => []RemainExact
<1>1. IInv => RemainExact
  BY DEF IInv
<1>2. QED
  BY <1>1, Invariance, PTL

\* The loops of get and put always have an empty slot to stop at.
THEOREM ProbesStop == Spec => []ProbesTerminate
<1>1. IInv => ProbesTerminate
  BY RoomLeavesEmpty DEF IInv, TypeOK, RemainExact, ProbesTerminate
<1>2. QED
  BY <1>1, Invariance, PTL

\* No insertion that recurseput makes finds the new table full, whatever the
\* tables' size: the result of put that recurseput drops is never a third table.
THEOREM NoEntryLostInGrowth == Spec => []ReinsertionFits
<1>1. IInv => ReinsertionFits
  BY CopyHasRoom DEF ReinsertionFits
<1>2. QED
  BY <1>1, Invariance, PTL

\* Every entry is found by get, in every state between two steps of a call.
THEOREM EveryEntryReachable == Spec => []Reachable
<1>1. IInv => Reachable
  BY DEF IInv
<1>2. QED
  BY <1>1, Invariance, PTL

-----------------------------------------------------------------------------
(* The hash table of dict.c implements the map of DictMap. *)

\* What get answers, for every name.
map == [k \in Key |-> dictget(dict, k)]

-----------------------------------------------------------------------------
(* What dictget answers. *)

\* dictget answers the value in the slot of the name, wherever that is.
LEMMA GetHit ==
  ASSUME NEW d, IsDict(d), EntriesReachable(d), NEW k \in Key,
         NEW s \in Slots(d), d.name[s] = k
  PROVE  dictget(d, k) = d.value[s]
<1>1. IsLive(d, s) /\ Found(d, k, s)
  BY DEF EntriesReachable, IsLive
<1>2. \A u \in Slots(d) : Found(d, k, u) => u = s
  BY <1>1, NameUnique DEF Found
<1>3. QED
  BY <1>1, <1>2 DEF dictget

\* dictget answers NULL for a name that is in no slot.
LEMMA GetMiss ==
  ASSUME NEW d, NEW k, \A s \in Slots(d) : d.name[s] # k
  PROVE  dictget(d, k) = NULL
BY DEF dictget, Found

\* A table with the entries of another but for one name answers the same but for it.
LEMMA GetSame ==
  ASSUME NEW d, IsDict(d), EntriesReachable(d), NEW e, IsDict(e), EntriesReachable(e),
         NEW k \in Key,
         \A s \in Slots(d) : d.name[s] = k =>
            \E u \in Slots(e) : e.name[u] = k /\ e.value[u] = d.value[s],
         \A u \in Slots(e) : e.name[u] = k => \E s \in Slots(d) : d.name[s] = k
  PROVE  dictget(e, k) = dictget(d, k)
<1>1. CASE \E s \in Slots(d) : d.name[s] = k
  <2>1. PICK s \in Slots(d) : d.name[s] = k
    BY <1>1
  <2>2. PICK u \in Slots(e) : e.name[u] = k /\ e.value[u] = d.value[s]
    BY <2>1
  <2>3. QED
    BY <2>1, <2>2, GetHit
<1>2. CASE ~\E s \in Slots(d) : d.name[s] = k
  BY <1>2, GetMiss
<1>3. QED
  BY <1>1, <1>2

-----------------------------------------------------------------------------
(* What the parts of dictput do to the answers. *)

\* e answers as d does for every name but k, and v for that one.
Updated(d, e, k, v) ==
  /\ dictget(e, k) = v
  /\ \A j \in Key \ {k} : dictget(e, j) = dictget(d, j)

\* A new value in the slot of a name.
LEMMA RevaluedGets ==
  ASSUME NEW d, IsDict(d), EntriesReachable(d), NEW s \in Slots(d), NEW k \in Key, d.name[s] = k,
         NEW v \in Value, NEW e, RevaluedIn(d, e, s, v)
  PROVE  Updated(d, e, k, v)
<1>1. /\ IsDict(e) /\ EntriesReachable(e) /\ e.size = d.size /\ e.name = d.name
      /\ e.value[s] = v /\ \A u \in Slots(d) \ {s} : e.value[u] = d.value[u]
  BY DEF RevaluedIn, IsDict
<1>2. dictget(e, k) = v
  BY <1>1, GetHit
<1>3. ASSUME NEW j \in Key \ {k} PROVE dictget(e, j) = dictget(d, j)
  BY <1>1, GetSame
<1>4. QED
  BY <1>2, <1>3 DEF Updated

\* A name stored in a slot that was empty or marked.
LEMMA StoredGets ==
  ASSUME NEW d, IsDict(d), EntriesReachable(d), NEW s \in Slots(d), d.name[s] \in {NULL, DELETED},
         NEW k \in Key, \A u \in Slots(d) : d.name[u] # k,
         NEW v \in Value, NEW e, Stored(d, e, s, k, v)
  PROVE  Updated(d, e, k, v)
<1>1. /\ IsDict(e) /\ EntriesReachable(e) /\ e.size = d.size
      /\ e.name[s] = k /\ e.value[s] = v
      /\ \A u \in Slots(d) \ {s} : e.name[u] = d.name[u] /\ e.value[u] = d.value[u]
  BY DEF Stored, IsDict
<1>2. dictget(e, k) = v
  BY <1>1, GetHit
<1>3. ASSUME NEW j \in Key \ {k} PROVE dictget(e, j) = dictget(d, j)
  <2>1. d.name[s] # j
    BY MarkAssumption
  <2>2. QED
    BY <1>1, <2>1, GetSame
<1>4. QED
  BY <1>2, <1>3 DEF Updated

\* The slot of a name marked.
LEMMA MarkedGets ==
  ASSUME NEW d, IsDict(d), EntriesReachable(d), NEW s \in Slots(d), NEW k \in Key, d.name[s] = k,
         NEW e, MarkedIn(d, e, s)
  PROVE  Updated(d, e, k, NULL)
<1>1. /\ IsDict(e) /\ EntriesReachable(e) /\ e.size = d.size /\ e.name[s] = DELETED
      /\ \A u \in Slots(d) \ {s} : e.name[u] = d.name[u] /\ e.value[u] = d.value[u]
  BY DEF MarkedIn, IsDict
<1>2. \A u \in Slots(d) \ {s} : d.name[u] # k
  BY NameUnique DEF IsLive
<1>3. dictget(e, k) = NULL
  BY <1>1, <1>2, GetMiss, MarkAssumption
<1>4. ASSUME NEW j \in Key \ {k} PROVE dictget(e, j) = dictget(d, j)
  <2>1. DELETED # j
    BY MarkAssumption
  <2>2. QED
    BY <1>1, <2>1, GetSame
<1>5. QED
  BY <1>3, <1>4 DEF Updated

\* A mark emptied.
LEMMA TrimmedGets ==
  ASSUME NEW d, IsDict(d), EntriesReachable(d), NEW s \in Slots(d), d.name[s] = DELETED,
         NEW e, TrimmedIn(d, e, s), NEW j \in Key
  PROVE  dictget(e, j) = dictget(d, j)
<1>1. /\ IsDict(e) /\ EntriesReachable(e) /\ e.size = d.size /\ e.name[s] = NULL
      /\ \A u \in Slots(d) \ {s} : e.name[u] = d.name[u] /\ e.value[u] = d.value[u]
  BY DEF TrimmedIn, IsDict
<1>2. DELETED # j /\ NULL # j
  BY MarkAssumption
<1>3. QED
  BY <1>1, <1>2, GetSame

-----------------------------------------------------------------------------
(* What the steps do to the map. *)

Set(k, v) == map' = [map EXCEPT ![k] = v]

\* A call of dictput is a call of it on the map.
LEMMA SetOne ==
  ASSUME NEW k \in Key, NEW v, Updated(dict, dict', k, v)
  PROVE  Set(k, v)
<1>1. map' = [j \in Key |-> dictget(dict', j)]
  BY DEF map
<1>2. QED
  BY <1>1 DEF Set, map, Updated

\* dictput of a name that is there.
LEMMA ReplaceSets ==
  ASSUME IInv, NEW k \in Key, NEW v \in Value, DictputReplace(k, v)
  PROVE  Set(k, v)
<1>1. PICK s \in Slots(dict) : Found(dict, k, s) /\ dict' = Revalued(dict, s, v)
  BY DEF DictputReplace
<1>2. RevaluedIn(dict, dict', s, v)
  BY <1>1, IInvFacts, RevaluedOK
<1>3. QED
  BY <1>1, <1>2, IInvFacts, FoundLive, RevaluedGets, SetOne

\* dictput of a new name, in the table that is there.
LEMMA InsertSets ==
  ASSUME IInv, NEW k \in Key, NEW v \in Value, DictputInsert(k, v)
  PROVE  Set(k, v)
<1>1. PICK s \in Slots(dict) : /\ StopsAt(dict, k, {NULL, DELETED}, s)
                               /\ dict' = StoreAt(dict, s, k, v)
  BY DEF DictputInsert
<1>2. IsDict(dict) /\ EntriesReachable(dict)
  BY IInvFacts
<1>3. \A u \in Slots(dict) : dict.name[u] # k
  BY <1>2, MissingAbsent DEF DictputInsert
<1>4. Stored(dict, dict', s, k, v)
  BY <1>1, <1>2, <1>3, StoreAtOK
<1>5. dict.name[s] \in {NULL, DELETED}
  BY <1>1 DEF StopsAt
<1>6. QED
  BY <1>2, <1>3, <1>4, <1>5, StoredGets, SetOne

\* The new table, which the copy has filled, takes the place of the old one.
LEMMA GrowEndSets ==
  ASSUME IInv, GrowEnd
  PROVE  arg.key \in Key /\ arg.value \in Value /\ Set(arg.key, arg.value)
<1>1. PICK s \in Slots(filling) : /\ StopsAt(filling, arg.key, {NULL, DELETED}, s)
                                  /\ dict' = StoreAt(filling, s, arg.key, arg.value)
  BY DEF GrowEnd
<1>2. pc = "copy" /\ cursor = dict.size
  BY DEF GrowEnd
<1>3. CopyInv /\ arg.key \in Key /\ arg.value \in Value
  BY <1>2 DEF IInv, TypeOK, CopyInv
<1>4. IsDict(dict) /\ EntriesReachable(dict) /\ IsDict(filling) /\ EntriesReachable(filling)
  BY IInvFacts
<1>5. \A u \in Slots(filling) : filling.name[u] # arg.key
  BY <1>3, MarkAssumption DEF CopyInv, IsLive, Copied
<1>6. Stored(filling, dict', s, arg.key, arg.value)
  BY <1>1, <1>3, <1>4, <1>5, StoreAtOK
<1>7. filling.name[s] \in {NULL, DELETED}
  BY <1>1 DEF StopsAt
<1>8. Updated(filling, dict', arg.key, arg.value)
  BY <1>3, <1>4, <1>5, <1>6, <1>7, StoredGets
<1>9. ASSUME NEW j \in Key PROVE dictget(filling, j) = dictget(dict, j)
  <2>1. \A t \in Slots(dict) : dict.name[t] = j => t \in Copied
    BY <1>2, <1>4 DEF Copied, IsLive, IsDict
  <2>2. QED
    BY <1>3, <1>4, <2>1, GetSame, MarkAssumption DEF CopyInv, Copied, IsLive
<1>10. QED
  BY <1>3, <1>8, <1>9, SetOne DEF Updated

\* dictput of NULL: the name is gone with its mark, before the marks are trimmed.
LEMMA RemoveSets ==
  ASSUME IInv, NEW k \in Key, DictputRemove(k)
  PROVE  Set(k, NULL)
<1>1. PICK s \in Slots(dict) : Found(dict, k, s) /\ dict' = Marked(dict, s)
  BY DEF DictputRemove
<1>2. MarkedIn(dict, dict', s)
  BY <1>1, IInvFacts, FoundLive, MarkedOK
<1>3. QED
  BY <1>1, <1>2, IInvFacts, FoundLive, MarkedGets, SetOne

\* Emptying a mark takes no entry away.
LEMMA TrimKeeps ==
  ASSUME IInv, TrimBack
  PROVE  map' = map
<1>1. CASE dict' = dict
  BY <1>1 DEF map
<1>2. CASE dict' = Trimmed(dict, cursor) /\ dict.name[cursor] = DELETED
  <2>1. /\ IsDict(dict) /\ EntriesReachable(dict) /\ cursor \in Slots(dict) /\ TrimInv
    BY IInvFacts DEF IInv, TypeOK, TrimBack
  <2>2. TrimmedIn(dict, dict', cursor)
    BY <1>2, <2>1, IInvFacts, TrimmedOK DEF TrimInv
  <2>3. \A j \in Key : dictget(dict', j) = dictget(dict, j)
    BY <1>2, <2>1, <2>2, TrimmedGets
  <2>4. map' = [j \in Key |-> dictget(dict', j)]
    BY DEF map
  <2>5. QED
    BY <2>3, <2>4 DEF map
<1>3. QED
  BY <1>1, <1>2 DEF TrimBack

-----------------------------------------------------------------------------
(* The theorem. *)

\* At the start the map is empty.
LEMMA MapInit == Init => Map!Init
<1>. SUFFICES ASSUME Init PROVE Map!Init
  OBVIOUS
<1>1. \A s \in Slots(dict) : dict.name[s] = NULL
  BY NewTableOK DEF Init, INIT_DICT_SIZE
<1>2. ASSUME NEW k \in Key PROVE dictget(dict, k) = NULL
  BY <1>1, GetMiss, MarkAssumption
<1>3. QED
  BY <1>2 DEF Map!Init

\* Every step is a dictput of the map, or does not change it.
LEMMA MapNext == IInv /\ [Next]_vars => [Map!Next]_map
<1>. SUFFICES ASSUME IInv, [Next]_vars PROVE [Map!Next]_map
  OBVIOUS
<1>1. ASSUME NEW k \in Key, NEW v \in Value \cup {NULL}, Set(k, v) PROVE Map!Next
  BY <1>1 DEF Map!Next, Map!Dictput, Set, map
<1>2. CASE UNCHANGED dict
  BY <1>2 DEF map
<1>3. ASSUME NEW k \in Key, NEW v \in Value, Call(k, v) PROVE [Map!Next]_map
  BY <1>1, <1>2, <1>3, ReplaceSets, InsertSets DEF Call, GrowBegin
<1>4. ASSUME NEW k \in Key, DictputRemove(k) PROVE [Map!Next]_map
  BY <1>1, <1>4, RemoveSets
<1>5. CASE Loop
  BY <1>1, <1>2, <1>5, GrowEndSets, TrimKeeps DEF Loop, CopyEntry, ScanForward
<1>6. QED
  BY <1>2, <1>3, <1>4, <1>5 DEF Next, vars

\* The table implements the map: what get answers changes at one name at a time, as
\* the calls of dictput say, and neither growth nor the marks of rm ever show.
THEOREM ImplementsMap == Spec => RefinesMap
<1>1. Init => Map!Init
  BY MapInit
<1>2. IInv /\ [Next]_vars => [Map!Next]_map
  BY MapNext
<1>3. Spec => []IInv
  BY Invariance
<1>4. QED
  BY <1>1, <1>2, <1>3, PTL DEF Spec, RefinesMap, Map!Spec, map

=============================================================================
