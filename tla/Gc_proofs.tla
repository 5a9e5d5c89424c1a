------------------------------ MODULE Gc_proofs ------------------------------
EXTENDS Gc, SequenceTheorems, WellFoundedInduction, TLAPS

(***************************************************************************)
(* What the program can reach is kept, for any objects and sizes.          *)
(*                                                                         *)
(* The invariant: outside of a collection exactly the objects of the       *)
(* spaces exist and they point to each other only; in one, the roots that  *)
(* scanroots has gone through, and the pointers of all that scanspace has, *)
(* are copied already.  When scanspace is done with the spaces, what it    *)
(* has scanned is closed, and so it holds all that the roots reach.        *)
(*                                                                         *)
(* The operators of the model are proved about first, without its state:   *)
(* sums of sizes, spaces with one object more, forward, and forward on a   *)
(* list of pointers.                                                       *)
(***************************************************************************)

\* g is the list of the sums of the first numbers of f, up to the n-th.
Sums(g, f, n) == g = [i \in 0 .. n |-> IF i = 0 THEN 0 ELSE g[i - 1] + f[i]]

\* A set of numbers has a least one.
LEMMA LeastOf ==
  ASSUME NEW S, S \subseteq Nat, S # {}
  PROVE  \E j \in S : \A l \in S : j <= l
<1>1. PICK j \in S : \A l \in S : <<l, j>> \notin OpToRel(<, Nat)
  BY NatLessThanWellFounded, WFMin, Zenon
<1>2. \A l \in S : ~(l < j)
  BY <1>1 DEF OpToRel
<1>3. QED
  BY <1>2

\* The sums, number by number.
LEMMA SumsAt ==
  ASSUME NEW f, NEW n \in Nat, NEW g, Sums(g, f, n)
  PROVE  g[0] = 0 /\ \A i \in 1 .. n : g[i] = g[i - 1] + f[i]
  BY DEF Sums

\* One sum more.
LEMMA SumsMore ==
  ASSUME NEW f, NEW n \in Nat, NEW g, Sums(g, f, n)
  PROVE  \E h : Sums(h, f, n + 1)
<1>. DEFINE h == [i \in 0 .. n + 1 |-> IF i = n + 1 THEN g[n] + f[n + 1] ELSE g[i]]
<1>1. g[0] = 0 /\ \A i \in 1 .. n : g[i] = g[i - 1] + f[i]
  BY SumsAt
<1>2. \A i \in 0 .. n + 1 : h[i] = IF i = 0 THEN 0 ELSE h[i - 1] + f[i]
  <2>. SUFFICES ASSUME NEW i \in 0 .. n + 1 PROVE h[i] = IF i = 0 THEN 0 ELSE h[i - 1] + f[i]
    OBVIOUS
  <2>1. CASE i = 0
    BY <2>1, <1>1
  <2>2. CASE i = n + 1
    <3>1. h[i] = g[n] + f[i] /\ h[n] = g[n] /\ i - 1 = n
      BY <2>2
    <3>2. QED
      BY <2>2, <3>1
  <2>3. CASE i \in 1 .. n
    <3>1. h[i] = g[i] /\ h[i - 1] = g[i - 1]
      BY <2>3
    <3>2. QED
      BY <2>3, <3>1, <1>1
  <2>4. QED
    BY <2>1, <2>2, <2>3
<1>3. h = [i \in 0 .. n + 1 |-> h[i]]
  OBVIOUS
<1>. HIDE DEF h
<1>4. h = [i \in 0 .. n + 1 |-> IF i = 0 THEN 0 ELSE h[i - 1] + f[i]]
  BY <1>2, <1>3
<1>5. QED
  BY <1>4 DEF Sums

\* Every list has its sums.
LEMMA SumsExist ==
  ASSUME NEW f, NEW n \in Nat
  PROVE  \E g : Sums(g, f, n)
<1>. DEFINE Bad == {m \in Nat : ~\E g : Sums(g, f, m)}
<1>1. SUFFICES ASSUME Bad # {} PROVE FALSE
  OBVIOUS
<1>2. PICK m \in Bad : \A l \in Bad : m <= l
  BY <1>1, LeastOf
<1>3. m \in Nat /\ ~\E g : Sums(g, f, m)
  OBVIOUS
<1>4. m # 0
  <2>1. Sums([i \in 0 .. 0 |-> 0], f, 0)
    BY DEF Sums
  <2>2. QED
    BY <1>3, <2>1
<1>5. m - 1 \in Nat /\ m - 1 \notin Bad
  BY <1>2, <1>3, <1>4
<1>6. PICK g : Sums(g, f, m - 1)
  BY <1>5
<1>7. \E h : Sums(h, f, (m - 1) + 1)
  BY <1>5, <1>6, SumsMore
<1>8. (m - 1) + 1 = m
  BY <1>3
<1>9. QED
  BY <1>3, <1>7, <1>8

\* Total is the last of them.
LEMMA TotalIs ==
  ASSUME NEW f \in Seq(Nat)
  PROVE  \E g : Sums(g, f, Len(f)) /\ Total(f) = g[Len(f)]
<1>1. \E g : g = [i \in 0 .. Len(f) |-> IF i = 0 THEN 0 ELSE g[i - 1] + f[i]]
  BY SumsExist DEF Sums
<1>. DEFINE u == CHOOSE g : g = [i \in 0 .. Len(f) |-> IF i = 0 THEN 0 ELSE g[i - 1] + f[i]]
<1>2. u = [i \in 0 .. Len(f) |-> IF i = 0 THEN 0 ELSE u[i - 1] + f[i]]
  BY <1>1
<1>3. Total(f) = u[Len(f)]
  BY DEF Total
<1>. HIDE DEF u
<1>4. Sums(u, f, Len(f))
  BY <1>2 DEF Sums
<1>5. QED
  BY <1>3, <1>4

\* The sums of numbers are numbers.
LEMMA SumsNat ==
  ASSUME NEW f \in Seq(Nat), NEW g, Sums(g, f, Len(f))
  PROVE  \A i \in 0 .. Len(f) : g[i] \in Nat
<1>. DEFINE Bad == {i \in 0 .. Len(f) : g[i] \notin Nat}
<1>1. Len(f) \in Nat /\ \A i \in 1 .. Len(f) : f[i] \in Nat
  BY LenProperties, ElementOfSeq
<1>2. g[0] = 0 /\ \A i \in 1 .. Len(f) : g[i] = g[i - 1] + f[i]
  BY <1>1, SumsAt
<1>3. SUFFICES ASSUME Bad # {} PROVE FALSE
  OBVIOUS
<1>4. PICK m \in Bad : \A l \in Bad : m <= l
  <2>1. Bad \subseteq Nat
    BY <1>1
  <2>. HIDE DEF Bad
  <2>2. QED
    BY <1>3, <2>1, LeastOf
<1>5. m \in 0 .. Len(f) /\ g[m] \notin Nat
  BY <1>4
<1>6. m \in 1 .. Len(f) /\ m - 1 \in 0 .. Len(f)
  BY <1>1, <1>2, <1>5
<1>7. g[m - 1] \in Nat
  BY <1>4, <1>6
<1>8. QED
  BY <1>1, <1>2, <1>5, <1>6, <1>7

\* The lists have the same first n elements.
SameUpTo(f, e, n) == \A i \in 1 .. n : f[i] = e[i]

\* The sums of two lists that begin with the same numbers begin with the same.
LEMMA SumsSame ==
  ASSUME NEW f, NEW e, NEW n \in Nat, SameUpTo(f, e, n),
         NEW m \in Nat, n <= m, NEW g, Sums(g, f, n), NEW h, Sums(h, e, m)
  PROVE  g[n] = h[n]
<1>. DEFINE Bad == {i \in 0 .. n : g[i] # h[i]}
<1>1. g[0] = 0 /\ \A i \in 1 .. n : g[i] = g[i - 1] + f[i]
  BY SumsAt
<1>2. h[0] = 0 /\ \A i \in 1 .. m : h[i] = h[i - 1] + e[i]
  BY SumsAt
<1>3. SUFFICES ASSUME Bad # {} PROVE FALSE
  OBVIOUS
<1>4. PICK l \in Bad : \A k \in Bad : l <= k
  <2>1. Bad \subseteq Nat
    OBVIOUS
  <2>. HIDE DEF Bad
  <2>2. QED
    BY <1>3, <2>1, LeastOf
<1>5. l \in 0 .. n /\ g[l] # h[l]
  BY <1>4
<1>6. l \in 1 .. n /\ l \in 1 .. m /\ l - 1 \in 0 .. n
  BY <1>1, <1>2, <1>5
<1>7. g[l - 1] = h[l - 1]
  BY <1>4, <1>6
<1>8. QED
  BY <1>1, <1>2, <1>5, <1>6, <1>7 DEF SameUpTo

\* A total is a number.
LEMMA TotalNat ==
  ASSUME NEW f \in Seq(Nat)
  PROVE  Total(f) \in Nat
<1>1. PICK g : Sums(g, f, Len(f)) /\ Total(f) = g[Len(f)]
  BY TotalIs
<1>2. g[Len(f)] \in Nat
  BY <1>1, SumsNat, LenProperties
<1>3. QED
  BY <1>1, <1>2

\* Nothing adds up to nothing.
LEMMA TotalEmpty == Total(<<>>) = 0
<1>1. <<>> \in Seq(Nat) /\ Len(<<>>) = 0
  OBVIOUS
<1>2. PICK g : Sums(g, <<>>, Len(<<>>)) /\ Total(<<>>) = g[Len(<<>>)]
  BY <1>1, TotalIs
<1>3. g[0] = 0
  BY <1>1, <1>2, SumsAt
<1>4. QED
  BY <1>1, <1>2, <1>3

\* A number more in the list.
LEMMA TotalMore ==
  ASSUME NEW f \in Seq(Nat), NEW x \in Nat, NEW e \in Seq(Nat), Len(e) = Len(f) + 1,
         SameUpTo(e, f, Len(f)), e[Len(f) + 1] = x
  PROVE  Total(e) = Total(f) + x
<1>1. PICK g : Sums(g, f, Len(f)) /\ Total(f) = g[Len(f)]
  BY TotalIs
<1>2. PICK h : Sums(h, e, Len(e)) /\ Total(e) = h[Len(e)]
  BY TotalIs
<1>3. PICK n \in Nat, m \in Nat : n = Len(f) /\ m = Len(e)
  BY LenProperties
<1>4. /\ n \in Nat /\ m \in Nat /\ Sums(g, f, n) /\ Sums(h, e, m) /\ m = n + 1 /\ n <= m
      /\ SameUpTo(f, e, n)
  BY <1>1, <1>2, <1>3 DEF SameUpTo
<1>5. g[n] = h[n]
  <2>1. SameUpTo(f, e, n)
    BY <1>4
  <2>2. Sums(g, f, n) /\ Sums(h, e, m) /\ n <= m /\ n \in Nat /\ m \in Nat
    BY <1>4
  <2>3. QED
    BY ONLY <2>1, <2>2, SumsSame
<1>6. h[m] = h[m - 1] + e[m] /\ m - 1 = n
  <2>1. \A i \in 1 .. m : h[i] = h[i - 1] + e[i]
    <3>1. Sums(h, e, m) /\ m \in Nat
      BY <1>4
    <3>2. QED
      BY ONLY <3>1, SumsAt
  <2>2. m \in 1 .. m /\ m - 1 = n
    BY <1>4
  <2>3. QED
    BY <2>1, <2>2
<1>7. QED
  BY <1>1, <1>2, <1>3, <1>4, <1>5, <1>6

-----------------------------------------------------------------------------
SpaceType == [cap : Nat, objs : Seq(Objects)]

\* The k-th object of space i is x.
At(s, i, k, x) == i \in DOMAIN s /\ k \in DOMAIN s[i].objs /\ s[i].objs[k] = x

\* The same objects, and o at one place more.
Adds(s, t, o, a, b) ==
  \A i, k, x : At(t, i, k, x) <=> At(s, i, k, x) \/ (i = a /\ k = b /\ x = o)

\* And o at some place more.
OneMore(s, t, o) == \E a, b : Adds(s, t, o, a, b)

\* What is in the spaces has a place there.
LEMMA InSpacesAt ==
  ASSUME NEW s
  PROVE  \A x : x \in InSpaces(s) <=> \E i, k : At(s, i, k, x)
  BY DEF InSpaces, At, ToSet

\* That no object is copied twice, by the places.
LEMMA OnceAt ==
  ASSUME NEW s
  PROVE  Once(s) <=> \A i, j, k, l, x : At(s, i, k, x) /\ At(s, j, l, x) => i = j /\ k = l
<1>1. ASSUME Once(s), NEW i, NEW j, NEW k, NEW l, NEW x, At(s, i, k, x), At(s, j, l, x)
      PROVE  i = j /\ k = l
  BY <1>1 DEF Once, At
<1>2. ASSUME \A i, j, k, l, x : At(s, i, k, x) /\ At(s, j, l, x) => i = j /\ k = l,
             NEW i \in DOMAIN s, NEW j \in DOMAIN s,
             NEW k \in DOMAIN s[i].objs, NEW l \in DOMAIN s[j].objs,
             s[i].objs[k] = s[j].objs[l]
      PROVE  i = j /\ k = l
  <2>1. At(s, i, k, s[i].objs[k]) /\ At(s, j, l, s[i].objs[k])
    BY <1>2 DEF At
  <2>2. QED
    BY <1>2, <2>1
<1>3. QED
  BY <1>1, <1>2 DEF Once

\* Nor is it with a new object more.
LEMMA OnceMore ==
  ASSUME NEW s, NEW t, NEW o, Once(s), o \notin InSpaces(s), OneMore(s, t, o)
  PROVE  Once(t) /\ InSpaces(t) = InSpaces(s) \cup {o}
<1>1. PICK a, b :
        \A i, k, x : At(t, i, k, x) <=> At(s, i, k, x) \/ (i = a /\ k = b /\ x = o)
  BY DEF OneMore, Adds
<1>2. \A i, k : ~At(s, i, k, o)
  BY InSpacesAt
<1>3. \A i, j, k, l, x : At(s, i, k, x) /\ At(s, j, l, x) => i = j /\ k = l
  BY OnceAt
<1>4. \A i, j, k, l, x : At(t, i, k, x) /\ At(t, j, l, x) => i = j /\ k = l
  BY <1>1, <1>2, <1>3
<1>5. Once(t)
  BY <1>4, OnceAt
<1>6. \A x : x \in InSpaces(t) <=> x \in InSpaces(s) \cup {o}
  BY <1>1, InSpacesAt
<1>7. QED
  BY <1>5, <1>6

\* An object more in the last space.
LEMMA PutIs ==
  ASSUME NEW s \in Seq(SpaceType), s # <<>>, NEW o \in Objects
  PROVE  /\ Put(s, o) \in Seq(SpaceType) /\ Len(Put(s, o)) = Len(s) /\ Put(s, o) # <<>>
         /\ \A i \in 1 .. Len(s) - 1 : Put(s, o)[i] = s[i]
         /\ Put(s, o)[Len(s)] = [cap |-> s[Len(s)].cap, objs |-> Append(s[Len(s)].objs, o)]
<1>1. PICK n \in Nat \ {0} : n = Len(s) /\ DOMAIN s = 1 .. n
  BY LenProperties, EmptySeq
<1>2. s[n] \in SpaceType /\ \A i \in 1 .. n : s[i] \in SpaceType
  BY <1>1, ElementOfSeq
<1>3. Append(s[n].objs, o) \in Seq(Objects) /\ s[n].cap \in Nat
  BY <1>2, AppendProperties DEF SpaceType
<1>. DEFINE last == [cap |-> s[n].cap, objs |-> Append(s[n].objs, o)]
            t    == [s EXCEPT ![n] = last]
<1>4. last \in SpaceType
  BY <1>3 DEF SpaceType
<1>5. [s[n] EXCEPT !.objs = Append(@, o)] = last
  <2>1. PICK sp : sp = s[n]
    OBVIOUS
  <2>2. sp \in SpaceType
    BY <1>2, <2>1
  <2>3. PICK v : v = Append(sp.objs, o)
    OBVIOUS
  <2>4. [sp EXCEPT !.objs = v] = [cap |-> sp.cap, objs |-> v]
    BY <2>2 DEF SpaceType
  <2>5. QED
    BY <2>1, <2>3, <2>4, Zenon
<1>6. Put(s, o) = t
  BY <1>1, <1>5, Zenon DEF Put
<1>. HIDE DEF last
<1>7. t \in Seq(SpaceType) /\ Len(t) = n /\ t[n] = last /\ \A i \in 1 .. n - 1 : t[i] = s[i]
  <2>1. t \in Seq(SpaceType) /\ Len(t) = n
    BY <1>1, <1>4, ExceptSeq
  <2>2. t[n] = last /\ \A i \in 1 .. n - 1 : t[i] = s[i]
    BY <1>1
  <2>3. QED
    BY <2>1, <2>2
<1>. HIDE DEF t
<1>8. t # <<>>
  BY <1>1, <1>7, EmptySeq
<1>9. QED
  BY <1>1, <1>6, <1>7, <1>8 DEF last

\* The same of the places of objects.
LEMMA PutMore ==
  ASSUME NEW s \in Seq(SpaceType), s # <<>>, NEW o \in Objects
  PROVE  OneMore(s, Put(s, o), o)
<1>1. PICK t : t = Put(s, o)
  OBVIOUS
<1>2. PICK n \in Nat \ {0} : n = Len(s) /\ DOMAIN s = 1 .. n
  BY LenProperties, EmptySeq
<1>3. /\ t \in Seq(SpaceType) /\ Len(t) = n /\ DOMAIN t = 1 .. n
      /\ \A i \in 1 .. n - 1 : t[i] = s[i]
      /\ t[n].objs = Append(s[n].objs, o)
  <2>1. PICK sp : sp = [cap |-> s[n].cap, objs |-> Append(s[n].objs, o)]
    OBVIOUS
  <2>2. sp.objs = Append(s[n].objs, o)
    BY <2>1
  <2>3. /\ t \in Seq(SpaceType) /\ Len(t) = n /\ \A i \in 1 .. n - 1 : t[i] = s[i]
        /\ t[n] = sp
    BY <1>1, <1>2, <2>1, PutIs, Zenon
  <2>4. DOMAIN t = 1 .. n
    BY <2>3, LenProperties
  <2>5. QED
    BY <2>2, <2>3, <2>4
<1>4. PICK p : p = s[n].objs
  OBVIOUS
<1>5. PICK q : q = Append(p, o)
  OBVIOUS
<1>6. p \in Seq(Objects)
  <2>1. s[n] \in SpaceType
    BY <1>2, ElementOfSeq
  <2>2. QED
    BY <1>4, <2>1 DEF SpaceType
<1>7. PICK m \in Nat : m = Len(p) /\ DOMAIN p = 1 .. m
  BY <1>6, LenProperties
<1>8. DOMAIN q = 1 .. m + 1 /\ q[m + 1] = o /\ \A k \in 1 .. m : q[k] = p[k]
  BY <1>5, <1>6, <1>7, AppendProperties, LenProperties
<1>9. Adds(s, t, o, n, m + 1)
  <2>. SUFFICES ASSUME NEW i, NEW k, NEW x
                PROVE  At(t, i, k, x) <=> At(s, i, k, x) \/ (i = n /\ k = m + 1 /\ x = o)
    BY DEF Adds
  <2>1. CASE i = n
    <3>1. /\ i \in DOMAIN s /\ i \in DOMAIN t
          /\ s[i].objs = p /\ t[i].objs = q
      BY <1>2, <1>3, <1>4, <1>5, <2>1
    <3>2. At(t, i, k, x) <=> k \in 1 .. m + 1 /\ q[k] = x
      BY <1>8, <3>1 DEF At
    <3>3. At(s, i, k, x) <=> k \in 1 .. m /\ p[k] = x
      BY <1>7, <3>1 DEF At
    <3>4. QED
      BY <1>8, <2>1, <3>2, <3>3
  <2>2. CASE i # n
    BY <1>2, <1>3, <2>2 DEF At
  <2>3. QED
    BY <2>1, <2>2
<1>10. QED
  BY <1>1, <1>9 DEF OneMore

\* A space more.
LEMMA AppendMore ==
  ASSUME NEW s \in Seq(SpaceType), NEW sp \in SpaceType, NEW o, sp.objs = <<o>>
  PROVE  OneMore(s, Append(s, sp), o)
<1>1. PICK t : t = Append(s, sp)
  OBVIOUS
<1>2. PICK n \in Nat : n = Len(s) /\ DOMAIN s = 1 .. n
  BY LenProperties
<1>3. DOMAIN t = 1 .. n + 1 /\ t[n + 1] = sp /\ \A i \in 1 .. n : t[i] = s[i]
  BY <1>1, <1>2, AppendProperties, LenProperties
<1>4. PICK p : p = <<o>>
  OBVIOUS
<1>5. DOMAIN p = {1} /\ p[1] = o
  BY <1>4
<1>6. Adds(s, t, o, n + 1, 1)
  <2>. SUFFICES ASSUME NEW i, NEW k, NEW x
                PROVE  At(t, i, k, x) <=> At(s, i, k, x) \/ (i = n + 1 /\ k = 1 /\ x = o)
    BY DEF Adds
  <2>1. CASE i = n + 1
    BY <1>2, <1>3, <1>4, <1>5, <2>1 DEF At
  <2>2. CASE i # n + 1
    BY <1>2, <1>3, <2>2 DEF At
  <2>3. QED
    BY <2>1, <2>2
<1>7. QED
  BY <1>1, <1>6 DEF OneMore

-----------------------------------------------------------------------------
(* What is in a space, by the sizes sz of the objects. *)

\* What the objects of a space take, by their sizes.
UsedOf(sp, sz) == Total([i \in DOMAIN sp.objs |-> sz[sp.objs[i]]])

\* Each object that exists has a size.
SizesOK(sz) == DOMAIN sz \subseteq Objects /\ \A o \in DOMAIN sz : sz[o] \in Nat

\* SPACEUSED as a function of the sizes.
LEMMA UsedIs ==
  ASSUME NEW sp
  PROVE  Used(sp) = UsedOf(sp, sizes)
  BY DEF Used, UsedOf

\* The sizes of the objects of a space.
LEMMA SizesOf ==
  ASSUME NEW sz, SizesOK(sz), NEW p \in Seq(Objects), ToSet(p) \subseteq DOMAIN sz
  PROVE  /\ [i \in DOMAIN p |-> sz[p[i]]] \in Seq(Nat)
         /\ Len([i \in DOMAIN p |-> sz[p[i]]]) = Len(p)
<1>1. PICK n \in Nat : n = Len(p) /\ DOMAIN p = 1 .. n
  BY LenProperties
<1>2. \A i \in 1 .. n : sz[p[i]] \in Nat
  BY <1>1 DEF SizesOK, ToSet
<1>3. QED
  BY <1>1, <1>2

\* What is used is a number.
LEMMA UsedNat ==
  ASSUME NEW sz, SizesOK(sz), NEW sp \in SpaceType, ToSet(sp.objs) \subseteq DOMAIN sz
  PROVE  UsedOf(sp, sz) \in Nat
<1>1. sp.objs \in Seq(Objects)
  BY DEF SpaceType
<1>2. [i \in DOMAIN sp.objs |-> sz[sp.objs[i]]] \in Seq(Nat)
  BY <1>1, SizesOf
<1>3. QED
  BY <1>2, TotalNat DEF UsedOf

\* An object more takes its size.
LEMMA UsedAdd ==
  ASSUME NEW sz, SizesOK(sz), NEW p \in Seq(Objects), ToSet(p) \subseteq DOMAIN sz,
         NEW o \in DOMAIN sz
  PROVE  Total([i \in DOMAIN Append(p, o) |-> sz[Append(p, o)[i]]])
           = Total([i \in DOMAIN p |-> sz[p[i]]]) + sz[o]
<1>1. PICK n \in Nat : n = Len(p) /\ DOMAIN p = 1 .. n
  BY LenProperties
<1>2. PICK q : q = Append(p, o)
  OBVIOUS
<1>3. o \in Objects /\ sz[o] \in Nat
  BY DEF SizesOK
<1>4. /\ q \in Seq(Objects) /\ Len(q) = n + 1 /\ DOMAIN q = 1 .. n + 1
      /\ q[n + 1] = o /\ \A i \in 1 .. n : q[i] = p[i]
  BY <1>1, <1>2, <1>3, AppendProperties, LenProperties
<1>5. ToSet(q) \subseteq DOMAIN sz
  BY <1>1, <1>4 DEF ToSet
<1>6. PICK f : f = [i \in DOMAIN p |-> sz[p[i]]]
  OBVIOUS
<1>7. PICK e : e = [i \in DOMAIN q |-> sz[q[i]]]
  OBVIOUS
<1>8. f \in Seq(Nat) /\ Len(f) = n
  BY <1>1, <1>6, SizesOf
<1>9. e \in Seq(Nat) /\ Len(e) = n + 1
  BY <1>4, <1>5, <1>7, SizesOf
<1>10. Len(e) = Len(f) + 1 /\ e[Len(f) + 1] = sz[o] /\ SameUpTo(e, f, Len(f))
  BY <1>1, <1>4, <1>6, <1>7, <1>8, <1>9 DEF SameUpTo
<1>11. Total(e) = Total(f) + sz[o]
  BY <1>3, <1>8, <1>9, <1>10, TotalMore
<1>12. QED
  BY <1>2, <1>6, <1>7, <1>11

\* A new space is empty.
LEMMA UsedNone ==
  ASSUME NEW sz, NEW c
  PROVE  UsedOf(Space(c), sz) = 0
<1>1. [i \in DOMAIN Space(c).objs |-> sz[Space(c).objs[i]]] = <<>>
  BY DEF Space
<1>2. QED
  BY <1>1, TotalEmpty DEF UsedOf

\* And with one object it holds its size.
LEMMA UsedOne ==
  ASSUME NEW sz, SizesOK(sz), NEW o \in DOMAIN sz, NEW c
  PROVE  UsedOf([cap |-> c, objs |-> <<o>>], sz) = sz[o]
<1>1. PICK p : p = <<>>
  OBVIOUS
<1>2. p \in Seq(Objects) /\ ToSet(p) \subseteq DOMAIN sz /\ Append(p, o) = <<o>>
  BY <1>1 DEF ToSet
<1>3. Total([i \in DOMAIN Append(p, o) |-> sz[Append(p, o)[i]]])
        = Total([i \in DOMAIN p |-> sz[p[i]]]) + sz[o]
  BY <1>2, UsedAdd
<1>4. [i \in DOMAIN p |-> sz[p[i]]] = <<>>
  BY <1>1
<1>5. Total([i \in DOMAIN p |-> sz[p[i]]]) = 0
  BY <1>4, TotalEmpty
<1>6. PICK q : q = <<o>>
  OBVIOUS
<1>7. Total([i \in DOMAIN q |-> sz[q[i]]]) = sz[o]
  BY <1>2, <1>3, <1>5, <1>6 DEF SizesOK
<1>8. PICK sp : sp = [cap |-> c, objs |-> q]
  OBVIOUS
<1>9. sp.objs = q
  BY <1>8
<1>10. UsedOf(sp, sz) = sz[o]
  BY <1>7, <1>9 DEF UsedOf
<1>11. QED
  BY <1>6, <1>8, <1>10

-----------------------------------------------------------------------------
(* The spaces. *)

\* No space holds more than there is room for.
Filled(s, sz) == \A i \in DOMAIN s : UsedOf(s[i], sz) <= s[i].cap

\* The list of spaces: never empty, of objects that exist, each in one place.
Spaces(s, sz) ==
  /\ s \in Seq(SpaceType) /\ s # <<>>
  /\ InSpaces(s) \subseteq DOMAIN sz
  /\ Filled(s, sz)
  /\ Once(s)

\* If t is one space, it begins with the objects of s, which is one space too.
Longer(s, t) ==
  /\ Len(s) <= Len(t)
  /\ Len(t) = 1 => /\ Len(s[1].objs) <= Len(t[1].objs)
                   /\ SameUpTo(s[1].objs, t[1].objs, Len(s[1].objs))

\* What a space is made of.
LEMMA SpaceObjs ==
  ASSUME NEW s \in Seq(SpaceType), NEW i \in DOMAIN s
  PROVE  /\ s[i] \in SpaceType /\ s[i].objs \in Seq(Objects) /\ s[i].cap \in Nat
         /\ ToSet(s[i].objs) \subseteq InSpaces(s)
<1>1. s[i] \in SpaceType
  BY ElementOfSeq, LenProperties
<1>2. s[i].objs \in Seq(Objects) /\ s[i].cap \in Nat
  BY <1>1 DEF SpaceType
<1>3. ToSet(s[i].objs) \subseteq InSpaces(s)
  BY DEF InSpaces
<1>4. QED
  BY <1>1, <1>2, <1>3

\* An object more where it fits: no space gets overfull.
LEMMA SpacesPut ==
  ASSUME NEW sz, SizesOK(sz), NEW s, Spaces(s, sz),
         NEW o \in DOMAIN sz, o \notin InSpaces(s),
         UsedOf(s[Len(s)], sz) + sz[o] <= s[Len(s)].cap
  PROVE  /\ Spaces(Put(s, o), sz) /\ InSpaces(Put(s, o)) = InSpaces(s) \cup {o}
         /\ Longer(s, Put(s, o))
<1>1. s \in Seq(SpaceType) /\ s # <<>> /\ Once(s) /\ InSpaces(s) \subseteq DOMAIN sz
  BY DEF Spaces
<1>2. PICK n \in Nat \ {0} : n = Len(s) /\ DOMAIN s = 1 .. n
  BY <1>1, LenProperties, EmptySeq
<1>3. o \in Objects
  BY DEF SizesOK
<1>4. PICK t : t = Put(s, o)
  OBVIOUS
<1>5. PICK q : q = Append(s[n].objs, o)
  OBVIOUS
<1>6. PICK c : c = s[n].cap
  OBVIOUS
<1>7. PICK sp : sp = [cap |-> c, objs |-> q]
  OBVIOUS
<1>8. /\ t \in Seq(SpaceType) /\ Len(t) = n /\ t # <<>>
      /\ \A i \in 1 .. n - 1 : t[i] = s[i]
      /\ t[n] = sp
  BY <1>1, <1>2, <1>3, <1>4, <1>5, <1>6, <1>7, PutIs, Zenon
<1>9. DOMAIN t = 1 .. n
  BY <1>8, LenProperties
<1>10. OneMore(s, t, o)
  BY <1>1, <1>3, <1>4, PutMore
<1>11. Once(t) /\ InSpaces(t) = InSpaces(s) \cup {o}
  BY <1>1, <1>10, OnceMore
<1>12. s[n].objs \in Seq(Objects) /\ ToSet(s[n].objs) \subseteq DOMAIN sz /\ s[n].cap \in Nat
  BY <1>1, <1>2, SpaceObjs
<1>13. UsedOf(sp, sz) = UsedOf(s[n], sz) + sz[o]
  <2>1. sp.objs = Append(s[n].objs, o)
    BY <1>5, <1>7
  <2>2. UsedOf(sp, sz) = Total([i \in DOMAIN Append(s[n].objs, o) |-> sz[Append(s[n].objs, o)[i]]])
    BY <2>1, Zenon DEF UsedOf
  <2>3. UsedOf(s[n], sz) = Total([i \in DOMAIN s[n].objs |-> sz[s[n].objs[i]]])
    BY Zenon DEF UsedOf
  <2>4. PICK p : p = s[n].objs
    OBVIOUS
  <2>5. p \in Seq(Objects) /\ ToSet(p) \subseteq DOMAIN sz
    BY <1>12, <2>4
  <2>6. Total([i \in DOMAIN Append(p, o) |-> sz[Append(p, o)[i]]])
          = Total([i \in DOMAIN p |-> sz[p[i]]]) + sz[o]
    BY <2>5, UsedAdd
  <2>7. QED
    BY <2>2, <2>3, <2>4, <2>6, Zenon
<1>14. Filled(t, sz)
  <2>. SUFFICES ASSUME NEW i \in 1 .. n PROVE UsedOf(t[i], sz) <= t[i].cap
    BY <1>9 DEF Filled
  <2>1. CASE i = n
    <3>1. sp.cap = s[n].cap
      BY <1>6, <1>7
    <3>2. UsedOf(s[n], sz) + sz[o] <= s[n].cap
      BY <1>2
    <3>3. UsedOf(sp, sz) <= sp.cap
      BY <1>13, <3>1, <3>2
    <3>4. QED
      BY <1>8, <2>1, <3>3, Zenon
  <2>2. CASE i # n
    <3>1. t[i] = s[i] /\ i \in DOMAIN s
      BY <1>2, <1>8, <2>2
    <3>2. UsedOf(s[i], sz) <= s[i].cap
      BY <3>1 DEF Spaces, Filled
    <3>3. QED
      BY <3>1, <3>2, Zenon
  <2>3. QED
    BY <2>1, <2>2
<1>15. Spaces(t, sz)
  BY <1>1, <1>8, <1>11, <1>14 DEF Spaces
<1>16. Longer(s, t)
  <2>1. Len(s) <= Len(t)
    BY <1>2, <1>8
  <2>2. ASSUME Len(t) = 1
        PROVE  /\ Len(s[1].objs) <= Len(t[1].objs)
               /\ SameUpTo(s[1].objs, t[1].objs, Len(s[1].objs))
    <3>1. n = 1
      BY <1>8, <2>2
    <3>2. PICK p : p = s[1].objs
      OBVIOUS
    <3>3. p \in Seq(Objects) /\ q = Append(p, o)
      BY <1>5, <1>12, <3>1, <3>2
    <3>4. Len(p) <= Len(q) /\ SameUpTo(p, q, Len(p))
      BY <1>3, <3>3, AppendProperties, LenProperties DEF SameUpTo
    <3>5. t[1].objs = q
      BY <1>7, <1>8, <3>1
    <3>6. QED
      BY <3>2, <3>4, <3>5, Zenon
  <2>3. QED
    BY <2>1, <2>2 DEF Longer
<1>17. QED
  BY <1>4, <1>11, <1>15, <1>16

\* A space more, with or without an object in it.
LEMMA FilledAppend ==
  ASSUME NEW sz, NEW s, Spaces(s, sz), NEW sp \in SpaceType, UsedOf(sp, sz) <= sp.cap
  PROVE  /\ Append(s, sp) \in Seq(SpaceType) /\ Append(s, sp) # <<>>
         /\ Filled(Append(s, sp), sz) /\ Len(Append(s, sp)) = Len(s) + 1
         /\ Longer(s, Append(s, sp)) /\ Last(Append(s, sp)) = sp
<1>1. s \in Seq(SpaceType) /\ s # <<>> /\ Filled(s, sz)
  BY DEF Spaces
<1>2. PICK n \in Nat \ {0} : n = Len(s) /\ DOMAIN s = 1 .. n
  BY <1>1, LenProperties, EmptySeq
<1>3. PICK t : t = Append(s, sp)
  OBVIOUS
<1>4. /\ t \in Seq(SpaceType) /\ Len(t) = n + 1 /\ DOMAIN t = 1 .. n + 1
      /\ t[n + 1] = sp /\ \A i \in 1 .. n : t[i] = s[i]
  BY <1>1, <1>2, <1>3, AppendProperties, LenProperties
<1>5. t # <<>>
  BY <1>2, <1>4, EmptySeq
<1>6. Filled(t, sz)
  <2>. SUFFICES ASSUME NEW i \in 1 .. n + 1 PROVE UsedOf(t[i], sz) <= t[i].cap
    BY <1>4 DEF Filled
  <2>1. CASE i = n + 1
    BY <1>4, <2>1, Zenon
  <2>2. CASE i # n + 1
    <3>1. t[i] = s[i] /\ i \in DOMAIN s
      BY <1>2, <1>4, <2>2
    <3>2. UsedOf(s[i], sz) <= s[i].cap
      BY <1>1, <3>1 DEF Filled
    <3>3. QED
      BY <3>1, <3>2, Zenon
  <2>3. QED
    BY <2>1, <2>2
<1>7. Longer(s, t)
  BY <1>2, <1>4 DEF Longer
<1>8. Last(t) = sp
  BY <1>4 DEF Last
<1>9. QED
  BY <1>2, <1>3, <1>4, <1>5, <1>6, <1>7, <1>8

\* A space more with an object that fits it.
LEMMA SpacesAppend ==
  ASSUME NEW sz, SizesOK(sz), NEW s, Spaces(s, sz),
         NEW o \in DOMAIN sz, o \notin InSpaces(s), NEW c \in Nat, sz[o] <= c
  PROVE  /\ Spaces(Append(s, [cap |-> c, objs |-> <<o>>]), sz)
         /\ InSpaces(Append(s, [cap |-> c, objs |-> <<o>>])) = InSpaces(s) \cup {o}
         /\ Longer(s, Append(s, [cap |-> c, objs |-> <<o>>]))
<1>1. PICK sp : sp = [cap |-> c, objs |-> <<o>>]
  OBVIOUS
<1>2. sp \in SpaceType /\ sp.objs = <<o>> /\ sp.cap = c
  BY <1>1 DEF SpaceType, SizesOK
<1>3. UsedOf(sp, sz) = sz[o]
  BY <1>1, UsedOne
<1>4. UsedOf(sp, sz) <= sp.cap
  BY <1>2, <1>3
<1>5. s \in Seq(SpaceType) /\ Once(s) /\ InSpaces(s) \subseteq DOMAIN sz
  BY DEF Spaces
<1>6. PICK t : t = Append(s, sp)
  OBVIOUS
<1>7. t \in Seq(SpaceType) /\ t # <<>> /\ Filled(t, sz) /\ Longer(s, t)
  BY <1>2, <1>4, <1>6, FilledAppend
<1>8. OneMore(s, t, o)
  BY <1>2, <1>5, <1>6, AppendMore
<1>9. Once(t) /\ InSpaces(t) = InSpaces(s) \cup {o}
  BY <1>5, <1>8, OnceMore
<1>10. Spaces(t, sz)
  BY <1>5, <1>7, <1>9 DEF Spaces
<1>11. QED
  BY <1>1, <1>6, <1>7, <1>9, <1>10, Zenon

\* An empty space more.
LEMMA SpacesNew ==
  ASSUME NEW sz, NEW s, Spaces(s, sz), NEW c \in Nat
  PROVE  /\ Spaces(Append(s, Space(c)), sz) /\ InSpaces(Append(s, Space(c))) = InSpaces(s)
         /\ Last(Append(s, Space(c))) = Space(c)
<1>1. PICK sp : sp = Space(c)
  OBVIOUS
<1>2. sp \in SpaceType /\ sp.objs = <<>> /\ sp.cap = c
  BY <1>1 DEF SpaceType, Space
<1>3. UsedOf(sp, sz) = 0
  BY <1>1, UsedNone
<1>4. UsedOf(sp, sz) <= sp.cap
  BY <1>2, <1>3
<1>5. s \in Seq(SpaceType) /\ Once(s) /\ InSpaces(s) \subseteq DOMAIN sz
  BY DEF Spaces
<1>6. PICK t : t = Append(s, sp)
  OBVIOUS
<1>7. t \in Seq(SpaceType) /\ t # <<>> /\ Filled(t, sz) /\ Last(t) = sp
  BY <1>2, <1>4, <1>6, FilledAppend
<1>8. PICK n \in Nat : n = Len(s) /\ DOMAIN s = 1 .. n
  BY <1>5, LenProperties
<1>9. DOMAIN t = 1 .. n + 1 /\ t[n + 1] = sp /\ \A i \in 1 .. n : t[i] = s[i]
  BY <1>2, <1>5, <1>6, <1>8, AppendProperties, LenProperties
<1>10. DOMAIN sp.objs = {}
  BY <1>2
<1>11. \A i, k, x : At(t, i, k, x) <=> At(s, i, k, x)
  <2>. TAKE i, k, x
  <2>1. CASE i = n + 1
    BY <1>8, <1>9, <1>10, <2>1 DEF At
  <2>2. CASE i # n + 1
    BY <1>8, <1>9, <2>2 DEF At
  <2>3. QED
    BY <2>1, <2>2
<1>12. Once(t)
  <2>1. \A i, j, k, l, x : At(s, i, k, x) /\ At(s, j, l, x) => i = j /\ k = l
    BY <1>5, OnceAt
  <2>2. \A i, j, k, l, x : At(t, i, k, x) /\ At(t, j, l, x) => i = j /\ k = l
    BY <1>11, <2>1
  <2>3. QED
    BY <2>2, OnceAt
<1>13. InSpaces(t) = InSpaces(s)
  <2>1. \A x : x \in InSpaces(t) <=> x \in InSpaces(s)
    BY <1>11, InSpacesAt
  <2>2. QED
    BY <2>1
<1>14. Spaces(t, sz)
  BY <1>5, <1>7, <1>12, <1>13 DEF Spaces
<1>15. QED
  BY <1>1, <1>6, <1>7, <1>13, <1>14, Zenon

\* The first one.
LEMMA SpacesFirst ==
  ASSUME NEW sz, NEW c \in Nat
  PROVE  Spaces(<<Space(c)>>, sz) /\ InSpaces(<<Space(c)>>) = {} /\ Len(<<Space(c)>>) = 1
<1>1. PICK sp : sp = Space(c)
  OBVIOUS
<1>2. sp \in SpaceType /\ sp.objs = <<>> /\ sp.cap = c
  BY <1>1 DEF SpaceType, Space
<1>3. UsedOf(sp, sz) = 0
  BY <1>1, UsedNone
<1>4. PICK t : t = <<sp>>
  OBVIOUS
<1>5. t \in Seq(SpaceType) /\ t # <<>> /\ Len(t) = 1 /\ DOMAIN t = {1} /\ t[1] = sp
  BY <1>2, <1>4
<1>6. DOMAIN sp.objs = {}
  BY <1>2
<1>7. Filled(t, sz)
  BY <1>2, <1>3, <1>5 DEF Filled
<1>8. Once(t)
  BY <1>5, <1>6 DEF Once
<1>9. InSpaces(t) = {}
  BY <1>5, <1>6 DEF InSpaces, ToSet
<1>10. Spaces(t, sz)
  BY <1>5, <1>7, <1>8, <1>9 DEF Spaces
<1>11. QED
  BY <1>1, <1>4, <1>5, <1>9, <1>10, Zenon

\* A list of spaces only grows.
LEMMA LongerSelf ==
  ASSUME NEW s \in Seq(SpaceType), s # <<>>
  PROVE  Longer(s, s)
<1>1. PICK n \in Nat \ {0} : n = Len(s) /\ DOMAIN s = 1 .. n
  BY LenProperties, EmptySeq
<1>2. s[1].objs \in Seq(Objects)
  BY <1>1, SpaceObjs
<1>3. Len(s[1].objs) \in Nat
  BY <1>2, LenProperties
<1>4. QED
  BY <1>1, <1>3 DEF Longer, SameUpTo

\* And goes on to.
LEMMA LongerTwice ==
  ASSUME NEW s \in Seq(SpaceType), NEW t \in Seq(SpaceType), NEW u \in Seq(SpaceType),
         s # <<>>, t # <<>>, u # <<>>, Longer(s, t), Longer(t, u)
  PROVE  Longer(s, u)
<1>1. PICK a \in Nat \ {0} : a = Len(s) /\ DOMAIN s = 1 .. a
  BY LenProperties, EmptySeq
<1>2. PICK b \in Nat \ {0} : b = Len(t) /\ DOMAIN t = 1 .. b
  BY LenProperties, EmptySeq
<1>3. PICK c \in Nat \ {0} : c = Len(u) /\ DOMAIN u = 1 .. c
  BY LenProperties, EmptySeq
<1>4. a <= b /\ b <= c
  BY <1>1, <1>2, <1>3 DEF Longer
<1>5. ASSUME c = 1
      PROVE  /\ Len(s[1].objs) <= Len(u[1].objs)
             /\ SameUpTo(s[1].objs, u[1].objs, Len(s[1].objs))
  <2>1. PICK p \in Seq(Objects), q \in Seq(Objects), r \in Seq(Objects) :
          p = s[1].objs /\ q = t[1].objs /\ r = u[1].objs
    BY <1>1, <1>2, <1>3, SpaceObjs
  <2>2. PICK l \in Nat, m \in Nat, n \in Nat : l = Len(p) /\ m = Len(q) /\ n = Len(r)
    BY LenProperties
  <2>3. b = 1
    BY <1>4, <1>5
  <2>4. l <= m /\ SameUpTo(p, q, l)
    BY <1>2, <2>1, <2>2, <2>3 DEF Longer
  <2>5. m <= n /\ SameUpTo(q, r, m)
    BY <1>3, <1>5, <2>1, <2>2 DEF Longer
  <2>6. l <= n /\ SameUpTo(p, r, l)
    BY <2>4, <2>5 DEF SameUpTo
  <2>7. QED
    BY <2>1, <2>2, <2>6
<1>6. QED
  BY <1>1, <1>3, <1>4, <1>5 DEF Longer

-----------------------------------------------------------------------------
(* Copying. *)

\* The heap in the middle of a collection.
Heap(h) ==
  /\ h \in [new : Seq(SpaceType), min : Nat, stuck : SUBSET Objects]
  /\ Spaces(h.new, sizes)

\* minspace is a number.
LEMMA RaisedNat ==
  ASSUME NEW m \in Nat, NEW n \in Nat
  PROVE  Raised(m, n) \in Nat
  BY DEF Raised

\* forward: the object is in the spaces, which only grow, or the copy is stuck.
LEMMA ForwardIs ==
  ASSUME SizesOK(sizes), NEW h, Heap(h), NEW o \in DOMAIN sizes,
         NEW g, g = Forward(h, o), g.stuck = {}
  PROVE  /\ Heap(g) /\ h.stuck = {} /\ InSpaces(g.new) = InSpaces(h.new) \cup {o}
         /\ Longer(h.new, g.new)
<1>1. PICK s, m, u : h = [new |-> s, min |-> m, stuck |-> u]
  BY DEF Heap
<1>2. /\ h.new = s /\ h.min = m /\ h.stuck = u
      /\ s \in Seq(SpaceType) /\ m \in Nat /\ u \in SUBSET Objects
  BY <1>1 DEF Heap
<1>3. Spaces(s, sizes) /\ s # <<>>
  BY <1>2 DEF Heap, Spaces
<1>4. o \in Objects /\ sizes[o] \in Nat
  BY DEF SizesOK
<1>5. CASE o \in InSpaces(s)
  <2>1. g = h
    BY <1>2, <1>5 DEF Forward
  <2>2. Longer(s, s)
    BY <1>2, <1>3, LongerSelf
  <2>3. InSpaces(s) = InSpaces(s) \cup {o}
    BY <1>5
  <2>4. QED
    BY <1>2, <2>1, <2>2, <2>3
<1>6. CASE o \notin InSpaces(s) /\ Fits(Last(s), sizes[o])
  <2>1. PICK t : t = Put(s, o)
    OBVIOUS
  <2>2. [h EXCEPT !.new = t] = [new |-> t, min |-> m, stuck |-> u]
    BY <1>1
  <2>3. Forward(h, o) = [h EXCEPT !.new = Put(h.new, o)]
    BY <1>2, <1>6, Zenon DEF Forward
  <2>4. g = [new |-> t, min |-> m, stuck |-> u]
    BY <1>2, <2>1, <2>2, <2>3, Zenon
  <2>5. UsedOf(s[Len(s)], sizes) + sizes[o] <= s[Len(s)].cap
    BY <1>6, UsedIs DEF Fits, Last
  <2>6. Spaces(t, sizes) /\ InSpaces(t) = InSpaces(s) \cup {o} /\ Longer(s, t)
    BY <1>3, <1>6, <2>1, <2>5, SpacesPut
  <2>7. t \in Seq(SpaceType)
    BY <2>6 DEF Spaces
  <2>8. g.new = t /\ g.stuck = u /\ g \in [new : Seq(SpaceType), min : Nat, stuck : SUBSET Objects]
    BY <1>2, <2>4, <2>7
  <2>9. Heap(g)
    BY <2>6, <2>8 DEF Heap
  <2>10. QED
    BY <1>2, <2>6, <2>8, <2>9
<1>7. CASE o \notin InSpaces(s) /\ ~Fits(Last(s), sizes[o])
  <2>1. PICK n \in Nat : n = Raised(m, sizes[o])
    BY <1>2, <1>4, RaisedNat
  <2>2. PICK t : t = Append(s, [cap |-> n, objs |-> <<o>>])
    OBVIOUS
  <2>3. PICK v : v = IF sizes[o] <= n THEN u ELSE u \cup {o}
    OBVIOUS
  <2>4. g = [new |-> t, min |-> n, stuck |-> v]
    BY <1>2, <1>7, <2>1, <2>2, <2>3, Zenon DEF Forward
  <2>5. g.new = t /\ g.stuck = v /\ g.min = n
    BY <2>4
  <2>6. sizes[o] <= n /\ u = {} /\ v = {}
    BY <2>3, <2>5
  <2>7. Spaces(t, sizes) /\ InSpaces(t) = InSpaces(s) \cup {o} /\ Longer(s, t)
    BY <1>3, <1>7, <2>1, <2>2, <2>6, SpacesAppend
  <2>8. t \in Seq(SpaceType)
    BY <2>7 DEF Spaces
  <2>9. g \in [new : Seq(SpaceType), min : Nat, stuck : SUBSET Objects]
    BY <2>1, <2>4, <2>6, <2>8
  <2>10. Heap(g)
    BY <2>5, <2>7, <2>9 DEF Heap
  <2>11. QED
    BY <1>2, <2>5, <2>6, <2>7, <2>10
<1>8. QED
  BY <1>5, <1>6, <1>7

\* g is the list of what copying the objects of os, one after the other, makes of h.
Copies(g, h, os, n) == g = [i \in 0 .. n |-> IF i = 0 THEN h ELSE Forward(g[i - 1], os[i])]

\* The states of the heap, pointer by pointer.
LEMMA CopiesAt ==
  ASSUME NEW h, NEW os, NEW n \in Nat, NEW g, Copies(g, h, os, n)
  PROVE  g[0] = h /\ \A i \in 1 .. n : g[i] = Forward(g[i - 1], os[i])
  BY DEF Copies

\* One pointer more.
LEMMA CopiesMore ==
  ASSUME NEW h, NEW os, NEW n \in Nat, NEW g, Copies(g, h, os, n)
  PROVE  \E e : Copies(e, h, os, n + 1)
<1>. DEFINE e == [i \in 0 .. n + 1 |-> IF i = n + 1 THEN Forward(g[n], os[n + 1]) ELSE g[i]]
<1>1. g[0] = h /\ \A i \in 1 .. n : g[i] = Forward(g[i - 1], os[i])
  BY DEF Copies
<1>2. \A i \in 0 .. n + 1 : e[i] = IF i = 0 THEN h ELSE Forward(e[i - 1], os[i])
  <2>. SUFFICES ASSUME NEW i \in 0 .. n + 1
                PROVE  e[i] = IF i = 0 THEN h ELSE Forward(e[i - 1], os[i])
    OBVIOUS
  <2>1. CASE i = 0
    BY <2>1, <1>1
  <2>2. CASE i = n + 1
    <3>1. e[i] = Forward(g[n], os[i]) /\ e[n] = g[n] /\ i - 1 = n
      BY <2>2
    <3>2. QED
      BY <2>2, <3>1
  <2>3. CASE i \in 1 .. n
    <3>1. e[i] = g[i] /\ e[i - 1] = g[i - 1]
      BY <2>3
    <3>2. QED
      BY <2>3, <3>1, <1>1
  <2>4. QED
    BY <2>1, <2>2, <2>3
<1>3. e = [i \in 0 .. n + 1 |-> e[i]]
  OBVIOUS
<1>. HIDE DEF e
<1>4. e = [i \in 0 .. n + 1 |-> IF i = 0 THEN h ELSE Forward(e[i - 1], os[i])]
  BY <1>2, <1>3
<1>5. QED
  BY <1>4 DEF Copies

\* Every list of pointers can be copied.
LEMMA CopiesExist ==
  ASSUME NEW h, NEW os, NEW n \in Nat
  PROVE  \E g : Copies(g, h, os, n)
<1>. DEFINE Bad == {m \in Nat : ~\E g : Copies(g, h, os, m)}
<1>1. SUFFICES ASSUME Bad # {} PROVE FALSE
  OBVIOUS
<1>2. PICK m \in Bad : \A l \in Bad : m <= l
  BY <1>1, LeastOf
<1>3. m \in Nat /\ ~\E g : Copies(g, h, os, m)
  OBVIOUS
<1>4. m # 0
  <2>1. Copies([i \in 0 .. 0 |-> h], h, os, 0)
    BY DEF Copies
  <2>2. QED
    BY <1>3, <2>1
<1>5. m - 1 \in Nat /\ m - 1 \notin Bad
  BY <1>2, <1>3, <1>4
<1>6. PICK g : Copies(g, h, os, m - 1)
  BY <1>5
<1>7. \E e : Copies(e, h, os, (m - 1) + 1)
  BY <1>5, <1>6, CopiesMore
<1>8. (m - 1) + 1 = m
  BY <1>3
<1>9. QED
  BY <1>3, <1>7, <1>8

\* It is a record of three parts.
Shape(h) == \E s, m, u : h = [new |-> s, min |-> m, stuck |-> u]

\* An object that has stopped one copy has stopped all.
LEMMA StuckStays ==
  ASSUME NEW h, Shape(h), NEW o, NEW g, g = Forward(h, o)
  PROVE  Shape(g) /\ (g.stuck = {} => h.stuck = {})
<1>1. PICK s, m, u : h = [new |-> s, min |-> m, stuck |-> u]
  BY DEF Shape
<1>2. h.new = s /\ h.min = m /\ h.stuck = u
  BY <1>1
<1>3. CASE o \in InSpaces(s)
  BY <1>2, <1>3 DEF Forward
<1>4. CASE o \notin InSpaces(s) /\ Fits(Last(s), sizes[o])
  <2>1. PICK t : t = Put(s, o)
    OBVIOUS
  <2>2. [h EXCEPT !.new = t] = [new |-> t, min |-> m, stuck |-> u]
    BY <1>1
  <2>3. Forward(h, o) = [h EXCEPT !.new = Put(h.new, o)]
    BY <1>2, <1>4, Zenon DEF Forward
  <2>4. g = [new |-> t, min |-> m, stuck |-> u]
    BY <1>2, <2>1, <2>2, <2>3, Zenon
  <2>5. g.stuck = u
    BY <2>4
  <2>6. QED
    BY <1>2, <2>4, <2>5, Zenon DEF Shape
<1>5. CASE o \notin InSpaces(s) /\ ~Fits(Last(s), sizes[o])
  <2>1. PICK n : n = Raised(m, sizes[o])
    OBVIOUS
  <2>2. PICK t : t = Append(s, [cap |-> n, objs |-> <<o>>])
    OBVIOUS
  <2>3. PICK v : v = IF sizes[o] <= n THEN u ELSE u \cup {o}
    OBVIOUS
  <2>4. g = [new |-> t, min |-> n, stuck |-> v]
    BY <1>2, <1>5, <2>1, <2>2, <2>3, Zenon DEF Forward
  <2>5. g.stuck = v /\ (v = {} => u = {})
    BY <2>3, <2>4
  <2>6. QED
    BY <1>2, <2>4, <2>5, Zenon DEF Shape
<1>6. QED
  BY <1>3, <1>4, <1>5

\* What copying the first i objects of os has done.
Copied(h, g, os, i) ==
  /\ Shape(g)
  /\ g.stuck = {} => /\ Heap(g) /\ Longer(h.new, g.new)
                     /\ InSpaces(g.new) = InSpaces(h.new) \cup {os[k] : k \in 1 .. i}

\* What one more pointer does.
LEMMA CopiedNext ==
  ASSUME SizesOK(sizes), NEW h, Heap(h), NEW os, NEW i \in Nat, os[i + 1] \in DOMAIN sizes,
         NEW g, Copied(h, g, os, i), NEW e, e = Forward(g, os[i + 1])
  PROVE  Copied(h, e, os, i + 1)
<1>1. Shape(g)
  BY DEF Copied
<1>2. PICK o : o = os[i + 1]
  OBVIOUS
<1>3. o \in DOMAIN sizes /\ e = Forward(g, o)
  BY <1>2
<1>4. Shape(e) /\ (e.stuck = {} => g.stuck = {})
  BY <1>1, <1>3, StuckStays
<1>5. ASSUME e.stuck = {}
      PROVE  /\ Heap(e) /\ Longer(h.new, e.new)
             /\ InSpaces(e.new) = InSpaces(h.new) \cup {os[k] : k \in 1 .. i + 1}
  <2>1. /\ Heap(g) /\ Longer(h.new, g.new)
        /\ InSpaces(g.new) = InSpaces(h.new) \cup {os[k] : k \in 1 .. i}
    BY <1>4, <1>5 DEF Copied
  <2>2. Heap(e) /\ InSpaces(e.new) = InSpaces(g.new) \cup {o} /\ Longer(g.new, e.new)
    BY <1>3, <1>5, <2>1, ForwardIs
  <2>3. /\ h.new \in Seq(SpaceType) /\ h.new # <<>> /\ g.new \in Seq(SpaceType) /\ g.new # <<>>
        /\ e.new \in Seq(SpaceType) /\ e.new # <<>>
    BY <2>1, <2>2 DEF Heap, Spaces
  <2>4. Longer(h.new, e.new)
    BY <2>1, <2>2, <2>3, LongerTwice
  <2>5. {os[k] : k \in 1 .. i + 1} = {os[k] : k \in 1 .. i} \cup {os[i + 1]}
    <3>1. \A k : k \in 1 .. i + 1 <=> k \in 1 .. i \/ k = i + 1
      OBVIOUS
    <3>2. QED
      BY <3>1
  <2>6. QED
    BY <1>2, <2>1, <2>2, <2>4, <2>5
<1>6. QED
  BY <1>4, <1>5 DEF Copied

\* What any number of them do.
LEMMA CopiesDo ==
  ASSUME SizesOK(sizes), NEW h, Heap(h), NEW os \in Seq(DOMAIN sizes),
         NEW g, Copies(g, h, os, Len(os))
  PROVE  Copied(h, g[Len(os)], os, Len(os))
<1>1. PICK n \in Nat : n = Len(os)
  BY LenProperties
<1>2. g[0] = h /\ \A i \in 1 .. n : g[i] = Forward(g[i - 1], os[i])
  BY <1>1 DEF Copies
<1>. DEFINE Bad == {i \in 0 .. n : ~Copied(h, g[i], os, i)}
<1>3. ASSUME Bad # {} PROVE FALSE
  <2>1. PICK m \in Bad : \A l \in Bad : m <= l
    <3>1. Bad \subseteq Nat
      OBVIOUS
    <3>. HIDE DEF Bad
    <3>2. QED
      BY <1>3, <3>1, LeastOf
  <2>2. m \in 0 .. n /\ ~Copied(h, g[m], os, m)
    BY <2>1
  <2>3. CASE m = 0
    <3>1. {os[k] : k \in 1 .. 0} = {}
      OBVIOUS
    <3>2. h.new \in Seq(SpaceType) /\ h.new # <<>>
      BY DEF Heap, Spaces
    <3>3. Longer(h.new, h.new)
      BY <3>2, LongerSelf
    <3>4. Shape(h)
      BY DEF Heap, Shape
    <3>5. InSpaces(h.new) = InSpaces(h.new) \cup {os[k] : k \in 1 .. 0}
      BY <3>1
    <3>6. Copied(h, h, os, 0)
      BY <3>3, <3>4, <3>5 DEF Copied
    <3>7. QED
      BY <1>2, <2>2, <2>3, <3>6
  <2>4. CASE m # 0
    <3>1. PICK i \in Nat : i = m - 1
      BY <2>2, <2>4
    <3>2. i \in 0 .. n /\ i + 1 = m /\ i \notin Bad /\ m \in 1 .. n
      BY <2>1, <2>2, <2>4, <3>1
    <3>3. Copied(h, g[i], os, i)
      BY <3>2
    <3>4. os[i + 1] \in DOMAIN sizes
      BY <1>1, <3>2, ElementOfSeq
    <3>5. g[m] = Forward(g[i], os[i + 1])
      BY <1>2, <3>1, <3>2
    <3>6. Copied(h, g[m], os, i + 1)
      BY <3>1, <3>3, <3>4, <3>5, CopiedNext
    <3>7. QED
      BY <2>2, <3>2, <3>6
  <2>5. QED
    BY <2>3, <2>4
<1>4. QED
  BY <1>1, <1>3

\* All the pointers of an object.
LEMMA ForwardAllIs ==
  ASSUME SizesOK(sizes), Heap(Now), NEW os \in Seq(DOMAIN sizes),
         NEW g, g = ForwardAll(os), g.stuck = {}
  PROVE  Heap(g) /\ InSpaces(g.new) = InSpaces(new) \cup ToSet(os) /\ Longer(new, g.new)
<1>1. Len(os) \in Nat /\ DOMAIN os = 1 .. Len(os)
  BY LenProperties
<1>2. \E c : c = [i \in 0 .. Len(os) |-> IF i = 0 THEN Now ELSE Forward(c[i - 1], os[i])]
  <2>1. \E c : Copies(c, Now, os, Len(os))
    BY <1>1, CopiesExist
  <2>2. QED
    BY <2>1 DEF Copies
<1>. DEFINE c == CHOOSE d : d = [i \in 0 .. Len(os) |-> IF i = 0 THEN Now ELSE Forward(d[i - 1], os[i])]
<1>3. c = [i \in 0 .. Len(os) |-> IF i = 0 THEN Now ELSE Forward(c[i - 1], os[i])]
  BY <1>2
<1>4. ForwardAll(os) = c[Len(os)]
  BY DEF ForwardAll
<1>. HIDE DEF c
<1>5. Copies(c, Now, os, Len(os))
  BY <1>3 DEF Copies
<1>6. Copied(Now, g, os, Len(os))
  BY <1>4, <1>5, CopiesDo
<1>7. Now.new = new
  BY DEF Now
<1>8. ToSet(os) = {os[k] : k \in 1 .. Len(os)}
  BY <1>1 DEF ToSet
<1>9. QED
  BY <1>6, <1>7, <1>8 DEF Copied

-----------------------------------------------------------------------------
(* The invariant. *)

\* A request of the program that gcalloc has not met yet has a name to take.
Waiting ==
  request # None =>
    /\ request.size \in Sizes /\ request.kids \in 0 .. Len(roots)
    /\ Objects \ DOMAIN sizes # {}

Places == [root : Nat, sp : Nat, obj : Nat, front : Nat, scanned : Nat]

\* The types, with the lists of spaces.
Types ==
  /\ minspace \in Nat /\ gcblocked \in 0 .. MaxBlocked
  /\ SizesOK(sizes) /\ Spaces(new, sizes)
  /\ refs \in [DOMAIN sizes -> Seq(Objects)]
  /\ roots \in Seq(Objects)
  /\ request \in [size : Nat, kids : Nat] /\ Waiting
  /\ phase \in {"run", "roots", "scan", "lost"} /\ at \in Places
  /\ done \subseteq InSpaces(new) /\ stale \subseteq Objects

\* Objects point to objects, and so does the program, unless one has been missed.
Closed ==
  /\ ToSet(roots) \subseteq DOMAIN sizes
  /\ \A o \in DOMAIN sizes : ToSet(refs[o]) \subseteq DOMAIN sizes

\* Where the collector is, and what it has copied so far.
Place ==
  /\ at.sp \in 1 .. Len(new) /\ at.obj \in Nat \ {0}
  /\ at.scanned \in Nat /\ at.scanned < at.sp /\ at.sp <= at.front /\ at.front <= Len(new)

\* scanroots goes through the roots from the last one on.
RootsCopied == \A i \in DOMAIN roots : i > at.root => roots[i] \in InSpaces(new)

\* What an object that has been scanned points to has been copied.
Forwarded == \A o \in done : ToSet(refs[o]) \subseteq InSpaces(new)

\* As long as there is one space, what is before the place has been scanned.
Behind ==
  Len(new) = 1 => \A i \in DOMAIN new[1].objs : i < at.obj => new[1].objs[i] \in done

\* Phase by phase.
Collecting ==
  /\ phase = "roots" => at.root \in 0 .. Len(roots) /\ RootsCopied
  /\ phase = "scan"  => Place /\ Behind /\ ToSet(roots) \subseteq InSpaces(new)
  /\ phase \in {"roots", "scan"} => Forwarded
  /\ phase = "run" => DOMAIN sizes = InSpaces(new)

\* The inductive invariant.
IInv == Types /\ (phase # "lost" => Closed) /\ Collecting

\* The first space and no object.
LEMMA InitIInv == Init => IInv
<1>. SUFFICES ASSUME Init PROVE IInv
  OBVIOUS
<1>1. MIN_minspace \in Nat /\ MaxBlocked \in Nat
  BY SizeAssumption, BoundAssumption
<1>2. Spaces(new, sizes) /\ InSpaces(new) = {}
  BY <1>1, SpacesFirst DEF Init
<1>3. DOMAIN sizes = {} /\ roots = <<>> /\ refs = <<>>
  BY DEF Init
<1>4. SizesOK(sizes) /\ refs \in [DOMAIN sizes -> Seq(Objects)]
  BY <1>3 DEF SizesOK
<1>5. roots \in Seq(Objects) /\ ToSet(roots) = {}
  BY <1>3 DEF ToSet
<1>6. /\ gcblocked = 0 /\ minspace \in Nat /\ request = None /\ phase = "run"
      /\ done = {} /\ stale = {}
  BY <1>1 DEF Init
<1>7. request \in [size : Nat, kids : Nat] /\ Waiting
  BY <1>6 DEF None, Waiting
<1>8. at \in Places
  BY DEF Init, Nowhere, Places
<1>9. Types
  BY <1>1, <1>2, <1>4, <1>5, <1>6, <1>7, <1>8 DEF Types
<1>10. Closed
  BY <1>3, <1>5 DEF Closed
<1>11. Collecting
  BY <1>2, <1>3, <1>6 DEF Collecting
<1>12. QED
  BY <1>9, <1>10, <1>11 DEF IInv

\* Nothing of the heap changes.
LEMMA SameHeap ==
  ASSUME IInv, UNCHANGED <<new, sizes, refs, phase, at, done, stale>>,
         minspace' \in Nat, gcblocked' \in 0 .. MaxBlocked,
         request' \in [size : Nat, kids : Nat], Waiting',
         phase = "run", roots' \in Seq(Objects), ToSet(roots') \subseteq ToSet(roots)
  PROVE  IInv'
<1>1. Types'
  BY DEF IInv, Types
<1>2. Closed'
  BY DEF IInv, Closed
<1>3. Collecting'
  BY DEF IInv, Collecting
<1>4. QED
  BY <1>1, <1>2, <1>3 DEF IInv

\* A collection begins.
LEMMA StartIInv ==
  ASSUME IInv, NEW min \in Nat, Start(min), UNCHANGED <<sizes, refs, roots, request, stale>>,
         gcblocked' \in 0 .. MaxBlocked, phase # "lost"
  PROVE  IInv'
<1>1. /\ phase' = "roots" /\ new' = <<Space(min)>> /\ minspace' = min /\ done' = {}
      /\ at'.root = Len(roots) /\ at' = [Nowhere EXCEPT !.root = Len(roots)]
  BY DEF Start, Nowhere
<1>2. Spaces(new', sizes) /\ InSpaces(new') = {}
  BY <1>1, SpacesFirst
<1>3. Types'
  <2>1. Len(roots) \in Nat
    BY LenProperties DEF IInv, Types
  <2>2. at' \in Places
    BY <1>1, <2>1 DEF Nowhere, Places
  <2>3. QED
    BY <1>1, <1>2, <2>2 DEF IInv, Types, Waiting
<1>4. Closed'
  BY DEF IInv, Closed
<1>5. Len(roots) \in Nat /\ DOMAIN roots = 1 .. Len(roots)
  BY LenProperties DEF IInv, Types
<1>6. Collecting'
  BY <1>1, <1>5 DEF Collecting, RootsCopied, Forwarded
<1>7. QED
  BY <1>3, <1>4, <1>6 DEF IInv

\* gcdisable and gcenable.
LEMMA BlockIInv ==
  ASSUME IInv, Gcdisable \/ Gcenable
  PROVE  IInv'
<1>1. MaxBlocked \in Nat /\ gcblocked \in 0 .. MaxBlocked /\ minspace \in Nat
  BY BoundAssumption DEF IInv, Types
<1>2. phase = "run" /\ UNCHANGED <<sizes, refs, roots, request, stale>>
  BY DEF Gcdisable, Gcenable, Running
<1>3. gcblocked' \in 0 .. MaxBlocked
  BY <1>1 DEF Gcdisable, Gcenable
<1>4. CASE Start(minspace)
  BY <1>1, <1>2, <1>3, <1>4, StartIInv
<1>5. CASE UNCHANGED <<new, minspace, phase, at, done>>
  <2>1. /\ minspace' \in Nat /\ roots' \in Seq(Objects) /\ ToSet(roots') \subseteq ToSet(roots)
        /\ request' \in [size : Nat, kids : Nat] /\ Waiting'
    BY <1>1, <1>2, <1>5 DEF IInv, Types, Waiting
  <2>2. QED
    BY <1>2, <1>3, <1>5, <2>1, SameHeap
<1>6. Start(minspace) \/ UNCHANGED <<new, minspace, phase, at, done>>
  BY DEF Gcdisable, Gcenable
<1>7. QED
  BY <1>4, <1>5, <1>6

\* A root ends.
LEMMA RefEndIInv ==
  ASSUME IInv, RefEnd
  PROVE  IInv'
<1>1. roots \in Seq(Objects) /\ roots # <<>> /\ roots' = Front(roots)
  BY DEF IInv, Types, RefEnd
<1>2. PICK n \in Nat \ {0} : n = Len(roots) /\ DOMAIN roots = 1 .. n
  BY <1>1, LenProperties, EmptySeq
<1>3. PICK f : f = Front(roots)
  OBVIOUS
<1>4. f \in Seq(Objects) /\ Len(f) = n - 1 /\ \A i \in 1 .. n - 1 : f[i] = roots[i]
  BY <1>1, <1>2, <1>3 DEF Front
<1>5. DOMAIN f = 1 .. n - 1
  BY <1>2, <1>4, LenProperties
<1>6. ToSet(f) \subseteq ToSet(roots)
  BY <1>2, <1>4, <1>5 DEF ToSet
<1>7. /\ phase = "run" /\ request = None
      /\ UNCHANGED <<new, minspace, gcblocked, sizes, refs, request, phase, at, done, stale>>
  BY DEF RefEnd, Running
<1>8. /\ minspace' \in Nat /\ gcblocked' \in 0 .. MaxBlocked
      /\ request' \in [size : Nat, kids : Nat] /\ Waiting'
  BY <1>7 DEF IInv, Types, Waiting
<1>9. roots' \in Seq(Objects) /\ ToSet(roots') \subseteq ToSet(roots)
  BY <1>1, <1>3, <1>4, <1>6
<1>10. QED
  BY <1>7, <1>8, <1>9, SameHeap

\* gcalloc is called.
LEMMA GcallocIInv ==
  ASSUME IInv, NEW n \in Sizes, NEW k \in 0 .. MaxKids, Gcalloc(n, k)
  PROVE  IInv'
<1>1. /\ phase = "run" /\ k <= Len(roots) /\ Free # {} /\ request' = [size |-> n, kids |-> k]
      /\ UNCHANGED <<new, minspace, gcblocked, sizes, refs, roots, phase, at, done, stale>>
  BY DEF Gcalloc, Running
<1>2. n \in Nat /\ k \in Nat /\ Len(roots) \in Nat
  BY SizeAssumption, BoundAssumption, LenProperties DEF IInv, Types
<1>3. DOMAIN sizes = InSpaces(new)
  BY <1>1 DEF IInv, Collecting
<1>4. request'.size = n /\ request'.kids = k /\ request' \in [size : Nat, kids : Nat]
  BY <1>1, <1>2
<1>5. Waiting'
  BY <1>1, <1>2, <1>3, <1>4 DEF Waiting, Free
<1>6. /\ minspace' \in Nat /\ gcblocked' \in 0 .. MaxBlocked
      /\ roots' \in Seq(Objects) /\ ToSet(roots') \subseteq ToSet(roots)
  BY <1>1 DEF IInv, Types
<1>7. QED
  BY <1>1, <1>4, <1>5, <1>6, SameHeap

\* What is allocated has a size: 0 stands for no request.
LEMMA SizesNat == \A n \in Sizes : n \in Nat /\ n > 0
  BY SizeAssumption

\* gcalloc adds a space.
LEMMA GrowsIInv ==
  ASSUME IInv, GcallocGrows
  PROVE  IInv'
<1>1. /\ phase = "run" /\ request # None
      /\ minspace' = Raised(minspace, request.size)
      /\ new' = Append(new, Space(minspace'))
      /\ UNCHANGED <<gcblocked, sizes, refs, roots, request, phase, at, done, stale>>
  BY DEF GcallocGrows, Running
<1>2. minspace \in Nat /\ request.size \in Nat
  BY DEF IInv, Types
<1>3. minspace' \in Nat
  BY <1>1, <1>2, RaisedNat
<1>4. Spaces(new, sizes)
  BY DEF IInv, Types
<1>5. Spaces(new', sizes) /\ InSpaces(new') = InSpaces(new)
  BY <1>1, <1>3, <1>4, SpacesNew
<1>6. Types'
  BY <1>1, <1>3, <1>5 DEF IInv, Types, Waiting
<1>7. Closed'
  BY <1>1 DEF IInv, Closed
<1>8. Collecting'
  BY <1>1, <1>5 DEF IInv, Collecting
<1>9. QED
  BY <1>1, <1>6, <1>7, <1>8 DEF IInv

\* gcalloc starts a collection.
LEMMA CollectsIInv ==
  ASSUME IInv, GcallocCollects
  PROVE  IInv'
<1>1. /\ phase = "run" /\ Start(Raised(minspace, request.size))
      /\ UNCHANGED <<gcblocked, sizes, refs, roots, request, stale>>
  BY DEF GcallocCollects, Running
<1>2. minspace \in Nat /\ request.size \in Nat /\ gcblocked' \in 0 .. MaxBlocked
  BY <1>1 DEF IInv, Types
<1>3. PICK m \in Nat : m = Raised(minspace, request.size)
  BY <1>2, RaisedNat
<1>4. Start(m)
  BY <1>1, <1>3
<1>5. QED
  BY <1>1, <1>2, <1>3, <1>4, StartIInv

\* The least name that is free.
LEMMA FreeHas ==
  ASSUME NEW S, S \subseteq Objects, S # {}
  PROVE  (CHOOSE x \in S : \A y \in S : x <= y) \in S
<1>1. S \subseteq Nat
  BY ObjectAssumption
<1>2. \E x \in S : \A y \in S : x <= y
  BY <1>1, LeastOf
<1>3. QED
  BY <1>2

\* The sizes of what is there stay the same.
LEMMA SpacesSame ==
  ASSUME NEW s, NEW sz, Spaces(s, sz), NEW tz, InSpaces(s) \subseteq DOMAIN tz,
         \A x \in InSpaces(s) : tz[x] = sz[x]
  PROVE  Spaces(s, tz)
<1>1. s \in Seq(SpaceType)
  BY DEF Spaces
<1>2. ASSUME NEW i \in DOMAIN s
      PROVE  UsedOf(s[i], tz) = UsedOf(s[i], sz)
  <2>1. \A k \in DOMAIN s[i].objs : s[i].objs[k] \in InSpaces(s)
    BY <1>1, SpaceObjs DEF ToSet
  <2>2. [k \in DOMAIN s[i].objs |-> tz[s[i].objs[k]]] = [k \in DOMAIN s[i].objs |-> sz[s[i].objs[k]]]
    BY <2>1
  <2>3. QED
    BY <2>2 DEF UsedOf
<1>3. Filled(s, tz)
  <2>. SUFFICES ASSUME NEW i \in DOMAIN s PROVE UsedOf(s[i], tz) <= s[i].cap
    BY DEF Filled
  <2>1. UsedOf(s[i], sz) <= s[i].cap
    BY DEF Spaces, Filled
  <2>2. QED
    BY <1>2, <2>1
<1>4. QED
  BY <1>3 DEF Spaces

\* gcalloc finds room: the new object is a root.
LEMMA FitsIInv ==
  ASSUME IInv, GcallocFits
  PROVE  IInv'
<1>1. phase = "run" /\ request # None /\ Fits(Last(new), request.size) /\ request' = None
  BY DEF GcallocFits, Running
<1>2. /\ request.size \in Sizes /\ request.kids \in 0 .. Len(roots)
      /\ Objects \ DOMAIN sizes # {} /\ DOMAIN sizes = InSpaces(new)
  BY <1>1 DEF IInv, Types, Waiting, Collecting
<1>3. PICK o : o = CHOOSE x \in Free : \A y \in Free : x <= y
  OBVIOUS
<1>4. PICK n : n = Len(roots) - request.kids
  OBVIOUS
<1>5. PICK sz : sz = [x \in InSpaces(new) \cup {o} |-> IF x = o THEN request.size ELSE sizes[x]]
  OBVIOUS
<1>6. PICK rf : rf = [x \in InSpaces(new) \cup {o} |->
                        IF x = o THEN SubSeq(roots, n + 1, Len(roots)) ELSE refs[x]]
  OBVIOUS
<1>7. /\ new' = Put(new, o) /\ sizes' = sz /\ refs' = rf
      /\ roots' = Append(SubSeq(roots, 1, n), o) /\ done' = done \cup {o}
      /\ UNCHANGED <<minspace, gcblocked, phase, at, stale>>
  BY <1>3, <1>4, <1>5, <1>6, Zenon DEF GcallocFits
<1>8. o \in Objects /\ o \notin InSpaces(new)
  <2>1. Free \subseteq Objects /\ Free # {}
    BY <1>2 DEF Free
  <2>2. o \in Free
    BY <1>3, <2>1, FreeHas
  <2>3. QED
    BY <2>2 DEF Free
<1>9. SizesOK(sizes) /\ Spaces(new, sizes) /\ roots \in Seq(Objects)
  BY DEF IInv, Types
<1>10. DOMAIN sz = InSpaces(new) \cup {o} /\ sz[o] = request.size
  BY <1>5
<1>11. \A x \in InSpaces(new) : sz[x] = sizes[x]
  BY <1>5, <1>8
<1>12. request.size \in Nat
  BY <1>2, SizesNat
<1>13. SizesOK(sz)
  BY <1>2, <1>8, <1>9, <1>10, <1>11, <1>12 DEF SizesOK
<1>14. Spaces(new, sz)
  BY <1>9, <1>10, <1>11, SpacesSame
<1>15. Spaces(new', sz) /\ InSpaces(new') = InSpaces(new) \cup {o}
  <2>1. new \in Seq(SpaceType) /\ new # <<>>
    BY <1>9 DEF Spaces
  <2>2. PICK m \in Nat \ {0} : m = Len(new) /\ DOMAIN new = 1 .. m
    BY <2>1, LenProperties, EmptySeq
  <2>3. PICK sp : sp = new[m]
    OBVIOUS
  <2>4. sp \in SpaceType /\ ToSet(sp.objs) \subseteq InSpaces(new) /\ sp.cap \in Nat
    BY <2>1, <2>2, <2>3, SpaceObjs
  <2>5. Last(new) = sp
    BY <2>2, <2>3 DEF Last
  <2>6. UsedOf(sp, sizes) + request.size <= sp.cap
    BY <1>1, <2>5, UsedIs DEF Fits
  <2>7. UsedOf(sp, sz) = UsedOf(sp, sizes)
    <3>1. \A k \in DOMAIN sp.objs : sp.objs[k] \in InSpaces(new)
      BY <2>4 DEF ToSet
    <3>2. [k \in DOMAIN sp.objs |-> sz[sp.objs[k]]] = [k \in DOMAIN sp.objs |-> sizes[sp.objs[k]]]
      BY <1>11, <3>1
    <3>3. QED
      BY <3>2 DEF UsedOf
  <2>8. UsedOf(new[Len(new)], sz) + sz[o] <= new[Len(new)].cap
    BY <1>10, <2>2, <2>3, <2>6, <2>7, Zenon
  <2>9. o \in DOMAIN sz
    BY <1>10
  <2>10. Spaces(Put(new, o), sz) /\ InSpaces(Put(new, o)) = InSpaces(new) \cup {o}
    BY <1>8, <1>13, <1>14, <2>8, <2>9, SpacesPut
  <2>11. QED
    BY <1>7, <2>10
<1>16. PICK l \in Nat : l = Len(roots) /\ DOMAIN roots = 1 .. l
  BY <1>9, LenProperties
<1>17. n \in 0 .. l
  BY <1>2, <1>4, <1>16
<1>18. PICK u : u = SubSeq(roots, 1, n)
  OBVIOUS
<1>19. PICK v : v = SubSeq(roots, n + 1, l)
  OBVIOUS
<1>20. u \in Seq(Objects) /\ ToSet(u) \subseteq ToSet(roots)
  <2>1. u = [i \in 1 .. n |-> roots[i]]
    BY <1>16, <1>17, <1>18
  <2>2. \A i \in 1 .. n : roots[i] \in Objects
    BY <1>9, <1>16, <1>17, ElementOfSeq
  <2>3. QED
    BY <1>16, <1>17, <2>1, <2>2 DEF ToSet
<1>21. v \in Seq(Objects) /\ ToSet(v) \subseteq ToSet(roots)
  <2>1. v = [i \in 1 .. l - n |-> roots[i + n]]
    BY <1>9, <1>16, <1>17, <1>19
  <2>2. \A i \in 1 .. l - n : i + n \in 1 .. l
    BY <1>16, <1>17
  <2>3. \A i \in 1 .. l : roots[i] \in Objects
    BY <1>9, <1>16, ElementOfSeq
  <2>4. QED
    BY <1>16, <1>17, <2>1, <2>2, <2>3 DEF ToSet
<1>22. /\ roots' \in Seq(Objects) /\ ToSet(roots') = ToSet(u) \cup {o}
  <2>1. PICK w : w = Append(u, o)
    OBVIOUS
  <2>2. PICK k \in Nat : k = Len(u) /\ DOMAIN u = 1 .. k
    BY <1>20, LenProperties
  <2>3. /\ w \in Seq(Objects) /\ DOMAIN w = 1 .. k + 1 /\ w[k + 1] = o
        /\ \A i \in 1 .. k : w[i] = u[i]
    BY <1>8, <1>20, <2>1, <2>2, AppendProperties, LenProperties
  <2>4. ToSet(w) = ToSet(u) \cup {o}
    BY <2>2, <2>3 DEF ToSet
  <2>5. QED
    BY <1>7, <1>18, <2>1, <2>3, <2>4
<1>23. ToSet(roots) \subseteq InSpaces(new) /\ \A x \in InSpaces(new) : ToSet(refs[x]) \subseteq InSpaces(new)
  BY <1>1, <1>2 DEF IInv, Closed
<1>24. rf \in [DOMAIN sz -> Seq(Objects)]
  <2>1. \A x \in InSpaces(new) : refs[x] \in Seq(Objects)
    BY <1>2 DEF IInv, Types
  <2>2. QED
    BY <1>6, <1>10, <1>16, <1>19, <1>21, <2>1
<1>25. Types'
  <2>1. Waiting' /\ request' \in [size : Nat, kids : Nat]
    BY <1>1 DEF Waiting, None
  <2>2. done' \subseteq InSpaces(new')
    BY <1>7, <1>15 DEF IInv, Types
  <2>3. QED
    BY <1>7, <1>13, <1>15, <1>22, <1>24, <2>1, <2>2 DEF IInv, Types
<1>26. Closed'
  <2>1. ToSet(roots') \subseteq DOMAIN sz
    BY <1>10, <1>20, <1>22, <1>23
  <2>2. ASSUME NEW x \in DOMAIN sz PROVE ToSet(rf[x]) \subseteq DOMAIN sz
    <3>1. CASE x = o
      BY <1>6, <1>10, <1>16, <1>19, <1>21, <1>23, <3>1
    <3>2. CASE x # o
      BY <1>6, <1>10, <1>23, <3>2
    <3>3. QED
      BY <3>1, <3>2
  <2>3. QED
    BY <1>7, <2>1, <2>2 DEF Closed
<1>27. Collecting'
  BY <1>1, <1>7, <1>10, <1>15 DEF Collecting
<1>28. QED
  BY <1>25, <1>26, <1>27 DEF IInv

-----------------------------------------------------------------------------
(* The collector's steps. *)

\* The heap as it is now.
LEMMA NowHeap ==
  ASSUME IInv
  PROVE  /\ Heap(Now) /\ Shape(Now) /\ Now.new = new /\ Now.min = minspace /\ Now.stuck = {}
         /\ new \in Seq(SpaceType) /\ new # <<>> /\ SizesOK(sizes)
<1>1. Spaces(new, sizes) /\ minspace \in Nat /\ SizesOK(sizes)
  BY DEF IInv, Types
<1>2. new \in Seq(SpaceType) /\ new # <<>>
  BY <1>1 DEF Spaces
<1>3. Now \in [new : Seq(SpaceType), min : Nat, stuck : SUBSET Objects]
  BY <1>1, <1>2 DEF Now
<1>4. Now.new = new /\ Now.min = minspace /\ Now.stuck = {} /\ Shape(Now)
  BY DEF Now, Shape
<1>5. Heap(Now)
  BY <1>1, <1>3, <1>4 DEF Heap
<1>6. QED
  BY <1>1, <1>2, <1>4, <1>5

\* What a copy leaves of the types.
LEMMA CopyTypes ==
  ASSUME IInv, NEW h, Heap(h), new' = h.new, minspace' = h.min,
         InSpaces(new) \subseteq InSpaces(h.new),
         UNCHANGED <<gcblocked, sizes, refs, roots, request, stale>>,
         phase' \in {"roots", "scan"}, done' \subseteq InSpaces(h.new), phase # "lost",
         at' \in Places
  PROVE  Types' /\ Closed'
<1>1. minspace' \in Nat /\ Spaces(new', sizes')
  BY DEF Heap
<1>2. Types'
  BY <1>1 DEF IInv, Types, Waiting
<1>3. Closed'
  BY DEF IInv, Closed
<1>4. QED
  BY <1>2, <1>3

\* scanroots.
LEMMA RootIInv ==
  ASSUME IInv, phase = "roots", ~RootsDone, Scanroots
  PROVE  IInv'
<1>1. PICK h : h = Forward(Now, roots[at.root])
  OBVIOUS
<1>2. /\ h.stuck = {} /\ new' = h.new /\ minspace' = h.min
      /\ at' = [at EXCEPT !.root = @ - 1] /\ phase' = "roots"
      /\ UNCHANGED <<gcblocked, sizes, refs, roots, request, done, stale>>
  BY <1>1 DEF Scanroots
<1>3. /\ at.root \in 0 .. Len(roots) /\ at.root # 0 /\ RootsCopied /\ Forwarded
      /\ roots \in Seq(Objects) /\ Closed /\ done \subseteq InSpaces(new)
  BY DEF IInv, Collecting, RootsDone, Types
<1>4. PICK n \in Nat : n = Len(roots) /\ DOMAIN roots = 1 .. n
  BY <1>3, LenProperties
<1>5. PICK r \in 1 .. n : r = at.root
  BY <1>3, <1>4
<1>6. PICK o : o = roots[r]
  OBVIOUS
<1>7. o \in DOMAIN sizes
  BY <1>3, <1>4, <1>5, <1>6 DEF Closed, ToSet
<1>8. h = Forward(Now, o)
  BY <1>1, <1>5, <1>6
<1>9. Heap(h) /\ InSpaces(h.new) = InSpaces(new) \cup {o}
  BY <1>2, <1>7, <1>8, NowHeap, ForwardIs
<1>10. at \in Places
  BY DEF IInv, Types
<1>11. at' \in Places /\ at'.root = r - 1
  BY <1>2, <1>5, <1>10 DEF Places
<1>12. Types' /\ Closed'
  <2>1. done' \subseteq InSpaces(h.new) /\ InSpaces(new) \subseteq InSpaces(h.new)
    BY <1>2, <1>3, <1>9
  <2>2. QED
    BY <1>2, <1>9, <1>11, <2>1, CopyTypes
<1>13. Collecting'
  <2>1. at'.root \in 0 .. Len(roots')
    BY <1>2, <1>4, <1>11
  <2>2. RootsCopied'
    <3>. SUFFICES ASSUME NEW i \in DOMAIN roots, i > r - 1 PROVE roots[i] \in InSpaces(new')
      BY <1>2, <1>11 DEF RootsCopied
    <3>1. CASE i = r
      BY <1>2, <1>6, <1>9, <3>1
    <3>2. CASE i # r
      <4>1. i > at.root
        BY <1>4, <1>5, <3>2
      <4>2. QED
        BY <1>2, <1>3, <1>9, <4>1 DEF RootsCopied
    <3>3. QED
      BY <3>1, <3>2
  <2>3. Forwarded'
    BY <1>2, <1>3, <1>9 DEF Forwarded
  <2>4. QED
    BY <1>2, <2>1, <2>2, <2>3 DEF Collecting
<1>14. QED
  BY <1>2, <1>12, <1>13 DEF IInv

\* The collector moves on, and the heap stays.
LEMMA MoveIInv ==
  ASSUME IInv, UNCHANGED <<new, minspace, gcblocked, sizes, refs, roots, request, done, stale>>,
         phase \in {"roots", "scan"}, ToSet(roots) \subseteq InSpaces(new),
         phase' = "scan", at' \in Places, Place', Behind'
  PROVE  IInv'
<1>1. Types'
  BY DEF IInv, Types, Waiting
<1>2. Closed'
  BY DEF IInv, Closed
<1>3. Forwarded'
  BY DEF IInv, Collecting, Forwarded
<1>4. Collecting'
  BY <1>3 DEF Collecting
<1>5. QED
  BY <1>1, <1>2, <1>4 DEF IInv

\* The scan begins in the last space.
LEMMA ScanBegins ==
  ASSUME IInv, phase = "roots", RootsDone, Scanroots
  PROVE  IInv'
<1>1. /\ phase' = "scan"
      /\ at' = [root |-> 0, sp |-> Len(new), obj |-> 1, front |-> Len(new), scanned |-> 0]
      /\ UNCHANGED <<new, minspace, gcblocked, sizes, refs, roots, request, done, stale>>
  BY DEF Scanroots
<1>2. RootsCopied /\ at.root = 0 /\ roots \in Seq(Objects)
  BY DEF IInv, Collecting, Types, RootsDone
<1>3. DOMAIN roots = 1 .. Len(roots) /\ Len(roots) \in Nat
  BY <1>2, LenProperties
<1>4. ToSet(roots) \subseteq InSpaces(new)
  BY <1>2, <1>3 DEF RootsCopied, ToSet
<1>5. PICK n \in Nat \ {0} : n = Len(new) /\ DOMAIN new = 1 .. n
  BY NowHeap, LenProperties, EmptySeq
<1>6. at' \in Places /\ at'.sp = n /\ at'.obj = 1 /\ at'.front = n /\ at'.scanned = 0
  BY <1>1, <1>5 DEF Places
<1>7. Place'
  BY <1>1, <1>5, <1>6 DEF Place
<1>8. Behind'
  <2>. SUFFICES ASSUME Len(new) = 1, NEW i \in DOMAIN new[1].objs, i < 1
                PROVE  FALSE
    BY <1>1, <1>6 DEF Behind
  <2>1. new[1].objs \in Seq(Objects)
    BY <1>5, NowHeap, SpaceObjs
  <2>2. DOMAIN new[1].objs = 1 .. Len(new[1].objs) /\ Len(new[1].objs) \in Nat
    BY <2>1, LenProperties
  <2>3. QED
    BY <2>2
<1>9. QED
  BY <1>1, <1>4, <1>6, <1>7, <1>8, MoveIInv

\* scanspace comes to the next space.
LEMMA ScanNextIInv ==
  ASSUME IInv, ScanNext
  PROVE  IInv'
<1>1. /\ phase = "scan" /\ at.sp - 1 > at.scanned /\ at' = [at EXCEPT !.sp = @ - 1, !.obj = 1]
      /\ UNCHANGED <<new, minspace, gcblocked, sizes, refs, roots, request, phase, done, stale>>
  BY DEF ScanNext, SpaceDone
<1>2. Place /\ ToSet(roots) \subseteq InSpaces(new) /\ at \in Places
  BY <1>1 DEF IInv, Collecting, Types
<1>3. PICK n \in Nat : n = Len(new)
  BY NowHeap, LenProperties
<1>4. /\ at' \in Places /\ at'.sp = at.sp - 1 /\ at'.obj = 1
      /\ at'.front = at.front /\ at'.scanned = at.scanned
  <2>1. at.sp - 1 \in Nat
    BY <1>2, <1>3 DEF Place
  <2>2. QED
    BY <1>1, <1>2, <2>1 DEF Places
<1>5. Place'
  BY <1>1, <1>2, <1>3, <1>4 DEF Place, Places
<1>6. Len(new) # 1
  BY <1>1, <1>2, <1>3 DEF Place, Places
<1>7. Behind'
  BY <1>1, <1>6 DEF Behind
<1>8. QED
  BY <1>1, <1>2, <1>4, <1>5, <1>7, MoveIInv

\* scanspace starts another round.
LEMMA ScanRoundIInv ==
  ASSUME IInv, ScanRound
  PROVE  IInv'
<1>1. /\ phase = "scan" /\ Len(new) > at.front
      /\ at' = [at EXCEPT !.sp = Len(new), !.obj = 1, !.front = Len(new), !.scanned = at.front]
      /\ UNCHANGED <<new, minspace, gcblocked, sizes, refs, roots, request, phase, done, stale>>
  BY DEF ScanRound, SpaceDone
<1>2. Place /\ ToSet(roots) \subseteq InSpaces(new) /\ at \in Places
  BY <1>1 DEF IInv, Collecting, Types
<1>3. PICK n \in Nat : n = Len(new)
  BY NowHeap, LenProperties
<1>4. /\ at' \in Places /\ at'.sp = n /\ at'.obj = 1
      /\ at'.front = n /\ at'.scanned = at.front
  BY <1>1, <1>2, <1>3 DEF Places
<1>5. Place'
  BY <1>1, <1>2, <1>3, <1>4 DEF Place, Places
<1>6. Len(new) # 1
  BY <1>1, <1>2, <1>3 DEF Place, Places
<1>7. Behind'
  BY <1>1, <1>6 DEF Behind
<1>8. QED
  BY <1>1, <1>2, <1>4, <1>5, <1>7, MoveIInv

\* scanspace copies what an object points to.
LEMMA ScanObjectIInv ==
  ASSUME IInv, ScanObject
  PROVE  IInv'
<1>1. PICK o : o = new[at.sp].objs[at.obj]
  OBVIOUS
<1>2. PICK h : h = ForwardAll(refs[o])
  OBVIOUS
<1>3. /\ phase = "scan" /\ ~AtEnd /\ h.stuck = {} /\ new' = h.new /\ minspace' = h.min
      /\ done' = done \cup {o} /\ at' = [at EXCEPT !.obj = @ + 1]
      /\ UNCHANGED <<gcblocked, sizes, refs, roots, request, phase, stale>>
  BY <1>1, <1>2, Zenon DEF ScanObject
<1>4. /\ Place /\ Behind /\ Forwarded /\ ToSet(roots) \subseteq InSpaces(new) /\ at \in Places
      /\ Closed /\ done \subseteq InSpaces(new)
      /\ refs \in [DOMAIN sizes -> Seq(Objects)]
  BY <1>3 DEF IInv, Collecting, Types
<1>5. new \in Seq(SpaceType) /\ new # <<>> /\ SizesOK(sizes) /\ InSpaces(new) \subseteq DOMAIN sizes
  BY NowHeap DEF IInv, Types, Spaces
<1>6. PICK n \in Nat \ {0} : n = Len(new) /\ DOMAIN new = 1 .. n
  BY <1>5, LenProperties, EmptySeq
<1>7. at.sp \in 1 .. n /\ at.obj \in Nat \ {0}
  BY <1>4, <1>6 DEF Place
<1>8. PICK p \in Seq(Objects) : p = new[at.sp].objs /\ ToSet(p) \subseteq InSpaces(new)
  BY <1>5, <1>6, <1>7, SpaceObjs
<1>9. o \in InSpaces(new)
  <2>1. DOMAIN p = 1 .. Len(p) /\ Len(p) \in Nat
    BY LenProperties
  <2>2. at.obj \in DOMAIN p
    BY <1>3, <1>7, <1>8, <2>1 DEF AtEnd
  <2>3. QED
    BY <1>1, <1>8, <2>2 DEF ToSet
<1>10. refs[o] \in Seq(DOMAIN sizes)
  <2>1. PICK q \in Seq(Objects) : q = refs[o]
    BY <1>4, <1>5, <1>9
  <2>2. ToSet(q) \subseteq DOMAIN sizes
    BY <1>4, <1>5, <1>9, <2>1 DEF Closed
  <2>3. PICK l \in Nat : l = Len(q) /\ DOMAIN q = 1 .. l
    BY LenProperties
  <2>4. q = [i \in 1 .. l |-> q[i]] /\ \A i \in 1 .. l : q[i] \in DOMAIN sizes
    BY <2>2, <2>3 DEF ToSet
  <2>5. QED
    BY <2>1, <2>4
<1>11. /\ Heap(h) /\ InSpaces(h.new) = InSpaces(new) \cup ToSet(refs[o])
       /\ Longer(new, h.new)
  BY <1>2, <1>3, <1>5, <1>10, NowHeap, ForwardAllIs
<1>12. /\ at' \in Places /\ at'.sp = at.sp /\ at'.obj = at.obj + 1
       /\ at'.front = at.front /\ at'.scanned = at.scanned
  BY <1>3, <1>4 DEF Places
<1>13. Types' /\ Closed'
  <2>1. InSpaces(new) \subseteq InSpaces(h.new) /\ done' \subseteq InSpaces(h.new)
    BY <1>3, <1>4, <1>9, <1>11
  <2>2. QED
    BY <1>3, <1>11, <1>12, <2>1, CopyTypes
<1>14. h.new \in Seq(SpaceType) /\ h.new # <<>>
  BY <1>11 DEF Heap, Spaces
<1>15. PICK m \in Nat \ {0} : m = Len(h.new) /\ DOMAIN h.new = 1 .. m
  BY <1>14, LenProperties, EmptySeq
<1>16. n <= m
  BY <1>6, <1>11, <1>15 DEF Longer
<1>17. Place'
  BY <1>3, <1>4, <1>6, <1>7, <1>12, <1>15, <1>16 DEF Place, Places
<1>18. Forwarded'
  <2>1. InSpaces(new)' = InSpaces(h.new) /\ refs' = refs /\ done' = done \cup {o}
    BY <1>3
  <2>2. \A x \in done : ToSet(refs[x]) \subseteq InSpaces(h.new)
    BY <1>4, <1>11 DEF Forwarded
  <2>3. ToSet(refs[o]) \subseteq InSpaces(h.new)
    BY <1>11
  <2>4. QED
    BY <2>1, <2>2, <2>3 DEF Forwarded
<1>19. Behind'
  <2>. SUFFICES ASSUME m = 1, NEW i \in DOMAIN h.new[1].objs, i < at.obj + 1
                PROVE  h.new[1].objs[i] \in done \cup {o}
    BY <1>3, <1>12, <1>15 DEF Behind
  <2>1. n = 1 /\ at.sp = 1
    BY <1>6, <1>7, <1>16
  <2>2. PICK q \in Seq(Objects) : q = h.new[1].objs
    BY <1>14, <1>15, SpaceObjs
  <2>3. PICK k \in Nat, l \in Nat : k = Len(p) /\ l = Len(q) /\ DOMAIN p = 1 .. k /\ DOMAIN q = 1 .. l
    BY LenProperties
  <2>4. p = new[1].objs
    BY <1>8, <2>1
  <2>5. k <= l /\ SameUpTo(p, q, k)
    BY <1>11, <1>15, <2>2, <2>3, <2>4 DEF Longer
  <2>6. at.obj \in 1 .. k
    BY <1>3, <1>7, <1>8, <2>3 DEF AtEnd
  <2>7. i \in 1 .. k /\ q[i] = p[i]
    BY <1>7, <2>2, <2>3, <2>5, <2>6 DEF SameUpTo
  <2>8. CASE i = at.obj
    BY <1>1, <1>8, <2>2, <2>7, <2>8
  <2>9. CASE i # at.obj
    <3>1. i < at.obj
      BY <1>7, <2>7, <2>9
    <3>2. p[i] \in done
      BY <1>4, <1>6, <2>1, <2>3, <2>4, <2>7, <3>1 DEF Behind
    <3>3. QED
      BY <2>2, <2>7, <3>2
  <2>10. QED
    BY <2>8, <2>9
<1>20. ToSet(roots') \subseteq InSpaces(new')
  BY <1>3, <1>4, <1>11
<1>21. Collecting'
  BY <1>3, <1>17, <1>18, <1>19, <1>20 DEF Collecting
<1>22. QED
  BY <1>13, <1>21 DEF IInv

\* What is in use altogether.
LEMMA LivedataNat ==
  ASSUME IInv
  PROVE  Livedata \in Nat
<1>1. PICK n \in Nat : n = Len(new) /\ DOMAIN new = 1 .. n
  BY NowHeap, LenProperties
<1>2. ASSUME NEW i \in DOMAIN new PROVE Used(new[i]) \in Nat
  <2>1. /\ new \in Seq(SpaceType) /\ SizesOK(sizes)
        /\ InSpaces(new) \subseteq DOMAIN sizes
    BY NowHeap DEF IInv, Types, Spaces
  <2>2. PICK sp : sp = new[i]
    OBVIOUS
  <2>3. sp \in SpaceType /\ ToSet(sp.objs) \subseteq DOMAIN sizes
    BY <2>1, <2>2, SpaceObjs
  <2>4. Used(sp) \in Nat
    BY <2>1, <2>3, UsedNat, UsedIs
  <2>5. QED
    BY <2>2, <2>4
<1>3. [i \in DOMAIN new |-> Used(new[i])] \in Seq(Nat)
  BY <1>1, <1>2
<1>4. QED
  BY <1>3, TotalNat DEF Livedata

\* minspace after a collection is a number.
LEMMA AdjustedNat ==
  ASSUME IInv
  PROVE  Adjusted \in Nat
<1>1. Livedata \in Nat /\ minspace \in Nat
  BY LivedataNat DEF IInv, Types
<1>2. minspace \div 2 \in Nat
  BY <1>1
<1>3. QED
  BY <1>1, <1>2 DEF Adjusted

\* gc returns: what has been scanned is closed, and everything else is freed.
LEMMA GcEndIInv ==
  ASSUME IInv, GcEnd
  PROVE  IInv'
<1>1. PICK live : live = InSpaces(new)
  OBVIOUS
<1>2. PICK sz : sz = [o \in live |-> sizes[o]]
  OBVIOUS
<1>3. PICK rf : rf = [o \in live |-> refs[o]]
  OBVIOUS
<1>4. /\ phase = "scan" /\ stale' = Missed /\ sizes' = sz /\ refs' = rf
      /\ UNCHANGED <<gcblocked, roots, request>>
  BY <1>1, <1>2, <1>3 DEF GcEnd, SpaceDone
<1>5. PICK min \in Nat : min = Adjusted
  BY AdjustedNat
<1>6. \/ Missed = {} /\ Start(min)
      \/ /\ phase' = IF Missed = {} THEN "run" ELSE "lost"
         /\ at' = Nowhere /\ minspace' = min /\ UNCHANGED <<new, done>>
  BY <1>5 DEF GcEnd
<1>7. /\ Spaces(new, sizes) /\ SizesOK(sizes) /\ live \subseteq DOMAIN sizes
      /\ refs \in [DOMAIN sizes -> Seq(Objects)]
      /\ roots \in Seq(Objects) /\ Waiting /\ done \subseteq live
      /\ gcblocked \in 0 .. MaxBlocked /\ request \in [size : Nat, kids : Nat]
  BY <1>1 DEF IInv, Types, Spaces
<1>8. Forwarded /\ ToSet(roots) \subseteq live
  BY <1>1, <1>4 DEF IInv, Collecting
<1>9. DOMAIN sz = live /\ DOMAIN rf = live /\ SizesOK(sz) /\ rf \in [live -> Seq(Objects)]
  BY <1>2, <1>3, <1>7 DEF SizesOK
<1>10. Waiting'
  <2>1. Objects \ DOMAIN sizes # {} => Objects \ live # {}
    BY <1>7
  <2>2. QED
    BY <1>4, <1>7, <1>9, <2>1 DEF Waiting
<1>11. stale' \subseteq Objects
  BY <1>1, <1>4, <1>7 DEF Missed, SizesOK
<1>12. ASSUME Missed = {} PROVE Closed'
  <2>1. ASSUME NEW o \in live PROVE ToSet(rf[o]) \subseteq live
    <3>1. rf[o] = refs[o]
      BY <1>3
    <3>2. CASE o \in done
      BY <1>1, <1>8, <3>1, <3>2 DEF Forwarded
    <3>3. CASE o \notin done
      <4>1. rf[o] = <<>>
        BY <1>1, <1>12, <3>1, <3>3 DEF Missed
      <4>2. QED
        BY <4>1 DEF ToSet
    <3>4. QED
      BY <3>2, <3>3
  <2>2. QED
    BY <1>4, <1>8, <1>9, <2>1 DEF Closed
<1>13. CASE Missed = {} /\ Start(min)
  <2>1. /\ phase' = "roots" /\ new' = <<Space(min)>> /\ minspace' = min /\ done' = {}
        /\ at' = [Nowhere EXCEPT !.root = Len(roots)]
    BY <1>13 DEF Start
  <2>2. Len(roots) \in Nat /\ DOMAIN roots = 1 .. Len(roots)
    BY <1>7, LenProperties
  <2>3. at' \in Places /\ at'.root = Len(roots)
    BY <2>1, <2>2 DEF Nowhere, Places
  <2>4. Spaces(new', sz) /\ InSpaces(new') = {}
    BY <2>1, SpacesFirst
  <2>5. Types'
    BY <1>4, <1>7, <1>9, <1>10, <1>11, <2>1, <2>3, <2>4 DEF Types
  <2>6. Collecting'
    BY <1>4, <2>1, <2>2, <2>3 DEF Collecting, RootsCopied, Forwarded
  <2>7. QED
    BY <1>12, <1>13, <2>5, <2>6 DEF IInv
<1>14. CASE /\ phase' = IF Missed = {} THEN "run" ELSE "lost"
            /\ at' = Nowhere /\ minspace' = min /\ UNCHANGED <<new, done>>
  <2>1. at' \in Places
    BY <1>14 DEF Nowhere, Places
  <2>2. Spaces(new', sz)
    <3>1. \A x \in InSpaces(new) : sz[x] = sizes[x]
      BY <1>1, <1>2
    <3>2. Spaces(new, sz)
      BY <1>1, <1>7, <1>9, <3>1, SpacesSame
    <3>3. QED
      BY <1>14, <3>2
  <2>3. done' \subseteq InSpaces(new')
    BY <1>1, <1>7, <1>14
  <2>4. phase' \in {"run", "lost"} /\ (phase' # "lost" => Missed = {})
    BY <1>14
  <2>5. Types'
    BY <1>4, <1>7, <1>9, <1>10, <1>11, <1>14, <2>1, <2>2, <2>3, <2>4 DEF Types
  <2>6. DOMAIN sizes' = InSpaces(new')
    BY <1>1, <1>4, <1>9, <1>14
  <2>7. Collecting'
    BY <2>4, <2>6 DEF Collecting
  <2>8. QED
    BY <1>12, <2>4, <2>5, <2>7 DEF IInv
<1>15. QED
  BY <1>6, <1>13, <1>14

\* Every step keeps the invariant.
LEMMA Step ==
  ASSUME IInv, [Next]_vars
  PROVE  IInv'
<1>1. CASE Gcdisable \/ Gcenable
  BY <1>1, BlockIInv
<1>2. CASE RefEnd
  BY <1>2, RefEndIInv
<1>3. ASSUME NEW n \in Sizes, NEW k \in 0 .. MaxKids, Gcalloc(n, k)
      PROVE  IInv'
  BY <1>3, GcallocIInv
<1>4. CASE GcallocFits
  BY <1>4, FitsIInv
<1>5. CASE GcallocGrows
  BY <1>5, GrowsIInv
<1>6. CASE GcallocCollects
  BY <1>6, CollectsIInv
<1>7. CASE Scanroots
  <2>1. phase = "roots"
    BY <1>7 DEF Scanroots
  <2>2. CASE RootsDone
    BY <1>7, <2>1, <2>2, ScanBegins
  <2>3. CASE ~RootsDone
    BY <1>7, <2>1, <2>3, RootIInv
  <2>4. QED
    BY <2>2, <2>3
<1>8. CASE ScanObject
  BY <1>8, ScanObjectIInv
<1>9. CASE ScanNext
  BY <1>9, ScanNextIInv
<1>10. CASE ScanRound
  BY <1>10, ScanRoundIInv
<1>11. CASE GcEnd
  BY <1>11, GcEndIInv
<1>12. CASE UNCHANGED vars
  BY <1>12 DEF vars, IInv, Types, Waiting, Closed, Collecting, Place, Behind, Forwarded,
               RootsCopied
<1>13. QED
  BY <1>1, <1>2, <1>3, <1>4, <1>5, <1>6, <1>7, <1>8, <1>9, <1>10, <1>11, <1>12 DEF Next, Gc

\* The heap is closed under reference between collections, and in one whatever
\* scanspace has gone through has its pointers copied.
THEOREM Invariance == Spec => []IInv
<1>1. Init => IInv
  BY InitIInv
<1>2. IInv /\ [Next]_vars => IInv'
  BY Step
<1>3. QED
  BY <1>1, <1>2, PTL DEF Spec

\* A set that has what the program holds, and all that its objects point to, has
\* all that the program can reach.
LEMMA ReachIn ==
  ASSUME NEW S, NEW T \in SUBSET Objects, S \subseteq T,
         \A x \in T \cap DOMAIN refs : ToSet(refs[x]) \subseteq T
  PROVE  Reach(S) \subseteq T
  BY DEF Reach

\* All that the program can reach after a collection is in a space, in one place,
\* and no space holds more than there is room for, for every set of objects,
\* sizes and bounds: gcalloc, forward, scanroots and scanspace, as far as no copy
\* has been left unscanned (phase "lost", see UpToDate).
THEOREM ReachableIsKept == Spec => []NothingLost
<1>1. IInv => NothingLost
  <2>. SUFFICES ASSUME IInv PROVE NothingLost
    OBVIOUS
  <2>1. Spaces(new, sizes) /\ SizesOK(sizes) /\ refs \in [DOMAIN sizes -> Seq(Objects)]
    BY DEF IInv, Types
  <2>2. /\ new \in Seq(SpaceType) /\ new # <<>> /\ InSpaces(new) \subseteq DOMAIN sizes
        /\ Filled(new, sizes) /\ Once(new)
    BY <2>1 DEF Spaces
  <2>3. \A i \in DOMAIN new : new[i].cap \in Nat /\ new[i].objs \in Seq(Objects)
    BY <2>2, SpaceObjs
  <2>4. ASSUME NEW i \in DOMAIN new PROVE Used(new[i]) <= new[i].cap
    BY <2>2, UsedIs DEF Filled
  <2>5. TypeOK
    BY <2>1, <2>2, <2>3, <2>4 DEF IInv, Types, TypeOK
  <2>6. ASSUME phase = "run" PROVE Reach(ToSet(roots)) \subseteq InSpaces(new)
    <3>1. DOMAIN sizes = InSpaces(new) /\ DOMAIN refs = InSpaces(new) /\ Closed
      BY <2>1, <2>6 DEF IInv, Collecting
    <3>2. InSpaces(new) \in SUBSET Objects
      BY <2>1, <2>2 DEF SizesOK
    <3>3. /\ ToSet(roots) \subseteq InSpaces(new)
          /\ \A x \in InSpaces(new) \cap DOMAIN refs : ToSet(refs[x]) \subseteq InSpaces(new)
      BY <3>1 DEF Closed
    <3>4. QED
      BY <3>2, <3>3, ReachIn
  <2>7. QED
    BY <2>2, <2>5, <2>6 DEF NothingLost
<1>2. QED
  BY <1>1, Invariance, PTL

\* A collection for which one space has been enough leaves no pointer to the
\* space that it frees: scanspace's loop, which follows the end of the space as
\* copies are added to it, has come to each of them.
THEOREM OneSpaceIsScanned == Spec => OneSpaceUpToDate
<1>1. ASSUME IInv, GcEnd, Len(new) = 1 PROVE stale' = {}
  <2>1. phase = "scan" /\ AtEnd /\ stale' = Missed
    BY <1>1 DEF GcEnd, SpaceDone
  <2>2. Place /\ Behind /\ at \in Places
    BY <1>1, <2>1 DEF IInv, Collecting, Types
  <2>3. new \in Seq(SpaceType) /\ DOMAIN new = {1}
    BY <1>1, NowHeap, LenProperties
  <2>4. at.sp = 1
    BY <1>1, <2>2 DEF Place
  <2>5. PICK p \in Seq(Objects) : p = new[1].objs
    BY <2>3, SpaceObjs
  <2>6. PICK n \in Nat : n = Len(p) /\ DOMAIN p = 1 .. n
    BY LenProperties
  <2>7. at.obj > n /\ at.obj \in Nat
    BY <2>1, <2>2, <2>4, <2>5, <2>6 DEF AtEnd, Places
  <2>8. \A i \in 1 .. n : p[i] \in done
    BY <1>1, <2>2, <2>5, <2>6, <2>7 DEF Behind
  <2>9. InSpaces(new) = ToSet(p)
    BY <2>3, <2>5 DEF InSpaces
  <2>10. InSpaces(new) \subseteq done
    BY <2>6, <2>8, <2>9 DEF ToSet
  <2>11. QED
    BY <2>1, <2>10 DEF Missed
<1>2. IInv /\ [Next]_vars => [GcEnd /\ Len(new) = 1 => stale' = {}]_vars
  BY <1>1
<1>3. QED
  BY <1>2, Invariance, PTL DEF Spec, OneSpaceUpToDate

\* The space that gcalloc adds has room for the object that it is added for,
\* unless minspace is within a tag of its size: one step of its loop is enough.
THEOREM GrownIsEnough == Spec => GrowsEnough
<1>1. ASSUME IInv, GcallocGrows, ~WithinTag PROVE Fits(Last(new'), request.size)
  <2>1. /\ request # None /\ minspace' = Raised(minspace, request.size)
        /\ new' = Append(new, Space(minspace'))
    BY <1>1 DEF GcallocGrows
  <2>2. minspace \in Nat /\ request.size \in Nat /\ TagSize \in Nat /\ Spaces(new, sizes)
    BY <1>1, SizeAssumption DEF IInv, Types
  <2>3. PICK m \in Nat : m = minspace'
    BY <2>1, <2>2, RaisedNat
  <2>4. request.size <= m
    BY <1>1, <2>1, <2>2, <2>3 DEF WithinTag, Raised
  <2>5. Last(new') = Space(m)
    BY <2>1, <2>2, <2>3, SpacesNew
  <2>6. PICK sp : sp = Space(m)
    OBVIOUS
  <2>7. Used(sp) = 0 /\ sp.cap = m
    BY <2>6, UsedIs, UsedNone DEF Space
  <2>8. Fits(sp, request.size)
    BY <2>2, <2>3, <2>4, <2>7 DEF Fits
  <2>9. QED
    BY <2>5, <2>6, <2>8
<1>2. IInv /\ [Next]_vars => [GcallocGrows /\ ~WithinTag => Fits(Last(new'), request.size)]_vars
  BY <1>1
<1>3. QED
  BY <1>2, Invariance, PTL DEF Spec, GrowsEnough

=============================================================================
