----------------------------- MODULE Fds_proofs -----------------------------
(***************************************************************************)
(* Proofs about Fds, for every setup that is Careful and every depth.      *)
(*                                                                         *)
(* What the operations noted on deftab would do is said without performing *)
(* them (Means): a number gets the file of the last operation on it, or,   *)
(* if there is none, what the kernel's table has there, less the numbers   *)
(* that the shell holds for itself.  That is what the program asked for,   *)
(* in every state; performing one operation, whoever has to give way to    *)
(* it, keeps it (DodeferredKeeps, MeansNext), so remapfds ends with it,    *)
(* and so does each child.  The rest of the invariant is what this needs:  *)
(* the numbers held are open and different (Sound); the operations belong  *)
(* to the commands that run, in order, and each command knows what its     *)
(* number was before (Tied); nothing is noted where redirections are done  *)
(* at once (Direct); the number of a pipe's name is open and nobody        *)
(* else's (Named); and there is always a descriptor left (Few).            *)
(***************************************************************************)
EXTENDS Fds, FiniteSetTheorems, SequenceTheorems, WellFoundedInduction, TLAPS

-----------------------------------------------------------------------------
(* Counting the descriptors that are open. *)

\* A set of numbers has a least one.
LEMMA LeastOf ==
  ASSUME NEW S, S \subseteq Nat, S # {}
  PROVE  \E j \in S : \A l \in S : j <= l
<1>1. PICK j \in S : \A l \in S : <<l, j>> \notin OpToRel(<, Nat)
  BY NatLessThanWellFounded, WFMin, Zenon
<1>2. \A l \in S : ~(l < j)
  BY <1>1 DEF OpToRel
<1>3. QED
  BY <1>2

OpenIn(t) == {n \in Fd : t[n] # Closed}

\* So many descriptors may be opened, and one is still free.
Room(t, k) == Cardinality(OpenIn(t)) + k <= 9 + MaxDepth

LowOpen(t) == \A n \in 0 .. 2 : t[n] # Closed

\* There are ten more descriptors than nested constructs.
LEMMA FdCount ==
  /\ MaxDepth \in Nat /\ MaxFd = 9 + MaxDepth /\ Fd \subseteq Nat
  /\ IsFiniteSet(Fd) /\ Cardinality(Fd) = 10 + MaxDepth
<1>1. MaxDepth \in Nat /\ MaxFd = 9 + MaxDepth
  BY BoundAssumption DEF MaxFd
<1>2. PICK a \in Int, b \in Int : a = 0 /\ b = MaxFd
  BY <1>1
<1>3. IsFiniteSet(a .. b) /\ Cardinality(a .. b) = IF a > b THEN 0 ELSE b - a + 1
  BY ONLY a \in Int, b \in Int, FS_Interval
<1>4. Fd = a .. b
  BY <1>2 DEF Fd
<1>5. QED
  BY <1>1, <1>2, <1>3, <1>4

\* The open ones are a finite set.
LEMMA OpenFinite ==
  ASSUME NEW t
  PROVE  IsFiniteSet(OpenIn(t)) /\ Cardinality(OpenIn(t)) \in Nat
<1>1. OpenIn(t) \in SUBSET Fd
  BY DEF OpenIn
<1>2. IsFiniteSet(OpenIn(t))
  BY <1>1, FdCount, FS_Subset
<1>3. QED
  BY <1>2, FS_CardinalityType

\* The kernel has a descriptor left, and it is none of 0, 1 and 2.
LEMMA FreeIs ==
  ASSUME NEW t, LowOpen(t), Room(t, 0)
  PROVE  Free(t) \in Fd /\ Free(t) >= 3 /\ t[Free(t)] = Closed
<1>. DEFINE S == {n \in Fd : t[n] = Closed}
<1>1. S # {}
  <2>. SUFFICES ASSUME S = {} PROVE FALSE
    OBVIOUS
  <2>1. OpenIn(t) = Fd
    BY DEF OpenIn
  <2>2. QED
    BY <2>1, FdCount DEF Room
<1>2. S \subseteq Nat /\ S \subseteq Fd
  BY FdCount
<1>3. PICK n \in S : \A m \in S : n <= m
  <2>. HIDE DEF S
  <2>1. QED
    BY <1>1, <1>2, LeastOf
<1>4. n \in Fd /\ t[n] = Closed /\ \A m \in 0 .. n - 1 : t[m] # Closed
  <2>1. n \in Fd /\ t[n] = Closed /\ n \in Nat
    BY <1>2
  <2>2. ASSUME NEW m \in 0 .. n - 1 PROVE t[m] # Closed
    <3>1. m \in Fd /\ m < n
      BY <2>1, FdCount DEF Fd
    <3>2. QED
      BY <1>3, <3>1
  <2>3. QED
    BY <2>1, <2>2
<1>5. Free(t) \in Fd /\ t[Free(t)] = Closed
  BY <1>4 DEF Free
<1>6. PICK f : f = Free(t)
  OBVIOUS
<1>7. f \in Nat /\ f \notin 0 .. 2
  BY <1>5, <1>6, FdCount DEF LowOpen
<1>8. QED
  BY <1>5, <1>6, <1>7

\* One more descriptor is open, at most.
LEMMA RoomMore ==
  ASSUME NEW t, NEW u, NEW n \in Fd, OpenIn(u) \subseteq OpenIn(t) \cup {n}, NEW k \in Int,
         Room(t, k + 1)
  PROVE  Room(u, k)
<1>1. PICK A : A = OpenIn(t)
  OBVIOUS
<1>2. PICK B : B = OpenIn(u)
  OBVIOUS
<1>3. IsFiniteSet(A) /\ Cardinality(A) \in Nat /\ Cardinality(B) \in Nat
  BY <1>1, <1>2, OpenFinite
<1>4. PICK D : D = A \cup {n}
  OBVIOUS
<1>5. /\ IsFiniteSet(D) /\ Cardinality(D) \in Nat
      /\ Cardinality(D) = IF n \in A THEN Cardinality(A) ELSE Cardinality(A) + 1
  BY <1>3, <1>4, FS_AddElement, FS_CardinalityType
<1>6. B \in SUBSET D
  BY <1>1, <1>2, <1>4
<1>7. Cardinality(B) <= Cardinality(D)
  BY <1>5, <1>6, FS_Subset
<1>8. QED
  BY <1>1, <1>2, <1>3, <1>5, <1>7, FdCount DEF Room

\* No more descriptors are open.
LEMMA RoomSame ==
  ASSUME NEW t, NEW u, OpenIn(u) \subseteq OpenIn(t), NEW k \in Int, Room(t, k)
  PROVE  Room(u, k)
<1>1. PICK A : A = OpenIn(t)
  OBVIOUS
<1>2. PICK B : B = OpenIn(u)
  OBVIOUS
<1>3. IsFiniteSet(A) /\ Cardinality(A) \in Nat /\ Cardinality(B) \in Nat
  BY <1>1, <1>2, OpenFinite
<1>4. B \in SUBSET A
  BY <1>1, <1>2
<1>5. Cardinality(B) <= Cardinality(A)
  BY <1>3, <1>4, FS_Subset
<1>6. QED
  BY <1>1, <1>2, <1>3, <1>5, FdCount DEF Room

\* One is opened and another one closed.
LEMMA RoomSwap ==
  ASSUME NEW t, NEW u, NEW m \in Fd, NEW n \in OpenIn(t), NEW k \in Int, Room(t, k),
         OpenIn(u) \subseteq (OpenIn(t) \ {n}) \cup {m}
  PROVE  Room(u, k)
<1>1. PICK A : A = OpenIn(t)
  OBVIOUS
<1>2. PICK B : B = OpenIn(u)
  OBVIOUS
<1>3. IsFiniteSet(A) /\ Cardinality(A) \in Nat /\ Cardinality(B) \in Nat
  BY <1>1, <1>2, OpenFinite
<1>4. PICK C : C = A \ {n}
  OBVIOUS
<1>5. IsFiniteSet(C) /\ Cardinality(C) = Cardinality(A) - 1
  BY <1>1, <1>3, <1>4, FS_RemoveElement
<1>6. PICK D : D = C \cup {m}
  OBVIOUS
<1>7. /\ IsFiniteSet(D) /\ Cardinality(D) \in Nat
      /\ Cardinality(D) = IF m \in C THEN Cardinality(C) ELSE Cardinality(C) + 1
  BY <1>5, <1>6, FS_AddElement, FS_CardinalityType
<1>8. B \in SUBSET D
  BY <1>1, <1>2, <1>4, <1>6
<1>9. Cardinality(B) <= Cardinality(D)
  BY <1>7, <1>8, FS_Subset
<1>10. QED
  BY <1>1, <1>2, <1>3, <1>5, <1>7, <1>9, FdCount DEF Room

-----------------------------------------------------------------------------
(* What deferred operations mean. *)

Holds(r, n) == \E k \in DOMAIN r : r[k] = n

FileOf(t, n) == IF n = -1 THEN Closed ELSE t[n]

Base(t, r, n) == IF n >= 3 /\ Holds(r, n) THEN Closed ELSE t[n]

LastOf(d, i, hi, u) == d[i] = u /\ \A j \in i + 1 .. hi : d[j] # u

Gets(f, t, r, d, lo, hi, u) ==
  /\ \A i \in lo .. hi : LastOf(d, i, hi, u) => f = FileOf(t, r[i])
  /\ (\A i \in lo .. hi : d[i] # u) => f = Base(t, r, u)

Means(v, t, r, d, lo, hi) == \A n \in Fd : Gets(v[n], t, r, d, lo, hi, n)

Sound(t, r) ==
  /\ t \in [Fd -> Files] /\ LowOpen(t)
  /\ r = [k \in DOMAIN r |-> r[k]]
  /\ \A k \in DOMAIN r : /\ r[k] \in Fd \cup {-1}
                         /\ r[k] # -1 => t[r[k]] # Closed /\ (r[k] >= 3 \/ k = Input)
  /\ \A k, l \in DOMAIN r : r[k] = r[l] /\ r[k] # -1 => k = l

Targets(r, d, lo, hi) ==
  \A i \in lo .. hi : i \in DOMAIN r /\ d[i] \in Fd /\ (r[i] = -1 => d[i] > 2)

\* A number that is open and not registered, or -1.
Unheld(t, r, real) ==
  real = -1 \/ (real \in Fd /\ real >= 3 /\ t[real] # Closed /\ ~Holds(r, real))

\* dodeferred, if the user's number is not registered.
Stays(t, r, real, u, t2, r2) ==
  /\ ~Holds(r, u) /\ r2 = r /\ t2 \in [Fd -> Files]
  /\ \A n \in Fd : t2[n] = IF n = u THEN FileOf(t, real) ELSE IF n = real THEN Closed ELSE t[n]

\* And if it is, so that k gets another one, m.
Gives(t, r, real, u, k, m, t2, r2) ==
  /\ k \in DOMAIN r /\ r[k] = u /\ r2 = [r EXCEPT ![k] = m] /\ t2 \in [Fd -> Files]
  /\ m \in Fd /\ m >= 3 /\ t[m] = Closed /\ m # u /\ m # real /\ u # real
  /\ \A n \in Fd : t2[n] = IF n = u THEN FileOf(t, real) ELSE IF n = real THEN Closed
                           ELSE IF n = m THEN t[u] ELSE t[n]

Done(t, r, real, u, t2, r2) ==
  Stays(t, r, real, u, t2, r2) \/ \E k, m : Gives(t, r, real, u, k, m, t2, r2)

\* dodeferred.
LEMMA DodeferredIs ==
  ASSUME NEW t, NEW r, Sound(t, r), Room(t, 0), NEW u \in Fd, NEW real, Unheld(t, r, real)
  PROVE  \E t2, r2 : /\ Dodeferred([table |-> t, reserved |-> r], real, u)
                          = [table |-> t2, reserved |-> r2]
                     /\ Done(t, r, real, u, t2, r2)
<1>. DEFINE s == [table |-> t, reserved |-> r]
<1>1. t \in [Fd -> Files] /\ LowOpen(t) /\ Closed \in Files
  <2>1. Closed \in Files
    BY FdCount DEF Closed, Files
  <2>2. QED
    BY <2>1 DEF Sound
<1>2. real \in Fd \cup {-1} /\ -1 \notin Fd
  BY FdCount DEF Unheld
<1>3. CASE ~Holds(r, u)
  <2>1. Releasefd(s, u) = s
    BY <1>3 DEF Releasefd, Holds
  <2>. DEFINE T == IF real = -1 THEN Close(t, u) ELSE Mvfd(t, real, u)
  <2>2. Dodeferred(s, real, u) = [table |-> T, reserved |-> r]
    BY <2>1 DEF Dodeferred
  <2>3. CASE real = -1
    <3>1. T = [t EXCEPT ![u] = Closed]
      BY <2>3 DEF Close
    <3>2. T \in [Fd -> Files] /\ \A n \in Fd : T[n] = IF n = u THEN Closed ELSE t[n]
      BY <1>1, <3>1
    <3>3. Stays(t, r, real, u, T, r)
      BY <1>2, <1>3, <2>3, <3>2 DEF Stays, FileOf
    <3>4. QED
      BY <2>2, <3>3 DEF Done
  <2>4. CASE real # -1 /\ real = u
    <3>1. T = t
      BY <2>4 DEF Mvfd
    <3>2. Stays(t, r, real, u, T, r)
      BY <1>1, <1>3, <2>4, <3>1 DEF Stays, FileOf
    <3>3. QED
      BY <2>2, <3>2 DEF Done
  <2>5. CASE real # -1 /\ real # u
    <3>1. T = [t EXCEPT ![u] = t[real], ![real] = Closed]
      BY <2>5 DEF Mvfd
    <3>2. /\ T \in [Fd -> Files]
          /\ \A n \in Fd : T[n] = IF n = u THEN t[real] ELSE IF n = real THEN Closed ELSE t[n]
      BY <1>1, <1>2, <2>5, <3>1
    <3>3. Stays(t, r, real, u, T, r)
      BY <1>3, <2>5, <3>2 DEF Stays, FileOf
    <3>4. QED
      BY <2>2, <3>3 DEF Done
  <2>6. QED
    BY <2>3, <2>4, <2>5
<1>4. CASE Holds(r, u)
  <2>1. PICK k : k = CHOOSE x \in DOMAIN r : r[x] = u
    OBVIOUS
  <2>2. k \in DOMAIN r /\ r[k] = u
    BY <1>4, <2>1 DEF Holds
  <2>3. PICK m : m = Free(t) /\ m \in Fd /\ m >= 3 /\ t[m] = Closed
    BY <1>1, FreeIs
  <2>4. t[u] # Closed /\ m # u
    BY <1>2, <2>2, <2>3 DEF Sound
  <2>5. m # real /\ u # real
    BY <1>2, <1>4, <2>3 DEF Unheld
  <2>. DEFINE r2 == [r EXCEPT ![k] = m]
              Q == [[t EXCEPT ![m] = t[u]] EXCEPT ![u] = Closed]
              T == IF real = -1 THEN Close(Q, u) ELSE Mvfd(Q, real, u)
  <2>6. Releasefd(s, u) = [table |-> Q, reserved |-> r2]
    <3>1. Releasefd(s, u)
            = [table    |-> Close(Open(t, t[u]), u),
               reserved |-> [r EXCEPT ![CHOOSE x \in DOMAIN r : r[x] = u] = Free(t)]]
      BY <1>4 DEF Releasefd, Holds
    <3>2. Close(Open(t, t[u]), u) = Q
      BY <2>3 DEF Close, Open
    <3>3. QED
      BY <2>1, <2>3, <3>1, <3>2
  <2>7. Dodeferred(s, real, u) = [table |-> T, reserved |-> r2]
    <3>. HIDE DEF Q, r2
    <3>1. PICK q : q = [table |-> Q, reserved |-> r2]
      OBVIOUS
    <3>2. Dodeferred(s, real, u) = [q EXCEPT !.table = IF real = -1 THEN Close(q.table, u)
                                                       ELSE Mvfd(q.table, real, u)]
      BY <2>6, <3>1, Zenon DEF Dodeferred
    <3>3. q.table = Q /\ [q EXCEPT !.table = T] = [table |-> T, reserved |-> r2]
      BY <3>1
    <3>4. QED
      BY <3>2, <3>3, Zenon
  <2>8. /\ Q \in [Fd -> Files]
        /\ \A n \in Fd : Q[n] = IF n = u THEN Closed ELSE IF n = m THEN t[u] ELSE t[n]
    BY <1>1, <2>3
  <2>9. /\ T \in [Fd -> Files]
        /\ \A n \in Fd : T[n] = IF n = u THEN FileOf(t, real) ELSE IF n = real THEN Closed
                                ELSE IF n = m THEN t[u] ELSE t[n]
    <3>1. CASE real = -1
      <4>. HIDE DEF Q
      <4>1. T = [Q EXCEPT ![u] = Closed]
        BY <3>1 DEF Close
      <4>2. T \in [Fd -> Files] /\ \A n \in Fd : T[n] = IF n = u THEN Closed ELSE Q[n]
        BY <1>1, <2>8, <4>1
      <4>. HIDE DEF T
      <4>3. QED
        BY <1>2, <2>8, <3>1, <4>2 DEF FileOf
    <3>2. CASE real # -1
      <4>. HIDE DEF Q
      <4>1. T = [Q EXCEPT ![u] = Q[real], ![real] = Closed]
        BY <2>5, <3>2 DEF Mvfd
      <4>2. /\ T \in [Fd -> Files]
            /\ \A n \in Fd : T[n] = IF n = real THEN Closed ELSE IF n = u THEN Q[real] ELSE Q[n]
        BY <1>1, <1>2, <2>8, <3>2, <4>1
      <4>3. Q[real] = t[real]
        BY <1>2, <2>5, <2>8, <3>2
      <4>. HIDE DEF T
      <4>4. QED
        BY <2>5, <2>8, <3>2, <4>2, <4>3 DEF FileOf
    <3>3. QED
      BY <3>1, <3>2
  <2>. HIDE DEF T, Q
  <2>10. Gives(t, r, real, u, k, m, T, r2)
    BY <2>2, <2>3, <2>4, <2>5, <2>9 DEF Gives
  <2>11. QED
    BY <2>7, <2>10 DEF Done
<1>5. QED
  BY <1>3, <1>4

\* What dodeferred does, as far as it matters: everything registered has its file,
\* nothing else loses one, and the user's number has the operation's.
SameFiles(t, r, t2, r2) ==
  \A k \in DOMAIN r : (r2[k] = -1 <=> r[k] = -1) /\ FileOf(t2, r2[k]) = FileOf(t, r[k])

Others(t, r, real, u, t2, r2) ==
  \A n \in Fd : n # u /\ n # real /\ t[n] # Closed /\ ~Holds(r, n) => t2[n] = t[n] /\ ~Holds(r2, n)

NewBase(t, r, real, u, t2, r2) ==
  \A n \in Fd : Base(t2, r2, n) = IF n = u THEN FileOf(t, real) ELSE IF n = real THEN Closed
                                  ELSE Base(t, r, n)

Kept(t, r, real, u, t2, r2) ==
  /\ Sound(t2, r2) /\ DOMAIN r2 = DOMAIN r /\ Room(t2, 0)
  /\ SameFiles(t, r, t2, r2) /\ Others(t, r, real, u, t2, r2) /\ NewBase(t, r, real, u, t2, r2)

\* The user's number was not registered.
LEMMA StaysKeeps ==
  ASSUME NEW t, NEW r, Sound(t, r), Room(t, 0), NEW u \in Fd, NEW real, Unheld(t, r, real),
         real = -1 => u > 2, NEW t2, NEW r2, Stays(t, r, real, u, t2, r2)
  PROVE  Kept(t, r, real, u, t2, r2)
<1>1. /\ r2 = r /\ ~Holds(r, u) /\ t2 \in [Fd -> Files]
      /\ \A n \in Fd : t2[n] = IF n = u THEN FileOf(t, real) ELSE IF n = real THEN Closed ELSE t[n]
  BY DEF Stays
<1>2. /\ t \in [Fd -> Files] /\ LowOpen(t)
      /\ real = -1 \/ (real \in Fd /\ real >= 3 /\ t[real] # Closed /\ ~Holds(r, real))
      /\ 0 .. 2 \subseteq Fd /\ -1 \notin Fd
  BY FdCount DEF Sound, Unheld, Fd
<1>3. \A k \in DOMAIN r : r[k] \in Fd \cup {-1} /\ r[k] # u /\ (r[k] # -1 => r[k] # real)
  BY <1>1, <1>2 DEF Sound, Holds
<1>4. \A k \in DOMAIN r : FileOf(t2, r2[k]) = FileOf(t, r[k])
  BY <1>1, <1>2, <1>3 DEF FileOf
<1>5. LowOpen(t2)
  <2>. SUFFICES ASSUME NEW n \in 0 .. 2 PROVE t2[n] # Closed
    BY DEF LowOpen
  <2>1. t[n] # Closed /\ n \in Fd
    BY <1>2 DEF LowOpen
  <2>2. CASE n = u
    BY <1>1, <1>2, <2>1, <2>2 DEF FileOf
  <2>3. CASE n # u
    BY <1>1, <1>2, <2>1, <2>3
  <2>4. QED
    BY <2>2, <2>3
<1>6. Sound(t2, r2)
  <2>1. r2 = [k \in DOMAIN r2 |-> r2[k]]
    BY <1>1 DEF Sound
  <2>2. \A k \in DOMAIN r2 : /\ r2[k] \in Fd \cup {-1}
                             /\ r2[k] # -1 => t2[r2[k]] # Closed /\ (r2[k] >= 3 \/ k = Input)
    BY <1>1, <1>4 DEF Sound, FileOf
  <2>3. \A k, l \in DOMAIN r2 : r2[k] = r2[l] /\ r2[k] # -1 => k = l
    BY <1>1 DEF Sound
  <2>4. QED
    BY <1>1, <1>5, <2>1, <2>2, <2>3 DEF Sound
<1>7. Room(t2, 0)
  <2>1. CASE real = -1
    <3>1. OpenIn(t2) \subseteq OpenIn(t)
      BY <1>1, <1>2, <2>1 DEF OpenIn, FileOf
    <3>2. QED
      BY <3>1, RoomSame
  <2>2. CASE real # -1
    <3>1. real \in OpenIn(t) /\ OpenIn(t2) \subseteq (OpenIn(t) \ {real}) \cup {u}
      BY <1>1, <1>2, <2>2 DEF OpenIn, FileOf
    <3>2. QED
      BY <3>1, RoomSwap
  <2>3. QED
    BY <2>1, <2>2
<1>8. Others(t, r, real, u, t2, r2)
  BY <1>1 DEF Others
<1>9. NewBase(t, r, real, u, t2, r2)
  BY <1>1, <1>2 DEF NewBase, Base
<1>10. SameFiles(t, r, t2, r2)
  BY <1>1, <1>4 DEF SameFiles
<1>11. QED
  BY <1>1, <1>6, <1>7, <1>8, <1>9, <1>10 DEF Kept

\* It was.
LEMMA GivesKeeps ==
  ASSUME NEW t, NEW r, Sound(t, r), Room(t, 0), NEW u \in Fd, NEW real, Unheld(t, r, real),
         real = -1 => u > 2, NEW k, NEW m, NEW t2, NEW r2, Gives(t, r, real, u, k, m, t2, r2)
  PROVE  Kept(t, r, real, u, t2, r2)
<1>1. /\ k \in DOMAIN r /\ r[k] = u /\ r2 = [r EXCEPT ![k] = m] /\ t2 \in [Fd -> Files]
      /\ m \in Fd /\ m >= 3 /\ t[m] = Closed /\ m # u /\ m # real /\ u # real
      /\ \A n \in Fd : t2[n] = IF n = u THEN FileOf(t, real) ELSE IF n = real THEN Closed
                               ELSE IF n = m THEN t[u] ELSE t[n]
  BY DEF Gives
<1>2. /\ t \in [Fd -> Files] /\ LowOpen(t)
      /\ real = -1 \/ (real \in Fd /\ real >= 3 /\ t[real] # Closed /\ ~Holds(r, real))
      /\ 0 .. 2 \subseteq Fd /\ -1 \notin Fd /\ Fd \subseteq Nat
  BY FdCount DEF Sound, Unheld, Fd
<1>3. /\ DOMAIN r2 = DOMAIN r /\ r2[k] = m /\ r2 = [l \in DOMAIN r2 |-> r2[l]]
      /\ \A l \in DOMAIN r : l # k => r2[l] = r[l]
  <2>1. r = [l \in DOMAIN r |-> r[l]]
    BY DEF Sound
  <2>2. QED
    BY <1>1, <2>1
<1>4. \A l \in DOMAIN r : l # k => /\ r[l] \in Fd \cup {-1}
                                   /\ r[l] # -1 => t[r[l]] # Closed /\ r[l] # u /\ r[l] # real
                                                   /\ r[l] # m
  BY <1>1, <1>2 DEF Sound, Holds
<1>5. t[u] # Closed
  BY <1>1, <1>2 DEF Sound
<1>6. \A l \in DOMAIN r : FileOf(t2, r2[l]) = FileOf(t, r[l]) /\ (r2[l] = -1 <=> r[l] = -1)
  <2>. SUFFICES ASSUME NEW l \in DOMAIN r
                PROVE  FileOf(t2, r2[l]) = FileOf(t, r[l]) /\ (r2[l] = -1 <=> r[l] = -1)
    OBVIOUS
  <2>1. CASE l = k
    BY <1>1, <1>2, <1>3, <2>1 DEF FileOf
  <2>2. CASE l # k
    BY <1>1, <1>3, <1>4, <2>2 DEF FileOf
  <2>3. QED
    BY <2>1, <2>2
<1>7. LowOpen(t2)
  <2>. SUFFICES ASSUME NEW n \in 0 .. 2 PROVE t2[n] # Closed
    BY DEF LowOpen
  <2>1. t[n] # Closed /\ n \in Fd /\ n # m
    BY <1>1, <1>2 DEF LowOpen
  <2>2. CASE n = u
    BY <1>1, <1>2, <2>1, <2>2 DEF FileOf
  <2>3. CASE n # u
    BY <1>1, <1>2, <2>1, <2>3
  <2>4. QED
    BY <2>2, <2>3
<1>8. Sound(t2, r2)
  <2>1. ASSUME NEW l \in DOMAIN r2
        PROVE  /\ r2[l] \in Fd \cup {-1}
               /\ r2[l] # -1 => t2[r2[l]] # Closed /\ (r2[l] >= 3 \/ l = Input)
    <3>1. CASE l = k
      BY <1>1, <1>2, <1>3, <1>5, <3>1
    <3>2. CASE l # k
      <4>1. r2[l] = r[l] /\ l \in DOMAIN r
        BY <1>3, <3>2
      <4>2. r[l] # -1 => r[l] >= 3 \/ l = Input
        BY <4>1 DEF Sound
      <4>3. r[l] # -1 => t2[r[l]] = t[r[l]]
        BY <1>1, <1>4, <3>2, <4>1
      <4>4. QED
        BY <1>4, <3>2, <4>1, <4>2, <4>3
    <3>3. QED
      BY <3>1, <3>2
  <2>2. ASSUME NEW l \in DOMAIN r2, NEW j \in DOMAIN r2, r2[l] = r2[j], r2[l] # -1 PROVE l = j
    <3>1. l = k /\ j # k => FALSE
      BY <1>3, <1>4, <2>2
    <3>2. j = k /\ l # k => FALSE
      BY <1>3, <1>4, <2>2
    <3>3. l # k /\ j # k => l = j
      BY <1>3, <2>2 DEF Sound
    <3>4. QED
      BY <3>1, <3>2, <3>3
  <2>3. QED
    BY <1>1, <1>3, <1>7, <2>1, <2>2 DEF Sound
<1>9. Room(t2, 0)
  <2>1. u \in OpenIn(t)
    BY <1>5 DEF OpenIn
  <2>2. CASE real = -1
    <3>1. OpenIn(t2) \subseteq (OpenIn(t) \ {u}) \cup {m}
      BY <1>1, <1>2, <2>2 DEF OpenIn, FileOf
    <3>2. QED
      BY <1>1, <2>1, <3>1, RoomSwap
  <2>3. CASE real # -1
    <3>1. real \in OpenIn(t) /\ OpenIn(t2) \subseteq (OpenIn(t) \ {real}) \cup {m}
      BY <1>1, <1>2, <1>5, <2>3 DEF OpenIn, FileOf
    <3>2. QED
      BY <1>1, <3>1, RoomSwap
  <2>4. QED
    BY <2>2, <2>3
<1>10. \A n \in Fd : Holds(r2, n) <=> n = m \/ (Holds(r, n) /\ n # u)
  <2>. SUFFICES ASSUME NEW n \in Fd PROVE Holds(r2, n) <=> n = m \/ (Holds(r, n) /\ n # u)
    OBVIOUS
  <2>1. ASSUME Holds(r2, n) PROVE n = m \/ (Holds(r, n) /\ n # u)
    <3>1. PICK l \in DOMAIN r : r2[l] = n
      BY <1>3, <2>1 DEF Holds
    <3>2. QED
      BY <1>2, <1>3, <1>4, <3>1 DEF Holds
  <2>2. ASSUME Holds(r, n), n # u PROVE Holds(r2, n)
    <3>1. PICK l \in DOMAIN r : r[l] = n
      BY <2>2 DEF Holds
    <3>2. l # k
      BY <1>1, <2>2, <3>1
    <3>3. QED
      BY <1>3, <3>1, <3>2 DEF Holds
  <2>3. Holds(r2, m)
    BY <1>1, <1>3 DEF Holds
  <2>4. QED
    BY <2>1, <2>2, <2>3
<1>11. Others(t, r, real, u, t2, r2)
  BY <1>1, <1>10 DEF Others
<1>12. ~Holds(r, m)
  BY <1>1, <1>2 DEF Sound, Holds
<1>13. NewBase(t, r, real, u, t2, r2)
  <2>. SUFFICES ASSUME NEW n \in Fd
                PROVE  Base(t2, r2, n) = IF n = u THEN FileOf(t, real) ELSE IF n = real THEN Closed
                                         ELSE Base(t, r, n)
    BY DEF NewBase
  <2>1. CASE n = u
    BY <1>1, <1>10, <2>1 DEF Base
  <2>2. CASE n = real /\ n # u
    BY <1>1, <2>2 DEF Base
  <2>3. CASE n = m
    BY <1>1, <1>10, <1>12, <2>3 DEF Base
  <2>4. CASE n # u /\ n # real /\ n # m
    BY <1>1, <1>10, <2>4 DEF Base
  <2>5. QED
    BY <1>1, <2>1, <2>2, <2>3, <2>4
<1>14. SameFiles(t, r, t2, r2)
  BY <1>6 DEF SameFiles
<1>15. QED
  BY <1>3, <1>8, <1>9, <1>11, <1>13, <1>14 DEF Kept

\* dodeferred.
LEMMA DodeferredKeeps ==
  ASSUME NEW t, NEW r, Sound(t, r), Room(t, 0), NEW u \in Fd, NEW real, Unheld(t, r, real),
         real = -1 => u > 2
  PROVE  \E t2, r2 : /\ Dodeferred([table |-> t, reserved |-> r], real, u)
                          = [table |-> t2, reserved |-> r2]
                     /\ Kept(t, r, real, u, t2, r2)
<1>1. PICK t2, r2 : /\ Dodeferred([table |-> t, reserved |-> r], real, u)
                         = [table |-> t2, reserved |-> r2]
                    /\ Done(t, r, real, u, t2, r2)
  BY DodeferredIs
<1>2. Kept(t, r, real, u, t2, r2)
  BY <1>1, StaysKeeps, GivesKeeps DEF Done
<1>3. QED
  BY <1>1, <1>2

\* All registered numbers but k's.
Without(r2, r, k) ==
  /\ DOMAIN r2 = DOMAIN r \ {k} /\ r2 = [j \in DOMAIN r2 |-> r2[j]]
  /\ \A j \in DOMAIN r2 : r2[j] = r[j]

\* An operation that is performed is not registered any more.
LEMMA WithoutKeeps ==
  ASSUME NEW t, NEW r, Sound(t, r), NEW k \in DOMAIN r, k # Input, NEW r2, Without(r2, r, k)
  PROVE  /\ Sound(t, r2) /\ Unheld(t, r2, r[k])
         /\ \A n \in Fd : n # r[k] => Base(t, r2, n) = Base(t, r, n)
<1>1. /\ DOMAIN r2 = DOMAIN r \ {k} /\ r2 = [j \in DOMAIN r2 |-> r2[j]]
      /\ \A j \in DOMAIN r2 : r2[j] = r[j]
  BY DEF Without
<1>2. Sound(t, r2)
  BY <1>1 DEF Sound
<1>3. Unheld(t, r2, r[k])
  BY <1>1 DEF Sound, Unheld, Holds
<1>4. ASSUME NEW n \in Fd, n # r[k] PROVE Base(t, r2, n) = Base(t, r, n)
  <2>1. Holds(r2, n) <=> Holds(r, n)
    BY <1>1, <1>4 DEF Holds
  <2>2. QED
    BY <2>1 DEF Base
<1>5. QED
  BY <1>2, <1>3, <1>4

\* The first operation is performed: the others mean the same afterwards.
LEMMA MeansNext ==
  ASSUME NEW t, NEW r, Sound(t, r), NEW d, NEW lo \in Int, NEW hi \in Int, lo <= hi,
         lo # Input, Targets(r, d, lo, hi), NEW r1, Without(r1, r, lo),
         NEW t2, NEW r2, Kept(t, r1, r[lo], d[lo], t2, r2), NEW v, Means(v, t, r, d, lo, hi)
  PROVE  Means(v, t2, r2, d, lo + 1, hi)
<1>1. lo \in lo .. hi /\ lo \in DOMAIN r /\ d[lo] \in Fd
  BY DEF Targets
<1>2. DOMAIN r1 = DOMAIN r \ {lo} /\ \A j \in DOMAIN r1 : r1[j] = r[j]
  BY DEF Without
<1>3. /\ SameFiles(t, r1, t2, r2) /\ NewBase(t, r1, r[lo], d[lo], t2, r2)
  BY DEF Kept
<1>4. \A n \in Fd : n # r[lo] => Base(t, r1, n) = Base(t, r, n)
  BY <1>1, WithoutKeeps
<1>. SUFFICES ASSUME NEW n \in Fd PROVE Gets(v[n], t2, r2, d, lo + 1, hi, n)
  BY DEF Means
<1>5. Gets(v[n], t, r, d, lo, hi, n)
  BY DEF Means
<1>6. ASSUME NEW i \in lo + 1 .. hi, LastOf(d, i, hi, n) PROVE v[n] = FileOf(t2, r2[i])
  <2>1. i \in lo .. hi /\ i # lo
    OBVIOUS
  <2>2. v[n] = FileOf(t, r[i])
    BY <1>5, <1>6, <2>1 DEF Gets
  <2>3. i \in DOMAIN r1 /\ r1[i] = r[i]
    BY <1>2, <2>1 DEF Targets
  <2>4. QED
    BY <1>3, <2>2, <2>3 DEF SameFiles
<1>7. ASSUME \A i \in lo + 1 .. hi : d[i] # n PROVE v[n] = Base(t2, r2, n)
  <2>1. CASE n = d[lo]
    <3>1. LastOf(d, lo, hi, n)
      BY <1>7, <2>1 DEF LastOf
    <3>2. v[n] = FileOf(t, r[lo])
      BY <1>1, <1>5, <3>1 DEF Gets
    <3>3. QED
      BY <1>3, <2>1, <3>2 DEF NewBase
  <2>2. CASE n # d[lo]
    <3>1. \A i \in lo .. hi : d[i] # n
      <4>. SUFFICES ASSUME NEW i \in lo .. hi PROVE d[i] # n
        OBVIOUS
      <4>1. i = lo \/ i \in lo + 1 .. hi
        OBVIOUS
      <4>2. QED
        BY <1>7, <2>2, <4>1
    <3>2. v[n] = Base(t, r, n)
      BY <1>5, <3>1 DEF Gets
    <3>3. CASE n = r[lo]
      <4>1. Holds(r, n) /\ n >= 3
        BY <1>1, <3>3, FdCount DEF Holds, Sound
      <4>2. v[n] = Closed
        BY <3>2, <4>1 DEF Base
      <4>3. QED
        BY <1>3, <2>2, <3>3, <4>2 DEF NewBase
    <3>4. CASE n # r[lo]
      BY <1>3, <1>4, <2>2, <3>2, <3>4 DEF NewBase
    <3>5. QED
      BY <3>3, <3>4
  <2>3. QED
    BY <2>1, <2>2
<1>8. QED
  BY <1>6, <1>7 DEF Gets

\* All is well with operations lo to hi, which make v of what is open.
Ready(v, t, r, lo, hi) ==
  /\ Sound(t, r) /\ Room(t, 0) /\ Targets(r, deftab, lo, hi) /\ Means(v, t, r, deftab, lo, hi)

\* Every number registered in the second state has its file.
Same(t, r, t2, r2) == \A k \in DOMAIN r2 : k \in DOMAIN r /\ FileOf(t2, r2[k]) = FileOf(t, r[k])

\* remapfds, one step.
LEMMA PerformKeeps ==
  ASSUME NEW v, NEW t, NEW r, NEW lo \in Nat \ {0}, NEW hi \in Nat, lo <= hi, Ready(v, t, r, lo, hi)
  PROVE  \E t2, r2 : /\ Perform([table |-> t, reserved |-> r], lo) = [table |-> t2, reserved |-> r2]
                     /\ Ready(v, t2, r2, lo + 1, hi) /\ DOMAIN r2 = DOMAIN r \ {lo}
                     /\ Same(t, r, t2, r2)
<1>1. /\ lo \in DOMAIN r /\ deftab[lo] \in Fd /\ (r[lo] = -1 => deftab[lo] > 2) /\ lo # Input
      /\ Sound(t, r) /\ Room(t, 0) /\ Targets(r, deftab, lo, hi) /\ Means(v, t, r, deftab, lo, hi)
  BY DEF Ready, Targets, Input
<1>2. PICK r1 : r1 = Restrict(r, DOMAIN r \ {lo})
  OBVIOUS
<1>3. Without(r1, r, lo)
  BY <1>2 DEF Without, Restrict
<1>4. Perform([table |-> t, reserved |-> r], lo)
        = Dodeferred([table |-> t, reserved |-> r1], r[lo], deftab[lo])
  BY <1>2 DEF Perform, Unregister
<1>5. Sound(t, r1) /\ Unheld(t, r1, r[lo])
  BY <1>1, <1>3, WithoutKeeps
<1>6. PICK t2, r2 : /\ Dodeferred([table |-> t, reserved |-> r1], r[lo], deftab[lo])
                         = [table |-> t2, reserved |-> r2]
                    /\ Kept(t, r1, r[lo], deftab[lo], t2, r2)
  BY <1>1, <1>5, DodeferredKeeps
<1>7. /\ Sound(t2, r2) /\ DOMAIN r2 = DOMAIN r \ {lo} /\ Room(t2, 0) /\ SameFiles(t, r1, t2, r2)
      /\ \A j \in DOMAIN r2 : r1[j] = r[j]
  BY <1>3, <1>6 DEF Kept, Without
<1>8. Means(v, t2, r2, deftab, lo + 1, hi)
  <2>1. lo \in Int /\ hi \in Int
    OBVIOUS
  <2>2. QED
    BY <1>1, <1>3, <1>6, <2>1, MeansNext
<1>9. Same(t, r, t2, r2)
  BY <1>3, <1>7 DEF Same, SameFiles, Without
<1>10. Targets(r2, deftab, lo + 1, hi)
  <2>. SUFFICES ASSUME NEW i \in lo + 1 .. hi
                PROVE  i \in DOMAIN r2 /\ deftab[i] \in Fd /\ (r2[i] = -1 => deftab[i] > 2)
    BY DEF Targets
  <2>1. i \in lo .. hi /\ i # lo
    OBVIOUS
  <2>2. i \in DOMAIN r2 /\ deftab[i] \in Fd /\ (r[i] = -1 => deftab[i] > 2)
    BY <1>1, <1>7, <2>1 DEF Targets
  <2>3. r2[i] = -1 => r[i] = -1
    BY <1>3, <1>7, <2>2 DEF SameFiles, Without
  <2>4. QED
    BY <2>2, <2>3
<1>11. Ready(v, t2, r2, lo + 1, hi)
  BY <1>7, <1>8, <1>10 DEF Ready
<1>12. QED
  BY <1>4, <1>6, <1>7, <1>9, <1>11

-----------------------------------------------------------------------------
(* remapfds and closefds. *)

\* The states that performing the first n operations goes through.
Steps(g, s, n) == g = [i \in 0 .. n |-> IF i = 0 THEN s ELSE Perform(g[i - 1], i)]

\* One operation more.
LEMMA StepsMore ==
  ASSUME NEW s, NEW n \in Nat, NEW g, Steps(g, s, n)
  PROVE  \E e : Steps(e, s, n + 1)
<1>. DEFINE e == [i \in 0 .. n + 1 |-> IF i = n + 1 THEN Perform(g[n], n + 1) ELSE g[i]]
<1>1. g[0] = s /\ \A i \in 1 .. n : g[i] = Perform(g[i - 1], i)
  BY DEF Steps
<1>2. \A i \in 0 .. n + 1 : e[i] = IF i = 0 THEN s ELSE Perform(e[i - 1], i)
  <2>. SUFFICES ASSUME NEW i \in 0 .. n + 1
                PROVE  e[i] = IF i = 0 THEN s ELSE Perform(e[i - 1], i)
    OBVIOUS
  <2>1. CASE i = 0
    BY <2>1, <1>1
  <2>2. CASE i = n + 1
    <3>1. e[i] = Perform(g[n], i) /\ e[n] = g[n] /\ i - 1 = n
      BY <2>2
    <3>2. QED
      BY <2>2, <3>1
  <2>3. CASE i \in 1 .. n
    <3>1. e[i] = g[i] /\ e[i - 1] = g[i - 1]
      BY <2>3
    <3>2. QED
      BY <2>3, <3>1, <1>1
  <2>4. QED
    BY <2>1, <2>2, <2>3
<1>3. e = [i \in 0 .. n + 1 |-> e[i]]
  OBVIOUS
<1>. HIDE DEF e
<1>4. e = [i \in 0 .. n + 1 |-> IF i = 0 THEN s ELSE Perform(e[i - 1], i)]
  BY <1>2, <1>3
<1>5. QED
  BY <1>4 DEF Steps

\* Any number of operations can be performed.
LEMMA StepsExist ==
  ASSUME NEW s, NEW n \in Nat
  PROVE  \E g : Steps(g, s, n)
<1>. DEFINE Bad == {m \in Nat : ~\E g : Steps(g, s, m)}
<1>1. SUFFICES ASSUME Bad # {} PROVE FALSE
  OBVIOUS
<1>2. PICK m \in Bad : \A l \in Bad : m <= l
  BY <1>1, LeastOf
<1>3. m \in Nat /\ ~\E g : Steps(g, s, m)
  OBVIOUS
<1>4. m # 0
  <2>1. Steps([i \in 0 .. 0 |-> s], s, 0)
    BY DEF Steps
  <2>2. QED
    BY <1>3, <2>1
<1>5. m - 1 \in Nat /\ m - 1 \notin Bad
  BY <1>2, <1>3, <1>4
<1>6. PICK g : Steps(g, s, m - 1)
  BY <1>5
<1>7. \E e : Steps(e, s, (m - 1) + 1)
  BY <1>5, <1>6, StepsMore
<1>8. (m - 1) + 1 = m
  BY <1>3
<1>9. QED
  BY <1>3, <1>7, <1>8

\* Where remapfds is after the first i of n operations, from t and r.
Reached(q, v, t, r, i, n) ==
  \E t2, r2 : /\ q = [table |-> t2, reserved |-> r2]
              /\ Ready(v, t2, r2, i + 1, n) /\ DOMAIN r2 = DOMAIN r \ (1 .. i)
              /\ Same(t, r, t2, r2)

\* One step further.
LEMMA ReachedNext ==
  ASSUME NEW q, NEW v, NEW t, NEW r, NEW i \in Nat, NEW n \in Nat, i < n, Reached(q, v, t, r, i, n)
  PROVE  Reached(Perform(q, i + 1), v, t, r, i + 1, n)
<1>1. PICK t1, r1 : /\ q = [table |-> t1, reserved |-> r1]
                    /\ Ready(v, t1, r1, i + 1, n) /\ DOMAIN r1 = DOMAIN r \ (1 .. i)
                    /\ Same(t, r, t1, r1)
  BY DEF Reached
<1>2. PICK lo \in Nat \ {0} : lo = i + 1
  OBVIOUS
<1>3. lo <= n /\ Ready(v, t1, r1, lo, n)
  BY <1>1, <1>2
<1>4. PICK t2, r2 : /\ Perform([table |-> t1, reserved |-> r1], lo)
                         = [table |-> t2, reserved |-> r2]
                    /\ Ready(v, t2, r2, lo + 1, n) /\ DOMAIN r2 = DOMAIN r1 \ {lo}
                    /\ Same(t1, r1, t2, r2)
  BY <1>3, PerformKeeps
<1>5. Same(t, r, t2, r2)
  BY <1>1, <1>4 DEF Same
<1>6. DOMAIN r2 = DOMAIN r \ (1 .. lo)
  <2>1. 1 .. lo = (1 .. i) \cup {lo}
    BY <1>2
  <2>2. QED
    BY <1>1, <1>4, <2>1
<1>7. Perform(q, lo) = [table |-> t2, reserved |-> r2]
  BY <1>1, <1>4
<1>8. Reached(Perform(q, lo), v, t, r, lo, n)
  BY <1>4, <1>5, <1>6, <1>7 DEF Reached
<1>9. QED
  BY <1>2, <1>8

\* remapfds comes to the end.
LEMMA RemapfdsIs ==
  ASSUME NEW v, NEW t, NEW r, NEW n \in Nat, n = Len(deftab), Ready(v, t, r, 1, n)
  PROVE  Reached(Remapfds([table |-> t, reserved |-> r]), v, t, r, n, n)
<1>1. PICK s : s = [table |-> t, reserved |-> r]
  OBVIOUS
<1>. DEFINE c == CHOOSE g : g = [i \in 0 .. n |-> IF i = 0 THEN s ELSE Perform(g[i - 1], i)]
<1>2. \E g : g = [i \in 0 .. n |-> IF i = 0 THEN s ELSE Perform(g[i - 1], i)]
  BY StepsExist DEF Steps
<1>3. c = [i \in 0 .. n |-> IF i = 0 THEN s ELSE Perform(c[i - 1], i)]
  BY <1>2
<1>4. Remapfds(s) = c[n]
  BY DEF Remapfds
<1>. HIDE DEF c
<1>5. c[0] = s /\ \A i \in 1 .. n : c[i] = Perform(c[i - 1], i)
  BY <1>3
<1>6. Reached(s, v, t, r, 0, n)
  <2>1. Same(t, r, t, r)
    BY DEF Same
  <2>2. DOMAIN r = DOMAIN r \ (1 .. 0) /\ 0 + 1 = 1
    OBVIOUS
  <2>3. QED
    BY <1>1, <2>1, <2>2 DEF Reached
<1>. DEFINE Bad == {i \in 0 .. n : ~Reached(c[i], v, t, r, i, n)}
<1>7. Bad = {}
  <2>. SUFFICES ASSUME Bad # {} PROVE FALSE
    OBVIOUS
  <2>1. Bad \subseteq Nat
    OBVIOUS
  <2>2. PICK m \in Bad : \A l \in Bad : m <= l
    <3>. HIDE DEF Bad
    <3>1. QED
      BY <2>1, LeastOf
  <2>3. m \in 0 .. n /\ ~Reached(c[m], v, t, r, m, n)
    OBVIOUS
  <2>4. m # 0
    BY <1>5, <1>6, <2>3
  <2>5. PICK l \in Nat : l = m - 1 /\ l \in 0 .. n /\ l + 1 = m /\ l < n
    BY <2>3, <2>4
  <2>6. l \notin Bad
    BY <2>2, <2>5
  <2>7. Reached(c[l], v, t, r, l, n)
    BY <2>5, <2>6
  <2>8. Reached(Perform(c[l], l + 1), v, t, r, l + 1, n)
    BY <2>5, <2>7, ReachedNext
  <2>9. c[m] = Perform(c[l], m)
    BY <1>5, <2>3, <2>4, <2>5
  <2>10. QED
    BY <2>3, <2>5, <2>8, <2>9
<1>8. Reached(c[n], v, t, r, n, n)
  <2>1. n \in 0 .. n
    OBVIOUS
  <2>2. QED
    BY <1>7, <2>1
<1>9. QED
  BY <1>1, <1>4, <1>8

\* closefds leaves what the program asked for, and what else is registered.
Forkable(v, t, r, n, t2, r2) ==
  /\ Sound(t2, r2) /\ Room(t2, 0) /\ DOMAIN r2 = DOMAIN r \ (1 .. n) /\ r2[Input] = -1
  /\ \A k \in DOMAIN r2 : k # Input => FileOf(t2, r2[k]) = FileOf(t, r[k])
  /\ \A m \in Fd : IF Holds(r2, m) THEN v[m] = Closed ELSE t2[m] = v[m]

\* closefds.
LEMMA ClosefdsIs ==
  ASSUME NEW v, NEW t, NEW r, NEW n \in Nat, n = Len(deftab), Ready(v, t, r, 1, n),
         Input \in DOMAIN r
  PROVE  \E t2, r2 : /\ Closefds([table |-> t, reserved |-> r]) = [table |-> t2, reserved |-> r2]
                     /\ Forkable(v, t, r, n, t2, r2)
<1>1. PICK q : q = Remapfds([table |-> t, reserved |-> r])
  OBVIOUS
<1>2. PICK t1, r1 : /\ q = [table |-> t1, reserved |-> r1]
                    /\ Ready(v, t1, r1, n + 1, n) /\ DOMAIN r1 = DOMAIN r \ (1 .. n)
                    /\ Same(t, r, t1, r1)
  BY <1>1, RemapfdsIs DEF Reached
<1>3. PICK fd : fd = r1[Input]
  OBVIOUS
<1>. DEFINE t2 == IF fd >= 3 THEN [t1 EXCEPT ![fd] = Closed] ELSE t1
            r2 == [r1 EXCEPT ![Input] = -1]
<1>4. Closefds([table |-> t, reserved |-> r]) = [table |-> t2, reserved |-> r2]
  BY <1>1, <1>2, <1>3 DEF Closefds, Close
<1>5. Sound(t1, r1) /\ Means(v, t1, r1, deftab, n + 1, n) /\ Input \in DOMAIN r1
  BY <1>2 DEF Ready, Input
<1>6. /\ t1 \in [Fd -> Files] /\ LowOpen(t1) /\ fd \in Fd \cup {-1} /\ Closed \in Files
      /\ Fd \subseteq Nat /\ -1 \notin Fd
      /\ \A k \in DOMAIN r1 : /\ r1[k] \in Fd \cup {-1}
                              /\ r1[k] # -1 => t1[r1[k]] # Closed /\ (r1[k] >= 3 \/ k = Input)
      /\ \A k, l \in DOMAIN r1 : r1[k] = r1[l] /\ r1[k] # -1 => k = l
  BY <1>3, <1>5, FdCount DEF Sound, Closed, Files
<1>7. /\ DOMAIN r2 = DOMAIN r1 /\ r2[Input] = -1 /\ \A k \in DOMAIN r1 : k # Input => r2[k] = r1[k]
      /\ r2 = [k \in DOMAIN r2 |-> r2[k]]
  <2>1. r1 = [k \in DOMAIN r1 |-> r1[k]]
    BY <1>5 DEF Sound
  <2>2. QED
    BY <1>5, <2>1
<1>. HIDE DEF r2
<1>8. /\ t2 \in [Fd -> Files]
      /\ \A m \in Fd : t2[m] = IF m = fd /\ fd >= 3 THEN Closed ELSE t1[m]
  BY <1>6
<1>. HIDE DEF t2
<1>9. \A k \in DOMAIN r1 : k # Input => FileOf(t2, r2[k]) = FileOf(t1, r1[k])
  BY <1>3, <1>5, <1>6, <1>7, <1>8 DEF FileOf
<1>10. Sound(t2, r2)
  <2>1. LowOpen(t2)
    BY <1>6, <1>8, FdCount DEF LowOpen, Fd
  <2>2. ASSUME NEW k \in DOMAIN r2
        PROVE  /\ r2[k] \in Fd \cup {-1}
               /\ r2[k] # -1 => t2[r2[k]] # Closed /\ (r2[k] >= 3 \/ k = Input)
    <3>1. CASE k = Input
      BY <1>7, <3>1
    <3>2. CASE k # Input
      BY <1>6, <1>7, <1>9, <3>2 DEF FileOf
    <3>3. QED
      BY <3>1, <3>2
  <2>3. \A k, l \in DOMAIN r2 : r2[k] = r2[l] /\ r2[k] # -1 => k = l
    BY <1>6, <1>7
  <2>4. QED
    BY <1>7, <1>8, <2>1, <2>2, <2>3 DEF Sound
<1>11. \A k \in DOMAIN r2 : k # Input => FileOf(t2, r2[k]) = FileOf(t, r[k])
  BY <1>2, <1>7, <1>9 DEF Same
<1>12. ASSUME NEW m \in Fd PROVE IF Holds(r2, m) THEN v[m] = Closed ELSE t2[m] = v[m]
  <2>1. v[m] = Base(t1, r1, m)
    <3>1. Gets(v[m], t1, r1, deftab, n + 1, n, m)
      BY <1>5 DEF Means
    <3>2. n + 1 .. n = {}
      OBVIOUS
    <3>3. QED
      BY <3>1, <3>2 DEF Gets
  <2>2. CASE m = fd /\ fd >= 3
    <3>1. Holds(r1, m)
      BY <1>3, <1>5, <2>2 DEF Holds
    <3>2. v[m] = Closed
      BY <2>1, <2>2, <3>1 DEF Base
    <3>3. QED
      BY <1>8, <2>2, <3>2
  <2>3. CASE ~(m = fd /\ fd >= 3)
    <3>1. Holds(r2, m) => Holds(r1, m) /\ m >= 3
      BY <1>6, <1>7 DEF Holds
    <3>2. m >= 3 /\ Holds(r1, m) => Holds(r2, m)
      BY <1>3, <1>7, <2>3 DEF Holds
    <3>3. QED
      BY <1>8, <2>1, <2>3, <3>1, <3>2 DEF Base
  <2>4. QED
    BY <2>2, <2>3
<1>13. Room(t2, 0)
  <2>1. Room(t1, 0)
    BY <1>2 DEF Ready
  <2>2. OpenIn(t2) \subseteq OpenIn(t1)
    BY <1>8 DEF OpenIn
  <2>3. QED
    BY <2>1, <2>2, RoomSame
<1>14. Forkable(v, t, r, n, t2, r2)
  BY <1>2, <1>7, <1>10, <1>11, <1>12, <1>13 DEF Forkable
<1>15. QED
  BY <1>4, <1>14

-----------------------------------------------------------------------------
(* Opening, registering, and noting an operation. *)

\* A file may be opened.
Opening(t, r, c, F) == Sound(t, r) /\ c \in Nat /\ Room(t, c + 1) /\ F \in Files /\ F # Closed

\* It has been, as m.
OpensAt(t, r, c, F, m, t2) ==
  /\ m \in Fd /\ m >= 3 /\ t[m] = Closed /\ ~Holds(r, m)
  /\ t2 \in [Fd -> Files] /\ \A n \in Fd : t2[n] = IF n = m THEN F ELSE t[n]
  /\ Sound(t2, r) /\ Room(t2, c)
  /\ \A n \in Fd : Base(t2, r, n) = IF n = m THEN F ELSE Base(t, r, n)
  /\ \A k \in DOMAIN r : FileOf(t2, r[k]) = FileOf(t, r[k])

\* m is free, and none of 0, 1 and 2.
Vacant(t, m) == m \in Fd /\ m >= 3 /\ t[m] = Closed

\* The lowest free number is.
LEMMA FreeVacant ==
  ASSUME NEW t, NEW r, NEW c, NEW F, Opening(t, r, c, F)
  PROVE  Vacant(t, Free(t))
<1>1. t \in [Fd -> Files] /\ LowOpen(t) /\ Room(t, 0)
  BY OpenFinite, FdCount DEF Opening, Sound, Room
<1>2. QED
  BY <1>1, FreeIs DEF Vacant

\* The number is not registered, and the others keep their files.
LEMMA OpenKeepsAt ==
  ASSUME NEW t, NEW r, NEW c, NEW F, Opening(t, r, c, F), NEW m, Vacant(t, m)
  PROVE  OpensAt(t, r, c, F, m, [t EXCEPT ![m] = F])
<1>. SUFFICES ASSUME Sound(t, r), c \in Nat, Room(t, c + 1), F \in Files, F # Closed
              PROVE  OpensAt(t, r, c, F, m, [t EXCEPT ![m] = F])
  BY DEF Opening
<1>2. PICK t2 : t2 = [t EXCEPT ![m] = F]
  OBVIOUS
<1>3. t \in [Fd -> Files] /\ LowOpen(t)
  BY DEF Sound
<1>4. m \in Fd /\ m >= 3 /\ t[m] = Closed
  BY DEF Vacant
<1>5. t2 \in [Fd -> Files] /\ \A n \in Fd : t2[n] = IF n = m THEN F ELSE t[n]
  BY <1>2, <1>3, <1>4
<1>6. ~Holds(r, m)
  BY <1>4, FdCount DEF Sound, Holds
<1>7. \A k \in DOMAIN r : FileOf(t2, r[k]) = FileOf(t, r[k])
  BY <1>5, <1>6 DEF Sound, FileOf, Holds
<1>8. LowOpen(t2)
  BY <1>3, <1>5, FdCount DEF LowOpen, Fd
<1>9. Sound(t2, r)
  <2>1. \A k \in DOMAIN r : /\ r[k] \in Fd \cup {-1}
                            /\ r[k] # -1 => t2[r[k]] # Closed /\ (r[k] >= 3 \/ k = Input)
    BY <1>7 DEF Sound, FileOf
  <2>2. r = [k \in DOMAIN r |-> r[k]] /\ \A k, l \in DOMAIN r : r[k] = r[l] /\ r[k] # -1 => k = l
    BY DEF Sound
  <2>3. QED
    BY <1>5, <1>8, <2>1, <2>2 DEF Sound
<1>10. Room(t2, c)
  <2>1. OpenIn(t2) \subseteq OpenIn(t) \cup {m}
    BY <1>5 DEF OpenIn
  <2>2. QED
    BY <1>4, <2>1, RoomMore
<1>11. \A n \in Fd : Base(t2, r, n) = IF n = m THEN F ELSE Base(t, r, n)
  BY <1>5, <1>6 DEF Base
<1>12. OpensAt(t, r, c, F, m, t2)
  BY <1>4, <1>5, <1>6, <1>7, <1>9, <1>10, <1>11 DEF OpensAt
<1>13. QED
  BY <1>2, <1>12

\* The same, where the lowest free number is taken.
LEMMA OpenKeeps ==
  ASSUME NEW t, NEW r, NEW c, NEW F, Opening(t, r, c, F)
  PROVE  OpensAt(t, r, c, F, Free(t), Open(t, F))
<1>1. PICK m : m = Free(t)
  OBVIOUS
<1>2. OpensAt(t, r, c, F, m, [t EXCEPT ![m] = F])
  BY <1>1, FreeVacant, OpenKeepsAt
<1>3. QED
  BY <1>1, <1>2 DEF Open

\* inpipe's numbers are free.
LEMMA InpipeVacant ==
  ASSUME Sound(table, reserved), Room(table, 2 + 1), NewFile \in Files, NewFile # Closed,
         NEW m \in Inpipes
  PROVE  Vacant(table, m)
<1>1. Opening(table, reserved, 2, NewFile)
  BY DEF Opening
<1>2. CASE m = Free(table)
  BY <1>1, <1>2, FreeVacant
<1>3. CASE m = Free(Open(table, NewFile))
  <2>1. PICK t, F : t = Open(table, F) /\ F = NewFile
    OBVIOUS
  <2>2. PICK a : a = Free(table)
    OBVIOUS
  <2>3. OpensAt(table, reserved, 2, F, a, t)
    BY <1>1, <2>1, <2>2, OpenKeeps
  <2>4. \A l \in Fd : t[l] = IF l = a THEN F ELSE table[l]
    BY <2>3 DEF OpensAt
  <2>5. Opening(t, reserved, 1, F)
    BY <2>1, <2>3 DEF OpensAt, Opening
  <2>6. Vacant(t, m)
    BY <1>3, <2>1, <2>5, FreeVacant
  <2>7. QED
    BY <2>1, <2>4, <2>6 DEF Vacant
<1>4. QED
  BY <1>2, <1>3 DEF Inpipes

\* One number more is registered.
AddTo(r, k, m) == [j \in DOMAIN r \cup {k} |-> IF j = k THEN m ELSE r[j]]

Addable(t, r, k, m) == Sound(t, r) /\ k \notin DOMAIN r /\ k # Input /\ Unheld(t, r, m)

Added(t, r, k, m, r2) ==
  /\ Sound(t, r2) /\ DOMAIN r2 = DOMAIN r \cup {k} /\ r2[k] = m
  /\ \A j \in DOMAIN r : r2[j] = r[j]
  /\ \A n \in Fd : Holds(r2, n) <=> n = m \/ Holds(r, n)
  /\ \A n \in Fd : Base(t, r2, n) = IF n = m THEN Closed ELSE Base(t, r, n)

\* A number that is open and not registered is registered.
LEMMA AddKeeps ==
  ASSUME NEW t, NEW r, NEW k, NEW m, Addable(t, r, k, m)
  PROVE  Added(t, r, k, m, AddTo(r, k, m))
<1>. USE DEF Addable
<1>1. PICK r2 : r2 = AddTo(r, k, m)
  OBVIOUS
<1>2. /\ DOMAIN r2 = DOMAIN r \cup {k} /\ r2[k] = m /\ (\A j \in DOMAIN r : r2[j] = r[j])
      /\ r2 = [j \in DOMAIN r2 |-> r2[j]]
  BY <1>1 DEF AddTo
<1>3. -1 \notin Fd /\ Fd \subseteq Nat
  BY FdCount
<1>4. Sound(t, r2)
  <2>1. ASSUME NEW j \in DOMAIN r2
        PROVE  /\ r2[j] \in Fd \cup {-1}
               /\ r2[j] # -1 => t[r2[j]] # Closed /\ (r2[j] >= 3 \/ j = Input)
    <3>1. CASE j = k
      BY <1>2, <3>1 DEF Unheld
    <3>2. CASE j \in DOMAIN r
      BY <1>2, <3>2 DEF Sound
    <3>3. QED
      BY <1>2, <3>1, <3>2
  <2>2. ASSUME NEW j \in DOMAIN r2, NEW l \in DOMAIN r2, r2[j] = r2[l], r2[j] # -1 PROVE j = l
    <3>1. j = k /\ l # k => FALSE
      BY <1>2, <2>2 DEF Unheld, Holds
    <3>2. l = k /\ j # k => FALSE
      BY <1>2, <2>2 DEF Unheld, Holds
    <3>3. l # k /\ j # k => j = l
      BY <1>2, <2>2 DEF Sound
    <3>4. QED
      BY <3>1, <3>2, <3>3
  <2>3. t \in [Fd -> Files] /\ LowOpen(t)
    BY DEF Sound
  <2>4. QED
    BY <1>2, <2>1, <2>2, <2>3 DEF Sound
<1>5. \A n \in Fd : Holds(r2, n) <=> n = m \/ Holds(r, n)
  BY <1>2 DEF Holds
<1>6. \A n \in Fd : Base(t, r2, n) = IF n = m THEN Closed ELSE Base(t, r, n)
  BY <1>3, <1>5 DEF Base, Unheld
<1>7. QED
  BY <1>1, <1>2, <1>4, <1>5, <1>6 DEF Added

\* A file may be opened and its number registered.
Openable(t, r, c, F, k) == Opening(t, r, c, F) /\ k \notin DOMAIN r /\ k # Input

\* It has been.
Opened(t, r, c, F, k, t2, r2) ==
  /\ Sound(t2, r2) /\ Room(t2, c) /\ FileOf(t2, r2[k]) = F
  /\ DOMAIN r2 = DOMAIN r \cup {k} /\ r2[k] \in Fd /\ t[r2[k]] = Closed
  /\ \A j \in DOMAIN r : r2[j] = r[j] /\ FileOf(t2, r2[j]) = FileOf(t, r[j])
  /\ \A n \in Fd : Base(t2, r2, n) = Base(t, r, n)
  /\ \A n \in Fd : t[n] # Closed => t2[n] = t[n] /\ (Holds(r2, n) <=> Holds(r, n))

\* What else is open means the same.
LEMMA RegisterKeepsAt ==
  ASSUME NEW t, NEW r, NEW c, NEW F, NEW k, Openable(t, r, c, F, k), NEW m, Vacant(t, m)
  PROVE  Opened(t, r, c, F, k, [t EXCEPT ![m] = F], AddTo(r, k, m))
<1>1. PICK r2 : r2 = AddTo(r, k, m)
  OBVIOUS
<1>2. PICK t2 : t2 = [t EXCEPT ![m] = F]
  OBVIOUS
<1>4. /\ Sound(t, r) /\ c \in Nat /\ Room(t, c + 1) /\ F \in Files /\ F # Closed
      /\ k \notin DOMAIN r /\ k # Input /\ t \in [Fd -> Files]
  BY DEF Openable, Opening, Sound
<1>5. OpensAt(t, r, c, F, m, t2)
  BY <1>2, OpenKeepsAt DEF Openable
<1>6. /\ m \in Fd /\ m >= 3 /\ t[m] = Closed /\ ~Holds(r, m)
      /\ t2 \in [Fd -> Files] /\ \A n \in Fd : t2[n] = IF n = m THEN F ELSE t[n]
      /\ Sound(t2, r) /\ Room(t2, c)
      /\ \A n \in Fd : Base(t2, r, n) = IF n = m THEN F ELSE Base(t, r, n)
  BY <1>5 DEF OpensAt
<1>7. \A j \in DOMAIN r : FileOf(t2, r[j]) = FileOf(t, r[j])
  BY <1>5 DEF OpensAt
<1>8. Unheld(t2, r, m)
  BY <1>4, <1>6 DEF Unheld
<1>9. Addable(t2, r, k, m) /\ r2 = AddTo(r, k, m)
  BY <1>1, <1>4, <1>6, <1>8 DEF Addable
<1>10. Added(t2, r, k, m, r2)
  BY <1>9, AddKeeps
<1>11. /\ Sound(t2, r2) /\ DOMAIN r2 = DOMAIN r \cup {k} /\ r2[k] = m
       /\ \A j \in DOMAIN r : r2[j] = r[j]
       /\ \A n \in Fd : Holds(r2, n) <=> n = m \/ Holds(r, n)
       /\ \A n \in Fd : Base(t2, r2, n) = IF n = m THEN Closed ELSE Base(t2, r, n)
  BY <1>10 DEF Added
<1>12. \A n \in Fd : Base(t2, r2, n) = Base(t, r, n)
  BY <1>6, <1>11 DEF Base
<1>13. FileOf(t2, m) = F
  BY <1>6, FdCount DEF FileOf
<1>14. \A n \in Fd : t[n] # Closed => t2[n] = t[n] /\ (Holds(r2, n) <=> Holds(r, n))
  BY <1>6, <1>11
<1>15. Opened(t, r, c, F, k, t2, r2)
  BY <1>6, <1>7, <1>11, <1>12, <1>13, <1>14 DEF Opened
<1>16. QED
  BY <1>1, <1>2, <1>15

\* The same, where the lowest free number is taken.
LEMMA RegisterKeeps ==
  ASSUME NEW t, NEW r, NEW c, NEW F, NEW k, Openable(t, r, c, F, k)
  PROVE  Opened(t, r, c, F, k, Open(t, F), AddTo(r, k, Free(t)))
<1>1. PICK m : m = Free(t)
  OBVIOUS
<1>2. Opened(t, r, c, F, k, [t EXCEPT ![m] = F], AddTo(r, k, m))
  BY <1>1, FreeVacant, RegisterKeepsAt DEF Openable
<1>3. QED
  BY <1>1, <1>2 DEF Open

-----------------------------------------------------------------------------
(* What the operations mean, before and after. *)

\* Operations lo to hi have the same files and the same targets.
Alike(t, r, d, t2, r2, d2, lo, hi) ==
  \A i \in lo .. hi : FileOf(t2, r2[i]) = FileOf(t, r[i]) /\ d2[i] = d[i]

SameBase(t, r, t2, r2) == \A n \in Fd : Base(t2, r2, n) = Base(t, r, n)

\* What they make of one number.
LEMMA GetsSame ==
  ASSUME NEW t, NEW r, NEW d, NEW t2, NEW r2, NEW d2, NEW lo \in Int, NEW hi \in Int,
         Alike(t, r, d, t2, r2, d2, lo, hi), NEW u, Base(t2, r2, u) = Base(t, r, u),
         NEW f, Gets(f, t, r, d, lo, hi, u)
  PROVE  Gets(f, t2, r2, d2, lo, hi, u)
<1>1. ASSUME NEW i \in lo .. hi, LastOf(d2, i, hi, u) PROVE f = FileOf(t2, r2[i])
  <2>1. LastOf(d, i, hi, u)
    <3>1. d[i] = u
      BY <1>1 DEF LastOf, Alike
    <3>2. ASSUME NEW j \in i + 1 .. hi PROVE d[j] # u
      <4>1. j \in lo .. hi /\ d2[j] # u
        BY <1>1 DEF LastOf
      <4>2. QED
        BY <4>1 DEF Alike
    <3>3. QED
      BY <3>1, <3>2 DEF LastOf
  <2>2. QED
    BY <1>1, <2>1 DEF Gets, Alike
<1>2. ASSUME \A i \in lo .. hi : d2[i] # u PROVE f = Base(t2, r2, u)
  BY <1>2 DEF Gets, Alike
<1>3. QED
  BY <1>1, <1>2 DEF Gets

\* What they make of all.
LEMMA MeansSame ==
  ASSUME NEW t, NEW r, NEW d, NEW t2, NEW r2, NEW d2, NEW lo \in Int, NEW hi \in Int,
         Alike(t, r, d, t2, r2, d2, lo, hi), SameBase(t, r, t2, r2),
         NEW v, Means(v, t, r, d, lo, hi)
  PROVE  Means(v, t2, r2, d2, lo, hi)
<1>. SUFFICES ASSUME NEW n \in Fd PROVE Gets(v[n], t2, r2, d2, lo, hi, n)
  BY DEF Means
<1>1. Gets(v[n], t, r, d, lo, hi, n) /\ Base(t2, r2, n) = Base(t, r, n)
  BY DEF Means, SameBase
<1>2. QED
  BY <1>1, GetsSame

\* One operation more.
LEMMA MeansMore ==
  ASSUME NEW t, NEW r, NEW d, NEW t2, NEW r2, NEW d2, NEW n \in Nat,
         Alike(t, r, d, t2, r2, d2, 1, n), SameBase(t, r, t2, r2),
         NEW v \in [Fd -> Files], Means(v, t, r, d, 1, n),
         NEW u \in Fd, d2[n + 1] = u, NEW F, FileOf(t2, r2[n + 1]) = F
  PROVE  Means([v EXCEPT ![u] = F], t2, r2, d2, 1, n + 1)
<1>1. PICK w : w = [v EXCEPT ![u] = F]
  OBVIOUS
<1>2. w[u] = F /\ \A m \in Fd : m # u => w[m] = v[m]
  BY <1>1
<1>3. PICK l \in Nat : l = n + 1
  OBVIOUS
<1>4. Means(v, t2, r2, d2, 1, n)
  BY MeansSame
<1>5. ASSUME NEW m \in Fd PROVE Gets(w[m], t2, r2, d2, 1, l, m)
  <2>1. CASE m = u
    <3>1. ASSUME NEW i \in 1 .. l, LastOf(d2, i, l, m) PROVE w[m] = FileOf(t2, r2[i])
      <4>1. i = l
        <5>. SUFFICES ASSUME i # l PROVE FALSE
          OBVIOUS
        <5>1. l \in i + 1 .. l
          BY <1>3
        <5>2. QED
          BY <1>3, <2>1, <3>1, <5>1 DEF LastOf
      <4>2. QED
        BY <1>2, <1>3, <2>1, <4>1
    <3>2. ~\A i \in 1 .. l : d2[i] # m
      BY <1>3, <2>1
    <3>3. QED
      BY <3>1, <3>2 DEF Gets
  <2>2. CASE m # u
    <3>1. Gets(v[m], t2, r2, d2, 1, n, m) /\ w[m] = v[m]
      BY <1>2, <1>4, <2>2 DEF Means
    <3>2. ASSUME NEW i \in 1 .. l, LastOf(d2, i, l, m) PROVE w[m] = FileOf(t2, r2[i])
      <4>1. i # l
        BY <1>3, <2>2, <3>2 DEF LastOf
      <4>2. i \in 1 .. n /\ LastOf(d2, i, n, m)
        BY <1>3, <3>2, <4>1 DEF LastOf
      <4>3. QED
        BY <3>1, <4>2 DEF Gets
    <3>3. ASSUME \A i \in 1 .. l : d2[i] # m PROVE w[m] = Base(t2, r2, m)
      BY <1>3, <3>1, <3>3 DEF Gets
    <3>4. QED
      BY <3>2, <3>3 DEF Gets
  <2>3. QED
    BY <2>1, <2>2
<1>6. Means(w, t2, r2, d2, 1, l)
  BY <1>5 DEF Means
<1>7. QED
  BY <1>1, <1>3, <1>6

\* One operation less, whose number had f before it.
LEMMA MeansLess ==
  ASSUME NEW t, NEW r, NEW d, NEW t2, NEW r2, NEW d2, NEW n \in Nat,
         Alike(t, r, d, t2, r2, d2, 1, n), SameBase(t, r, t2, r2),
         NEW v \in [Fd -> Files], Means(v, t, r, d, 1, n + 1),
         NEW u \in Fd, d[n + 1] = u, NEW f, Gets(f, t, r, d, 1, n, u)
  PROVE  Means([v EXCEPT ![u] = f], t2, r2, d2, 1, n)
<1>1. PICK w : w = [v EXCEPT ![u] = f]
  OBVIOUS
<1>2. w[u] = f /\ \A m \in Fd : m # u => w[m] = v[m]
  BY <1>1
<1>3. PICK l \in Nat : l = n + 1
  OBVIOUS
<1>4. ASSUME NEW m \in Fd PROVE Gets(w[m], t, r, d, 1, n, m)
  <2>1. CASE m = u
    BY <1>2, <2>1
  <2>2. CASE m # u
    <3>1. Gets(v[m], t, r, d, 1, l, m) /\ w[m] = v[m]
      BY <1>2, <1>3, <2>2 DEF Means
    <3>2. ASSUME NEW i \in 1 .. n, LastOf(d, i, n, m) PROVE w[m] = FileOf(t, r[i])
      <4>1. i \in 1 .. l /\ LastOf(d, i, l, m)
        <5>1. ASSUME NEW j \in i + 1 .. l PROVE d[j] # m
          <6>1. j = l \/ j \in i + 1 .. n
            BY <1>3
          <6>2. QED
            BY <1>3, <2>2, <3>2, <6>1 DEF LastOf
        <5>2. QED
          BY <1>3, <3>2, <5>1 DEF LastOf
      <4>2. QED
        BY <3>1, <4>1 DEF Gets
    <3>3. ASSUME \A i \in 1 .. n : d[i] # m PROVE w[m] = Base(t, r, m)
      <4>1. ASSUME NEW i \in 1 .. l PROVE d[i] # m
        <5>1. i = l \/ i \in 1 .. n
          BY <1>3
        <5>2. QED
          BY <1>3, <2>2, <3>3, <5>1
      <4>2. QED
        BY <3>1, <4>1 DEF Gets
    <3>4. QED
      BY <3>2, <3>3 DEF Gets
  <2>3. QED
    BY <2>1, <2>2
<1>5. Means(w, t, r, d, 1, n)
  BY <1>4 DEF Means
<1>6. 1 \in Int /\ n \in Int
  OBVIOUS
<1>7. Means(w, t2, r2, d2, 1, n)
  BY <1>5, <1>6, MeansSame
<1>8. QED
  BY <1>1, <1>7

\* One number, that no operation is about, has F now.
OnlyAt(t, r, d, t2, r2, n, m, F) ==
  /\ Alike(t, r, d, t2, r2, d, 1, n) /\ m \in Fd /\ \A i \in 1 .. n : d[i] # m
  /\ Base(t2, r2, m) = F /\ \A l \in Fd : l # m => Base(t2, r2, l) = Base(t, r, l)

\* It has it for the program, too.
LEMMA MeansAt ==
  ASSUME NEW t, NEW r, NEW d, NEW t2, NEW r2, NEW n \in Nat, NEW v, v \in [Fd -> Files],
         Means(v, t, r, d, 1, n), NEW m, NEW F, OnlyAt(t, r, d, t2, r2, n, m, F)
  PROVE  Means([v EXCEPT ![m] = F], t2, r2, d, 1, n)
<1>1. PICK w : w = [v EXCEPT ![m] = F]
  OBVIOUS
<1>2. w[m] = F /\ \A l \in Fd : l # m => w[l] = v[l]
  BY <1>1 DEF OnlyAt
<1>3. ASSUME NEW l \in Fd PROVE Gets(w[l], t2, r2, d, 1, n, l)
  <2>1. CASE l = m
    BY <1>2, <2>1 DEF OnlyAt, Gets, LastOf
  <2>2. CASE l # m
    <3>1. Gets(v[l], t, r, d, 1, n, l) /\ Base(t2, r2, l) = Base(t, r, l) /\ w[l] = v[l]
      BY <1>2, <2>2 DEF Means, OnlyAt
    <3>2. 1 \in Int /\ n \in Int
      OBVIOUS
    <3>3. Gets(v[l], t2, r2, d, 1, n, l)
      BY <3>1, <3>2, GetsSame DEF OnlyAt
    <3>4. QED
      BY <3>1, <3>3
  <2>3. QED
    BY <2>1, <2>2
<1>4. QED
  BY <1>1, <1>3 DEF Means

-----------------------------------------------------------------------------
(* The commands that run, and the operations on deftab. *)

Defers == {"redir", "here"}

\* f is the place of the command that noted each operation: commands and
\* operations are nested alike.  The command knows the operation's target and
\* number, and what its target was before.  Here are l commands and n operations.
Tied(f, fs, l, d, n, t, r) ==
  /\ \A i \in 1 .. n : f[i] \in 1 .. l
  /\ \A i, j \in 1 .. n : i < j => f[i] < f[j]
  /\ \A k \in 1 .. l : fs[k].kind \in Defers <=> \E i \in 1 .. n : f[i] = k
  /\ \A i \in 1 .. n : /\ fs[f[i]].user = d[i] /\ fs[f[i]].fd = r[i]
                       /\ Gets(fs[f[i]].file, t, r, d, 1, i - 1, d[i])

\* The first l commands are the same.
Extends(fs, fs2, l) == \A k \in 1 .. l : fs2[k] = fs[k]

\* The numbers that the operations are about mean the same.
SameTargets(t, r, d, t2, r2, n) ==
  \A i \in 1 .. n : r2[i] = r[i] /\ Base(t2, r2, d[i]) = Base(t, r, d[i])

\* A command knows this of the i-th operation.
Knows(frame, d, t, r, i) ==
  frame.user = d[i] /\ frame.fd = r[i] /\ Gets(frame.file, t, r, d, 1, i - 1, d[i])

\* What was there before stays what it was.
LEMMA TiedGets ==
  ASSUME NEW f, NEW fs, NEW l, NEW d, NEW n \in Nat, NEW t, NEW r, Tied(f, fs, l, d, n, t, r),
         NEW m \in Nat, m <= n, NEW d2, NEW t2, NEW r2, Alike(t, r, d, t2, r2, d2, 1, m),
         SameTargets(t, r, d, t2, r2, m), NEW i \in 1 .. m
  PROVE  Knows(fs[f[i]], d2, t2, r2, i)
<1>1. i \in 1 .. n /\ i - 1 \in Int /\ 1 \in Int
  OBVIOUS
<1>2. fs[f[i]].user = d[i] /\ fs[f[i]].fd = r[i] /\ Gets(fs[f[i]].file, t, r, d, 1, i - 1, d[i])
  BY <1>1 DEF Tied
<1>3. d2[i] = d[i] /\ r2[i] = r[i] /\ Base(t2, r2, d[i]) = Base(t, r, d[i])
  BY DEF Alike, SameTargets
<1>4. Alike(t, r, d, t2, r2, d2, 1, i - 1)
  BY DEF Alike
<1>5. PICK h : h = fs[f[i]].file
  OBVIOUS
<1>6. PICK j \in Int : j = i - 1
  OBVIOUS
<1>7. Gets(h, t2, r2, d2, 1, j, d[i])
  BY <1>1, <1>2, <1>3, <1>4, <1>5, <1>6, GetsSame
<1>8. QED
  BY <1>2, <1>3, <1>5, <1>6, <1>7 DEF Knows

\* A command more that notes nothing.
LEMMA TiedPush ==
  ASSUME NEW f, NEW fs, NEW l \in Nat, NEW d, NEW n \in Nat, NEW t, NEW r,
         Tied(f, fs, l, d, n, t, r), NEW t2, NEW r2, Alike(t, r, d, t2, r2, d, 1, n),
         SameTargets(t, r, d, t2, r2, n), NEW fs2, Extends(fs, fs2, l),
         fs2[l + 1].kind \notin Defers
  PROVE  Tied(f, fs2, l + 1, d, n, t2, r2)
<1>1. \A i \in 1 .. n : f[i] \in 1 .. l + 1 /\ f[i] \in 1 .. l /\ fs2[f[i]] = fs[f[i]]
  BY DEF Tied, Extends
<1>2. \A i, j \in 1 .. n : i < j => f[i] < f[j]
  BY DEF Tied
<1>3. ASSUME NEW k \in 1 .. l + 1 PROVE fs2[k].kind \in Defers <=> \E i \in 1 .. n : f[i] = k
  <2>1. CASE k = l + 1
    BY <1>1, <2>1
  <2>2. CASE k # l + 1
    <3>1. k \in 1 .. l /\ fs2[k] = fs[k]
      BY <2>2 DEF Extends
    <3>2. QED
      BY <3>1 DEF Tied
  <2>3. QED
    BY <2>1, <2>2
<1>4. ASSUME NEW i \in 1 .. n
      PROVE  /\ fs2[f[i]].user = d[i] /\ fs2[f[i]].fd = r2[i]
             /\ Gets(fs2[f[i]].file, t2, r2, d, 1, i - 1, d[i])
  <2>1. n <= n
    OBVIOUS
  <2>2. Knows(fs[f[i]], d, t2, r2, i)
    BY <2>1, TiedGets
  <2>3. QED
    BY <1>1, <2>2 DEF Knows
<1>5. QED
  BY <1>1, <1>2, <1>3, <1>4 DEF Tied

\* A command that has noted nothing ends.
LEMMA TiedPop ==
  ASSUME NEW f, NEW fs, NEW l \in Nat, NEW d, NEW n \in Nat, NEW t, NEW r,
         Tied(f, fs, l + 1, d, n, t, r), NEW t2, NEW r2, Alike(t, r, d, t2, r2, d, 1, n),
         SameTargets(t, r, d, t2, r2, n), NEW fs2, Extends(fs, fs2, l),
         fs[l + 1].kind \notin Defers
  PROVE  Tied(f, fs2, l, d, n, t2, r2)
<1>1. ASSUME NEW i \in 1 .. n PROVE f[i] \in 1 .. l
  <2>1. f[i] \in 1 .. l + 1
    BY DEF Tied
  <2>2. f[i] # l + 1
    <3>1. l + 1 \in 1 .. l + 1
      OBVIOUS
    <3>2. QED
      BY <3>1 DEF Tied
  <2>3. QED
    BY <2>1, <2>2
<1>2. \A i, j \in 1 .. n : i < j => f[i] < f[j]
  BY DEF Tied
<1>3. \A i \in 1 .. n : fs2[f[i]] = fs[f[i]]
  BY <1>1 DEF Extends
<1>4. ASSUME NEW k \in 1 .. l PROVE fs2[k].kind \in Defers <=> \E i \in 1 .. n : f[i] = k
  <2>1. k \in 1 .. l + 1 /\ fs2[k] = fs[k]
    BY DEF Extends
  <2>2. QED
    BY <2>1 DEF Tied
<1>5. ASSUME NEW i \in 1 .. n
      PROVE  /\ fs2[f[i]].user = d[i] /\ fs2[f[i]].fd = r2[i]
             /\ Gets(fs2[f[i]].file, t2, r2, d, 1, i - 1, d[i])
  <2>1. n <= n
    OBVIOUS
  <2>2. Knows(fs[f[i]], d, t2, r2, i)
    BY <2>1, TiedGets
  <2>3. QED
    BY <1>3, <2>2 DEF Knows
<1>6. QED
  BY <1>1, <1>2, <1>4, <1>5 DEF Tied

\* A command notes an operation.
LEMMA TiedNote ==
  ASSUME NEW f, NEW fs, NEW l \in Nat, NEW d, NEW n \in Nat, NEW t, NEW r,
         Tied(f, fs, l, d, n, t, r), NEW d2, NEW t2, NEW r2, Alike(t, r, d, t2, r2, d2, 1, n),
         SameTargets(t, r, d, t2, r2, n), NEW fs2, Extends(fs, fs2, l),
         fs2[l + 1].kind \in Defers, fs2[l + 1].user = d2[n + 1], fs2[l + 1].fd = r2[n + 1],
         Gets(fs2[l + 1].file, t2, r2, d2, 1, n, d2[n + 1])
  PROVE  \E g : Tied(g, fs2, l + 1, d2, n + 1, t2, r2)
<1>. DEFINE g == [i \in 1 .. n + 1 |-> IF i = n + 1 THEN l + 1 ELSE f[i]]
<1>1. g[n + 1] = l + 1 /\ \A i \in 1 .. n : g[i] = f[i]
  OBVIOUS
<1>. HIDE DEF g
<1>2. PICK p \in Nat : p = l + 1
  OBVIOUS
<1>3. PICK q \in Nat : q = n + 1
  OBVIOUS
<1>4. /\ g[q] = p
      /\ \A i \in 1 .. n : g[i] = f[i] /\ g[i] \in 1 .. l /\ fs2[g[i]] = fs[f[i]]
  BY <1>1, <1>2, <1>3 DEF Tied, Extends
<1>5. \A i \in 1 .. q : g[i] \in 1 .. p
  <2>. SUFFICES ASSUME NEW i \in 1 .. q PROVE g[i] \in 1 .. p
    OBVIOUS
  <2>1. i = q \/ i \in 1 .. n
    BY <1>3
  <2>2. p \in 1 .. p /\ \A k \in 1 .. l : k \in 1 .. p
    BY <1>2
  <2>3. QED
    BY <1>4, <2>1, <2>2
<1>6. \A i, j \in 1 .. q : i < j => g[i] < g[j]
  <2>. SUFFICES ASSUME NEW i \in 1 .. q, NEW j \in 1 .. q, i < j PROVE g[i] < g[j]
    OBVIOUS
  <2>1. i \in 1 .. n /\ (j = q \/ j \in 1 .. n)
    BY <1>3
  <2>2. CASE j = q
    BY <1>2, <1>4, <2>1, <2>2
  <2>3. CASE j \in 1 .. n
    BY <1>4, <2>1, <2>3 DEF Tied
  <2>4. QED
    BY <2>1, <2>2, <2>3
<1>7. ASSUME NEW k \in 1 .. p PROVE fs2[k].kind \in Defers <=> \E i \in 1 .. q : g[i] = k
  <2>1. CASE k = p
    <3>1. fs2[k].kind \in Defers /\ q \in 1 .. q /\ g[q] = k
      BY <1>2, <1>3, <1>4, <2>1
    <3>2. QED
      BY <3>1
  <2>2. CASE k # p
    <3>1. k \in 1 .. l /\ fs2[k] = fs[k]
      BY <1>2, <2>2 DEF Extends
    <3>2. fs2[k].kind \in Defers <=> \E i \in 1 .. n : f[i] = k
      BY <3>1 DEF Tied
    <3>3. (\E i \in 1 .. n : f[i] = k) => \E i \in 1 .. q : g[i] = k
      BY <1>3, <1>4
    <3>4. ASSUME NEW i \in 1 .. q, g[i] = k PROVE \E j \in 1 .. n : f[j] = k
      <4>1. i # q
        BY <1>4, <2>2, <3>4
      <4>2. i \in 1 .. n
        BY <1>3, <4>1
      <4>3. QED
        BY <1>4, <3>4, <4>2
    <3>5. QED
      BY <3>2, <3>3, <3>4
  <2>3. QED
    BY <2>1, <2>2
<1>8. ASSUME NEW i \in 1 .. q
      PROVE  /\ fs2[g[i]].user = d2[i] /\ fs2[g[i]].fd = r2[i]
             /\ Gets(fs2[g[i]].file, t2, r2, d2, 1, i - 1, d2[i])
  <2>1. CASE i = q
    <3>1. i - 1 = n
      BY <1>3, <2>1
    <3>2. QED
      BY <1>2, <1>3, <1>4, <2>1, <3>1
  <2>2. CASE i # q
    <3>1. i \in 1 .. n
      BY <1>3, <2>2
    <3>2. n <= n
      OBVIOUS
    <3>3. Knows(fs[f[i]], d2, t2, r2, i)
      BY <3>1, <3>2, TiedGets
    <3>4. QED
      BY <1>4, <3>1, <3>3 DEF Knows
  <2>3. QED
    BY <2>1, <2>2
<1>9. Tied(g, fs2, p, d2, q, t2, r2)
  BY <1>5, <1>6, <1>7, <1>8 DEF Tied
<1>10. QED
  BY <1>2, <1>3, <1>9

\* The innermost of the commands that noted an operation noted the last one.
LEMMA TiedLast ==
  ASSUME NEW f, NEW fs, NEW l \in Nat, NEW d, NEW n \in Nat, NEW t, NEW r,
         Tied(f, fs, l + 1, d, n, t, r), fs[l + 1].kind \in Defers
  PROVE  n > 0 /\ f[n] = l + 1
<1>1. PICK p \in Nat : p = l + 1 /\ p \in 1 .. p
  OBVIOUS
<1>2. PICK i \in 1 .. n : f[i] = p
  BY <1>1 DEF Tied
<1>3. i = n
  <2>. SUFFICES ASSUME i < n PROVE FALSE
    OBVIOUS
  <2>1. n \in 1 .. n /\ f[n] \in 1 .. p /\ f[i] < f[n]
    BY <1>1 DEF Tied
  <2>2. QED
    BY <1>1, <1>2, <2>1
<1>4. QED
  BY <1>1, <1>2, <1>3

\* It ends, and undoes it.
LEMMA TiedUndo ==
  ASSUME NEW f, NEW fs, NEW l \in Nat, NEW d, NEW n \in Nat, NEW t, NEW r,
         Tied(f, fs, l + 1, d, n + 1, t, r), fs[l + 1].kind \in Defers, NEW d2, NEW t2, NEW r2,
         Alike(t, r, d, t2, r2, d2, 1, n), SameTargets(t, r, d, t2, r2, n), NEW fs2,
         Extends(fs, fs2, l)
  PROVE  Tied(f, fs2, l, d2, n, t2, r2)
<1>1. PICK p \in Nat : p = l + 1
  OBVIOUS
<1>2. PICK q \in Nat : q = n + 1 /\ q > 0
  OBVIOUS
<1>3. Tied(f, fs, p, d, q, t, r)
  BY <1>1, <1>2
<1>4. f[q] = p
  <2>1. Tied(f, fs, l + 1, d, q, t, r)
    BY <1>2
  <2>2. q > 0 /\ f[q] = l + 1
    BY <2>1, TiedLast
  <2>3. QED
    BY <1>1, <2>2
<1>5. ASSUME NEW i \in 1 .. n PROVE f[i] \in 1 .. l
  <2>1. i \in 1 .. q /\ q \in 1 .. q /\ i < q
    BY <1>2
  <2>2. f[i] \in 1 .. p /\ f[i] < f[q]
    BY <1>3, <2>1 DEF Tied
  <2>3. QED
    BY <1>1, <1>4, <2>2
<1>6. \A i, j \in 1 .. n : i < j => f[i] < f[j]
  BY <1>2, <1>3 DEF Tied
<1>7. \A i \in 1 .. n : fs2[f[i]] = fs[f[i]]
  BY <1>5 DEF Extends
<1>8. ASSUME NEW k \in 1 .. l PROVE fs2[k].kind \in Defers <=> \E i \in 1 .. n : f[i] = k
  <2>1. k \in 1 .. p /\ fs2[k] = fs[k] /\ k # p
    BY <1>1 DEF Extends
  <2>2. fs[k].kind \in Defers <=> \E i \in 1 .. q : f[i] = k
    BY <1>3, <2>1 DEF Tied
  <2>3. ASSUME NEW i \in 1 .. q, f[i] = k PROVE i \in 1 .. n
    BY <1>2, <1>4, <2>1, <2>3
  <2>4. 1 .. n \subseteq 1 .. q
    BY <1>2
  <2>5. QED
    BY <2>1, <2>2, <2>3, <2>4
<1>9. ASSUME NEW i \in 1 .. n
      PROVE  /\ fs2[f[i]].user = d2[i] /\ fs2[f[i]].fd = r2[i]
             /\ Gets(fs2[f[i]].file, t2, r2, d2, 1, i - 1, d2[i])
  <2>1. n <= q
    BY <1>2
  <2>2. Knows(fs[f[i]], d2, t2, r2, i)
    BY <1>3, <2>1, TiedGets
  <2>3. QED
    BY <1>7, <2>2 DEF Knows
<1>10. QED
  BY <1>5, <1>6, <1>8, <1>9 DEF Tied

-----------------------------------------------------------------------------
(* The invariant. *)

\* What the programs have to avoid for the properties to hold (section 6 of the
\* README): they redirect, and connect by pipes, 0, 1 and 2 only and have at most
\* two names of pipes; or they redirect 3 and 4 too, and have no dup, no names and
\* no pipe on the left of a command.
Standard(s) ==
  s.user \subseteq 0 .. 2 /\ s.left \subseteq 0 .. 2 /\ s.right \subseteq 0 .. 2 /\ s.names <= 2

Wider(s) ==
  /\ s.user \subseteq 0 .. 4 /\ s.left \subseteq 0 .. 2
  /\ s.dup = {} /\ s.right = {} /\ s.names = 0

Careful ==
  /\ ExecInRedir = FALSE /\ HereInChild = FALSE /\ CloseStd = FALSE
  /\ \A s \in Setups : Standard(s) \/ Wider(s)

Kinds == {"redir", "here", "done", "seq", "exec", "child", "readfrom"}

FrameType == [kind : Kinds, inchild : BOOLEAN, user : Fd, file : Files, fd : Fd \cup {-1}]

\* What the program has open besides 0, 1 and 2.
AboveLow(v) == {n \in Fd : n > 2 /\ v[n] # Closed}

\* It is never much.
Few(s, v) ==
  IF Standard(s) THEN Cardinality(AboveLow(v)) <= s.names ELSE AboveLow(v) \subseteq {3, 4}

\* Nothing is noted where operations are done at once.
Direct(fs, l) == \A k \in 1 .. l : fs[k].inchild => \A j \in 1 .. k : fs[j].kind \notin Defers

\* The number of a pipe's name is open, and nobody else's.
Named(s, fs, l, t, r) ==
  /\ \A k \in 1 .. l : fs[k].kind = "readfrom" =>
       /\ Standard(s) /\ fs[k].fd \in Fd /\ fs[k].fd >= 3
       /\ t[fs[k].fd] # Closed /\ ~Holds(r, fs[k].fd)
  /\ \A k, j \in 1 .. l :
       fs[k].kind = "readfrom" /\ fs[j].kind = "readfrom" /\ fs[k].fd = fs[j].fd => k = j

Types ==
  /\ setup \in Setups /\ view \in [Fd -> Files] /\ frames \in Seq(FrameType)
  /\ deftab \in Seq(setup.user) /\ Len(deftab) <= MaxDepth
  /\ DOMAIN reserved = 0 .. Len(deftab)

IInv ==
  /\ Types
  /\ Sound(table, reserved) /\ Targets(reserved, deftab, 1, Len(deftab))
  /\ Means(view, table, reserved, deftab, 1, Len(deftab)) /\ Few(setup, view)
  /\ \E f : Tied(f, frames, Len(frames), deftab, Len(deftab), table, reserved)
  /\ Direct(frames, Len(frames)) /\ Named(setup, frames, Len(frames), table, reserved)

\* The types of the setups.
LEMMA SetupIs ==
  ASSUME Careful, setup \in Setups
  PROVE  /\ setup.user \subseteq Fd /\ setup.dup \subseteq Fd /\ setup.names \in Nat
         /\ setup.left \subseteq 0 .. 2 /\ setup.right \subseteq 0 .. 2 /\ 0 .. 2 \subseteq Fd
         /\ setup.input \in {0, 3} /\ (Standard(setup) \/ Wider(setup))
         /\ setup.user \subseteq 0 .. 4
<1>1. setup \in Setup
  BY SetupAssumption
<1>2. Standard(setup) \/ Wider(setup)
  BY DEF Careful
<1>3. 0 .. 2 \subseteq Fd /\ 0 .. 2 \subseteq 0 .. 4
  BY FdCount DEF Fd
<1>4. QED
  BY <1>1, <1>2, <1>3 DEF Setup, Standard, Wider

\* The descriptors that are open for the program's sake, or may be.
Usual(s, v) == (0 .. 2) \cup (IF Standard(s) THEN AboveLow(v) ELSE {3, 4})

\* They are five at most.
LEMMA UsualIs ==
  ASSUME Careful, setup \in Setups, Few(setup, view)
  PROVE  /\ IsFiniteSet(Usual(setup, view)) /\ Cardinality(Usual(setup, view)) <= 5
         /\ Cardinality(Usual(setup, view)) \in Nat
         /\ setup.user \subseteq Usual(setup, view) /\ AboveLow(view) \subseteq Usual(setup, view)
         /\ 0 .. 2 \subseteq Usual(setup, view)
<1>1. PICK B : B = IF Standard(setup) THEN AboveLow(view) ELSE {3, 4}
  OBVIOUS
<1>2. IsFiniteSet(B) /\ Cardinality(B) \in Nat /\ Cardinality(B) <= 2
  <2>1. CASE Standard(setup)
    <3>1. B = AboveLow(view) /\ Cardinality(B) <= 2
      <4>1. B = AboveLow(view) /\ Cardinality(B) <= setup.names /\ setup.names <= 2
        BY <1>1, <2>1 DEF Few, Standard
      <4>2. B \in SUBSET Fd
        BY <4>1 DEF AboveLow
      <4>3. IsFiniteSet(B)
        BY <4>2, FdCount, FS_Subset
      <4>4. Cardinality(B) \in Nat
        BY <4>3, FS_CardinalityType
      <4>5. setup.names \in Nat
        BY SetupIs
      <4>6. QED
        BY <4>1, <4>4, <4>5
    <3>2. B \in SUBSET Fd
      BY <3>1 DEF AboveLow
    <3>3. IsFiniteSet(B)
      BY <3>2, FdCount, FS_Subset
    <3>4. QED
      BY <3>1, <3>3, FS_CardinalityType
  <2>2. CASE ~Standard(setup)
    <3>1. B = 3 .. 4
      BY <1>1, <2>2
    <3>2. PICK a \in Int, b \in Int : a = 3 /\ b = 4
      OBVIOUS
    <3>3. a \in Int /\ b \in Int
      OBVIOUS
    <3>4. IsFiniteSet(a .. b) /\ Cardinality(a .. b) = IF a > b THEN 0 ELSE b - a + 1
      BY ONLY <3>3, FS_Interval
    <3>5. QED
      BY <3>1, <3>2, <3>4
  <2>3. QED
    BY <2>1, <2>2
<1>3. PICK L : L = 0 .. 2
  OBVIOUS
<1>4. IsFiniteSet(L) /\ Cardinality(L) = 3
  <2>1. PICK a \in Int, b \in Int : a = 0 /\ b = 2
    OBVIOUS
  <2>2. a \in Int /\ b \in Int
    OBVIOUS
  <2>3. IsFiniteSet(a .. b) /\ Cardinality(a .. b) = IF a > b THEN 0 ELSE b - a + 1
    BY ONLY <2>2, FS_Interval
  <2>4. QED
    BY <1>3, <2>1, <2>3
<1>5. PICK U : U = L \cup B
  OBVIOUS
<1>6. /\ IsFiniteSet(U) /\ Cardinality(U) = Cardinality(L) + Cardinality(B) - Cardinality(L \cap B)
      /\ Cardinality(L \cap B) \in Nat
  <2>1. IsFiniteSet(L \cup B)
        /\ Cardinality(L \cup B) = Cardinality(L) + Cardinality(B) - Cardinality(L \cap B)
    BY <1>2, <1>4, FS_Union
  <2>2. L \cap B \in SUBSET L
    OBVIOUS
  <2>3. IsFiniteSet(L \cap B)
    BY <1>4, <2>2, FS_Subset
  <2>4. Cardinality(L \cap B) \in Nat
    BY <2>3, FS_CardinalityType
  <2>5. QED
    BY <1>5, <2>1, <2>4
<1>7. Cardinality(U) \in Nat /\ Cardinality(U) <= 5
  <2>1. Cardinality(U) \in Nat
    BY <1>6, FS_CardinalityType
  <2>2. QED
    BY <1>2, <1>4, <1>6, <2>1
<1>8. setup.user \subseteq U
  <2>1. CASE Standard(setup)
    BY <1>3, <1>5, <2>1 DEF Standard
  <2>2. CASE ~Standard(setup)
    <3>1. setup.user \subseteq 0 .. 4 /\ B = {3, 4}
      BY <1>1, <2>2, SetupIs
    <3>2. 0 .. 4 = (0 .. 2) \cup {3, 4}
      OBVIOUS
    <3>3. QED
      BY <1>3, <1>5, <3>1, <3>2
  <2>3. QED
    BY <2>1, <2>2
<1>9. AboveLow(view) \subseteq U
  BY <1>1, <1>5 DEF Few
<1>10. U = Usual(setup, view)
  BY <1>1, <1>3, <1>5 DEF Usual
<1>11. QED
  BY <1>3, <1>5, <1>6, <1>7, <1>8, <1>9, <1>10

-----------------------------------------------------------------------------
(* There are always descriptors and files left. *)

\* Of the operations on a number, one is the last.
LEMMA LastExists ==
  ASSUME NEW d, NEW n \in Nat, NEW u, NEW i \in 1 .. n, d[i] = u
  PROVE  \E k \in 1 .. n : LastOf(d, k, n, u)
<1>. DEFINE S == {m \in Nat : m < n /\ d[n - m] = u}
<1>1. n - i \in S
  <2>1. n - i \in Nat /\ n - i < n /\ n - (n - i) = i
    OBVIOUS
  <2>2. QED
    BY <2>1
<1>2. S \subseteq Nat
  OBVIOUS
<1>3. PICK m \in S : \A l \in S : m <= l
  <2>. HIDE DEF S
  <2>1. QED
    BY <1>1, <1>2, LeastOf
<1>4. m \in Nat /\ m < n /\ d[n - m] = u
  OBVIOUS
<1>5. PICK k \in 1 .. n : k = n - m
  BY <1>4
<1>6. ASSUME NEW j \in k + 1 .. n PROVE d[j] # u
  <2>1. n - j \in Nat /\ n - j < n /\ n - (n - j) = j /\ n - j < m
    BY <1>4, <1>5
  <2>2. n - j \notin S
    BY <1>3, <2>1
  <2>3. QED
    BY <2>1, <2>2
<1>7. QED
  BY <1>4, <1>5, <1>6 DEF LastOf

\* The shell holds at most one number for its input, and one for each operation.
LEMMA HeldFew ==
  ASSUME NEW r, NEW n \in Nat, DOMAIN r = 0 .. n
  PROVE  LET H == {r[k] : k \in 0 .. n}
         IN  IsFiniteSet(H) /\ Cardinality(H) \in Nat /\ Cardinality(H) <= n + 1
<1>. DEFINE H == {r[k] : k \in 0 .. n}
            f == [k \in 0 .. n |-> r[k]]
<1>1. PICK a \in Int, b \in Int : a = 0 /\ b = n
  OBVIOUS
<1>2. a \in Int /\ b \in Int
  OBVIOUS
<1>3. IsFiniteSet(a .. b) /\ Cardinality(a .. b) = IF a > b THEN 0 ELSE b - a + 1
  BY ONLY <1>2, FS_Interval
<1>4. PICK D : D = 0 .. n
  OBVIOUS
<1>5. IsFiniteSet(D) /\ Cardinality(D) = n + 1
  BY <1>1, <1>3, <1>4
<1>6. f \in Surjection(D, H)
  BY <1>4 DEF Surjection
<1>7. IsFiniteSet(H) /\ Cardinality(H) <= Cardinality(D)
  <2>. HIDE DEF f, H
  <2>1. QED
    BY <1>5, <1>6, FS_Surjection
<1>8. Cardinality(H) \in Nat
  BY <1>7, FS_CardinalityType
<1>9. QED
  BY <1>5, <1>7, <1>8

\* What is open is what the program has open, or may have, and what the shell holds.
LEMMA OpenIs ==
  ASSUME Careful, IInv, NEW m \in Fd, table[m] # Closed, ~Holds(reserved, m)
  PROVE  m \in Usual(setup, view)
<1>1. setup \in Setups /\ Few(setup, view) /\ deftab \in Seq(setup.user)
  BY DEF IInv, Types
<1>2. /\ setup.user \subseteq Usual(setup, view) /\ AboveLow(view) \subseteq Usual(setup, view)
      /\ 0 .. 2 \subseteq Usual(setup, view)
  BY <1>1, UsualIs
<1>3. CASE \E i \in 1 .. Len(deftab) : deftab[i] = m
  <2>1. PICK i \in 1 .. Len(deftab) : deftab[i] = m
    BY <1>3
  <2>2. deftab[i] \in setup.user
    BY <1>1, ElementOfSeq
  <2>3. QED
    BY <1>2, <2>1, <2>2
<1>4. CASE \A i \in 1 .. Len(deftab) : deftab[i] # m
  <2>1. Gets(view[m], table, reserved, deftab, 1, Len(deftab), m)
    BY DEF IInv, Means
  <2>2. view[m] = Base(table, reserved, m)
    BY <1>4, <2>1 DEF Gets
  <2>3. view[m] # Closed
    BY <2>2 DEF Base
  <2>4. m \in 0 .. 2 \/ m > 2
    BY FdCount
  <2>5. QED
    BY <1>2, <2>3, <2>4 DEF AboveLow
<1>5. QED
  BY <1>3, <1>4

\* The least that is still free: three descriptors, for a pipe and one to give way.
LEMMA RoomNow ==
  ASSUME Careful, IInv
  PROVE  Room(table, 3) /\ Ready(view, table, reserved, 1, Len(deftab))
<1>1. PICK n \in Nat : n = Len(deftab)
  BY LenProperties DEF IInv, Types
<1>2. PICK U : U = Usual(setup, view)
  OBVIOUS
<1>3. IsFiniteSet(U) /\ Cardinality(U) <= 5 /\ Cardinality(U) \in Nat
  <2>1. setup \in Setups /\ Few(setup, view)
    BY DEF IInv, Types
  <2>2. QED
    BY <1>2, <2>1, UsualIs
<1>4. PICK H : H = {reserved[k] : k \in 0 .. n}
  OBVIOUS
<1>5. IsFiniteSet(H) /\ Cardinality(H) \in Nat /\ Cardinality(H) <= n + 1
  <2>1. DOMAIN reserved = 0 .. n
    BY <1>1 DEF IInv, Types
  <2>2. QED
    BY <1>4, <2>1, HeldFew
<1>6. PICK S : S = U \cup H
  OBVIOUS
<1>7. IsFiniteSet(S) /\ Cardinality(S) \in Nat /\ Cardinality(S) <= n + 6
  <2>1. IsFiniteSet(U \cup H)
        /\ Cardinality(U \cup H) = Cardinality(U) + Cardinality(H) - Cardinality(U \cap H)
    BY <1>3, <1>5, FS_Union
  <2>2. U \cap H \in SUBSET U
    OBVIOUS
  <2>3. IsFiniteSet(U \cap H)
    BY <1>3, <2>2, FS_Subset
  <2>4. Cardinality(U \cap H) \in Nat
    BY <2>3, FS_CardinalityType
  <2>5. Cardinality(S) \in Nat
    BY <1>6, <2>1, FS_CardinalityType
  <2>6. QED
    BY <1>3, <1>5, <1>6, <2>1, <2>4, <2>5
<1>8. OpenIn(table) \in SUBSET S
  <2>. SUFFICES ASSUME NEW m \in Fd, table[m] # Closed PROVE m \in S
    BY DEF OpenIn
  <2>1. CASE Holds(reserved, m)
    <3>1. PICK k \in DOMAIN reserved : reserved[k] = m
      BY <2>1 DEF Holds
    <3>2. k \in 0 .. n
      BY <1>1, <3>1 DEF IInv, Types
    <3>3. QED
      BY <1>4, <1>6, <3>1, <3>2
  <2>2. CASE ~Holds(reserved, m)
    BY <1>2, <1>6, <2>2, OpenIs
  <2>3. QED
    BY <2>1, <2>2
<1>9. Cardinality(OpenIn(table)) \in Nat /\ Cardinality(OpenIn(table)) <= Cardinality(S)
  BY <1>7, <1>8, OpenFinite, FS_Subset
<1>10. n <= MaxDepth /\ MaxDepth \in Nat
  BY <1>1, FdCount DEF IInv, Types
<1>11. Room(table, 3) /\ Room(table, 0)
  BY <1>7, <1>9, <1>10 DEF Room
<1>12. QED
  BY <1>11 DEF IInv, Ready

\* Every file that the program has open is open in the shell.
LEMMA FileIsOpen ==
  ASSUME IInv, NEW n \in Fd, view[n] # Closed
  PROVE  \E m \in OpenIn(table) : table[m] = view[n]
<1>1. PICK l \in Nat : l = Len(deftab)
  BY LenProperties DEF IInv, Types
<1>2. Gets(view[n], table, reserved, deftab, 1, l, n)
  BY <1>1 DEF IInv, Means
<1>3. CASE \E i \in 1 .. l : deftab[i] = n
  <2>1. PICK i \in 1 .. l : LastOf(deftab, i, l, n)
    BY <1>3, LastExists
  <2>2. view[n] = FileOf(table, reserved[i])
    BY <1>2, <2>1 DEF Gets
  <2>3. i \in DOMAIN reserved
    BY <1>1 DEF IInv, Targets
  <2>4. reserved[i] # -1 /\ view[n] = table[reserved[i]]
    BY <2>2 DEF FileOf
  <2>5. reserved[i] \in Fd
    BY <2>3, <2>4 DEF IInv, Sound
  <2>6. QED
    BY <2>4, <2>5 DEF OpenIn
<1>4. CASE \A i \in 1 .. l : deftab[i] # n
  <2>1. view[n] = Base(table, reserved, n)
    BY <1>2, <1>4 DEF Gets
  <2>2. view[n] = table[n]
    BY <2>1 DEF Base
  <2>3. QED
    BY <2>2 DEF OpenIn
<1>5. QED
  BY <1>3, <1>4

\* There are files that nobody has open.
LEMMA NewFiles ==
  ASSUME Careful, IInv
  PROVE  NewFile \in Files \ {Closed} /\ NewFile2 \in Files \ {Closed}
<1>. DEFINE O == OpenIn(table)
            R == {table[m] : m \in O}
            f == [m \in O |-> table[m]]
            Unused(g) == \A n \in Fd : table[n] # g /\ view[n] # g
<1>1. Cardinality(O) \in Nat /\ Cardinality(O) <= 6 + MaxDepth /\ IsFiniteSet(O)
  <2>1. Room(table, 3)
    BY RoomNow
  <2>2. QED
    BY <2>1, OpenFinite, FdCount DEF Room
<1>2. f \in Surjection(O, R)
  BY DEF Surjection
<1>3. IsFiniteSet(R) /\ Cardinality(R) <= Cardinality(O)
  <2>. HIDE DEF f, R, O
  <2>1. QED
    BY <1>1, <1>2, FS_Surjection
<1>4. Cardinality(R) \in Nat
  BY <1>3, FS_CardinalityType
<1>5. \A g \in Files \ {Closed} : g \notin R => Unused(g)
  <2>. SUFFICES ASSUME NEW g \in Files \ {Closed}, g \notin R, NEW n \in Fd
                PROVE  table[n] # g /\ view[n] # g
    OBVIOUS
  <2>1. table[n] # g
    BY DEF OpenIn
  <2>2. view[n] # g
    BY FileIsOpen
  <2>3. QED
    BY <2>1, <2>2
<1>. HIDE DEF O, R, f
<1>6. PICK F : F = 1 .. MaxFd + 3
  OBVIOUS
<1>7. IsFiniteSet(F) /\ Cardinality(F) = 12 + MaxDepth /\ F \subseteq Files \ {Closed}
  <2>1. PICK a \in Int, b \in Int : a = 1 /\ b = MaxFd + 3
    BY FdCount
  <2>2. a \in Int /\ b \in Int
    OBVIOUS
  <2>3. IsFiniteSet(a .. b) /\ Cardinality(a .. b) = IF a > b THEN 0 ELSE b - a + 1
    BY ONLY <2>2, FS_Interval
  <2>4. F \subseteq Files \ {Closed}
    BY <1>6, FdCount DEF Files, Closed
  <2>5. QED
    BY <1>6, <2>1, <2>3, <2>4, FdCount
<1>8. MaxDepth \in Nat
  BY FdCount
<1>9. ASSUME NEW T, IsFiniteSet(T), Cardinality(T) \in Nat, Cardinality(T) < Cardinality(F)
      PROVE  \E g \in F : g \notin T
  <2>. SUFFICES ASSUME F \subseteq T PROVE FALSE
    OBVIOUS
  <2>1. F \in SUBSET T
    OBVIOUS
  <2>2. Cardinality(F) <= Cardinality(T)
    BY <1>9, <2>1, FS_Subset
  <2>3. QED
    BY <1>7, <1>8, <1>9, <2>2
<1>10. \E g \in Files \ {Closed} : Unused(g)
  <2>1. Cardinality(R) < Cardinality(F)
    BY <1>1, <1>3, <1>4, <1>7, <1>8
  <2>2. PICK g \in F : g \notin R
    BY <1>3, <1>4, <1>9, <2>1
  <2>3. QED
    BY <1>5, <1>7, <2>2
<1>11. NewFile \in Files \ {Closed}
  BY <1>10 DEF NewFile
<1>12. \E g \in Files \ {Closed, NewFile} : Unused(g)
  <2>1. PICK h : h = NewFile
    OBVIOUS
  <2>2. PICK T : T = R \cup {h}
    OBVIOUS
  <2>3. IsFiniteSet(T) /\ Cardinality(T) \in Nat /\ Cardinality(T) <= Cardinality(R) + 1
    <3>1. /\ IsFiniteSet(T)
          /\ Cardinality(T) = IF h \in R THEN Cardinality(R) ELSE Cardinality(R) + 1
      BY ONLY <1>3, <2>2, FS_AddElement
    <3>2. QED
      BY <1>4, <3>1
  <2>4. Cardinality(T) < Cardinality(F)
    BY <1>1, <1>3, <1>4, <1>7, <1>8, <2>3
  <2>5. PICK g \in F : g \notin T
    BY <1>9, <2>3, <2>4
  <2>6. QED
    BY <1>5, <1>7, <2>1, <2>2, <2>5
<1>13. NewFile2 \in Files \ {Closed}
  BY <1>12 DEF NewFile2
<1>14. QED
  BY <1>11, <1>13

\* There are as many commands as operations, at least.
LEMMA TiedFew ==
  ASSUME NEW f, NEW fs, NEW l \in Nat, NEW d, NEW n \in Nat, NEW t, NEW r,
         Tied(f, fs, l, d, n, t, r)
  PROVE  n <= l
<1>1. /\ \A i \in 1 .. n : f[i] \in 1 .. l
      /\ \A i, j \in 1 .. n : i < j => f[i] < f[j]
  BY DEF Tied
<1>. DEFINE Bad == {i \in 1 .. n : f[i] < i}
<1>2. Bad = {}
  <2>. SUFFICES ASSUME Bad # {} PROVE FALSE
    OBVIOUS
  <2>1. Bad \subseteq Nat
    OBVIOUS
  <2>2. PICK m \in Bad : \A j \in Bad : m <= j
    <3>. HIDE DEF Bad
    <3>1. QED
      BY <2>1, LeastOf
  <2>3. m \in 1 .. n /\ f[m] < m
    OBVIOUS
  <2>4. m # 1
    BY <1>1, <2>3
  <2>5. m - 1 \in 1 .. n /\ m - 1 \notin Bad
    BY <2>2, <2>3, <2>4
  <2>6. f[m - 1] >= m - 1 /\ f[m - 1] < f[m] /\ f[m - 1] \in Int /\ f[m] \in Int
    BY <1>1, <2>3, <2>5
  <2>7. QED
    BY <2>3, <2>6
<1>3. CASE n = 0
  BY <1>3
<1>4. CASE n # 0
  <2>1. n \in 1 .. n /\ n \notin Bad
    BY <1>2, <1>4
  <2>2. QED
    BY <1>1, <2>1
<1>5. QED
  BY <1>3, <1>4

\* Where operations are done at once, none is noted.
LEMMA InchildEmpty ==
  ASSUME IInv, Inchild
  PROVE  Len(deftab) = 0
<1>1. PICK l \in Nat : l = Len(frames)
  BY LenProperties DEF IInv, Types
<1>2. PICK n \in Nat : n = Len(deftab)
  BY LenProperties DEF IInv, Types
<1>3. PICK f : Tied(f, frames, l, deftab, n, table, reserved)
  BY <1>1, <1>2 DEF IInv
<1>4. frames # <<>> /\ Last(frames) = frames[l]
  BY <1>1 DEF Inchild, Last
<1>5. l > 0
  BY <1>1, <1>4, EmptySeq DEF IInv, Types
<1>6. l \in 1 .. l /\ frames[l].inchild
  BY <1>4, <1>5 DEF Inchild
<1>7. \A j \in 1 .. l : frames[j].kind \notin Defers
  BY <1>1, <1>6 DEF IInv, Direct
<1>8. n = 0
  <2>. SUFFICES ASSUME n # 0 PROVE FALSE
    OBVIOUS
  <2>1. 1 \in 1 .. n
    OBVIOUS
  <2>2. f[1] \in 1 .. l /\ frames[f[1]].kind \in Defers
    BY <1>3, <2>1 DEF Tied
  <2>3. QED
    BY <1>7, <2>2
<1>9. QED
  BY <1>2, <1>8

-----------------------------------------------------------------------------
(* What the program has open above 2 stays little. *)

\* It has less.
LEMMA FewLess ==
  ASSUME Careful, setup \in Setups, NEW v, Few(setup, v), NEW w,
         \A n \in Fd : n > 2 /\ w[n] # Closed => v[n] # Closed
  PROVE  Few(setup, w)
<1>1. PICK A : A = AboveLow(v)
  OBVIOUS
<1>2. PICK B : B = AboveLow(w)
  OBVIOUS
<1>3. B \in SUBSET A /\ A \in SUBSET Fd
  BY <1>1, <1>2 DEF AboveLow
<1>4. IsFiniteSet(A)
  BY <1>3, FdCount, FS_Subset
<1>5. IsFiniteSet(B) /\ Cardinality(B) <= Cardinality(A)
  BY <1>3, <1>4, FS_Subset
<1>6. Cardinality(A) \in Nat /\ Cardinality(B) \in Nat /\ setup.names \in Nat
  BY <1>4, <1>5, FS_CardinalityType, SetupIs
<1>7. QED
  BY <1>1, <1>2, <1>3, <1>5, <1>6 DEF Few

\* A redirection or a pipe changes what it has at one number.
LEMMA FewAt ==
  ASSUME Careful, setup \in Setups, NEW v \in [Fd -> Files], Few(setup, v), NEW u \in Fd,
         u \in 0 .. 2 \/ u \in setup.user, NEW f
  PROVE  Few(setup, [v EXCEPT ![u] = f])
<1>1. PICK w : w = [v EXCEPT ![u] = f]
  OBVIOUS
<1>2. \A n \in Fd : n # u => w[n] = v[n]
  BY <1>1
<1>3. CASE u \in 0 .. 2
  <2>1. \A n \in Fd : n > 2 => w[n] = v[n]
    BY <1>2, <1>3
  <2>2. Few(setup, w)
    BY <2>1, FewLess
  <2>3. QED
    BY <1>1, <2>2
<1>4. CASE u \notin 0 .. 2
  <2>1. ~Standard(setup) /\ u \in 0 .. 4
    BY <1>4, SetupIs DEF Standard
  <2>2. u \in {3, 4}
    BY <1>4, <2>1
  <2>3. AboveLow(v) \subseteq {3, 4}
    BY <2>1 DEF Few
  <2>4. AboveLow(w) \subseteq {3, 4}
    BY <1>2, <2>2, <2>3 DEF AboveLow
  <2>5. QED
    BY <1>1, <2>1, <2>4 DEF Few
<1>5. QED
  BY <1>3, <1>4

-----------------------------------------------------------------------------
(* The invariant holds at the beginning, and in a new child. *)

\* The beginning.
LEMMA InitIInv ==
  ASSUME Careful, Init
  PROVE  IInv
<1>1. /\ setup \in Setups /\ setup.input \in {0, 3} /\ setup.names \in Nat
      /\ Standard(setup) \/ Wider(setup)
  BY SetupIs DEF Init
<1>2. 0 .. 3 \subseteq Fd /\ Fd \subseteq Nat /\ 0 .. 4 \subseteq Files /\ -1 \notin Fd
  BY FdCount DEF Fd, Files
<1>3. /\ table = [n \in Fd |-> IF n \in 0 .. 2 THEN n + 1
                               ELSE IF n = setup.input THEN 4 ELSE Closed]
      /\ view = [n \in Fd |-> IF n \in 0 .. 2 THEN n + 1 ELSE Closed]
      /\ deftab = <<>> /\ frames = <<>> /\ reserved = [r \in {Input} |-> setup.input]
  BY DEF Init
<1>4. Len(deftab) = 0 /\ Len(frames) = 0
  BY <1>3
<1>5. DOMAIN reserved = {0} /\ DOMAIN reserved = 0 .. 0 /\ reserved[0] = setup.input
  BY <1>3 DEF Input
<1>6. table \in [Fd -> Files] /\ view \in [Fd -> Files]
  <2>1. \A n \in 0 .. 2 : n + 1 \in Files
    BY <1>2
  <2>2. 4 \in Files /\ Closed \in Files
    BY <1>2 DEF Closed
  <2>3. QED
    BY <1>3, <2>1, <2>2
<1>7. /\ \A n \in 0 .. 2 : table[n] = n + 1 /\ table[n] # Closed
      /\ table[setup.input] # Closed
  BY <1>1, <1>2, <1>3 DEF Closed
<1>8. Types
  BY <1>1, <1>3, <1>4, <1>5, <1>6, EmptySeq, FdCount DEF Types
<1>9. Sound(table, reserved)
  <2>1. LowOpen(table)
    BY <1>7 DEF LowOpen
  <2>2. reserved = [k \in DOMAIN reserved |-> reserved[k]]
    BY <1>3
  <2>3. setup.input \in Fd
    BY <1>1, <1>2
  <2>4. QED
    BY <1>5, <1>6, <1>7, <2>1, <2>2, <2>3 DEF Sound, Input
<1>10. Targets(reserved, deftab, 1, Len(deftab))
  BY <1>4 DEF Targets
<1>11. Means(view, table, reserved, deftab, 1, Len(deftab))
  <2>1. ASSUME NEW n \in Fd PROVE view[n] = Base(table, reserved, n)
    <3>1. Holds(reserved, n) <=> n = setup.input
      BY <1>5 DEF Holds
    <3>2. CASE n \in 0 .. 2
      BY <1>2, <1>3, <3>1, <3>2 DEF Base
    <3>3. CASE n \notin 0 .. 2
      <4>1. n >= 3 /\ view[n] = Closed
        BY <1>2, <1>3, <3>3
      <4>2. n # setup.input => table[n] = Closed
        BY <1>3, <3>3
      <4>3. QED
        BY <3>1, <4>1, <4>2 DEF Base
    <3>4. QED
      BY <3>2, <3>3
  <2>2. QED
    BY <1>4, <2>1 DEF Means, Gets
<1>12. Few(setup, view)
  <2>1. AboveLow(view) = {}
    BY <1>2, <1>3 DEF AboveLow
  <2>2. Cardinality({}) = 0
    BY FS_EmptySet
  <2>3. QED
    BY <1>1, <2>1, <2>2 DEF Few
<1>13. Tied(frames, frames, Len(frames), deftab, Len(deftab), table, reserved)
  BY <1>4 DEF Tied
<1>14. Direct(frames, Len(frames)) /\ Named(setup, frames, Len(frames), table, reserved)
  BY <1>4 DEF Direct, Named
<1>15. QED
  BY <1>8, <1>9, <1>10, <1>11, <1>12, <1>13, <1>14 DEF IInv

\* A new child has what the program has asked for.
LEMMA ChildIInv ==
  ASSUME Careful, setup \in Setups, NEW b \in BOOLEAN, Child(view', b), LowOpen(view'),
         view' \in [Fd -> Files], Few(setup, view')
  PROVE  IInv'
<1>1. /\ table' = view' /\ deftab' = <<>> /\ setup' = setup /\ Len(deftab') = 0
      /\ frames' = <<Frame("child", b)>> /\ Len(frames') = 1
      /\ reserved' = [r \in {Input} |-> -1]
  BY DEF Child
<1>2. /\ DOMAIN reserved' = {0} /\ DOMAIN reserved' = 0 .. 0 /\ reserved'[0] = -1
      /\ reserved' = [k \in DOMAIN reserved' |-> reserved'[k]]
  BY <1>1 DEF Input
<1>3. -1 \notin Fd /\ 0 \in Fd /\ Closed \in Files /\ MaxDepth \in Nat
  BY FdCount DEF Fd, Files, Closed
<1>4. Frame("child", b) \in FrameType /\ frames'[1].kind = "child"
  BY <1>1, <1>3 DEF Frame, FrameType, Kinds
<1>5. Types'
  <2>1. frames' \in Seq(FrameType)
    BY <1>1, <1>4
  <2>2. deftab' \in Seq(setup'.user)
    BY <1>1, EmptySeq
  <2>3. setup' \in Setups /\ Len(deftab') <= MaxDepth /\ DOMAIN reserved' = 0 .. Len(deftab')
    BY <1>1, <1>2, <1>3
  <2>4. QED
    BY <2>1, <2>2, <2>3 DEF Types
<1>6. Sound(table', reserved')
  BY <1>1, <1>2 DEF Sound
<1>7. Targets(reserved', deftab', 1, Len(deftab'))
  BY <1>1 DEF Targets
<1>8. Means(view', table', reserved', deftab', 1, Len(deftab'))
  <2>1. \A n \in Fd : ~Holds(reserved', n)
    BY <1>2, <1>3 DEF Holds
  <2>2. \A n \in Fd : view'[n] = Base(table', reserved', n)
    BY <1>1, <2>1 DEF Base
  <2>3. QED
    BY <1>1, <2>2 DEF Means, Gets
<1>9. Few(setup', view')
  BY <1>1
<1>10. Tied(frames, frames', Len(frames'), deftab', Len(deftab'), table', reserved')
  BY <1>1, <1>4 DEF Tied, Defers
<1>11. Direct(frames', Len(frames')) /\ Named(setup', frames', Len(frames'), table', reserved')
  BY <1>1, <1>4 DEF Direct, Named, Defers
<1>12. QED
  BY <1>5, <1>6, <1>7, <1>8, <1>9, <1>10, <1>11 DEF IInv

-----------------------------------------------------------------------------
(* The children. *)

\* A command that the shell starts has what the program has asked for.
LEMMA ClosefdsGives ==
  ASSUME NEW v \in [Fd -> Files], NEW t, NEW r, NEW n \in Nat, n = Len(deftab),
         Ready(v, t, r, 1, n), DOMAIN r = 0 .. n
  PROVE  Closefds([table |-> t, reserved |-> r]).table = v /\ LowOpen(v) /\ Room(v, 0)
<1>1. Input \in DOMAIN r
  BY DEF Input
<1>2. PICK t2, r2 : /\ Closefds([table |-> t, reserved |-> r]) = [table |-> t2, reserved |-> r2]
                    /\ Forkable(v, t, r, n, t2, r2)
  BY <1>1, ClosefdsIs
<1>3. DOMAIN r2 = {0} /\ r2[0] = -1
  BY <1>2 DEF Forkable, Input
<1>4. \A m \in Fd : ~Holds(r2, m)
  BY <1>3, FdCount DEF Holds
<1>5. t2 \in [Fd -> Files] /\ LowOpen(t2) /\ Room(t2, 0) /\ \A m \in Fd : t2[m] = v[m]
  BY <1>2, <1>4 DEF Forkable, Sound
<1>6. t2 = v
  BY <1>5
<1>7. QED
  BY <1>2, <1>5, <1>6

\* A file may be opened and its number registered until the fork.
Registrable(v, t, r, n, c, F, k) == n \in Nat /\ Ready(v, t, r, 1, n) /\ Openable(t, r, c, F, k)

\* It has been.
Registers(v, t, r, n, c, F, k, t2, r2) ==
  /\ Ready(v, t2, r2, 1, n) /\ Room(t2, c) /\ FileOf(t2, r2[k]) = F
  /\ DOMAIN r2 = DOMAIN r \cup {k}
  /\ \A j \in DOMAIN r : FileOf(t2, r2[j]) = FileOf(t, r[j])

\* The operations mean the same.
LEMMA RegisteredAt ==
  ASSUME NEW v, NEW t, NEW r, NEW n, NEW c, NEW F, NEW k, Registrable(v, t, r, n, c, F, k),
         NEW a, Vacant(t, a)
  PROVE  Registers(v, t, r, n, c, F, k, [t EXCEPT ![a] = F], AddTo(r, k, a))
<1>1. PICK t2 : t2 = [t EXCEPT ![a] = F]
  OBVIOUS
<1>2. PICK r2 : r2 = AddTo(r, k, a)
  OBVIOUS
<1>3. /\ n \in Nat /\ Openable(t, r, c, F, k) /\ c \in Nat
      /\ Sound(t, r) /\ Targets(r, deftab, 1, n) /\ Means(v, t, r, deftab, 1, n)
  BY DEF Registrable, Ready, Openable, Opening
<1>4. Opened(t, r, c, F, k, t2, r2)
  BY <1>1, <1>2, <1>3, RegisterKeepsAt
<1>5. /\ Sound(t2, r2) /\ Room(t2, c) /\ FileOf(t2, r2[k]) = F /\ DOMAIN r2 = DOMAIN r \cup {k}
      /\ \A j \in DOMAIN r : r2[j] = r[j] /\ FileOf(t2, r2[j]) = FileOf(t, r[j])
      /\ \A m \in Fd : Base(t2, r2, m) = Base(t, r, m)
  BY <1>4 DEF Opened
<1>6. Targets(r2, deftab, 1, n)
  BY <1>3, <1>5 DEF Targets
<1>7. Alike(t, r, deftab, t2, r2, deftab, 1, n)
  BY <1>3, <1>5 DEF Alike, Targets
<1>8. SameBase(t, r, t2, r2)
  BY <1>5 DEF SameBase
<1>9. Means(v, t2, r2, deftab, 1, n)
  <2>1. 1 \in Int /\ n \in Int
    BY <1>3
  <2>2. QED
    BY <1>3, <1>7, <1>8, <2>1, MeansSame
<1>10. Room(t2, 0)
  BY <1>3, <1>5, OpenFinite, FdCount DEF Room
<1>11. Registers(v, t, r, n, c, F, k, t2, r2)
  BY <1>5, <1>6, <1>9, <1>10 DEF Registers, Ready
<1>12. QED
  BY <1>1, <1>2, <1>11

\* The same, where the lowest free number is taken.
LEMMA Registered ==
  ASSUME NEW v, NEW t, NEW r, NEW n, NEW c, NEW F, NEW k, Registrable(v, t, r, n, c, F, k)
  PROVE  Registers(v, t, r, n, c, F, k, Open(t, F), AddTo(r, k, Free(t)))
<1>1. PICK a : a = Free(t)
  OBVIOUS
<1>2. Vacant(t, a)
  BY <1>1, FreeVacant DEF Registrable, Openable
<1>3. Registers(v, t, r, n, c, F, k, [t EXCEPT ![a] = F], AddTo(r, k, a))
  BY <1>2, RegisteredAt
<1>4. QED
  BY <1>1, <1>3 DEF Open

\* The ends of a pipe in the child: what was registered for them, and where.
Ends(t, r, n, F0, F1) ==
  /\ DOMAIN r = (0 .. n) \cup {P0, P1} \/ DOMAIN r = (0 .. n) \cup {P0, P1, Inpipe}
  /\ F0 # Closed /\ F1 # Closed /\ FileOf(t, r[P0]) = F0 /\ FileOf(t, r[P1]) = F1

\* They have numbers of their own, above 2.
LEMMA EndsAre ==
  ASSUME NEW v, NEW t, NEW r, NEW n \in Nat, NEW t3, NEW r3, Forkable(v, t, r, n, t3, r3),
         NEW F0, NEW F1, Ends(t, r, n, F0, F1)
  PROVE  /\ r3[P0] \in Fd /\ r3[P1] \in Fd /\ r3[P0] >= 3 /\ r3[P1] >= 3 /\ r3[P0] # r3[P1]
         /\ t3[r3[P1]] = F1 /\ v[r3[P0]] = Closed /\ v[r3[P1]] = Closed
<1>1. P0 \in DOMAIN r /\ P1 \in DOMAIN r /\ P0 # P1 /\ P0 \notin 0 .. n /\ P1 \notin 0 .. n
  BY DEF Ends, P0, P1
<1>2. P0 # Input /\ P1 # Input /\ P0 \notin 1 .. n /\ P1 \notin 1 .. n
  BY DEF P0, P1, Input
<1>3. P0 \in DOMAIN r3 /\ P1 \in DOMAIN r3 /\ Sound(t3, r3)
  BY <1>1, <1>2 DEF Forkable
<1>4. FileOf(t3, r3[P0]) = F0 /\ FileOf(t3, r3[P1]) = F1 /\ F0 # Closed /\ F1 # Closed
  BY <1>2, <1>3 DEF Forkable, Ends
<1>5. r3[P0] # -1 /\ r3[P1] # -1
  BY <1>4 DEF FileOf
<1>6. /\ r3[P0] \in Fd /\ r3[P1] \in Fd /\ r3[P0] >= 3 /\ r3[P1] >= 3 /\ r3[P0] # r3[P1]
  BY <1>1, <1>2, <1>3, <1>5 DEF Sound
<1>7. v[r3[P0]] = Closed /\ v[r3[P1]] = Closed
  BY <1>3, <1>6 DEF Forkable, Holds
<1>8. QED
  BY <1>4, <1>5, <1>6, <1>7 DEF FileOf

\* q is the state of a child in which only the ends of the pipe are registered.
Left(v, q, F0, F1) ==
  \E n, t, r, t3, r3 :
    /\ n \in Nat /\ q = [table |-> t3, reserved |-> r3] /\ Forkable(v, t, r, n, t3, r3)
    /\ Ends(t, r, n, F0, F1) /\ DOMAIN r = (0 .. n) \cup {P0, P1}

\* w is v but for one of 0, 1 and 2, or two of them.
LowBecomes(v, out, F, w) == out \in 0 .. 2 => w = [v EXCEPT ![out] = F]

LowBecome(v, in, f, out, F, w) == {in, out} \subseteq 0 .. 2 => w = [v EXCEPT ![in] = f, ![out] = F]

\* The child of a left command, or of a command's output: the write end becomes out.
LEMMA PipeGives ==
  ASSUME NEW v, v \in [Fd -> Files], NEW q, NEW F0, NEW F1, Left(v, q, F0, F1), NEW out
  PROVE  /\ LowBecomes(v, out, F1, Close(Mvfd(q.table, q.reserved[P1], out), q.reserved[P0]))
         /\ LowBecomes(v, out, F1, Mvfd(Close(q.table, q.reserved[P0]), q.reserved[P1], out))
<1>. SUFFICES ASSUME out \in 0 .. 2
              PROVE  /\ Close(Mvfd(q.table, q.reserved[P1], out), q.reserved[P0])
                           = [v EXCEPT ![out] = F1]
                     /\ Mvfd(Close(q.table, q.reserved[P0]), q.reserved[P1], out)
                           = [v EXCEPT ![out] = F1]
  BY DEF LowBecomes
<1>0. PICK n, t, r, t3, r3 :
        /\ n \in Nat /\ q = [table |-> t3, reserved |-> r3] /\ Forkable(v, t, r, n, t3, r3)
        /\ Ends(t, r, n, F0, F1) /\ DOMAIN r = (0 .. n) \cup {P0, P1}
  BY DEF Left
<1>1. PICK a : a = r3[P0]
  OBVIOUS
<1>2. PICK b : b = r3[P1]
  OBVIOUS
<1>3. /\ a \in Fd /\ b \in Fd /\ a >= 3 /\ b >= 3 /\ a # b
      /\ t3[b] = F1 /\ v[a] = Closed /\ v[b] = Closed
  BY <1>0, <1>1, <1>2, EndsAre
<1>4. out \in Fd /\ out # a /\ out # b /\ Fd \subseteq Int
  BY <1>3, FdCount DEF Fd
<1>5. t3 \in [Fd -> Files] /\ F1 \in Files
  BY <1>0, <1>3 DEF Forkable, Sound
<1>6. ASSUME NEW m \in Fd, m # a, m # b PROVE t3[m] = v[m]
  <2>1. DOMAIN r3 = {0, P0, P1} /\ r3[0] = -1
    <3>1. P0 \notin 1 .. n /\ P1 \notin 1 .. n
      BY DEF P0, P1
    <3>2. QED
      BY <1>0, <3>1 DEF Forkable, Input
  <2>2. ~Holds(r3, m)
    BY <1>1, <1>2, <1>6, <2>1, FdCount DEF Holds
  <2>3. QED
    BY <1>0, <2>2 DEF Forkable
<1>7. PICK w : w = [v EXCEPT ![out] = F1]
  OBVIOUS
<1>8. w \in [Fd -> Files] /\ \A m \in Fd : w[m] = IF m = out THEN F1 ELSE v[m]
  BY <1>4, <1>5, <1>7
<1>9. Close(Mvfd(t3, b, out), a) = w
  <2>1. PICK x : x = [t3 EXCEPT ![out] = F1, ![b] = Closed]
    OBVIOUS
  <2>2. x \in [Fd -> Files]
        /\ \A m \in Fd : x[m] = IF m = b THEN Closed ELSE IF m = out THEN F1 ELSE t3[m]
    BY <1>3, <1>4, <1>5, <2>1
  <2>3. Mvfd(t3, b, out) = x
    BY <1>3, <1>4, <2>1 DEF Mvfd
  <2>4. PICK y : y = [x EXCEPT ![a] = Closed]
    OBVIOUS
  <2>5. y \in [Fd -> Files] /\ \A m \in Fd : y[m] = w[m]
    BY <1>3, <1>4, <1>6, <1>8, <2>2, <2>4
  <2>6. y = w
    BY <1>8, <2>5
  <2>7. QED
    BY <2>3, <2>4, <2>6 DEF Close
<1>10. Mvfd(Close(t3, a), b, out) = w
  <2>1. PICK x : x = [t3 EXCEPT ![a] = Closed]
    OBVIOUS
  <2>2. Closed \in Files
    BY FdCount DEF Files, Closed
  <2>3. x \in [Fd -> Files] /\ \A m \in Fd : x[m] = IF m = a THEN Closed ELSE t3[m]
    BY <1>3, <1>5, <2>1, <2>2
  <2>4. x[b] = F1 /\ b # out
    BY <1>3, <1>4, <2>3
  <2>5. PICK y : y = [x EXCEPT ![out] = F1, ![b] = Closed]
    OBVIOUS
  <2>6. Mvfd(Close(t3, a), b, out) = y
    BY <2>1, <2>4, <2>5 DEF Mvfd, Close
  <2>7. y \in [Fd -> Files]
        /\ \A m \in Fd : y[m] = IF m = b THEN Closed ELSE IF m = out THEN F1 ELSE x[m]
    BY <1>3, <1>4, <1>5, <2>2, <2>3, <2>5
  <2>8. \A m \in Fd : y[m] = w[m]
    BY <1>3, <1>4, <1>6, <1>8, <2>3, <2>7
  <2>9. QED
    BY <1>8, <2>6, <2>7, <2>8
<1>11. q.table = t3 /\ q.reserved = r3
  BY <1>0
<1>12. QED
  BY <1>1, <1>2, <1>7, <1>9, <1>10, <1>11

\* The same, where the read end of the pipe before is registered as well.
Middle(v, q, F, F0, F1) ==
  \E n, t, r, t3, r3 :
    /\ n \in Nat /\ q = [table |-> t3, reserved |-> r3] /\ Forkable(v, t, r, n, t3, r3)
    /\ Ends(t, r, n, F0, F1) /\ DOMAIN r = (0 .. n) \cup {P0, P1, Inpipe}
    /\ F # Closed /\ FileOf(t, r[Inpipe]) = F

\* The child of a middle command: the read end of the pipe before becomes in, too.
LEMMA MiddleGives ==
  ASSUME NEW v, v \in [Fd -> Files], NEW q, NEW F, NEW F0, NEW F1, Middle(v, q, F, F0, F1),
         NEW in, NEW out
  PROVE  LowBecome(v, in, F, out, F1,
                   Close(Mvfd(Mvfd(q.table, q.reserved[Inpipe], in), q.reserved[P1], out),
                         q.reserved[P0]))
<1>. SUFFICES ASSUME in \in 0 .. 2, out \in 0 .. 2
              PROVE  Close(Mvfd(Mvfd(q.table, q.reserved[Inpipe], in), q.reserved[P1], out),
                           q.reserved[P0]) = [v EXCEPT ![in] = F, ![out] = F1]
  BY DEF LowBecome
<1>0. PICK n, t, r, t3, r3 :
        /\ n \in Nat /\ q = [table |-> t3, reserved |-> r3] /\ Forkable(v, t, r, n, t3, r3)
        /\ Ends(t, r, n, F0, F1) /\ DOMAIN r = (0 .. n) \cup {P0, P1, Inpipe}
        /\ F # Closed /\ FileOf(t, r[Inpipe]) = F
  BY DEF Middle
<1>1. PICK a : a = r3[P0]
  OBVIOUS
<1>2. PICK b : b = r3[P1]
  OBVIOUS
<1>3. PICK c : c = r3[Inpipe]
  OBVIOUS
<1>4. /\ a \in Fd /\ b \in Fd /\ a >= 3 /\ b >= 3 /\ a # b
      /\ t3[b] = F1 /\ v[a] = Closed /\ v[b] = Closed
  BY <1>0, <1>1, <1>2, EndsAre
<1>5. /\ P0 # Inpipe /\ P1 # Inpipe /\ Inpipe # Input
      /\ P0 \notin 1 .. n /\ P1 \notin 1 .. n /\ Inpipe \notin 1 .. n
  BY DEF P0, P1, Inpipe, Input
<1>6. DOMAIN r3 = {0, P0, P1, Inpipe} /\ r3[0] = -1 /\ Sound(t3, r3)
  BY <1>0, <1>5 DEF Forkable, Input
<1>7. FileOf(t3, c) = F
  BY <1>0, <1>3, <1>5, <1>6 DEF Forkable
<1>8. c \in Fd /\ c >= 3 /\ c # a /\ c # b /\ t3[c] = F
  <2>1. c # -1
    BY <1>0, <1>7 DEF FileOf
  <2>2. QED
    BY <1>1, <1>2, <1>3, <1>5, <1>6, <1>7, <2>1 DEF Sound, FileOf
<1>9. v[c] = Closed
  BY <1>0, <1>3, <1>6, <1>8 DEF Forkable, Holds
<1>10. /\ in \in Fd /\ in # a /\ in # b /\ in # c /\ out \in Fd /\ out # a /\ out # b /\ out # c
       /\ Fd \subseteq Int /\ Closed \in Files
  BY <1>4, <1>8, FdCount DEF Fd, Files, Closed
<1>11. t3 \in [Fd -> Files] /\ F1 \in Files /\ F \in Files
  BY <1>4, <1>6, <1>8 DEF Sound
<1>12. ASSUME NEW m \in Fd, m # a, m # b, m # c PROVE t3[m] = v[m]
  <2>1. ~Holds(r3, m)
    BY <1>1, <1>2, <1>3, <1>6, <1>12, FdCount DEF Holds
  <2>2. QED
    BY <1>0, <2>1 DEF Forkable
<1>13. PICK w : w = [v EXCEPT ![in] = F, ![out] = F1]
  OBVIOUS
<1>14. /\ w \in [Fd -> Files]
       /\ \A m \in Fd : w[m] = IF m = out THEN F1 ELSE IF m = in THEN F ELSE v[m]
  BY <1>10, <1>11, <1>13
<1>15. PICK x : x = [t3 EXCEPT ![in] = F, ![c] = Closed]
  OBVIOUS
<1>16. /\ x \in [Fd -> Files]
       /\ \A m \in Fd : x[m] = IF m = c THEN Closed ELSE IF m = in THEN F ELSE t3[m]
  BY <1>8, <1>10, <1>11, <1>15
<1>17. Mvfd(t3, c, in) = x
  BY <1>8, <1>10, <1>15 DEF Mvfd
<1>18. x[b] = F1
  BY <1>4, <1>8, <1>10, <1>16
<1>19. PICK y : y = [x EXCEPT ![out] = F1, ![b] = Closed]
  OBVIOUS
<1>20. /\ y \in [Fd -> Files]
       /\ \A m \in Fd : y[m] = IF m = b THEN Closed ELSE IF m = out THEN F1 ELSE x[m]
  BY <1>4, <1>10, <1>11, <1>16, <1>19
<1>21. Mvfd(x, b, out) = y
  BY <1>10, <1>18, <1>19 DEF Mvfd
<1>22. PICK z : z = [y EXCEPT ![a] = Closed]
  OBVIOUS
<1>23. z \in [Fd -> Files] /\ \A m \in Fd : z[m] = IF m = a THEN Closed ELSE y[m]
  BY <1>4, <1>10, <1>20, <1>22
<1>24. \A m \in Fd : z[m] = w[m]
  BY <1>4, <1>8, <1>9, <1>10, <1>12, <1>14, <1>16, <1>20, <1>23
<1>25. z = w
  BY <1>14, <1>23, <1>24
<1>26. Close(Mvfd(Mvfd(t3, c, in), b, out), a) = w
  BY <1>17, <1>21, <1>22, <1>25 DEF Close
<1>27. q.table = t3 /\ q.reserved = r3
  BY <1>0
<1>28. QED
  BY <1>1, <1>2, <1>3, <1>13, <1>26, <1>27

\* What all steps start from.
LEMMA NowIs ==
  ASSUME Careful, IInv
  PROVE  /\ setup \in Setups /\ view \in [Fd -> Files] /\ Few(setup, view)
         /\ Len(deftab) \in Nat /\ DOMAIN reserved = 0 .. Len(deftab)
         /\ NewFile \in Files /\ NewFile # Closed /\ NewFile2 \in Files /\ NewFile2 # Closed
         /\ Sound(table, reserved) /\ Room(table, 2 + 1)
         /\ Ready(view, table, reserved, 1, Len(deftab))
<1>1. Len(deftab) \in Nat
  BY LenProperties DEF IInv, Types
<1>2. 2 + 1 = 3
  OBVIOUS
<1>3. Room(table, 3) /\ Ready(view, table, reserved, 1, Len(deftab))
  BY RoomNow
<1>4. NewFile \in Files \ {Closed} /\ NewFile2 \in Files \ {Closed}
  BY NewFiles
<1>5. QED
  BY <1>1, <1>2, <1>3, <1>4 DEF IInv, Types

\* closefds in a child that is forked now.
LEMMA ClosefdsNow ==
  ASSUME Careful, IInv
  PROVE  Closefds(Now).table = view /\ LowOpen(view) /\ Room(view, 0)
<1>1. PICK n : n = Len(deftab)
  OBVIOUS
<1>2. /\ view \in [Fd -> Files] /\ n \in Nat /\ DOMAIN reserved = 0 .. n
      /\ Ready(view, table, reserved, 1, n)
  BY <1>1, NowIs
<1>3. /\ Closefds([table |-> table, reserved |-> reserved]).table = view
      /\ LowOpen(view) /\ Room(view, 0)
  BY <1>1, <1>2, ClosefdsGives
<1>4. QED
  BY <1>3 DEF Now

\* Where a pipe replaces 0, 1 or 2, the three stay open.
LEMMA LowAt ==
  ASSUME NEW v \in [Fd -> Files], LowOpen(v), NEW u \in Fd, NEW f \in Files, f # Closed
  PROVE  LowOpen([v EXCEPT ![u] = f]) /\ [v EXCEPT ![u] = f] \in [Fd -> Files]
BY FdCount DEF LowOpen, Fd

\* fork.
LEMMA ForkIInv ==
  ASSUME Careful, IInv, Fork
  PROVE  IInv'
<1>1. setup \in Setups /\ view \in [Fd -> Files] /\ Few(setup, view)
  BY NowIs
<1>2. view' = view /\ Child(view', TRUE) /\ LowOpen(view)
  BY ClosefdsNow DEF Fork
<1>3. TRUE \in BOOLEAN
  OBVIOUS
<1>4. LowOpen(view') /\ view' \in [Fd -> Files] /\ Few(setup, view')
  BY <1>1, <1>2
<1>5. QED
  BY <1>1, <1>2, <1>3, <1>4, ChildIInv

\* A background job.
LEMMA BackgroundIInv ==
  ASSUME Careful, IInv, Background
  PROVE  IInv'
<1>1. /\ setup \in Setups /\ view \in [Fd -> Files] /\ Few(setup, view)
      /\ NewFile \in Files /\ NewFile # Closed
  BY NowIs
<1>2. Closefds(Now).table = view /\ LowOpen(view) /\ Room(view, 0)
  BY ClosefdsNow
<1>3. PICK m : m = Free(view)
  OBVIOUS
<1>4. m \in Fd /\ m >= 3 /\ view[m] = Closed
  BY <1>2, <1>3, FreeIs
<1>5. PICK F : F = NewFile
  OBVIOUS
<1>6. F \in Files /\ F # Closed /\ 0 \in Fd /\ Closed \in Files /\ Fd \subseteq Nat
  BY <1>1, <1>5, FdCount DEF Fd, Files, Closed
<1>7. PICK w : w = [view EXCEPT ![0] = F]
  OBVIOUS
<1>8. /\ LowOpen(w) /\ w \in [Fd -> Files] /\ \A n \in Fd : w[n] = IF n = 0 THEN F ELSE view[n]
  <2>1. LowOpen(w) /\ w \in [Fd -> Files]
    BY <1>1, <1>2, <1>6, <1>7, LowAt
  <2>2. QED
    BY <1>1, <1>6, <1>7, <2>1
<1>9. Mvfd(Open(view, F), m, 0) = w
  <2>1. PICK x : x = [view EXCEPT ![m] = F]
    OBVIOUS
  <2>2. x \in [Fd -> Files] /\ \A n \in Fd : x[n] = IF n = m THEN F ELSE view[n]
    BY <1>1, <1>4, <1>6, <2>1
  <2>3. PICK y : y = [x EXCEPT ![0] = x[m], ![m] = Closed]
    OBVIOUS
  <2>4. Mvfd(Open(view, F), m, 0) = y
    BY <1>3, <1>4, <2>1, <2>3 DEF Mvfd, Open
  <2>5. /\ y \in [Fd -> Files]
        /\ \A n \in Fd : y[n] = IF n = m THEN Closed ELSE IF n = 0 THEN F ELSE x[n]
    BY <1>4, <1>6, <2>2, <2>3
  <2>6. \A n \in Fd : y[n] = w[n]
    BY <1>4, <1>8, <2>2, <2>5
  <2>7. QED
    BY <1>8, <2>4, <2>5, <2>6
<1>10. view' = w /\ Child(view', TRUE)
  BY <1>2, <1>3, <1>5, <1>7, <1>9 DEF Background
<1>11. Few(setup, w)
  <2>1. 0 \in 0 .. 2
    OBVIOUS
  <2>2. QED
    BY <1>1, <1>6, <1>7, <2>1, FewAt
<1>12. TRUE \in BOOLEAN
  OBVIOUS
<1>13. LowOpen(view') /\ view' \in [Fd -> Files] /\ Few(setup, view')
  BY <1>8, <1>10, <1>11
<1>14. QED
  BY <1>1, <1>10, <1>12, <1>13, ChildIInv

\* The child of a pipe's left command, before it has moved the ends: they are
\* registered, and closefds has been called.
LeftChild ==
  LET t1 == Open(table, NewFile)
      t2 == Open(t1, NewFile2)
  IN  Forked(t2, [r \in {P0, P1} |-> IF r = P0 THEN Free(table) ELSE Free(t1)])

\* It has the program's descriptors, and the ends.
LEMMA LeftForked ==
  ASSUME Careful, IInv
  PROVE  Left(view, LeftChild, NewFile, NewFile2)
<1>1. PICK n : n = Len(deftab)
  OBVIOUS
<1>2. /\ n \in Nat /\ DOMAIN reserved = 0 .. n /\ Room(table, 2 + 1)
      /\ NewFile \in Files /\ NewFile # Closed /\ NewFile2 \in Files /\ NewFile2 # Closed
      /\ Ready(view, table, reserved, 1, n)
  BY <1>1, NowIs
<1>3. PICK F0 : F0 = NewFile
  OBVIOUS
<1>4. PICK F1 : F1 = NewFile2
  OBVIOUS
<1>5. PICK t1, r1 : t1 = Open(table, F0) /\ r1 = AddTo(reserved, P0, Free(table))
  OBVIOUS
<1>6. PICK t2, r2 : t2 = Open(t1, F1) /\ r2 = AddTo(r1, P1, Free(t1))
  OBVIOUS
<1>7. /\ P0 \notin DOMAIN reserved /\ P1 \notin DOMAIN reserved
      /\ P0 # P1 /\ P0 # Input /\ P1 # Input
  BY <1>2 DEF P0, P1, Input
<1>8. /\ Ready(view, t1, r1, 1, n) /\ Room(t1, 2) /\ FileOf(t1, r1[P0]) = F0
      /\ DOMAIN r1 = DOMAIN reserved \cup {P0}
  <2>1. Openable(table, reserved, 2, F0, P0)
    BY <1>2, <1>3, <1>7 DEF Ready, Openable, Opening
  <2>2. Registrable(view, table, reserved, n, 2, F0, P0)
    BY <1>2, <2>1 DEF Registrable
  <2>3. Registers(view, table, reserved, n, 2, F0, P0, t1, r1)
    BY <1>5, <2>2, Registered
  <2>4. QED
    BY <2>3 DEF Registers
<1>9. /\ Ready(view, t2, r2, 1, n) /\ FileOf(t2, r2[P1]) = F1
      /\ DOMAIN r2 = DOMAIN r1 \cup {P1} /\ FileOf(t2, r2[P0]) = FileOf(t1, r1[P0])
  <2>1. Room(t1, 1 + 1) /\ P1 \notin DOMAIN r1 /\ P0 \in DOMAIN r1
    BY <1>7, <1>8
  <2>2. Openable(t1, r1, 1, F1, P1)
    BY <1>2, <1>4, <1>7, <1>8, <2>1 DEF Ready, Openable, Opening
  <2>3. Registrable(view, t1, r1, n, 1, F1, P1)
    BY <1>2, <1>8, <2>2 DEF Registrable
  <2>4. Registers(view, t1, r1, n, 1, F1, P1, t2, r2)
    BY <1>6, <2>3, Registered
  <2>5. QED
    BY <2>1, <2>4 DEF Registers
<1>10. DOMAIN r2 = (0 .. n) \cup {P0, P1}
  BY <1>2, <1>8, <1>9
<1>11. LeftChild = Closefds([table |-> t2, reserved |-> r2])
  <2>1. PICK a : a = Free(table)
    OBVIOUS
  <2>2. PICK b : b = Free(t1)
    OBVIOUS
  <2>3. PICK D : D = DOMAIN reserved
    OBVIOUS
  <2>4. PICK e : e = [j \in {P0, P1} |-> IF j = P0 THEN a ELSE b]
    OBVIOUS
  <2>5. r1 = [k \in D \cup {P0} |-> IF k = P0 THEN a ELSE reserved[k]]
    BY <1>5, <2>1, <2>3 DEF AddTo
  <2>6. r2 = [k \in D \cup {P0, P1} |-> IF k = P1 THEN b ELSE IF k = P0 THEN a ELSE reserved[k]]
    BY <1>6, <1>7, <2>2, <2>5 DEF AddTo
  <2>7. r2 = [k \in D \cup DOMAIN e |-> IF k \in D THEN reserved[k] ELSE e[k]]
    BY <1>7, <2>3, <2>4, <2>6
  <2>8. LeftChild = Forked(t2, e)
    BY <1>3, <1>4, <1>5, <1>6, <2>1, <2>2, <2>4 DEF LeftChild
  <2>9. QED
    BY <2>3, <2>7, <2>8 DEF Forked
<1>12. Input \in DOMAIN r2
  BY <1>2, <1>10 DEF Input
<1>13. PICK t3, r3 : /\ LeftChild = [table |-> t3, reserved |-> r3]
                     /\ Forkable(view, t2, r2, n, t3, r3)
  BY <1>1, <1>2, <1>9, <1>11, <1>12, ClosefdsIs
<1>14. Ends(t2, r2, n, F0, F1)
  BY <1>2, <1>3, <1>4, <1>8, <1>9, <1>10 DEF Ends
<1>15. Left(view, LeftChild, F0, F1)
  BY <1>2, <1>10, <1>13, <1>14 DEF Left
<1>16. QED
  BY <1>3, <1>4, <1>15

\* One of 0, 1 and 2 is replaced in a child.
LEMMA LowIInv ==
  ASSUME Careful, IInv, NEW out \in 0 .. 2, NEW F \in Files, F # Closed,
         view' = [view EXCEPT ![out] = F], NEW b \in BOOLEAN, Child(view', b)
  PROVE  IInv'
<1>1. setup \in Setups /\ view \in [Fd -> Files] /\ Few(setup, view)
  BY NowIs
<1>2. out \in Fd /\ LowOpen(view)
  BY ClosefdsNow, FdCount DEF Fd
<1>3. LowOpen(view') /\ view' \in [Fd -> Files]
  BY <1>1, <1>2, LowAt
<1>4. Few(setup, view')
  BY <1>1, <1>2, FewAt
<1>5. QED
  BY <1>1, <1>3, <1>4, ChildIInv

\* A pipe's left command, or the command whose output is taken: the same.
LEMMA LeftIInv ==
  ASSUME Careful, IInv, NEW out \in 0 .. 2, PipeLeft(out)
  PROVE  IInv'
<1>1. view \in [Fd -> Files] /\ NewFile2 \in Files /\ NewFile2 # Closed
  BY NowIs
<1>2. PICK q : q = LeftChild
  OBVIOUS
<1>3. PICK F0, F1 : F0 = NewFile /\ F1 = NewFile2
  OBVIOUS
<1>4. Left(view, q, F0, F1)
  BY <1>2, <1>3, LeftForked
<1>5. Close(Mvfd(q.table, q.reserved[P1], out), q.reserved[P0]) = [view EXCEPT ![out] = F1]
  <2>1. LowBecomes(view, out, F1, Close(Mvfd(q.table, q.reserved[P1], out), q.reserved[P0]))
    BY <1>1, <1>4, PipeGives
  <2>2. QED
    BY <2>1 DEF LowBecomes
<1>6. /\ Child(Close(Mvfd(q.table, q.reserved[P1], out), q.reserved[P0]), TRUE)
      /\ view' = [view EXCEPT ![out] = F1]
  BY <1>2, <1>3, Zenon DEF PipeLeft, LeftChild
<1>7. Child(view', TRUE) /\ TRUE \in BOOLEAN
  BY <1>5, <1>6
<1>8. QED
  BY <1>1, <1>3, <1>6, <1>7, LowIInv

\* The child of <{...}.
LEMMA ReadfromChildIInv ==
  ASSUME Careful, IInv, ReadfromChild
  PROVE  IInv'
<1>1. view \in [Fd -> Files] /\ NewFile2 \in Files /\ NewFile2 # Closed
  BY NowIs
<1>2. PICK q : q = LeftChild
  OBVIOUS
<1>3. PICK F0, F1 : F0 = NewFile /\ F1 = NewFile2
  OBVIOUS
<1>4. PICK out \in 0 .. 2 : out = 1
  OBVIOUS
<1>5. Left(view, q, F0, F1)
  BY <1>2, <1>3, LeftForked
<1>6. Mvfd(Close(q.table, q.reserved[P0]), q.reserved[P1], out) = [view EXCEPT ![out] = F1]
  <2>1. LowBecomes(view, out, F1, Mvfd(Close(q.table, q.reserved[P0]), q.reserved[P1], out))
    BY <1>1, <1>5, PipeGives
  <2>2. QED
    BY <2>1 DEF LowBecomes
<1>7. /\ Child(Mvfd(Close(q.table, q.reserved[P0]), q.reserved[P1], out), FALSE)
      /\ view' = [view EXCEPT ![out] = F1]
  BY <1>2, <1>3, <1>4, Zenon DEF ReadfromChild, LeftChild
<1>8. Child(view', FALSE) /\ FALSE \in BOOLEAN
  BY <1>6, <1>7
<1>9. QED
  BY <1>1, <1>3, <1>7, <1>8, LowIInv

\* The child of a pipe's middle command, which has an end of the pipe before, too.
MiddleChild(f, inpipe) ==
  LET t0 == [table EXCEPT ![inpipe] = f]
      t1 == Open(t0, NewFile)
      t2 == Open(t1, NewFile2)
  IN  Forked(t2, [r \in {P0, P1, Inpipe} |->
                    IF r = P0 THEN Free(t0) ELSE IF r = P1 THEN Free(t1) ELSE inpipe])

\* It has the program's descriptors, and the three ends.
LEMMA MiddleForked ==
  ASSUME Careful, IInv, NEW f \in Files, f # Closed, NEW inpipe \in Inpipes
  PROVE  Middle(view, MiddleChild(f, inpipe), f, NewFile, NewFile2)
<1>1. PICK n : n = Len(deftab)
  OBVIOUS
<1>2. /\ n \in Nat /\ DOMAIN reserved = 0 .. n /\ Room(table, 2 + 1)
      /\ NewFile \in Files /\ NewFile # Closed /\ NewFile2 \in Files /\ NewFile2 # Closed
      /\ Ready(view, table, reserved, 1, n)
  BY <1>1, NowIs
<1>3. PICK F0 : F0 = NewFile
  OBVIOUS
<1>4. PICK F1 : F1 = NewFile2
  OBVIOUS
<1>5. PICK t0, r0 : t0 = [table EXCEPT ![inpipe] = f] /\ r0 = AddTo(reserved, Inpipe, inpipe)
  OBVIOUS
<1>6. PICK t1, r1 : t1 = Open(t0, F0) /\ r1 = AddTo(r0, P0, Free(t0))
  OBVIOUS
<1>7. PICK t2, r2 : t2 = Open(t1, F1) /\ r2 = AddTo(r1, P1, Free(t1))
  OBVIOUS
<1>8. /\ P0 \notin DOMAIN reserved /\ P1 \notin DOMAIN reserved /\ Inpipe \notin DOMAIN reserved
      /\ P0 # P1 /\ P0 # Inpipe /\ P1 # Inpipe /\ P0 # Input /\ P1 # Input /\ Inpipe # Input
  BY <1>2 DEF P0, P1, Inpipe, Input
<1>9. /\ Ready(view, t0, r0, 1, n) /\ Room(t0, 2) /\ FileOf(t0, r0[Inpipe]) = f
      /\ DOMAIN r0 = DOMAIN reserved \cup {Inpipe}
  <2>1. Openable(table, reserved, 2, f, Inpipe)
    BY <1>2, <1>8 DEF Ready, Openable, Opening
  <2>2. Registrable(view, table, reserved, n, 2, f, Inpipe)
    BY <1>2, <2>1 DEF Registrable
  <2>3. Vacant(table, inpipe)
    BY <1>2, InpipeVacant DEF Ready
  <2>4. Registers(view, table, reserved, n, 2, f, Inpipe, t0, r0)
    BY <1>5, <2>2, <2>3, RegisteredAt
  <2>5. QED
    BY <2>4 DEF Registers
<1>10. /\ Ready(view, t1, r1, 1, n) /\ Room(t1, 1) /\ FileOf(t1, r1[P0]) = F0
       /\ DOMAIN r1 = DOMAIN r0 \cup {P0} /\ FileOf(t1, r1[Inpipe]) = f
  <2>1. Room(t0, 1 + 1) /\ P0 \notin DOMAIN r0 /\ Inpipe \in DOMAIN r0
    BY <1>8, <1>9
  <2>2. Openable(t0, r0, 1, F0, P0)
    BY <1>2, <1>3, <1>8, <1>9, <2>1 DEF Ready, Openable, Opening
  <2>3. Registrable(view, t0, r0, n, 1, F0, P0)
    BY <1>2, <1>9, <2>2 DEF Registrable
  <2>4. Registers(view, t0, r0, n, 1, F0, P0, t1, r1)
    BY <1>6, <2>3, Registered
  <2>5. QED
    BY <1>9, <2>1, <2>4 DEF Registers
<1>11. /\ Ready(view, t2, r2, 1, n) /\ FileOf(t2, r2[P1]) = F1
       /\ DOMAIN r2 = DOMAIN r1 \cup {P1} /\ FileOf(t2, r2[P0]) = F0 /\ FileOf(t2, r2[Inpipe]) = f
  <2>1. Room(t1, 0 + 1) /\ P1 \notin DOMAIN r1 /\ P0 \in DOMAIN r1 /\ Inpipe \in DOMAIN r1
    BY <1>8, <1>9, <1>10
  <2>2. Openable(t1, r1, 0, F1, P1)
    BY <1>2, <1>4, <1>8, <1>10, <2>1 DEF Ready, Openable, Opening
  <2>3. Registrable(view, t1, r1, n, 0, F1, P1)
    BY <1>2, <1>10, <2>2 DEF Registrable
  <2>4. Registers(view, t1, r1, n, 0, F1, P1, t2, r2)
    BY <1>7, <2>3, Registered
  <2>5. QED
    BY <1>10, <2>1, <2>4 DEF Registers
<1>12. DOMAIN r2 = (0 .. n) \cup {P0, P1, Inpipe}
  BY <1>2, <1>9, <1>10, <1>11
<1>13. PICK q : q = MiddleChild(f, inpipe)
  OBVIOUS
<1>14. q = Closefds([table |-> t2, reserved |-> r2])
  <2>1. PICK a : a = Free(t0)
    OBVIOUS
  <2>2. PICK b : b = Free(t1)
    OBVIOUS
  <2>3. PICK c : c = inpipe
    OBVIOUS
  <2>4. PICK D : D = DOMAIN reserved
    OBVIOUS
  <2>5. PICK e : e = [j \in {P0, P1, Inpipe} |-> IF j = P0 THEN a ELSE IF j = P1 THEN b ELSE c]
    OBVIOUS
  <2>6. r0 = [k \in D \cup {Inpipe} |-> IF k = Inpipe THEN c ELSE reserved[k]]
    BY <1>5, <2>3, <2>4 DEF AddTo
  <2>7. r1 = [k \in D \cup {Inpipe, P0} |->
                IF k = P0 THEN a ELSE IF k = Inpipe THEN c ELSE reserved[k]]
    BY <1>6, <1>8, <2>1, <2>6 DEF AddTo
  <2>8. r2 = [k \in D \cup {Inpipe, P0, P1} |->
                IF k = P1 THEN b ELSE IF k = P0 THEN a ELSE IF k = Inpipe THEN c ELSE reserved[k]]
    BY <1>7, <1>8, <2>2, <2>7 DEF AddTo
  <2>9. r2 = [k \in D \cup DOMAIN e |-> IF k \in D THEN reserved[k] ELSE e[k]]
    BY <1>8, <2>4, <2>5, <2>8
  <2>10. q = Forked(t2, e)
    BY <1>3, <1>4, <1>5, <1>6, <1>7, <1>13, <2>1, <2>2, <2>3, <2>5 DEF MiddleChild
  <2>11. QED
    BY <2>4, <2>9, <2>10 DEF Forked
<1>15. Input \in DOMAIN r2
  BY <1>2, <1>12 DEF Input
<1>16. PICK t3, r3 : q = [table |-> t3, reserved |-> r3] /\ Forkable(view, t2, r2, n, t3, r3)
  BY <1>1, <1>2, <1>11, <1>14, <1>15, ClosefdsIs
<1>17. Ends(t2, r2, n, F0, F1)
  BY <1>2, <1>3, <1>4, <1>11, <1>12 DEF Ends
<1>18. Middle(view, q, f, F0, F1)
  BY <1>2, <1>11, <1>12, <1>16, <1>17 DEF Middle
<1>19. QED
  BY <1>3, <1>4, <1>13, <1>18

\* It has both pipes.
LEMMA MiddleIInv ==
  ASSUME Careful, IInv, NEW in \in 0 .. 2, NEW out \in 0 .. 2, PipeMiddle(in, out)
  PROVE  IInv'
<1>1. /\ setup \in Setups /\ view \in [Fd -> Files] /\ Few(setup, view)
      /\ NewFile2 \in Files /\ NewFile2 # Closed
  BY NowIs
<1>2. PICK f \in Files \ {Closed, NewFile, NewFile2}, inpipe \in Inpipes :
        /\ LET q == MiddleChild(f, inpipe)
               m == Mvfd(q.table, q.reserved[Inpipe], in)
           IN  Child(Close(Mvfd(m, q.reserved[P1], out), q.reserved[P0]), TRUE)
        /\ view' = [view EXCEPT ![in] = f, ![out] = NewFile2]
  BY Zenon DEF PipeMiddle, MiddleChild
<1>3. PICK q : q = MiddleChild(f, inpipe)
  OBVIOUS
<1>4. PICK F0, F1 : F0 = NewFile /\ F1 = NewFile2
  OBVIOUS
<1>5. f \in Files /\ f # Closed
  OBVIOUS
<1>6. Middle(view, q, f, F0, F1)
  BY <1>3, <1>4, <1>5, MiddleForked
<1>7. Close(Mvfd(Mvfd(q.table, q.reserved[Inpipe], in), q.reserved[P1], out), q.reserved[P0])
        = [view EXCEPT ![in] = f, ![out] = F1]
  <2>1. LowBecome(view, in, f, out, F1,
                  Close(Mvfd(Mvfd(q.table, q.reserved[Inpipe], in), q.reserved[P1], out),
                        q.reserved[P0]))
    BY <1>1, <1>6, MiddleGives
  <2>2. QED
    BY <2>1 DEF LowBecome
<1>8. /\ Child(Close(Mvfd(Mvfd(q.table, q.reserved[Inpipe], in), q.reserved[P1], out),
                     q.reserved[P0]), TRUE)
      /\ view' = [view EXCEPT ![in] = f, ![out] = F1]
  BY <1>2, <1>3, <1>4
<1>9. Child(view', TRUE) /\ TRUE \in BOOLEAN
  BY <1>7, <1>8
<1>10. in \in Fd /\ out \in Fd /\ LowOpen(view)
  BY ClosefdsNow, FdCount DEF Fd
<1>11. PICK w : w = [view EXCEPT ![in] = f]
  OBVIOUS
<1>12. LowOpen(w) /\ w \in [Fd -> Files]
  BY <1>1, <1>5, <1>10, <1>11, LowAt
<1>13. Few(setup, w)
  BY <1>1, <1>10, <1>11, FewAt
<1>14. PICK x : x = [w EXCEPT ![out] = F1]
  OBVIOUS
<1>15. view' = x
  BY <1>8, <1>11, <1>14
<1>16. F1 \in Files /\ F1 # Closed
  BY <1>1, <1>4
<1>17. LowOpen(x) /\ x \in [Fd -> Files]
  BY <1>10, <1>12, <1>14, <1>16, LowAt
<1>18. Few(setup, x)
  BY <1>1, <1>10, <1>12, <1>13, <1>14, FewAt
<1>19. QED
  BY <1>1, <1>9, <1>15, <1>17, <1>18, ChildIInv

-----------------------------------------------------------------------------
(* Pipes that the shell holds open itself, without having them registered. *)

\* Where the program redirects 0, 1 and 2 only, no operation is about another number.
LEMMA StandardTargets ==
  ASSUME IInv, Standard(setup), NEW i \in 1 .. Len(deftab)
  PROVE  deftab[i] \in 0 .. 2
<1>1. deftab \in Seq(setup.user) /\ setup.user \subseteq 0 .. 2
  BY DEF IInv, Types, Standard
<1>2. deftab[i] \in setup.user
  BY <1>1, ElementOfSeq
<1>3. QED
  BY <1>1, <1>2

\* A number that no operation is about, and nobody holds, is what the program has.
LEMMA ViewIs ==
  ASSUME IInv, NEW m \in Fd, \A i \in 1 .. Len(deftab) : deftab[i] # m, ~Holds(reserved, m)
  PROVE  view[m] = table[m]
<1>1. Gets(view[m], table, reserved, deftab, 1, Len(deftab), m)
  BY DEF IInv, Means
<1>2. view[m] = Base(table, reserved, m)
  BY <1>1 DEF Gets
<1>3. QED
  BY <1>2 DEF Base

\* m is a descriptor that has been opened for the program, in w and t.
Appears(m, F, w, t) ==
  /\ m \in Fd /\ m >= 3 /\ table[m] = Closed /\ view[m] = Closed /\ ~Holds(reserved, m)
  /\ \A i \in 1 .. Len(deftab) : deftab[i] # m
  /\ t \in [Fd -> Files] /\ \A n \in Fd : t[n] = IF n = m THEN F ELSE table[n]
  /\ w \in [Fd -> Files] /\ \A n \in Fd : w[n] = IF n = m THEN F ELSE view[n]
  /\ Sound(t, reserved) /\ Means(w, t, reserved, deftab, 1, Len(deftab)) /\ Room(t, 0)
  /\ Alike(table, reserved, deftab, t, reserved, deftab, 1, Len(deftab))
  /\ \A n \in Fd : n # m => Base(t, reserved, n) = Base(table, reserved, n)

\* The shell opens a pipe for the program.
LEMMA OpenForProgramAt ==
  ASSUME Careful, IInv, Standard(setup), NEW F \in Files, F # Closed, NEW m, Vacant(table, m)
  PROVE  Appears(m, F, [view EXCEPT ![m] = F], [table EXCEPT ![m] = F])
<1>2. PICK t : t = [table EXCEPT ![m] = F]
  OBVIOUS
<1>3. PICK n : n = Len(deftab)
  OBVIOUS
<1>4. /\ n \in Nat /\ DOMAIN reserved = 0 .. n /\ Sound(table, reserved) /\ Room(table, 2 + 1)
      /\ view \in [Fd -> Files]
  BY <1>3, NowIs
<1>5. /\ m \in Fd /\ m >= 3 /\ table[m] = Closed /\ ~Holds(reserved, m)
      /\ t \in [Fd -> Files] /\ \A l \in Fd : t[l] = IF l = m THEN F ELSE table[l]
      /\ Sound(t, reserved) /\ Room(t, 2)
      /\ \A l \in Fd : Base(t, reserved, l) = IF l = m THEN F ELSE Base(table, reserved, l)
      /\ \A k \in DOMAIN reserved : FileOf(t, reserved[k]) = FileOf(table, reserved[k])
  <2>1. Opening(table, reserved, 2, F)
    BY <1>4 DEF Opening
  <2>2. OpensAt(table, reserved, 2, F, m, t)
    BY <1>2, <2>1, OpenKeepsAt
  <2>3. QED
    BY <2>2 DEF OpensAt
<1>6. \A i \in 1 .. n : deftab[i] # m
  BY <1>3, <1>5, StandardTargets
<1>7. view[m] = Closed
  BY <1>3, <1>5, <1>6, ViewIs
<1>8. Room(t, 0)
  BY <1>5, OpenFinite, FdCount DEF Room
<1>9. Alike(table, reserved, deftab, t, reserved, deftab, 1, n)
  BY <1>4, <1>5 DEF Alike
<1>10. PICK w : w = [view EXCEPT ![m] = F]
  OBVIOUS
<1>11. w \in [Fd -> Files] /\ \A l \in Fd : w[l] = IF l = m THEN F ELSE view[l]
  BY <1>4, <1>5, <1>10
<1>12. Means(w, t, reserved, deftab, 1, n)
  <2>1. Means(view, table, reserved, deftab, 1, n)
    BY <1>3 DEF IInv
  <2>2. OnlyAt(table, reserved, deftab, t, reserved, n, m, F)
    BY <1>5, <1>6, <1>9 DEF OnlyAt
  <2>3. Means([view EXCEPT ![m] = F], t, reserved, deftab, 1, n)
    BY <1>4, <2>1, <2>2, MeansAt
  <2>4. QED
    BY <1>10, <2>3
<1>13. \A l \in Fd : l # m => Base(t, reserved, l) = Base(table, reserved, l)
  BY <1>5
<1>14. Appears(m, F, w, t)
  BY <1>3, <1>5, <1>6, <1>7, <1>8, <1>9, <1>11, <1>12, <1>13 DEF Appears
<1>15. QED
  BY <1>2, <1>10, <1>14

\* The same, where the lowest free number is taken.
LEMMA OpenForProgram ==
  ASSUME Careful, IInv, Standard(setup), NEW F \in Files, F # Closed
  PROVE  Appears(Free(table), F, [view EXCEPT ![Free(table)] = F], Open(table, F))
<1>1. PICK m : m = Free(table)
  OBVIOUS
<1>2. Vacant(table, m)
  <2>1. Opening(table, reserved, 2, F)
    BY NowIs DEF Opening
  <2>2. QED
    BY <1>1, <2>1, FreeVacant
<1>3. Appears(m, F, [view EXCEPT ![m] = F], [table EXCEPT ![m] = F])
  BY <1>2, OpenForProgramAt
<1>4. QED
  BY <1>1, <1>3 DEF Open

\* A pipe's right command: the read end is open but not registered.
LEMMA RightIInv ==
  ASSUME Careful, IInv, NEW in \in 0 .. 2, Standard(setup), PipeRight(in)
  PROVE  IInv'
<1>1. PICK F : F = NewFile
  OBVIOUS
<1>2. /\ F \in Files /\ F # Closed /\ Len(deftab) \in Nat /\ DOMAIN reserved = 0 .. Len(deftab)
      /\ view \in [Fd -> Files]
  BY <1>1, NowIs
<1>3. PICK m, w, t : /\ m \in Inpipes /\ w = [view EXCEPT ![m] = F] /\ t = [table EXCEPT ![m] = F]
                     /\ Child(Mvfd(Closefds([Now EXCEPT !.table = t]).table, m, in), TRUE)
  BY <1>1, Zenon DEF PipeRight
<1>4. Appears(m, F, w, t)
  <2>1. Sound(table, reserved) /\ Room(table, 2 + 1) /\ NewFile \in Files /\ NewFile # Closed
    BY NowIs
  <2>2. Vacant(table, m)
    BY <1>3, <2>1, InpipeVacant
  <2>3. QED
    BY <1>2, <1>3, <2>2, OpenForProgramAt
<1>5. Ready(w, t, reserved, 1, Len(deftab))
  BY <1>4 DEF Appears, Ready, IInv
<1>6. PICK q : q = Closefds([table |-> t, reserved |-> reserved])
  OBVIOUS
<1>7. q.table = w /\ LowOpen(w)
  <2>1. w \in [Fd -> Files]
    BY <1>4 DEF Appears
  <2>2. PICK n : n = Len(deftab)
    OBVIOUS
  <2>3. n \in Nat /\ Ready(w, t, reserved, 1, n) /\ DOMAIN reserved = 0 .. n
    BY <1>2, <1>5, <2>2
  <2>4. Closefds([table |-> t, reserved |-> reserved]).table = w /\ LowOpen(w)
    BY <2>1, <2>2, <2>3, ClosefdsGives
  <2>5. QED
    BY <1>6, <2>4
<1>8. /\ m \in Fd /\ m >= 3 /\ view[m] = Closed /\ w \in [Fd -> Files]
      /\ \A l \in Fd : w[l] = IF l = m THEN F ELSE view[l]
  BY <1>4 DEF Appears
<1>9. in \in Fd /\ in # m /\ Fd \subseteq Int /\ Closed \in Files
  BY <1>8, FdCount DEF Fd, Closed, Files
<1>10. PICK x : x = [view EXCEPT ![in] = F]
  OBVIOUS
<1>11. x \in [Fd -> Files] /\ \A l \in Fd : x[l] = IF l = in THEN F ELSE view[l]
  BY <1>2, <1>9, <1>10
<1>12. Mvfd(w, m, in) = x
  <2>1. PICK y : y = [w EXCEPT ![in] = w[m], ![m] = Closed]
    OBVIOUS
  <2>2. /\ y \in [Fd -> Files]
        /\ \A l \in Fd : y[l] = IF l = m THEN Closed ELSE IF l = in THEN w[m] ELSE w[l]
    BY <1>8, <1>9, <2>1
  <2>3. \A l \in Fd : y[l] = x[l]
    BY <1>8, <1>9, <1>11, <2>2
  <2>4. y = x
    BY <1>11, <2>2, <2>3
  <2>5. QED
    BY <1>9, <2>1, <2>4 DEF Mvfd
<1>13. Child(Mvfd(q.table, m, in), TRUE) /\ view' = [view EXCEPT ![in] = F]
  <2>1. PICK z : z = Now
    OBVIOUS
  <2>2. [z EXCEPT !.table = t] = [table |-> t, reserved |-> reserved]
    BY <2>1 DEF Now
  <2>3. Child(Mvfd(Closefds([z EXCEPT !.table = t]).table, m, in), TRUE)
        /\ view' = [view EXCEPT ![in] = F]
    BY <1>1, <1>3, <2>1 DEF PipeRight
  <2>4. QED
    BY <1>6, <2>2, <2>3
<1>14. Child(view', TRUE) /\ TRUE \in BOOLEAN
  BY <1>7, <1>10, <1>12, <1>13
<1>15. QED
  BY <1>2, <1>13, <1>14, LowIInv

-----------------------------------------------------------------------------
(* A command more, or one less. *)

\* s2 is s, of l elements, and e.
Pushes(S, s, l, e, s2) ==
  l \in Nat /\ l = Len(s) /\ s2 \in Seq(S) /\ Len(s2) = l + 1 /\ s2[l + 1] = e /\ Extends(s, s2, l)

\* One more.
LEMMA PushIs ==
  ASSUME NEW S, NEW s \in Seq(S), NEW e \in S
  PROVE  Pushes(S, s, Len(s), e, Append(s, e))
BY AppendProperties, LenProperties DEF Pushes, Extends

\* One less.
LEMMA PopIs ==
  ASSUME NEW S, NEW s \in Seq(S), s # <<>>, NEW s2, s2 = Front(s)
  PROVE  \E l \in Nat : /\ Len(s) = l + 1 /\ Last(s) = s[l + 1] /\ s[l + 1] \in S
                        /\ s2 \in Seq(S) /\ Len(s2) = l /\ Extends(s, s2, l)
<1>1. Len(s) \in Nat \ {0}
  BY EmptySeq
<1>2. PICK l \in Nat : Len(s) = l + 1
  <2>1. Len(s) - 1 \in Nat /\ Len(s) = (Len(s) - 1) + 1
    BY <1>1
  <2>2. QED
    BY <2>1
<1>3. \A i \in 1 .. l + 1 : s[i] \in S
  BY <1>2, ElementOfSeq
<1>4. Len(s) - 1 = l
  BY <1>2
<1>5. Last(s) = s[l + 1] /\ Front(s) = SubSeq(s, 1, l)
  BY <1>2, <1>4 DEF Last, Front
<1>6. s2 = [i \in 1 .. l |-> s[i]]
  BY <1>2, <1>5
<1>7. s2 \in Seq(S) /\ Len(s2) = l /\ Extends(s, s2, l)
  BY <1>3, <1>6 DEF Extends
<1>8. s[l + 1] \in S
  BY <1>3
<1>9. QED
  BY <1>2, <1>5, <1>7, <1>8

\* A command more, which notes nothing, or does not do things at once.
LEMMA DirectPush ==
  ASSUME NEW fs, NEW l \in Nat, Direct(fs, l), NEW fs2, Extends(fs, fs2, l),
         fs2[l + 1].inchild => /\ fs2[l + 1].kind \notin Defers
                               /\ \A j \in 1 .. l : fs[j].kind \notin Defers
  PROVE  Direct(fs2, l + 1)
<1>. SUFFICES ASSUME NEW k \in 1 .. l + 1, fs2[k].inchild, NEW j \in 1 .. k
              PROVE  fs2[j].kind \notin Defers
  BY DEF Direct
<1>1. CASE k = l + 1
  <2>1. j = l + 1 \/ (j \in 1 .. l /\ fs2[j] = fs[j])
    BY <1>1 DEF Extends
  <2>2. QED
    BY <1>1, <2>1
<1>2. CASE k # l + 1
  <2>1. k \in 1 .. l /\ fs2[k] = fs[k] /\ fs2[j] = fs[j]
    BY <1>2 DEF Extends
  <2>2. QED
    BY <2>1 DEF Direct
<1>3. QED
  BY <1>1, <1>2

\* One less.
LEMMA DirectPop ==
  ASSUME NEW fs, NEW l \in Nat, Direct(fs, l + 1), NEW fs2, Extends(fs, fs2, l)
  PROVE  Direct(fs2, l)
<1>. SUFFICES ASSUME NEW k \in 1 .. l, fs2[k].inchild, NEW j \in 1 .. k
              PROVE  fs2[j].kind \notin Defers
  BY DEF Direct
<1>1. k \in 1 .. l + 1 /\ fs2[k] = fs[k] /\ fs2[j] = fs[j]
  BY DEF Extends
<1>2. QED
  BY <1>1 DEF Direct

\* No descriptor above 2 that is open, and not the shell's, is closed.
Leaves(s, t, r, t2, r2) ==
  \A n \in Fd : n >= 3 /\ Standard(s) /\ t[n] # Closed /\ ~Holds(r, n) =>
                  t2[n] # Closed /\ ~Holds(r2, n)

\* A command more, that is not the owner of a name.
LEMMA NamedPush ==
  ASSUME NEW s, NEW fs, NEW l \in Nat, NEW t, NEW r, Named(s, fs, l, t, r),
         NEW fs2, Extends(fs, fs2, l), fs2[l + 1].kind # "readfrom",
         NEW t2, NEW r2, Leaves(s, t, r, t2, r2)
  PROVE  Named(s, fs2, l + 1, t2, r2)
<1>1. \A k \in 1 .. l + 1 : fs2[k].kind = "readfrom" => k \in 1 .. l /\ fs2[k] = fs[k]
  BY DEF Extends
<1>2. ASSUME NEW k \in 1 .. l + 1, fs2[k].kind = "readfrom"
      PROVE  /\ Standard(s) /\ fs2[k].fd \in Fd /\ fs2[k].fd >= 3
             /\ t2[fs2[k].fd] # Closed /\ ~Holds(r2, fs2[k].fd)
  BY <1>1, <1>2 DEF Named, Leaves
<1>3. ASSUME NEW k \in 1 .. l + 1, NEW j \in 1 .. l + 1, fs2[k].kind = "readfrom",
             fs2[j].kind = "readfrom", fs2[k].fd = fs2[j].fd
      PROVE  k = j
  BY <1>1, <1>3 DEF Named
<1>4. QED
  BY <1>2, <1>3 DEF Named

\* One less.
LEMMA NamedPop ==
  ASSUME NEW s, NEW fs, NEW l \in Nat, NEW t, NEW r, Named(s, fs, l + 1, t, r),
         NEW fs2, Extends(fs, fs2, l), NEW t2, NEW r2, Leaves(s, t, r, t2, r2)
  PROVE  Named(s, fs2, l, t2, r2)
<1>1. \A k \in 1 .. l : k \in 1 .. l + 1 /\ fs2[k] = fs[k]
  BY DEF Extends
<1>2. ASSUME NEW k \in 1 .. l, fs2[k].kind = "readfrom"
      PROVE  /\ Standard(s) /\ fs2[k].fd \in Fd /\ fs2[k].fd >= 3
             /\ t2[fs2[k].fd] # Closed /\ ~Holds(r2, fs2[k].fd)
  BY <1>1, <1>2 DEF Named, Leaves
<1>3. ASSUME NEW k \in 1 .. l, NEW j \in 1 .. l, fs2[k].kind = "readfrom",
             fs2[j].kind = "readfrom", fs2[k].fd = fs2[j].fd
      PROVE  k = j
  BY <1>1, <1>3 DEF Named
<1>4. QED
  BY <1>2, <1>3 DEF Named

\* A command begins or ends, and nothing else changes.
LEMMA AlikeItself ==
  ASSUME NEW t, NEW r, NEW d, NEW n
  PROVE  Alike(t, r, d, t, r, d, 1, n) /\ SameTargets(t, r, d, t, r, n)
BY DEF Alike, SameTargets

\* Where operations are done at once, no command has noted one.
LEMMA InchildDirect ==
  ASSUME IInv, Len(deftab) = 0, NEW l, l = Len(frames)
  PROVE  \A j \in 1 .. l : frames[j].kind \notin Defers
<1>1. PICK n : n = Len(deftab)
  OBVIOUS
<1>2. PICK f : Tied(f, frames, l, deftab, n, table, reserved)
  BY <1>1 DEF IInv
<1>3. n = 0
  BY <1>1
<1>4. QED
  BY <1>2, <1>3 DEF Tied

\* A part of a sequence, or exec.
LEMMA PlainPush ==
  ASSUME Careful, IInv, NEW kind \in {"seq", "exec"}, NEW b \in BOOLEAN, b => Len(deftab) = 0,
         frames' = Append(frames, Frame(kind, b)),
         UNCHANGED <<setup, table, deftab, reserved, view>>
  PROVE  IInv'
<1>1. PICK l, n : l = Len(frames) /\ n = Len(deftab)
  OBVIOUS
<1>2. PICK e : e = Frame(kind, b)
  OBVIOUS
<1>3. e \in FrameType /\ e.kind = kind /\ e.inchild = b
  BY <1>2, FdCount DEF Frame, FrameType, Kinds, Fd, Files, Closed
<1>4. frames \in Seq(FrameType) /\ n \in Nat
  BY <1>1, LenProperties DEF IInv, Types
<1>5. PICK fs2 : fs2 = frames'
  OBVIOUS
<1>6. /\ l \in Nat /\ fs2 \in Seq(FrameType) /\ Len(fs2) = l + 1 /\ fs2[l + 1] = e
      /\ Extends(frames, fs2, l)
  <2>1. fs2 = Append(frames, e) /\ l = Len(frames)
    BY <1>1, <1>2, <1>5
  <2>2. Pushes(FrameType, frames, Len(frames), e, Append(frames, e))
    BY <1>3, <1>4, PushIs
  <2>3. Pushes(FrameType, frames, l, e, fs2)
    BY <2>1, <2>2
  <2>4. QED
    BY <2>3 DEF Pushes
<1>7. fs2[l + 1].kind \notin Defers /\ fs2[l + 1].kind # "readfrom"
  BY <1>3, <1>6 DEF Defers
<1>8. Direct(fs2, l + 1)
  <2>1. Direct(frames, l)
    BY <1>1 DEF IInv
  <2>2. b => \A j \in 1 .. l : frames[j].kind \notin Defers
    BY <1>1, InchildDirect
  <2>3. QED
    BY <1>3, <1>6, <1>7, <2>1, <2>2, DirectPush
<1>9. Named(setup, fs2, l + 1, table, reserved)
  <2>1. Named(setup, frames, l, table, reserved)
    BY <1>1 DEF IInv
  <2>2. Leaves(setup, table, reserved, table, reserved)
    BY DEF Leaves
  <2>3. QED
    BY <1>6, <1>7, <2>1, <2>2, NamedPush
<1>10. \E f : Tied(f, fs2, l + 1, deftab, n, table, reserved)
  <2>1. PICK f : Tied(f, frames, l, deftab, n, table, reserved)
    BY <1>1 DEF IInv
  <2>2. Tied(f, fs2, l + 1, deftab, n, table, reserved)
    BY <1>4, <1>6, <1>7, <2>1, AlikeItself, TiedPush
  <2>3. QED
    BY <2>2
<1>11. QED
  BY <1>1, <1>5, <1>6, <1>8, <1>9, <1>10 DEF IInv, Types

\* The end of a command that has changed nothing.
LEMMA EndIInv ==
  ASSUME Careful, IInv, End
  PROVE  IInv'
<1>1. PICK n : n = Len(deftab)
  OBVIOUS
<1>2. frames \in Seq(FrameType) /\ n \in Nat
  BY <1>1, LenProperties DEF IInv, Types
<1>3. PICK fs2 : fs2 = frames'
  OBVIOUS
<1>4. /\ frames # <<>> /\ fs2 = Front(frames) /\ Last(frames).kind \in {"seq", "exec", "done"}
      /\ UNCHANGED <<setup, table, deftab, reserved, view>>
  BY <1>3 DEF End
<1>5. PICK l \in Nat : /\ Len(frames) = l + 1 /\ Last(frames) = frames[l + 1]
                       /\ fs2 \in Seq(FrameType) /\ Len(fs2) = l /\ Extends(frames, fs2, l)
  BY <1>2, <1>4, PopIs
<1>6. frames[l + 1].kind \notin Defers
  BY <1>4, <1>5 DEF Defers
<1>7. Direct(fs2, l)
  <2>1. Direct(frames, l + 1)
    BY <1>5 DEF IInv
  <2>2. QED
    BY <1>5, <2>1, DirectPop
<1>8. Named(setup, fs2, l, table, reserved)
  <2>1. Named(setup, frames, l + 1, table, reserved)
    BY <1>5 DEF IInv
  <2>2. Leaves(setup, table, reserved, table, reserved)
    BY DEF Leaves
  <2>3. QED
    BY <1>5, <2>1, <2>2, NamedPop
<1>9. \E f : Tied(f, fs2, l, deftab, n, table, reserved)
  <2>1. PICK f : Tied(f, frames, l + 1, deftab, n, table, reserved)
    BY <1>1, <1>5 DEF IInv
  <2>2. Tied(f, fs2, l, deftab, n, table, reserved)
    BY <1>2, <1>5, <1>6, <2>1, AlikeItself, TiedPop
  <2>3. QED
    BY <2>2
<1>10. QED
  BY <1>1, <1>3, <1>4, <1>5, <1>7, <1>8, <1>9 DEF IInv, Types

\* The commands of a sequence.
LEMMA SeqIInv ==
  ASSUME Careful, IInv, Seq1
  PROVE  IInv'
<1>1. /\ frames' = Append(frames, Frame("seq", FALSE))
      /\ UNCHANGED <<setup, table, deftab, reserved, view>>
  BY DEF Seq1
<1>2. "seq" \in {"seq", "exec"} /\ FALSE \in BOOLEAN /\ (FALSE => Len(deftab) = 0)
  OBVIOUS
<1>3. QED
  BY <1>1, <1>2, PlainPush

\* The same of exec, which comes where nothing is noted.
LEMMA ExecIInv ==
  ASSUME Careful, IInv, Exec
  PROVE  IInv'
<1>1. /\ frames' = Append(frames, Frame("exec", TRUE)) /\ (deftab # <<>> => ExecInRedir)
      /\ UNCHANGED <<setup, table, deftab, reserved, view>>
  BY DEF Exec
<1>2. deftab = <<>>
  BY <1>1 DEF Careful
<1>3. Len(deftab) = 0
  BY <1>2
<1>4. "exec" \in {"seq", "exec"} /\ TRUE \in BOOLEAN /\ (TRUE => Len(deftab) = 0)
  BY <1>3
<1>5. QED
  BY <1>1, <1>4, PlainPush

-----------------------------------------------------------------------------
(* A redirection is noted. *)

\* The operation gets the number real, -1 for a close, and the file F; nothing else
\* changes its meaning.
Notes(t, r, n, real, u, F, t2, r2) ==
  /\ Sound(t2, r2) /\ DOMAIN r2 = DOMAIN r \cup {n + 1} /\ r2[n + 1] = real
  /\ FileOf(t2, real) = F /\ (real = -1 => u > 2) /\ real \in Fd \cup {-1}
  /\ \A j \in DOMAIN r : r2[j] = r[j] /\ FileOf(t2, r2[j]) = FileOf(t, r[j])
  /\ \A m \in Fd : Base(t2, r2, m) = Base(t, r, m)
  /\ \A m \in Fd : t[m] # Closed => t2[m] # Closed /\ (Holds(r2, m) <=> Holds(r, m))

\* A file is opened for it.
LEMMA NotesOpen ==
  ASSUME NEW t, NEW r, NEW c, NEW F, NEW n \in Nat, Openable(t, r, c, F, n + 1), NEW u
  PROVE  Notes(t, r, n, Free(t), u, F, Open(t, F), AddTo(r, n + 1, Free(t)))
<1>1. PICK t2, r2, m : t2 = Open(t, F) /\ r2 = AddTo(r, n + 1, Free(t)) /\ m = Free(t)
  OBVIOUS
<1>2. Opened(t, r, c, F, n + 1, t2, r2)
  BY <1>1, RegisterKeeps
<1>3. r2[n + 1] = m /\ m \in Fd /\ m # -1
  <2>1. r2[n + 1] = m
    BY <1>1 DEF AddTo
  <2>2. QED
    BY <1>1, <1>2, <2>1, FdCount DEF Opened
<1>4. Notes(t, r, n, m, u, F, t2, r2)
  BY <1>2, <1>3 DEF Opened, Notes
<1>5. QED
  BY <1>1, <1>4

\* Or none: a close.
LEMMA NotesClose ==
  ASSUME NEW t, NEW r, NEW n \in Nat, Addable(t, r, n + 1, -1), NEW u, u > 2
  PROVE  Notes(t, r, n, -1, u, Closed, t, AddTo(r, n + 1, -1))
<1>1. PICK r2 : r2 = AddTo(r, n + 1, -1)
  OBVIOUS
<1>2. Added(t, r, n + 1, -1, r2)
  BY <1>1, AddKeeps
<1>3. \A m \in Fd : m # -1
  BY FdCount
<1>4. Notes(t, r, n, -1, u, Closed, t, r2)
  BY <1>2, <1>3 DEF Added, Notes, FileOf
<1>5. QED
  BY <1>1, <1>4

\* The step.
LEMMA NotedIInv ==
  ASSUME Careful, IInv, CanEnter, NEW u \in setup.user, NEW F \in Files, NEW real,
         Notes(table, reserved, Len(deftab), real, u, F, table', reserved'),
         deftab' = Append(deftab, u), view' = [view EXCEPT ![u] = F], setup' = setup,
         NEW e \in FrameType, frames' = Append(frames, e), e.kind \in Defers, ~e.inchild,
         e.user = u, e.file = view[u], e.fd = real
  PROVE  IInv'
<1>1. PICK l, n, d2, t2, r2, w, fs2 :
        /\ l = Len(frames) /\ n = Len(deftab) /\ d2 = deftab' /\ t2 = table' /\ r2 = reserved'
        /\ w = view' /\ fs2 = frames'
  OBVIOUS
<1>2. /\ frames \in Seq(FrameType) /\ deftab \in Seq(setup.user) /\ setup \in Setups
      /\ n \in Nat /\ view \in [Fd -> Files] /\ DOMAIN reserved = 0 .. n
      /\ Sound(table, reserved) /\ Targets(reserved, deftab, 1, n)
      /\ Means(view, table, reserved, deftab, 1, n) /\ Few(setup, view)
      /\ Direct(frames, l) /\ Named(setup, frames, l, table, reserved)
  BY <1>1, LenProperties DEF IInv, Types
<1>3. u \in Fd
  BY <1>2, SetupIs
<1>4. Notes(table, reserved, n, real, u, F, t2, r2)
  BY <1>1
<1>5. /\ l \in Nat /\ fs2 \in Seq(FrameType) /\ Len(fs2) = l + 1 /\ fs2[l + 1] = e
      /\ Extends(frames, fs2, l)
  <2>1. Pushes(FrameType, frames, Len(frames), e, Append(frames, e))
    BY <1>2, PushIs
  <2>2. Pushes(FrameType, frames, l, e, fs2)
    BY <1>1, <2>1
  <2>3. QED
    BY <2>2 DEF Pushes
<1>6. /\ d2 \in Seq(setup.user) /\ Len(d2) = n + 1 /\ d2[n + 1] = u
      /\ \A i \in 1 .. n : d2[i] = deftab[i]
  <2>1. Pushes(setup.user, deftab, Len(deftab), u, Append(deftab, u))
    BY <1>2, PushIs
  <2>2. Pushes(setup.user, deftab, n, u, d2)
    BY <1>1, <2>1
  <2>3. QED
    BY <2>2 DEF Pushes, Extends
<1>7. \A i \in 1 .. n : i \in DOMAIN reserved /\ deftab[i] \in Fd
  BY <1>2 DEF Targets
<1>8. Alike(table, reserved, deftab, t2, r2, d2, 1, n)
  BY <1>4, <1>6, <1>7 DEF Alike, Notes
<1>9. SameBase(table, reserved, t2, r2)
  BY <1>4 DEF SameBase, Notes
<1>10. SameTargets(table, reserved, deftab, t2, r2, n)
  BY <1>4, <1>7 DEF SameTargets, Notes
<1>11. Targets(r2, d2, 1, n + 1)
  <2>1. SUFFICES ASSUME NEW i \in 1 .. n + 1
                 PROVE  i \in DOMAIN r2 /\ d2[i] \in Fd /\ (r2[i] = -1 => d2[i] > 2)
    BY DEF Targets
  <2>2. CASE i = n + 1
    BY <1>3, <1>4, <1>6, <2>2 DEF Notes
  <2>3. CASE i \in 1 .. n
    BY <1>2, <1>4, <1>6, <1>7, <2>3 DEF Notes, Targets
  <2>4. QED
    BY <1>2, <2>2, <2>3
<1>12. Means(w, t2, r2, d2, 1, n + 1)
  <2>1. FileOf(t2, r2[n + 1]) = F
    BY <1>4 DEF Notes
  <2>2. Means([view EXCEPT ![u] = F], t2, r2, d2, 1, n + 1)
    BY <1>2, <1>3, <1>6, <1>8, <1>9, <2>1, MeansMore
  <2>3. QED
    BY <1>1, <2>2
<1>13. PICK f : Tied(f, frames, l, deftab, n, table, reserved)
  BY <1>1 DEF IInv
<1>14. \E g : Tied(g, fs2, l + 1, d2, n + 1, t2, r2)
  <2>1. Gets(view[u], table, reserved, deftab, 1, n, u)
    BY <1>2, <1>3 DEF Means
  <2>2. Gets(view[u], t2, r2, d2, 1, n, u)
    BY <1>2, <1>3, <1>8, <1>9, <2>1, GetsSame DEF SameBase
  <2>3. Gets(fs2[l + 1].file, t2, r2, d2, 1, n, d2[n + 1])
    BY <1>5, <1>6, <2>2
  <2>4. fs2[l + 1].kind \in Defers /\ fs2[l + 1].user = d2[n + 1] /\ fs2[l + 1].fd = r2[n + 1]
    BY <1>4, <1>5, <1>6 DEF Notes
  <2>5. QED
    BY <1>2, <1>5, <1>8, <1>10, <1>13, <2>3, <2>4, TiedNote
<1>15. n + 1 <= MaxDepth
  <2>1. n <= l
    BY <1>2, <1>5, <1>13, TiedFew
  <2>2. l < MaxDepth
    BY <1>1 DEF CanEnter
  <2>3. QED
    BY <1>2, <1>5, <2>1, <2>2, FdCount
<1>16. DOMAIN r2 = 0 .. n + 1
  BY <1>2, <1>4 DEF Notes
<1>17. w \in [Fd -> Files] /\ Few(setup, w)
  BY <1>1, <1>2, <1>3, FewAt
<1>18. Direct(fs2, l + 1)
  BY <1>2, <1>5, DirectPush
<1>19. Named(setup, fs2, l + 1, t2, r2)
  <2>1. Leaves(setup, table, reserved, t2, r2)
    BY <1>4 DEF Leaves, Notes
  <2>2. fs2[l + 1].kind # "readfrom"
    BY <1>5 DEF Defers
  <2>3. QED
    BY <1>2, <1>5, <2>1, <2>2, NamedPush
<1>20. Sound(t2, r2)
  BY <1>4 DEF Notes
<1>21. QED
  <2>1. Types'
    BY <1>1, <1>2, <1>5, <1>6, <1>15, <1>16, <1>17 DEF Types
  <2>2. Targets(reserved', deftab', 1, Len(deftab')) /\ Sound(table', reserved')
    BY <1>1, <1>6, <1>11, <1>20
  <2>3. Means(view', table', reserved', deftab', 1, Len(deftab')) /\ Few(setup', view')
    BY <1>1, <1>6, <1>12, <1>17
  <2>4. /\ Direct(frames', Len(frames')) /\ Named(setup', frames', Len(frames'), table', reserved')
        /\ \E g : Tied(g, frames', Len(frames'), deftab', Len(deftab'), table', reserved')
    BY <1>1, <1>5, <1>6, <1>14, <1>18, <1>19
  <2>5. QED
    BY <2>1, <2>2, <2>3, <2>4 DEF IInv

\* redir, where the operation is noted.
LEMMA RedirNotes ==
  ASSUME Careful, IInv, ~Inchild, NEW kind \in Defers, NEW u \in setup.user, NEW F \in Files,
         NEW real, NEW t,
         Notes(table, reserved, Len(deftab), real, u, F, t, AddTo(reserved, Len(deftab) + 1, real)),
         NEW p, p = TRUE, Redir(kind, p, [table |-> t, reserved |-> reserved], real, u, F)
  PROVE  IInv'
<1>1. PICK s : s = [table |-> t, reserved |-> reserved]
  OBVIOUS
<1>2. s.table = t /\ s.reserved = reserved
  BY <1>1
<1>3. Redir(kind, TRUE, s, real, u, F)
  BY <1>1
<1>4. /\ CanEnter /\ table' = s.table /\ deftab' = Append(deftab, u)
      /\ reserved' = [r \in 0 .. Len(deftab') |->
                        IF r = Len(deftab') THEN real ELSE s.reserved[r]]
      /\ frames' = Append(frames, [Frame(kind, Inchild) EXCEPT !.user = u, !.file = view[u],
                                                              !.fd = real])
      /\ view' = [view EXCEPT ![u] = F] /\ setup' = setup
  BY <1>3 DEF Redir
<1>5. PICK n : n = Len(deftab)
  OBVIOUS
<1>6. /\ deftab \in Seq(setup.user) /\ n \in Nat /\ DOMAIN reserved = 0 .. n /\ setup \in Setups
      /\ view \in [Fd -> Files]
  BY <1>5, LenProperties DEF IInv, Types
<1>7. Len(deftab') = n + 1
  <2>1. Pushes(setup.user, deftab, Len(deftab), u, Append(deftab, u))
    BY <1>6, PushIs
  <2>2. QED
    BY <1>4, <1>5, <2>1 DEF Pushes
<1>8. reserved' = AddTo(reserved, n + 1, real)
  <2>1. 0 .. n + 1 = (0 .. n) \cup {n + 1}
    BY <1>6
  <2>2. reserved' = [r \in 0 .. n + 1 |-> IF r = n + 1 THEN real ELSE reserved[r]]
    BY <1>2, <1>4, <1>7
  <2>3. QED
    BY <1>6, <2>1, <2>2 DEF AddTo
<1>9. Notes(table, reserved, Len(deftab), real, u, F, table', reserved')
  BY <1>2, <1>4, <1>5, <1>8
<1>10. PICK e : e = [Frame(kind, Inchild) EXCEPT !.user = u, !.file = view[u], !.fd = real]
  OBVIOUS
<1>11. real \in Fd \cup {-1} /\ u \in Fd /\ view[u] \in Files
  <2>1. u \in Fd
    BY <1>6, SetupIs
  <2>2. QED
    BY <1>6, <1>9, <2>1 DEF Notes
<1>12. e = [kind |-> kind, inchild |-> Inchild, user |-> u, file |-> view[u], fd |-> real]
  BY <1>10 DEF Frame
<1>13. /\ e \in FrameType /\ e.kind = kind /\ ~e.inchild /\ e.user = u /\ e.file = view[u]
       /\ e.fd = real
  <2>1. Inchild = FALSE
    BY DEF Inchild
  <2>2. kind \in Kinds
    BY DEF Kinds, Defers
  <2>3. e = [kind |-> kind, inchild |-> FALSE, user |-> u, file |-> view[u], fd |-> real]
    BY <1>12, <2>1
  <2>4. QED
    BY <1>11, <2>2, <2>3 DEF FrameType
<1>14. QED
  BY <1>4, <1>9, <1>10, <1>13, NotedIInv

\* here, which comes where operations are noted only.
LEMMA HereIInv ==
  ASSUME Careful, IInv, NEW u \in setup.user, Here(u)
  PROVE  IInv'
<1>1. /\ Redir("here", TRUE, [Now EXCEPT !.table = Open(@, NewFile)], Free(table), u, NewFile)
      /\ Inchild => HereInChild
  BY DEF Here
<1>2. ~Inchild
  BY <1>1 DEF Careful
<1>3. [Now EXCEPT !.table = Open(@, NewFile)]
        = [table |-> Open(table, NewFile), reserved |-> reserved]
  BY DEF Now
<1>4. PICK n \in Nat : n = Len(deftab)
  BY NowIs
<1>5. Openable(table, reserved, 2, NewFile, n + 1) /\ NewFile \in Files
  BY <1>4, NowIs DEF Openable, Opening, Input
<1>6. PICK t : t = Open(table, NewFile)
  OBVIOUS
<1>7. Notes(table, reserved, n, Free(table), u, NewFile, t, AddTo(reserved, n + 1, Free(table)))
  BY <1>5, <1>6, NotesOpen
<1>8. "here" \in Defers
  BY DEF Defers
<1>9. Redir("here", TRUE, [table |-> t, reserved |-> reserved], Free(table), u, NewFile)
  BY <1>1, <1>3, <1>6
<1>10. PICK real : real = Free(table)
  OBVIOUS
<1>11. Notes(table, reserved, Len(deftab), real, u, NewFile, t,
             AddTo(reserved, Len(deftab) + 1, real))
  BY <1>4, <1>7, <1>10
<1>12. QED
  BY <1>2, <1>5, <1>8, <1>9, <1>10, <1>11, RedirNotes

-----------------------------------------------------------------------------
(* A redirection is done at once. *)

\* The file is open, under a number that nobody has, or there is none.
Begins(t, real, u, F) ==
  /\ Sound(t, reserved) /\ Room(t, 0) /\ Unheld(t, reserved, real) /\ FileOf(t, real) = F
  /\ (real = -1 => u > 2)
  /\ \A n \in Fd : IF n = real THEN table[n] = Closed ELSE t[n] = table[n]

\* It is opened.
LEMMA BeginsOpen ==
  ASSUME NEW c, NEW F, Opening(table, reserved, c, F), NEW u
  PROVE  Begins(Open(table, F), Free(table), u, F)
<1>1. PICK t, m : t = Open(table, F) /\ m = Free(table)
  OBVIOUS
<1>2. OpensAt(table, reserved, c, F, m, t)
  BY <1>1, OpenKeeps
<1>3. Room(t, 0)
  <2>1. Room(t, c) /\ c \in Nat
    BY <1>2 DEF OpensAt, Opening
  <2>2. QED
    BY <2>1, OpenFinite, FdCount DEF Room
<1>4. m # -1 /\ m \in Fd /\ F # Closed
  BY <1>2, FdCount DEF OpensAt, Opening
<1>5. Begins(t, m, u, F)
  BY <1>2, <1>3, <1>4 DEF OpensAt, Begins, Unheld, FileOf
<1>6. QED
  BY <1>1, <1>5

\* Nothing is.
LEMMA BeginsClose ==
  ASSUME Sound(table, reserved), NEW c \in Nat, Room(table, c), NEW u, u > 2
  PROVE  Begins(table, -1, u, Closed)
<1>1. Room(table, 0)
  BY OpenFinite, FdCount DEF Room
<1>2. \A n \in Fd : n # -1
  BY FdCount
<1>3. QED
  BY <1>1, <1>2 DEF Begins, Unheld, FileOf

\* The step.
LEMMA RedirDone ==
  ASSUME Careful, IInv, Inchild, NEW u \in setup.user, NEW F \in Files, NEW real, NEW t,
         Begins(t, real, u, F), NEW p, p = FALSE, NEW kind,
         Redir(kind, p, [table |-> t, reserved |-> reserved], real, u, F)
  PROVE  IInv'
<1>1. PICK s : s = [table |-> t, reserved |-> reserved]
  OBVIOUS
<1>2. Redir(kind, FALSE, s, real, u, F)
  BY <1>1
<1>3. /\ table' = Dodeferred(s, real, u).table /\ reserved' = Dodeferred(s, real, u).reserved
      /\ frames' = Append(frames, Frame("done", Inchild)) /\ deftab' = deftab
      /\ view' = [view EXCEPT ![u] = F] /\ setup' = setup
  BY <1>2 DEF Redir
<1>4. PICK l, n : l = Len(frames) /\ n = Len(deftab)
  OBVIOUS
<1>5. /\ frames \in Seq(FrameType) /\ setup \in Setups /\ deftab \in Seq(setup.user)
      /\ view \in [Fd -> Files] /\ DOMAIN reserved = 0 .. n
      /\ Sound(table, reserved) /\ Means(view, table, reserved, deftab, 1, n)
      /\ Few(setup, view) /\ Direct(frames, l) /\ Named(setup, frames, l, table, reserved)
      /\ n <= MaxDepth
  BY <1>4 DEF IInv, Types
<1>6. n = 0
  BY <1>4, InchildEmpty
<1>7. u \in Fd
  BY <1>5, SetupIs
<1>8. PICK t2, r2 : s.table = t /\ Dodeferred(s, real, u) = [table |-> t2, reserved |-> r2]
                    /\ Kept(t, reserved, real, u, t2, r2)
  BY <1>1, <1>7, DodeferredKeeps DEF Begins
<1>9. table' = t2 /\ reserved' = r2
  BY <1>3, <1>8
<1>10. PICK w, fs2, e : w = view' /\ fs2 = frames' /\ e = Frame("done", Inchild)
  OBVIOUS
<1>11. e \in FrameType /\ e.kind = "done"
  <2>1. Inchild \in BOOLEAN
    BY DEF Inchild
  <2>2. Inchild = TRUE
    BY <2>1
  <2>3. e = [kind |-> "done", inchild |-> TRUE, user |-> 0, file |-> Closed, fd |-> -1]
    BY <1>10, <2>2 DEF Frame
  <2>4. 0 \in Fd /\ Closed \in Files
    BY FdCount DEF Fd, Files, Closed
  <2>5. QED
    BY <2>3, <2>4 DEF FrameType, Kinds
<1>12. /\ l \in Nat /\ fs2 \in Seq(FrameType) /\ Len(fs2) = l + 1 /\ fs2[l + 1] = e
       /\ Extends(frames, fs2, l)
  <2>1. Pushes(FrameType, frames, Len(frames), e, Append(frames, e))
    BY <1>5, <1>11, PushIs
  <2>2. Pushes(FrameType, frames, l, e, fs2)
    BY <1>3, <1>4, <1>10, <2>1
  <2>3. QED
    BY <2>2 DEF Pushes
<1>13. Sound(t2, r2) /\ DOMAIN r2 = 0 .. n
  BY <1>5, <1>8 DEF Kept
<1>14. \A m \in Fd : Base(t2, r2, m) = IF m = u THEN F ELSE Base(table, reserved, m)
  <2>1. SUFFICES ASSUME NEW m \in Fd
                 PROVE  Base(t2, r2, m) = IF m = u THEN F ELSE Base(table, reserved, m)
    OBVIOUS
  <2>2. Base(t2, r2, m) = IF m = u THEN FileOf(t, real) ELSE IF m = real THEN Closed
                          ELSE Base(t, reserved, m)
    BY <1>8 DEF Kept, NewBase
  <2>3. FileOf(t, real) = F
    BY DEF Begins
  <2>4. m = real => Base(table, reserved, m) = Closed
    BY DEF Begins, Base
  <2>5. m # real => Base(t, reserved, m) = Base(table, reserved, m)
    BY DEF Begins, Base
  <2>6. QED
    BY <2>2, <2>3, <2>4, <2>5
<1>15. w \in [Fd -> Files] /\ Few(setup, w) /\ w = [view EXCEPT ![u] = F]
  BY <1>3, <1>5, <1>7, <1>10, FewAt
<1>16. Means(w, t2, r2, deftab, 1, n)
  <2>1. SUFFICES ASSUME NEW m \in Fd
                 PROVE  Gets(w[m], t2, r2, deftab, 1, n, m)
    BY DEF Means
  <2>2. Gets(view[m], table, reserved, deftab, 1, n, m)
    BY <1>5 DEF Means
  <2>3. view[m] = Base(table, reserved, m)
    BY <1>6, <2>2 DEF Gets
  <2>4. w[m] = IF m = u THEN F ELSE view[m]
    BY <1>5, <1>15
  <2>5. w[m] = Base(t2, r2, m)
    BY <1>14, <2>3, <2>4
  <2>6. QED
    BY <1>6, <2>5 DEF Gets
<1>17. fs2[l + 1].kind \notin Defers /\ fs2[l + 1].kind # "readfrom"
  BY <1>11, <1>12 DEF Defers
<1>18. \E f : Tied(f, fs2, l + 1, deftab, n, t2, r2)
  <2>1. PICK f : Tied(f, frames, l, deftab, n, table, reserved)
    BY <1>4 DEF IInv
  <2>2. Alike(table, reserved, deftab, t2, r2, deftab, 1, n)
    BY <1>6 DEF Alike
  <2>3. SameTargets(table, reserved, deftab, t2, r2, n)
    BY <1>6 DEF SameTargets
  <2>4. Tied(f, fs2, l + 1, deftab, n, t2, r2)
    BY <1>6, <1>12, <1>17, <2>1, <2>2, <2>3, TiedPush
  <2>5. QED
    BY <2>4
<1>19. Direct(fs2, l + 1)
  <2>1. \A j \in 1 .. l : frames[j].kind \notin Defers
    BY <1>4, <1>6, InchildDirect
  <2>2. QED
    BY <1>5, <1>12, <1>17, <2>1, DirectPush
<1>20. Named(setup, fs2, l + 1, t2, r2)
  <2>1. Leaves(setup, table, reserved, t2, r2)
    <3>1. SUFFICES ASSUME NEW m \in Fd, m >= 3, Standard(setup), table[m] # Closed,
                          ~Holds(reserved, m)
                   PROVE  t2[m] # Closed /\ ~Holds(r2, m)
      BY DEF Leaves
    <3>2. m # u /\ m \in Nat
      BY <3>1, FdCount DEF Standard
    <3>3. m # real /\ t[m] = table[m]
      BY <3>1 DEF Begins
    <3>4. t2[m] = t[m] /\ ~Holds(r2, m)
      BY <1>8, <3>1, <3>2, <3>3 DEF Kept, Others
    <3>5. QED
      BY <3>1, <3>3, <3>4
  <2>2. QED
    BY <1>5, <1>12, <1>17, <2>1, NamedPush
<1>21. Targets(r2, deftab, 1, n)
  BY <1>6 DEF Targets
<1>22. QED
  <2>1. Types'
    BY <1>3, <1>4, <1>5, <1>9, <1>10, <1>12, <1>13, <1>15 DEF Types
  <2>2. Targets(reserved', deftab', 1, Len(deftab')) /\ Sound(table', reserved')
    BY <1>3, <1>4, <1>9, <1>13, <1>21
  <2>3. Means(view', table', reserved', deftab', 1, Len(deftab')) /\ Few(setup', view')
    BY <1>3, <1>4, <1>9, <1>10, <1>15, <1>16
  <2>4. /\ Direct(frames', Len(frames')) /\ Named(setup', frames', Len(frames'), table', reserved')
        /\ \E g : Tied(g, frames', Len(frames'), deftab', Len(deftab'), table', reserved')
    BY <1>3, <1>4, <1>9, <1>10, <1>12, <1>18, <1>19, <1>20
  <2>5. QED
    BY <2>1, <2>2, <2>3, <2>4 DEF IInv

\* A file is opened.
LEMMA OpenfileIInv ==
  ASSUME Careful, IInv, NEW u \in setup.user, Openfile(u)
  PROVE  IInv'
<1>1. [Now EXCEPT !.table = Open(@, NewFile)]
        = [table |-> Open(table, NewFile), reserved |-> reserved]
  BY DEF Now
<1>2. PICK p, t, real : p = ~Inchild /\ t = Open(table, NewFile) /\ real = Free(table)
  OBVIOUS
<1>3. Redir("redir", p, [table |-> t, reserved |-> reserved], real, u, NewFile)
  BY <1>1, <1>2 DEF Openfile
<1>4. PICK n \in Nat : n = Len(deftab)
  BY NowIs
<1>5. Opening(table, reserved, 2, NewFile) /\ NewFile \in Files
  BY NowIs DEF Opening
<1>6. CASE Inchild
  <2>1. Begins(t, real, u, NewFile)
    BY <1>2, <1>5, BeginsOpen
  <2>2. p = FALSE
    BY <1>2, <1>6
  <2>3. QED
    BY <1>3, <1>5, <1>6, <2>1, <2>2, RedirDone
<1>7. CASE ~Inchild
  <2>1. Openable(table, reserved, 2, NewFile, n + 1)
    BY <1>4, <1>5, NowIs DEF Openable, Input
  <2>2. Notes(table, reserved, Len(deftab), real, u, NewFile, t,
              AddTo(reserved, Len(deftab) + 1, real))
    BY <1>2, <1>4, <2>1, NotesOpen
  <2>3. p = TRUE /\ "redir" \in Defers
    BY <1>2, <1>7 DEF Defers
  <2>4. QED
    BY <1>3, <1>5, <1>7, <2>2, <2>3, RedirNotes
<1>8. QED
  BY <1>6, <1>7

\* A descriptor is closed.
LEMMA CloseFdIInv ==
  ASSUME Careful, IInv, NEW u \in setup.user, CloseFd(u)
  PROVE  IInv'
<1>1. Now = [table |-> table, reserved |-> reserved]
  BY DEF Now
<1>2. PICK p, t, real : p = ~Inchild /\ t = table /\ real = -1
  OBVIOUS
<1>3. Redir("redir", p, [table |-> t, reserved |-> reserved], real, u, Closed) /\ u > 2
  BY <1>1, <1>2 DEF CloseFd, Careful
<1>4. PICK n \in Nat : n = Len(deftab)
  BY NowIs
<1>5. Sound(table, reserved) /\ Room(table, 3) /\ Closed \in Files
  BY NowIs, FdCount DEF Files, Closed
<1>6. CASE Inchild
  <2>1. Begins(t, real, u, Closed)
    BY <1>2, <1>3, <1>5, BeginsClose
  <2>2. p = FALSE
    BY <1>2, <1>6
  <2>3. QED
    BY <1>3, <1>5, <1>6, <2>1, <2>2, RedirDone
<1>7. CASE ~Inchild
  <2>1. Addable(table, reserved, n + 1, -1)
    BY <1>4, <1>5, NowIs DEF Addable, Input, Unheld
  <2>2. Notes(table, reserved, Len(deftab), real, u, Closed, t,
              AddTo(reserved, Len(deftab) + 1, real))
    BY <1>2, <1>3, <1>4, <2>1, NotesClose
  <2>3. p = TRUE /\ "redir" \in Defers
    BY <1>2, <1>7 DEF Defers
  <2>4. QED
    BY <1>3, <1>5, <1>7, <2>2, <2>3, RedirNotes
<1>8. QED
  BY <1>6, <1>7

-----------------------------------------------------------------------------
(* fdmap. *)

\* No operation is about a number that the shell has for one.
Apart(n) == \A i, j \in 1 .. n : deftab[i] # reserved[j]

\* x is what fdmap has made of u, when it has been through operations lo to n.
Mapped(x, u, lo, n) ==
  /\ \A k \in lo .. n : LastOf(deftab, k, n, u) => x = reserved[k]
  /\ (\A k \in lo .. n : deftab[k] # u) => x = u

\* One operation more.
LEMMA MappedNext ==
  ASSUME NEW n \in Nat, Apart(n), NEW i \in 0 .. n, i < n, NEW u, NEW x, Mapped(x, u, i + 2, n)
  PROVE  Mapped(Real(x, i + 1), u, i + 1, n)
<1>1. i + 1 \in 1 .. n
  OBVIOUS
<1>2. CASE \E k \in i + 2 .. n : deftab[k] = u
  <2>1. PICK h \in i + 2 .. n : deftab[h] = u
    BY <1>2
  <2>2. h \in 1 .. n
    OBVIOUS
  <2>3. PICK k \in 1 .. n : LastOf(deftab, k, n, u)
    BY <2>1, <2>2, LastExists
  <2>4. k \in i + 2 .. n
    BY <2>1, <2>3 DEF LastOf
  <2>5. x = reserved[k] /\ deftab[i + 1] # reserved[k]
    BY <1>1, <2>3, <2>4 DEF Mapped, Apart
  <2>6. Real(x, i + 1) = reserved[k]
    BY <2>5 DEF Real
  <2>7. \A l \in i + 1 .. n : LastOf(deftab, l, n, u) => l = k
    BY <2>3, <2>4 DEF LastOf
  <2>8. QED
    BY <2>3, <2>4, <2>6, <2>7 DEF Mapped, LastOf
<1>3. CASE \A k \in i + 2 .. n : deftab[k] # u
  <2>1. x = u
    BY <1>3 DEF Mapped
  <2>2. \A l \in i + 1 .. n : l = i + 1 \/ l \in i + 2 .. n
    OBVIOUS
  <2>3. CASE deftab[i + 1] = u
    BY <1>3, <2>1, <2>2, <2>3 DEF Mapped, LastOf, Real
  <2>4. CASE deftab[i + 1] # u
    BY <1>3, <2>1, <2>2, <2>4 DEF Mapped, LastOf, Real
  <2>5. QED
    BY <2>3, <2>4
<1>4. QED
  BY <1>2, <1>3

\* The numbers that fdmap goes through.
Numbers(g, u, n) == g = [i \in 0 .. n |-> IF i = n THEN u ELSE Real(g[i + 1], i + 1)]

\* There are such numbers.
LEMMA NumbersExist ==
  ASSUME NEW n \in Nat, Apart(n), NEW u
  PROVE  \E g : Numbers(g, u, n)
<1>1. PICK L : (\E k \in 1 .. n : deftab[k] = u) => L \in 1 .. n /\ LastOf(deftab, L, n, u)
  BY LastExists
<1>. DEFINE g == [i \in 0 .. n |-> IF \E k \in i + 1 .. n : deftab[k] = u THEN reserved[L] ELSE u]
<1>2. SUFFICES ASSUME NEW i \in 0 .. n
               PROVE  g[i] = IF i = n THEN u ELSE Real(g[i + 1], i + 1)
  BY Zenon DEF Numbers
<1>3. CASE i = n
  <2>1. i + 1 .. n = {}
    BY <1>3
  <2>2. QED
    BY <1>3, <2>1
<1>4. CASE i # n /\ \E k \in i + 2 .. n : deftab[k] = u
  <2>1. i + 1 \in 0 .. n /\ (i + 1) + 1 = i + 2 /\ i + 1 \in 1 .. n
    BY <1>4
  <2>2. \E k \in i + 1 .. n : deftab[k] = u
    BY <1>4
  <2>3. g[i] = reserved[L] /\ g[i + 1] = reserved[L]
    BY <1>4, <2>1, <2>2
  <2>4. L \in 1 .. n
    BY <1>1, <1>4
  <2>5. deftab[i + 1] # reserved[L]
    BY <2>1, <2>4 DEF Apart
  <2>. HIDE DEF g
  <2>6. QED
    BY <1>4, <2>3, <2>5 DEF Real
<1>5. CASE i # n /\ \A k \in i + 2 .. n : deftab[k] # u
  <2>1. i + 1 \in 0 .. n /\ (i + 1) + 1 = i + 2 /\ i + 1 \in 1 .. n
    BY <1>5
  <2>2. g[i + 1] = u
    BY <1>5, <2>1
  <2>3. \A k \in i + 1 .. n : k = i + 1 \/ k \in i + 2 .. n
    OBVIOUS
  <2>4. CASE deftab[i + 1] = u
    <3>1. L \in 1 .. n /\ LastOf(deftab, L, n, u)
      BY <1>1, <2>1, <2>4
    <3>2. L = i + 1
      BY <1>5, <2>1, <2>4, <3>1 DEF LastOf
    <3>3. g[i] = reserved[L]
      BY <2>1, <2>4
    <3>. HIDE DEF g
    <3>4. QED
      BY <1>5, <2>2, <2>4, <3>2, <3>3 DEF Real
  <2>5. CASE deftab[i + 1] # u
    <3>1. g[i] = u
      BY <1>5, <2>3, <2>5
    <3>. HIDE DEF g
    <3>2. QED
      BY <1>5, <2>2, <2>5, <3>1 DEF Real
  <2>6. QED
    BY <2>4, <2>5
<1>6. QED
  BY <1>3, <1>4, <1>5

\* fdmap comes to the outermost operation.
LEMMA FdmapIs ==
  ASSUME NEW n \in Nat, n = Len(deftab), Apart(n), NEW u
  PROVE  Mapped(Fdmap(u), u, 1, n)
<1>. DEFINE c == CHOOSE g : g = [i \in 0 .. n |-> IF i = n THEN u ELSE Real(g[i + 1], i + 1)]
<1>1. \E g : g = [i \in 0 .. n |-> IF i = n THEN u ELSE Real(g[i + 1], i + 1)]
  <2>1. PICK h : Numbers(h, u, n)
    BY NumbersExist
  <2>2. h = [i \in 0 .. n |-> IF i = n THEN u ELSE Real(h[i + 1], i + 1)]
    BY <2>1 DEF Numbers
  <2>3. QED
    BY <2>2
<1>2. c = [i \in 0 .. n |-> IF i = n THEN u ELSE Real(c[i + 1], i + 1)]
  BY <1>1
<1>3. Fdmap(u) = c[0]
  BY DEF Fdmap
<1>. HIDE DEF c
<1>4. c[n] = u /\ \A i \in 0 .. n : i # n => c[i] = Real(c[i + 1], i + 1)
  BY <1>2
<1>. DEFINE Bad == {m \in 0 .. n : ~Mapped(c[n - m], u, (n - m) + 1, n)}
<1>5. Bad = {}
  <2>. SUFFICES ASSUME Bad # {} PROVE FALSE
    OBVIOUS
  <2>1. Bad \subseteq Nat
    OBVIOUS
  <2>2. PICK m \in Bad : \A l \in Bad : m <= l
    <3>. HIDE DEF Bad
    <3>1. QED
      BY <2>1, LeastOf
  <2>3. m \in 0 .. n /\ ~Mapped(c[n - m], u, (n - m) + 1, n)
    OBVIOUS
  <2>4. m # 0
    <3>1. Mapped(u, u, n + 1, n)
      BY DEF Mapped
    <3>2. QED
      BY <1>4, <2>3, <3>1
  <2>5. PICK l \in Nat : l = m - 1 /\ l \in 0 .. n /\ l < m
    BY <2>3, <2>4
  <2>6. l \notin Bad
    BY <2>2, <2>5
  <2>7. Mapped(c[n - l], u, (n - l) + 1, n)
    BY <2>5, <2>6
  <2>8. PICK i \in 0 .. n : i = n - m /\ i < n /\ n - l = i + 1 /\ (n - l) + 1 = i + 2
    BY <2>3, <2>4, <2>5
  <2>9. Mapped(c[i + 1], u, i + 2, n)
    BY <2>7, <2>8
  <2>10. Mapped(Real(c[i + 1], i + 1), u, i + 1, n)
    BY <2>8, <2>9, MappedNext
  <2>11. c[i] = Real(c[i + 1], i + 1)
    BY <1>4, <2>8
  <2>12. QED
    BY <2>3, <2>8, <2>10, <2>11
<1>6. Mapped(c[0], u, 1, n)
  <2>1. n \in 0 .. n /\ n - n = 0 /\ (n - n) + 1 = 1
    OBVIOUS
  <2>2. n \notin Bad
    BY <1>5
  <2>3. QED
    BY <2>1, <2>2
<1>7. QED
  BY <1>3, <1>6

\* fdmap gives what the program has.
LEMMA FdmapGets ==
  ASSUME IInv, Apart(Len(deftab)), NEW u \in Fd, view[u] # Closed
  PROVE  Fdmap(u) # -1 /\ table[Fdmap(u)] = view[u]
<1>1. PICK n : n = Len(deftab)
  OBVIOUS
<1>2. n \in Nat /\ Means(view, table, reserved, deftab, 1, n)
  BY <1>1, LenProperties DEF IInv, Types
<1>3. Gets(view[u], table, reserved, deftab, 1, n, u)
  BY <1>2 DEF Means
<1>4. PICK x : x = Fdmap(u)
  OBVIOUS
<1>5. Mapped(x, u, 1, n)
  BY <1>1, <1>2, <1>4, FdmapIs
<1>6. CASE \E k \in 1 .. n : deftab[k] = u
  <2>1. PICK k \in 1 .. n : LastOf(deftab, k, n, u)
    BY <1>2, <1>6, LastExists
  <2>2. x = reserved[k]
    BY <1>5, <2>1 DEF Mapped
  <2>3. view[u] = FileOf(table, reserved[k])
    BY <1>3, <2>1 DEF Gets
  <2>4. QED
    BY <1>4, <2>2, <2>3 DEF FileOf
<1>7. CASE \A k \in 1 .. n : deftab[k] # u
  <2>1. x = u
    BY <1>5, <1>7 DEF Mapped
  <2>2. view[u] = Base(table, reserved, u)
    BY <1>3, <1>7 DEF Gets
  <2>3. view[u] = table[u]
    BY <2>2 DEF Base
  <2>4. u # -1
    BY FdCount
  <2>5. QED
    BY <1>4, <2>1, <2>3, <2>4
<1>8. QED
  BY <1>6, <1>7

\* Where the program redirects 0, 1 and 2 only, no number is taken for another one.
LEMMA StandardApart ==
  ASSUME IInv, Standard(setup)
  PROVE  Apart(Len(deftab))
<1>1. PICK n : n = Len(deftab)
  OBVIOUS
<1>2. DOMAIN reserved = 0 .. n /\ Sound(table, reserved) /\ n \in Nat
  BY <1>1, LenProperties DEF IInv, Types
<1>3. SUFFICES ASSUME NEW i \in 1 .. n, NEW j \in 1 .. n
               PROVE  deftab[i] # reserved[j]
  BY <1>1 DEF Apart
<1>4. deftab[i] \in 0 .. 2
  BY <1>1, StandardTargets
<1>5. j \in DOMAIN reserved /\ j # 0
  BY <1>2
<1>6. reserved[j] = -1 \/ reserved[j] >= 3
  BY <1>2, <1>5 DEF Sound, Input
<1>7. QED
  BY <1>4, <1>6

\* A descriptor is duplicated.
LEMMA DupIInv ==
  ASSUME Careful, IInv, NEW u \in setup.user, NEW v \in setup.dup, Dup(u, v)
  PROVE  IInv'
<1>1. Standard(setup) /\ v \in Fd
  <2>1. setup \in Setups
    BY NowIs
  <2>2. QED
    BY <2>1, SetupIs DEF Wider
<1>2. PICK F : F = table[Fdmap(v)]
  OBVIOUS
<1>3. /\ view[v] # Closed
      /\ Redir("redir", ~Inchild, [Now EXCEPT !.table = Open(@, F)], Free(table), u, view[v])
  BY <1>2 DEF Dup
<1>4. F = view[v] /\ F \in Files /\ F # Closed
  BY <1>1, <1>2, <1>3, StandardApart, FdmapGets, NowIs
<1>5. [Now EXCEPT !.table = Open(@, F)] = [table |-> Open(table, F), reserved |-> reserved]
  BY DEF Now
<1>6. PICK p, t, real : p = ~Inchild /\ t = Open(table, F) /\ real = Free(table)
  OBVIOUS
<1>7. Redir("redir", p, [table |-> t, reserved |-> reserved], real, u, F)
  BY <1>3, <1>4, <1>5, <1>6
<1>8. PICK n \in Nat : n = Len(deftab)
  BY NowIs
<1>9. Opening(table, reserved, 2, F)
  BY <1>4, NowIs DEF Opening
<1>10. CASE Inchild
  <2>1. Begins(t, real, u, F)
    BY <1>6, <1>9, BeginsOpen
  <2>2. p = FALSE
    BY <1>6, <1>10
  <2>3. QED
    BY <1>4, <1>7, <1>10, <2>1, <2>2, RedirDone
<1>11. CASE ~Inchild
  <2>1. Openable(table, reserved, 2, F, n + 1)
    BY <1>8, <1>9, NowIs DEF Openable, Input
  <2>2. Notes(table, reserved, Len(deftab), real, u, F, t, AddTo(reserved, Len(deftab) + 1, real))
    BY <1>6, <1>8, <2>1, NotesOpen
  <2>3. p = TRUE /\ "redir" \in Defers
    BY <1>6, <1>11 DEF Defers
  <2>4. QED
    BY <1>4, <1>7, <1>11, <2>2, <2>3, RedirNotes
<1>12. QED
  BY <1>10, <1>11

-----------------------------------------------------------------------------
(* A redirection ends. *)

\* The last operation's number is closed, and not registered any more.
Undoes(t, r, m, t2, r2) ==
  /\ Sound(t, r) /\ m \in Nat /\ DOMAIN r = 0 .. m + 1
  /\ t2 \in [Fd -> Files] /\ \A n \in Fd : t2[n] = IF n = r[m + 1] THEN Closed ELSE t[n]
  /\ r2 = [k \in 0 .. m |-> r[k]]

Undone(t, r, m, t2, r2) ==
  /\ Sound(t2, r2) /\ DOMAIN r2 = 0 .. m
  /\ \A j \in 0 .. m : r2[j] = r[j] /\ FileOf(t2, r2[j]) = FileOf(t, r[j])
  /\ \A n \in Fd : Base(t2, r2, n) = Base(t, r, n)
  /\ \A n \in Fd : t[n] # Closed /\ ~Holds(r, n) => t2[n] # Closed /\ ~Holds(r2, n)

\* The rest means the same.
LEMMA UndoKeeps ==
  ASSUME NEW t, NEW r, NEW m, NEW t2, NEW r2, Undoes(t, r, m, t2, r2)
  PROVE  Undone(t, r, m, t2, r2)
<1>1. PICK x : x = r[m + 1]
  OBVIOUS
<1>2. /\ Sound(t, r) /\ m \in Nat /\ DOMAIN r = 0 .. m + 1
      /\ t2 \in [Fd -> Files] /\ \A n \in Fd : t2[n] = IF n = x THEN Closed ELSE t[n]
      /\ r2 = [k \in 0 .. m |-> r[k]]
  BY <1>1 DEF Undoes
<1>3. m + 1 \in DOMAIN r /\ \A j \in 0 .. m : j \in DOMAIN r /\ j # m + 1
  BY <1>2
<1>4. DOMAIN r2 = 0 .. m /\ \A j \in 0 .. m : r2[j] = r[j]
  BY <1>2
<1>5. x \in Fd \cup {-1} /\ (x # -1 => x >= 3)
  BY <1>1, <1>2, <1>3 DEF Sound, Input
<1>6. \A j \in 0 .. m : r[j] \in Fd \cup {-1} /\ (r[j] # -1 => r[j] # x)
  BY <1>1, <1>2, <1>3 DEF Sound
<1>7. \A n \in Fd : n # -1
  BY FdCount
<1>8. \A j \in 0 .. m : FileOf(t2, r2[j]) = FileOf(t, r[j])
  BY <1>2, <1>4, <1>6 DEF FileOf
<1>9. Sound(t2, r2)
  <2>1. LowOpen(t2)
    <3>1. SUFFICES ASSUME NEW n \in 0 .. 2 PROVE t2[n] # Closed
      BY DEF LowOpen
    <3>2. n \in Fd /\ n # x
      BY <1>5, FdCount DEF Fd
    <3>3. QED
      BY <1>2, <3>2 DEF Sound, LowOpen
  <2>2. r2 = [k \in DOMAIN r2 |-> r2[k]]
    BY <1>2
  <2>3. \A k \in DOMAIN r2 : /\ r2[k] \in Fd \cup {-1}
                             /\ r2[k] # -1 => t2[r2[k]] # Closed /\ (r2[k] >= 3 \/ k = Input)
    BY <1>2, <1>3, <1>4, <1>6, <1>7 DEF Sound
  <2>4. \A k, l \in DOMAIN r2 : r2[k] = r2[l] /\ r2[k] # -1 => k = l
    BY <1>2, <1>3, <1>4 DEF Sound
  <2>5. QED
    BY <1>2, <2>1, <2>2, <2>3, <2>4 DEF Sound
<1>10. \A n \in Fd : Holds(r2, n) <=> Holds(r, n) /\ n # x
  <2>1. SUFFICES ASSUME NEW n \in Fd
                 PROVE  Holds(r2, n) <=> Holds(r, n) /\ n # x
    OBVIOUS
  <2>2. ASSUME Holds(r2, n) PROVE Holds(r, n) /\ n # x
    BY <1>3, <1>4, <1>6, <1>7, <2>2 DEF Holds
  <2>3. ASSUME Holds(r, n), n # x PROVE Holds(r2, n)
    <3>1. PICK k \in DOMAIN r : r[k] = n
      BY <2>3 DEF Holds
    <3>2. k # m + 1
      BY <1>1, <2>3, <3>1
    <3>3. k \in 0 .. m
      BY <1>2, <3>2
    <3>4. QED
      BY <1>4, <3>1, <3>3 DEF Holds
  <2>4. QED
    BY <2>2, <2>3
<1>11. \A n \in Fd : Base(t2, r2, n) = Base(t, r, n)
  <2>1. SUFFICES ASSUME NEW n \in Fd
                 PROVE  Base(t2, r2, n) = Base(t, r, n)
    OBVIOUS
  <2>2. CASE n = x
    <3>1. Holds(r, n) /\ n >= 3
      BY <1>1, <1>3, <1>5, <1>7, <2>2 DEF Holds
    <3>2. t2[n] = Closed
      BY <1>2, <2>2
    <3>3. QED
      BY <3>1, <3>2 DEF Base
  <2>3. CASE n # x
    BY <1>2, <1>10, <2>3 DEF Base
  <2>4. QED
    BY <2>2, <2>3
<1>12. \A n \in Fd : t[n] # Closed /\ ~Holds(r, n) => t2[n] # Closed /\ ~Holds(r2, n)
  <2>1. SUFFICES ASSUME NEW n \in Fd, t[n] # Closed, ~Holds(r, n)
                 PROVE  t2[n] # Closed /\ ~Holds(r2, n)
    OBVIOUS
  <2>2. n # x
    BY <1>1, <1>3, <2>1 DEF Holds
  <2>3. QED
    BY <1>2, <1>10, <2>1, <2>2
<1>13. QED
  BY <1>4, <1>8, <1>9, <1>11, <1>12 DEF Undone

\* The step.
LEMMA RedirEndIInv ==
  ASSUME Careful, IInv, RedirEnd
  PROVE  IInv'
<1>1. PICK n : n = Len(deftab)
  OBVIOUS
<1>2. /\ frames \in Seq(FrameType) /\ deftab \in Seq(setup.user) /\ setup \in Setups
      /\ n \in Nat /\ view \in [Fd -> Files] /\ DOMAIN reserved = 0 .. n
      /\ Sound(table, reserved) /\ Targets(reserved, deftab, 1, n) /\ n <= MaxDepth
      /\ Means(view, table, reserved, deftab, 1, n) /\ Few(setup, view)
  BY <1>1, LenProperties DEF IInv, Types
<1>3. PICK d2, t2, r2, w, fs2 : /\ d2 = deftab' /\ t2 = table' /\ r2 = reserved'
                                /\ w = view' /\ fs2 = frames'
  OBVIOUS
<1>4. /\ frames # <<>> /\ Last(frames).kind \in Defers /\ Undefer(Last(frames))
      /\ w = [view EXCEPT ![Last(frames).user] = Last(frames).file]
      /\ fs2 = Front(frames) /\ setup' = setup
  BY <1>3 DEF RedirEnd, Defers
<1>5. PICK l \in Nat : /\ Len(frames) = l + 1 /\ Last(frames) = frames[l + 1]
                       /\ frames[l + 1] \in FrameType
                       /\ fs2 \in Seq(FrameType) /\ Len(fs2) = l /\ Extends(frames, fs2, l)
  BY <1>2, <1>4, PopIs
<1>6. PICK e : e = frames[l + 1]
  OBVIOUS
<1>7. PICK f : Tied(f, frames, l + 1, deftab, n, table, reserved)
  BY <1>1, <1>5 DEF IInv
<1>8. frames[l + 1].kind \in Defers
  BY <1>4, <1>5
<1>9. n > 0 /\ f[n] = l + 1
  BY <1>2, <1>5, <1>7, <1>8, TiedLast
<1>10. PICK m \in Nat : n = m + 1 /\ n - 1 = m
  BY <1>2, <1>9
<1>11. /\ e.user = deftab[n] /\ e.fd = reserved[n]
       /\ Gets(e.file, table, reserved, deftab, 1, m, deftab[n])
  <2>1. n \in 1 .. n
    BY <1>2, <1>9
  <2>2. QED
    BY <1>6, <1>7, <1>9, <1>10, <2>1 DEF Tied
<1>12. PICK t1, x : /\ x = reserved[n]
                    /\ t1 = IF x = -1 THEN table ELSE Close(table, x)
  OBVIOUS
<1>13. /\ d2 = Front(deftab) /\ r2 = [k \in 0 .. m |-> reserved[k]]
       /\ t2 = IF e.kind = "here" THEN Close(t1, e.fd) ELSE t1
  <2>1. /\ d2 = Front(deftab) /\ r2 = [k \in 0 .. n - 1 |-> reserved[k]]
        /\ t2 = IF e.kind = "here" THEN Close(t1, e.fd) ELSE t1
    BY <1>1, <1>3, <1>4, <1>5, <1>6, <1>12, Zenon DEF Undefer, Restrict
  <2>2. QED
    BY <1>10, <2>1
<1>14. t2 \in [Fd -> Files] /\ \A k \in Fd : t2[k] = IF k = x THEN Closed ELSE table[k]
  <2>1. table \in [Fd -> Files] /\ Closed \in Files
    BY <1>2, FdCount DEF Sound, Files, Closed
  <2>2. \A k \in Fd : k # -1
    BY FdCount
  <2>3. t1 \in [Fd -> Files] /\ \A k \in Fd : t1[k] = IF k = x THEN Closed ELSE table[k]
    BY <1>12, <2>1, <2>2 DEF Close
  <2>4. e.fd = x
    BY <1>11, <1>12
  <2>5. QED
    BY <1>13, <2>1, <2>3, <2>4 DEF Close
<1>15. Undone(table, reserved, m, t2, r2)
  <2>1. Undoes(table, reserved, m, t2, r2)
    BY <1>2, <1>10, <1>12, <1>13, <1>14 DEF Undoes
  <2>2. QED
    BY <2>1, UndoKeeps
<1>16. /\ d2 \in Seq(setup.user) /\ Len(d2) = m /\ \A i \in 1 .. m : d2[i] = deftab[i]
  <2>1. deftab # <<>>
    BY <1>1, <1>9
  <2>2. PICK k \in Nat : Len(deftab) = k + 1 /\ d2 \in Seq(setup.user) /\ Len(d2) = k
                         /\ Extends(deftab, d2, k)
    BY <1>2, <1>13, <2>1, PopIs
  <2>3. k = m
    <3>1. k + 1 = m + 1
      BY <1>1, <1>10, <2>2
    <3>2. QED
      BY <3>1
  <2>4. QED
    BY <2>2, <2>3 DEF Extends
<1>17. PICK u : u = deftab[n]
  OBVIOUS
<1>18. u \in setup.user /\ u \in Fd /\ deftab[m + 1] = u
  <2>1. n \in 1 .. Len(deftab)
    BY <1>1, <1>2, <1>9
  <2>2. u \in setup.user
    BY <1>2, <1>17, <2>1, ElementOfSeq
  <2>3. QED
    BY <1>2, <1>10, <1>17, <2>2, SetupIs
<1>19. Alike(table, reserved, deftab, t2, r2, d2, 1, m)
  BY <1>15, <1>16 DEF Alike, Undone
<1>20. SameBase(table, reserved, t2, r2)
  BY <1>15 DEF SameBase, Undone
<1>21. \A i \in 1 .. m : deftab[i] \in Fd
  BY <1>2, <1>10 DEF Targets
<1>22. SameTargets(table, reserved, deftab, t2, r2, m)
  BY <1>15, <1>21 DEF SameTargets, Undone
<1>23. w = [view EXCEPT ![u] = e.file] /\ e.file \in Files
  <2>1. e.file \in Files
    BY <1>5, <1>6 DEF FrameType
  <2>2. QED
    BY <1>4, <1>5, <1>6, <1>11, <1>17, <2>1
<1>24. w \in [Fd -> Files] /\ Few(setup, w)
  BY <1>2, <1>18, <1>23, FewAt
<1>25. Means(w, t2, r2, d2, 1, m)
  <2>1. Means(view, table, reserved, deftab, 1, m + 1)
    BY <1>2, <1>10
  <2>2. Gets(e.file, table, reserved, deftab, 1, m, u)
    BY <1>11, <1>17
  <2>3. Means([view EXCEPT ![u] = e.file], t2, r2, d2, 1, m)
    BY <1>2, <1>18, <1>19, <1>20, <2>1, <2>2, MeansLess
  <2>4. QED
    BY <1>23, <2>3
<1>26. Tied(f, fs2, l, d2, m, t2, r2)
  <2>1. Tied(f, frames, l + 1, deftab, m + 1, table, reserved)
    BY <1>7, <1>10
  <2>2. QED
    BY <1>5, <1>8, <1>19, <1>22, <2>1, TiedUndo
<1>27. Direct(fs2, l)
  <2>1. Direct(frames, l + 1)
    BY <1>5 DEF IInv
  <2>2. QED
    BY <1>5, <2>1, DirectPop
<1>28. Named(setup, fs2, l, t2, r2)
  <2>1. Named(setup, frames, l + 1, table, reserved)
    BY <1>5 DEF IInv
  <2>2. Leaves(setup, table, reserved, t2, r2)
    BY <1>15 DEF Leaves, Undone
  <2>3. QED
    BY <1>5, <2>1, <2>2, NamedPop
<1>29. Targets(r2, d2, 1, m)
  <2>1. SUFFICES ASSUME NEW i \in 1 .. m
                 PROVE  i \in DOMAIN r2 /\ d2[i] \in Fd /\ (r2[i] = -1 => d2[i] > 2)
    BY DEF Targets
  <2>2. i \in 1 .. n /\ i \in 0 .. m
    BY <1>10
  <2>3. r2[i] = reserved[i] /\ d2[i] = deftab[i] /\ i \in DOMAIN r2
    BY <1>15, <1>16, <2>2 DEF Undone
  <2>4. deftab[i] \in Fd /\ (reserved[i] = -1 => deftab[i] > 2)
    BY <1>2, <2>2 DEF Targets
  <2>5. QED
    BY <2>3, <2>4
<1>30. Sound(t2, r2) /\ DOMAIN r2 = 0 .. m /\ m <= MaxDepth
  BY <1>2, <1>10, <1>15, FdCount DEF Undone
<1>31. QED
  <2>1. Types'
    BY <1>2, <1>3, <1>4, <1>5, <1>16, <1>24, <1>30 DEF Types
  <2>2. Targets(reserved', deftab', 1, Len(deftab')) /\ Sound(table', reserved')
    BY <1>3, <1>16, <1>29, <1>30
  <2>3. Means(view', table', reserved', deftab', 1, Len(deftab')) /\ Few(setup', view')
    BY <1>3, <1>4, <1>16, <1>24, <1>25
  <2>4. /\ Direct(frames', Len(frames')) /\ Named(setup', frames', Len(frames'), table', reserved')
        /\ \E g : Tied(g, frames', Len(frames'), deftab', Len(deftab'), table', reserved')
    BY <1>3, <1>4, <1>5, <1>16, <1>26, <1>27, <1>28
  <2>5. QED
    BY <2>1, <2>2, <2>3, <2>4 DEF IInv

-----------------------------------------------------------------------------
(* The command of <{...}. *)

\* One number more is open above 2.
LEMMA FewMore ==
  ASSUME Standard(setup), Few(setup, view), setup.names \in Nat,
         Cardinality(AboveLow(view)) < setup.names, NEW m \in Fd, NEW w,
         AboveLow(w) \subseteq AboveLow(view) \cup {m}
  PROVE  Few(setup, w)
<1>1. IsFiniteSet(AboveLow(view)) /\ Cardinality(AboveLow(view)) \in Nat
  <2>1. AboveLow(view) \subseteq Fd
    BY DEF AboveLow
  <2>2. IsFiniteSet(AboveLow(view))
    BY <2>1, FdCount, FS_Subset
  <2>3. QED
    BY <2>2, FS_CardinalityType
<1>2. PICK A : A = AboveLow(view) \cup {m}
  OBVIOUS
<1>3. IsFiniteSet(A) /\ Cardinality(A) \in Nat /\ Cardinality(A) <= Cardinality(AboveLow(view)) + 1
  <2>1. /\ IsFiniteSet(AboveLow(view) \cup {m})
        /\ \/ Cardinality(AboveLow(view) \cup {m}) = Cardinality(AboveLow(view))
           \/ Cardinality(AboveLow(view) \cup {m}) = Cardinality(AboveLow(view)) + 1
    BY <1>1, FS_AddElement
  <2>2. QED
    BY <1>1, <1>2, <2>1
<1>4. AboveLow(w) \subseteq A
  BY <1>2
<1>5. Cardinality(AboveLow(w)) <= Cardinality(A) /\ IsFiniteSet(AboveLow(w))
  BY <1>3, <1>4, FS_Subset
<1>6. Cardinality(AboveLow(w)) \in Nat
  BY <1>5, FS_CardinalityType
<1>7. Cardinality(AboveLow(w)) <= setup.names
  BY <1>1, <1>3, <1>5, <1>6
<1>8. QED
  BY <1>7 DEF Few

\* It begins.
LEMMA ReadfromIInv ==
  ASSUME Careful, IInv, Readfrom
  PROVE  IInv'
<1>1. PICK l, n, m, t2, w, fs2 :
        /\ l = Len(frames) /\ n = Len(deftab) /\ m = Free(table) /\ t2 = table' /\ w = view'
        /\ fs2 = frames'
  OBVIOUS
<1>2. /\ CanEnter /\ t2 = Open(table, NewFile) /\ w = [view EXCEPT ![m] = NewFile]
      /\ fs2 = Append(frames, [Frame("readfrom", Inchild) EXCEPT !.fd = m, !.file = NewFile])
      /\ Cardinality(AboveLow(view)) < setup.names
      /\ setup' = setup /\ deftab' = deftab /\ reserved' = reserved
  BY <1>1 DEF Readfrom, AboveLow
<1>3. /\ frames \in Seq(FrameType) /\ setup \in Setups /\ deftab \in Seq(setup.user)
      /\ view \in [Fd -> Files] /\ DOMAIN reserved = 0 .. n /\ n \in Nat
      /\ Sound(table, reserved) /\ Targets(reserved, deftab, 1, n)
      /\ Few(setup, view) /\ Direct(frames, l) /\ Named(setup, frames, l, table, reserved)
      /\ n <= MaxDepth /\ setup.names \in Nat
  BY <1>1, LenProperties, SetupIs DEF IInv, Types
<1>4. Standard(setup)
  <2>1. Cardinality(AboveLow(view)) \in Nat
    <3>1. AboveLow(view) \subseteq Fd
      BY DEF AboveLow
    <3>2. IsFiniteSet(AboveLow(view))
      BY <3>1, FdCount, FS_Subset
    <3>3. QED
      BY <3>2, FS_CardinalityType
  <2>2. setup.names # 0
    BY <1>2, <1>3, <2>1
  <2>3. QED
    BY <1>3, <2>2, SetupIs DEF Wider
<1>5. PICK F : F = NewFile /\ F \in Files /\ F # Closed
  BY NowIs
<1>6. Appears(m, F, w, t2)
  <2>1. Appears(Free(table), F, [view EXCEPT ![Free(table)] = F], Open(table, F))
    BY <1>4, <1>5, OpenForProgram
  <2>2. QED
    BY <1>1, <1>2, <1>5, <2>1
<1>7. PICK e : e = [Frame("readfrom", Inchild) EXCEPT !.fd = m, !.file = F]
  OBVIOUS
<1>8. e = [kind |-> "readfrom", inchild |-> Inchild, user |-> 0, file |-> F, fd |-> m]
  BY <1>7 DEF Frame
<1>9. e \in FrameType /\ e.kind = "readfrom" /\ e.fd = m /\ (e.inchild => Inchild)
  <2>1. Inchild \in BOOLEAN
    BY DEF Inchild
  <2>2. PICK b \in BOOLEAN : b = Inchild
    BY <2>1
  <2>3. e = [kind |-> "readfrom", inchild |-> b, user |-> 0, file |-> F, fd |-> m]
    BY <1>8, <2>2
  <2>4. 0 \in Fd /\ m \in Fd
    BY <1>6, FdCount DEF Fd, Appears
  <2>5. e \in FrameType /\ e.kind = "readfrom" /\ e.fd = m /\ e.inchild = b
    BY <1>5, <2>3, <2>4 DEF FrameType, Kinds
  <2>6. QED
    BY <2>2, <2>5
<1>10. /\ l \in Nat /\ fs2 \in Seq(FrameType) /\ Len(fs2) = l + 1 /\ fs2[l + 1] = e
       /\ Extends(frames, fs2, l)
  <2>1. Pushes(FrameType, frames, Len(frames), e, Append(frames, e))
    BY <1>3, <1>9, PushIs
  <2>2. fs2 = Append(frames, e)
    BY <1>2, <1>5, <1>7
  <2>3. Pushes(FrameType, frames, l, e, fs2)
    BY <1>1, <2>1, <2>2
  <2>4. QED
    BY <2>3 DEF Pushes
<1>11. fs2[l + 1].kind = "readfrom" /\ fs2[l + 1].kind \notin Defers
  BY <1>9, <1>10 DEF Defers
<1>12. Few(setup, w)
  <2>1. AboveLow(w) \subseteq AboveLow(view) \cup {m}
    BY <1>6 DEF Appears, AboveLow
  <2>2. m \in Fd
    BY <1>6 DEF Appears
  <2>3. QED
    BY <1>2, <1>3, <1>4, <2>1, <2>2, FewMore
<1>13. \E f : Tied(f, fs2, l + 1, deftab, n, t2, reserved)
  <2>1. PICK f : Tied(f, frames, l, deftab, n, table, reserved)
    BY <1>1 DEF IInv
  <2>2. Alike(table, reserved, deftab, t2, reserved, deftab, 1, n)
    BY <1>1, <1>6 DEF Appears
  <2>3. \A i \in 1 .. n : deftab[i] \in Fd /\ deftab[i] # m
    BY <1>1, <1>3, <1>6 DEF Appears, Targets
  <2>4. \A x \in Fd : x # m => Base(t2, reserved, x) = Base(table, reserved, x)
    BY <1>6 DEF Appears
  <2>5. SameTargets(table, reserved, deftab, t2, reserved, n)
    BY <2>3, <2>4 DEF SameTargets
  <2>6. Tied(f, fs2, l + 1, deftab, n, t2, reserved)
    BY <1>3, <1>10, <1>11, <2>1, <2>2, <2>5, TiedPush
  <2>7. QED
    BY <2>6
<1>14. Direct(fs2, l + 1)
  <2>1. Inchild => \A j \in 1 .. l : frames[j].kind \notin Defers
    BY <1>1, InchildEmpty, InchildDirect
  <2>2. QED
    BY <1>3, <1>9, <1>10, <1>11, <2>1, DirectPush
<1>15. Named(setup, fs2, l + 1, t2, reserved)
  <2>1. \A k \in 1 .. l + 1 : k = l + 1 \/ k \in 1 .. l
    BY <1>10
  <2>2. fs2[l + 1].fd = m /\ \A k \in 1 .. l : fs2[k] = frames[k]
    BY <1>9, <1>10 DEF Extends
  <2>3. /\ m \in Fd /\ m >= 3 /\ table[m] = Closed /\ ~Holds(reserved, m) /\ t2[m] # Closed
        /\ \A x \in Fd : x # m => t2[x] = table[x]
    BY <1>5, <1>6 DEF Appears
  <2>4. \A k \in 1 .. l : frames[k].kind = "readfrom" =>
          /\ frames[k].fd \in Fd /\ frames[k].fd >= 3 /\ frames[k].fd # m
          /\ table[frames[k].fd] # Closed /\ ~Holds(reserved, frames[k].fd)
    BY <1>3, <2>3 DEF Named
  <2>5. \A k \in 1 .. l + 1 : fs2[k].kind = "readfrom" =>
          /\ Standard(setup) /\ fs2[k].fd \in Fd /\ fs2[k].fd >= 3
          /\ t2[fs2[k].fd] # Closed /\ ~Holds(reserved, fs2[k].fd)
    BY <1>4, <2>1, <2>2, <2>3, <2>4
  <2>6. \A k, j \in 1 .. l + 1 :
          fs2[k].kind = "readfrom" /\ fs2[j].kind = "readfrom" /\ fs2[k].fd = fs2[j].fd => k = j
    <3>1. SUFFICES ASSUME NEW k \in 1 .. l + 1, NEW j \in 1 .. l + 1, fs2[k].kind = "readfrom",
                          fs2[j].kind = "readfrom", fs2[k].fd = fs2[j].fd
                   PROVE  k = j
      OBVIOUS
    <3>2. CASE k \in 1 .. l /\ j \in 1 .. l
      BY <1>3, <2>2, <3>1, <3>2 DEF Named
    <3>3. CASE k = l + 1 /\ j \in 1 .. l
      BY <2>2, <2>4, <3>1, <3>3
    <3>4. CASE k \in 1 .. l /\ j = l + 1
      BY <2>2, <2>4, <3>1, <3>4
    <3>5. QED
      BY <2>1, <3>2, <3>3, <3>4
  <2>7. QED
    BY <2>5, <2>6 DEF Named
<1>16. Sound(t2, reserved) /\ Means(w, t2, reserved, deftab, 1, n) /\ w \in [Fd -> Files]
  BY <1>1, <1>6 DEF Appears
<1>17. QED
  <2>1. Types'
    BY <1>1, <1>2, <1>3, <1>10, <1>16 DEF Types
  <2>2. Targets(reserved', deftab', 1, Len(deftab')) /\ Sound(table', reserved')
    BY <1>1, <1>2, <1>3, <1>16
  <2>3. Means(view', table', reserved', deftab', 1, Len(deftab')) /\ Few(setup', view')
    BY <1>1, <1>2, <1>12, <1>16
  <2>4. /\ Direct(frames', Len(frames')) /\ Named(setup', frames', Len(frames'), table', reserved')
        /\ \E g : Tied(g, frames', Len(frames'), deftab', Len(deftab'), table', reserved')
    BY <1>1, <1>2, <1>10, <1>13, <1>14, <1>15
  <2>5. QED
    BY <2>1, <2>2, <2>3, <2>4 DEF IInv

\* m, which nobody holds and no operation is about, is closed.
Vanishes(m, t, n) ==
  /\ m \in Fd /\ m >= 3 /\ ~Holds(reserved, m) /\ \A i \in 1 .. n : deftab[i] # m
  /\ t \in [Fd -> Files] /\ \A x \in Fd : t[x] = IF x = m THEN Closed ELSE table[x]

\* The rest means the same.
LEMMA CloseKeeps ==
  ASSUME IInv, NEW n, n = Len(deftab), NEW m, NEW t, Vanishes(m, t, n)
  PROVE  /\ Sound(t, reserved) /\ OnlyAt(table, reserved, deftab, t, reserved, n, m, Closed)
         /\ SameTargets(table, reserved, deftab, t, reserved, n)
<1>1. /\ Sound(table, reserved) /\ DOMAIN reserved = 0 .. n /\ n \in Nat
      /\ Targets(reserved, deftab, 1, n)
  BY LenProperties DEF IInv, Types
<1>2. /\ m \in Fd /\ m >= 3 /\ ~Holds(reserved, m) /\ \A i \in 1 .. n : deftab[i] # m
      /\ t \in [Fd -> Files] /\ \A x \in Fd : t[x] = IF x = m THEN Closed ELSE table[x]
  BY DEF Vanishes
<1>3. \A k \in DOMAIN reserved : reserved[k] # m
  BY <1>2 DEF Holds
<1>4. \A x \in Fd : x # -1
  BY FdCount
<1>5. \A k \in DOMAIN reserved : reserved[k] \in Fd \cup {-1}
                                 /\ FileOf(t, reserved[k]) = FileOf(table, reserved[k])
  BY <1>1, <1>2, <1>3 DEF Sound, FileOf
<1>6. \A x \in Fd : Base(t, reserved, x) = IF x = m THEN Closed ELSE Base(table, reserved, x)
  BY <1>2 DEF Base
<1>7. Sound(t, reserved)
  <2>1. LowOpen(t)
    <3>1. SUFFICES ASSUME NEW x \in 0 .. 2 PROVE t[x] # Closed
      BY DEF LowOpen
    <3>2. x \in Fd /\ x # m
      BY <1>2, FdCount DEF Fd
    <3>3. QED
      BY <1>1, <1>2, <3>2 DEF Sound, LowOpen
  <2>2. \A k \in DOMAIN reserved :
          /\ reserved[k] \in Fd \cup {-1}
          /\ reserved[k] # -1 => t[reserved[k]] # Closed /\ (reserved[k] >= 3 \/ k = Input)
    BY <1>1, <1>2, <1>3 DEF Sound
  <2>3. QED
    BY <1>1, <1>2, <2>1, <2>2 DEF Sound
<1>8. Alike(table, reserved, deftab, t, reserved, deftab, 1, n)
  <2>1. \A i \in 1 .. n : i \in DOMAIN reserved
    BY <1>1
  <2>2. QED
    BY <1>5, <2>1 DEF Alike
<1>9. SameTargets(table, reserved, deftab, t, reserved, n)
  BY <1>1, <1>2, <1>6 DEF SameTargets, Targets
<1>10. QED
  BY <1>2, <1>6, <1>7, <1>8, <1>9 DEF OnlyAt

\* It ends.
LEMMA ReadfromEndIInv ==
  ASSUME Careful, IInv, ReadfromEnd
  PROVE  IInv'
<1>1. PICK n, t2, w, fs2 : n = Len(deftab) /\ t2 = table' /\ w = view' /\ fs2 = frames'
  OBVIOUS
<1>2. /\ frames # <<>> /\ Last(frames).kind = "readfrom" /\ fs2 = Front(frames)
      /\ t2 = Close(table, Last(frames).fd) /\ w = [view EXCEPT ![Last(frames).fd] = Closed]
      /\ setup' = setup /\ deftab' = deftab /\ reserved' = reserved
  BY <1>1 DEF ReadfromEnd
<1>3. /\ frames \in Seq(FrameType) /\ setup \in Setups /\ deftab \in Seq(setup.user)
      /\ view \in [Fd -> Files] /\ DOMAIN reserved = 0 .. n /\ n \in Nat
      /\ Sound(table, reserved) /\ Targets(reserved, deftab, 1, n)
      /\ Means(view, table, reserved, deftab, 1, n) /\ Few(setup, view) /\ n <= MaxDepth
  BY <1>1, LenProperties DEF IInv, Types
<1>4. PICK l \in Nat : /\ Len(frames) = l + 1 /\ Last(frames) = frames[l + 1]
                       /\ fs2 \in Seq(FrameType) /\ Len(fs2) = l /\ Extends(frames, fs2, l)
  BY <1>2, <1>3, PopIs
<1>5. PICK m : m = frames[l + 1].fd
  OBVIOUS
<1>6. /\ frames[l + 1].kind = "readfrom" /\ t2 = Close(table, m)
      /\ w = [view EXCEPT ![m] = Closed]
  BY <1>2, <1>4, <1>5
<1>7. Named(setup, frames, l + 1, table, reserved) /\ Direct(frames, l + 1)
  BY <1>4 DEF IInv
<1>8. Standard(setup) /\ m \in Fd /\ m >= 3 /\ ~Holds(reserved, m)
  <2>1. l + 1 \in 1 .. l + 1
    BY <1>4
  <2>2. QED
    BY <1>5, <1>6, <1>7, <2>1 DEF Named
<1>9. Vanishes(m, t2, n)
  <2>1. \A i \in 1 .. n : deftab[i] # m
    BY <1>1, <1>8, StandardTargets
  <2>2. t2 \in [Fd -> Files] /\ \A x \in Fd : t2[x] = IF x = m THEN Closed ELSE table[x]
    <3>1. table \in [Fd -> Files] /\ Closed \in Files
      BY <1>3, FdCount DEF Sound, Files, Closed
    <3>2. QED
      BY <1>6, <1>8, <3>1 DEF Close
  <2>3. QED
    BY <1>8, <2>1, <2>2 DEF Vanishes
<1>10. /\ Sound(t2, reserved) /\ OnlyAt(table, reserved, deftab, t2, reserved, n, m, Closed)
       /\ SameTargets(table, reserved, deftab, t2, reserved, n)
  BY <1>1, <1>9, CloseKeeps
<1>11. Means(w, t2, reserved, deftab, 1, n)
  <2>1. Means([view EXCEPT ![m] = Closed], t2, reserved, deftab, 1, n)
    BY <1>3, <1>10, MeansAt
  <2>2. QED
    BY <1>6, <2>1
<1>12. w \in [Fd -> Files] /\ Few(setup, w)
  <2>1. Closed \in Files
    BY FdCount DEF Files, Closed
  <2>2. w \in [Fd -> Files] /\ \A x \in Fd : x > 2 /\ w[x] # Closed => view[x] # Closed
    BY <1>3, <1>6, <1>8, <2>1
  <2>3. QED
    BY <1>3, <2>2, FewLess
<1>13. \E f : Tied(f, fs2, l, deftab, n, t2, reserved)
  <2>1. PICK f : Tied(f, frames, l + 1, deftab, n, table, reserved)
    BY <1>1, <1>4 DEF IInv
  <2>2. frames[l + 1].kind \notin Defers
    BY <1>6 DEF Defers
  <2>3. Alike(table, reserved, deftab, t2, reserved, deftab, 1, n)
    BY <1>10 DEF OnlyAt
  <2>4. Tied(f, fs2, l, deftab, n, t2, reserved)
    BY <1>3, <1>4, <1>10, <2>1, <2>2, <2>3, TiedPop
  <2>5. QED
    BY <2>4
<1>14. Direct(fs2, l)
  BY <1>4, <1>7, DirectPop
<1>15. Named(setup, fs2, l, t2, reserved)
  <2>1. \A k \in 1 .. l : k \in 1 .. l + 1 /\ k # l + 1 /\ fs2[k] = frames[k]
    BY <1>4 DEF Extends
  <2>2. l + 1 \in 1 .. l + 1
    BY <1>4
  <2>3. \A k \in 1 .. l : frames[k].kind = "readfrom" =>
          /\ frames[k].fd \in Fd /\ frames[k].fd >= 3 /\ frames[k].fd # m
          /\ table[frames[k].fd] # Closed /\ ~Holds(reserved, frames[k].fd)
    BY <1>5, <1>6, <1>7, <2>1, <2>2 DEF Named
  <2>4. \A x \in Fd : x # m => t2[x] = table[x]
    BY <1>9 DEF Vanishes
  <2>5. \A k \in 1 .. l : fs2[k].kind = "readfrom" =>
          /\ Standard(setup) /\ fs2[k].fd \in Fd /\ fs2[k].fd >= 3
          /\ t2[fs2[k].fd] # Closed /\ ~Holds(reserved, fs2[k].fd)
    BY <1>8, <2>1, <2>3, <2>4
  <2>6. \A k, j \in 1 .. l :
          fs2[k].kind = "readfrom" /\ fs2[j].kind = "readfrom" /\ fs2[k].fd = fs2[j].fd => k = j
    BY <1>7, <2>1 DEF Named
  <2>7. QED
    BY <2>5, <2>6 DEF Named
<1>16. QED
  <2>1. Types'
    BY <1>1, <1>2, <1>3, <1>4, <1>12 DEF Types
  <2>2. Targets(reserved', deftab', 1, Len(deftab')) /\ Sound(table', reserved')
    BY <1>1, <1>2, <1>3, <1>10
  <2>3. Means(view', table', reserved', deftab', 1, Len(deftab')) /\ Few(setup', view')
    BY <1>1, <1>2, <1>11, <1>12
  <2>4. /\ Direct(frames', Len(frames')) /\ Named(setup', frames', Len(frames'), table', reserved')
        /\ \E g : Tied(g, frames', Len(frames'), deftab', Len(deftab'), table', reserved')
    BY <1>1, <1>2, <1>4, <1>13, <1>14, <1>15
  <2>5. QED
    BY <2>1, <2>2, <2>3, <2>4 DEF IInv

-----------------------------------------------------------------------------
(* The invariant, and the properties. *)

\* No step breaks it.
LEMMA NextIInv ==
  ASSUME Careful, IInv, [Next]_vars
  PROVE  IInv'
<1>1. /\ setup.left \subseteq 0 .. 2 /\ setup.right \subseteq 0 .. 2
      /\ (setup.right # {} => Standard(setup))
  <2>1. setup \in Setups
    BY NowIs
  <2>2. QED
    BY <2>1, SetupIs DEF Wider
<1>2. CASE \E u \in setup.user : Openfile(u) \/ CloseFd(u) \/ Here(u)
  BY <1>2, OpenfileIInv, CloseFdIInv, HereIInv
<1>3. CASE \E u \in setup.user, v \in setup.dup : Dup(u, v)
  BY <1>3, DupIInv
<1>4. CASE RedirEnd
  BY <1>4, RedirEndIInv
<1>5. CASE Seq1
  BY <1>5, SeqIInv
<1>6. CASE Exec
  BY <1>6, ExecIInv
<1>7. CASE End
  BY <1>7, EndIInv
<1>8. CASE Fork
  BY <1>8, ForkIInv
<1>9. CASE Background
  BY <1>9, BackgroundIInv
<1>10. CASE Backquote
  <2>1. PipeLeft(1) /\ 1 \in 0 .. 2
    BY <1>10 DEF Backquote
  <2>2. QED
    BY <2>1, LeftIInv
<1>11. CASE ReadfromChild
  BY <1>11, ReadfromChildIInv
<1>12. CASE \E out \in setup.left : PipeLeft(out) \/ \E in \in setup.right : PipeMiddle(in, out)
  BY <1>1, <1>12, LeftIInv, MiddleIInv
<1>13. CASE \E in \in setup.right : PipeRight(in)
  BY <1>1, <1>13, RightIInv
<1>14. CASE Readfrom
  BY <1>14, ReadfromIInv
<1>15. CASE ReadfromEnd
  BY <1>15, ReadfromEndIInv
<1>16. CASE UNCHANGED vars
  BY <1>16 DEF vars, IInv, Types
<1>17. QED
  BY <1>2, <1>3, <1>4, <1>5, <1>6, <1>7, <1>8, <1>9, <1>10, <1>11, <1>12, <1>13, <1>14, <1>15,
     <1>16 DEF Next

\* Every state of such a program has the invariant.
THEOREM Invariance == ASSUME Careful PROVE Spec => []IInv
<1>1. Init => IInv
  BY InitIInv
<1>2. IInv /\ [Next]_vars => IInv'
  BY NextIInv
<1>3. QED
  BY <1>1, <1>2, PTL DEF Spec

\* The variables have their types: numbers stay in the kernel's table, and the
\* registered ones go with the operations.
THEOREM TypesOK == ASSUME Careful PROVE Spec => []TypeOK
<1>1. IInv => TypeOK
  <2>1. SUFFICES ASSUME IInv PROVE TypeOK
    OBVIOUS
  <2>2. Types /\ Sound(table, reserved)
    BY <2>1 DEF IInv
  <2>3. reserved \in [0 .. Len(deftab) -> Fd \cup {-1}]
    BY <2>2 DEF Types, Sound
  <2>4. QED
    BY <2>2, <2>3 DEF TypeOK, Types, Sound, FrameType, Kinds
<1>2. QED
  BY <1>1, Invariance, PTL

\* An external command that starts now gets the descriptors that the program asked
\* for, and no other: remapfds and closefds undo what releasefd and the shell's own
\* files have moved (fd.c).
THEOREM CommandHasIt == ASSUME Careful PROVE Spec => []CommandGets
<1>1. IInv => CommandGets
  BY ClosefdsNow DEF CommandGets
<1>2. QED
  BY <1>1, Invariance, PTL

\* A builtin meets them through fdmap, where no redirection names a number that the
\* shell holds for another one.
THEOREM BuiltinHasIt == ASSUME Careful PROVE Spec => []BuiltinGets
<1>1. IInv => BuiltinGets
  <2>1. SUFFICES ASSUME IInv, \A i, j \in DOMAIN deftab : deftab[i] # reserved[j],
                        NEW u \in Fd, view[u] # Closed
                 PROVE  Fdmap(u) # -1 /\ table[Fdmap(u)] = view[u]
    BY DEF BuiltinGets
  <2>2. DOMAIN deftab = 1 .. Len(deftab)
    BY DEF IInv, Types
  <2>3. Apart(Len(deftab))
    BY <2>1, <2>2 DEF Apart
  <2>4. QED
    BY <2>1, <2>3, FdmapGets
<1>2. QED
  BY <1>1, Invariance, PTL

\* There are as many operations as commands that noted one.
LEMMA NotedCount ==
  ASSUME IInv
  PROVE  Len(deftab) = Cardinality({i \in DOMAIN frames : frames[i].kind \in Defers})
<1>1. PICK l, n : l = Len(frames) /\ n = Len(deftab)
  OBVIOUS
<1>2. DOMAIN frames = 1 .. l /\ n \in Nat
  BY <1>1, LenProperties DEF IInv, Types
<1>3. PICK f : Tied(f, frames, l, deftab, n, table, reserved)
  BY <1>1 DEF IInv
<1>4. PICK D : D = {i \in DOMAIN frames : frames[i].kind \in Defers}
  OBVIOUS
<1>. DEFINE g == [i \in 1 .. n |-> f[i]]
<1>5. g \in Bijection(1 .. n, D)
  <2>1. \A i \in 1 .. n : g[i] = f[i] /\ f[i] \in D
    BY <1>2, <1>3, <1>4 DEF Tied
  <2>2. g \in [1 .. n -> D]
    BY <2>1
  <2>3. \A d \in D : \E i \in 1 .. n : g[i] = d
    BY <1>2, <1>3, <1>4, <2>1 DEF Tied
  <2>4. \A i, j \in 1 .. n : g[i] = g[j] => i = j
    <3>1. SUFFICES ASSUME NEW i \in 1 .. n, NEW j \in 1 .. n, g[i] = g[j]
                   PROVE  i = j
      OBVIOUS
    <3>2. f[i] = f[j] /\ f[i] \in 1 .. l /\ f[j] \in 1 .. l
      BY <1>3, <2>1, <3>1 DEF Tied
    <3>3. ~(i < j) /\ ~(j < i)
      BY <1>3, <3>2 DEF Tied
    <3>4. QED
      BY <3>3
  <2>. HIDE DEF g
  <2>5. QED
    BY <2>2, <2>3, <2>4 DEF Bijection, Injection, Surjection, IsInjective
<1>6. IsFiniteSet(1 .. n) /\ Cardinality(1 .. n) = n
  <2>1. 1 \in Int /\ n \in Int
    BY <1>2
  <2>2. QED
    BY <1>2, <2>1, FS_Interval
<1>7. Cardinality(D) = n
  BY <1>5, <1>6, FS_Bijection DEF ExistsBijection
<1>8. QED
  BY <1>1, <1>4, <1>7

\* Nothing that is open is forgotten, what is registered is open, and undefer finds
\* the operation of its own command on the top of deftab.
THEOREM NothingLeaks == ASSUME Careful PROVE Spec => []Accounted
<1>1. IInv => Accounted
  <2>1. SUFFICES ASSUME IInv PROVE Accounted
    OBVIOUS
  <2>2. Sound(table, reserved) /\ Len(deftab) \in Nat /\ DOMAIN deftab = 1 .. Len(deftab)
    BY <2>1, LenProperties DEF IInv, Types
  <2>3. PICK H : H = {r \in DOMAIN reserved : reserved[r] # -1}
    OBVIOUS
  <2>4. \A r \in H : table[reserved[r]] # Closed
    BY <2>2, <2>3 DEF Sound
  <2>5. \A r, q \in H : reserved[r] = reserved[q] => r = q
    BY <2>2, <2>3 DEF Sound
  <2>6. ASSUME NEW n \in Fd, table[n] # Closed
        PROVE  (\E r \in H : reserved[r] = n) \/ view[n] = table[n] \/ Isdeferred(n)
    <3>1. CASE Holds(reserved, n)
      BY <2>3, <3>1, FdCount DEF Holds
    <3>2. CASE \E i \in 1 .. Len(deftab) : deftab[i] = n
      BY <2>2, <3>2 DEF Isdeferred
    <3>3. CASE ~Holds(reserved, n) /\ \A i \in 1 .. Len(deftab) : deftab[i] # n
      BY <2>1, <3>3, ViewIs
    <3>4. QED
      BY <3>1, <3>2, <3>3
  <2>7. Len(deftab) = Cardinality({i \in DOMAIN frames : frames[i].kind \in {"redir", "here"}})
    BY <2>1, NotedCount DEF Defers
  <2>8. QED
    BY <2>3, <2>4, <2>5, <2>6, <2>7 DEF Accounted
<1>2. QED
  BY <1>1, Invariance, PTL

\* A descriptor is free that no operation is about, and there is a first one of these
\* after 2, free or not.
LEMMA NewfdChoices ==
  ASSUME Careful, IInv
  PROVE  /\ \E n \in 3 .. MaxFd : ~Isdeferred(n) /\ \A m \in 3 .. n - 1 : Isdeferred(m)
         /\ \E n \in Fd : /\ table[n] = Closed /\ ~Isdeferred(n)
                          /\ \A m \in 0 .. n - 1 : table[m] # Closed \/ Isdeferred(m)
<1>1. \A n : Isdeferred(n) => n \in 0 .. 4
  <2>1. setup.user \subseteq 0 .. 4
    BY NowIs, SetupIs
  <2>2. \A i \in DOMAIN deftab : deftab[i] \in setup.user
    BY ElementOfSeq DEF IInv, Types
  <2>3. QED
    BY <2>1, <2>2 DEF Isdeferred
<1>2. MaxFd \in Nat /\ MaxFd >= 9 /\ Fd = 0 .. MaxFd
  BY FdCount DEF Fd
<1>. DEFINE S == {n \in 3 .. MaxFd : ~Isdeferred(n)}
<1>. DEFINE T == {n \in Fd : table[n] = Closed /\ ~Isdeferred(n)}
<1>3. 5 \in S /\ S \subseteq Nat
  BY <1>1, <1>2
<1>4. PICK n \in S : \A m \in S : n <= m
  <2>. HIDE DEF S
  <2>1. QED
    BY <1>3, LeastOf
<1>5. n \in 3 .. MaxFd /\ ~Isdeferred(n) /\ \A m \in 3 .. n - 1 : Isdeferred(m)
  <2>1. n \in 3 .. MaxFd /\ ~Isdeferred(n)
    OBVIOUS
  <2>2. ASSUME NEW m \in 3 .. n - 1 PROVE Isdeferred(m)
    <3>1. m \in 3 .. MaxFd /\ ~(n <= m)
      BY <1>2, <2>1
    <3>2. m \notin S
      BY <1>4, <3>1
    <3>3. QED
      BY <3>1, <3>2
  <2>3. QED
    BY <2>1, <2>2
<1>6. \E k \in Fd : table[k] = Closed /\ k > 4
  <2>1. PICK t : t = [k \in Fd |-> IF k = 3 \/ k = 4 THEN 1 ELSE table[k]]
    OBVIOUS
  <2>2. PICK t1 : t1 = [k \in Fd |-> IF k = 3 THEN 1 ELSE table[k]]
    OBVIOUS
  <2>3. OpenIn(t1) \subseteq OpenIn(table) \cup {3} /\ OpenIn(t) \subseteq OpenIn(t1) \cup {4}
    BY <2>1, <2>2 DEF OpenIn
  <2>4. 3 \in Fd /\ 4 \in Fd /\ Sound(table, reserved)
    BY <1>2, NowIs
  <2>5. Room(table, 2 + 1) /\ 2 \in Int /\ 1 \in Int /\ 0 \in Int
    BY NowIs
  <2>6. Room(t1, 2)
    BY <2>3, <2>4, <2>5, RoomMore
  <2>7. Room(t1, 1 + 1)
    BY <2>6
  <2>8. Room(t, 1)
    BY <2>3, <2>4, <2>5, <2>7, RoomMore
  <2>9. Room(t, 0)
    BY <2>8, OpenFinite, FdCount DEF Room
  <2>10. LowOpen(t)
    <3>1. SUFFICES ASSUME NEW k \in 0 .. 2 PROVE t[k] # Closed
      BY DEF LowOpen
    <3>2. k \in Fd /\ k # 3 /\ k # 4
      BY <1>2
    <3>3. QED
      BY <2>1, <2>4, <3>2 DEF Sound, LowOpen
  <2>11. PICK k \in Fd : k >= 3 /\ t[k] = Closed
    BY <2>9, <2>10, FreeIs
  <2>12. k # 3 /\ k # 4 /\ table[k] = Closed
    BY <2>1, <2>11 DEF Closed
  <2>13. k > 4
    BY <1>2, <2>11, <2>12
  <2>14. QED
    BY <2>12, <2>13
<1>7. T # {} /\ T \subseteq Nat
  BY <1>1, <1>2, <1>6
<1>8. PICK k \in T : \A m \in T : k <= m
  <2>. HIDE DEF T
  <2>1. QED
    BY <1>7, LeastOf
<1>9. /\ k \in Fd /\ table[k] = Closed /\ ~Isdeferred(k)
      /\ \A m \in 0 .. k - 1 : table[m] # Closed \/ Isdeferred(m)
  <2>1. k \in Fd /\ table[k] = Closed /\ ~Isdeferred(k)
    OBVIOUS
  <2>2. ASSUME NEW m \in 0 .. k - 1 PROVE table[m] # Closed \/ Isdeferred(m)
    <3>1. m \in Fd /\ ~(k <= m)
      BY <1>2, <2>1
    <3>2. m \notin T
      BY <1>8, <3>1
    <3>3. QED
      BY <3>1, <3>2
  <2>3. QED
    BY <2>1, <2>2
<1>10. QED
  BY <1>5, <1>9

\* What %newfd returns is free, for the program and for the shell.
THEOREM NewIsFree == ASSUME Careful PROVE Spec => []NewfdFree
<1>1. IInv => NewfdFree
  <2>1. SUFFICES ASSUME IInv PROVE NewfdFree
    OBVIOUS
  <2>2. PICK i : i = CHOOSE n \in 3 .. MaxFd : ~Isdeferred(n) /\ \A m \in 3 .. n - 1 : Isdeferred(m)
    OBVIOUS
  <2>3. i \in 3 .. MaxFd /\ ~Isdeferred(i)
    BY <2>1, <2>2, NewfdChoices
  <2>4. PICK k : k = CHOOSE n \in Fd : /\ table[n] = Closed /\ ~Isdeferred(n)
                                       /\ \A m \in 0 .. n - 1 : table[m] # Closed \/ Isdeferred(m)
    OBVIOUS
  <2>5. k \in Fd /\ table[k] = Closed /\ ~Isdeferred(k)
    BY <2>1, <2>4, NewfdChoices
  <2>6. PICK x : x = Newfd
    OBVIOUS
  <2>7. x = IF table[i] = Closed THEN i ELSE k
    BY <2>2, <2>4, <2>6 DEF Newfd
  <2>8. x \in Fd /\ table[x] = Closed /\ ~Isdeferred(x)
    BY <2>3, <2>5, <2>7, FdCount DEF Fd
  <2>9. view[x] = Closed
    <3>1. DOMAIN deftab = 1 .. Len(deftab) /\ Means(view, table, reserved, deftab, 1, Len(deftab))
      BY <2>1 DEF IInv, Types
    <3>2. \A j \in 1 .. Len(deftab) : deftab[j] # x
      BY <2>8, <3>1 DEF Isdeferred
    <3>3. view[x] = Base(table, reserved, x)
      BY <2>8, <3>1, <3>2 DEF Means, Gets
    <3>4. QED
      BY <2>8, <3>3 DEF Base
  <2>10. QED
    BY <2>6, <2>8, <2>9 DEF NewfdFree
<1>2. QED
  BY <1>1, Invariance, PTL

=============================================================================
