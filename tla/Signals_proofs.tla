--------------------------- MODULE Signals_proofs ---------------------------
(***************************************************************************)
(* Proofs about Signals, for every number of signals, sent any number of   *)
(* times, with catchers that interrupt each other to every depth.          *)
(***************************************************************************)
EXTENDS Signals, SequenceTheorems, FiniteSetTheorems, TLAPS

Activations == [sig : Sig, at : {"enter", "load", "store", "slow"}, reg : Nat]

\* The activations of catcher that have noted their signal and not yet counted it.
Counting(cs) == {i \in DOMAIN cs : cs[i].at \in {"load", "store"}}

Noted == {s \in Sig : caught[s]}
NotedCount == Cardinality(Noted)
Uncounted == Cardinality(Counting(catchers))

\* sigchk has taken one off the count, and has not yet cleared its signal.
InClear == IF pc = "clear" THEN 1 ELSE 0

\* The count is never ahead of what is noted, nor will be when a catcher stores what
\* it has loaded, or the shell does; and what sigchk looks for is there.
Behind ==
  /\ sigcount + Uncounted + InClear <= NotedCount
  /\ \A i \in DOMAIN catchers :
       catchers[i].at = "store" => catchers[i].reg + Uncounted + InClear <= NotedCount
  /\ pc = "store" => reg + Uncounted <= NotedCount /\ reg >= 1
  /\ pc \in {"scan", "count"} => sigcount >= 1

Found ==
  /\ pc \in {"count", "store", "clear"} => sig \in Sig /\ caught[sig]
  /\ pc = "scan" => \E s \in Sig : sig <= s /\ caught[s]

\* Where ++ and -- are one access, nothing is between a load and a store, and where
\* no longjmp leaves catchers, the count is exact.
Exact ==
  build.atomic =>
    /\ pc # "store" /\ \A i \in DOMAIN catchers : catchers[i].at # "store"
    /\ ~build.readline =>
         /\ pc \notin {"setjmp", "readline", "line", "jumped"}
         /\ sigcount + Uncounted + InClear = NotedCount

IInv ==
  /\ TypeOK /\ catchers \in Seq(Activations)
  /\ LabelLive
  /\ Alive => Behind /\ Found /\ Exact

-----------------------------------------------------------------------------
(* Facts about the stack of activations. *)

\* The innermost activation, and the others when it is left.
LEMMA Innermost ==
  ASSUME NEW cs \in Seq(Activations), cs # <<>>
  PROVE  /\ Len(cs) \in DOMAIN cs /\ Last(cs) = cs[Len(cs)] /\ Last(cs) \in Activations
         /\ Front(cs) \in Seq(Activations)
         /\ DOMAIN Front(cs) = DOMAIN cs \ {Len(cs)}
         /\ \A i \in DOMAIN Front(cs) : Front(cs)[i] = cs[i]
<1>1. Len(cs) \in Nat \ {0} /\ DOMAIN cs = 1 .. Len(cs) /\ \A i \in 1 .. Len(cs) : cs[i] \in Activations
  BY EmptySeq, LenProperties, ElementOfSeq
<1>2. Last(cs) = cs[Len(cs)] /\ Front(cs) = SubSeq(cs, 1, Len(cs) - 1)
  BY DEF Last, Front
<1>3. Front(cs) = [i \in 1 .. Len(cs) - 1 |-> cs[i]]
  BY <1>1, <1>2
<1>4. QED
  BY <1>1, <1>2, <1>3

\* Finitely many of them have a signal to count.
LEMMA CountingFinite ==
  ASSUME NEW cs \in Seq(Activations)
  PROVE  IsFiniteSet(Counting(cs)) /\ Cardinality(Counting(cs)) \in Nat
<1>1. DOMAIN cs = 1 .. Len(cs) /\ Len(cs) \in Nat
  BY LenProperties
<1>2. IsFiniteSet(1 .. Len(cs))
  BY <1>1, FS_Interval
<1>3. Counting(cs) \in SUBSET (1 .. Len(cs))
  BY <1>1 DEF Counting
<1>4. QED
  BY <1>2, <1>3, FS_Subset, FS_CardinalityType

\* A catcher that begins has noted nothing yet.
LEMMA CountingBegins ==
  ASSUME NEW cs \in Seq(Activations), NEW s \in Sig
  PROVE  /\ Append(cs, Activation(s)) \in Seq(Activations)
         /\ Counting(Append(cs, Activation(s))) = Counting(cs)
         /\ DOMAIN Append(cs, Activation(s)) = DOMAIN cs \cup {Len(cs) + 1}
         /\ Append(cs, Activation(s))[Len(cs) + 1] = Activation(s)
         /\ \A i \in DOMAIN cs : Append(cs, Activation(s))[i] = cs[i]
<1>1. Activation(s) \in Activations /\ Activation(s).at = "enter"
  BY DEF Activation, Activations
<1>. DEFINE a == Activation(s)
            t == Append(cs, a)
<1>. HIDE DEF a
<1>2. /\ t \in Seq(Activations) /\ Len(cs) \in Nat
      /\ DOMAIN cs = 1 .. Len(cs) /\ DOMAIN t = 1 .. Len(cs) + 1
      /\ t[Len(cs) + 1] = a /\ \A i \in 1 .. Len(cs) : t[i] = cs[i]
  BY <1>1, AppendProperties, LenProperties DEF a
<1>3. DOMAIN t = DOMAIN cs \cup {Len(cs) + 1}
  BY <1>2
<1>4. Counting(t) = Counting(cs)
  BY <1>1, <1>2, <1>3 DEF Counting, a
<1>5. QED
  BY <1>2, <1>3, <1>4 DEF a

\* A catcher that ends has counted what it noted.
LEMMA CountingEnds ==
  ASSUME NEW cs \in Seq(Activations), cs # <<>>, Last(cs).at \notin {"load", "store"}
  PROVE  Counting(Front(cs)) = Counting(cs)
BY Innermost DEF Counting

-----------------------------------------------------------------------------
(* The invariant. *)

\* There are finitely many signals.
LEMMA NotedFinite == IsFiniteSet(Noted) /\ NotedCount \in Nat
<1>1. IsFiniteSet(Sig)
  BY SigAssumption, FS_Interval DEF Sig
<1>2. Noted \in SUBSET Sig
  BY DEF Noted
<1>3. QED
  BY <1>1, <1>2, FS_Subset, FS_CardinalityType DEF NotedCount

\* So there are, of the activations that the shell and its catchers make.
LEMMA UncountedNat == ASSUME IInv PROVE Uncounted \in Nat
BY CountingFinite DEF IInv, Uncounted

\* When no catcher runs, none has a signal to count.
LEMMA NoneRuns ==
  ASSUME NEW cs, cs = <<>>
  PROVE  cs \in Seq(Activations) /\ DOMAIN cs = {} /\ Cardinality(Counting(cs)) = 0
<1>1. cs \in Seq(Activations) /\ DOMAIN cs = {}
  BY EmptySeq
<1>2. Counting(cs) = {}
  BY <1>1 DEF Counting
<1>3. QED
  BY <1>1, <1>2, FS_EmptySet

\* At the start nothing is noted and nothing counted.
LEMMA InvInit == Init => IInv
<1>. SUFFICES ASSUME Init PROVE IInv
  OBVIOUS
<1>1. catchers \in Seq(Activations) /\ DOMAIN catchers = {}
  BY EmptySeq DEF Init
<1>2. NSIG \in Nat /\ Effect0 \in [Sig -> Effects] /\ MaxBlocked \in Nat /\ MaxSent \in Nat
  BY SigAssumption, BoundAssumption
<1>3. TypeOK /\ LabelLive
  <2>1. caught \in [Sig -> BOOLEAN] /\ sigeffect \in [Sig -> Effects]
    BY <1>2 DEF Init
  <2>2. LabelLive
    BY DEF Init, LabelLive
  <2>3. 0 \in 0 .. NSIG /\ 0 \in 0 .. MaxBlocked /\ 0 \in 0 .. MaxSent /\ 0 \in Nat
    BY <1>2
  <2>4. QED
    BY <1>1, <2>1, <2>2, <2>3, Zenon DEF Init, TypeOK
<1>4. Noted = {} /\ Counting(catchers) = {}
  BY <1>1 DEF Init, Noted, Counting
<1>5. NotedCount = 0 /\ Uncounted = 0
  BY <1>4, FS_EmptySet DEF NotedCount, Uncounted
<1>6. QED
  BY <1>1, <1>3, <1>5 DEF IInv, Init, Behind, Found, Exact, InClear

\* Where sigchk looks for a signal, and where callreadline is.
InLoop == {"scan", "count", "store", "clear"}
InReadline == {"setjmp", "readline", "line", "jumped"}

\* A step that neither notes nor counts, outside of sigchk's loop or staying where it
\* is in it, keeps the invariant.
LEMMA Quiet ==
  ASSUME IInv, UNCHANGED <<caught, sigcount, catchers, build>>,
         \/ pc' = pc /\ UNCHANGED <<sig, reg>>
         \/ pc \notin InLoop /\ pc' \notin InLoop
         \/ pc' \in {"exit", "killed"},
         Alive' => Alive,
         pc' \in InReadline => build.readline \/ pc \in InReadline
  PROVE  Alive' => Behind' /\ Found' /\ Exact'
<1>. SUFFICES ASSUME Alive' PROVE Behind' /\ Found' /\ Exact'
  OBVIOUS
<1>1. NotedCount' = NotedCount /\ Uncounted' = Uncounted /\ InClear' = InClear
  BY DEF NotedCount, Noted, Uncounted, Counting, InClear, InLoop, Alive
<1>2. Alive /\ Behind /\ Found /\ Exact
  BY DEF IInv
<1>3. Behind'
  BY <1>1, <1>2 DEF Behind, InLoop, Alive
<1>4. Found'
  BY <1>2 DEF Found, InLoop, Alive
<1>5. Exact'
  BY <1>1, <1>2 DEF Exact, InLoop, InReadline, Alive
<1>6. QED
  BY <1>3, <1>4, <1>5

\* Catcher begins where it is not running for the signal.
LEMMA BeginStep ==
  ASSUME IInv, Alive, NEW s \in Sig, catchers' = Append(catchers, Activation(s)),
         UNCHANGED <<caught, sigcount, build, pc, sig, reg>>
  PROVE  catchers' \in Seq(Activations) /\ Behind' /\ Found' /\ Exact'
<1>1. catchers \in Seq(Activations) /\ Behind /\ Found /\ Exact
  BY DEF IInv
<1>2. /\ catchers' \in Seq(Activations) /\ Counting(catchers') = Counting(catchers)
      /\ \A i \in DOMAIN catchers' : catchers'[i].at = "store" =>
            i \in DOMAIN catchers /\ catchers'[i] = catchers[i]
  BY <1>1, CountingBegins DEF Activation
<1>3. NotedCount' = NotedCount /\ Uncounted' = Uncounted /\ InClear' = InClear
  BY <1>2 DEF NotedCount, Noted, Uncounted, InClear
<1>4. Behind'
  BY <1>1, <1>2, <1>3 DEF Behind
<1>5. Found'
  BY <1>1 DEF Found
<1>6. Exact'
  BY <1>1, <1>2, <1>3 DEF Exact
<1>7. QED
  BY <1>2, <1>4, <1>5, <1>6

\* What the steps of the innermost catcher have in common: n is its place.
LEMMA AtTop ==
  ASSUME IInv, NEW at, CatcherAt(at)
  PROVE  /\ catchers \in Seq(Activations) /\ catchers # <<>> /\ Alive /\ Behind /\ Found /\ Exact
         /\ Len(catchers) \in DOMAIN catchers /\ Top = catchers[Len(catchers)] /\ Top.at = at
         /\ Top \in Activations /\ Top.sig \in Sig /\ Top.reg \in Nat
         /\ sigcount \in Nat /\ caught \in [Sig -> BOOLEAN]
         /\ \A i \in DOMAIN catchers : catchers[i].reg \in Nat
<1>1. catchers \in Seq(Activations) /\ catchers # <<>> /\ Alive
  BY DEF IInv, CatcherAt
<1>2. Top \in Activations /\ Top = catchers[Len(catchers)] /\ Len(catchers) \in DOMAIN catchers
  BY <1>1, Innermost DEF Top
<1>3. Top.sig \in Sig /\ Top.reg \in Nat
  BY <1>2 DEF Activations
<1>4. QED
  BY <1>1, <1>2, <1>3 DEF IInv, TypeOK, CatcherAt

\* The innermost catcher goes on, with what that does to the number of those that count.
LEMMA Advances ==
  ASSUME catchers \in Seq(Activations), catchers # <<>>,
         NEW at \in {"enter", "load", "store", "slow"}, NEW r \in Nat, Advance(at, r)
  PROVE  /\ catchers' \in Seq(Activations) /\ DOMAIN catchers' = DOMAIN catchers
         /\ catchers'[Len(catchers)].at = at /\ catchers'[Len(catchers)].reg = r
         /\ \A i \in DOMAIN catchers \ {Len(catchers)} : catchers'[i] = catchers[i]
         /\ Top.at \in {"load", "store"} /\ at \in {"load", "store"} => Uncounted' = Uncounted
         /\ Top.at \notin {"load", "store"} /\ at \notin {"load", "store"} => Uncounted' = Uncounted
         /\ Top.at \notin {"load", "store"} /\ at \in {"load", "store"} => Uncounted' = Uncounted + 1
         /\ Top.at \in {"load", "store"} /\ at \notin {"load", "store"} => Uncounted' = Uncounted - 1
<1>. DEFINE n == Len(catchers)
<1>1. catchers' = [catchers EXCEPT ![n].at = at, ![n].reg = r]
  BY DEF Advance
<1>2. n \in DOMAIN catchers /\ Last(catchers) = catchers[n] /\ Last(catchers) \in Activations
  BY Innermost
<1>3. n \in Nat /\ DOMAIN catchers = 1 .. n /\ \A i \in DOMAIN catchers : catchers[i] \in Activations
  BY LenProperties, ElementOfSeq
<1>4. /\ DOMAIN catchers' = DOMAIN catchers
      /\ catchers'[n] = [Last(catchers) EXCEPT !.at = at, !.reg = r]
      /\ \A i \in DOMAIN catchers \ {n} : catchers'[i] = catchers[i]
  BY <1>1, <1>2, <1>3
<1>5. catchers'[n] \in Activations /\ catchers'[n].at = at /\ catchers'[n].reg = r
  BY <1>2, <1>3, <1>4 DEF Activations
<1>6. catchers' = [catchers EXCEPT ![n] = catchers'[n]]
  BY <1>1, <1>2, <1>3, <1>4
<1>7. catchers' \in Seq(Activations)
  BY <1>2, <1>3, <1>5, <1>6, ExceptSeq
<1>8. Counting(catchers') = IF at \in {"load", "store"} THEN Counting(catchers) \cup {n}
                            ELSE Counting(catchers) \ {n}
  BY <1>2, <1>3, <1>4, <1>5 DEF Counting
<1>9. n \in Counting(catchers) <=> Top.at \in {"load", "store"}
  BY Innermost DEF Counting, Top
<1>10. IsFiniteSet(Counting(catchers)) /\ Cardinality(Counting(catchers)) \in Nat
  BY CountingFinite
<1>11. /\ Cardinality(Counting(catchers) \cup {n}) =
           IF n \in Counting(catchers) THEN Uncounted ELSE Uncounted + 1
      /\ Cardinality(Counting(catchers) \ {n}) =
           IF n \in Counting(catchers) THEN Uncounted - 1 ELSE Uncounted
  BY <1>10, FS_AddElement, FS_RemoveElement DEF Uncounted
<1>12. Uncounted' = Cardinality(Counting(catchers'))
  BY DEF Uncounted
<1>13. QED
  BY <1>4, <1>5, <1>7, <1>8, <1>9, <1>11, <1>12

\* catcher notes the signal, and with that has it to count, unless it was noted before.
LEMMA CatcherEnterStep ==
  ASSUME IInv, CatcherEnter
  PROVE  catchers' \in Seq(Activations) /\ (Alive' => Behind' /\ Found' /\ Exact')
<1>. DEFINE n == Len(catchers)
<1>1. CatcherAt("enter")
  BY DEF CatcherEnter
<1>2. /\ catchers \in Seq(Activations) /\ catchers # <<>> /\ Behind /\ Found /\ Exact
      /\ n \in DOMAIN catchers /\ Top = catchers[n] /\ Top.at = "enter" /\ Top.sig \in Sig
      /\ caught \in [Sig -> BOOLEAN] /\ sigcount \in Nat
      /\ \A i \in DOMAIN catchers : catchers[i].reg \in Nat
  BY <1>1, AtTop
<1>3. CASE hasforked
  BY <1>2, <1>3 DEF CatcherEnter, Alive
<1>4. CASE ~hasforked /\ caught[Top.sig]
  <2>1. Advance("slow", 0) /\ UNCHANGED <<caught, sigcount, build, pc, sig, reg>>
    BY <1>2, <1>4 DEF CatcherEnter
  <2>2. /\ catchers' \in Seq(Activations) /\ Uncounted' = Uncounted
        /\ DOMAIN catchers' = DOMAIN catchers /\ catchers'[n].at = "slow"
        /\ \A i \in DOMAIN catchers \ {n} : catchers'[i] = catchers[i]
    BY <2>1, <1>2, Advances
  <2>3. NotedCount' = NotedCount /\ InClear' = InClear
    BY <2>1 DEF NotedCount, Noted, InClear
  <2>4. Behind' /\ Found' /\ Exact'
    BY <1>2, <2>1, <2>2, <2>3 DEF Behind, Found, Exact
  <2>5. QED
    BY <2>2, <2>4
<1>5. CASE ~hasforked /\ ~caught[Top.sig]
  <2>1. /\ Advance("load", 0) /\ UNCHANGED <<sigcount, build, pc, sig, reg>>
        /\ caught' = [caught EXCEPT ![Top.sig] = TRUE]
    BY <1>2, <1>5 DEF CatcherEnter
  <2>2. /\ catchers' \in Seq(Activations) /\ Uncounted' = Uncounted + 1
        /\ DOMAIN catchers' = DOMAIN catchers /\ catchers'[n].at = "load"
        /\ \A i \in DOMAIN catchers \ {n} : catchers'[i] = catchers[i]
    BY <2>1, <1>2, Advances
  <2>3. Noted' = Noted \cup {Top.sig} /\ Top.sig \notin Noted
    BY <1>2, <1>5, <2>1 DEF Noted
  <2>4. NotedCount' = NotedCount + 1
    BY <2>3, NotedFinite, FS_AddElement DEF NotedCount
  <2>5. InClear' = InClear /\ InClear \in Nat
    BY <2>1 DEF InClear
  <2>6. NotedCount \in Nat /\ Uncounted \in Nat /\ reg \in Nat
    BY NotedFinite, UncountedNat DEF IInv, TypeOK
  <2>7. Behind'
    <3>1. sigcount' + Uncounted' + InClear' <= NotedCount'
      BY <1>2, <2>1, <2>2, <2>4, <2>5, <2>6 DEF Behind
    <3>2. \A i \in DOMAIN catchers' :
            catchers'[i].at = "store" => catchers'[i].reg + Uncounted' + InClear' <= NotedCount'
      BY <1>2, <2>2, <2>4, <2>5, <2>6 DEF Behind
    <3>3. pc' = "store" => reg' + Uncounted' <= NotedCount' /\ reg' >= 1
      BY <1>2, <2>1, <2>2, <2>4, <2>6 DEF Behind
    <3>4. pc' \in {"scan", "count"} => sigcount' >= 1
      BY <1>2, <2>1 DEF Behind
    <3>5. QED
      BY <3>1, <3>2, <3>3, <3>4 DEF Behind
  <2>8. Found'
    BY <1>2, <2>1 DEF Found
  <2>9. Exact'
    BY <1>2, <2>1, <2>2, <2>4, <2>5, <2>6 DEF Exact
  <2>10. QED
    BY <2>2, <2>7, <2>8, <2>9
<1>6. QED
  BY <1>3, <1>4, <1>5

\* ++sigcount in one access, or its load: what is loaded is not ahead either.
LEMMA CatcherLoadStep ==
  ASSUME IInv, CatcherLoad
  PROVE  catchers' \in Seq(Activations) /\ sigcount' \in Nat /\ Behind' /\ Found' /\ Exact'
<1>. DEFINE n == Len(catchers)
<1>1. CatcherAt("load") /\ UNCHANGED <<caught, build, pc, sig, reg>>
  BY DEF CatcherLoad, shell
<1>2. /\ catchers \in Seq(Activations) /\ catchers # <<>> /\ Behind /\ Found /\ Exact
      /\ n \in DOMAIN catchers /\ Top.at = "load" /\ sigcount \in Nat
      /\ \A i \in DOMAIN catchers : catchers[i].reg \in Nat
  BY <1>1, AtTop
<1>3. NotedCount' = NotedCount /\ InClear' = InClear /\ InClear \in Nat
  BY <1>1 DEF NotedCount, Noted, InClear
<1>4. NotedCount \in Nat /\ Uncounted \in Nat /\ reg \in Nat
  BY NotedFinite, UncountedNat DEF IInv, TypeOK
<1>5. Found'
  BY <1>1, <1>2 DEF Found
<1>6. CASE build.atomic
  <2>1. Advance("slow", 0) /\ sigcount' = sigcount + 1
    BY <1>6 DEF CatcherLoad
  <2>2. /\ catchers' \in Seq(Activations) /\ Uncounted' = Uncounted - 1
        /\ DOMAIN catchers' = DOMAIN catchers /\ catchers'[n].at = "slow"
        /\ \A i \in DOMAIN catchers \ {n} : catchers'[i] = catchers[i]
    BY <1>2, <2>1, Advances
  <2>3. Behind'
    BY <1>1, <1>2, <1>3, <1>4, <2>1, <2>2 DEF Behind
  <2>4. Exact'
    BY <1>1, <1>2, <1>3, <1>4, <2>1, <2>2 DEF Exact
  <2>5. QED
    BY <1>2, <1>5, <2>1, <2>2, <2>3, <2>4
<1>7. CASE ~build.atomic
  <2>1. Advance("store", sigcount) /\ sigcount' = sigcount
    BY <1>7 DEF CatcherLoad
  <2>2. /\ catchers' \in Seq(Activations) /\ Uncounted' = Uncounted
        /\ DOMAIN catchers' = DOMAIN catchers /\ catchers'[n].reg = sigcount
        /\ \A i \in DOMAIN catchers \ {n} : catchers'[i] = catchers[i]
    BY <1>2, <2>1, Advances
  <2>3. Behind'
    BY <1>1, <1>2, <1>3, <2>1, <2>2 DEF Behind
  <2>4. Exact'
    BY <1>1, <1>7 DEF Exact
  <2>5. QED
    BY <1>2, <1>5, <2>1, <2>2, <2>3, <2>4
<1>8. QED
  BY <1>6, <1>7

\* The store of ++sigcount, which may undo what other catchers counted, and never adds
\* more than the signal that this one has to count.
LEMMA CatcherStoreStep ==
  ASSUME IInv, CatcherStore
  PROVE  catchers' \in Seq(Activations) /\ sigcount' \in Nat /\ Behind' /\ Found' /\ Exact'
<1>. DEFINE n == Len(catchers)
<1>1. /\ CatcherAt("store") /\ UNCHANGED <<caught, build, pc, sig, reg>>
      /\ sigcount' = Top.reg + 1 /\ Advance("slow", 0)
  BY DEF CatcherStore, shell
<1>2. /\ catchers \in Seq(Activations) /\ catchers # <<>> /\ Behind /\ Found /\ Exact
      /\ n \in DOMAIN catchers /\ Top = catchers[n] /\ Top.at = "store" /\ Top.reg \in Nat
      /\ \A i \in DOMAIN catchers : catchers[i].reg \in Nat
  BY <1>1, AtTop
<1>3. NotedCount' = NotedCount /\ InClear' = InClear /\ InClear \in Nat
  BY <1>1 DEF NotedCount, Noted, InClear
<1>4. NotedCount \in Nat /\ Uncounted \in Nat /\ reg \in Nat
  BY NotedFinite, UncountedNat DEF IInv, TypeOK
<1>5. /\ catchers' \in Seq(Activations) /\ Uncounted' = Uncounted - 1
      /\ DOMAIN catchers' = DOMAIN catchers /\ catchers'[n].at = "slow"
      /\ \A i \in DOMAIN catchers \ {n} : catchers'[i] = catchers[i]
  BY <1>1, <1>2, Advances
<1>6. Behind'
  <2>1. Top.reg + Uncounted + InClear <= NotedCount
    BY <1>2 DEF Behind
  <2>2. sigcount' + Uncounted' + InClear' <= NotedCount' /\ sigcount' >= 1
    BY <1>1, <1>2, <1>3, <1>4, <1>5, <2>1
  <2>3. ASSUME NEW i \in DOMAIN catchers', catchers'[i].at = "store"
        PROVE  catchers'[i].reg + Uncounted' + InClear' <= NotedCount'
    <3>1. i \in DOMAIN catchers \ {n} /\ catchers'[i] = catchers[i] /\ catchers[i].reg \in Nat
      BY <1>2, <1>5, <2>3
    <3>2. catchers[i].reg + Uncounted + InClear <= NotedCount
      BY <1>2, <2>3, <3>1 DEF Behind
    <3>3. QED
      BY <1>3, <1>4, <1>5, <3>1, <3>2
  <2>4. pc' = "store" => reg' + Uncounted' <= NotedCount' /\ reg' >= 1
    BY <1>1, <1>2, <1>3, <1>4, <1>5 DEF Behind
  <2>5. QED
    BY <2>2, <2>3, <2>4 DEF Behind
<1>7. Found'
  BY <1>1, <1>2 DEF Found
<1>8. Exact'
  BY <1>1, <1>2 DEF Exact
<1>9. QED
  BY <1>1, <1>2, <1>5, <1>6, <1>7, <1>8

\* catcher returns, or leaves every activation, which only takes from what is to count.
LEMMA CatcherEndStep ==
  ASSUME IInv, CatcherEnd
  PROVE  catchers' \in Seq(Activations) /\ Behind' /\ Found' /\ Exact'
<1>1. CatcherAt("slow") /\ UNCHANGED <<caught, sigcount, build, sig, reg, slow>>
  BY DEF CatcherEnd
<1>2. /\ catchers \in Seq(Activations) /\ catchers # <<>> /\ Alive /\ Behind /\ Found /\ Exact
      /\ Top.at = "slow" /\ sigcount \in Nat
  BY <1>1, AtTop
<1>3. NotedCount' = NotedCount /\ NotedCount \in Nat /\ Uncounted \in Nat /\ InClear \in Nat
  BY <1>1, NotedFinite, UncountedNat DEF NotedCount, Noted, InClear
<1>4. CASE slow
  <2>1. catchers' = <<>> /\ pc' = "jumped" /\ InClear' = 0
    BY <1>4 DEF CatcherEnd, InClear
  <2>2. catchers' \in Seq(Activations) /\ DOMAIN catchers' = {} /\ Uncounted' = 0
    BY <2>1, NoneRuns DEF Uncounted
  <2>3. Behind'
    BY <1>1, <1>2, <1>3, <2>1, <2>2 DEF Behind
  <2>4. Found'
    BY <2>1 DEF Found
  <2>5. pc \in {"readline", "line", "jumped"}
    BY <1>2, <1>4 DEF IInv, LabelLive
  <2>6. Exact'
    BY <1>1, <1>2, <2>1, <2>2, <2>5 DEF Exact
  <2>7. QED
    BY <2>2, <2>3, <2>4, <2>6
<1>5. CASE ~slow
  <2>1. /\ catchers' = Front(catchers)
        /\ pc' = pc \/ (pc = "read" /\ pc' = "sigchk")
    <3>1. catchers' = Front(catchers) /\ pc' = IF pc = "read" /\ Len(catchers) = 1 THEN "sigchk" ELSE pc
      BY <1>5 DEF CatcherEnd
    <3>2. QED
      BY <3>1, Zenon
  <2>2. /\ catchers' \in Seq(Activations) /\ DOMAIN catchers' \subseteq DOMAIN catchers
        /\ \A i \in DOMAIN catchers' : catchers'[i] = catchers[i]
    BY <1>2, <2>1, Innermost
  <2>3. Uncounted' = Uncounted
    BY <1>2, <2>1, CountingEnds DEF Uncounted, Top
  <2>4. InClear' = InClear
    BY <2>1 DEF InClear
  <2>5. Behind'
    BY <1>1, <1>2, <1>3, <2>1, <2>2, <2>3, <2>4 DEF Behind
  <2>6. Found'
    BY <1>1, <1>2, <2>1 DEF Found
  <2>7. Exact'
    BY <1>1, <1>2, <1>3, <2>1, <2>2, <2>3, <2>4 DEF Exact
  <2>8. QED
    BY <2>2, <2>5, <2>6, <2>7
<1>6. QED
  BY <1>4, <1>5

\* What the steps of sigchk have in common: no catcher runs, and none counts.
LEMMA AtAlone ==
  ASSUME IInv, NEW p, At(p), p \notin {"exit", "killed"}
  PROVE  /\ catchers = <<>> /\ DOMAIN catchers = {} /\ Uncounted = 0 /\ pc = p
         /\ Behind /\ Found /\ Exact
         /\ sigcount \in Nat /\ reg \in Nat /\ sig \in 0 .. NSIG /\ caught \in [Sig -> BOOLEAN]
<1>1. catchers = <<>> /\ pc = p /\ Alive
  BY DEF At, Alive
<1>2. DOMAIN catchers = {} /\ Uncounted = 0
  BY <1>1, NoneRuns DEF Uncounted
<1>3. QED
  BY <1>1, <1>2 DEF IInv, TypeOK

\* A count above zero is of a signal that is there.
LEMMA SigchkStep ==
  ASSUME IInv, Sigchk
  PROVE  Alive' => Behind' /\ Found' /\ Exact'
<1>1. UNCHANGED <<caught, sigcount, catchers, build>> /\ (At("run") \/ At("sigchk"))
  BY DEF Sigchk, Interrupts
<1>2. /\ catchers = <<>> /\ DOMAIN catchers = {} /\ Uncounted = 0 /\ pc \in {"run", "sigchk"}
      /\ Behind /\ Exact /\ sigcount \in Nat
  BY <1>1, AtAlone
<1>3. CASE pc' \in {"run", "exit"}
  <2>1. Alive /\ pc \notin InLoop /\ pc' \notin InLoop /\ pc' \notin InReadline
    BY <1>2, <1>3 DEF Alive, InLoop, InReadline
  <2>2. QED
    BY <1>1, <2>1, Quiet
<1>4. CASE pc' = "scan" /\ sig' = 0 /\ sigcount # 0
  <2>1. NotedCount' = NotedCount /\ Uncounted' = 0 /\ InClear' = 0 /\ InClear = 0
    BY <1>1, <1>2, <1>4 DEF NotedCount, Noted, Uncounted, InClear
  <2>2. NotedCount >= 1 /\ sigcount >= 1 /\ NotedCount \in Nat
    BY <1>2, <1>4, <2>1, NotedFinite DEF Behind
  <2>3. PICK s \in Sig : caught[s]
    BY <2>2, FS_EmptySet DEF NotedCount, Noted
  <2>4. Found'
    BY <1>1, <1>4, <2>3, SigAssumption DEF Found, Sig
  <2>5. Behind'
    BY <1>1, <1>2, <1>4, <2>1, <2>2 DEF Behind
  <2>6. Exact'
    BY <1>1, <1>2, <1>4, <2>1 DEF Exact
  <2>7. QED
    BY <2>4, <2>5, <2>6
<1>5. pc' \in {"run", "exit"} \/ (pc' = "scan" /\ sig' = 0 /\ sigcount # 0)
  BY DEF Sigchk, Go
<1>6. QED
  BY <1>3, <1>4, <1>5

\* sigchk's loop passes over the signals that are not noted, and finds one that is.
LEMMA ScanStep ==
  ASSUME IInv, Scan
  PROVE  sig' \in 0 .. NSIG /\ Behind' /\ Found' /\ Exact'
<1>1. UNCHANGED <<caught, sigcount, catchers, build, reg>> /\ At("scan")
  BY DEF Scan, Go, Interrupts
<1>2. /\ catchers = <<>> /\ DOMAIN catchers = {} /\ Uncounted = 0 /\ pc = "scan"
      /\ Behind /\ Found /\ Exact /\ sigcount \in Nat /\ sig \in 0 .. NSIG
  BY <1>1, AtAlone
<1>3. NotedCount' = NotedCount /\ Uncounted' = 0 /\ NSIG \in Nat
  BY <1>1, <1>2, SigAssumption DEF NotedCount, Noted, Uncounted
<1>4. \/ sig \in Sig /\ caught[sig] /\ sig' = sig /\ pc' = "count"
      \/ ~(sig \in Sig /\ caught[sig]) /\ sig < NSIG /\ sig' = sig + 1 /\ pc' = "scan"
  BY <1>2 DEF Scan, Go
<1>5. InClear' = 0 /\ InClear = 0
  BY <1>2, <1>4 DEF InClear
<1>6. PICK s \in Sig : sig <= s /\ caught[s]
  BY <1>2 DEF Found
<1>7. Found'
  BY <1>1, <1>2, <1>3, <1>4, <1>6 DEF Found, Sig
<1>8. Behind'
  BY <1>1, <1>2, <1>3, <1>4, <1>5 DEF Behind
<1>9. Exact'
  BY <1>1, <1>2, <1>3, <1>4, <1>5 DEF Exact
<1>10. QED
  BY <1>2, <1>3, <1>4, <1>7, <1>8, <1>9

\* --sigcount in one access, or its load, which finds one at least.
LEMMA CountLoadStep ==
  ASSUME IInv, CountLoad
  PROVE  sigcount' \in Nat /\ reg' \in Nat /\ sig' = sig /\ Behind' /\ Found' /\ Exact'
<1>1. UNCHANGED <<caught, catchers, build, sig>> /\ At("count")
  BY DEF CountLoad, Go, Interrupts
<1>2. /\ catchers = <<>> /\ DOMAIN catchers = {} /\ Uncounted = 0 /\ pc = "count"
      /\ Behind /\ Found /\ Exact /\ sigcount \in Nat /\ reg \in Nat
  BY <1>1, AtAlone
<1>3. NotedCount' = NotedCount /\ Uncounted' = 0 /\ NotedCount \in Nat /\ InClear = 0
  BY <1>1, <1>2, NotedFinite DEF NotedCount, Noted, Uncounted, InClear
<1>4. sigcount >= 1 /\ sigcount <= NotedCount
  BY <1>2, <1>3 DEF Behind
<1>5. CASE build.atomic
  <2>1. sigcount' = sigcount - 1 /\ pc' = "clear" /\ reg' = reg /\ InClear' = 1
    BY <1>5 DEF CountLoad, Go, InClear
  <2>2. Behind'
    BY <1>1, <1>2, <1>3, <1>4, <2>1 DEF Behind
  <2>3. Found'
    BY <1>1, <1>2, <2>1 DEF Found
  <2>4. Exact'
    BY <1>1, <1>2, <1>3, <1>4, <2>1 DEF Exact
  <2>5. QED
    BY <1>1, <1>2, <1>4, <2>1, <2>2, <2>3, <2>4
<1>6. CASE ~build.atomic
  <2>1. sigcount' = sigcount /\ pc' = "store" /\ reg' = sigcount /\ InClear' = 0
    BY <1>6 DEF CountLoad, InClear
  <2>2. Behind'
    BY <1>1, <1>2, <1>3, <1>4, <2>1 DEF Behind
  <2>3. Found'
    BY <1>1, <1>2, <2>1 DEF Found
  <2>4. Exact'
    BY <1>1, <1>6 DEF Exact
  <2>5. QED
    BY <1>1, <1>2, <2>1, <2>2, <2>3, <2>4
<1>7. QED
  BY <1>5, <1>6

\* The store of --sigcount, below what was noted when it was loaded, and now.
LEMMA CountStoreStep ==
  ASSUME IInv, CountStore
  PROVE  sigcount' \in Nat /\ Behind' /\ Found' /\ Exact'
<1>1. /\ UNCHANGED <<caught, catchers, build, sig, reg>> /\ At("store")
      /\ sigcount' = reg - 1 /\ pc' = "clear" /\ InClear' = 1
  BY DEF CountStore, Go, Interrupts, InClear
<1>2. /\ catchers = <<>> /\ DOMAIN catchers = {} /\ Uncounted = 0 /\ pc = "store"
      /\ Behind /\ Found /\ Exact /\ reg \in Nat
  BY <1>1, AtAlone
<1>3. NotedCount' = NotedCount /\ Uncounted' = 0 /\ NotedCount \in Nat
  BY <1>1, <1>2, NotedFinite DEF NotedCount, Noted, Uncounted
<1>4. reg >= 1 /\ reg <= NotedCount
  BY <1>2, <1>3 DEF Behind
<1>5. Behind'
  BY <1>1, <1>2, <1>3, <1>4 DEF Behind
<1>6. Found'
  BY <1>1, <1>2 DEF Found
<1>7. Exact'
  BY <1>1, <1>2 DEF Exact
<1>8. QED
  BY <1>1, <1>2, <1>4, <1>5, <1>6, <1>7

\* The signal whose count was taken is no longer noted.
LEMMA ClearStep ==
  ASSUME IInv, Clear
  PROVE  caught' \in [Sig -> BOOLEAN] /\ Behind' /\ Found' /\ Exact'
<1>1. /\ UNCHANGED <<sigcount, catchers, build>> /\ At("clear") /\ pc' = "run" /\ InClear' = 0
      /\ caught' = [caught EXCEPT ![sig] = FALSE]
  BY DEF Clear, Interrupts, InClear
<1>2. /\ catchers = <<>> /\ DOMAIN catchers = {} /\ Uncounted = 0 /\ pc = "clear"
      /\ Behind /\ Found /\ Exact /\ sigcount \in Nat /\ caught \in [Sig -> BOOLEAN]
  BY <1>1, AtAlone
<1>3. sig \in Noted /\ Noted' = Noted \ {sig}
  BY <1>1, <1>2 DEF Found, Noted
<1>4. NotedCount' = NotedCount - 1 /\ NotedCount \in Nat /\ InClear = 1 /\ Uncounted' = 0
  BY <1>1, <1>2, <1>3, NotedFinite, FS_RemoveElement DEF NotedCount, InClear, Uncounted
<1>5. Behind'
  BY <1>1, <1>2, <1>4 DEF Behind
<1>6. Found'
  BY <1>1 DEF Found
<1>7. Exact'
  BY <1>1, <1>2, <1>4 DEF Exact
<1>8. QED
  BY <1>1, <1>2, <1>5, <1>6, <1>7

\* The steps of the shell outside of sigchk leave what is noted and counted alone.
LEMMA ShellStep ==
  ASSUME IInv, Shell
  PROVE  /\ UNCHANGED <<caught, sigcount, catchers, build, pending, sent, reg, sig>>
         /\ pc \in {"run", "read", "setjmp", "readline", "line", "jumped", "forked", "child"}
         /\ pc' \in {"run", "sigchk", "read", "setjmp", "readline", "line", "forked", "child"}
         /\ pc' \in InReadline => build.readline \/ pc \in InReadline
BY DEF Shell, Blocksignals, Unblocksignals, Esignal, Read, ReadEnd, Setjmp, Readline, ReadlineEnd,
       NotSlow, Fork, HasForked, Setsigdefaults, At, Go, Interrupts, InReadline

\* Those steps keep the invariant, being quiet.
LEMMA ShellQuiet ==
  ASSUME IInv, Shell
  PROVE  catchers' \in Seq(Activations) /\ (Alive' => Behind' /\ Found' /\ Exact')
<1>1. /\ UNCHANGED <<caught, sigcount, catchers, build>> /\ pc \notin InLoop /\ pc' \notin InLoop
      /\ Alive /\ (pc' \in InReadline => build.readline \/ pc \in InReadline)
  BY ShellStep DEF InLoop, Alive
<1>2. Alive' => Behind' /\ Found' /\ Exact'
  BY <1>1, Quiet
<1>3. QED
  BY <1>1, <1>2 DEF IInv

\* Those steps keep the types, and leave slow set nowhere outside of callreadline.
LEMMA ShellTyped ==
  ASSUME IInv, Shell
  PROVE  TypeOK' /\ LabelLive'
<1>1. TypeOK /\ LabelLive /\ MaxBlocked \in Nat
  BY BoundAssumption DEF IInv
<1>2. /\ UNCHANGED <<caught, sigcount, catchers, build, pending, sent, reg, sig>>
      /\ pc \in {"run", "read", "setjmp", "readline", "line", "jumped", "forked", "child"}
      /\ pc' \in {"run", "sigchk", "read", "setjmp", "readline", "line", "forked", "child"}
  BY ShellStep
<1>3. blocked' \in 0 .. MaxBlocked
  BY <1>1 DEF TypeOK, Shell, Blocksignals, Unblocksignals, Esignal, Read, ReadEnd, Setjmp, Readline,
              ReadlineEnd, NotSlow, Fork, HasForked, Setsigdefaults
<1>4. sigeffect' \in [Sig -> Effects]
  <2>1. CASE UNCHANGED sigeffect
    BY <1>1, <2>1 DEF TypeOK
  <2>2. ASSUME NEW s \in Sig, NEW effect \in Effects, Esignal(s, effect)
        PROVE  sigeffect' \in [Sig -> Effects]
    BY <1>1, <2>2 DEF TypeOK, Esignal
  <2>3. CASE Setsigdefaults
    BY <1>1, <2>3 DEF TypeOK, Setsigdefaults, Effects
  <2>4. QED
    BY <2>1, <2>2, <2>3 DEF Shell, Blocksignals, Unblocksignals, Read, ReadEnd, Setjmp, Readline,
                            ReadlineEnd, NotSlow, Fork, HasForked
<1>5. slow' \in BOOLEAN /\ hasforked' \in BOOLEAN /\ here' \in BOOLEAN
  BY <1>1 DEF TypeOK, Shell, Blocksignals, Unblocksignals, Esignal, Read, ReadEnd, Setjmp, Readline,
              ReadlineEnd, NotSlow, Fork, HasForked, Setsigdefaults
<1>6. LabelLive'
  <2>1. slow => pc \in {"readline", "line", "jumped"}
    BY <1>1, <1>2 DEF LabelLive, Alive
  <2>2. slow' => pc' \in {"readline", "line", "jumped"}
    BY <2>1 DEF Shell, Blocksignals, Unblocksignals, Esignal, Read, ReadEnd, Setjmp, Readline,
                ReadlineEnd, NotSlow, Fork, HasForked, Setsigdefaults, At, Go
  <2>3. QED
    BY <2>2 DEF LabelLive
<1>7. TypeOK'
  BY <1>1, <1>2, <1>3, <1>4, <1>5 DEF TypeOK
<1>8. QED
  BY <1>6, <1>7

\* What TypeOK says of the activations.
LEMMA ActivationsTyped ==
  ASSUME NEW cs \in Seq(Activations)
  PROVE  \A i \in DOMAIN cs : cs[i].sig \in Sig /\ cs[i].reg \in Nat
<1>1. \A i \in DOMAIN cs : cs[i] \in Activations
  BY LenProperties, ElementOfSeq
<1>2. QED
  BY <1>1 DEF Activations

\* A signal comes, or comes that was held back.
LEMMA KernelStep ==
  ASSUME IInv, NEW s \in Sig, Send(s) \/ Deliver(s)
  PROVE  IInv'
<1>1. TypeOK /\ LabelLive /\ catchers \in Seq(Activations) /\ MaxSent \in Nat
  BY BoundAssumption DEF IInv
<1>2. /\ Alive /\ (pc' = pc \/ pc' = "killed")
      /\ UNCHANGED <<caught, sigcount, blocked, sigeffect, slow, hasforked, sig, reg, build>>
  BY DEF Send, Deliver, shell
<1>3. UNCHANGED catchers \/ (catchers' = Append(catchers, Activation(s)) /\ pc' = pc)
  <2>1. CASE Send(s)
    BY <2>1, Zenon DEF Send
  <2>2. CASE Deliver(s)
    BY <2>2 DEF Deliver, shell
  <2>3. QED
    BY <2>1, <2>2
<1>4. catchers' \in Seq(Activations) /\ (Alive' => Behind' /\ Found' /\ Exact')
  <2>1. CASE UNCHANGED catchers
    <3>1. pc' = pc \/ pc' \in {"exit", "killed"}
      BY <1>2
    <3>2. pc' \in InReadline => pc \in InReadline
      BY <1>2 DEF InReadline
    <3>3. Alive' => Behind' /\ Found' /\ Exact'
      BY <1>2, <2>1, <3>1, <3>2, Quiet
    <3>4. QED
      BY <1>1, <2>1, <3>3
  <2>2. CASE catchers' = Append(catchers, Activation(s)) /\ pc' = pc
    BY <1>2, <2>2, BeginStep
  <2>3. QED
    BY <1>3, <2>1, <2>2
<1>5. pending' \subseteq Sig /\ sent' \in 0 .. MaxSent /\ here' \in BOOLEAN
  <2>1. CASE Send(s)
    <3>1. pending' = pending \/ pending' = pending \cup {s}
      BY <2>1, Zenon DEF Send
    <3>2. here' = TRUE /\ sent < MaxSent /\ sent' = sent + 1
      BY <2>1 DEF Send
    <3>3. QED
      BY <1>1, <3>1, <3>2 DEF TypeOK
  <2>2. CASE Deliver(s)
    BY <1>1, <2>2 DEF TypeOK, Deliver
  <2>3. QED
    BY <2>1, <2>2
<1>6. TypeOK'
  BY <1>1, <1>2, <1>4, <1>5, ActivationsTyped DEF TypeOK
<1>7. LabelLive'
  BY <1>1, <1>2 DEF LabelLive, Alive
<1>8. QED
  BY <1>4, <1>6, <1>7 DEF IInv

\* The four steps of catcher.
LEMMA CatcherStep ==
  ASSUME IInv, Catcher
  PROVE  IInv'
<1>1. TypeOK /\ LabelLive
  BY DEF IInv
<1>2. /\ catchers' \in Seq(Activations) /\ sigcount' \in Nat
      /\ Alive' => Behind' /\ Found' /\ Exact'
  <2>1. CASE CatcherEnter
    BY <1>1, <2>1, CatcherEnterStep DEF CatcherEnter, TypeOK
  <2>2. CASE CatcherLoad
    BY <2>2, CatcherLoadStep
  <2>3. CASE CatcherStore
    BY <2>3, CatcherStoreStep
  <2>4. CASE CatcherEnd
    BY <1>1, <2>4, CatcherEndStep DEF CatcherEnd, TypeOK
  <2>5. QED
    BY <2>1, <2>2, <2>3, <2>4 DEF Catcher
<1>3. /\ UNCHANGED <<slow, pending, sent, here, blocked, sigeffect, hasforked, sig, reg, build>>
      /\ \/ pc' \in {pc, "exit"}
         \/ pc = "read" /\ pc' = "sigchk"
         \/ slow /\ pc' = "jumped"
      /\ Alive
  BY DEF Catcher, CatcherEnter, CatcherLoad, CatcherStore, CatcherEnd, CatcherAt, shell
<1>4. caught' \in [Sig -> BOOLEAN]
  BY <1>1 DEF TypeOK, Catcher, CatcherEnter, CatcherLoad, CatcherStore, CatcherEnd
<1>5. TypeOK'
  BY <1>1, <1>2, <1>3, <1>4, ActivationsTyped DEF TypeOK
<1>6. LabelLive'
  BY <1>1, <1>3 DEF LabelLive, Alive
<1>7. QED
  BY <1>2, <1>5, <1>6 DEF IInv

\* The five steps of sigchk.
LEMMA DeliveryStep ==
  ASSUME IInv, Delivery
  PROVE  IInv'
<1>1. TypeOK /\ LabelLive /\ catchers \in Seq(Activations) /\ NSIG \in Nat
  BY SigAssumption DEF IInv
<1>2. /\ caught' \in [Sig -> BOOLEAN] /\ sigcount' \in Nat /\ sig' \in 0 .. NSIG /\ reg' \in Nat
      /\ Alive' => Behind' /\ Found' /\ Exact'
  <2>1. CASE Sigchk
    <3>1. UNCHANGED <<caught, sigcount, reg>> /\ sig' \in {sig, 0}
      BY <2>1 DEF Sigchk, Go
    <3>2. QED
      BY <1>1, <2>1, <3>1, SigchkStep DEF TypeOK
  <2>2. CASE Scan
    <3>1. UNCHANGED <<caught, sigcount, reg>>
      BY <2>2 DEF Scan, Go
    <3>2. QED
      BY <1>1, <2>2, <3>1, ScanStep DEF TypeOK
  <2>3. CASE CountLoad
    <3>1. UNCHANGED caught
      BY <2>3 DEF CountLoad
    <3>2. QED
      BY <1>1, <2>3, <3>1, CountLoadStep DEF TypeOK
  <2>4. CASE CountStore
    <3>1. UNCHANGED <<caught, reg, sig>>
      BY <2>4 DEF CountStore, Go
    <3>2. QED
      BY <1>1, <2>4, <3>1, CountStoreStep DEF TypeOK
  <2>5. CASE Clear
    <3>1. sigcount' = sigcount /\ sig' = 0 /\ reg' = 0
      BY <2>5 DEF Clear
    <3>2. QED
      BY <1>1, <2>5, <3>1, ClearStep DEF TypeOK
  <2>6. QED
    BY <2>1, <2>2, <2>3, <2>4, <2>5 DEF Delivery
<1>3. /\ UNCHANGED <<slow, blocked, sigeffect, hasforked, here, build, catchers, pending, sent>>
      /\ pc \in {"run", "sigchk", "scan", "count", "store", "clear"}
      /\ pc' \in {"run", "exit", "scan", "count", "store", "clear"}
  BY DEF Delivery, Sigchk, Scan, CountLoad, CountStore, Clear, At, Go, Interrupts
<1>4. TypeOK'
  BY <1>1, <1>2, <1>3 DEF TypeOK
<1>5. LabelLive'
  BY <1>1, <1>3 DEF LabelLive, Alive
<1>6. QED
  BY <1>1, <1>2, <1>3, <1>4, <1>5 DEF IInv

\* Every step keeps the invariant.
LEMMA InvNext == IInv /\ [Next]_vars => IInv'
<1>. SUFFICES ASSUME IInv, [Next]_vars PROVE IInv'
  OBVIOUS
<1>1. CASE Kernel
  BY <1>1, KernelStep DEF Kernel
<1>2. CASE Catcher
  BY <1>2, CatcherStep
<1>3. CASE Delivery
  BY <1>3, DeliveryStep
<1>4. CASE Shell
  BY <1>4, ShellQuiet, ShellTyped DEF IInv
<1>5. CASE UNCHANGED vars
  <2>1. /\ UNCHANGED <<caught, sigcount, slow, catchers, pending, sent, here>>
        /\ UNCHANGED <<build, blocked, sigeffect, hasforked, pc, sig, reg>>
    BY <1>5 DEF vars, shell
  <2>2. TypeOK'
    BY <2>1 DEF IInv, TypeOK
  <2>3. LabelLive' /\ Alive' = Alive
    BY <2>1 DEF IInv, LabelLive, Alive
  <2>4. Uncounted' = Uncounted /\ InClear' = InClear /\ NotedCount' = NotedCount
    BY <2>1 DEF Uncounted, InClear, NotedCount, Noted
  <2>5. Alive => Behind' /\ Found' /\ Exact'
    BY <2>1, <2>4 DEF IInv, Behind, Found, Exact
  <2>6. QED
    BY <2>1, <2>2, <2>3, <2>5 DEF IInv
<1>6. QED
  BY <1>1, <1>2, <1>3, <1>4, <1>5 DEF Next, Ended

-----------------------------------------------------------------------------
(* The theorems. *)

\* The invariant holds in every state.
LEMMA InvAlways == Spec => []IInv
<1>1. QED
  BY InvInit, InvNext, PTL DEF Spec

\* Every variable stays in its type: sigcount, which catchers and sigchk load and
\* store behind each other's back, never falls below zero.
THEOREM Typed == Spec => []TypeOK
<1>1. IInv => TypeOK
  BY DEF IInv
<1>2. QED
  BY <1>1, InvAlways, PTL

\* In every build, sigchk's loop finds a signal in caught before its index leaves
\* the array.
THEOREM ScanStaysInBounds == Spec => []ScanInBounds
<1>1. IInv => ScanInBounds
  <2>. SUFFICES ASSUME IInv, pc = "scan" PROVE sig < NSIG
    BY DEF ScanInBounds
  <2>1. Found /\ sig \in 0 .. NSIG /\ NSIG \in Nat
    BY SigAssumption DEF IInv, TypeOK, Alive
  <2>2. PICK s \in Sig : sig <= s
    BY <2>1 DEF Found
  <2>3. QED
    BY <2>1, <2>2 DEF Sig
<1>2. QED
  BY <1>1, InvAlways, PTL

\* catcher jumps only to the frame of a callreadline that has not returned.
THEOREM LabelAlwaysLive == Spec => []LabelLive
<1>1. IInv => LabelLive
  BY DEF IInv
<1>2. QED
  BY <1>1, InvAlways, PTL

\* Where ++ and -- are one access and lines are not read with readline, sigcount is
\* the number of signals noted whenever the shell works and no catcher runs.
THEOREM CountIsExact == Spec => []Counted
<1>1. IInv => Counted
  <2>. SUFFICES ASSUME IInv, build.atomic, ~build.readline, At("run"), sigcount = 0, NEW s \in Sig
                PROVE  ~caught[s]
    BY DEF Counted, NotedAreCounted
  <2>1. Uncounted = 0 /\ InClear = 0 /\ Exact
    BY AtAlone DEF InClear
  <2>2. NotedCount = 0
    BY <2>1 DEF Exact
  <2>3. Noted = {}
    BY <2>2, NotedFinite, FS_EmptySet DEF NotedCount
  <2>4. QED
    BY <2>3 DEF Noted
<1>2. QED
  BY <1>1, InvAlways, PTL
=============================================================================
