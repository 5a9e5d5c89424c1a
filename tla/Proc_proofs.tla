----------------------------- MODULE Proc_proofs -----------------------------
(***************************************************************************)
(* Proofs about Proc, for every set of process ids, every depth and every  *)
(* kind of program.                                                        *)
(***************************************************************************)
EXTENDS Proc, SequenceTheorems, FiniteSetTheorems, TLAPS

-----------------------------------------------------------------------------
(* Stacks and lists of anything. *)

IsSeq(s) == \E S : s \in Seq(S)

\* A single element.
LEMMA SeqOne ==
  ASSUME NEW e, NEW s, s = <<e>>
  PROVE  IsSeq(s) /\ s # <<>> /\ Len(s) = 1 /\ DOMAIN s = {1} /\ s[1] = e
<1>1. s \in Seq({e}) /\ Len(s) = 1 /\ s[1] = e
  OBVIOUS
<1>2. DOMAIN s = 1 .. 1 /\ s # <<>>
  BY <1>1, LenProperties, EmptySeq
<1>3. \E S : s \in Seq(S)
  BY <1>1
<1>4. QED
  BY <1>1, <1>2, <1>3 DEF IsSeq

\* One element more.
LEMMA SeqPush ==
  ASSUME NEW s, IsSeq(s), NEW e
  PROVE  /\ IsSeq(Append(s, e)) /\ Len(s) \in Nat /\ DOMAIN s = 1 .. Len(s)
         /\ Len(Append(s, e)) = Len(s) + 1 /\ DOMAIN Append(s, e) = 1 .. Len(s) + 1
         /\ Append(s, e)[Len(s) + 1] = e /\ \A i \in 1 .. Len(s) : Append(s, e)[i] = s[i]
<1>1. PICK S : s \in Seq(S)
  BY DEF IsSeq
<1>2. s \in Seq(S \cup {e}) /\ Len(s) \in Nat /\ DOMAIN s = 1 .. Len(s)
  BY <1>1, LenProperties
<1>. DEFINE T == S \cup {e}
<1>3. e \in T /\ s \in Seq(T)
  BY <1>2
<1>. HIDE DEF T
<1>4. Append(s, e) \in Seq(T)
  BY <1>3, AppendProperties
<1>5. IsSeq(Append(s, e))
  BY <1>4 DEF IsSeq
<1>6. /\ Len(Append(s, e)) = Len(s) + 1 /\ DOMAIN Append(s, e) = 1 .. Len(s) + 1
      /\ Append(s, e)[Len(s) + 1] = e /\ \A i \in 1 .. Len(s) : Append(s, e)[i] = s[i]
  BY <1>2, <1>3, <1>4, AppendProperties, LenProperties
<1>7. QED
  BY <1>2, <1>5, <1>6

\* One element more, in front.
LEMMA SeqCons ==
  ASSUME NEW S, NEW s \in Seq(S), NEW e \in S
  PROVE  /\ <<e>> \o s \in Seq(S) /\ Len(<<e>> \o s) = Len(s) + 1
         /\ Len(s) \in Nat /\ DOMAIN s = 1 .. Len(s) /\ DOMAIN (<<e>> \o s) = 1 .. Len(s) + 1
         /\ \A i \in 1 .. Len(s) + 1 : (<<e>> \o s)[i] = IF i = 1 THEN e ELSE s[i - 1]
<1>1. PICK o : o = <<e>>
  OBVIOUS
<1>2. o \in Seq(S) /\ Len(o) = 1 /\ o[1] = e
  BY <1>1
<1>3. /\ o \o s \in Seq(S) /\ Len(o \o s) = Len(o) + Len(s)
      /\ \A i \in 1 .. Len(o) + Len(s) : (o \o s)[i] = IF i <= Len(o) THEN o[i] ELSE s[i - Len(o)]
  BY <1>2, ConcatProperties
<1>4. PICK t : t = o \o s
  OBVIOUS
<1>5. /\ t \in Seq(S) /\ Len(t) = 1 + Len(s)
      /\ \A i \in 1 .. 1 + Len(s) : t[i] = IF i <= 1 THEN o[i] ELSE s[i - 1]
  BY <1>2, <1>3, <1>4, Zenon
<1>6. Len(s) \in Nat /\ DOMAIN s = 1 .. Len(s)
  BY LenProperties
<1>7. Len(t) = Len(s) + 1 /\ \A i \in 1 .. Len(s) + 1 : t[i] = IF i = 1 THEN e ELSE s[i - 1]
  BY <1>2, <1>5, <1>6
<1>8. DOMAIN t = 1 .. Len(s) + 1
  BY <1>5, <1>7, LenProperties
<1>9. QED
  BY <1>1, <1>4, <1>5, <1>6, <1>7, <1>8, Zenon

\* The last element, and the others.
LEMMA SeqPop ==
  ASSUME NEW s, IsSeq(s), s # <<>>
  PROVE  /\ IsSeq(Front(s)) /\ Len(s) \in Nat \ {0} /\ DOMAIN s = 1 .. Len(s)
         /\ Len(Front(s)) = Len(s) - 1 /\ DOMAIN Front(s) = 1 .. Len(s) - 1
         /\ \A i \in 1 .. Len(s) - 1 : Front(s)[i] = s[i]
         /\ Last(s) = s[Len(s)]
<1>1. PICK S : s \in Seq(S)
  BY DEF IsSeq
<1>2. Len(s) \in Nat \ {0} /\ DOMAIN s = 1 .. Len(s) /\ \A i \in 1 .. Len(s) : s[i] \in S
  BY <1>1, EmptySeq, LenProperties, ElementOfSeq
<1>3. Last(s) = s[Len(s)] /\ Front(s) = SubSeq(s, 1, Len(s) - 1)
  BY DEF Last, Front
<1>4. Front(s) = [i \in 1 .. Len(s) - 1 |-> s[i]]
  BY <1>2, <1>3
<1>5. Front(s) \in Seq(S) /\ Len(Front(s)) = Len(s) - 1
  BY <1>2, <1>4
<1>6. QED
  BY <1>2, <1>3, <1>4, <1>5 DEF IsSeq

\* The last element changed.
LEMMA SeqChange ==
  ASSUME NEW s, IsSeq(s), s # <<>>, NEW e
  PROVE  /\ IsSeq(Append(Front(s), e)) /\ Len(s) \in Nat \ {0} /\ DOMAIN s = 1 .. Len(s)
         /\ Len(Append(Front(s), e)) = Len(s) /\ DOMAIN Append(Front(s), e) = DOMAIN s
         /\ Append(Front(s), e)[Len(s)] = e
         /\ \A i \in DOMAIN s \ {Len(s)} : Append(Front(s), e)[i] = s[i]
<1>1. PICK f : f = Front(s)
  OBVIOUS
<1>2. /\ IsSeq(f) /\ Len(s) \in Nat \ {0} /\ DOMAIN s = 1 .. Len(s)
      /\ Len(f) = Len(s) - 1 /\ \A i \in 1 .. Len(s) - 1 : f[i] = s[i]
  BY <1>1, SeqPop
<1>3. PICK t : t = Append(f, e)
  OBVIOUS
<1>4. IsSeq(f)
  BY <1>2
<1>5. /\ IsSeq(Append(f, e)) /\ Len(Append(f, e)) = Len(f) + 1
      /\ DOMAIN Append(f, e) = 1 .. Len(f) + 1
      /\ Append(f, e)[Len(f) + 1] = e
      /\ \A i \in 1 .. Len(f) : Append(f, e)[i] = f[i]
  BY <1>4, SeqPush
<1>6. /\ IsSeq(t) /\ Len(t) = Len(f) + 1 /\ DOMAIN t = 1 .. Len(f) + 1
      /\ t[Len(f) + 1] = e /\ \A i \in 1 .. Len(f) : t[i] = f[i]
  BY <1>3, <1>5, Zenon
<1>7. /\ Len(t) = Len(s) /\ DOMAIN t = DOMAIN s /\ t[Len(s)] = e
      /\ \A i \in DOMAIN s \ {Len(s)} : t[i] = s[i]
  BY <1>2, <1>6
<1>8. QED
  BY <1>1, <1>2, <1>3, <1>6, <1>7, Zenon

-----------------------------------------------------------------------------
(* The list of processes. *)

Entry == [pid : Pids, background : BOOLEAN]

Has(l, e) == \E k \in DOMAIN l : l[k] = e

\* The list has processes of a set only, each once; or all of them.
Once(l, procs) ==
  /\ \A k \in DOMAIN l : l[k].pid \in procs
  /\ \A k, m \in DOMAIN l : l[k].pid = l[m].pid => k = m

All(l, procs) == \A p \in procs : \E k \in DOMAIN l : l[k].pid = p

ListInv ==
  /\ setup \in Setups /\ DOMAIN kids \subseteq Pids /\ proclist \in Seq(Entry)
  /\ Once(proclist, DOMAIN kids)
  /\ ~setup.inherited => All(proclist, DOMAIN kids)

-----------------------------------------------------------------------------
(* Facts about the list. *)

\* efork puts a process in front that is not in the list.
LEMMA ListsNew ==
  ASSUME NEW l \in Seq(Entry), NEW e \in Entry, NEW procs, e.pid \notin procs, Once(l, procs)
  PROVE  /\ <<e>> \o l \in Seq(Entry)
         /\ Once(<<e>> \o l, procs \cup {e.pid})
         /\ All(l, procs) => All(<<e>> \o l, procs \cup {e.pid})
         /\ Has(<<e>> \o l, e)
         /\ \A x : Has(l, x) => Has(<<e>> \o l, x)
<1>. DEFINE t == <<e>> \o l
<1>2. /\ t \in Seq(Entry) /\ Len(l) \in Nat /\ DOMAIN l = 1 .. Len(l) /\ DOMAIN t = 1 .. Len(l) + 1
      /\ \A i \in 1 .. Len(l) + 1 : t[i] = IF i = 1 THEN e ELSE l[i - 1]
  BY SeqCons
<1>. HIDE DEF t
<1>3. t[1] = e /\ \A i \in DOMAIN l : i + 1 \in DOMAIN t /\ t[i + 1] = l[i]
  BY <1>2
<1>4. Has(t, e) /\ \A x : Has(l, x) => Has(t, x)
  BY <1>2, <1>3 DEF Has
<1>5. ASSUME All(l, procs), NEW p \in procs \cup {e.pid} PROVE \E k \in DOMAIN t : t[k].pid = p
  <2>1. CASE p = e.pid
    BY <1>2, <1>3, <2>1
  <2>2. CASE p \in procs
    BY <1>3, <1>5, <2>2 DEF All
  <2>3. QED
    BY <2>1, <2>2
<1>6. \A k \in DOMAIN t : t[k].pid \in procs \cup {e.pid}
  BY <1>2 DEF Once
<1>7. ASSUME NEW k \in DOMAIN t, NEW m \in DOMAIN t, t[k].pid = t[m].pid PROVE k = m
  <2>1. /\ \A i, j \in DOMAIN l : l[i].pid = l[j].pid => i = j
        /\ \A i \in DOMAIN l : l[i].pid # e.pid
    BY DEF Once
  <2>2. k # 1 => k - 1 \in DOMAIN l /\ t[k] = l[k - 1]
    BY <1>2
  <2>3. m # 1 => m - 1 \in DOMAIN l /\ t[m] = l[m - 1]
    BY <1>2
  <2>4. QED
    BY <1>2, <1>3, <1>7, <2>1, <2>2, <2>3
<1>8. QED
  BY <1>2, <1>4, <1>5, <1>6, <1>7 DEF t, Once, All

\* The list without one entry.
LEMMA Without ==
  ASSUME NEW l \in Seq(Entry), NEW k \in DOMAIN l
  PROVE  /\ RemoveAt(l, k) \in Seq(Entry)
         /\ DOMAIN RemoveAt(l, k) = 1 .. Len(l) - 1
         /\ \A i \in 1 .. Len(l) - 1 : RemoveAt(l, k)[i] = IF i < k THEN l[i] ELSE l[i + 1]
<1>1. Len(l) \in Nat /\ DOMAIN l = 1 .. Len(l) /\ \A i \in 1 .. Len(l) : l[i] \in Entry
  BY LenProperties, ElementOfSeq
<1>. DEFINE a == SubSeq(l, 1, k - 1)
            b == SubSeq(l, k + 1, Len(l))
<1>2. a \in Seq(Entry) /\ Len(a) = k - 1 /\ \A i \in 1 .. k - 1 : a[i] = l[i]
  BY <1>1, SubSeqProperties
<1>3. /\ b \in Seq(Entry) /\ Len(b) = Len(l) - k
      /\ \A i \in 1 .. Len(l) - k : b[i] = l[k + i]
  <2>1. k + 1 \in Int /\ Len(l) \in Int /\ \A i \in k + 1 .. Len(l) : l[i] \in Entry
    BY <1>1
  <2>2. /\ b \in Seq(Entry) /\ Len(b) = IF k + 1 <= Len(l) THEN Len(l) - (k + 1) + 1 ELSE 0
        /\ \A i \in 1 .. Len(l) - (k + 1) + 1 : b[i] = l[k + 1 + i - 1]
    BY <2>1, SubSeqProperties
  <2>. HIDE DEF b
  <2>3. Len(b) = Len(l) - k
    BY <1>1, <2>2
  <2>4. ASSUME NEW i \in 1 .. Len(l) - k PROVE b[i] = l[k + i]
    <3>1. i \in 1 .. Len(l) - (k + 1) + 1 /\ k + 1 + i - 1 = k + i
      BY <1>1
    <3>2. QED
      BY <2>2, <3>1
  <2>5. QED
    BY <2>2, <2>3, <2>4
<1>. HIDE DEF a, b
<1>4. /\ a \o b \in Seq(Entry) /\ Len(a \o b) = Len(l) - 1
      /\ \A i \in 1 .. Len(l) - 1 : (a \o b)[i] = IF i <= k - 1 THEN a[i] ELSE b[i - (k - 1)]
  <2>1. /\ a \o b \in Seq(Entry) /\ Len(a \o b) = Len(a) + Len(b)
        /\ \A i \in 1 .. Len(a) + Len(b) : (a \o b)[i] = IF i <= Len(a) THEN a[i] ELSE b[i - Len(a)]
    BY <1>2, <1>3, ConcatProperties
  <2>2. Len(a) + Len(b) = Len(l) - 1
    BY <1>1, <1>2, <1>3
  <2>3. QED
    BY <1>2, <2>1, <2>2
<1>5. DOMAIN (a \o b) = 1 .. Len(l) - 1
  BY <1>4, LenProperties
<1>6. ASSUME NEW i \in 1 .. Len(l) - 1
      PROVE  (a \o b)[i] = IF i < k THEN l[i] ELSE l[i + 1]
  <2>1. CASE i < k
    BY <1>1, <1>2, <1>4, <2>1
  <2>2. CASE ~(i < k)
    <3>1. i - (k - 1) \in 1 .. Len(l) - k /\ k + (i - (k - 1)) = i + 1 /\ ~(i <= k - 1)
      BY <1>1, <2>2
    <3>2. QED
      BY <1>3, <1>4, <2>2, <3>1
  <2>3. QED
    BY <2>1, <2>2
<1>7. QED
  BY <1>4, <1>5, <1>6 DEF RemoveAt, a, b

\* reap takes the process that waitpid returned off the list, and no other.
LEMMA ListsReaped ==
  ASSUME NEW l \in Seq(Entry), NEW k \in DOMAIN l, NEW procs, Once(l, procs)
  PROVE  /\ Once(RemoveAt(l, k), procs \ {l[k].pid})
         /\ All(l, procs) => All(RemoveAt(l, k), procs \ {l[k].pid})
         /\ \A x : Has(l, x) /\ x.pid # l[k].pid => Has(RemoveAt(l, k), x)
<1>. DEFINE t == RemoveAt(l, k)
<1>1. /\ DOMAIN t = 1 .. Len(l) - 1 /\ Len(l) \in Nat /\ DOMAIN l = 1 .. Len(l)
      /\ \A i \in 1 .. Len(l) - 1 : t[i] = IF i < k THEN l[i] ELSE l[i + 1]
  BY Without, LenProperties
<1>. HIDE DEF t
<1>2. ASSUME NEW m \in DOMAIN l, m # k PROVE \E n \in DOMAIN t : t[n] = l[m]
  <2>1. CASE m < k
    <3>1. m \in DOMAIN t /\ t[m] = l[m]
      BY <1>1, <2>1
    <3>2. QED
      BY <3>1
  <2>2. CASE m > k
    <3>1. m - 1 \in DOMAIN t /\ t[m - 1] = l[m]
      BY <1>1, <2>2
    <3>2. QED
      BY <3>1
  <2>3. QED
    BY <1>1, <1>2, <2>1, <2>2
<1>. DEFINE at(i) == IF i < k THEN i ELSE i + 1
<1>3. \A m \in DOMAIN t : at(m) \in DOMAIN l /\ at(m) # k /\ t[m] = l[at(m)]
  BY <1>1
<1>4. \A m, n \in DOMAIN t : at(m) = at(n) => m = n
  BY <1>1
<1>. HIDE DEF at
<1>5. \A m, n \in DOMAIN t : t[m].pid = t[n].pid => m = n
  BY <1>3, <1>4 DEF Once
<1>6. \A m \in DOMAIN t : t[m].pid \in procs \ {l[k].pid}
  BY <1>3 DEF Once
<1>7. All(l, procs) => All(t, procs \ {l[k].pid})
  BY <1>2 DEF All
<1>8. \A x : Has(l, x) /\ x.pid # l[k].pid => Has(t, x)
  BY <1>2 DEF Has
<1>9. QED
  BY <1>5, <1>6, <1>7, <1>8 DEF t, Once

-----------------------------------------------------------------------------
(* The steps. *)

\* The list of one process, and of what was there.
LEMMA EforkStep ==
  ASSUME ListInv, NEW pid \in NewPid, NEW background \in BOOLEAN, NEW reads, UNCHANGED setup,
         Efork(pid, background, reads)
  PROVE  /\ ListInv'
         /\ pid \in Pids \ DOMAIN kids /\ DOMAIN kids' = DOMAIN kids \cup {pid}
         /\ kids'[pid].job = Job /\ \A q \in DOMAIN kids : kids'[q] = kids[q]
         /\ Has(proclist', [pid |-> pid, background |-> background])
         /\ \A x : Has(proclist, x) => Has(proclist', x)
<1>1. pid \in Pids \ DOMAIN kids
  BY SetupAssumption DEF NewPid, ListInv, Setup
<1>2. /\ DOMAIN kids' = DOMAIN kids \cup {pid}
      /\ kids'[pid].job = Job /\ \A q \in DOMAIN kids : kids'[q] = kids[q]
  BY <1>1 DEF Efork, Put, Kid
<1>3. [pid |-> pid, background |-> background] \in Entry
  BY <1>1 DEF Entry
<1>4. /\ proclist' \in Seq(Entry) /\ Once(proclist', DOMAIN kids \cup {pid})
      /\ All(proclist, DOMAIN kids) => All(proclist', DOMAIN kids \cup {pid})
      /\ Has(proclist', [pid |-> pid, background |-> background])
      /\ \A x : Has(proclist, x) => Has(proclist', x)
  BY <1>1, <1>3, ListsNew DEF Efork, ListInv
<1>5. QED
  BY <1>1, <1>2, <1>4 DEF ListInv

\* Both commands of a pipe.
LEMMA PipeStep ==
  ASSUME ListInv, NEW pid1 \in NewPid, NEW pid2 \in NewPid, Pipe(pid1, pid2)
  PROVE  /\ ListInv'
         /\ pid1 # pid2 /\ {pid1, pid2} \subseteq Pids \ DOMAIN kids
         /\ DOMAIN kids' = DOMAIN kids \cup {pid1, pid2}
         /\ \A q \in DOMAIN kids : kids'[q] = kids[q]
         /\ frames' = Append(frames, Frame("pipe", "wait", <<pid1, pid2>>,
                                           <<kids'[pid1].job, kids'[pid2].job>>))
         /\ Has(proclist', [pid |-> pid1, background |-> FALSE])
         /\ Has(proclist', [pid |-> pid2, background |-> FALSE])
         /\ \A x : Has(proclist, x) => Has(proclist', x)
<1>. DEFINE e1 == [pid |-> pid1, background |-> FALSE]
            e2 == [pid |-> pid2, background |-> FALSE]
<1>1. pid1 \in Pids \ DOMAIN kids /\ pid2 \in Pids \ DOMAIN kids /\ pid1 # pid2 /\ setup' = setup
  BY SetupAssumption DEF NewPid, ListInv, Setup, Pipe
<1>2. /\ DOMAIN kids' = (DOMAIN kids \cup {pid1}) \cup {pid2}
      /\ \A q \in DOMAIN kids : kids'[q] = kids[q]
  BY <1>1 DEF Pipe, Put
<1>3. frames' = Append(frames, Frame("pipe", "wait", <<pid1, pid2>>,
                                     <<kids'[pid1].job, kids'[pid2].job>>))
  <2>. DEFINE job2 == CHOOSE j \in Jobs \ {Job} : j \notin Remembered
  <2>1. /\ kids' = Put(Put(kids, pid1, Kid(Job, FALSE)), pid2, Kid(job2, FALSE))
        /\ frames' = Append(frames, Frame("pipe", "wait", <<pid1, pid2>>, <<Job, job2>>))
    BY DEF Pipe
  <2>. HIDE DEF job2
  <2>2. kids'[pid1].job = Job /\ kids'[pid2].job = job2
    BY <1>1, <2>1 DEF Put, Kid
  <2>3. QED
    BY <2>1, <2>2
<1>4. e1 \in Entry /\ e2 \in Entry /\ e1.pid = pid1 /\ e2.pid = pid2
  BY <1>1 DEF Entry
<1>5. proclist' = <<e2, e1>> \o proclist
  BY DEF Pipe
<1>6. proclist \in Seq(Entry) /\ Once(proclist, DOMAIN kids)
  BY DEF ListInv
<1>. HIDE DEF e1, e2
<1>7. proclist' = <<e2>> \o (<<e1>> \o proclist)
  BY <1>4, <1>5, <1>6
<1>8. /\ <<e1>> \o proclist \in Seq(Entry) /\ Once(<<e1>> \o proclist, DOMAIN kids \cup {pid1})
      /\ All(proclist, DOMAIN kids) => All(<<e1>> \o proclist, DOMAIN kids \cup {pid1})
      /\ Has(<<e1>> \o proclist, e1)
      /\ \A x : Has(proclist, x) => Has(<<e1>> \o proclist, x)
  BY <1>1, <1>4, <1>6, ListsNew
<1>9. /\ proclist' \in Seq(Entry) /\ Once(proclist', (DOMAIN kids \cup {pid1}) \cup {pid2})
      /\ All(<<e1>> \o proclist, DOMAIN kids \cup {pid1})
           => All(proclist', (DOMAIN kids \cup {pid1}) \cup {pid2})
      /\ Has(proclist', e2)
      /\ \A x : Has(<<e1>> \o proclist, x) => Has(proclist', x)
  BY <1>1, <1>4, <1>7, <1>8, ListsNew
<1>10. ListInv'
  BY <1>1, <1>2, <1>8, <1>9 DEF ListInv
<1>11. QED
  BY <1>1, <1>2, <1>3, <1>8, <1>9, <1>10 DEF e1, e2

\* waitpid returns a child, and reap finds it in the list.
LEMMA EwaitStep ==
  ASSUME ListInv, NEW pid \in Pids, Ewait(pid)
  PROVE  /\ ListInv'
         /\ DOMAIN kids' = DOMAIN kids \ {pid} /\ \A q \in DOMAIN kids' : kids'[q] = kids[q]
         /\ \A x : Has(proclist, x) /\ x.pid # pid => Has(proclist', x)
<1>1. /\ DOMAIN kids' = DOMAIN kids \ {pid} /\ \A q \in DOMAIN kids' : kids'[q] = kids[q]
      /\ setup' = setup
  BY DEF Ewait
<1>2. /\ proclist \in Seq(Entry) /\ Once(proclist, DOMAIN kids)
      /\ Len(proclist) \in Nat /\ DOMAIN proclist = 1 .. Len(proclist)
  BY LenProperties DEF ListInv
<1>3. PICK k \in DOMAIN proclist : proclist[k].pid = pid
  BY DEF Ewait, InList
<1>4. \A n \in 1 .. k - 1 : proclist[n].pid # pid
  BY <1>2, <1>3 DEF Once
<1>5. PICK m \in DOMAIN proclist : proclist[m].pid = pid /\ proclist' = RemoveAt(proclist, m)
  BY <1>3, <1>4 DEF Ewait, Unlink
<1>6. /\ proclist' \in Seq(Entry) /\ Once(proclist', DOMAIN kids \ {pid})
      /\ All(proclist, DOMAIN kids) => All(proclist', DOMAIN kids \ {pid})
      /\ \A x : Has(proclist, x) /\ x.pid # pid => Has(proclist', x)
  BY <1>2, <1>5, Without, ListsReaped
<1>7. QED
  BY <1>1, <1>6 DEF ListInv

\* All other steps leave children and list alone, or empty both.
LEMMA ListNext == ListInv /\ [Next]_vars => ListInv'
<1>. SUFFICES ASSUME ListInv, [Next]_vars PROVE ListInv'
  OBVIOUS
<1>1. ASSUME NEW pid \in NewPid, Run(pid) \/ Background(pid) \/ Around(pid) \/ Abandon(pid)
      PROVE  ListInv'
  <2>1. UNCHANGED setup /\ \E background, reads \in BOOLEAN : Efork(pid, background, reads)
    BY <1>1 DEF Run, Background, Around, Abandon
  <2>2. QED
    BY <2>1, EforkStep
<1>2. ASSUME NEW pid1 \in NewPid, NEW pid2 \in NewPid, Pipe(pid1, pid2)
      PROVE  ListInv'
  BY <1>2, PipeStep
<1>3. CASE UNCHANGED <<setup, kids, proclist>>
  BY <1>3 DEF ListInv
<1>4. CASE Child
  <2>1. DOMAIN kids' = {} /\ proclist' = <<>> /\ proclist' \in Seq(Entry) /\ DOMAIN proclist' = {}
    BY <1>4, EmptySeq DEF Child
  <2>2. setup' = setup
    BY <1>4 DEF Child
  <2>3. QED
    BY <2>1, <2>2 DEF ListInv, Once, All
<1>5. CASE ExecShell
  <2>1. proclist' = <<>> /\ proclist' \in Seq(Entry) /\ DOMAIN proclist' = {}
    BY <1>5, EmptySeq DEF ExecShell
  <2>2. setup.inherited /\ UNCHANGED <<setup, kids>>
    BY <1>5 DEF ExecShell
  <2>3. QED
    BY <2>1, <2>2 DEF ListInv, Once
<1>6. ASSUME NEW pid \in Pids, Ewait(pid)
      PROVE  ListInv'
  BY <1>6, EwaitStep
<1>7. ASSUME NEW pid \in Pids, Exit(pid)
      PROVE  ListInv'
  BY <1>7 DEF Exit, ListInv
<1>8. QED
  BY <1>1, <1>2, <1>3, <1>4, <1>5, <1>6, <1>7
     DEF Next, ForkFail, BodyEnd, Wait, Interrupted, EwaitFail, Reap, vars

\* At the start there are no children, and the list is empty.
LEMMA ListInit == Init => ListInv
<1>1. <<>> \in Seq(Entry) /\ DOMAIN <<>> = {}
  BY EmptySeq
<1>2. QED
  BY <1>1 DEF Init, ListInv, Once, All

-----------------------------------------------------------------------------
(* The theorems. *)

\* Unless the shell was started over children that it does not know, its list is the
\* kernel's: reap's assertion holds, and no child is forgotten.
THEOREM ListIsExact == Spec => []ListExact
<1>1. ListInv => ListExact
  BY DEF ListInv, ListExact, Once, All, InList, IsInjective
<1>2. QED
  BY <1>1, ListInit, ListNext, PTL DEF Spec

-----------------------------------------------------------------------------
(* Each construct of the shell waits for the child that it forked, in      *)
(* programs in which commands do not wait for the children of what is      *)
(* around them.                                                            *)

FrameOK(f) ==
  /\ f = [kind |-> f.kind, phase |-> f.phase, pids |-> f.pids, jobs |-> f.jobs, failed |-> f.failed]
  /\ f.kind \in {"one", "around", "pipe", "wait"} /\ f.phase \in {"body", "wait"}
  /\ f.phase = "body" => f.kind = "around"
  /\ IsSeq(f.pids) /\ IsSeq(f.jobs) /\ Len(f.pids) \in Nat \ {0}
  /\ f.kind # "wait" => Len(f.jobs) = Len(f.pids)
  /\ f.kind = "wait" => Len(f.pids) = 1

\* Only the innermost construct may be waiting; or none is, and a command may run.
Shape(fs) ==
  /\ IsSeq(fs)
  /\ \A i \in DOMAIN fs : FrameOK(fs[i]) /\ (i < Len(fs) => fs[i].phase = "body")

Open(fs) == Shape(fs) /\ \A i \in DOMAIN fs : fs[i].phase = "body"

Foreg(p) == [pid |-> p, background |-> FALSE]

\* The pids of a construct, other than $&wait.
Own(f) == IF f.kind = "wait" THEN {} ELSE {f.pids[k] : k \in DOMAIN f.pids}

\* A child that a construct has forked is there, in the foreground.
Forked(ks, l, p, j) == p \in DOMAIN ks /\ ks[p].job = j /\ Has(l, Foreg(p))

\* Each construct has its children, no two the same one, and a $&wait has none of them.
Owned(fs, ks, l) ==
  \A i \in DOMAIN fs :
    /\ fs[i].kind # "wait" =>
         \A k \in DOMAIN fs[i].pids :
           /\ Forked(ks, l, fs[i].pids[k], fs[i].jobs[k])
           /\ \A m \in DOMAIN fs[i].pids : fs[i].pids[m] = fs[i].pids[k] => m = k
    /\ \A j \in DOMAIN fs : i # j => Own(fs[i]) \cap Own(fs[j]) = {}
    /\ fs[i].kind = "wait" =>
         \A j \in DOMAIN fs : \A p \in Own(fs[j]) : fs[i].pids[1] \notin {p, AnyPid}

Children ==
  /\ \A p \in DOMAIN kids : "job" \in DOMAIN kids[p]
  /\ Shape(frames)
  /\ ~setup.waitInside => Owned(frames, kids, proclist)

OwnInv == ListInv /\ Children

-----------------------------------------------------------------------------
(* The constructs. *)

\* The same constructs with the same children, whatever they are doing.
Same(fs, gs) ==
  /\ DOMAIN gs = DOMAIN fs
  /\ \A i \in DOMAIN fs : gs[i].kind = fs[i].kind /\ gs[i].pids = fs[i].pids /\ gs[i].jobs = fs[i].jobs

\* What a construct does is no matter to what it owns.
LEMMA OwnedSame ==
  ASSUME NEW fs, NEW gs, Same(fs, gs), NEW ks, NEW l, Owned(fs, ks, l)
  PROVE  Owned(gs, ks, l)
<1>1. \A i \in DOMAIN fs : Own(gs[i]) = Own(fs[i])
  BY DEF Same, Own
<1>2. QED
  BY <1>1 DEF Same, Owned

\* Children that are there stay, with what the list says of them.
LEMMA OwnedKept ==
  ASSUME NEW fs, NEW ks, NEW l, Owned(fs, ks, l), NEW ks2, NEW l2,
         \A i \in DOMAIN fs : \A p \in Own(fs[i]) : \A j :
            Forked(ks, l, p, j) => Forked(ks2, l2, p, j)
  PROVE  Owned(fs, ks2, l2)
<1>1. ASSUME NEW i \in DOMAIN fs, fs[i].kind # "wait", NEW k \in DOMAIN fs[i].pids
      PROVE  Forked(ks2, l2, fs[i].pids[k], fs[i].jobs[k])
  <2>1. fs[i].pids[k] \in Own(fs[i])
    BY <1>1 DEF Own
  <2>2. Forked(ks, l, fs[i].pids[k], fs[i].jobs[k])
    BY <1>1 DEF Owned
  <2>3. QED
    BY <2>1, <2>2
<1>2. QED
  BY <1>1 DEF Owned

\* Some of the constructs.
LEMMA OwnedPart ==
  ASSUME NEW fs, NEW gs, NEW ks, NEW l, Owned(fs, ks, l),
         DOMAIN gs \subseteq DOMAIN fs, \A i \in DOMAIN gs : gs[i] = fs[i]
  PROVE  Owned(gs, ks, l)
BY DEF Owned

\* A construct that has forked new children.
LEMMA OwnedPush ==
  ASSUME NEW fs, Open(fs), NEW ks, NEW l, Owned(fs, ks, l), NEW f, f.kind # "wait",
         \A k \in DOMAIN f.pids : /\ Forked(ks, l, f.pids[k], f.jobs[k])
                                  /\ \A m \in DOMAIN f.pids : f.pids[m] = f.pids[k] => m = k,
         \A i \in DOMAIN fs : Own(fs[i]) \cap Own(f) = {}
  PROVE  Owned(Append(fs, f), ks, l)
<1>. DEFINE gs == Append(fs, f)
            n == Len(fs) + 1
<1>1. /\ DOMAIN fs = 1 .. Len(fs) /\ Len(fs) \in Nat /\ DOMAIN gs = 1 .. n
      /\ gs[n] = f /\ \A i \in DOMAIN fs : gs[i] = fs[i]
  BY SeqPush DEF Open, Shape
<1>. HIDE DEF gs
<1>2. \A i \in DOMAIN gs : gs[i].kind # "wait"
  BY <1>1 DEF Open, Shape, FrameOK
<1>3. ASSUME NEW i \in DOMAIN gs, NEW j \in DOMAIN gs, i # j
      PROVE  Own(gs[i]) \cap Own(gs[j]) = {}
  <2>1. CASE i = n
    BY <1>1, <1>3, <2>1
  <2>2. CASE j = n
    BY <1>1, <1>3, <2>2
  <2>3. CASE i # n /\ j # n
    BY <1>1, <1>3, <2>3 DEF Owned
  <2>4. QED
    BY <2>1, <2>2, <2>3
<1>4. ASSUME NEW i \in DOMAIN gs, NEW k \in DOMAIN gs[i].pids
      PROVE  /\ Forked(ks, l, gs[i].pids[k], gs[i].jobs[k])
             /\ \A m \in DOMAIN gs[i].pids : gs[i].pids[m] = gs[i].pids[k] => m = k
  <2>1. CASE i = n
    BY <1>1, <1>4, <2>1
  <2>2. CASE i # n
    <3>1. i \in DOMAIN fs /\ gs[i] = fs[i] /\ fs[i].kind # "wait"
      BY <1>1, <1>2, <2>2
    <3>2. QED
      BY <1>4, <3>1 DEF Owned
  <2>3. QED
    BY <2>1, <2>2
<1>5. QED
  BY <1>2, <1>3, <1>4 DEF Owned, gs

\* $&wait, for none of the children of what is around it.
LEMMA OwnedWait ==
  ASSUME NEW fs, Open(fs), NEW ks, NEW l, Owned(fs, ks, l), NEW f, f.kind = "wait",
         \A i \in DOMAIN fs : \A p \in Own(fs[i]) : f.pids[1] \notin {p, AnyPid}
  PROVE  Owned(Append(fs, f), ks, l)
<1>. DEFINE gs == Append(fs, f)
            n == Len(fs) + 1
<1>1. /\ DOMAIN fs = 1 .. Len(fs) /\ Len(fs) \in Nat /\ DOMAIN gs = 1 .. n
      /\ gs[n] = f /\ \A i \in DOMAIN fs : gs[i] = fs[i]
  BY SeqPush DEF Open, Shape
<1>. HIDE DEF gs
<1>2. Own(f) = {} /\ \A i \in DOMAIN fs : fs[i].kind # "wait"
  BY DEF Own, Open, Shape, FrameOK
<1>3. ASSUME NEW i \in DOMAIN gs, NEW j \in DOMAIN gs, i # j
      PROVE  Own(gs[i]) \cap Own(gs[j]) = {}
  <2>1. CASE i = n \/ j = n
    BY <1>1, <1>2, <2>1
  <2>2. CASE i # n /\ j # n
    BY <1>1, <1>3, <2>2 DEF Owned
  <2>3. QED
    BY <2>1, <2>2
<1>4. ASSUME NEW i \in DOMAIN gs, gs[i].kind # "wait", NEW k \in DOMAIN gs[i].pids
      PROVE  /\ Forked(ks, l, gs[i].pids[k], gs[i].jobs[k])
             /\ \A m \in DOMAIN gs[i].pids : gs[i].pids[m] = gs[i].pids[k] => m = k
  <2>1. i \in DOMAIN fs /\ gs[i] = fs[i]
    BY <1>1, <1>4
  <2>2. QED
    BY <1>4, <2>1 DEF Owned
<1>5. ASSUME NEW i \in DOMAIN gs, gs[i].kind = "wait", NEW j \in DOMAIN gs, NEW p \in Own(gs[j])
      PROVE  gs[i].pids[1] \notin {p, AnyPid}
  <2>1. i = n /\ gs[i] = f
    BY <1>1, <1>2, <1>5
  <2>2. j \in DOMAIN fs /\ gs[j] = fs[j]
    BY <1>1, <1>2, <1>5
  <2>3. QED
    BY <1>5, <2>1, <2>2
<1>6. QED
  BY <1>3, <1>4, <1>5 DEF Owned, gs

\* A construct begins, and may be the innermost one whatever it does.
LEMMA ShapePush ==
  ASSUME NEW fs, Open(fs), NEW f, FrameOK(f)
  PROVE  Shape(Append(fs, f))
<1>. DEFINE gs == Append(fs, f)
<1>1. /\ IsSeq(gs) /\ Len(fs) \in Nat /\ Len(gs) = Len(fs) + 1 /\ DOMAIN gs = 1 .. Len(fs) + 1
      /\ gs[Len(fs) + 1] = f /\ DOMAIN fs = 1 .. Len(fs) /\ \A i \in 1 .. Len(fs) : gs[i] = fs[i]
  BY SeqPush DEF Open, Shape
<1>. HIDE DEF gs
<1>2. ASSUME NEW i \in DOMAIN gs PROVE FrameOK(gs[i]) /\ (i < Len(gs) => gs[i].phase = "body")
  <2>1. CASE i = Len(fs) + 1
    BY <1>1, <2>1
  <2>2. CASE i # Len(fs) + 1
    <3>1. i \in DOMAIN fs /\ gs[i] = fs[i]
      BY <1>1, <2>2
    <3>2. QED
      BY <3>1 DEF Open, Shape
  <2>3. QED
    BY <2>1, <2>2
<1>3. QED
  BY <1>1, <1>2 DEF Shape, gs

\* The innermost construct goes on.
LEMMA ShapeChange ==
  ASSUME NEW fs, Shape(fs), fs # <<>>, NEW f, FrameOK(f)
  PROVE  Shape(Append(Front(fs), f))
<1>. DEFINE gs == Append(Front(fs), f)
<1>1. /\ IsSeq(gs) /\ Len(fs) \in Nat /\ Len(gs) = Len(fs) /\ DOMAIN gs = DOMAIN fs
      /\ DOMAIN fs = 1 .. Len(fs)
      /\ gs[Len(fs)] = f /\ \A i \in DOMAIN fs \ {Len(fs)} : gs[i] = fs[i]
  BY SeqChange DEF Shape
<1>. HIDE DEF gs
<1>2. ASSUME NEW i \in DOMAIN gs PROVE FrameOK(gs[i]) /\ (i < Len(gs) => gs[i].phase = "body")
  <2>1. CASE i = Len(fs)
    BY <1>1, <2>1
  <2>2. CASE i # Len(fs)
    BY <1>1, <2>2 DEF Shape
  <2>3. QED
    BY <2>1, <2>2
<1>3. QED
  BY <1>1, <1>2 DEF Shape, gs

\* It ends, and what is around it goes on.
LEMMA OpenPop ==
  ASSUME NEW fs, Shape(fs), fs # <<>>
  PROVE  Open(Front(fs))
<1>1. /\ IsSeq(Front(fs)) /\ Len(fs) \in Nat \ {0} /\ DOMAIN fs = 1 .. Len(fs)
      /\ Len(Front(fs)) = Len(fs) - 1 /\ DOMAIN Front(fs) = 1 .. Len(fs) - 1
      /\ \A i \in 1 .. Len(fs) - 1 : Front(fs)[i] = fs[i]
  BY SeqPop DEF Shape
<1>2. \A i \in DOMAIN Front(fs) :
        i \in DOMAIN fs /\ i < Len(fs) /\ Front(fs)[i] = fs[i] /\ FrameOK(fs[i]) /\ fs[i].phase = "body"
  BY <1>1 DEF Shape
<1>3. QED
  BY <1>1, <1>2 DEF Open, Shape

\* Where commands run, every construct waits for its body.
LEMMA OpenRunning ==
  ASSUME Shape(frames), Running
  PROVE  Open(frames)
<1>1. CASE frames = <<>>
  <2>1. DOMAIN frames = {}
    BY <1>1
  <2>2. QED
    BY <2>1 DEF Open
<1>2. CASE frames # <<>>
  <2>1. frames[Len(frames)].phase = "body" /\ Len(frames) \in Nat /\ DOMAIN frames = 1 .. Len(frames)
    BY <1>2, SeqPop DEF Running, Top, Shape
  <2>2. \A i \in DOMAIN frames : i < Len(frames) \/ i = Len(frames)
    BY <2>1
  <2>3. QED
    BY <2>1, <2>2 DEF Open, Shape
<1>3. QED
  BY <1>1, <1>2

\* The innermost construct does something else, with the same children.
LEMMA Rephased ==
  ASSUME NEW fs, Shape(fs), fs # <<>>, NEW failed,
         NEW f, f = [Last(fs) EXCEPT !.phase = "wait", !.failed = failed]
  PROVE  Shape(Append(Front(fs), f)) /\ Same(fs, Append(Front(fs), f))
<1>1. PICK e : e = Last(fs)
  OBVIOUS
<1>2. /\ e = fs[Len(fs)] /\ Len(fs) \in DOMAIN fs
  BY <1>1, SeqPop DEF Shape
<1>3. FrameOK(e)
  BY <1>2 DEF Shape
<1>4. f = [e EXCEPT !.phase = "wait", !.failed = failed]
  BY <1>1
<1>5. /\ DOMAIN e = {"kind", "phase", "pids", "jobs", "failed"}
      /\ DOMAIN f = {"kind", "phase", "pids", "jobs", "failed"}
      /\ f.kind = e.kind /\ f.pids = e.pids /\ f.jobs = e.jobs
      /\ f.phase = "wait"
      /\ f = [kind |-> f.kind, phase |-> f.phase, pids |-> f.pids, jobs |-> f.jobs, failed |-> f.failed]
  BY <1>3, <1>4 DEF FrameOK
<1>6. FrameOK(f)
  BY <1>3, <1>5 DEF FrameOK
<1>7. Shape(Append(Front(fs), f))
  BY <1>6, ShapeChange
<1>8. /\ DOMAIN Append(Front(fs), f) = DOMAIN fs /\ Append(Front(fs), f)[Len(fs)] = f
      /\ \A i \in DOMAIN fs \ {Len(fs)} : Append(Front(fs), f)[i] = fs[i]
  BY SeqChange DEF Shape
<1>9. QED
  BY <1>2, <1>5, <1>7, <1>8 DEF Same

\* An exception goes on, or is held up by the innermost construct.
LEMMA ThrownOK ==
  ASSUME NEW fs, Open(fs), NEW gs \in Thrown(fs)
  PROVE  Shape(gs) /\ Same(fs, gs)
<1>1. CASE gs = fs
  BY <1>1 DEF Open, Same
<1>2. CASE fs # <<>> /\ gs = Append(Front(fs), [Last(fs) EXCEPT !.phase = "wait", !.failed = TRUE])
  BY <1>2, Rephased DEF Open
<1>3. QED
  BY <1>1, <1>2 DEF Thrown


\* The children of a construct, in the kernel and in the list.
LEMMA OwnThere ==
  ASSUME NEW fs, NEW ks, NEW l, Owned(fs, ks, l), NEW i \in DOMAIN fs, NEW p \in Own(fs[i])
  PROVE  p \in DOMAIN ks /\ Has(l, Foreg(p))
<1>1. fs[i].kind # "wait" /\ \E k \in DOMAIN fs[i].pids : fs[i].pids[k] = p
  BY DEF Own
<1>2. QED
  BY <1>1 DEF Owned, Forked

-----------------------------------------------------------------------------
(* The steps. *)

\* What was there before a fork is there after it.
LEMMA OwnedForked ==
  ASSUME Owned(frames, kids, proclist),
         DOMAIN kids \subseteq DOMAIN kids', \A q \in DOMAIN kids : kids'[q] = kids[q],
         \A x : Has(proclist, x) => Has(proclist', x)
  PROVE  Owned(frames, kids', proclist')
<1>1. \A p, j : Forked(kids, proclist, p, j) => Forked(kids', proclist', p, j)
  BY DEF Forked
<1>2. QED
  BY <1>1, OwnedKept

\* %run, fork and so on, and the constructs that run a command.
LEMMA RunStep ==
  ASSUME OwnInv, NEW pid \in NewPid, Run(pid) \/ Around(pid)
  PROVE  Children'
<1>1. setup' = setup /\ Running /\ \E reads \in BOOLEAN : Efork(pid, FALSE, reads)
  BY DEF Run, Around
<1>2. /\ pid \in Pids \ DOMAIN kids /\ DOMAIN kids' = DOMAIN kids \cup {pid}
      /\ kids'[pid].job = Job /\ \A q \in DOMAIN kids : kids'[q] = kids[q]
      /\ Has(proclist', Foreg(pid))
      /\ \A x : Has(proclist, x) => Has(proclist', x)
  BY <1>1, EforkStep DEF OwnInv, Foreg
<1>3. "job" \in DOMAIN kids'[pid]
  BY <1>1 DEF Efork, Put, Kid
<1>4. PICK f : /\ frames' = Append(frames, f) /\ f.kind # "wait" /\ FrameOK(f)
               /\ f.pids = <<pid>> /\ f.jobs = <<Job>>
  <2>1. IsSeq(<<pid>>) /\ IsSeq(<<Job>>)
    <3>1. <<pid>> \in Seq({pid}) /\ <<Job>> \in Seq({Job})
      OBVIOUS
    <3>2. QED
      BY <3>1 DEF IsSeq
  <2>2. \A k \in {"one", "around"}, w \in {"body", "wait"} :
          (w = "body" => k = "around") => FrameOK(Frame(k, w, <<pid>>, <<Job>>))
    BY <2>1 DEF FrameOK, Frame
  <2>3. \A k \in {"one", "around"}, w \in {"body", "wait"} :
          /\ Frame(k, w, <<pid>>, <<Job>>).kind = k
          /\ Frame(k, w, <<pid>>, <<Job>>).pids = <<pid>>
          /\ Frame(k, w, <<pid>>, <<Job>>).jobs = <<Job>>
    BY DEF Frame
  <2>4. CASE Run(pid)
    <3>1. frames' = Append(frames, Frame("one", "wait", <<pid>>, <<Job>>))
      BY <2>4 DEF Run
    <3>2. QED
      BY <2>2, <2>3, <3>1
  <2>5. CASE Around(pid)
    <3>1. frames' = Append(frames, Frame("around", "body", <<pid>>, <<Job>>))
      BY <2>5 DEF Around
    <3>2. QED
      BY <2>2, <2>3, <3>1
  <2>6. QED
    BY <2>4, <2>5
<1>5. Open(frames)
  BY <1>1, OpenRunning DEF OwnInv, Children
<1>6. Shape(frames')
  BY <1>4, <1>5, ShapePush
<1>7. ASSUME ~setup.waitInside
      PROVE  Owned(frames', kids', proclist')
  <2>1. Owned(frames, kids, proclist)
    BY <1>7 DEF OwnInv, Children
  <2>2. Owned(frames, kids', proclist')
    BY <1>2, <2>1, OwnedForked
  <2>3. \A i \in DOMAIN frames : Own(frames[i]) \cap Own(f) = {}
    <3>1. Own(f) = {pid}
      BY <1>4 DEF Own
    <3>2. QED
      BY <1>2, <2>1, <3>1, OwnThere
  <2>4. \A k \in DOMAIN f.pids : /\ Forked(kids', proclist', f.pids[k], f.jobs[k])
                                 /\ \A m \in DOMAIN f.pids : f.pids[m] = f.pids[k] => m = k
    BY <1>2, <1>4 DEF Forked
  <2>5. QED
    BY <1>4, <1>5, <2>2, <2>3, <2>4, OwnedPush
<1>8. QED
  BY <1>1, <1>2, <1>3, <1>6, <1>7 DEF OwnInv, Children

\* A job in the background, which nothing waits for.
LEMMA BackgroundStep ==
  ASSUME OwnInv, NEW pid \in NewPid, Background(pid)
  PROVE  Children'
<1>1. UNCHANGED <<setup, frames>> /\ Efork(pid, TRUE, FALSE)
  BY DEF Background
<1>2. /\ DOMAIN kids' = DOMAIN kids \cup {pid} /\ \A q \in DOMAIN kids : kids'[q] = kids[q]
      /\ \A x : Has(proclist, x) => Has(proclist', x)
  BY <1>1, EforkStep DEF OwnInv
<1>3. "job" \in DOMAIN kids'[pid]
  BY <1>1 DEF Efork, Put, Kid
<1>4. ~setup.waitInside => Owned(frames, kids', proclist')
  BY <1>2, OwnedForked DEF OwnInv, Children
<1>5. QED
  BY <1>1, <1>2, <1>3, <1>4 DEF OwnInv, Children

\* A construct that is left before its wait leaves a child behind.
LEMMA AbandonStep ==
  ASSUME OwnInv, NEW pid \in NewPid, Abandon(pid)
  PROVE  Children'
<1>1. setup' = setup /\ Running /\ Efork(pid, FALSE, FALSE) /\ frames' \in Thrown(frames)
  BY DEF Abandon, Throw
<1>2. /\ DOMAIN kids' = DOMAIN kids \cup {pid} /\ \A q \in DOMAIN kids : kids'[q] = kids[q]
      /\ \A x : Has(proclist, x) => Has(proclist', x)
  BY <1>1, EforkStep DEF OwnInv
<1>3. "job" \in DOMAIN kids'[pid]
  BY <1>1 DEF Efork, Put, Kid
<1>4. Shape(frames') /\ Same(frames, frames')
  BY <1>1, OpenRunning, ThrownOK DEF OwnInv, Children
<1>5. ~setup.waitInside => Owned(frames', kids', proclist')
  BY <1>2, <1>4, OwnedForked, OwnedSame DEF OwnInv, Children
<1>6. QED
  BY <1>1, <1>2, <1>3, <1>4, <1>5 DEF OwnInv, Children

\* Both commands of a pipe.
LEMMA PipedStep ==
  ASSUME OwnInv, NEW pid1 \in NewPid, NEW pid2 \in NewPid, Pipe(pid1, pid2)
  PROVE  Children'
<1>. DEFINE j1 == kids'[pid1].job
            j2 == kids'[pid2].job
            f  == Frame("pipe", "wait", <<pid1, pid2>>, <<j1, j2>>)
<1>1. /\ pid1 # pid2 /\ {pid1, pid2} \subseteq Pids \ DOMAIN kids
      /\ DOMAIN kids' = DOMAIN kids \cup {pid1, pid2}
      /\ \A q \in DOMAIN kids : kids'[q] = kids[q]
      /\ frames' = Append(frames, f)
      /\ Has(proclist', Foreg(pid1)) /\ Has(proclist', Foreg(pid2))
      /\ \A x : Has(proclist, x) => Has(proclist', x)
  BY PipeStep DEF OwnInv, Foreg
<1>2. "job" \in DOMAIN kids'[pid1] /\ "job" \in DOMAIN kids'[pid2]
  BY <1>1 DEF Pipe, Put, Kid
<1>3. /\ f.kind = "pipe" /\ f.phase = "wait" /\ f.pids = <<pid1, pid2>> /\ f.jobs = <<j1, j2>>
      /\ f = [kind |-> f.kind, phase |-> f.phase, pids |-> f.pids, jobs |-> f.jobs,
              failed |-> f.failed]
  BY DEF Frame
<1>. HIDE DEF j1, j2, f
<1>4. FrameOK(f)
  <2>1. <<pid1, pid2>> \in Seq({pid1, pid2}) /\ <<j1, j2>> \in Seq({j1, j2})
    OBVIOUS
  <2>2. Len(<<pid1, pid2>>) = 2 /\ Len(<<j1, j2>>) = 2
    OBVIOUS
  <2>3. IsSeq(f.pids) /\ IsSeq(f.jobs)
    BY <1>3, <2>1 DEF IsSeq
  <2>4. QED
    BY <1>3, <2>2, <2>3 DEF FrameOK
<1>5. setup' = setup /\ Open(frames)
  BY OpenRunning DEF OwnInv, Children, Pipe
<1>6. Shape(frames')
  BY <1>1, <1>4, <1>5, ShapePush
<1>7. ASSUME ~setup.waitInside
      PROVE  Owned(frames', kids', proclist')
  <2>1. Owned(frames, kids, proclist)
    BY <1>7 DEF OwnInv, Children
  <2>2. Owned(frames, kids', proclist')
    BY <1>1, <2>1, OwnedForked
  <2>3. \A i \in DOMAIN frames : Own(frames[i]) \cap Own(f) = {}
    <3>1. Own(f) \subseteq {pid1, pid2}
      BY <1>3 DEF Own
    <3>2. QED
      BY <1>1, <2>1, <3>1, OwnThere
  <2>4. Forked(kids', proclist', pid1, j1) /\ Forked(kids', proclist', pid2, j2)
    BY <1>1 DEF Forked, j1, j2
  <2>5. \A k \in DOMAIN f.pids : /\ Forked(kids', proclist', f.pids[k], f.jobs[k])
                                 /\ \A m \in DOMAIN f.pids : f.pids[m] = f.pids[k] => m = k
    <3>1. DOMAIN f.pids = 1 .. 2 /\ f.pids[1] = pid1 /\ f.pids[2] = pid2
          /\ f.jobs[1] = j1 /\ f.jobs[2] = j2
      BY <1>3
    <3>2. QED
      BY <1>1, <2>4, <3>1
  <2>6. f.kind # "wait"
    BY <1>3
  <2>7. QED
    BY <1>1, <1>5, <2>2, <2>3, <2>5, <2>6, OwnedPush
<1>8. QED
  BY <1>1, <1>2, <1>5, <1>6, <1>7 DEF OwnInv, Children

\* A command that fails before it has forked anything, or ends inside of a construct.
LEMMA RephaseStep ==
  ASSUME OwnInv, ForkFail \/ BodyEnd
  PROVE  Children'
<1>1. UNCHANGED <<setup, kids, proclist>>
  BY DEF ForkFail, BodyEnd
<1>2. Shape(frames') /\ Same(frames, frames')
  <2>1. CASE ForkFail
    BY <2>1, OpenRunning, ThrownOK DEF OwnInv, Children, ForkFail, Throw
  <2>2. CASE BodyEnd
    <3>1. /\ frames # <<>>
          /\ \E failed \in BOOLEAN :
               frames' = Append(Front(frames), [Last(frames) EXCEPT !.phase = "wait", !.failed = failed])
      BY <2>2 DEF BodyEnd, Top
    <3>2. QED
      BY <3>1, Rephased DEF OwnInv, Children
  <2>3. QED
    BY <2>1, <2>2
<1>3. QED
  BY <1>1, <1>2, OwnedSame DEF OwnInv, Children

\* $&wait, where it may only wait for what runs in the background.
LEMMA WaitStep ==
  ASSUME OwnInv, NEW pid \in Pids \cup {AnyPid}, Wait(pid)
  PROVE  Children'
<1>. DEFINE f == Frame("wait", "wait", <<pid>>, <<>>)
<1>1. UNCHANGED <<setup, kids, proclist>> /\ Running /\ frames' = Append(frames, f)
  BY DEF Wait
<1>2. /\ f.kind = "wait" /\ f.phase = "wait" /\ f.pids = <<pid>> /\ f.jobs = <<>>
      /\ f = [kind |-> f.kind, phase |-> f.phase, pids |-> f.pids, jobs |-> f.jobs,
              failed |-> f.failed]
  BY DEF Frame
<1>. HIDE DEF f
<1>3. FrameOK(f)
  <2>1. <<pid>> \in Seq({pid}) /\ <<>> \in Seq({pid}) /\ Len(<<pid>>) = 1
    BY EmptySeq
  <2>2. IsSeq(f.pids) /\ IsSeq(f.jobs)
    BY <1>2, <2>1 DEF IsSeq
  <2>3. QED
    BY <1>2, <2>1, <2>2 DEF FrameOK
<1>4. Open(frames)
  BY <1>1, OpenRunning DEF OwnInv, Children
<1>5. Shape(frames')
  BY <1>1, <1>3, <1>4, ShapePush
<1>6. ASSUME ~setup.waitInside
      PROVE  Owned(frames', kids', proclist')
  <2>1. Owned(frames, kids, proclist)
    BY <1>6 DEF OwnInv, Children
  <2>2. ASSUME NEW i \in DOMAIN frames, NEW p \in Own(frames[i])
        PROVE  pid # p /\ pid # AnyPid
    <3>1. pid # AnyPid
      <4>1. frames # <<>>
        BY DEF Own
      <4>2. QED
        BY <1>6, <4>1 DEF Wait
    <3>2. \A k \in DOMAIN proclist : proclist[k].pid = pid => proclist[k].background
      BY <1>6, <3>1 DEF Wait
    <3>3. Has(proclist, Foreg(p))
      BY <2>1, OwnThere
    <3>4. QED
      BY <3>1, <3>2, <3>3 DEF Has, Foreg
  <2>3. f.pids[1] = pid
    BY <1>2
  <2>4. QED
    BY <1>1, <1>2, <1>4, <2>1, <2>2, <2>3, OwnedWait
<1>7. QED
  BY <1>1, <1>5, <1>6 DEF OwnInv, Children

\* The innermost construct gives up.
LEMMA GiveUpStep ==
  ASSUME OwnInv, Interrupted \/ EwaitFail
  PROVE  Children'
<1>1. /\ UNCHANGED <<setup, kids, proclist>>
      /\ frames # <<>> /\ frames' \in Thrown(Front(frames))
  BY DEF Interrupted, EwaitFail, Throw
<1>2. Open(Front(frames))
  BY <1>1, OpenPop DEF OwnInv, Children
<1>3. Shape(frames') /\ Same(Front(frames), frames')
  BY <1>1, <1>2, ThrownOK
<1>4. DOMAIN Front(frames) \subseteq DOMAIN frames
      /\ \A i \in DOMAIN Front(frames) : Front(frames)[i] = frames[i]
  <2>1. PICK s : s = Front(frames)
    OBVIOUS
  <2>2. /\ Len(frames) \in Nat \ {0} /\ DOMAIN frames = 1 .. Len(frames)
        /\ DOMAIN s = 1 .. Len(frames) - 1
        /\ \A i \in 1 .. Len(frames) - 1 : s[i] = frames[i]
    BY <1>1, <2>1, SeqPop DEF OwnInv, Children, Shape
  <2>3. DOMAIN s \subseteq DOMAIN frames /\ \A i \in DOMAIN s : s[i] = frames[i]
    BY <2>2
  <2>4. QED
    BY <2>1, <2>3
<1>5. ~setup.waitInside => Owned(frames', kids, proclist)
  BY <1>3, <1>4, OwnedPart, OwnedSame DEF OwnInv, Children
<1>6. QED
  BY <1>1, <1>3, <1>5 DEF OwnInv, Children

\* A construct is done with its last child.
Less(e) ==
  [e EXCEPT !.pids = Front(e.pids), !.jobs = IF e.jobs = <<>> THEN e.jobs ELSE Front(e.jobs)]

\* The positions before the last one.
LEMMA UpToLast ==
  ASSUME NEW n \in Nat
  PROVE  (1 .. n) \ {n} = 1 .. n - 1
OBVIOUS

\* It keeps the others, in their places.
LEMMA LeftOK ==
  ASSUME NEW e, FrameOK(e), Front(e.pids) # <<>>
  PROVE  /\ FrameOK(Less(e)) /\ Less(e).kind # "wait" /\ Less(e).kind = e.kind
         /\ DOMAIN Less(e).pids = DOMAIN e.pids \ {Len(e.pids)}
         /\ \A k \in DOMAIN Less(e).pids : Less(e).pids[k] = e.pids[k] /\ Less(e).jobs[k] = e.jobs[k]
<1>. DEFINE f == Less(e)
<1>1. /\ IsSeq(e.pids) /\ IsSeq(e.jobs) /\ Len(e.pids) \in Nat \ {0}
      /\ e.kind # "wait" => Len(e.jobs) = Len(e.pids)
      /\ e.kind = "wait" => Len(e.pids) = 1
  BY DEF FrameOK
<1>2. e.pids # <<>>
  BY <1>1
<1>3. /\ IsSeq(Front(e.pids)) /\ DOMAIN e.pids = 1 .. Len(e.pids)
      /\ Len(Front(e.pids)) = Len(e.pids) - 1 /\ DOMAIN Front(e.pids) = 1 .. Len(e.pids) - 1
      /\ \A i \in 1 .. Len(e.pids) - 1 : Front(e.pids)[i] = e.pids[i]
  BY <1>1, <1>2, SeqPop
<1>4. Len(e.pids) # 1
  <2>1. PICK S : Front(e.pids) \in Seq(S)
    BY <1>3 DEF IsSeq
  <2>2. Len(Front(e.pids)) # 0
    BY <2>1, EmptySeq
  <2>3. QED
    BY <1>1, <1>3, <2>2
<1>5. e.kind # "wait" /\ Len(e.jobs) = Len(e.pids) /\ e.jobs # <<>>
  BY <1>1, <1>4
<1>6. /\ IsSeq(Front(e.jobs)) /\ Len(Front(e.jobs)) = Len(e.pids) - 1
      /\ \A i \in 1 .. Len(e.pids) - 1 : Front(e.jobs)[i] = e.jobs[i]
  BY <1>1, <1>5, SeqPop
<1>7. f = [e EXCEPT !.pids = Front(e.pids), !.jobs = Front(e.jobs)]
  BY <1>5 DEF Less
<1>. HIDE DEF f
<1>8. /\ f.kind = e.kind /\ f.phase = e.phase /\ f.pids = Front(e.pids) /\ f.jobs = Front(e.jobs)
      /\ f = [kind |-> f.kind, phase |-> f.phase, pids |-> f.pids, jobs |-> f.jobs,
              failed |-> f.failed]
  BY <1>7 DEF FrameOK
<1>9. FrameOK(f)
  <2>1. Len(e.pids) - 1 \in Nat \ {0}
    BY <1>1, <1>4
  <2>2. e.kind \in {"one", "around", "pipe", "wait"} /\ e.phase \in {"body", "wait"}
        /\ (e.phase = "body" => e.kind = "around")
    BY DEF FrameOK
  <2>3. QED
    BY <1>3, <1>5, <1>6, <1>8, <2>1, <2>2 DEF FrameOK
<1>10. DOMAIN f.pids = 1 .. Len(e.pids) - 1
  BY <1>3, <1>8
<1>11. DOMAIN f.pids = DOMAIN e.pids \ {Len(e.pids)}
  BY <1>1, <1>3, <1>10, UpToLast, Zenon
<1>12. \A k \in DOMAIN f.pids : f.pids[k] = e.pids[k] /\ f.jobs[k] = e.jobs[k]
  BY <1>3, <1>6, <1>8, <1>10
<1>13. QED
  BY <1>5, <1>8, <1>9, <1>11, <1>12 DEF f

\* waitpid returns the last child of the innermost construct, or one that $&wait may take.
LEMMA EwaitOK ==
  ASSUME OwnInv, NEW pid \in Pids, Ewait(pid)
  PROVE  Children'
<1>. DEFINE n == Len(frames)
            rest == Front(frames)
<1>1. /\ setup' = setup /\ frames # <<>> /\ Last(Top.pids) \in {pid, AnyPid} /\ frames' \in After
  BY DEF Ewait, Collected
<1>2. /\ Shape(frames) /\ DOMAIN frames = 1 .. n /\ n \in Nat \ {0} /\ Top = frames[n]
      /\ DOMAIN rest = 1 .. n - 1 /\ \A i \in DOMAIN rest : rest[i] = frames[i]
      /\ Open(rest)
  BY <1>1, SeqPop, OpenPop DEF OwnInv, Children, Shape, Top
<1>3. FrameOK(Top)
  BY <1>2 DEF Shape
<1>4. /\ DOMAIN Top.pids = 1 .. Len(Top.pids) /\ Len(Top.pids) \in Nat \ {0}
      /\ Last(Top.pids) = Top.pids[Len(Top.pids)]
  <2>1. IsSeq(Top.pids) /\ Top.pids # <<>>
    BY <1>3 DEF FrameOK
  <2>2. QED
    BY <2>1, SeqPop
<1>5. /\ DOMAIN kids' = DOMAIN kids \ {pid} /\ \A q \in DOMAIN kids' : kids'[q] = kids[q]
      /\ \A x : Has(proclist, x) /\ x.pid # pid => Has(proclist', x)
  BY EwaitStep DEF OwnInv
<1>6. \A p, j : p # pid /\ Forked(kids, proclist, p, j) => Forked(kids', proclist', p, j)
  BY <1>5 DEF Forked, Foreg
<1>. HIDE DEF rest, n
<1>7. ASSUME ~setup.waitInside
      PROVE  /\ Owned(rest, kids', proclist')
             /\ Top.kind # "wait" => pid = Top.pids[Len(Top.pids)]
  <2>1. Owned(frames, kids, proclist)
    BY <1>7 DEF OwnInv, Children
  <2>2. ASSUME Top.kind # "wait" PROVE pid = Top.pids[Len(Top.pids)]
    <3>1. Top.pids[Len(Top.pids)] \in Own(Top)
      BY <1>4, <2>2 DEF Own
    <3>2. Top.pids[Len(Top.pids)] \in DOMAIN kids
      BY <1>2, <2>1, <3>1, OwnThere
    <3>3. Top.pids[Len(Top.pids)] # AnyPid
      BY <3>2, PidAssumption DEF AnyPid, OwnInv, ListInv
    <3>4. QED
      BY <1>1, <1>4, <3>3
  <2>3. ASSUME NEW i \in DOMAIN rest PROVE pid \notin Own(frames[i])
    <3>1. i \in DOMAIN frames /\ n \in DOMAIN frames /\ i # n
      BY <1>2
    <3>2. CASE Top.kind = "wait"
      <4>1. Last(Top.pids) = Top.pids[1]
        BY <1>3, <1>4, <3>2 DEF FrameOK
      <4>2. \A p \in Own(frames[i]) : Top.pids[1] \notin {p, AnyPid}
        BY <1>2, <2>1, <3>1, <3>2 DEF Owned
      <4>3. QED
        BY <1>1, <4>1, <4>2
    <3>3. CASE Top.kind # "wait"
      <4>1. pid \in Own(Top)
        BY <1>4, <2>2, <3>3 DEF Own
      <4>2. Own(frames[i]) \cap Own(frames[n]) = {}
        BY <2>1, <3>1 DEF Owned
      <4>3. QED
        BY <1>2, <4>1, <4>2
    <3>4. QED
      BY <3>2, <3>3
  <2>4. Owned(rest, kids, proclist)
    <3>1. DOMAIN rest \subseteq DOMAIN frames
      BY <1>2
    <3>2. QED
      BY <1>2, <2>1, <3>1, OwnedPart
  <2>5. \A i \in DOMAIN rest : \A p \in Own(rest[i]) : \A j :
          Forked(kids, proclist, p, j) => Forked(kids', proclist', p, j)
    BY <1>2, <1>6, <2>3
  <2>6. QED
    BY <2>2, <2>4, <2>5, OwnedKept
<1>8. CASE frames' \in Thrown(rest)
  <2>1. Shape(frames') /\ Same(rest, frames')
    BY <1>2, <1>8, ThrownOK
  <2>2. ~setup.waitInside => Owned(frames', kids', proclist')
    BY <1>7, <2>1, OwnedSame
  <2>3. QED
    BY <1>1, <1>5, <2>1, <2>2 DEF OwnInv, Children
<1>9. CASE frames' = rest
  BY <1>1, <1>2, <1>5, <1>7, <1>9 DEF OwnInv, Children, Open
<1>10. ASSUME NEW left, Front(Top.pids) # <<>>, frames' = Append(rest, left), left = Less(Top)
       PROVE  Children'
  <2>1. /\ FrameOK(left) /\ left.kind # "wait" /\ left.kind = Top.kind
        /\ DOMAIN left.pids = DOMAIN Top.pids \ {Len(Top.pids)}
        /\ \A k \in DOMAIN left.pids : left.pids[k] = Top.pids[k] /\ left.jobs[k] = Top.jobs[k]
    BY <1>3, <1>10, LeftOK
  <2>2. Shape(frames')
    BY <1>2, <1>10, <2>1, ShapePush
  <2>3. ASSUME ~setup.waitInside PROVE Owned(frames', kids', proclist')
    <3>1. Owned(frames, kids, proclist) /\ n \in DOMAIN frames
      BY <1>2, <2>3 DEF OwnInv, Children
    <3>2. ASSUME NEW k \in DOMAIN left.pids
          PROVE  /\ Forked(kids', proclist', left.pids[k], left.jobs[k])
                 /\ \A m \in DOMAIN left.pids : left.pids[m] = left.pids[k] => m = k
      <4>1. /\ Forked(kids, proclist, Top.pids[k], Top.jobs[k])
            /\ \A m \in DOMAIN Top.pids : Top.pids[m] = Top.pids[k] => m = k
        BY <1>2, <2>1, <3>1, <3>2 DEF Owned
      <4>2. Top.pids[k] # pid
        BY <1>4, <1>7, <2>1, <2>3, <3>2, <4>1
      <4>3. Forked(kids', proclist', Top.pids[k], Top.jobs[k])
        BY <1>6, <4>1, <4>2
      <4>4. QED
        BY <2>1, <4>1, <4>3
    <3>3. \A i \in DOMAIN rest : Own(rest[i]) \cap Own(left) = {}
      <4>1. Own(left) \subseteq Own(Top)
        BY <2>1 DEF Own
      <4>2. \A i \in DOMAIN rest : i \in DOMAIN frames /\ i # n /\ rest[i] = frames[i]
        BY <1>2
      <4>3. \A i \in DOMAIN rest : Own(frames[i]) \cap Own(frames[n]) = {}
        BY <3>1, <4>2 DEF Owned
      <4>4. QED
        BY <1>2, <4>1, <4>2, <4>3
    <3>4. Open(rest) /\ Owned(rest, kids', proclist') /\ left.kind # "wait"
      BY <1>2, <1>7, <2>1, <2>3
    <3>5. Owned(Append(rest, left), kids', proclist')
      BY <3>2, <3>3, <3>4, OwnedPush
    <3>6. QED
      BY <1>10, <3>5
  <2>4. QED
    BY <1>1, <1>5, <2>2, <2>3 DEF OwnInv, Children
<1>11. QED
  <2>. DEFINE left == [Top EXCEPT !.pids = Front(@), !.jobs = IF @ = <<>> THEN @ ELSE Front(@)]
  <2>1. left = Less(Top)
    BY <1>3 DEF FrameOK, Less
  <2>2. left.pids = Front(Top.pids)
    BY <1>3 DEF FrameOK
  <2>3. frames' \in IF left.pids # <<>> THEN {Append(rest, left)}
                    ELSE IF Top.failed THEN Thrown(rest)
                    ELSE IF Top.kind = "one" THEN {rest} \cup Thrown(rest)
                    ELSE {rest}
    BY <1>1 DEF After, rest
  <2>. HIDE DEF left
  <2>4. CASE left.pids # <<>>
    BY <1>10, <2>1, <2>2, <2>3, <2>4
  <2>5. CASE left.pids = <<>>
    BY <1>8, <1>9, <2>3, <2>5
  <2>6. QED
    BY <2>4, <2>5

\* Nothing else touches what a construct remembers of its children.
LEMMA OwnNext == OwnInv /\ [Next]_vars => OwnInv'
<1>. SUFFICES ASSUME OwnInv, [Next]_vars PROVE OwnInv'
  OBVIOUS
<1>1. ListInv'
  BY ListNext DEF OwnInv
<1>2. CASE UNCHANGED vars
  <2>1. UNCHANGED <<setup, kids, proclist, frames>>
    BY <1>2 DEF vars
  <2>2. Children'
    BY <2>1 DEF OwnInv, Children
  <2>3. QED
    BY <1>1, <2>2 DEF OwnInv
<1>3. CASE Child
  <2>1. DOMAIN kids' = {} /\ frames' = <<>> /\ DOMAIN frames' = {}
    BY <1>3 DEF Child
  <2>2. IsSeq(frames')
    BY <2>1, EmptySeq DEF IsSeq
  <2>3. QED
    BY <1>1, <2>1, <2>2 DEF OwnInv, Children, Shape, Owned
<1>4. CASE ExecShell
  <2>1. UNCHANGED <<setup, kids, frames>> /\ DOMAIN frames = {}
    BY <1>4 DEF ExecShell
  <2>2. QED
    BY <1>1, <2>1 DEF OwnInv, Children, Owned
<1>5. ASSUME NEW pid \in Pids, Exit(pid) PROVE Children'
  <2>1. /\ UNCHANGED <<setup, proclist, frames>> /\ pid \in DOMAIN kids
        /\ kids' = [kids EXCEPT ![pid].dead = TRUE]
    BY <1>5 DEF Exit
  <2>2. DOMAIN kids' = DOMAIN kids /\ \A p \in DOMAIN kids : kids'[p] = kids[p] \/
          (p = pid /\ kids'[p] = [kids[p] EXCEPT !.dead = TRUE])
    BY <2>1
  <2>3. \A p \in DOMAIN kids : "job" \in DOMAIN kids[p]
    BY DEF OwnInv, Children
  <2>4. \A p \in DOMAIN kids : "job" \in DOMAIN kids'[p] /\ kids'[p].job = kids[p].job
    BY <2>2, <2>3
  <2>5. \A p, j : Forked(kids, proclist, p, j) => Forked(kids', proclist', p, j)
    BY <2>1, <2>2, <2>4 DEF Forked
  <2>6. ~setup.waitInside => Owned(frames, kids', proclist')
    BY <2>5, OwnedKept DEF OwnInv, Children
  <2>7. QED
    BY <2>1, <2>2, <2>4, <2>6 DEF OwnInv, Children
<1>6. CASE \E pid \in NewPid : Run(pid) \/ Background(pid) \/ Around(pid) \/ Abandon(pid)
  BY <1>1, <1>6, RunStep, BackgroundStep, AbandonStep DEF OwnInv
<1>7. CASE \E pid1, pid2 \in NewPid : Pipe(pid1, pid2)
  BY <1>1, <1>7, PipedStep DEF OwnInv
<1>8. CASE ForkFail \/ BodyEnd \/ Interrupted \/ EwaitFail
  BY <1>1, <1>8, RephaseStep, GiveUpStep DEF OwnInv
<1>9. CASE \E pid \in Pids \cup {AnyPid} : Wait(pid)
  BY <1>1, <1>9, WaitStep DEF OwnInv
<1>10. CASE Reap
  BY <1>1, <1>10, EwaitOK DEF OwnInv, Reap
<1>11. CASE \E pid \in Pids : Exit(pid)
  BY <1>1, <1>5, <1>11 DEF OwnInv
<1>12. QED
  BY <1>2, <1>3, <1>4, <1>6, <1>7, <1>8, <1>9, <1>10, <1>11 DEF Next

\* At the start no construct runs.
LEMMA OwnInit == Init => OwnInv
<1>. SUFFICES ASSUME Init PROVE OwnInv
  OBVIOUS
<1>1. ListInv
  BY ListInit
<1>2. frames = <<>> /\ DOMAIN frames = {} /\ DOMAIN kids = {}
  BY DEF Init
<1>3. IsSeq(frames)
  BY <1>2, EmptySeq DEF IsSeq
<1>4. QED
  BY <1>1, <1>2, <1>3 DEF OwnInv, Children, Shape, Owned

-----------------------------------------------------------------------------
(* The theorem. *)

\* In a program that does not use wait inside of a construct, whatever construct waits
\* for a pid waits for the child that it forked itself: nothing has reaped it before, so
\* the kernel has not given its pid to another one.
THEOREM WaitsAreOwn == Spec => []WaitsForOwn
<1>1. OwnInv => WaitsForOwn
  BY DEF OwnInv, Children, Owned, Forked, WaitsForOwn
<1>2. QED
  BY <1>1, OwnInit, OwnNext, PTL DEF Spec

-----------------------------------------------------------------------------
(* apids has the jobs in the background that nobody waited for: jobs never *)
(* coincide, because there are more of them than anybody remembers; and    *)
(* every child in the foreground has a construct that waits for its pid.   *)

\* As many as constructs are active at once.
Small(S) == \E g : S \subseteq {g[i] : i \in 1 .. MaxDepth}

\* The values of a function are no more than its arguments.
LEMMA Values ==
  ASSUME NEW D, IsFiniteSet(D), NEW h, NEW S, \A x \in S : \E d \in D : h[d] = x
  PROVE  IsFiniteSet(S) /\ Cardinality(S) <= Cardinality(D)
<1>. DEFINE T == {h[d] : d \in D}
            f == [d \in D |-> h[d]]
<1>1. f \in Surjection(D, T)
  BY DEF Surjection
<1>2. IsFiniteSet(T) /\ Cardinality(T) <= Cardinality(D)
  <2>. HIDE DEF f, T
  <2>1. QED
    BY <1>1, FS_Surjection
<1>3. S \in SUBSET T
  OBVIOUS
<1>. HIDE DEF T
<1>4. IsFiniteSet(S) /\ Cardinality(S) <= Cardinality(T)
  BY <1>2, <1>3, FS_Subset
<1>5. Cardinality(S) \in Int /\ Cardinality(T) \in Int /\ Cardinality(D) \in Int
  BY <1>2, <1>4, FS_CardinalityType
<1>6. QED
  BY <1>2, <1>4, <1>5

\* The jobs that children remember, each its own and those it holds.
LEMMA KidJobs ==
  ASSUME NEW ks, DOMAIN ks \subseteq Pids, \A p \in DOMAIN ks : Small(ks[p].holds),
         NEW R, R = UNION {{ks[p].job} \cup ks[p].holds : p \in DOMAIN ks}
  PROVE  IsFiniteSet(R) /\ Cardinality(R) <= Cardinality(Pids) * (1 + MaxDepth)
<1>. DEFINE g(p) == CHOOSE g : ks[p].holds \subseteq {g[i] : i \in 1 .. MaxDepth}
            D == Pids \X (0 .. MaxDepth)
            h == [d \in D |-> IF d[2] = 0 THEN ks[d[1]].job ELSE g(d[1])[d[2]]]
<1>1. \A p \in DOMAIN ks : \A x \in ks[p].holds : \E i \in 1 .. MaxDepth : g(p)[i] = x
  <2>1. \A p \in DOMAIN ks : ks[p].holds \subseteq {g(p)[i] : i \in 1 .. MaxDepth}
    BY DEF Small
  <2>. HIDE DEF g
  <2>2. QED
    BY <2>1
<1>. HIDE DEF g
<1>2. \A p \in Pids, i \in 0 .. MaxDepth :
        <<p, i>> \in D /\ h[<<p, i>>] = IF i = 0 THEN ks[p].job ELSE g(p)[i]
  OBVIOUS
<1>3. IsFiniteSet(0 .. MaxDepth) /\ Cardinality(0 .. MaxDepth) = 1 + MaxDepth
  <2>1. 0 \in Int /\ MaxDepth \in Int /\ ~(0 > MaxDepth) /\ MaxDepth - 0 + 1 = 1 + MaxDepth
    BY DepthAssumption
  <2>2. /\ IsFiniteSet(0 .. MaxDepth)
        /\ Cardinality(0 .. MaxDepth) = IF 0 > MaxDepth THEN 0 ELSE MaxDepth - 0 + 1
    BY ONLY <2>1, FS_Interval
  <2>3. QED
    BY <2>1, <2>2
<1>4. IsFiniteSet(D) /\ Cardinality(D) = Cardinality(Pids) * (1 + MaxDepth)
  BY <1>3, PidAssumption, FS_Product
<1>. HIDE DEF D, h
<1>5. ASSUME NEW x \in R PROVE \E d \in D : h[d] = x
  <2>1. PICK p \in DOMAIN ks : x = ks[p].job \/ x \in ks[p].holds
    OBVIOUS
  <2>2. CASE x = ks[p].job
    <3>1. 0 \in 0 .. MaxDepth
      BY DepthAssumption
    <3>2. QED
      BY <1>2, <2>2, <3>1
  <2>3. CASE x \in ks[p].holds
    <3>1. PICK i \in 1 .. MaxDepth : g(p)[i] = x
      BY <1>1, <2>3
    <3>2. i \in 0 .. MaxDepth /\ i # 0
      OBVIOUS
    <3>3. QED
      BY <1>2, <3>1, <3>2
  <2>4. QED
    BY <2>1, <2>2, <2>3
<1>6. QED
  BY <1>4, <1>5, Values

\* A construct forks one command, or a pipe's two.
Few(f) ==
  /\ IsSeq(f.jobs) /\ Len(f.jobs) <= 2 /\ (f.kind # "pipe" => Len(f.jobs) <= 1)
  /\ f.kind \in {"one", "around"} => Len(f.pids) = 1
  /\ f.kind # "wait" => \A k \in DOMAIN f.pids : f.pids[k] \in Pids

\* The jobs that constructs remember.
LEMMA FrameJobs ==
  ASSUME NEW fs, DOMAIN fs \subseteq 1 .. MaxDepth, IsSeq(fs), \A i \in DOMAIN fs : Few(fs[i]),
         NEW R, R = UNION {ToSet(f.jobs) : f \in ToSet(fs)}
  PROVE  IsFiniteSet(R) /\ Cardinality(R) <= 2 * MaxDepth
<1>. DEFINE D == (1 .. MaxDepth) \X (1 .. 2)
            h == [d \in D |-> fs[d[1]].jobs[d[2]]]
<1>1. \A i \in 1 .. MaxDepth, k \in 1 .. 2 : <<i, k>> \in D /\ h[<<i, k>>] = fs[i].jobs[k]
  OBVIOUS
<1>2. /\ IsFiniteSet(1 .. MaxDepth) /\ Cardinality(1 .. MaxDepth) = MaxDepth
      /\ IsFiniteSet(1 .. 2) /\ Cardinality(1 .. 2) = 2
  <2>1. 1 \in Int /\ 2 \in Int /\ MaxDepth \in Int /\ ~(1 > MaxDepth) /\ MaxDepth - 1 + 1 = MaxDepth
    BY DepthAssumption
  <2>2. /\ IsFiniteSet(1 .. MaxDepth)
        /\ Cardinality(1 .. MaxDepth) = IF 1 > MaxDepth THEN 0 ELSE MaxDepth - 1 + 1
    BY ONLY <2>1, FS_Interval
  <2>3. IsFiniteSet(1 .. 2) /\ Cardinality(1 .. 2) = IF 1 > 2 THEN 0 ELSE 2 - 1 + 1
    BY ONLY <2>1, FS_Interval
  <2>4. QED
    BY <2>1, <2>2, <2>3
<1>3. IsFiniteSet(D) /\ Cardinality(D) = MaxDepth * 2
  <2>1. PICK s, t : s = 1 .. MaxDepth /\ t = 1 .. 2
    OBVIOUS
  <2>2. IsFiniteSet(s) /\ Cardinality(s) = MaxDepth /\ IsFiniteSet(t) /\ Cardinality(t) = 2
    BY <1>2, <2>1
  <2>. HIDE DEF D
  <2>3. IsFiniteSet(s \X t) /\ Cardinality(s \X t) = Cardinality(s) * Cardinality(t)
    BY ONLY <2>2, FS_Product
  <2>4. D = s \X t
    BY <2>1 DEF D
  <2>5. QED
    BY <2>2, <2>3, <2>4
<1>4. MaxDepth * 2 = 2 * MaxDepth
  BY DepthAssumption
<1>. HIDE DEF D, h
<1>5. ASSUME NEW x \in R PROVE \E d \in D : h[d] = x
  <2>1. PICK i \in DOMAIN fs : x \in ToSet(fs[i].jobs)
    BY DEF ToSet
  <2>2. PICK k \in DOMAIN fs[i].jobs : x = fs[i].jobs[k]
    BY <2>1 DEF ToSet
  <2>3. k \in 1 .. 2
    <3>1. IsSeq(fs[i].jobs) /\ Len(fs[i].jobs) <= 2
      BY DEF Few
    <3>2. Len(fs[i].jobs) \in Nat /\ DOMAIN fs[i].jobs = 1 .. Len(fs[i].jobs)
      BY <3>1, SeqPush
    <3>3. QED
      BY <3>1, <3>2
  <2>4. QED
    BY <1>1, <2>2, <2>3
<1>6. QED
  BY <1>3, <1>4, <1>5, Values

\* So there is always a job that nobody remembers, and another one for a pipe.
LEMMA FreshJobs ==
  ASSUME DOMAIN kids \subseteq Pids, \A p \in DOMAIN kids : Small(kids[p].holds),
         IsSeq(frames), DOMAIN frames \subseteq 1 .. MaxDepth, \A i \in DOMAIN frames : Few(frames[i])
  PROVE  /\ Job \in Jobs /\ Job \notin Remembered
         /\ \E j \in Jobs \ {Job} : j \notin Remembered
<1>. DEFINE Of == UNION {{kids[p].job} \cup kids[p].holds : p \in DOMAIN kids}
            In == UNION {ToSet(f.jobs) : f \in ToSet(frames)}
<1>0. Remembered = Of \cup In
  BY DEF Remembered
<1>1. PICK R1 : R1 = Of
  OBVIOUS
<1>2. PICK R2 : R2 = In
  OBVIOUS
<1>3. Remembered = R1 \cup R2
  <2>. HIDE DEF Of, In
  <2>1. QED
    BY <1>0, <1>1, <1>2
<1>4. PICK c : c = Cardinality(Pids) * (1 + MaxDepth)
  OBVIOUS
<1>5. c \in Nat
  <2>1. Cardinality(Pids) \in Nat /\ 1 + MaxDepth \in Nat
    BY PidAssumption, DepthAssumption, FS_CardinalityType
  <2>2. \A m, n \in Nat : m * n \in Nat
    OBVIOUS
  <2>3. QED
    BY <1>4, <2>1, <2>2
<1>6. IsFiniteSet(R1) /\ Cardinality(R1) <= c
  BY <1>1, <1>4, KidJobs
<1>7. IsFiniteSet(R2) /\ Cardinality(R2) <= 2 * MaxDepth
  BY <1>2, FrameJobs
<1>8. PICK R : R = R1 \cup R2
  OBVIOUS
<1>9. IsFiniteSet(R) /\ Cardinality(R) <= c + 2 * MaxDepth /\ Cardinality(R) \in Nat
  <2>1. /\ IsFiniteSet(R1 \cup R2)
        /\ Cardinality(R1 \cup R2) = Cardinality(R1) + Cardinality(R2) - Cardinality(R1 \cap R2)
    BY <1>6, <1>7, FS_Union
  <2>2. R1 \cap R2 \in SUBSET R1
    OBVIOUS
  <2>3. IsFiniteSet(R1 \cap R2)
    BY <1>6, <2>2, FS_Subset
  <2>4. /\ Cardinality(R1 \cap R2) \in Nat /\ Cardinality(R1) \in Nat /\ Cardinality(R2) \in Nat
        /\ Cardinality(R1 \cup R2) \in Nat
    BY <1>6, <1>7, <2>1, <2>3, FS_CardinalityType
  <2>5. QED
    BY <1>5, <1>6, <1>7, <1>8, <2>1, <2>4, DepthAssumption
<1>10. IsFiniteSet(Jobs) /\ Cardinality(Jobs) = c + 2 * MaxDepth + 2
  <2>1. PICK b : b = c + 2 * MaxDepth + 2
    OBVIOUS
  <2>2. Jobs = 1 .. b
    BY <1>4, <2>1 DEF Jobs
  <2>3. 1 \in Int /\ b \in Int /\ ~(1 > b) /\ b - 1 + 1 = b
    BY <1>5, <2>1, DepthAssumption
  <2>4. IsFiniteSet(1 .. b) /\ Cardinality(1 .. b) = IF 1 > b THEN 0 ELSE b - 1 + 1
    BY ONLY <2>3, FS_Interval
  <2>5. QED
    BY <2>1, <2>2, <2>3, <2>4
<1>11. ASSUME NEW T, IsFiniteSet(T), Cardinality(T) <= c + 2 * MaxDepth + 1
       PROVE  \E j \in Jobs : j \notin T
  <2>1. SUFFICES ASSUME Jobs \in SUBSET T PROVE FALSE
    OBVIOUS
  <2>2. Cardinality(Jobs) <= Cardinality(T)
    BY <1>11, <2>1, FS_Subset
  <2>3. Cardinality(T) \in Nat
    BY <1>11, FS_CardinalityType
  <2>4. QED
    BY <1>5, <1>10, <1>11, <2>2, <2>3, DepthAssumption
<1>12. \E j \in Jobs : j \notin R
  BY <1>5, <1>9, <1>11, DepthAssumption
<1>13. Job \in Jobs /\ Job \notin Remembered
  BY <1>3, <1>8, <1>12 DEF Job
<1>14. \E j \in Jobs : j \notin R \cup {Job}
  <2>1. /\ IsFiniteSet(R \cup {Job})
        /\ Cardinality(R \cup {Job}) = IF Job \in R THEN Cardinality(R) ELSE Cardinality(R) + 1
    BY <1>9, FS_AddElement
  <2>2. Cardinality(R \cup {Job}) <= c + 2 * MaxDepth + 1
    BY <1>5, <1>9, <2>1, DepthAssumption
  <2>3. QED
    BY <1>11, <2>1, <2>2
<1>15. QED
  BY <1>3, <1>8, <1>13, <1>14

\* No two children have one job, and none holds more than the constructs had.
Apart(ks) ==
  /\ \A p, q \in DOMAIN ks : ks[p].job = ks[q].job => p = q
  /\ \A p \in DOMAIN ks : Small(ks[p].holds)

Bounded(fs) == DOMAIN fs \subseteq 1 .. MaxDepth /\ \A i \in DOMAIN fs : Few(fs[i])

JobInv == Apart(kids) /\ Bounded(frames)

Backg(p) == [pid |-> p, background |-> TRUE]

\* The jobs of the children that the list has in the background.
Started(ks, l) == {ks[p].job : p \in {q \in DOMAIN ks : Has(l, Backg(q))}}

\* The children of a pipeline are there; it is waiting, so nothing else reaps them.
Kept(fs, ks) ==
  \A i \in DOMAIN fs : fs[i].kind = "pipe" =>
    \A k, m \in DOMAIN fs[i].pids :
      fs[i].pids[k] \in DOMAIN ks /\ (fs[i].pids[k] = fs[i].pids[m] => k = m)

\* Every child in the foreground has a construct that will wait for its pid.
Covered(fs, l) == \A p : Has(l, Foreg(p)) => \E i \in DOMAIN fs : p \in Own(fs[i])

\* A fork that fails in a pipeline leaves a child to nobody.
CoverInv == Kept(frames, kids) /\ (~setup.forkFails => Covered(frames, proclist))

\* exec of a shell loses the list.
StartedInv == ~setup.inherited => started = Started(kids, proclist)

ApidsInv == OwnInv /\ JobInv /\ StartedInv /\ CoverInv

-----------------------------------------------------------------------------
\* One more in the list.
LEMMA HasNew ==
  ASSUME NEW l \in Seq(Entry), NEW e \in Entry, NEW x
  PROVE  Has(<<e>> \o l, x) <=> x = e \/ Has(l, x)
<1>. DEFINE t == <<e>> \o l
<1>1. /\ Len(l) \in Nat /\ DOMAIN l = 1 .. Len(l) /\ DOMAIN t = 1 .. Len(l) + 1
      /\ \A i \in 1 .. Len(l) + 1 : t[i] = IF i = 1 THEN e ELSE l[i - 1]
  BY SeqCons
<1>. HIDE DEF t
<1>2. ASSUME NEW i \in DOMAIN l PROVE i + 1 \in DOMAIN t /\ t[i + 1] = l[i]
  BY <1>1
<1>3. ASSUME NEW i \in DOMAIN t, i # 1 PROVE i - 1 \in DOMAIN l /\ t[i] = l[i - 1]
  BY <1>1, <1>3
<1>4. 1 \in DOMAIN t /\ t[1] = e
  BY <1>1
<1>5. ASSUME NEW i \in DOMAIN t, t[i] = x PROVE x = e \/ Has(l, x)
  <2>1. CASE i = 1
    BY <1>4, <1>5, <2>1
  <2>2. CASE i # 1
    BY <1>3, <1>5, <2>2 DEF Has
  <2>3. QED
    BY <2>1, <2>2
<1>6. Has(l, x) => Has(t, x)
  BY <1>2 DEF Has
<1>7. x = e => Has(t, x)
  BY <1>4 DEF Has
<1>8. Has(t, x) => x = e \/ Has(l, x)
  BY <1>5 DEF Has
<1>9. QED
  BY <1>6, <1>7, <1>8 DEF t

\* One less.
LEMMA HasReaped ==
  ASSUME NEW l \in Seq(Entry), NEW k \in DOMAIN l, NEW procs, Once(l, procs), NEW x,
         Has(RemoveAt(l, k), x)
  PROVE  Has(l, x) /\ x.pid # l[k].pid
<1>. DEFINE t == RemoveAt(l, k)
<1>1. /\ DOMAIN t = 1 .. Len(l) - 1 /\ Len(l) \in Nat /\ DOMAIN l = 1 .. Len(l)
      /\ \A i \in 1 .. Len(l) - 1 : t[i] = IF i < k THEN l[i] ELSE l[i + 1]
  BY Without, LenProperties
<1>. HIDE DEF t
<1>2. ASSUME NEW i \in DOMAIN t PROVE \E m \in DOMAIN l : m # k /\ t[i] = l[m]
  <2>1. CASE i < k
    <3>1. i \in DOMAIN l /\ i # k /\ t[i] = l[i]
      BY <1>1, <2>1
    <3>2. QED
      BY <3>1
  <2>2. CASE ~(i < k)
    <3>1. i + 1 \in DOMAIN l /\ i + 1 # k /\ t[i] = l[i + 1]
      BY <1>1, <2>2
    <3>2. QED
      BY <3>1
  <2>3. QED
    BY <2>1, <2>2
<1>3. PICK i \in DOMAIN t : t[i] = x
  BY DEF Has, t
<1>4. PICK m \in DOMAIN l : m # k /\ x = l[m]
  BY <1>2, <1>3
<1>5. QED
  BY <1>4 DEF Has, Once

\* A new child with a job of its own.
LEMMA ApartPut ==
  ASSUME NEW ks, Apart(ks), NEW p, NEW v, p \notin DOMAIN ks,
         \A q \in DOMAIN ks : ks[q].job # v.job, Small(v.holds)
  PROVE  /\ Apart(Put(ks, p, v)) /\ DOMAIN Put(ks, p, v) = DOMAIN ks \cup {p}
         /\ Put(ks, p, v)[p] = v /\ \A q \in DOMAIN ks : Put(ks, p, v)[q] = ks[q]
<1>. DEFINE t == Put(ks, p, v)
<1>1. DOMAIN t = DOMAIN ks \cup {p} /\ t[p] = v /\ \A q \in DOMAIN ks : t[q] = ks[q]
  BY DEF Put
<1>. HIDE DEF t
<1>2. \A q \in DOMAIN t : q = p \/ (q # p /\ q \in DOMAIN ks)
  BY <1>1
<1>3. ASSUME NEW q \in DOMAIN t, NEW r \in DOMAIN t, t[q].job = t[r].job PROVE q = r
  <2>1. CASE q = p /\ r = p
    BY <2>1
  <2>2. CASE q = p /\ r # p
    BY <1>1, <1>2, <1>3, <2>2
  <2>3. CASE q # p /\ r = p
    BY <1>1, <1>2, <1>3, <2>3
  <2>4. CASE q # p /\ r # p
    BY <1>1, <1>2, <1>3, <2>4 DEF Apart
  <2>5. QED
    BY <2>1, <2>2, <2>3, <2>4
<1>4. \A q \in DOMAIN t : Small(t[q].holds)
  BY <1>1, <1>2 DEF Apart
<1>5. Apart(t)
  BY <1>3, <1>4 DEF Apart
<1>6. QED
  BY <1>1, <1>5 DEF t

\* The shell has no more ends of pipes than constructs.
LEMMA HeldSmall ==
  ASSUME Shape(frames), Bounded(frames)
  PROVE  Small(Held)
<1>. DEFINE g == [i \in 1 .. MaxDepth |-> frames[i].jobs[1]]
<1>1. ASSUME NEW x \in Held PROVE \E i \in 1 .. MaxDepth : g[i] = x
  <2>1. PICK i \in DOMAIN frames : frames[i].kind = "around" /\ x \in ToSet(frames[i].jobs)
    BY DEF Held, HeldIn
  <2>2. PICK k \in DOMAIN frames[i].jobs : x = frames[i].jobs[k]
    BY <2>1 DEF ToSet
  <2>3. IsSeq(frames[i].jobs) /\ Len(frames[i].jobs) <= 1 /\ i \in 1 .. MaxDepth
    BY <2>1 DEF Bounded, Few
  <2>4. DOMAIN frames[i].jobs = 1 .. Len(frames[i].jobs) /\ Len(frames[i].jobs) \in Nat
    BY <2>3, SeqPush
  <2>5. k = 1
    BY <2>2, <2>3, <2>4
  <2>6. QED
    BY <2>2, <2>3, <2>5
<1>. HIDE DEF g
<1>2. Held \subseteq {g[i] : i \in 1 .. MaxDepth}
  BY <1>1
<1>3. QED
  BY <1>2 DEF Small

\* A child and its job, and what a child holds, are remembered.
LEMMA KnownJobs ==
  ASSUME NEW p \in DOMAIN kids
  PROVE  kids[p].job \in Remembered
BY DEF Remembered

\* The jobs stay apart when a child is forked.
LEMMA EforkApart ==
  ASSUME ListInv, Shape(frames), JobInv, NEW pid \in NewPid, NEW background, NEW reads,
         Efork(pid, background, reads)
  PROVE  Apart(kids')
<1>1. pid \notin DOMAIN kids
  BY DEF NewPid
<1>2. Job \notin Remembered
  BY FreshJobs DEF ListInv, Shape, JobInv, Apart, Bounded
<1>3. Small(Held)
  BY HeldSmall DEF JobInv
<1>4. PICK v : v = Kid(Job, reads)
  OBVIOUS
<1>5. v.job = Job /\ v.holds = Held
  BY <1>4 DEF Kid
<1>6. \A q \in DOMAIN kids : kids[q].job # v.job
  BY <1>2, <1>5, KnownJobs
<1>7. Apart(Put(kids, pid, v))
  BY <1>1, <1>3, <1>5, <1>6, ApartPut DEF JobInv
<1>8. QED
  BY <1>4, <1>7 DEF Efork

\* Both commands of a pipe have jobs of their own.
LEMMA PipeApart ==
  ASSUME ListInv, Shape(frames), JobInv, NEW pid1 \in NewPid, NEW pid2 \in NewPid, Pipe(pid1, pid2)
  PROVE  Apart(kids')
<1>. DEFINE job2 == CHOOSE j \in Jobs \ {Job} : j \notin Remembered
<1>1. /\ pid1 # pid2 /\ pid1 \notin DOMAIN kids /\ pid2 \notin DOMAIN kids
      /\ kids' = Put(Put(kids, pid1, Kid(Job, FALSE)), pid2, Kid(job2, FALSE))
  BY DEF Pipe, NewPid
<1>2. Job \notin Remembered /\ \E j \in Jobs \ {Job} : j \notin Remembered
  BY FreshJobs DEF ListInv, Shape, JobInv, Apart, Bounded
<1>3. job2 # Job /\ job2 \notin Remembered
  BY <1>2
<1>. HIDE DEF job2
<1>4. Small(Held)
  BY HeldSmall DEF JobInv
<1>5. PICK v, w : v = Kid(Job, FALSE) /\ w = Kid(job2, FALSE)
  OBVIOUS
<1>6. v.job = Job /\ v.holds = Held /\ w.job = job2 /\ w.holds = Held
  BY <1>5 DEF Kid
<1>7. PICK ks : ks = Put(kids, pid1, v)
  OBVIOUS
<1>8. \A q \in DOMAIN kids : kids[q].job # v.job
  BY <1>2, <1>6, KnownJobs
<1>9. /\ Apart(ks) /\ DOMAIN ks = DOMAIN kids \cup {pid1}
      /\ ks[pid1] = v /\ \A q \in DOMAIN kids : ks[q] = kids[q]
  <2>1. Apart(kids) /\ pid1 \notin DOMAIN kids /\ Small(v.holds)
    BY <1>1, <1>4, <1>6 DEF JobInv
  <2>2. /\ Apart(Put(kids, pid1, v)) /\ DOMAIN Put(kids, pid1, v) = DOMAIN kids \cup {pid1}
        /\ Put(kids, pid1, v)[pid1] = v /\ \A q \in DOMAIN kids : Put(kids, pid1, v)[q] = kids[q]
    BY ONLY <1>8, <2>1, ApartPut
  <2>3. QED
    BY <1>7, <2>2
<1>10. \A q \in DOMAIN ks : ks[q].job # w.job
  BY <1>3, <1>6, <1>9, KnownJobs
<1>11. pid2 \notin DOMAIN ks
  BY <1>1, <1>9
<1>12. Apart(Put(ks, pid2, w))
  BY <1>4, <1>6, <1>9, <1>10, <1>11, ApartPut
<1>13. QED
  BY <1>1, <1>5, <1>7, <1>12

\* The same constructs are bounded, and have the children in the foreground that they had.
LEMMA SameBounded ==
  ASSUME NEW fs, NEW gs, Same(fs, gs), Bounded(fs)
  PROVE  Bounded(gs)
<1>1. ASSUME NEW i \in DOMAIN gs PROVE Few(gs[i])
  BY DEF Same, Bounded, Few
<1>2. QED
  BY <1>1 DEF Same, Bounded

\* Each child in the foreground still has its construct.
LEMMA SameCovered ==
  ASSUME NEW fs, NEW gs, Same(fs, gs), NEW l, Covered(fs, l)
  PROVE  Covered(gs, l)
<1>1. \A i \in DOMAIN fs : i \in DOMAIN gs /\ Own(gs[i]) = Own(fs[i])
  BY DEF Same, Own
<1>2. QED
  BY <1>1 DEF Covered

\* Where all constructs run a command, there is no pipeline among them.
LEMMA SameKept ==
  ASSUME NEW fs, NEW gs, Open(fs), Same(fs, gs), NEW ks
  PROVE  Kept(gs, ks)
BY DEF Open, Shape, FrameOK, Same, Kept

\* One construct more.
LEMMA PushBounded ==
  ASSUME NEW fs, IsSeq(fs), Bounded(fs), NEW f, Few(f), NEW d \in 1 .. MaxDepth, Len(fs) < d
  PROVE  Bounded(Append(fs, f))
<1>. DEFINE gs == Append(fs, f)
<1>1. /\ DOMAIN fs = 1 .. Len(fs) /\ Len(fs) \in Nat /\ DOMAIN gs = 1 .. Len(fs) + 1
      /\ gs[Len(fs) + 1] = f /\ \A i \in 1 .. Len(fs) : gs[i] = fs[i]
  BY SeqPush
<1>. HIDE DEF gs
<1>2. DOMAIN gs \subseteq 1 .. MaxDepth
  BY <1>1, DepthAssumption
<1>3. ASSUME NEW i \in DOMAIN gs PROVE Few(gs[i])
  <2>1. CASE i = Len(fs) + 1
    BY <1>1, <2>1
  <2>2. CASE i # Len(fs) + 1
    <3>1. i \in DOMAIN fs /\ gs[i] = fs[i]
      BY <1>1, <2>2
    <3>2. QED
      BY <3>1 DEF Bounded
  <2>3. QED
    BY <2>1, <2>2
<1>4. QED
  BY <1>2, <1>3 DEF Bounded, gs

\* The new one may be that of a new child.
LEMMA PushCovered ==
  ASSUME NEW fs, IsSeq(fs), NEW f, NEW l,
         \A p : Has(l, Foreg(p)) => p \in Own(f) \/ \E i \in DOMAIN fs : p \in Own(fs[i])
  PROVE  Covered(Append(fs, f), l)
<1>. DEFINE gs == Append(fs, f)
<1>1. /\ DOMAIN fs = 1 .. Len(fs) /\ Len(fs) \in Nat /\ DOMAIN gs = 1 .. Len(fs) + 1
      /\ gs[Len(fs) + 1] = f /\ \A i \in 1 .. Len(fs) : gs[i] = fs[i]
  BY SeqPush
<1>. HIDE DEF gs
<1>2. Len(fs) + 1 \in DOMAIN gs /\ \A i \in DOMAIN fs : i \in DOMAIN gs /\ gs[i] = fs[i]
  BY <1>1
<1>3. ASSUME NEW p, Has(l, Foreg(p)) PROVE \E i \in DOMAIN gs : p \in Own(gs[i])
  <2>1. CASE p \in Own(f)
    BY <1>1, <1>2, <2>1
  <2>2. CASE \E i \in DOMAIN fs : p \in Own(fs[i])
    BY <1>2, <2>2
  <2>3. QED
    BY <1>3, <2>1, <2>2
<1>4. QED
  BY <1>3 DEF Covered, gs

\* It may be a pipeline, whose children are there.
LEMMA PushKept ==
  ASSUME NEW fs, Open(fs), NEW f, NEW ks,
         f.kind = "pipe" => \A k, m \in DOMAIN f.pids :
            f.pids[k] \in DOMAIN ks /\ (f.pids[k] = f.pids[m] => k = m)
  PROVE  Kept(Append(fs, f), ks)
<1>. DEFINE gs == Append(fs, f)
<1>1. /\ DOMAIN fs = 1 .. Len(fs) /\ Len(fs) \in Nat /\ DOMAIN gs = 1 .. Len(fs) + 1
      /\ gs[Len(fs) + 1] = f /\ \A i \in 1 .. Len(fs) : gs[i] = fs[i]
  BY SeqPush DEF Open, Shape
<1>. HIDE DEF gs
<1>2. \A i \in DOMAIN fs : fs[i].kind # "pipe"
  BY DEF Open, Shape, FrameOK
<1>3. ASSUME NEW i \in DOMAIN gs, gs[i].kind = "pipe" PROVE gs[i] = f
  <2>1. i \notin DOMAIN fs
    BY <1>1, <1>2, <1>3
  <2>2. QED
    BY <1>1, <2>1
<1>4. QED
  BY <1>3 DEF Kept, gs

\* The innermost one ends.
LEMMA PopBounded ==
  ASSUME NEW fs, IsSeq(fs), fs # <<>>, Bounded(fs)
  PROVE  Bounded(Front(fs))
<1>1. PICK s : s = Front(fs)
  OBVIOUS
<1>2. /\ Len(fs) \in Nat \ {0} /\ DOMAIN fs = 1 .. Len(fs) /\ DOMAIN s = 1 .. Len(fs) - 1
      /\ \A i \in 1 .. Len(fs) - 1 : s[i] = fs[i]
  BY <1>1, SeqPop
<1>3. \A i \in DOMAIN s : i \in DOMAIN fs /\ s[i] = fs[i]
  BY <1>2
<1>4. Bounded(s)
  BY <1>3 DEF Bounded
<1>5. QED
  BY <1>1, <1>4

\* Its children are gone.
LEMMA PopCovered ==
  ASSUME NEW fs, IsSeq(fs), fs # <<>>, NEW l, Covered(fs, l), NEW l2,
         \A p : Has(l2, Foreg(p)) => Has(l, Foreg(p)) /\ p \notin Own(Last(fs))
  PROVE  Covered(Front(fs), l2)
<1>1. PICK s : s = Front(fs)
  OBVIOUS
<1>2. /\ Len(fs) \in Nat \ {0} /\ DOMAIN fs = 1 .. Len(fs) /\ DOMAIN s = 1 .. Len(fs) - 1
      /\ \A i \in 1 .. Len(fs) - 1 : s[i] = fs[i]
      /\ Last(fs) = fs[Len(fs)]
  BY <1>1, SeqPop
<1>3. ASSUME NEW p, Has(l2, Foreg(p)) PROVE \E i \in DOMAIN s : p \in Own(s[i])
  <2>1. PICK i \in DOMAIN fs : p \in Own(fs[i])
    BY <1>3 DEF Covered
  <2>2. p \notin Own(fs[Len(fs)])
    BY <1>2, <1>3
  <2>3. i \in DOMAIN s /\ s[i] = fs[i]
    BY <1>2, <2>1, <2>2
  <2>4. QED
    BY <2>1, <2>3
<1>4. Covered(s, l2)
  BY <1>3 DEF Covered
<1>5. QED
  BY <1>1, <1>4

-----------------------------------------------------------------------------
\* A job that starts in the background is in the list as such, and no other.
LEMMA ForkStarted ==
  ASSUME ListInv, NEW pid \in NewPid, NEW background \in BOOLEAN, NEW reads, UNCHANGED setup,
         Efork(pid, background, reads), ~setup.inherited, started = Started(kids, proclist),
         started' = IF background THEN started \cup {Job} ELSE started
  PROVE  started' = Started(kids', proclist')
<1>1. /\ pid \in Pids \ DOMAIN kids /\ DOMAIN kids' = DOMAIN kids \cup {pid}
      /\ kids'[pid].job = Job /\ \A q \in DOMAIN kids : kids'[q] = kids[q]
  BY EforkStep
<1>2. \A x : Has(proclist', x) <=> x = [pid |-> pid, background |-> background] \/ Has(proclist, x)
  <2>1. [pid |-> pid, background |-> background] \in Entry
    BY <1>1 DEF Entry
  <2>2. QED
    BY <2>1, HasNew DEF Efork, ListInv
<1>3. \A q \in DOMAIN kids : Has(proclist', Backg(q)) <=> Has(proclist, Backg(q))
  BY <1>1, <1>2 DEF Backg
<1>4. Has(proclist', Backg(pid)) <=> background
  <2>1. ~Has(proclist, Backg(pid))
    BY <1>1 DEF Has, Backg, ListInv, Once
  <2>2. (Backg(pid) = [pid |-> pid, background |-> background]) <=> background
    BY DEF Backg
  <2>3. QED
    BY <1>2, <2>1, <2>2
<1>5. ASSUME NEW j PROVE j \in Started(kids', proclist') <=> j \in started'
  <2>1. j \in Started(kids', proclist')
          <=> \E q \in DOMAIN kids' : Has(proclist', Backg(q)) /\ kids'[q].job = j
    BY DEF Started
  <2>2. j \in started <=> \E q \in DOMAIN kids : Has(proclist, Backg(q)) /\ kids[q].job = j
    BY DEF Started
  <2>3. (\E q \in DOMAIN kids' : Has(proclist', Backg(q)) /\ kids'[q].job = j)
          <=> (background /\ j = Job) \/ j \in started
    BY <1>1, <1>3, <1>4, <2>2
  <2>4. j \in started' <=> (background /\ j = Job) \/ j \in started
    OBVIOUS
  <2>5. QED
    BY <2>1, <2>3, <2>4
<1>6. QED
  BY <1>5

\* And the only new one in the foreground is the child that was forked there.
LEMMA ForkCovered ==
  ASSUME ListInv, NEW pid \in NewPid, NEW background \in BOOLEAN, NEW reads, UNCHANGED setup,
         Efork(pid, background, reads)
  PROVE  \A p : Has(proclist', Foreg(p)) => (~background /\ p = pid) \/ Has(proclist, Foreg(p))
<1>1. [pid |-> pid, background |-> background] \in Entry
  BY EforkStep DEF Entry
<1>2. \A x : Has(proclist', x) <=> x = [pid |-> pid, background |-> background] \/ Has(proclist, x)
  BY <1>1, HasNew DEF Efork, ListInv
<1>3. QED
  BY <1>2 DEF Foreg

\* What the list says after a pipe was forked.
LEMMA PipeHas ==
  ASSUME ListInv, NEW pid1 \in NewPid, NEW pid2 \in NewPid, Pipe(pid1, pid2), NEW x
  PROVE  Has(proclist', x) <=> x = Foreg(pid1) \/ x = Foreg(pid2) \/ Has(proclist, x)
<1>. DEFINE e1 == Foreg(pid1)
            e2 == Foreg(pid2)
<1>1. proclist' = <<e2, e1>> \o proclist
  BY DEF Pipe, Foreg
<1>2. e1 \in Entry /\ e2 \in Entry /\ proclist \in Seq(Entry)
  BY PipeStep DEF Foreg, Entry, ListInv
<1>. HIDE DEF e1, e2
<1>3. proclist' = <<e2>> \o (<<e1>> \o proclist)
  BY <1>1, <1>2
<1>4. PICK l : l = <<e1>> \o proclist
  OBVIOUS
<1>5. l \in Seq(Entry) /\ (Has(l, x) <=> x = e1 \/ Has(proclist, x))
  BY <1>2, <1>4, SeqCons, HasNew
<1>6. Has(<<e2>> \o l, x) <=> x = e2 \/ Has(l, x)
  BY <1>2, <1>5, HasNew
<1>7. QED
  BY <1>3, <1>4, <1>5, <1>6 DEF e1, e2

\* Neither of them runs in the background.
LEMMA PipeStarted ==
  ASSUME ListInv, NEW pid1 \in NewPid, NEW pid2 \in NewPid, Pipe(pid1, pid2),
         started = Started(kids, proclist)
  PROVE  started' = Started(kids', proclist')
<1>1. /\ {pid1, pid2} \subseteq Pids \ DOMAIN kids /\ DOMAIN kids' = DOMAIN kids \cup {pid1, pid2}
      /\ \A q \in DOMAIN kids : kids'[q] = kids[q]
  BY PipeStep
<1>2. \A q : Has(proclist', Backg(q)) <=> Has(proclist, Backg(q))
  BY PipeHas DEF Backg, Foreg
<1>3. \A q : Has(proclist, Backg(q)) => q \in DOMAIN kids
  BY DEF Has, Backg, ListInv, Once
<1>4. Started(kids', proclist') = Started(kids, proclist)
  BY <1>1, <1>2, <1>3 DEF Started
<1>5. QED
  BY <1>4 DEF Pipe

\* What it says after a child was reaped.
LEMMA EwaitHas ==
  ASSUME ListInv, NEW pid \in Pids, Ewait(pid), NEW x
  PROVE  Has(proclist', x) => Has(proclist, x) /\ x.pid # pid
<1>1. /\ proclist \in Seq(Entry) /\ Once(proclist, DOMAIN kids)
      /\ Len(proclist) \in Nat /\ DOMAIN proclist = 1 .. Len(proclist)
  BY LenProperties DEF ListInv
<1>2. PICK k \in DOMAIN proclist : proclist[k].pid = pid
  BY DEF Ewait, InList
<1>3. \A n \in 1 .. k - 1 : proclist[n].pid # pid
  BY <1>1, <1>2 DEF Once
<1>4. PICK m \in DOMAIN proclist : proclist[m].pid = pid /\ proclist' = RemoveAt(proclist, m)
  BY <1>2, <1>3 DEF Ewait, Unlink
<1>5. QED
  BY <1>1, <1>4, HasReaped

\* The job that was waited for is no more, and all others still run.
LEMMA EwaitStarted ==
  ASSUME ListInv, NEW pid \in Pids, Ewait(pid), Apart(kids), started = Started(kids, proclist)
  PROVE  started' = Started(kids', proclist')
<1>1. /\ DOMAIN kids' = DOMAIN kids \ {pid} /\ \A q \in DOMAIN kids' : kids'[q] = kids[q]
      /\ \A x : Has(proclist, x) /\ x.pid # pid => Has(proclist', x)
  BY EwaitStep
<1>2. \A q : Has(proclist', Backg(q)) <=> Has(proclist, Backg(q)) /\ q # pid
  BY <1>1, EwaitHas DEF Backg
<1>3. pid \in DOMAIN kids /\ started' = started \ {kids[pid].job}
  BY DEF Ewait, Collected
<1>4. ASSUME NEW j PROVE j \in Started(kids', proclist') <=> j \in started'
  <2>1. j \in Started(kids', proclist')
          <=> \E q \in DOMAIN kids' : Has(proclist', Backg(q)) /\ kids'[q].job = j
    BY DEF Started
  <2>2. j \in started <=> \E q \in DOMAIN kids : Has(proclist, Backg(q)) /\ kids[q].job = j
    BY DEF Started
  <2>3. \A q \in DOMAIN kids : kids[q].job = kids[pid].job <=> q = pid
    BY <1>3 DEF Apart
  <2>4. (\E q \in DOMAIN kids' : Has(proclist', Backg(q)) /\ kids'[q].job = j)
          <=> j \in started /\ j # kids[pid].job
    BY <1>1, <1>2, <2>2, <2>3
  <2>5. QED
    BY <1>3, <2>1, <2>4
<1>5. QED
  BY <1>4

\* Fewer children are apart as well.
LEMMA ApartLess ==
  ASSUME NEW ks, Apart(ks), NEW ks2, DOMAIN ks2 \subseteq DOMAIN ks,
         \A q \in DOMAIN ks2 : ks2[q].job = ks[q].job /\ ks2[q].holds = ks[q].holds
  PROVE  Apart(ks2)
BY DEF Apart

-----------------------------------------------------------------------------
(* The steps. *)

\* A construct that forks a child begins.
LEMMA RunFrame ==
  ASSUME NEW pid, Run(pid) \/ Around(pid)
  PROVE  \E f : /\ frames' = Append(frames, f) /\ f.kind \in {"one", "around"}
                /\ f.pids = <<pid>> /\ f.jobs = <<Job>>
<1>1. \A k, w : /\ Frame(k, w, <<pid>>, <<Job>>).kind = k
                /\ Frame(k, w, <<pid>>, <<Job>>).pids = <<pid>>
                /\ Frame(k, w, <<pid>>, <<Job>>).jobs = <<Job>>
  BY DEF Frame
<1>2. CASE Run(pid)
  <2>1. frames' = Append(frames, Frame("one", "wait", <<pid>>, <<Job>>))
    BY <1>2 DEF Run
  <2>2. QED
    BY <1>1, <2>1
<1>3. CASE Around(pid)
  <2>1. frames' = Append(frames, Frame("around", "body", <<pid>>, <<Job>>))
    BY <1>3 DEF Around
  <2>2. QED
    BY <1>1, <2>1
<1>4. QED
  BY <1>2, <1>3

\* Programs keep to the depth of their setup, and so to the largest one.
LEMMA DepthFits == ASSUME ListInv PROVE setup.depth \in 1 .. MaxDepth
BY SetupAssumption DEF ListInv, Setup

\* What remains to be shown of a step.
ApidsStep == JobInv' /\ StartedInv' /\ CoverInv'

\* %run, fork and so on, and the constructs that run a command.
LEMMA RunApids ==
  ASSUME ApidsInv, NEW pid \in NewPid, Run(pid) \/ Around(pid)
  PROVE  ApidsStep
<1>1. /\ UNCHANGED <<setup, started>> /\ Running /\ Len(frames) < setup.depth
      /\ \E reads \in BOOLEAN : Efork(pid, FALSE, reads)
  BY DEF Run, Around
<1>2. PICK f : /\ frames' = Append(frames, f) /\ f.kind \in {"one", "around"}
               /\ f.pids = <<pid>> /\ f.jobs = <<Job>>
  BY RunFrame
<1>3. /\ ListInv /\ Shape(frames) /\ JobInv /\ CoverInv /\ StartedInv
      /\ Open(frames) /\ IsSeq(frames)
  BY <1>1, OpenRunning DEF ApidsInv, OwnInv, Children, Shape
<1>4. pid \in Pids \ DOMAIN kids
  BY <1>1, <1>3, EforkStep
<1>5. /\ IsSeq(f.jobs) /\ Len(f.jobs) = 1 /\ Len(f.pids) = 1 /\ DOMAIN f.pids = {1}
      /\ f.pids[1] = pid
  BY <1>2, SeqOne
<1>6. Few(f) /\ Own(f) = {pid}
  BY <1>2, <1>4, <1>5 DEF Few, Own
<1>7. Bounded(frames')
  BY <1>1, <1>2, <1>3, <1>6, DepthFits, PushBounded DEF JobInv
<1>8. Apart(kids')
  BY <1>1, <1>3, EforkApart
<1>9. StartedInv'
  <2>1. PICK reads \in BOOLEAN : Efork(pid, FALSE, reads)
    BY <1>1
  <2>2. started' = IF FALSE THEN started \cup {Job} ELSE started
    BY <1>1
  <2>3. FALSE \in BOOLEAN
    OBVIOUS
  <2>4. QED
    BY <1>1, <1>3, <2>1, <2>2, <2>3, ForkStarted DEF StartedInv
<1>10. Kept(frames', kids')
  BY <1>2, <1>3, PushKept
<1>11. ~setup.forkFails => Covered(frames', proclist')
  <2>1. SUFFICES ASSUME ~setup.forkFails PROVE Covered(frames', proclist')
    OBVIOUS
  <2>2. \A p : Has(proclist', Foreg(p)) => p = pid \/ Has(proclist, Foreg(p))
    BY <1>1, <1>3, ForkCovered
  <2>3. Covered(frames, proclist)
    BY <1>3, <2>1 DEF CoverInv
  <2>4. \A p : Has(proclist', Foreg(p)) => p \in Own(f) \/ \E i \in DOMAIN frames : p \in Own(frames[i])
    BY <1>6, <2>2, <2>3 DEF Covered
  <2>5. QED
    BY <1>2, <1>3, <2>4, PushCovered
<1>12. QED
  BY <1>1, <1>7, <1>8, <1>9, <1>10, <1>11 DEF ApidsStep, JobInv, CoverInv

\* A job in the background: apids gets what started gets.
LEMMA BackgroundApids ==
  ASSUME ApidsInv, NEW pid \in NewPid, Background(pid)
  PROVE  ApidsStep
<1>1. /\ UNCHANGED <<setup, frames>> /\ Running /\ Efork(pid, TRUE, FALSE)
      /\ started' = started \cup {Job}
  BY DEF Background
<1>2. /\ ListInv /\ Shape(frames) /\ JobInv /\ CoverInv /\ StartedInv
      /\ Open(frames)
  BY <1>1, OpenRunning DEF ApidsInv, OwnInv, Children
<1>3. Apart(kids')
  BY <1>1, <1>2, EforkApart
<1>4. StartedInv'
  <2>1. started' = IF TRUE THEN started \cup {Job} ELSE started
    BY <1>1
  <2>2. TRUE \in BOOLEAN
    OBVIOUS
  <2>3. QED
    BY <1>1, <1>2, <2>1, <2>2, ForkStarted DEF StartedInv
<1>5. Kept(frames, kids')
  BY <1>2, SameKept DEF Same
<1>6. \A p : Has(proclist', Foreg(p)) => Has(proclist, Foreg(p))
  BY <1>1, <1>2, ForkCovered
<1>7. QED
  BY <1>1, <1>2, <1>3, <1>4, <1>5, <1>6 DEF ApidsStep, JobInv, CoverInv, Covered

\* A construct that is left before its wait leaves a child to nobody; but only there.
LEMMA AbandonApids ==
  ASSUME ApidsInv, NEW pid \in NewPid, Abandon(pid)
  PROVE  ApidsStep
<1>1. /\ UNCHANGED <<setup, started>> /\ Running /\ Efork(pid, FALSE, FALSE)
      /\ frames' \in Thrown(frames) /\ setup.forkFails
  BY DEF Abandon, Throw
<1>2. /\ ListInv /\ Shape(frames) /\ JobInv /\ CoverInv /\ StartedInv
      /\ Open(frames)
  BY <1>1, OpenRunning DEF ApidsInv, OwnInv, Children
<1>3. Same(frames, frames')
  BY <1>1, <1>2, ThrownOK
<1>4. Apart(kids')
  BY <1>1, <1>2, EforkApart
<1>5. StartedInv'
  <2>1. started' = IF FALSE THEN started \cup {Job} ELSE started
    BY <1>1
  <2>2. FALSE \in BOOLEAN
    OBVIOUS
  <2>3. QED
    BY <1>1, <1>2, <2>1, <2>2, ForkStarted DEF StartedInv
<1>6. Kept(frames', kids') /\ Bounded(frames')
  BY <1>2, <1>3, SameKept, SameBounded DEF JobInv
<1>7. QED
  BY <1>1, <1>4, <1>5, <1>6 DEF ApidsStep, JobInv, CoverInv

\* Both commands of a pipe.
LEMMA PipeApids ==
  ASSUME ApidsInv, NEW pid1 \in NewPid, NEW pid2 \in NewPid, Pipe(pid1, pid2)
  PROVE  ApidsStep
<1>. DEFINE j1 == kids'[pid1].job
            j2 == kids'[pid2].job
            f  == Frame("pipe", "wait", <<pid1, pid2>>, <<j1, j2>>)
<1>1. /\ UNCHANGED <<setup, started>> /\ Running /\ Len(frames) < setup.depth
  BY DEF Pipe
<1>2. /\ ListInv /\ Shape(frames) /\ JobInv /\ CoverInv /\ StartedInv
      /\ Open(frames) /\ IsSeq(frames)
  BY <1>1, OpenRunning DEF ApidsInv, OwnInv, Children, Shape
<1>3. /\ pid1 # pid2 /\ {pid1, pid2} \subseteq Pids \ DOMAIN kids
      /\ DOMAIN kids' = DOMAIN kids \cup {pid1, pid2}
      /\ frames' = Append(frames, f)
  BY <1>2, PipeStep
<1>4. f.kind = "pipe" /\ f.pids = <<pid1, pid2>> /\ f.jobs = <<j1, j2>>
  BY DEF Frame
<1>. HIDE DEF j1, j2, f
<1>5. /\ IsSeq(f.jobs) /\ Len(f.jobs) = 2 /\ DOMAIN f.pids = 1 .. 2
      /\ f.pids[1] = pid1 /\ f.pids[2] = pid2
  <2>1. <<j1, j2>> \in Seq({j1, j2})
    OBVIOUS
  <2>2. IsSeq(f.jobs)
    BY <1>4, <2>1 DEF IsSeq
  <2>3. QED
    BY <1>4, <2>2
<1>6. Few(f) /\ Own(f) = {pid1, pid2}
  <2>1. \A k \in DOMAIN f.pids : f.pids[k] \in {pid1, pid2}
    BY <1>5
  <2>2. pid1 \in {f.pids[k] : k \in DOMAIN f.pids} /\ pid2 \in {f.pids[k] : k \in DOMAIN f.pids}
    BY <1>5
  <2>3. f.kind # "wait" /\ f.kind \notin {"one", "around"}
    BY <1>4
  <2>4. Own(f) = {pid1, pid2}
    BY <2>1, <2>2, <2>3 DEF Own
  <2>5. QED
    BY <1>3, <1>4, <1>5, <2>1, <2>4 DEF Few
<1>7. Bounded(frames')
  BY <1>1, <1>2, <1>3, <1>6, DepthFits, PushBounded DEF JobInv
<1>8. Apart(kids')
  BY <1>2, PipeApart
<1>9. StartedInv'
  BY <1>1, <1>2, PipeStarted DEF StartedInv
<1>10. Kept(frames', kids')
  <2>1. \A k, m \in DOMAIN f.pids : f.pids[k] \in DOMAIN kids' /\ (f.pids[k] = f.pids[m] => k = m)
    BY <1>3, <1>5
  <2>2. QED
    BY <1>2, <1>3, <2>1, PushKept
<1>11. ~setup.forkFails => Covered(frames', proclist')
  <2>1. SUFFICES ASSUME ~setup.forkFails PROVE Covered(frames', proclist')
    OBVIOUS
  <2>2. \A p : Has(proclist', Foreg(p)) => p \in {pid1, pid2} \/ Has(proclist, Foreg(p))
    BY <1>2, PipeHas DEF Foreg
  <2>3. Covered(frames, proclist)
    BY <1>2, <2>1 DEF CoverInv
  <2>4. \A p : Has(proclist', Foreg(p)) => p \in Own(f) \/ \E i \in DOMAIN frames : p \in Own(frames[i])
    BY <1>6, <2>2, <2>3 DEF Covered
  <2>5. QED
    BY <1>2, <1>3, <2>4, PushCovered
<1>12. QED
  BY <1>1, <1>7, <1>8, <1>9, <1>10, <1>11 DEF ApidsStep, JobInv, CoverInv

\* A command that fails before it has forked anything, or ends inside of a construct.
LEMMA RephaseApids ==
  ASSUME ApidsInv, ForkFail \/ BodyEnd
  PROVE  ApidsStep
<1>1. UNCHANGED <<setup, kids, proclist, started>> /\ Running
  BY DEF ForkFail, BodyEnd, Running
<1>2. /\ Shape(frames) /\ JobInv /\ CoverInv /\ StartedInv /\ Open(frames)
  BY <1>1, OpenRunning DEF ApidsInv, OwnInv, Children
<1>3. Same(frames, frames')
  <2>1. CASE ForkFail
    BY <1>2, <2>1, ThrownOK DEF ForkFail, Throw
  <2>2. CASE BodyEnd
    <3>1. /\ frames # <<>>
          /\ \E failed \in BOOLEAN :
               frames' = Append(Front(frames), [Last(frames) EXCEPT !.phase = "wait", !.failed = failed])
      BY <2>2 DEF BodyEnd, Top
    <3>2. QED
      BY <1>2, <3>1, Rephased
  <2>3. QED
    BY <2>1, <2>2
<1>4. Bounded(frames') /\ Kept(frames', kids)
  BY <1>2, <1>3, SameKept, SameBounded DEF JobInv
<1>5. ~setup.forkFails => Covered(frames', proclist)
  BY <1>2, <1>3, SameCovered DEF CoverInv
<1>6. QED
  BY <1>1, <1>2, <1>4, <1>5 DEF ApidsStep, JobInv, CoverInv, StartedInv

\* $&wait has no child of its own.
LEMMA WaitApids ==
  ASSUME ApidsInv, NEW pid \in Pids \cup {AnyPid}, Wait(pid)
  PROVE  ApidsStep
<1>. DEFINE f == Frame("wait", "wait", <<pid>>, <<>>)
<1>1. /\ UNCHANGED <<setup, kids, proclist, started>> /\ Running /\ Len(frames) < setup.depth
      /\ frames' = Append(frames, f)
  BY DEF Wait
<1>2. f.kind = "wait" /\ f.jobs = <<>>
  BY DEF Frame
<1>. HIDE DEF f
<1>3. /\ ListInv /\ JobInv /\ CoverInv /\ StartedInv /\ Open(frames) /\ IsSeq(frames)
  BY <1>1, OpenRunning DEF ApidsInv, OwnInv, Children, Shape
<1>4. Few(f)
  <2>1. <<>> \in Seq({}) /\ Len(<<>>) = 0
    BY EmptySeq
  <2>2. IsSeq(f.jobs) /\ Len(f.jobs) = 0
    BY <1>2, <2>1 DEF IsSeq
  <2>3. QED
    BY <1>2, <2>2 DEF Few
<1>5. Bounded(frames')
  BY <1>1, <1>3, <1>4, DepthFits, PushBounded DEF JobInv
<1>6. Kept(frames', kids)
  BY <1>1, <1>2, <1>3, PushKept
<1>7. ~setup.forkFails => Covered(frames', proclist)
  BY <1>1, <1>3, PushCovered DEF CoverInv, Covered
<1>8. QED
  BY <1>1, <1>3, <1>5, <1>6, <1>7 DEF ApidsStep, JobInv, CoverInv, StartedInv

\* What is around a construct that ends goes on.
LEMMA EndApids ==
  ASSUME NEW fs, Shape(fs), fs # <<>>, Bounded(fs), NEW gs, Same(Front(fs), gs), NEW ks
  PROVE  Bounded(gs) /\ Kept(gs, ks)
<1>1. Open(Front(fs)) /\ Bounded(Front(fs))
  BY OpenPop, PopBounded DEF Shape
<1>2. QED
  BY <1>1, SameBounded, SameKept

\* A construct gives up when its child is not there; a pipeline, whose two children
\* are there, never does.
LEMMA GiveUpApids ==
  ASSUME ApidsInv, Interrupted \/ EwaitFail
  PROVE  ApidsStep
<1>1. /\ UNCHANGED <<setup, kids, proclist, started>>
      /\ frames # <<>> /\ frames' \in Thrown(Front(frames))
  BY DEF Interrupted, EwaitFail, Throw
<1>2. /\ ListInv /\ Shape(frames) /\ JobInv /\ CoverInv /\ StartedInv /\ IsSeq(frames)
  BY DEF ApidsInv, OwnInv, Children, Shape
<1>3. Same(Front(frames), frames')
  BY <1>1, <1>2, OpenPop, ThrownOK
<1>4. Bounded(frames') /\ Kept(frames', kids)
  BY <1>1, <1>2, <1>3, EndApids DEF JobInv
<1>5. ASSUME ~setup.forkFails PROVE Covered(frames', proclist)
  <2>1. ASSUME NEW p, Has(proclist, Foreg(p)) PROVE p \notin Own(Last(frames))
    <3>1. PICK e : e = Last(frames)
      OBVIOUS
    <3>2. p \in DOMAIN kids
      BY <1>2, <2>1 DEF Has, Foreg, ListInv, Once
    <3>3. CASE Interrupted
      BY <3>1, <3>3 DEF Interrupted, Top, Own
    <3>4. CASE EwaitFail
      <4>1. Last(e.pids) # AnyPid /\ Last(e.pids) \notin DOMAIN kids
        BY <3>1, <3>2, <3>4 DEF EwaitFail, Top
      <4>2. Len(frames) \in DOMAIN frames /\ e = frames[Len(frames)]
        BY <1>1, <1>2, <3>1, SeqPop
      <4>3. FrameOK(e) /\ Few(e)
        BY <1>2, <4>2 DEF Shape, JobInv, Bounded
      <4>4. /\ DOMAIN e.pids = 1 .. Len(e.pids) /\ Len(e.pids) \in Nat \ {0}
            /\ Last(e.pids) = e.pids[Len(e.pids)]
        <5>1. IsSeq(e.pids) /\ e.pids # <<>>
          BY <4>3 DEF FrameOK
        <5>2. QED
          BY <5>1, SeqPop
      <4>5. e.kind # "pipe"
        <5>1. Len(e.pids) \in DOMAIN e.pids
          BY <4>4
        <5>2. e.kind = "pipe" => e.pids[Len(e.pids)] \in DOMAIN kids
          BY <1>2, <4>2, <5>1 DEF CoverInv, Kept
        <5>3. QED
          BY <4>1, <4>4, <5>2
      <4>6. CASE e.kind = "wait"
        BY <3>1, <4>6 DEF Own
      <4>7. CASE e.kind \in {"one", "around"}
        <5>1. Len(e.pids) = 1
          BY <4>3, <4>7 DEF Few
        <5>2. \A k \in DOMAIN e.pids : e.pids[k] \notin DOMAIN kids
          BY <4>1, <4>4, <5>1
        <5>3. p \notin Own(e)
          BY <3>2, <5>2 DEF Own
        <5>4. QED
          BY <3>1, <5>3
      <4>8. QED
        BY <4>3, <4>5, <4>6, <4>7 DEF FrameOK
    <3>5. QED
      BY <3>3, <3>4
  <2>2. Covered(Front(frames), proclist)
    BY <1>1, <1>2, <1>5, <2>1, PopCovered DEF CoverInv
  <2>3. QED
    BY <1>3, <2>2, SameCovered
<1>6. QED
  BY <1>1, <1>2, <1>4, <1>5 DEF ApidsStep, JobInv, CoverInv, StartedInv

\* waitpid returns a child: a pipeline waits for its other one, and any other construct
\* has none left.
LEMMA EwaitApids ==
  ASSUME ApidsInv, NEW pid \in Pids, Ewait(pid)
  PROVE  ApidsStep
<1>. DEFINE n == Len(frames)
            rest == Front(frames)
<1>1. /\ setup' = setup /\ frames # <<>> /\ Last(Top.pids) \in {pid, AnyPid} /\ frames' \in After
  BY DEF Ewait, Collected
<1>2. /\ ListInv /\ Shape(frames) /\ JobInv /\ CoverInv /\ StartedInv /\ IsSeq(frames)
  BY DEF ApidsInv, OwnInv, Children, Shape
<1>3. /\ DOMAIN frames = 1 .. n /\ n \in Nat \ {0} /\ Top = frames[n] /\ Top = Last(frames)
      /\ DOMAIN rest = 1 .. n - 1 /\ \A i \in 1 .. n - 1 : rest[i] = frames[i]
      /\ IsSeq(rest)
  BY <1>1, <1>2, SeqPop DEF Top
<1>4. FrameOK(Top) /\ Few(Top) /\ n \in DOMAIN frames
  <2>1. n \in DOMAIN frames
    BY <1>3
  <2>2. FrameOK(frames[n]) /\ Few(frames[n])
    BY <1>2, <2>1 DEF Shape, JobInv, Bounded
  <2>3. QED
    BY <1>3, <2>1, <2>2
<1>5. /\ DOMAIN Top.pids = 1 .. Len(Top.pids) /\ Len(Top.pids) \in Nat \ {0}
      /\ Last(Top.pids) = Top.pids[Len(Top.pids)]
      /\ Len(Front(Top.pids)) = Len(Top.pids) - 1 /\ IsSeq(Front(Top.pids))
  <2>1. IsSeq(Top.pids) /\ Top.pids # <<>>
    BY <1>4 DEF FrameOK
  <2>2. QED
    BY <2>1, SeqPop
<1>6. Open(rest) /\ Bounded(rest)
  BY <1>1, <1>2, OpenPop, PopBounded DEF JobInv
<1>7. /\ DOMAIN kids' = DOMAIN kids \ {pid} /\ \A q \in DOMAIN kids' : kids'[q] = kids[q]
      /\ \A p : Has(proclist', Foreg(p)) => Has(proclist, Foreg(p)) /\ p # pid
  BY <1>2, EwaitStep, EwaitHas DEF Foreg
<1>8. Apart(kids')
  BY <1>2, <1>7, ApartLess DEF JobInv
<1>9. StartedInv'
  BY <1>1, <1>2, EwaitStarted DEF StartedInv, JobInv
<1>10. Top.kind # "wait" => pid = Top.pids[Len(Top.pids)]
  <2>1. Top.kind # "wait" => Top.pids[Len(Top.pids)] \in Pids
    BY <1>4, <1>5 DEF Few
  <2>2. AnyPid \notin Pids
    BY PidAssumption DEF AnyPid
  <2>3. QED
    BY <1>1, <1>5, <2>1, <2>2
<1>. HIDE DEF n, rest
<1>11. ASSUME Front(Top.pids) = <<>>, ~setup.forkFails PROVE Covered(rest, proclist')
  <2>1. Len(Top.pids) = 1
    BY <1>5, <1>11, EmptySeq
  <2>2. Own(Top) \subseteq {pid}
    BY <1>5, <1>10, <2>1 DEF Own
  <2>3. \A p : Has(proclist', Foreg(p)) => Has(proclist, Foreg(p)) /\ p \notin Own(Last(frames))
    BY <1>3, <1>7, <2>2
  <2>4. Covered(frames, proclist)
    BY <1>2, <1>11 DEF CoverInv
  <2>5. QED
    BY <1>1, <1>2, <2>3, <2>4, PopCovered DEF rest
<1>12. CASE frames' \in {rest} \cup Thrown(rest) /\ Front(Top.pids) = <<>>
  <2>1. Same(rest, frames')
    BY <1>6, <1>12, ThrownOK DEF Same
  <2>2. Bounded(frames') /\ Kept(frames', kids')
    BY <1>6, <2>1, SameBounded, SameKept
  <2>3. ~setup.forkFails => Covered(frames', proclist')
    BY <1>11, <1>12, <2>1, SameCovered
  <2>4. QED
    BY <1>1, <1>8, <1>9, <2>2, <2>3 DEF ApidsStep, JobInv, CoverInv
<1>13. ASSUME NEW left, Front(Top.pids) # <<>>, frames' = Append(rest, left), left = Less(Top)
       PROVE  ApidsStep
  <2>1. /\ FrameOK(left) /\ left.kind # "wait" /\ left.kind = Top.kind
        /\ DOMAIN left.pids = DOMAIN Top.pids \ {Len(Top.pids)}
        /\ \A k \in DOMAIN left.pids : left.pids[k] = Top.pids[k]
    BY <1>4, <1>13, LeftOK
  <2>2. Len(Top.pids) # 1
    <3>1. Len(Front(Top.pids)) # 0
      BY <1>5, <1>13, EmptySeq DEF IsSeq
    <3>2. QED
      BY <1>5, <3>1
  <2>3. Top.kind = "pipe" /\ Len(Top.jobs) = Len(Top.pids) /\ Len(Top.jobs) <= 2
    BY <1>4, <2>1, <2>2 DEF FrameOK, Few
  <2>4. IsSeq(left.jobs) /\ IsSeq(left.pids) /\ Len(left.jobs) = Len(left.pids)
    BY <2>1 DEF FrameOK
  <2>5. Len(left.pids) = Len(Top.pids) - 1
    <3>1. DOMAIN left.pids = 1 .. Len(left.pids) /\ Len(left.pids) \in Nat
      BY <2>4, SeqPush
    <3>2. DOMAIN left.pids = 1 .. Len(Top.pids) - 1
      BY <1>5, <2>1, UpToLast
    <3>3. QED
      BY <1>5, <3>1, <3>2
  <2>6. Few(left)
    BY <1>4, <1>5, <2>1, <2>3, <2>4, <2>5 DEF Few
  <2>7. Bounded(frames')
    <3>1. rest = Front(frames) /\ Len(rest) = n - 1
      BY <1>1, <1>2, SeqPop DEF rest, n
    <3>2. n \in 1 .. MaxDepth
      BY <1>2, <1>4 DEF JobInv, Bounded
    <3>3. Len(rest) < n
      BY <3>1, <3>2
    <3>4. QED
      BY <1>3, <1>6, <1>13, <2>6, <3>2, <3>3, PushBounded
  <2>8. \A k \in DOMAIN left.pids : k \in DOMAIN Top.pids /\ k # Len(Top.pids) /\ left.pids[k] = Top.pids[k]
    BY <2>1
  <2>9. \A k, m \in DOMAIN Top.pids :
          Top.pids[k] \in DOMAIN kids /\ (Top.pids[k] = Top.pids[m] => k = m)
    <3>1. frames[n].kind = "pipe"
      BY <1>3, <2>3
    <3>2. \A k, m \in DOMAIN frames[n].pids :
            frames[n].pids[k] \in DOMAIN kids /\ (frames[n].pids[k] = frames[n].pids[m] => k = m)
      BY <1>2, <1>4, <3>1 DEF CoverInv, Kept
    <3>3. QED
      BY <1>3, <3>2
  <2>10. pid = Top.pids[Len(Top.pids)] /\ Len(Top.pids) \in DOMAIN Top.pids
    BY <1>5, <1>10, <2>3
  <2>11. \A k, m \in DOMAIN left.pids :
           left.pids[k] \in DOMAIN kids' /\ (left.pids[k] = left.pids[m] => k = m)
    BY <1>7, <2>8, <2>9, <2>10
  <2>12. Kept(frames', kids')
    BY <1>6, <1>13, <2>11, PushKept
  <2>13. ASSUME ~setup.forkFails PROVE Covered(frames', proclist')
    <3>1. Covered(frames, proclist)
      BY <1>2, <2>13 DEF CoverInv
    <3>2. Own(Top) \subseteq Own(left) \cup {pid}
      <4>1. \A k \in DOMAIN Top.pids : Top.pids[k] = pid \/ (k \in DOMAIN left.pids /\ left.pids[k] = Top.pids[k])
        BY <2>1, <2>10
      <4>2. QED
        BY <2>1, <4>1 DEF Own
    <3>3. ASSUME NEW p, Has(proclist', Foreg(p))
          PROVE  p \in Own(left) \/ \E i \in DOMAIN rest : p \in Own(rest[i])
      <4>1. PICK i \in DOMAIN frames : p \in Own(frames[i])
        BY <1>7, <3>1, <3>3 DEF Covered
      <4>2. CASE i = n
        BY <1>3, <1>7, <3>2, <3>3, <4>1, <4>2
      <4>3. CASE i # n
        <5>1. i \in DOMAIN rest /\ rest[i] = frames[i]
          BY <1>3, <4>3
        <5>2. QED
          BY <4>1, <5>1
      <4>4. QED
        BY <4>2, <4>3
    <3>4. QED
      BY <1>3, <1>13, <3>3, PushCovered
  <2>14. QED
    BY <1>1, <1>8, <1>9, <2>7, <2>12, <2>13 DEF ApidsStep, JobInv, CoverInv
<1>14. QED
  <2>. DEFINE left == [Top EXCEPT !.pids = Front(@), !.jobs = IF @ = <<>> THEN @ ELSE Front(@)]
  <2>1. left = Less(Top)
    BY <1>4 DEF FrameOK, Less
  <2>2. left.pids = Front(Top.pids)
    BY <1>4 DEF FrameOK
  <2>3. frames' \in IF left.pids # <<>> THEN {Append(rest, left)}
                    ELSE IF Top.failed THEN Thrown(rest)
                    ELSE IF Top.kind = "one" THEN {rest} \cup Thrown(rest)
                    ELSE {rest}
    BY <1>1 DEF After, rest
  <2>. HIDE DEF left
  <2>4. CASE left.pids # <<>>
    BY <1>13, <2>1, <2>2, <2>3, <2>4
  <2>5. CASE left.pids = <<>>
    BY <1>12, <2>2, <2>3, <2>5
  <2>6. QED
    BY <2>4, <2>5

\* Nothing else starts, ends or forgets a job.
LEMMA ApidsNext == ApidsInv /\ [Next]_vars => ApidsInv'
<1>. SUFFICES ASSUME ApidsInv, [Next]_vars PROVE ApidsInv'
  OBVIOUS
<1>1. OwnInv' /\ JobInv /\ StartedInv /\ CoverInv
  BY OwnNext DEF ApidsInv
<1>. SUFFICES ApidsStep
  BY <1>1 DEF ApidsStep, ApidsInv
<1>2. CASE UNCHANGED vars
  BY <1>1, <1>2 DEF vars, ApidsStep, JobInv, StartedInv, CoverInv
<1>3. CASE Child
  <2>1. /\ DOMAIN kids' = {} /\ frames' = <<>> /\ DOMAIN frames' = {} /\ started' = {}
        /\ DOMAIN proclist' = {}
    BY <1>3 DEF Child
  <2>2. QED
    BY <2>1 DEF ApidsStep, JobInv, StartedInv, CoverInv, Apart, Bounded, Started, Kept, Covered, Has
<1>4. CASE ExecShell
  <2>1. /\ UNCHANGED <<setup, kids, frames, started>> /\ setup.inherited
        /\ DOMAIN proclist' = {}
    BY <1>4 DEF ExecShell
  <2>2. QED
    BY <1>1, <2>1 DEF ApidsStep, JobInv, StartedInv, CoverInv, Covered, Has
<1>5. ASSUME NEW pid \in Pids, Exit(pid) PROVE ApidsStep
  <2>1. /\ UNCHANGED <<setup, proclist, frames, started>> /\ pid \in DOMAIN kids
        /\ kids' = [kids EXCEPT ![pid].dead = TRUE]
    BY <1>5 DEF Exit
  <2>2. DOMAIN kids' = DOMAIN kids
    BY <2>1
  <2>3. \A p \in DOMAIN kids : kids'[p].job = kids[p].job /\ kids'[p].holds = kids[p].holds
    BY <2>1
  <2>4. Apart(kids')
    BY <1>1, <2>2, <2>3, ApartLess DEF JobInv
  <2>5. Started(kids', proclist) = Started(kids, proclist)
    BY <2>2, <2>3 DEF Started
  <2>6. QED
    BY <1>1, <2>1, <2>2, <2>4, <2>5 DEF ApidsStep, JobInv, StartedInv, CoverInv, Kept
<1>6. CASE \E pid \in NewPid : Run(pid) \/ Background(pid) \/ Around(pid) \/ Abandon(pid)
  BY <1>6, RunApids, BackgroundApids, AbandonApids
<1>7. CASE \E pid1, pid2 \in NewPid : Pipe(pid1, pid2)
  BY <1>7, PipeApids
<1>8. CASE ForkFail \/ BodyEnd \/ Interrupted \/ EwaitFail
  BY <1>8, RephaseApids, GiveUpApids
<1>9. CASE \E pid \in Pids \cup {AnyPid} : Wait(pid)
  BY <1>9, WaitApids
<1>10. CASE Reap
  BY <1>10, EwaitApids DEF Reap
<1>11. CASE \E pid \in Pids : Exit(pid)
  BY <1>5, <1>11
<1>12. QED
  BY <1>2, <1>3, <1>4, <1>6, <1>7, <1>8, <1>9, <1>10, <1>11 DEF Next

\* At the start there are neither children nor jobs.
LEMMA ApidsInit == Init => ApidsInv
<1>. SUFFICES ASSUME Init PROVE ApidsInv
  OBVIOUS
<1>1. OwnInv
  BY OwnInit
<1>2. frames = <<>> /\ DOMAIN frames = {} /\ DOMAIN kids = {} /\ DOMAIN proclist = {} /\ started = {}
  BY DEF Init
<1>3. JobInv /\ StartedInv /\ CoverInv
  BY <1>2 DEF JobInv, StartedInv, CoverInv, Apart, Bounded, Started, Kept, Covered, Has
<1>4. QED
  BY <1>1, <1>3 DEF ApidsInv

-----------------------------------------------------------------------------
(* The theorem. *)

\* Unless the shell was started over children that it does not know, the entries of its
\* list that are in the background, of which apids is made, are the jobs that were
\* started there and not waited for; and when no construct runs and no fork has failed,
\* the list has no others.
THEOREM ApidsAreExact == Spec => []ApidsExact
<1>1. ASSUME ApidsInv PROVE ApidsExact
  <2>1. /\ proclist \in Seq(Entry) /\ Once(proclist, DOMAIN kids) /\ StartedInv /\ CoverInv
    BY <1>1 DEF ApidsInv, OwnInv, ListInv
  <2>2. \A k \in DOMAIN proclist : proclist[k] \in Entry /\ proclist[k].pid \in DOMAIN kids
    BY <2>1, ElementOfSeq, LenProperties DEF Once
  <2>3. \A k \in DOMAIN proclist :
          proclist[k] = IF proclist[k].background THEN Backg(proclist[k].pid) ELSE Foreg(proclist[k].pid)
    BY <2>2 DEF Entry, Backg, Foreg
  <2>4. {kids[proclist[k].pid].job : k \in {i \in DOMAIN proclist : proclist[i].background}}
          = Started(kids, proclist)
    <3>1. \A p : Has(proclist, Backg(p))
            <=> \E k \in DOMAIN proclist : proclist[k].background /\ proclist[k].pid = p
      BY <2>3 DEF Has, Backg
    <3>2. QED
      BY <2>2, <3>1 DEF Started
  <2>5. ASSUME frames = <<>>, ~setup.forkFails, NEW k \in DOMAIN proclist, ~proclist[k].background
        PROVE  FALSE
    <3>1. Has(proclist, Foreg(proclist[k].pid))
      BY <2>3, <2>5 DEF Has
    <3>2. DOMAIN frames = {}
      BY <2>5
    <3>3. QED
      BY <2>1, <2>5, <3>1, <3>2 DEF CoverInv, Covered
  <2>6. QED
    BY <2>1, <2>4, <2>5 DEF ApidsExact, StartedInv
<1>2. QED
  BY <1>1, ApidsInit, ApidsNext, PTL DEF Spec

=============================================================================
