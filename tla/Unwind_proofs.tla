--------------------------- MODULE Unwind_proofs ---------------------------
EXTENDS Unwind, SequenceTheorems, FiniteSetTheorems, WellFoundedInduction, TLAPS

(***************************************************************************)
(* Whatever settors, catchers and loops do to each other, the handlers and *)
(* the pushed variables of except.c are those of C frames still there      *)
(* (ListsLive): throw never follows a dangling tophandler or pushlist.     *)
(*                                                                         *)
(* A throw takes tophandler off before it runs settors, and they may throw *)
(* again past it.  So the invariant says of every armed frame that it has  *)
(* its handler or that a throw above is on its way to it, of throws that   *)
(* they are nested, and of each handler, on the list or taken by a throw,  *)
(* that the pushlist it saved is still the end of the pushes below it.     *)
(* The parts are predicates of the stack, the handlers, the pushes and the *)
(* mode, so that each move of the machine is a lemma that several actions  *)
(* use.                                                                    *)
(***************************************************************************)

-----------------------------------------------------------------------------
(* Stacks and lists of anything. *)

IsSeq(s) == \E S : s \in Seq(S)

\* A single element.
LEMMA SeqOne ==
  ASSUME NEW e, NEW s, s = <<e>>
  PROVE  IsSeq(s) /\ s # <<>> /\ Len(s) = 1 /\ DOMAIN s = {1} /\ s[1] = e
<1>1. s \in Seq({e}) /\ Len(s) = 1 /\ s[1] = e
  OBVIOUS
<1>2. DOMAIN s = 1 .. 1 /\ s # <<>>
  BY <1>1, LenProperties, EmptySeq
<1>3. \E S : s \in Seq(S)
  BY <1>1
<1>4. QED
  BY <1>1, <1>2, <1>3 DEF IsSeq

\* One element more.
LEMMA SeqPush ==
  ASSUME NEW s, IsSeq(s), NEW e
  PROVE  /\ IsSeq(Append(s, e)) /\ Len(s) \in Nat /\ DOMAIN s = 1 .. Len(s)
         /\ Len(Append(s, e)) = Len(s) + 1 /\ DOMAIN Append(s, e) = 1 .. Len(s) + 1
         /\ Append(s, e)[Len(s) + 1] = e /\ \A i \in 1 .. Len(s) : Append(s, e)[i] = s[i]
<1>1. PICK S : s \in Seq(S)
  BY DEF IsSeq
<1>2. s \in Seq(S \cup {e}) /\ Len(s) \in Nat /\ DOMAIN s = 1 .. Len(s)
  BY <1>1, LenProperties
<1>. DEFINE T == S \cup {e}
<1>3. e \in T /\ s \in Seq(T)
  BY <1>2
<1>. HIDE DEF T
<1>4. Append(s, e) \in Seq(T)
  BY <1>3, AppendProperties
<1>5. IsSeq(Append(s, e))
  BY <1>4 DEF IsSeq
<1>6. /\ Len(Append(s, e)) = Len(s) + 1 /\ DOMAIN Append(s, e) = 1 .. Len(s) + 1
      /\ Append(s, e)[Len(s) + 1] = e /\ \A i \in 1 .. Len(s) : Append(s, e)[i] = s[i]
  BY <1>2, <1>3, <1>4, AppendProperties, LenProperties
<1>7. QED
  BY <1>2, <1>5, <1>6

\* The last element, and the others.
LEMMA SeqPop ==
  ASSUME NEW s, IsSeq(s), s # <<>>
  PROVE  /\ IsSeq(Front(s)) /\ Len(s) \in Nat \ {0} /\ DOMAIN s = 1 .. Len(s)
         /\ Len(Front(s)) = Len(s) - 1 /\ DOMAIN Front(s) = 1 .. Len(s) - 1
         /\ \A i \in 1 .. Len(s) - 1 : Front(s)[i] = s[i]
         /\ Last(s) = s[Len(s)]
<1>1. PICK S : s \in Seq(S)
  BY DEF IsSeq
<1>2. Len(s) \in Nat \ {0} /\ DOMAIN s = 1 .. Len(s) /\ \A i \in 1 .. Len(s) : s[i] \in S
  BY <1>1, EmptySeq, LenProperties, ElementOfSeq
<1>3. Last(s) = s[Len(s)] /\ Front(s) = SubSeq(s, 1, Len(s) - 1)
  BY DEF Last, Front
<1>4. Front(s) = [i \in 1 .. Len(s) - 1 |-> s[i]]
  BY <1>2, <1>3
<1>5. Front(s) \in Seq(S) /\ Len(Front(s)) = Len(s) - 1
  BY <1>2, <1>4
<1>6. QED
  BY <1>2, <1>3, <1>4, <1>5 DEF IsSeq

\* The last element changed.
LEMMA SeqChange ==
  ASSUME NEW s, IsSeq(s), s # <<>>, NEW e
  PROVE  /\ IsSeq(Append(Front(s), e)) /\ Len(s) \in Nat \ {0} /\ DOMAIN s = 1 .. Len(s)
         /\ Len(Append(Front(s), e)) = Len(s) /\ DOMAIN Append(Front(s), e) = DOMAIN s
         /\ Append(Front(s), e)[Len(s)] = e
         /\ \A i \in DOMAIN s \ {Len(s)} : Append(Front(s), e)[i] = s[i]
<1>1. PICK f : f = Front(s)
  OBVIOUS
<1>2. /\ IsSeq(f) /\ Len(s) \in Nat \ {0} /\ DOMAIN s = 1 .. Len(s)
      /\ Len(f) = Len(s) - 1 /\ \A i \in 1 .. Len(s) - 1 : f[i] = s[i]
  BY <1>1, SeqPop
<1>3. PICK t : t = Append(f, e)
  OBVIOUS
<1>4. IsSeq(f)
  BY <1>2
<1>5. /\ IsSeq(Append(f, e)) /\ Len(Append(f, e)) = Len(f) + 1
      /\ DOMAIN Append(f, e) = 1 .. Len(f) + 1
      /\ Append(f, e)[Len(f) + 1] = e
      /\ \A i \in 1 .. Len(f) : Append(f, e)[i] = f[i]
  BY <1>4, SeqPush
<1>6. /\ IsSeq(t) /\ Len(t) = Len(f) + 1 /\ DOMAIN t = 1 .. Len(f) + 1
      /\ t[Len(f) + 1] = e /\ \A i \in 1 .. Len(f) : t[i] = f[i]
  BY <1>3, <1>5, Zenon
<1>7. /\ Len(t) = Len(s) /\ DOMAIN t = DOMAIN s /\ t[Len(s)] = e
      /\ \A i \in DOMAIN s \ {Len(s)} : t[i] = s[i]
  BY <1>2, <1>6
<1>8. QED
  BY <1>1, <1>2, <1>3, <1>6, <1>7, Zenon

\* Sequences of the same length with the same elements.
LEMMA SeqSame ==
  ASSUME NEW s, IsSeq(s), NEW t, IsSeq(t), Len(s) = Len(t),
         \A i \in 1 .. Len(s) : s[i] = t[i]
  PROVE  s = t
<1>1. PICK S : s \in Seq(S)
  BY DEF IsSeq
<1>2. PICK T : t \in Seq(T)
  BY DEF IsSeq
<1>3. QED
  BY <1>1, <1>2, SeqEqual

-----------------------------------------------------------------------------
(* The invariant. *)

\* A throw from above frame i unwinds to below it.
Doomed(stk, i) ==
  \E j \in i + 1 .. Len(stk) : stk[j].kind = "throw" /\ stk[j].to.at < i

\* A throw from above unwinds to frame i.
Targeted(stk, i) ==
  \E j \in i + 1 .. Len(stk) : stk[j].kind = "throw" /\ stk[j].to.at = i

\* The push at q, or none if it is 0, is the last one below at.
Saved(ps, at, q) ==
  /\ q = 0 \/ \E k \in DOMAIN ps : ps[k].at = q
  /\ \A k \in DOMAIN ps : ~(q < ps[k].at /\ ps[k].at < at)

\* A frame of the model.
FrameOK(f) ==
  /\ f.kind \in Kinds
  /\ DOMAIN f = {"kind", "name", "val", "exc", "to", "evals"}

\* main's frame is at the bottom.
Frames(stk) ==
  /\ IsSeq(stk) /\ stk # <<>> /\ stk[1].kind = "top"
  /\ \A i \in DOMAIN stk : FrameOK(stk[i])

\* A handler is that of an armed frame, and saved the pushlist of its time: only
\* callsettor's has the push of its own frame below it.
HandlerOK(stk, h) ==
  /\ h.at \in DOMAIN stk /\ stk[h.at].kind \in Armed
  /\ h.pushlist \in 0 .. h.at
  /\ h.pushlist = h.at => stk[h.at].kind = "settor"

\* The chain of handlers goes down the stack, and what each saved is there.
Handlers(stk, hs, ps) ==
  /\ IsSeq(hs) /\ Rising(hs)
  /\ \A k \in DOMAIN hs : HandlerOK(stk, hs[k]) /\ Saved(ps, hs[k].at, hs[k].pushlist)

\* The frames that have a Push of their own.
PushFrames == {"call", "settor", "dead", "local"}

\* pushlist goes down the stack too.
Pushes(stk, ps) ==
  /\ IsSeq(ps) /\ Rising(ps)
  /\ \A k \in DOMAIN ps : ps[k].at \in DOMAIN stk /\ stk[ps[k].at].kind \in PushFrames

\* The throw of frame j took the handler to: none is left between them, a throw
\* above ends above it or goes past to, and what to saved is there unless frame j
\* is itself about to be left.
ThrowOK(stk, hs, ps, j) ==
  LET to == stk[j].to IN
  /\ HandlerOK(stk, to) /\ to.at < j
  /\ \A k \in DOMAIN hs : ~(to.at <= hs[k].at /\ hs[k].at <= j)
  /\ \A l \in j + 1 .. Len(stk) :
       stk[l].kind = "throw" => stk[l].to.at > j \/ stk[l].to.at < to.at
  /\ ~Doomed(stk, j) => Saved(ps, to.at, to.pushlist)

\* So it is with every throw.
Throws(stk, hs, ps) ==
  \A j \in DOMAIN stk : stk[j].kind = "throw" => ThrowOK(stk, hs, ps, j)

\* An armed frame has its handler, or a throw above has it, or the frame has just
\* been jumped to or is about to return.
Arms(stk, hs, md) ==
  md # "abort" => \A i \in DOMAIN stk :
    stk[i].kind \in Armed =>
      \/ \E k \in DOMAIN hs : hs[k].at = i
      \/ Targeted(stk, i)
      \/ i = Len(stk) /\ md # "run"

\* localbind's frame has its push, or is about to return or to be left by a throw.
Locals(stk, ps, md) ==
  md # "abort" => \A i \in DOMAIN stk :
    stk[i].kind = "local" =>
      \/ Doomed(stk, i)
      \/ \E k \in DOMAIN ps : ps[k].at = i
      \/ i = Len(stk) /\ md # "run"

\* The push that varpop's frame i takes off is the last one below it.
PopOK(stk, ps, i) ==
  /\ i > 1 /\ stk[i - 1].kind \in {"local", "throw"}
  /\ ~Doomed(stk, i) =>
       \E k \in DOMAIN ps :
         /\ \A l \in DOMAIN ps : ps[l].at < i <=> l <= k
         /\ stk[i - 1].kind = "local" => ps[k].at = i - 1
         /\ stk[i - 1].kind = "throw" => ps[k].at > stk[i - 1].to.pushlist
         /\ ps[k].name = stk[i].name

\* So it is with every varpop.
Pops(stk, ps) ==
  \A i \in DOMAIN stk : stk[i].kind \in {"pop", "restore"} => PopOK(stk, ps, i)

\* callsettor runs for a varpush, a vardef or a varpop just below it.
Waits(stk) ==
  \A i \in DOMAIN stk : stk[i].kind = "settor" =>
     i > 1 /\ stk[i - 1].kind \in {"push", "assign", "pop"}

\* A frame just jumped to has no handler, and no push but callsettor's.
Bare(stk, hs, ps, md) ==
  md = "caught" =>
    /\ \A k \in DOMAIN hs : hs[k].at # Len(stk)
    /\ stk[Len(stk)].kind # "settor" => \A k \in DOMAIN ps : ps[k].at # Len(stk)

\* All of it.
Good(stk, hs, ps, md) ==
  /\ Frames(stk) /\ Handlers(stk, hs, ps) /\ Pushes(stk, ps) /\ Throws(stk, hs, ps)
  /\ Arms(stk, hs, md) /\ Locals(stk, ps, md) /\ Pops(stk, ps) /\ Waits(stk)
  /\ Bare(stk, hs, ps, md)

-----------------------------------------------------------------------------
\* A new frame, which has neither handler nor push yet.
LEMMA Grow ==
  ASSUME NEW stk, NEW hs, NEW ps, NEW f, NEW md,
         Good(stk, hs, ps, "run"), FrameOK(f),
         f.kind # "throw",
         f.kind \in {"pop", "restore"} => PopOK(Append(stk, f), ps, Len(stk) + 1),
         f.kind = "settor" => stk[Len(stk)].kind \in {"push", "assign", "pop"},
         f.kind \in Armed \cup {"local"} => md = "caught",
         md \in {"run", "caught"}
  PROVE  Good(Append(stk, f), hs, ps, md)
<1>1. PICK new : new = Append(stk, f)
  OBVIOUS
<1>2. IsSeq(stk) /\ stk # <<>>
  BY DEF Good, Frames
<1>. DEFINE n == Len(stk)
<1>3. /\ IsSeq(new) /\ n \in Nat \ {0} /\ DOMAIN stk = 1 .. n
      /\ Len(new) = n + 1 /\ DOMAIN new = 1 .. n + 1
      /\ new[n + 1] = f /\ \A i \in 1 .. n : new[i] = stk[i]
  <2>1. n # 0
    BY <1>2, EmptySeq DEF IsSeq
  <2>2. QED
    BY <1>1, <1>2, <2>1, SeqPush
<1>. HIDE DEF n
<1>4. \A i \in 1 .. n : /\ Doomed(new, i) <=> Doomed(stk, i)
                        /\ Targeted(new, i) <=> Targeted(stk, i)
  BY <1>3 DEF Doomed, Targeted, n
<1>5. Frames(new)
  BY <1>3 DEF Good, Frames
<1>6. Handlers(new, hs, ps)
  BY <1>3 DEF Good, Handlers, HandlerOK
<1>7. Pushes(new, ps)
  BY <1>3 DEF Good, Pushes
<1>8. Throws(new, hs, ps)
  BY <1>3, <1>4 DEF Good, Throws, ThrowOK, HandlerOK, n
<1>9. Arms(new, hs, md)
  BY <1>3, <1>4 DEF Good, Arms, n
<1>10. Locals(new, ps, md)
  BY <1>3, <1>4 DEF Good, Locals, n
<1>11. Pops(new, ps)
  <2>1. ASSUME NEW i \in 1 .. n, new[i].kind \in {"pop", "restore"}
        PROVE  PopOK(new, ps, i)
    <3>1. PopOK(stk, ps, i)
      BY <1>3, <2>1 DEF Good, Pops
    <3>2. QED
      BY <1>3, <1>4, <3>1 DEF PopOK
  <2>2. f.kind \in {"pop", "restore"} => PopOK(new, ps, n + 1)
    BY <1>1 DEF n
  <2>3. QED
    BY <1>3, <2>1, <2>2 DEF Pops
<1>12. Waits(new)
  BY <1>3 DEF Good, Waits, n
<1>13. Bare(new, hs, ps, md)
  BY <1>3 DEF Good, Bare, Handlers, HandlerOK, Pushes
<1>14. QED
  BY <1>1, <1>5, <1>6, <1>7, <1>8, <1>9, <1>10, <1>11, <1>12, <1>13 DEF Good

\* The top frame's handler.
LEMMA Arm ==
  ASSUME NEW stk, NEW hs, NEW ps, NEW h,
         Good(stk, hs, ps, "caught"), HandlerOK(stk, h), h.at = Len(stk),
         Saved(ps, h.at, h.pushlist)
  PROVE  Good(stk, Append(hs, h), ps, "run")
<1>1. PICK new : new = Append(hs, h)
  OBVIOUS
<1>2. PICK m : m = Len(hs)
  OBVIOUS
<1>3. PICK n : n = Len(stk)
  OBVIOUS
<1>4. n \in Nat \ {0} /\ DOMAIN stk = 1 .. n
  BY <1>3, EmptySeq, LenProperties DEF Good, Frames, IsSeq
<1>5. /\ IsSeq(new) /\ m \in Nat /\ DOMAIN hs = 1 .. m /\ DOMAIN new = 1 .. m + 1
      /\ new[m + 1] = h /\ \A k \in 1 .. m : new[k] = hs[k]
  BY <1>1, <1>2, SeqPush DEF Good, Handlers
<1>6. \A k \in 1 .. m : hs[k].at \in 1 .. n - 1
  <2>1. \A k \in 1 .. m : hs[k].at \in 1 .. n
    BY <1>4, <1>5 DEF Good, Handlers, HandlerOK
  <2>2. \A k \in 1 .. m : hs[k].at # n
    BY <1>3, <1>5 DEF Good, Bare
  <2>3. QED
    BY <1>4, <2>1, <2>2
<1>7. Handlers(stk, new, ps)
  <2>1. Rising(new)
    BY <1>3, <1>4, <1>5, <1>6 DEF Good, Handlers, Rising
  <2>2. QED
    BY <1>5, <2>1 DEF Good, Handlers
<1>8. Throws(stk, new, ps)
  <2>1. ASSUME NEW j \in 1 .. n, stk[j].kind = "throw" PROVE ThrowOK(stk, new, ps, j)
    <3>1. ThrowOK(stk, hs, ps, j)
      BY <1>4, <2>1 DEF Good, Throws
    <3>2. j # n
      BY <1>3, <2>1 DEF HandlerOK, Armed
    <3>3. ~(stk[j].to.at <= h.at /\ h.at <= j)
      BY <1>3, <1>4, <2>1, <3>2
    <3>4. \A k \in 1 .. m + 1 : ~(stk[j].to.at <= new[k].at /\ new[k].at <= j)
      BY <1>5, <3>1, <3>3 DEF ThrowOK
    <3>5. QED
      BY <1>5, <3>1, <3>4 DEF ThrowOK
  <2>2. QED
    BY <1>4, <2>1 DEF Throws
<1>9. Arms(stk, new, "run")
  BY <1>3, <1>4, <1>5 DEF Good, Arms
<1>10. Locals(stk, ps, "run")
  BY <1>3, <1>4 DEF Good, Locals, HandlerOK, Armed
<1>11. QED
  BY <1>1, <1>7, <1>8, <1>9, <1>10 DEF Good, Bare

\* The top frame's push.
LEMMA Push ==
  ASSUME NEW stk, NEW hs, NEW ps, NEW p, NEW md,
         NEW md2, md \in {"run", "caught"},
         Good(stk, hs, ps, md), p.at = Len(stk),
         stk[p.at].kind \in PushFrames,
         md2 = IF stk[p.at].kind = "local" THEN "run" ELSE md,
         \A k \in DOMAIN ps : ps[k].at # p.at,
         stk[p.at].kind \in {"call", "dead"} => md = "run",
         stk[p.at].kind = "settor" => \A k \in DOMAIN hs : hs[k].at # p.at
  PROVE  Good(stk, hs, Append(ps, p), md2)
<1>1. PICK new : new = Append(ps, p)
  OBVIOUS
<1>2. PICK m : m = Len(ps)
  OBVIOUS
<1>3. PICK n : n = Len(stk)
  OBVIOUS
<1>4. n \in Nat \ {0} /\ DOMAIN stk = 1 .. n
  BY <1>3, EmptySeq, LenProperties DEF Good, Frames, IsSeq
<1>5. /\ IsSeq(new) /\ m \in Nat /\ DOMAIN ps = 1 .. m /\ DOMAIN new = 1 .. m + 1
      /\ new[m + 1] = p /\ \A k \in 1 .. m : new[k] = ps[k]
  BY <1>1, <1>2, SeqPush DEF Good, Pushes
<1>6. \A k \in 1 .. m : ps[k].at \in 1 .. n - 1
  BY <1>3, <1>4, <1>5 DEF Good, Pushes
<1>7. Pushes(stk, new)
  <2>1. \A i, j \in 1 .. m : i < j => ps[i].at < ps[j].at
    BY <1>5 DEF Good, Pushes, Rising
  <2>2. \A i, j \in 1 .. m + 1 : i < j => new[i].at < new[j].at
    BY <1>3, <1>4, <1>5, <1>6, <2>1
  <2>3. Rising(new)
    BY <1>5, <2>2 DEF Rising
  <2>4. QED
    BY <1>3, <1>4, <1>5, <2>3 DEF Good, Pushes
<1>8. ASSUME NEW at \in 1 .. n, NEW q, Saved(ps, at, q)
      PROVE  Saved(new, at, q)
  BY <1>3, <1>4, <1>5, <1>8 DEF Saved
<1>9. Handlers(stk, hs, new)
  BY <1>4, <1>8 DEF Good, Handlers, HandlerOK
<1>10. Throws(stk, hs, new)
  BY <1>4, <1>8 DEF Good, Throws, ThrowOK, HandlerOK
<1>11. Locals(stk, new, md2)
  <2>1. \A i \in 1 .. n :
          stk[i].kind = "local" =>
            Doomed(stk, i) \/ (\E k \in 1 .. m : ps[k].at = i) \/ i = n
    BY <1>3, <1>4, <1>5 DEF Good, Locals
  <2>2. \A i \in 1 .. n :
          stk[i].kind = "local" =>
            Doomed(stk, i) \/ (\E k \in 1 .. m + 1 : new[k].at = i)
    BY <1>3, <1>4, <1>5, <2>1
  <2>3. QED
    BY <1>3, <1>4, <1>5, <2>2 DEF Locals
<1>12. Pops(stk, new)
  <2>1. ASSUME NEW i \in 1 .. n, stk[i].kind \in {"pop", "restore"}
        PROVE  PopOK(stk, new, i)
    <3>1. PopOK(stk, ps, i)
      BY <1>4, <2>1 DEF Good, Pops
    <3>2. SUFFICES ASSUME ~Doomed(stk, i)
          PROVE \E k \in DOMAIN new :
                   /\ \A l \in DOMAIN new : new[l].at < i <=> l <= k
                   /\ stk[i - 1].kind = "local" => new[k].at = i - 1
                   /\ stk[i - 1].kind = "throw" => new[k].at > stk[i - 1].to.pushlist
                   /\ new[k].name = stk[i].name
      BY <3>1 DEF PopOK
    <3>3. PICK k \in DOMAIN ps :
             /\ \A l \in DOMAIN ps : ps[l].at < i <=> l <= k
             /\ stk[i - 1].kind = "local" => ps[k].at = i - 1
             /\ stk[i - 1].kind = "throw" => ps[k].at > stk[i - 1].to.pushlist
             /\ ps[k].name = stk[i].name
      BY <3>1, <3>2 DEF PopOK
    <3>4. \A l \in DOMAIN new : new[l].at < i <=> l <= k
      BY <1>3, <1>4, <1>5, <3>3
    <3>5. QED
      BY <1>5, <3>3, <3>4
  <2>2. QED
    BY <1>4, <2>1 DEF Pops
<1>13. Bare(stk, hs, new, md2)
  <2>1. md2 = "caught" => stk[n].kind = "settor"
    BY <1>3 DEF PushFrames
  <2>2. QED
    BY <1>3, <2>1 DEF Good, Bare
<1>14. Arms(stk, hs, md2)
  <2>1. stk[n].kind = "local" => stk[n].kind \notin Armed
    BY DEF Armed
  <2>2. QED
    BY <1>3, <1>4, <2>1 DEF Good, Arms
<1>15. QED
  BY <1>1, <1>7, <1>9, <1>10, <1>11, <1>12, <1>13, <1>14 DEF Good

\* throw: the last handler becomes the new frame's.
LEMMA RaiseKeeps ==
  ASSUME NEW stk, NEW hs, NEW ps, NEW f, NEW md,
         Good(stk, hs, ps, md), hs # <<>>,
         FrameOK(f), f.kind = "throw", f.to = Last(hs),
         md = "run" \/ (md = "caught" /\ stk[Len(stk)].kind = "local")
  PROVE  Good(Append(stk, f), Front(hs), ps, "run")
<1>1. PICK new : new = Append(stk, f)
  OBVIOUS
<1>2. PICK n : n = Len(stk)
  OBVIOUS
<1>3. n # 0 /\ IsSeq(stk) /\ IsSeq(hs)
  BY <1>2, EmptySeq DEF Good, Frames, Handlers, IsSeq
<1>4. /\ IsSeq(new) /\ n \in Nat \ {0} /\ DOMAIN stk = 1 .. n
      /\ Len(new) = n + 1 /\ DOMAIN new = 1 .. n + 1
      /\ new[n + 1] = f /\ \A i \in 1 .. n : new[i] = stk[i]
  BY <1>1, <1>2, <1>3, SeqPush
<1>5. PICK front : front = Front(hs)
  OBVIOUS
<1>6. PICK m : m = Len(hs)
  OBVIOUS
<1>7. PICK to : to = Last(hs)
  OBVIOUS
<1>8. /\ IsSeq(front) /\ m \in Nat \ {0} /\ DOMAIN hs = 1 .. m
      /\ DOMAIN front = 1 .. m - 1 /\ to = hs[m]
      /\ \A k \in 1 .. m - 1 : front[k] = hs[k]
  BY <1>3, <1>5, <1>6, <1>7, SeqPop
<1>9. /\ HandlerOK(stk, to) /\ to.at \in 1 .. n /\ Saved(ps, to.at, to.pushlist)
      /\ \A k \in 1 .. m - 1 : HandlerOK(stk, hs[k]) /\ hs[k].at < to.at
  <2>1. \A k \in 1 .. m : HandlerOK(stk, hs[k]) /\ Saved(ps, hs[k].at, hs[k].pushlist)
    BY <1>8 DEF Good, Handlers
  <2>2. \A k \in 1 .. m - 1 : hs[k].at < hs[m].at
    BY <1>8 DEF Good, Handlers, Rising
  <2>3. m \in 1 .. m /\ 1 .. m - 1 \subseteq 1 .. m
    BY <1>8
  <2>4. HandlerOK(stk, to) => to.at \in 1 .. n
    BY <1>4 DEF HandlerOK
  <2>5. QED
    BY <1>8, <2>1, <2>2, <2>3, <2>4
<1>10. \A i \in 1 .. n : /\ Doomed(new, i) <=> Doomed(stk, i) \/ to.at < i
                         /\ Targeted(new, i) <=> Targeted(stk, i) \/ to.at = i
  <2>1. SUFFICES ASSUME NEW i \in 1 .. n
                 PROVE  /\ Doomed(new, i) <=> Doomed(stk, i) \/ to.at < i
                        /\ Targeted(new, i) <=> Targeted(stk, i) \/ to.at = i
    OBVIOUS
  <2>2. \A j : j \in i + 1 .. n + 1 <=> j \in i + 1 .. n \/ j = n + 1
    BY <1>4, <2>1
  <2>3. \A j \in i + 1 .. n : new[j] = stk[j]
    BY <1>4, <2>1
  <2>4. new[n + 1].kind = "throw" /\ new[n + 1].to = to
    BY <1>4, <1>7
  <2>5. QED
    BY <1>2, <1>4, <2>2, <2>3, <2>4 DEF Doomed, Targeted
<1>11. \A h : HandlerOK(stk, h) => HandlerOK(new, h)
  BY <1>4 DEF HandlerOK
<1>12. Frames(new)
  BY <1>4 DEF Good, Frames
<1>13. Handlers(new, front, ps)
  <2>1. Rising(front)
    BY <1>8 DEF Good, Handlers, Rising
  <2>2. QED
    BY <1>8, <1>9, <1>11, <2>1 DEF Good, Handlers
<1>14. Pushes(new, ps)
  BY <1>4 DEF Good, Pushes
<1>15. Throws(new, front, ps)
  <2>1. ASSUME NEW j \in 1 .. n, stk[j].kind = "throw" PROVE ThrowOK(new, front, ps, j)
    <3>1. ThrowOK(stk, hs, ps, j)
      BY <1>4, <2>1 DEF Good, Throws
    <3>2. ~(stk[j].to.at <= to.at /\ to.at <= j)
      BY <1>8, <3>1 DEF ThrowOK
    <3>3. \A l \in j + 1 .. n + 1 :
            new[l].kind = "throw" => new[l].to.at > j \/ new[l].to.at < stk[j].to.at
      <4>1. stk[j].to.at \in 1 .. n
        BY <1>4, <3>1 DEF ThrowOK, HandlerOK
      <4>2. f.to.at > j \/ f.to.at < stk[j].to.at
        BY <1>7, <1>9, <3>2, <4>1
      <4>3. QED
        BY <1>2, <1>4, <3>1, <4>2 DEF ThrowOK
    <3>4. QED
      BY <1>4, <1>8, <1>10, <1>11, <3>1, <3>3 DEF ThrowOK
  <2>2. ThrowOK(new, front, ps, n + 1)
    <3>1. new[n + 1].to = to /\ HandlerOK(new, to) /\ to.at < n + 1
      BY <1>4, <1>7, <1>9, <1>11
    <3>2. \A k \in DOMAIN front : ~(to.at <= front[k].at /\ front[k].at <= n + 1)
      BY <1>4, <1>8, <1>9 DEF HandlerOK
    <3>3. \A l \in n + 2 .. Len(new) : FALSE
      BY <1>4
    <3>4. QED
      BY <1>4, <1>9, <3>1, <3>2, <3>3 DEF ThrowOK
  <2>3. QED
    BY <1>4, <2>1, <2>2 DEF Throws
<1>16. Arms(new, front, "run")
  <2>1. ASSUME NEW i \in 1 .. n, stk[i].kind \in Armed
        PROVE  (\E k \in 1 .. m - 1 : front[k].at = i) \/ Targeted(new, i)
    <3>1. (\E k \in 1 .. m : hs[k].at = i) \/ Targeted(stk, i)
      BY <1>2, <1>4, <1>8, <2>1 DEF Good, Arms, Armed
    <3>2. QED
      BY <1>8, <1>10, <3>1
  <2>2. f.kind \notin Armed
    BY DEF Armed
  <2>3. QED
    BY <1>4, <1>8, <2>1, <2>2 DEF Arms
<1>17. Locals(new, ps, "run")
  <2>1. stk[n].kind = "local" => to.at < n
    BY <1>4, <1>9 DEF HandlerOK, Armed
  <2>2. QED
    BY <1>2, <1>4, <1>10, <2>1 DEF Good, Locals
<1>18. Pops(new, ps)
  <2>1. ASSUME NEW i \in 1 .. n, stk[i].kind \in {"pop", "restore"}
        PROVE  PopOK(new, ps, i)
    <3>1. PopOK(stk, ps, i)
      BY <1>4, <2>1 DEF Good, Pops
    <3>2. QED
      BY <1>4, <1>10, <3>1 DEF PopOK
  <2>2. QED
    BY <1>4, <2>1 DEF Pops
<1>19. Waits(new)
  BY <1>4 DEF Good, Waits
<1>20. QED
  BY <1>1, <1>5, <1>12, <1>13, <1>14, <1>15, <1>16, <1>17, <1>18, <1>19 DEF Good, Bare

\* A frame whose handler was jumped to is only left any more.
LEMMA Kill ==
  ASSUME NEW stk, NEW hs, NEW ps, NEW f,
         Good(stk, hs, ps, "caught"), stk[Len(stk)].kind \in Armed \ {"top"},
         FrameOK(f), f.kind = "dead"
  PROVE  Good(Append(Front(stk), f), hs, ps, "run")
<1>1. PICK n : n = Len(stk)
  OBVIOUS
<1>2. PICK new : new = Append(Front(stk), f)
  OBVIOUS
<1>3. stk # <<>> /\ IsSeq(stk)
  BY DEF Good, Frames
<1>4. /\ IsSeq(new) /\ n \in Nat \ {0} /\ DOMAIN stk = 1 .. n
      /\ Len(new) = n /\ DOMAIN new = 1 .. n
      /\ new[n] = f /\ \A i \in 1 .. n - 1 : new[i] = stk[i]
  BY <1>1, <1>2, <1>3, SeqChange
<1>5. stk[n].kind \notin {"local", "throw"}
  BY <1>1 DEF Armed
<1>6. \A i \in 1 .. n : /\ Doomed(new, i) <=> Doomed(stk, i)
                        /\ Targeted(new, i) <=> Targeted(stk, i)
  BY <1>1, <1>4, <1>5 DEF Doomed, Targeted
<1>7. \A h : HandlerOK(stk, h) /\ h.at # n => HandlerOK(new, h)
  BY <1>4 DEF HandlerOK
<1>8. Frames(new)
  <2>1. new # <<>> /\ n # 1
    BY <1>1, <1>4, EmptySeq DEF Good, Frames
  <2>2. QED
    BY <1>4, <2>1 DEF Good, Frames
<1>9. Handlers(new, hs, ps)
  BY <1>1, <1>7 DEF Good, Handlers, Bare
<1>10. Pushes(new, ps)
  BY <1>4, <1>5 DEF Good, Pushes, PushFrames
<1>11. Throws(new, hs, ps)
  <2>1. ASSUME NEW j \in 1 .. n - 1, stk[j].kind = "throw" PROVE ThrowOK(new, hs, ps, j)
    <3>1. ThrowOK(stk, hs, ps, j)
      BY <1>4, <2>1 DEF Good, Throws
    <3>2. HandlerOK(new, stk[j].to)
      BY <1>4, <1>7, <3>1 DEF ThrowOK, HandlerOK
    <3>3. QED
      BY <1>1, <1>4, <1>5, <1>6, <3>1, <3>2 DEF ThrowOK
  <2>2. QED
    BY <1>4, <1>5, <2>1 DEF Throws
<1>12. Arms(new, hs, "run")
  BY <1>1, <1>4, <1>5, <1>6 DEF Good, Arms, Armed
<1>13. Locals(new, ps, "run")
  BY <1>1, <1>4, <1>5, <1>6 DEF Good, Locals
<1>14. Pops(new, ps)
  <2>1. ASSUME NEW i \in 1 .. n - 1, stk[i].kind \in {"pop", "restore"}
        PROVE  PopOK(new, ps, i)
    <3>1. PopOK(stk, ps, i)
      BY <1>4, <2>1 DEF Good, Pops
    <3>2. QED
      BY <1>4, <1>6, <3>1 DEF PopOK
  <2>2. QED
    BY <1>4, <1>5, <2>1 DEF Pops
<1>15. Waits(new)
  BY <1>4, <1>5 DEF Good, Waits
<1>16. QED
  BY <1>1, <1>2, <1>8, <1>9, <1>10, <1>11, <1>12, <1>13, <1>14, <1>15 DEF Good, Bare

\* A frame that ends normally has the last handler.
LEMMA OwnHandler ==
  ASSUME NEW stk, NEW hs, NEW ps,
         Good(stk, hs, ps, "run"), stk[Len(stk)].kind \in Armed
  PROVE  hs # <<>> /\ Last(hs).at = Len(stk)
<1>1. PICK n : n = Len(stk)
  OBVIOUS
<1>2. n \in Nat \ {0} /\ DOMAIN stk = 1 .. n
  BY <1>1, EmptySeq, LenProperties DEF Good, Frames, IsSeq
<1>3. ~Targeted(stk, n)
  BY <1>1, <1>2 DEF Targeted
<1>4. PICK k \in DOMAIN hs : hs[k].at = n
  BY <1>1, <1>2, <1>3 DEF Good, Arms
<1>5. hs # <<>> /\ IsSeq(hs)
  BY <1>4, EmptySeq, LenProperties DEF Good, Handlers, IsSeq
<1>6. Last(hs) = hs[Len(hs)] /\ DOMAIN hs = 1 .. Len(hs) /\ Len(hs) \in Nat \ {0}
  BY <1>5, SeqPop
<1>7. hs[Len(hs)].at \in 1 .. n
  BY <1>2, <1>6 DEF Good, Handlers, HandlerOK
<1>8. k < Len(hs) => hs[k].at < hs[Len(hs)].at
  BY <1>4, <1>6 DEF Good, Handlers, Rising
<1>9. QED
  BY <1>1, <1>2, <1>4, <1>5, <1>6, <1>7, <1>8

\* Its handler is popped.
LEMMA Disarm ==
  ASSUME NEW stk, NEW hs, NEW ps,
         Good(stk, hs, ps, "run"), stk[Len(stk)].kind \in Armed,
         stk[Len(stk)].kind # "settor" => \A k \in DOMAIN ps : ps[k].at # Len(stk)
  PROVE  Good(stk, Front(hs), ps, "caught")
<1>1. PICK n : n = Len(stk)
  OBVIOUS
<1>2. PICK new : new = Front(hs)
  OBVIOUS
<1>3. PICK m : m = Len(hs)
  OBVIOUS
<1>4. hs # <<>> /\ Last(hs).at = n
  BY <1>1, OwnHandler
<1>5. n \in Nat \ {0} /\ DOMAIN stk = 1 .. n
  BY <1>1, EmptySeq, LenProperties DEF Good, Frames, IsSeq
<1>6. /\ IsSeq(new) /\ m \in Nat \ {0} /\ DOMAIN hs = 1 .. m
      /\ DOMAIN new = 1 .. m - 1 /\ hs[m].at = n
      /\ \A k \in 1 .. m - 1 : new[k] = hs[k]
  <2>1. IsSeq(hs)
    BY DEF Good, Handlers
  <2>2. QED
    BY <1>2, <1>3, <1>4, <2>1, SeqPop
<1>7. \A k \in 1 .. m - 1 : hs[k].at < n
  <2>1. \A k \in 1 .. m - 1 : hs[k].at < hs[m].at
    BY <1>6 DEF Good, Handlers, Rising
  <2>2. QED
    BY <1>6, <2>1
<1>8. Handlers(stk, new, ps)
  <2>1. Rising(new)
    BY <1>6 DEF Good, Handlers, Rising
  <2>2. QED
    BY <1>6, <2>1 DEF Good, Handlers
<1>9. Throws(stk, new, ps)
  BY <1>6 DEF Good, Throws, ThrowOK
<1>10. Arms(stk, new, "caught")
  <2>1. ASSUME NEW i \in 1 .. n - 1, stk[i].kind \in Armed
        PROVE  (\E k \in 1 .. m - 1 : new[k].at = i) \/ Targeted(stk, i)
    <3>1. (\E k \in 1 .. m : hs[k].at = i) \/ Targeted(stk, i)
      BY <1>1, <1>5, <1>6, <2>1 DEF Good, Arms
    <3>2. QED
      BY <1>5, <1>6, <3>1
  <2>2. QED
    BY <1>1, <1>5, <1>6, <2>1 DEF Arms
<1>11. Locals(stk, ps, "caught")
  BY <1>1, <1>5 DEF Good, Locals
<1>12. Bare(stk, new, ps, "caught")
  <2>1. \A k \in DOMAIN new : new[k].at # n
    <3>1. \A k \in DOMAIN new : new[k].at < n
      BY <1>6, <1>7
    <3>2. QED
      BY <1>5, <3>1
  <2>2. QED
    BY <1>1, <2>1 DEF Bare
<1>13. QED
  BY <1>2, <1>8, <1>9, <1>10, <1>11, <1>12 DEF Good

\* The last push is popped, which nobody else relies on.
LEMMA Pop ==
  ASSUME NEW stk, NEW hs, NEW ps, NEW md, NEW md2,
         Good(stk, hs, ps, md), ps # <<>>, NEW last, last = Last(ps).at,
         md \in {"run", "caught"}, md2 \in {"run", "caught"},
         \A k \in DOMAIN hs : hs[k].pushlist < last,
         \A j \in DOMAIN stk :
           stk[j].kind = "throw" /\ ~Doomed(stk, j) => stk[j].to.pushlist < last,
         \A i \in DOMAIN stk :
           stk[i].kind = "local" /\ ~Doomed(stk, i) /\ i = last
             => i = Len(stk) /\ md2 = "caught",
         \A i \in DOMAIN stk :
           stk[i].kind \in {"pop", "restore"} /\ ~Doomed(stk, i) => i <= last,
         IF stk[Len(stk)].kind = "local" /\ last = Len(stk)
           THEN md2 = "caught" ELSE md2 = md
  PROVE  Good(stk, hs, Front(ps), md2)
<1>1. PICK n : n = Len(stk)
  OBVIOUS
<1>2. PICK new : new = Front(ps)
  OBVIOUS
<1>3. PICK m : m = Len(ps)
  OBVIOUS
<1>4. n \in Nat \ {0} /\ DOMAIN stk = 1 .. n
  BY <1>1, EmptySeq, LenProperties DEF Good, Frames, IsSeq
<1>5. /\ IsSeq(new) /\ m \in Nat \ {0} /\ DOMAIN ps = 1 .. m
      /\ DOMAIN new = 1 .. m - 1 /\ ps[m].at = last
      /\ \A k \in 1 .. m - 1 : new[k] = ps[k]
  <2>1. IsSeq(ps)
    BY DEF Good, Pushes
  <2>2. QED
    BY <1>2, <1>3, <2>1, SeqPop
<1>6. ASSUME NEW at, NEW q, q < last, Saved(ps, at, q)
      PROVE  Saved(new, at, q)
  <2>1. (\E k \in 1 .. m : ps[k].at = q) => \E k \in 1 .. m - 1 : new[k].at = q
    <3>1. last \in Nat
      BY <1>4, <1>5 DEF Good, Pushes
    <3>2. \A k \in 1 .. m : ps[k].at = q => k # m
      BY <1>4, <1>5, <1>6, <3>1 DEF Good, Pushes
    <3>3. QED
      BY <1>5, <3>2
  <2>2. QED
    BY <1>5, <1>6, <2>1 DEF Saved
<1>7. \A k \in 1 .. m - 1 : ps[k].at < last
  <2>1. \A k \in 1 .. m - 1 : ps[k].at < ps[m].at
    BY <1>5 DEF Good, Pushes, Rising
  <2>2. QED
    BY <1>5, <2>1
<1>8. Handlers(stk, hs, new)
  BY <1>6 DEF Good, Handlers
<1>9. Pushes(stk, new)
  <2>1. Rising(new)
    BY <1>5 DEF Good, Pushes, Rising
  <2>2. QED
    BY <1>5, <2>1 DEF Good, Pushes
<1>10. Throws(stk, hs, new)
  BY <1>6 DEF Good, Throws, ThrowOK
<1>11. Locals(stk, new, md2)
  <2>1. ASSUME NEW i \in 1 .. n, stk[i].kind = "local", ~Doomed(stk, i),
               ~(i = n /\ md2 = "caught")
        PROVE  \E k \in 1 .. m - 1 : new[k].at = i
    <3>1. PICK k \in 1 .. m : ps[k].at = i
      BY <1>1, <1>4, <1>5, <2>1 DEF Good, Locals
    <3>2. k # m
      BY <1>1, <1>4, <1>5, <2>1, <3>1
    <3>3. QED
      BY <1>5, <3>1, <3>2
  <2>2. QED
    BY <1>1, <1>4, <1>5, <2>1 DEF Locals
<1>12. Pops(stk, new)
  <2>1. ASSUME NEW i \in 1 .. n, stk[i].kind \in {"pop", "restore"}
        PROVE  PopOK(stk, new, i)
    <3>1. PopOK(stk, ps, i)
      BY <1>4, <2>1 DEF Good, Pops
    <3>2. SUFFICES ASSUME ~Doomed(stk, i)
          PROVE \E k \in DOMAIN new :
                   /\ \A l \in DOMAIN new : new[l].at < i <=> l <= k
                   /\ stk[i - 1].kind = "local" => new[k].at = i - 1
                   /\ stk[i - 1].kind = "throw" => new[k].at > stk[i - 1].to.pushlist
                   /\ new[k].name = stk[i].name
      BY <3>1 DEF PopOK
    <3>3. PICK k \in DOMAIN ps :
             /\ \A l \in DOMAIN ps : ps[l].at < i <=> l <= k
             /\ stk[i - 1].kind = "local" => ps[k].at = i - 1
             /\ stk[i - 1].kind = "throw" => ps[k].at > stk[i - 1].to.pushlist
             /\ ps[k].name = stk[i].name
      BY <3>1, <3>2 DEF PopOK
    <3>4. i <= last /\ last \in 1 .. n
      BY <1>4, <1>5, <2>1, <3>2 DEF Good, Pushes
    <3>5. k \in 1 .. m - 1
      <4>1. k # m
        BY <1>5, <3>3, <3>4
      <4>2. QED
        BY <1>5, <4>1
    <3>6. QED
      BY <1>5, <3>3, <3>5
  <2>2. QED
    BY <1>4, <2>1 DEF Pops
<1>13. Bare(stk, hs, new, md2)
  <2>1. CASE stk[n].kind = "local" /\ last = n
    <3>1. \A k \in DOMAIN hs : hs[k].at # n
      BY <1>4, <2>1 DEF Good, Handlers, HandlerOK, Armed
    <3>2. \A k \in DOMAIN new : new[k].at # n
      BY <1>5, <1>7, <2>1, <1>4
    <3>3. QED
      BY <1>1, <3>1, <3>2 DEF Bare
  <2>2. CASE md2 = md
    BY <1>1, <1>5, <2>2 DEF Good, Bare
  <2>3. QED
    BY <1>1, <2>1, <2>2
<1>14. Arms(stk, hs, md2)
  BY <1>1, <1>4 DEF Good, Arms, Armed
<1>15. QED
  BY <1>2, <1>8, <1>9, <1>10, <1>11, <1>12, <1>13, <1>14 DEF Good

\* The push of the top frame is popped.
LEMMA PopOwn ==
  ASSUME NEW stk, NEW hs, NEW ps, NEW md, NEW md2,
         Good(stk, hs, ps, md), ps # <<>>, Last(ps).at = Len(stk),
         md \in {"run", "caught"},
         stk[Len(stk)].kind \in {"call", "settor", "local"},
         stk[Len(stk)].kind = "settor" => \A k \in DOMAIN hs : hs[k].at # Len(stk),
         md2 = IF stk[Len(stk)].kind = "local" THEN "caught" ELSE md
  PROVE  Good(stk, hs, Front(ps), md2)
<1>1. PICK n : n = Len(stk)
  OBVIOUS
<1>2. n \in Nat \ {0} /\ DOMAIN stk = 1 .. n
  BY <1>1, EmptySeq, LenProperties DEF Good, Frames, IsSeq
<1>3. \A k \in DOMAIN hs : hs[k].pushlist < n
  BY <1>1, <1>2 DEF Good, Handlers, HandlerOK
<1>4. \A j \in DOMAIN stk : stk[j].kind = "throw" => stk[j].to.pushlist < n
  BY <1>1, <1>2 DEF Good, Throws, ThrowOK, HandlerOK
<1>5. \A i \in DOMAIN stk : i <= n
  BY <1>2
<1>6. QED
  BY <1>1, <1>3, <1>4, <1>5, Pop

\* A push above the one that the throw on top unwinds to is popped.
LEMMA PopThrown ==
  ASSUME NEW stk, NEW hs, NEW ps,
         Good(stk, hs, ps, "run"), ps # <<>>, stk[Len(stk)].kind = "throw",
         stk[Len(stk)].to.pushlist < Last(ps).at
  PROVE  Good(stk, hs, Front(ps), "run")
<1>1. PICK n : n = Len(stk)
  OBVIOUS
<1>2. PICK to : to = stk[n].to
  OBVIOUS
<1>3. PICK last : last = Last(ps).at
  OBVIOUS
<1>4. n \in Nat \ {0} /\ DOMAIN stk = 1 .. n
  BY <1>1, EmptySeq, LenProperties DEF Good, Frames, IsSeq
<1>5. ThrowOK(stk, hs, ps, n) /\ ~Doomed(stk, n)
  BY <1>1, <1>4 DEF Good, Throws, Doomed
<1>6. /\ to.at \in 1 .. n - 1 /\ to.pushlist \in Nat /\ Saved(ps, to.at, to.pushlist)
      /\ \A k \in DOMAIN hs : ~(to.at <= hs[k].at /\ hs[k].at <= n)
  BY <1>2, <1>4, <1>5 DEF ThrowOK, HandlerOK
<1>7. last \in 1 .. n /\ \E k \in DOMAIN ps : ps[k].at = last
  <2>1. Len(ps) \in DOMAIN ps /\ Last(ps) = ps[Len(ps)]
    BY SeqPop DEF Good, Pushes
  <2>2. QED
    BY <1>3, <1>4, <2>1 DEF Good, Pushes
<1>8. last > to.pushlist /\ last >= to.at
  BY <1>1, <1>2, <1>3, <1>6, <1>7 DEF Saved
<1>9. ASSUME NEW at \in 1 .. to.at - 1, NEW q \in 0 .. at, Saved(ps, at, q)
      PROVE  q < last
  BY <1>6, <1>7, <1>8, <1>9 DEF Saved
<1>10. \A k \in DOMAIN hs : hs[k].pushlist < last
  <2>1. ASSUME NEW k \in DOMAIN hs PROVE hs[k].at \in 1 .. to.at - 1
    <3>1. hs[k].at \in 1 .. n
      BY <1>4 DEF Good, Handlers, HandlerOK
    <3>2. QED
      BY <1>4, <1>6, <3>1
  <2>2. QED
    BY <1>9, <2>1 DEF Good, Handlers, HandlerOK
<1>11. \A i \in 1 .. n - 1 : ~Doomed(stk, i) => i <= to.at
  BY <1>1, <1>2, <1>4, <1>6 DEF Doomed, Good, Throws
<1>12. ASSUME NEW j \in DOMAIN stk, stk[j].kind = "throw", ~Doomed(stk, j)
       PROVE  stk[j].to.pushlist < last
  <2>1. CASE j = n
    BY <1>2, <1>8, <2>1
  <2>2. CASE j # n
    <3>1. ThrowOK(stk, hs, ps, j)
      BY <1>12 DEF Good, Throws
    <3>2. j <= to.at /\ j \in 1 .. n - 1
      BY <1>4, <1>11, <1>12, <2>2
    <3>3. /\ stk[j].to.at \in 1 .. to.at - 1
          /\ stk[j].to.pushlist \in 0 .. stk[j].to.at
      BY <1>4, <1>6, <3>1, <3>2 DEF ThrowOK, HandlerOK
    <3>4. Saved(ps, stk[j].to.at, stk[j].to.pushlist)
      BY <1>12, <3>1 DEF ThrowOK
    <3>5. QED
      BY <1>9, <3>3, <3>4
  <2>3. QED
    BY <2>1, <2>2
<1>13. ASSUME NEW i \in DOMAIN stk, stk[i].kind = "local", ~Doomed(stk, i), i = last
       PROVE  FALSE
  <2>1. i # n /\ i # to.at
    BY <1>1, <1>2, <1>5, <1>13 DEF ThrowOK, HandlerOK, Armed
  <2>2. i <= to.at
    BY <1>4, <1>11, <1>13, <2>1
  <2>3. QED
    BY <1>4, <1>6, <1>8, <1>13, <2>1, <2>2
<1>14. ASSUME NEW i \in DOMAIN stk, stk[i].kind \in {"pop", "restore"}, ~Doomed(stk, i)
       PROVE  i <= last
  <2>1. i # n
    BY <1>1, <1>14
  <2>2. QED
    BY <1>4, <1>6, <1>7, <1>8, <1>11, <1>14, <2>1
<1>15. QED
  BY <1>1, <1>3, <1>10, <1>12, <1>13, <1>14, Pop

\* The top frame, which has neither handler nor push any more, is left.
LEMMA Drop ==
  ASSUME NEW stk, NEW hs, NEW ps, NEW md,
         Good(stk, hs, ps, md), md \in {"run", "caught"}, Len(stk) # 1,
         stk[Len(stk)].kind # "throw",
         \A k \in DOMAIN hs : hs[k].at # Len(stk),
         \A k \in DOMAIN ps : ps[k].at # Len(stk)
  PROVE  Good(Front(stk), hs, ps, "run")
<1>1. PICK n : n = Len(stk) - 1
  OBVIOUS
<1>2. PICK new : new = Front(stk)
  OBVIOUS
<1>3. stk # <<>> /\ IsSeq(stk)
  BY DEF Good, Frames
<1>4. /\ IsSeq(new) /\ n \in Nat \ {0} /\ DOMAIN stk = 1 .. n + 1 /\ Len(stk) = n + 1
      /\ Len(new) = n /\ DOMAIN new = 1 .. n
      /\ \A i \in 1 .. n : new[i] = stk[i]
  BY <1>1, <1>2, <1>3, SeqPop
<1>5. \A i \in 1 .. n : /\ Doomed(new, i) <=> Doomed(stk, i)
                        /\ Targeted(new, i) <=> Targeted(stk, i)
  BY <1>4 DEF Doomed, Targeted
<1>6. \A h : HandlerOK(stk, h) /\ h.at # n + 1 => HandlerOK(new, h)
  BY <1>4 DEF HandlerOK
<1>7. Frames(new)
  <2>1. new # <<>>
    BY <1>4, EmptySeq
  <2>2. QED
    BY <1>4, <2>1 DEF Good, Frames
<1>8. Handlers(new, hs, ps)
  BY <1>4, <1>6 DEF Good, Handlers
<1>9. Pushes(new, ps)
  BY <1>4 DEF Good, Pushes
<1>10. Throws(new, hs, ps)
  <2>1. ASSUME NEW j \in 1 .. n, stk[j].kind = "throw" PROVE ThrowOK(new, hs, ps, j)
    <3>1. ThrowOK(stk, hs, ps, j)
      BY <1>4, <2>1 DEF Good, Throws
    <3>2. HandlerOK(new, stk[j].to)
      BY <1>4, <1>6, <3>1 DEF ThrowOK, HandlerOK
    <3>3. QED
      BY <1>4, <1>5, <3>1, <3>2 DEF ThrowOK
  <2>2. QED
    BY <1>4, <2>1 DEF Throws
<1>11. Arms(new, hs, "run")
  BY <1>4, <1>5 DEF Good, Arms
<1>12. Locals(new, ps, "run")
  BY <1>4, <1>5 DEF Good, Locals
<1>13. Pops(new, ps)
  <2>1. ASSUME NEW i \in 1 .. n, stk[i].kind \in {"pop", "restore"}
        PROVE  PopOK(new, ps, i)
    <3>1. PopOK(stk, ps, i)
      BY <1>4, <2>1 DEF Good, Pops
    <3>2. QED
      BY <1>4, <1>5, <3>1 DEF PopOK
  <2>2. QED
    BY <1>4, <2>1 DEF Pops
<1>14. Waits(new)
  BY <1>4 DEF Good, Waits
<1>15. QED
  BY <1>2, <1>7, <1>8, <1>9, <1>10, <1>11, <1>12, <1>13, <1>14 DEF Good, Bare

\* The pushes below the last one.
LEMMA Popped ==
  ASSUME NEW stk, NEW ps, NEW ps2, Pushes(stk, ps), ps # <<>>, ps2 = Front(ps)
  PROVE  \A k \in DOMAIN ps2 : ps2[k].at < Last(ps).at
<1>1. PICK c : c = Len(ps)
  OBVIOUS
<1>2. IsSeq(ps) /\ Rising(ps)
  BY DEF Pushes
<1>3. /\ c \in Nat \ {0} /\ DOMAIN ps = 1 .. c /\ Last(ps) = ps[c]
      /\ DOMAIN ps2 = 1 .. c - 1 /\ \A k \in 1 .. c - 1 : ps2[k] = ps[k]
  BY <1>1, <1>2, SeqPop
<1>4. SUFFICES ASSUME NEW k \in 1 .. c - 1 PROVE ps[k].at < ps[c].at
  BY <1>3
<1>5. k \in 1 .. c /\ c \in 1 .. c /\ k < c
  BY <1>3
<1>6. QED
  BY <1>2, <1>3, <1>5 DEF Rising

\* longjmp to frame to.at: nothing that the frames above it have is left.
LEMMA JumpKeeps ==
  ASSUME NEW stk, NEW hs, NEW ps, NEW new, NEW to,
         Good(stk, hs, ps, "run"), stk[Len(stk)].kind = "throw",
         to = stk[Len(stk)].to,
         \A k \in DOMAIN ps : ps[k].at <= to.pushlist,
         IsSeq(new), Len(new) = to.at,
         \A i \in 1 .. to.at - 1 : new[i] = stk[i],
         new[to.at].kind = stk[to.at].kind, new[to.at].name = stk[to.at].name,
         FrameOK(new[to.at])
  PROVE  Good(new, hs, ps, "caught")
<1>1. PICK n : n = Len(stk)
  OBVIOUS
<1>2. PICK m : m = to.at
  OBVIOUS
<1>3. n \in Nat \ {0} /\ DOMAIN stk = 1 .. n
  BY <1>1, EmptySeq, LenProperties DEF Good, Frames, IsSeq
<1>4. ThrowOK(stk, hs, ps, n)
  BY <1>1, <1>3 DEF Good, Throws
<1>5. /\ m \in 1 .. n - 1 /\ HandlerOK(stk, to) /\ to.pushlist \in 0 .. m
      /\ \A k \in DOMAIN hs : ~(m <= hs[k].at /\ hs[k].at <= n)
  <2>1. /\ HandlerOK(stk, to) /\ m < n
        /\ \A k \in DOMAIN hs : ~(m <= hs[k].at /\ hs[k].at <= n)
    BY <1>1, <1>2, <1>4 DEF ThrowOK
  <2>2. m \in 1 .. n /\ to.pushlist \in 0 .. m
    BY <1>2, <1>3, <2>1 DEF HandlerOK
  <2>3. QED
    BY <1>3, <2>1, <2>2
<1>6. /\ DOMAIN new = 1 .. m /\ Len(new) = m
      /\ \A i \in 1 .. m - 1 : new[i] = stk[i]
      /\ \A i \in 1 .. m : new[i].kind = stk[i].kind /\ new[i].name = stk[i].name
      /\ stk[m].kind \in Armed
  <2>1. DOMAIN new = 1 .. m /\ Len(new) = m
    BY <1>2, LenProperties DEF IsSeq
  <2>2. \A i \in 1 .. m : i = m \/ i \in 1 .. m - 1
    BY <1>5
  <2>3. /\ \A i \in 1 .. m - 1 : new[i] = stk[i]
        /\ new[m].kind = stk[m].kind /\ new[m].name = stk[m].name
    BY <1>2
  <2>4. stk[m].kind \in Armed
    BY <1>2, <1>5 DEF HandlerOK
  <2>5. QED
    BY <2>1, <2>2, <2>3, <2>4
<1>7. \A j \in 1 .. n : stk[j].kind = "throw" => ThrowOK(stk, hs, ps, j)
  BY <1>3 DEF Good, Throws
<1>8. ASSUME NEW k \in m + 1 .. n, stk[k].kind = "throw"
      PROVE  stk[k].to.at >= m
  <2>1. CASE k = n
    BY <1>1, <1>2, <1>5, <2>1
  <2>2. CASE k # n
    <3>1. n \in k + 1 .. Len(stk) /\ k \in 1 .. n
      BY <1>1, <1>3, <1>5, <2>2
    <3>2. stk[n].to.at > k \/ stk[n].to.at < stk[k].to.at
      BY <1>1, <1>7, <1>8, <3>1 DEF ThrowOK
    <3>3. stk[k].to.at \in 1 .. n
      BY <1>3, <1>7, <1>8, <3>1 DEF ThrowOK, HandlerOK
    <3>4. QED
      BY <1>1, <1>2, <1>5, <3>1, <3>2, <3>3
  <2>3. QED
    BY <2>1, <2>2
<1>to. \A j \in 1 .. n : stk[j].kind = "throw" => stk[j].to.at \in 1 .. n
  <2>1. SUFFICES ASSUME NEW j \in 1 .. n, stk[j].kind = "throw" PROVE stk[j].to.at \in 1 .. n
    OBVIOUS
  <2>2. HandlerOK(stk, stk[j].to)
    BY <1>7, <2>1 DEF ThrowOK
  <2>3. QED
    BY <1>3, <2>2 DEF HandlerOK
<1>9. ASSUME NEW i \in 1 .. m
      PROVE  /\ Doomed(new, i) <=> Doomed(stk, i)
             /\ i # m => (Targeted(new, i) <=> Targeted(stk, i))
  <2>1. stk[m].kind # "throw"
    BY <1>6 DEF Armed
  <2>2. \A j \in i + 1 .. n : stk[j].kind = "throw" /\ stk[j].to.at < m => j \in i + 1 .. m - 1
    <3>1. SUFFICES ASSUME NEW j \in i + 1 .. n, stk[j].kind = "throw", stk[j].to.at < m
                   PROVE  j \in i + 1 .. m - 1
      OBVIOUS
    <3>2. j # m
      BY <2>1, <3>1
    <3>3. j \in m + 1 .. n => stk[j].to.at >= m
      BY <1>8, <3>1
    <3>4. n \in Nat /\ m \in Nat /\ stk[j].to.at \in Nat /\ i \in Nat
      BY <1>3, <1>5, <1>to, <3>1
    <3>5. QED
      BY <3>1, <3>2, <3>3, <3>4
  <2>3. \A j \in i + 1 .. m : new[j].kind = "throw" => j \in i + 1 .. m - 1
    BY <1>5, <1>6, <2>1
  <2>4. \A j \in i + 1 .. m - 1 : new[j] = stk[j] /\ j \in i + 1 .. n /\ j \in i + 1 .. m
    BY <1>3, <1>5, <1>6
  <2>5. \A j \in i + 1 .. n : stk[j].kind = "throw" => stk[j].to.at \in Nat
    BY <1>3, <1>to
  <2>6. Doomed(new, i) <=> Doomed(stk, i)
    <3>1. ASSUME Doomed(new, i) PROVE Doomed(stk, i)
      BY <1>1, <1>6, <2>3, <2>4, <3>1 DEF Doomed
    <3>2. ASSUME Doomed(stk, i) PROVE Doomed(new, i)
      <4>1. PICK j \in i + 1 .. n : stk[j].kind = "throw" /\ stk[j].to.at < i
        BY <1>1, <3>2 DEF Doomed
      <4>2. stk[j].to.at < m
        BY <1>5, <2>5, <4>1
      <4>3. QED
        BY <1>6, <2>2, <2>4, <4>1, <4>2 DEF Doomed
    <3>3. QED
      BY <3>1, <3>2
  <2>7. i # m => (Targeted(new, i) <=> Targeted(stk, i))
    <3>1. ASSUME Targeted(new, i) PROVE Targeted(stk, i)
      BY <1>1, <1>6, <2>3, <2>4, <3>1 DEF Targeted
    <3>2. ASSUME Targeted(stk, i), i # m PROVE Targeted(new, i)
      <4>1. PICK j \in i + 1 .. n : stk[j].kind = "throw" /\ stk[j].to.at = i
        BY <1>1, <3>2 DEF Targeted
      <4>2. stk[j].to.at < m
        BY <1>5, <3>2, <4>1
      <4>3. QED
        BY <1>6, <2>2, <2>4, <4>1, <4>2 DEF Targeted
    <3>3. QED
      BY <3>1, <3>2
  <2>8. QED
    BY <2>6, <2>7
<1>10. ASSUME NEW h, HandlerOK(stk, h), h.at < m PROVE HandlerOK(new, h)
  BY <1>3, <1>5, <1>6, <1>10 DEF HandlerOK
<1>11. \A k \in DOMAIN hs : HandlerOK(stk, hs[k]) /\ hs[k].at < m
  <2>1. \A k \in DOMAIN hs : HandlerOK(stk, hs[k]) /\ hs[k].at \in 1 .. n
    BY <1>3 DEF Good, Handlers, HandlerOK
  <2>2. QED
    BY <1>3, <1>5, <2>1
<1>12. Frames(new)
  <2>1. new # <<>>
    BY <1>5, <1>6, EmptySeq
  <2>2. \A i \in 1 .. m - 1 : FrameOK(new[i])
    BY <1>3, <1>5, <1>6 DEF Good, Frames
  <2>3. stk[1].kind = "top" /\ 1 \in 1 .. m
    BY <1>3, <1>5 DEF Good, Frames
  <2>4. new[1].kind = "top"
    BY <1>6, <2>3
  <2>5. FrameOK(new[m])
    BY <1>2
  <2>6. \A i \in 1 .. m : FrameOK(new[i])
    BY <1>5, <2>2, <2>5
  <2>7. QED
    BY <1>6, <2>1, <2>4, <2>6 DEF Frames
<1>13. Handlers(new, hs, ps)
  BY <1>10, <1>11 DEF Good, Handlers
<1>14. Pushes(new, ps)
  <2>1. \A k \in DOMAIN ps : ps[k].at \in 1 .. m
    BY <1>3, <1>5 DEF Good, Pushes
  <2>2. QED
    BY <1>6, <2>1 DEF Good, Pushes
<1>15. Throws(new, hs, ps)
  <2>1. ASSUME NEW j \in 1 .. m, new[j].kind = "throw" PROVE ThrowOK(new, hs, ps, j)
    <3>1. j \in 1 .. m - 1 /\ new[j] = stk[j] /\ j \in 1 .. n /\ stk[j].kind = "throw"
      <4>1. j # m
        BY <1>6, <2>1 DEF Armed
      <4>2. QED
        BY <1>3, <1>5, <1>6, <2>1, <4>1
    <3>2. ThrowOK(stk, hs, ps, j)
      BY <1>7, <3>1
    <3>3. HandlerOK(new, stk[j].to)
      <4>1. HandlerOK(stk, stk[j].to) /\ stk[j].to.at \in 1 .. n /\ stk[j].to.at < j
        BY <1>3, <3>2 DEF ThrowOK, HandlerOK
      <4>2. QED
        BY <1>5, <1>10, <3>1, <4>1
    <3>4. \A l \in j + 1 .. m :
            new[l].kind = "throw" => new[l].to.at > j \/ new[l].to.at < stk[j].to.at
      <4>1. SUFFICES ASSUME NEW l \in j + 1 .. m, new[l].kind = "throw"
                     PROVE  new[l].to.at > j \/ new[l].to.at < stk[j].to.at
        OBVIOUS
      <4>2. l # m
        BY <1>6, <4>1 DEF Armed
      <4>3. l \in 1 .. m - 1 /\ l \in j + 1 .. n
        BY <1>3, <1>5, <3>1, <4>1, <4>2
      <4>4. QED
        BY <1>1, <1>6, <3>2, <4>1, <4>3 DEF ThrowOK
    <3>5. QED
      BY <1>6, <1>9, <3>1, <3>2, <3>3, <3>4 DEF ThrowOK
  <2>2. QED
    BY <1>6, <2>1 DEF Throws
<1>16. Arms(new, hs, "caught")
  <2>1. ASSUME NEW i \in 1 .. m - 1, stk[i].kind \in Armed
        PROVE  (\E k \in DOMAIN hs : hs[k].at = i) \/ Targeted(new, i)
    <3>1. i \in 1 .. n /\ i \in 1 .. m /\ i # m /\ i # n
      BY <1>3, <1>5
    <3>2. QED
      BY <1>1, <1>3, <1>9, <2>1, <3>1 DEF Good, Arms
  <2>2. QED
    BY <1>5, <1>6, <2>1 DEF Arms
<1>17. Locals(new, ps, "caught")
  <2>1. ASSUME NEW i \in 1 .. m - 1, stk[i].kind = "local"
        PROVE  (\E k \in DOMAIN ps : ps[k].at = i) \/ Doomed(new, i)
    <3>1. i \in 1 .. n /\ i \in 1 .. m /\ i # n
      BY <1>3, <1>5
    <3>2. QED
      BY <1>1, <1>3, <1>9, <2>1, <3>1 DEF Good, Locals
  <2>2. QED
    BY <1>5, <1>6, <2>1 DEF Locals, Armed
<1>18. Pops(new, ps)
  <2>1. ASSUME NEW i \in 1 .. m, stk[i].kind \in {"pop", "restore"}
        PROVE  PopOK(new, ps, i)
    <3>1. PopOK(stk, ps, i)
      <4>1. i \in 1 .. n /\ stk[i].kind \in {"pop", "restore"}
        BY <1>3, <1>5, <1>6, <2>1
      <4>2. QED
        BY <1>3, <4>1 DEF Good, Pops
    <3>2. i - 1 \in 1 .. m - 1
      BY <1>3, <1>5, <3>1 DEF PopOK
    <3>3. /\ new[i - 1] = stk[i - 1] /\ new[i].name = stk[i].name
          /\ Doomed(new, i) <=> Doomed(stk, i)
      BY <1>6, <1>9, <3>2
    <3>4. QED
      BY <3>1, <3>3 DEF PopOK
  <2>2. QED
    BY <1>6, <2>1 DEF Pops
<1>19. Waits(new)
  BY <1>3, <1>5, <1>6 DEF Good, Waits
<1>20. Bare(new, hs, ps, "caught")
  <2>1. \A k \in DOMAIN hs : hs[k].at # m
    <3>1. \A k \in DOMAIN hs : hs[k].at < m
      BY <1>11
    <3>2. QED
      BY <1>5, <3>1
  <2>2. stk[m].kind # "settor" => \A k \in DOMAIN ps : ps[k].at # m
    <3>1. stk[m].kind # "settor" => to.pushlist < m
      BY <1>2, <1>5 DEF HandlerOK
    <3>2. \A k \in DOMAIN ps : ps[k].at \in 1 .. n
      BY <1>3 DEF Good, Pushes
    <3>3. QED
      BY <1>3, <1>5, <3>1, <3>2
  <2>3. QED
    BY <1>5, <1>6, <2>1, <2>2 DEF Bare
<1>21. QED
  BY <1>12, <1>13, <1>14, <1>15, <1>16, <1>17, <1>18, <1>19, <1>20 DEF Good

\* There is no handler to throw to, or none is needed any more.
LEMMA Stop ==
  ASSUME NEW stk, NEW hs, NEW ps, NEW md
  PROVE  /\ Good(stk, hs, ps, md) => Good(stk, hs, ps, "abort")
         /\ Good(stk, hs, ps, "caught") => Good(stk, hs, ps, "exit")
BY DEF Good, Arms, Locals, Bare

-----------------------------------------------------------------------------
(* What the steps are made of. *)

\* pushlist as a handler saves it: 0 stands for its end.
TopOf(ps) == IF ps = <<>> THEN 0 ELSE Last(ps).at

LEMMA Sizes ==
  ASSUME NEW stk, NEW hs, NEW ps, NEW md, Good(stk, hs, ps, md)
  PROVE  /\ Len(stk) \in Nat \ {0} /\ DOMAIN stk = 1 .. Len(stk)
         /\ FrameOK(stk[Len(stk)])
         /\ stk[Len(stk)].kind # "top" => Len(stk) # 1
         /\ ~Doomed(stk, Len(stk)) /\ ~Targeted(stk, Len(stk))
<1>1. PICK n : n = Len(stk)
  OBVIOUS
<1>2. n \in Nat \ {0} /\ DOMAIN stk = 1 .. n
  BY <1>1, EmptySeq, LenProperties DEF Good, Frames, IsSeq
<1>3. \A j \in n + 1 .. n : FALSE
  BY <1>2
<1>4. ~Doomed(stk, n) /\ ~Targeted(stk, n)
  BY <1>1, <1>3 DEF Doomed, Targeted
<1>5. QED
  BY <1>1, <1>2, <1>4 DEF Good, Frames

LEMMA LastPush ==
  ASSUME NEW stk, NEW hs, NEW ps, NEW md, Good(stk, hs, ps, md)
  PROVE  /\ TopOf(ps) \in 0 .. Len(stk)
         /\ \A k \in DOMAIN ps : ps[k].at \in 1 .. TopOf(ps)
         /\ \A at : Saved(ps, at, TopOf(ps))
         /\ TopOf(ps) # 0 => ps # <<>> /\ Last(ps).at = TopOf(ps)
         /\ TopOf(ps) = 0 => ps = <<>>
<1>1. PICK n : n = Len(stk)
  OBVIOUS
<1>2. n \in Nat \ {0} /\ DOMAIN stk = 1 .. n
  BY <1>1, Sizes
<1>3. CASE ps = <<>>
  <2>1. DOMAIN ps = {}
    BY <1>3
  <2>2. QED
    BY <1>1, <1>2, <1>3, <2>1 DEF TopOf, Saved
<1>4. CASE ps # <<>>
  <2>1. PICK m : m = Len(ps)
    OBVIOUS
  <2>2. m \in Nat \ {0} /\ DOMAIN ps = 1 .. m /\ TopOf(ps) = ps[m].at /\ Last(ps).at = ps[m].at
    BY <1>4, <2>1, SeqPop DEF Good, Pushes, TopOf
  <2>3. \A k \in 1 .. m : ps[k].at \in 1 .. n
    BY <1>2, <2>2 DEF Good, Pushes
  <2>4. \A k \in 1 .. m - 1 : ps[k].at < ps[m].at
    BY <2>2 DEF Good, Pushes, Rising
  <2>5. \A k \in 1 .. m : ps[k].at <= ps[m].at
    BY <2>2, <2>3, <2>4
  <2>6. QED
    BY <1>1, <1>2, <1>4, <2>2, <2>3, <2>5 DEF Saved
<1>5. QED
  BY <1>3, <1>4

\* A frame with its handler, but no push.
LEMMA GrowArmed ==
  ASSUME NEW stk, NEW hs, NEW ps, NEW f, NEW h,
         Good(stk, hs, ps, "run"), FrameOK(f),
         f.kind \in {"call", "loop", "catch", "catcher", "pop"},
         f.kind = "pop" => PopOK(Append(stk, f), ps, Len(stk) + 1),
         h.at = Len(stk) + 1, h.pushlist = TopOf(ps)
  PROVE  Good(Append(stk, f), Append(hs, h), ps, "run")
<1>1. PICK new : new = Append(stk, f)
  OBVIOUS
<1>2. PICK n : n = Len(stk)
  OBVIOUS
<1>3. Good(new, hs, ps, "caught")
  BY <1>1, Grow DEF Armed
<1>4. n \in Nat \ {0} /\ DOMAIN new = 1 .. n + 1 /\ Len(new) = n + 1 /\ new[n + 1] = f
  BY <1>1, <1>2, Sizes, SeqPush DEF Good, Frames
<1>5. TopOf(ps) \in 0 .. n /\ \A at : Saved(ps, at, TopOf(ps))
  BY <1>2, LastPush
<1>6. HandlerOK(new, h) /\ h.at = Len(new) /\ Saved(ps, h.at, h.pushlist)
  BY <1>2, <1>4, <1>5 DEF HandlerOK, Armed
<1>7. QED
  BY <1>1, <1>3, <1>6, Arm

\* A settor's frame, with its push and its handler.
LEMMA GrowSettor ==
  ASSUME NEW stk, NEW hs, NEW ps, NEW f, NEW h, NEW p,
         Good(stk, hs, ps, "run"), FrameOK(f), f.kind = "settor",
         stk[Len(stk)].kind \in {"push", "assign", "pop"},
         p.at = Len(stk) + 1, h.at = Len(stk) + 1, h.pushlist = Len(stk) + 1
  PROVE  Good(Append(stk, f), Append(hs, h), Append(ps, p), "run")
<1>1. PICK new : new = Append(stk, f)
  OBVIOUS
<1>2. PICK n : n = Len(stk)
  OBVIOUS
<1>3. Good(new, hs, ps, "caught")
  BY <1>1, Grow
<1>4. n \in Nat \ {0} /\ DOMAIN new = 1 .. n + 1 /\ Len(new) = n + 1 /\ new[n + 1] = f
  BY <1>1, <1>2, Sizes, SeqPush DEF Good, Frames
<1>5. PICK more : more = Append(ps, p)
  OBVIOUS
<1>6. TopOf(ps) \in 0 .. n /\ \A k \in DOMAIN ps : ps[k].at \in 1 .. TopOf(ps)
  BY <1>2, LastPush
<1>7. \A k \in DOMAIN ps : ps[k].at # n + 1
  BY <1>4, <1>6
<1>8. \A k \in DOMAIN hs : hs[k].at # n + 1
  BY <1>3, <1>4 DEF Good, Bare
<1>9. Good(new, hs, more, "caught")
  BY <1>2, <1>3, <1>4, <1>5, <1>7, <1>8, Push DEF PushFrames
<1>10. /\ Len(ps) \in Nat /\ DOMAIN more = 1 .. Len(ps) + 1 /\ more[Len(ps) + 1] = p
       /\ \A k \in 1 .. Len(ps) : more[k] = ps[k] /\ k \in DOMAIN ps
  BY <1>5, SeqPush DEF Good, Pushes
<1>11. \A k \in DOMAIN more : more[k].at \in 1 .. n + 1
  BY <1>2, <1>4, <1>6, <1>10
<1>12. HandlerOK(new, h) /\ h.at = Len(new)
  BY <1>2, <1>4 DEF HandlerOK, Armed
<1>13. Saved(more, h.at, h.pushlist)
  <2>1. more[Len(ps) + 1].at = h.pushlist /\ Len(ps) + 1 \in DOMAIN more
    BY <1>2, <1>10
  <2>2. QED
    BY <1>2, <1>4, <1>11, <2>1 DEF Saved
<1>14. QED
  BY <1>1, <1>5, <1>9, <1>12, <1>13, Arm

\* A frame that can do no more than throw, with a push or without.
LEMMA GrowDead ==
  ASSUME NEW stk, NEW hs, NEW ps, NEW f, NEW p,
         Good(stk, hs, ps, "run"), FrameOK(f), f.kind = "dead", p.at = Len(stk) + 1
  PROVE  /\ Good(Append(stk, f), hs, ps, "run")
         /\ Good(Append(stk, f), hs, Append(ps, p), "run")
<1>1. PICK new : new = Append(stk, f)
  OBVIOUS
<1>2. PICK n : n = Len(stk)
  OBVIOUS
<1>3. Good(new, hs, ps, "run")
  BY <1>1, Grow DEF Armed
<1>4. n \in Nat \ {0} /\ DOMAIN new = 1 .. n + 1 /\ Len(new) = n + 1 /\ new[n + 1] = f
  BY <1>1, <1>2, Sizes, SeqPush DEF Good, Frames
<1>5. TopOf(ps) \in 0 .. n /\ \A k \in DOMAIN ps : ps[k].at \in 1 .. TopOf(ps)
  BY <1>2, LastPush
<1>6. \A k \in DOMAIN ps : ps[k].at # n + 1
  BY <1>4, <1>5
<1>7. Good(new, hs, Append(ps, p), "run")
  BY <1>2, <1>3, <1>4, <1>6, Push DEF PushFrames
<1>8. QED
  BY <1>1, <1>3, <1>7

\* A frame without handler and push comes in the place of one.
LEMMA Turn ==
  ASSUME NEW stk, NEW hs, NEW ps, NEW md, NEW f,
         Good(stk, hs, ps, md), md \in {"run", "caught"},
         stk[Len(stk)].kind \notin {"top", "throw"},
         \A k \in DOMAIN hs : hs[k].at # Len(stk),
         \A k \in DOMAIN ps : ps[k].at # Len(stk),
         FrameOK(f), f.kind \in {"bind", "store", "try", "restore"},
         f.kind = "restore" => stk[Len(stk)].kind = "pop" /\ f.name = stk[Len(stk)].name
  PROVE  Good(Append(Front(stk), f), hs, ps, "run")
<1>1. PICK n : n = Len(stk)
  OBVIOUS
<1>2. PICK front : front = Front(stk)
  OBVIOUS
<1>3. PICK new : new = Append(front, f)
  OBVIOUS
<1>4. Len(stk) # 1
  BY Sizes
<1>5. Good(front, hs, ps, "run")
  BY <1>2, <1>4, Drop
<1>6. IsSeq(stk) /\ stk # <<>>
  BY DEF Good, Frames
<1>7. /\ n \in Nat \ {0} /\ DOMAIN stk = 1 .. n
      /\ Len(new) = n /\ DOMAIN new = 1 .. n
      /\ new[n] = f /\ \A i \in 1 .. n - 1 : new[i] = stk[i]
  BY <1>1, <1>2, <1>3, <1>6, SeqChange
<1>8. Len(front) + 1 = n
  BY <1>1, <1>2, <1>6, SeqPop
<1>9. ~Doomed(new, n) /\ ~Doomed(stk, n)
  BY <1>1, <1>7 DEF Doomed
<1>10. f.kind = "restore" => PopOK(new, ps, n)
  <2>1. SUFFICES ASSUME f.kind = "restore" PROVE PopOK(new, ps, n)
    OBVIOUS
  <2>2. PopOK(stk, ps, n)
    BY <1>1, <1>7, <2>1 DEF Good, Pops
  <2>3. new[n - 1] = stk[n - 1] /\ new[n].name = stk[n].name
    BY <1>1, <1>7, <2>1, <2>2 DEF PopOK
  <2>4. QED
    BY <1>9, <2>2, <2>3 DEF PopOK
<1>11. f.kind \notin Armed \cup {"local", "throw", "pop", "settor"}
  BY DEF Armed
<1>12. Good(Append(front, f), hs, ps, "run")
  <2>1. f.kind = "restore" => PopOK(Append(front, f), ps, Len(front) + 1)
    BY <1>3, <1>8, <1>10
  <2>2. QED
    BY <1>5, <1>11, <2>1, Grow
<1>13. QED
  BY <1>2, <1>12

\* A frame that ends normally, with its handler and its push.
LEMMA EndFrame ==
  ASSUME NEW stk, NEW hs, NEW ps, NEW ps2,
         Good(stk, hs, ps, "run"), stk[Len(stk)].kind \in {"call", "loop", "catch", "catcher"},
         ps2 = IF TopOf(ps) = Len(stk) THEN Front(ps) ELSE ps
  PROVE  /\ Good(Front(stk), Front(hs), ps2, "run")
         /\ stk[Len(stk)].kind # "call" => ps2 = ps
<1>1. PICK n : n = Len(stk)
  OBVIOUS
<1>2. n \in Nat \ {0} /\ DOMAIN stk = 1 .. n /\ n # 1
  BY <1>1, Sizes
<1>3. stk[n].kind \in Armed
  BY <1>1 DEF Armed
<1>4. \A k \in DOMAIN ps : ps[k].at \in 1 .. TopOf(ps)
  BY LastPush
<1>5. stk[n].kind # "call" => TopOf(ps) # n
  <2>1. SUFFICES ASSUME TopOf(ps) = n PROVE stk[n].kind = "call"
    OBVIOUS
  <2>2. ps # <<>> /\ Last(ps).at = n
    BY <1>2, <2>1 DEF TopOf
  <2>3. Len(ps) \in DOMAIN ps /\ Last(ps) = ps[Len(ps)]
    BY <2>2, SeqPop DEF Good, Pushes
  <2>4. stk[n].kind \in PushFrames
    BY <2>2, <2>3 DEF Good, Pushes
  <2>5. QED
    BY <1>1, <2>4 DEF PushFrames
<1>6. Good(stk, hs, ps2, "run") /\ \A k \in DOMAIN ps2 : ps2[k].at # n
  <2>1. CASE TopOf(ps) = n
    <3>1. ps # <<>> /\ Last(ps).at = n /\ stk[n].kind = "call" /\ ps2 = Front(ps)
      BY <1>1, <1>2, <1>5, <2>1 DEF TopOf
    <3>2. Good(stk, hs, ps2, "run")
      BY <1>1, <3>1, PopOwn
    <3>3. Pushes(stk, ps)
      BY DEF Good
    <3>4. \A k \in DOMAIN ps2 : ps2[k].at < Last(ps).at
      BY <3>1, <3>3, Popped
    <3>5. \A k \in DOMAIN ps2 : ps2[k].at < n
      BY <3>1, <3>4
    <3>6. QED
      BY <1>2, <3>2, <3>5
  <2>2. CASE TopOf(ps) # n
    <3>1. TopOf(ps) \in 0 .. n
      BY <1>1, LastPush
    <3>2. ps2 = ps /\ \A k \in DOMAIN ps : ps[k].at # n
      BY <1>1, <1>2, <1>4, <2>2, <3>1
    <3>3. QED
      BY <3>2
  <2>3. QED
    BY <2>1, <2>2
<1>7. Good(stk, Front(hs), ps2, "caught")
  BY <1>1, <1>3, <1>6, Disarm
<1>8. \A k \in DOMAIN Front(hs) : Front(hs)[k].at # n
  BY <1>1, <1>7 DEF Good, Bare
<1>9. Good(Front(stk), Front(hs), ps2, "run")
  BY <1>1, <1>2, <1>6, <1>7, <1>8, Drop
<1>10. QED
  BY <1>1, <1>5, <1>9

\* A frame whose handler was jumped to ends.
LEMMA EndCaught ==
  ASSUME NEW stk, NEW hs, NEW ps,
         Good(stk, hs, ps, "caught"),
         stk[Len(stk)].kind \in {"call", "loop", "catch", "catcher"}
  PROVE  /\ Good(Front(stk), hs, ps, "run")
         /\ \A k \in DOMAIN hs : hs[k].at # Len(stk)
         /\ \A k \in DOMAIN ps : ps[k].at # Len(stk)
<1>1. /\ \A k \in DOMAIN hs : hs[k].at # Len(stk)
      /\ \A k \in DOMAIN ps : ps[k].at # Len(stk)
  BY DEF Good, Bare
<1>2. Len(stk) # 1 /\ stk[Len(stk)].kind # "throw"
  BY Sizes
<1>3. QED
  BY <1>1, <1>2, Drop

\* varpop begins: the last push is the one of the scope that ends, or one that
\* throw takes off.
LEMMA StartsPop ==
  ASSUME NEW stk, NEW hs, NEW ps, NEW f,
         Good(stk, hs, ps, "run"), f.name = Last(ps).name,
         \/ stk[Len(stk)].kind = "local"
         \/ stk[Len(stk)].kind = "throw" /\ TopOf(ps) # stk[Len(stk)].to.pushlist
  PROVE  PopOK(Append(stk, f), ps, Len(stk) + 1)
<1>1. PICK n : n = Len(stk)
  OBVIOUS
<1>2. PICK new : new = Append(stk, f)
  OBVIOUS
<1>3. /\ n \in Nat \ {0} /\ DOMAIN stk = 1 .. n /\ ~Doomed(stk, n)
      /\ Len(new) = n + 1 /\ new[n + 1] = f /\ new[n] = stk[n]
  BY <1>1, <1>2, Sizes, SeqPush DEF Good, Frames
<1>4. /\ TopOf(ps) \in 0 .. n
      /\ \A k \in DOMAIN ps : ps[k].at \in 1 .. TopOf(ps)
      /\ TopOf(ps) # 0 => ps # <<>> /\ Last(ps).at = TopOf(ps)
  BY <1>1, LastPush
<1>5. /\ stk[n].kind = "local" => TopOf(ps) = n
      /\ stk[n].kind = "throw" => TopOf(ps) > stk[n].to.pushlist
  <2>1. CASE stk[n].kind = "local"
    <3>1. \E k \in DOMAIN ps : ps[k].at = n
      BY <1>1, <1>3, <2>1 DEF Good, Locals
    <3>2. QED
      BY <1>3, <1>4, <2>1, <3>1
  <2>2. CASE stk[n].kind = "throw"
    <3>1. stk[n].to.pushlist \in Nat /\ Saved(ps, stk[n].to.at, stk[n].to.pushlist)
      BY <1>3, <2>2 DEF Good, Throws, ThrowOK, HandlerOK
    <3>2. QED
      BY <1>1, <1>3, <1>4, <2>2, <3>1 DEF Saved
  <2>3. QED
    BY <1>1, <2>1, <2>2
<1>6. TopOf(ps) # 0
  <2>1. stk[n].kind = "throw" => stk[n].to.pushlist \in Nat
    BY <1>3 DEF Good, Throws, ThrowOK, HandlerOK
  <2>2. QED
    BY <1>1, <1>3, <1>4, <1>5, <2>1
<1>7. PICK m : m = Len(ps)
  OBVIOUS
<1>8. m \in Nat \ {0} /\ DOMAIN ps = 1 .. m /\ Last(ps) = ps[m]
  BY <1>4, <1>6, <1>7, SeqPop DEF Good, Pushes
<1>9. \A l \in DOMAIN ps : ps[l].at < n + 1 <=> l <= m
  BY <1>3, <1>4, <1>8
<1>10. /\ stk[n].kind = "local" => ps[m].at = n
       /\ stk[n].kind = "throw" => ps[m].at > stk[n].to.pushlist
       /\ ps[m].name = f.name
  BY <1>4, <1>5, <1>6, <1>8
<1>11. stk[n].kind \in {"local", "throw"} /\ m \in DOMAIN ps /\ n + 1 > 1 /\ n + 1 - 1 = n
  BY <1>1, <1>3, <1>8
<1>12. PopOK(new, ps, n + 1)
  BY <1>3, <1>9, <1>10, <1>11 DEF PopOK
<1>13. QED
  BY <1>1, <1>2, <1>12

\* varpop ends: the frame below has its push off.
LEMMA Restores ==
  ASSUME NEW stk, NEW hs, NEW ps,
         Good(stk, hs, ps, "run"), stk[Len(stk)].kind = "restore"
  PROVE  /\ Front(stk)[Len(stk) - 1] = stk[Len(stk) - 1] /\ Len(Front(stk)) = Len(stk) - 1
         /\ stk[Len(stk) - 1].kind \in {"local", "throw"}
         /\ ps # <<>> /\ Last(ps).name = stk[Len(stk)].name
         /\ stk[Len(stk) - 1].kind = "local" =>
              /\ Good(Front(stk), hs, Front(ps), "caught")
              /\ Good(Front(Front(stk)), hs, Front(ps), "run")
         /\ stk[Len(stk) - 1].kind = "throw" => Good(Front(stk), hs, Front(ps), "run")
<1>1. PICK n : n = Len(stk)
  OBVIOUS
<1>2. PICK front : front = Front(stk)
  OBVIOUS
<1>3. n \in Nat \ {0} /\ DOMAIN stk = 1 .. n /\ ~Doomed(stk, n) /\ n # 1
  BY <1>1, Sizes
<1>4. PopOK(stk, ps, n)
  BY <1>1, <1>3 DEF Good, Pops
<1>5. PICK k \in DOMAIN ps :
        /\ \A l \in DOMAIN ps : ps[l].at < n <=> l <= k
        /\ stk[n - 1].kind = "local" => ps[k].at = n - 1
        /\ stk[n - 1].kind = "throw" => ps[k].at > stk[n - 1].to.pushlist
        /\ ps[k].name = stk[n].name
  BY <1>3, <1>4 DEF PopOK
<1>6. \A l \in DOMAIN ps : ps[l].at < n
  <2>1. \A l \in DOMAIN ps : ps[l].at \in 1 .. n /\ stk[ps[l].at].kind \in PushFrames
    BY <1>3 DEF Good, Pushes
  <2>2. \A l \in DOMAIN ps : ps[l].at # n
    BY <1>1, <2>1 DEF PushFrames
  <2>3. QED
    BY <1>3, <2>1, <2>2
<1>7. \A l \in DOMAIN hs : hs[l].at # n
  BY <1>1 DEF Good, Handlers, HandlerOK, Armed
<1>8. ps # <<>> /\ Last(ps) = ps[k]
  <2>1. ps # <<>>
    BY <1>5
  <2>2. DOMAIN ps = 1 .. Len(ps) /\ Len(ps) \in Nat \ {0} /\ Last(ps) = ps[Len(ps)]
    BY <2>1, SeqPop DEF Good, Pushes
  <2>3. Len(ps) <= k /\ k <= Len(ps)
    BY <1>5, <1>6, <2>2
  <2>4. k = Len(ps)
    BY <1>5, <2>2, <2>3
  <2>5. QED
    BY <2>1, <2>2, <2>4
<1>9. Good(front, hs, ps, "run")
  <2>1. \A l \in DOMAIN ps : ps[l].at # n
    BY <1>3, <1>6
  <2>2. QED
    BY <1>1, <1>2, <1>3, <1>7, <2>1, Drop
<1>10. /\ Len(front) = n - 1 /\ n - 1 \in 1 .. n - 1
       /\ \A i \in 1 .. n - 1 : front[i] = stk[i]
  BY <1>1, <1>2, <1>3, SeqPop DEF Good, Frames
<1>11. stk[n - 1].kind \in {"local", "throw"} /\ front[n - 1] = stk[n - 1]
  BY <1>4, <1>10 DEF PopOK
<1>12. CASE stk[n - 1].kind = "local"
  <2>1. Good(front, hs, Front(ps), "caught")
    BY <1>5, <1>8, <1>9, <1>10, <1>11, <1>12, PopOwn
  <2>2. /\ \A l \in DOMAIN hs : hs[l].at # Len(front)
        /\ \A l \in DOMAIN Front(ps) : Front(ps)[l].at # Len(front)
    BY <1>10, <1>11, <1>12, <2>1 DEF Good, Bare
  <2>3. Len(front) # 1
    <3>1. front[Len(front)].kind # "top"
      BY <1>10, <1>11, <1>12
    <3>2. QED
      BY <1>9, <3>1, Sizes
  <2>4. Good(Front(front), hs, Front(ps), "run")
    BY <1>10, <1>11, <1>12, <2>1, <2>2, <2>3, Drop
  <2>5. QED
    BY <1>1, <1>2, <1>5, <1>8, <1>10, <1>11, <1>12, <2>1, <2>4
<1>13. CASE stk[n - 1].kind = "throw"
  <2>1. Good(front, hs, Front(ps), "run")
    BY <1>5, <1>8, <1>9, <1>10, <1>11, <1>13, PopThrown
  <2>2. QED
    BY <1>1, <1>2, <1>5, <1>8, <1>10, <1>11, <1>13, <2>1
<1>14. QED
  BY <1>11, <1>12, <1>13

\* A settor has returned: what waited for it goes on.
LEMMA SettorLeaves ==
  ASSUME NEW stk, NEW hs, NEW ps, NEW f, NEW hs2, NEW ps2,
         Good(stk, hs, ps, "caught"), stk[Len(stk)].kind = "settor",
         ps2 = IF TopOf(ps) = Len(stk) THEN Front(ps) ELSE ps,
         hs2 = IF stk[Len(stk) - 1].kind = "pop" THEN Front(hs) ELSE hs,
         FrameOK(f), f.name = stk[Len(stk) - 1].name,
         f.kind = After(stk[Len(stk) - 1].kind)
  PROVE  Good(Append(Front(Front(stk)), f), hs2, ps2, "run")
<1>1. PICK n : n = Len(stk)
  OBVIOUS
<1>2. PICK front : front = Front(stk)
  OBVIOUS
<1>3. n \in Nat \ {0} /\ DOMAIN stk = 1 .. n /\ n # 1
  BY <1>1, Sizes
<1>4. /\ Len(front) = n - 1 /\ n - 1 \in 1 .. n - 1
      /\ \A i \in 1 .. n - 1 : front[i] = stk[i]
  BY <1>1, <1>2, <1>3, SeqPop DEF Good, Frames
<1>5. stk[n - 1].kind \in {"push", "assign", "pop"} /\ front[n - 1] = stk[n - 1]
  BY <1>1, <1>3, <1>4 DEF Good, Waits
<1>6. \A k \in DOMAIN hs : hs[k].at # n
  BY <1>1 DEF Good, Bare
<1>7. Good(stk, hs, ps2, "caught") /\ \A k \in DOMAIN ps2 : ps2[k].at # n
  <2>1. CASE TopOf(ps) = n
    <3>1. ps # <<>> /\ Last(ps).at = n /\ ps2 = Front(ps)
      BY <1>1, <1>3, <2>1 DEF TopOf
    <3>2. Good(stk, hs, ps2, "caught")
      BY <1>1, <1>6, <3>1, PopOwn
    <3>3. Pushes(stk, ps)
      BY DEF Good
    <3>4. \A k \in DOMAIN ps2 : ps2[k].at < Last(ps).at
      BY <3>1, <3>3, Popped
    <3>5. \A k \in DOMAIN ps2 : ps2[k].at < n
      BY <3>1, <3>4
    <3>6. QED
      BY <1>3, <3>2, <3>5
  <2>2. CASE TopOf(ps) # n
    <3>1. TopOf(ps) \in 0 .. n /\ \A k \in DOMAIN ps : ps[k].at \in 1 .. TopOf(ps)
      BY <1>1, LastPush
    <3>2. ps2 = ps /\ \A k \in DOMAIN ps : ps[k].at # n
      BY <1>1, <1>3, <2>2, <3>1
    <3>3. QED
      BY <3>2
  <2>3. QED
    BY <2>1, <2>2
<1>8. Good(front, hs, ps2, "run")
  BY <1>1, <1>2, <1>3, <1>6, <1>7, Drop
<1>9. \A k \in DOMAIN ps2 : ps2[k].at # Len(front)
  BY <1>4, <1>5, <1>8 DEF Good, Pushes, PushFrames
<1>10. \E md \in {"run", "caught"} :
         Good(front, hs2, ps2, md) /\ \A k \in DOMAIN hs2 : hs2[k].at # Len(front)
  <2>1. CASE stk[n - 1].kind = "pop"
    <3>1. Good(front, hs2, ps2, "caught")
      BY <1>1, <1>4, <1>5, <1>8, <1>9, <2>1, Disarm DEF Armed
    <3>2. QED
      BY <3>1 DEF Good, Bare
  <2>2. CASE stk[n - 1].kind # "pop"
    <3>1. front[Len(front)].kind \notin Armed
      BY <1>4, <1>5, <2>2 DEF Armed
    <3>2. \A k \in DOMAIN hs : hs[k].at # Len(front)
      BY <1>8, <3>1 DEF Good, Handlers, HandlerOK
    <3>3. QED
      BY <1>1, <1>8, <2>2, <3>2
  <2>3. QED
    BY <2>1, <2>2
<1>11. PICK md \in {"run", "caught"} :
         Good(front, hs2, ps2, md) /\ \A k \in DOMAIN hs2 : hs2[k].at # Len(front)
  BY <1>10
<1>12. /\ f.kind \in {"bind", "store", "restore"} /\ f.name = front[Len(front)].name
       /\ f.kind = "restore" => front[Len(front)].kind = "pop"
       /\ front[Len(front)].kind \notin {"top", "throw"}
  BY <1>1, <1>4, <1>5 DEF After
<1>13. Good(Append(Front(front), f), hs2, ps2, "run")
  BY <1>9, <1>11, <1>12, Turn
<1>14. QED
  BY <1>2, <1>13

-----------------------------------------------------------------------------
(* The steps. *)

LEMMA FrameIs ==
  ASSUME NEW kind \in Kinds, NEW x, NEW v, NEW e, NEW to, NEW n
  PROVE  /\ FrameOK(Frame(kind, x, v, e, to, n)) /\ Frame(kind, x, v, e, to, n).kind = kind
         /\ Frame(kind, x, v, e, to, n).name = x /\ Frame(kind, x, v, e, to, n).to = to
         /\ FrameOK(Plain(kind, n)) /\ Plain(kind, n).kind = kind
BY DEF Frame, Plain, FrameOK

LEMMA HandlerIs ==
  ASSUME NEW at, NEW q, NEW d
  PROVE  Handler(at, q, d).at = at /\ Handler(at, q, d).pushlist = q
BY DEF Handler

LEMMA ReturnIs ==
  ASSUME IsSeq(stack), stack # <<>>
  PROVE  /\ Return(1) = Front(stack)
         /\ Height # 1 => Return(2) = Front(Front(stack))
<1>1. PICK S : stack \in Seq(S)
  BY DEF IsSeq
<1>2. PICK n : n = Len(stack)
  OBVIOUS
<1>3. n \in Nat \ {0}
  BY <1>1, <1>2, EmptySeq, LenProperties
<1>4. PICK front : front = Front(stack)
  OBVIOUS
<1>5. front = SubSeq(stack, 1, n - 1) /\ Return(1) = SubSeq(stack, 1, n - 1)
  BY <1>2, <1>4 DEF Return, Height, Front
<1>6. Len(front) = n - 1 /\ \A i \in 1 .. n - 1 : front[i] = stack[i]
  BY <1>2, <1>3, <1>4, SeqPop
<1>7. Front(front) = SubSeq(front, 1, n - 2)
  BY <1>3, <1>6 DEF Front
<1>8. n # 1 => SubSeq(front, 1, n - 2) = SubSeq(stack, 1, n - 2)
  BY <1>3, <1>6
<1>9. Return(2) = SubSeq(stack, 1, n - 2)
  BY <1>2 DEF Return, Height
<1>10. QED
  BY <1>2, <1>4, <1>5, <1>7, <1>8, <1>9 DEF Height

IInv ==
  /\ mode \in {"run", "caught", "exit", "abort"}
  /\ Good(stack, handlers, pushes, mode)

\* throw, whatever called it.
LEMMA Raises ==
  ASSUME NEW stk, NEW hs, NEW ps, NEW md, NEW e,
         Good(stk, hs, ps, md), Raise(stk, hs, e), pushes' = ps,
         md = "run" \/ (md = "caught" /\ stk[Len(stk)].kind = "local")
  PROVE  IInv'
<1>1. CASE hs = <<>> /\ mode' = "abort" /\ stack' = stk /\ handlers' = hs
  <2>1. Good(stk, hs, ps, "abort")
    BY Stop
  <2>2. QED
    BY <1>1, <2>1 DEF IInv
<1>2. CASE /\ hs # <<>> /\ mode' = "run" /\ handlers' = Front(hs)
           /\ stack' = Append(stk, Frame("throw", Zero, NULL, e, Last(hs), 0))
  <2>1. PICK f : f = Frame("throw", Zero, NULL, e, Last(hs), 0)
    OBVIOUS
  <2>2. FrameOK(f) /\ f.kind = "throw" /\ f.to = Last(hs)
    BY <2>1, FrameIs DEF Kinds
  <2>3. Good(Append(stk, f), Front(hs), ps, "run")
    BY <1>2, <2>2, RaiseKeeps
  <2>4. QED
    BY <1>2, <2>1, <2>3 DEF IInv
<1>3. QED
  BY <1>1, <1>2 DEF Raise

\* callsettor.
LEMMA CallsSettor ==
  ASSUME NEW stk, NEW hs, NEW x,
         Good(stk, hs, pushes, "run"), CallSettor(stk, hs, x),
         stk[Len(stk)].kind \in {"push", "assign", "pop"},
         mode = "run"
  PROVE  IInv'
<1>1. PICK at : at = Len(stk) + 1
  OBVIOUS
<1>2. PICK p : p = [at |-> at, name |-> Zero, defn |-> vars[Zero]]
  OBVIOUS
<1>3. pushes' = Append(pushes, p) /\ p.at = Len(stk) + 1
  BY <1>1, <1>2 DEF CallSettor, Pushed
<1>4. CASE Raise(Append(stk, Plain("dead", 1)), hs, "error")
  <2>1. PICK f : f = Plain("dead", 1)
    OBVIOUS
  <2>2. FrameOK(f) /\ f.kind = "dead"
    BY <2>1, FrameIs DEF Kinds
  <2>3. PICK new : new = Append(stk, f)
    OBVIOUS
  <2>4. Good(new, hs, pushes', "run")
    BY <1>3, <2>2, <2>3, GrowDead
  <2>5. Raise(new, hs, "error")
    BY <1>4, <2>1, <2>3
  <2>6. QED
    BY <2>4, <2>5, Raises
<1>5. CASE /\ stack' = Append(stk, Frame("settor", x, NULL, NULL, NoHandler, 1))
           /\ handlers' = Append(hs, Handler(at, at, evaldepth + 1))
           /\ mode' = mode
  <2>1. PICK f : f = Frame("settor", x, NULL, NULL, NoHandler, 1)
    OBVIOUS
  <2>2. FrameOK(f) /\ f.kind = "settor"
    BY <2>1, FrameIs DEF Kinds
  <2>3. PICK h : h = Handler(at, at, evaldepth + 1)
    OBVIOUS
  <2>4. h.at = at /\ h.pushlist = at
    BY <2>3, HandlerIs
  <2>5. Good(Append(stk, f), Append(hs, h), Append(pushes, p), "run")
    BY <1>1, <1>3, <2>2, <2>4, GrowSettor
  <2>6. QED
    BY <1>3, <1>5, <2>1, <2>3, <2>5 DEF IInv
<1>6. QED
  BY <1>1, <1>4, <1>5 DEF CallSettor, EnterEval

\* varpush, or vardef.
LEMMA Operates ==
  ASSUME NEW wait \in {"push", "assign"}, NEW go \in {"bind", "store"}, NEW x, NEW v,
         IInv, mode = "run", WithSettor(stack, handlers, wait, go, x, v)
  PROVE  IInv'
<1>1. Good(stack, handlers, pushes, "run")
  BY DEF IInv
<1>2. CASE CallSettor(Append(stack, Frame(wait, x, v, NULL, NoHandler, 0)), handlers, x)
  <2>1. PICK f : f = Frame(wait, x, v, NULL, NoHandler, 0)
    OBVIOUS
  <2>2. FrameOK(f) /\ f.kind = wait
    BY <2>1, FrameIs DEF Kinds
  <2>3. PICK new : new = Append(stack, f)
    OBVIOUS
  <2>4. Good(new, handlers, pushes, "run")
    BY <1>1, <2>2, <2>3, Grow DEF Armed
  <2>5. new[Len(new)] = f
    BY <1>1, <2>3, SeqPush DEF Good, Frames
  <2>6. CallSettor(new, handlers, x)
    BY <1>2, <2>1, <2>3
  <2>7. QED
    BY <2>2, <2>4, <2>5, <2>6, CallsSettor
<1>3. CASE /\ stack' = Append(stack, Frame(go, x, v, NULL, NoHandler, 0))
           /\ UNCHANGED <<handlers, pushes, mode>>
  <2>1. PICK f : f = Frame(go, x, v, NULL, NoHandler, 0)
    OBVIOUS
  <2>2. FrameOK(f) /\ f.kind = go
    BY <2>1, FrameIs DEF Kinds
  <2>3. Good(Append(stack, f), handlers, pushes, "run")
    BY <1>1, <2>2, Grow DEF Armed
  <2>4. QED
    BY <1>3, <2>1, <2>3 DEF IInv
<1>4. QED
  BY <1>2, <1>3 DEF WithSettor

\* varpop begins.
LEMMA Unbinds ==
  ASSUME IInv, mode = "run", StartPop,
         \/ Top.kind = "local"
         \/ Top.kind = "throw" /\ TopPush # Top.to.pushlist
  PROVE  IInv'
<1>1. Good(stack, handlers, pushes, "run") /\ TopPush = TopOf(pushes)
  BY DEF IInv, TopPush, TopOf
<1>2. PICK p : p = Last(pushes)
  OBVIOUS
<1>3. ASSUME NEW f, f.name = p.name PROVE PopOK(Append(stack, f), pushes, Len(stack) + 1)
  BY <1>1, <1>2, <1>3, StartsPop DEF Top, Height
<1>4. CASE /\ p.name \in Settors
           /\ CallSettor(Append(stack, Frame("pop", p.name, p.defn, NULL, NoHandler, 0)),
                         Append(handlers, Handler(Height + 1, TopPush, evaldepth)), p.name)
  <2>1. PICK f : f = Frame("pop", p.name, p.defn, NULL, NoHandler, 0)
    OBVIOUS
  <2>2. FrameOK(f) /\ f.kind = "pop" /\ f.name = p.name
    BY <2>1, FrameIs DEF Kinds
  <2>3. PICK h : h = Handler(Height + 1, TopPush, evaldepth)
    OBVIOUS
  <2>4. h.at = Len(stack) + 1 /\ h.pushlist = TopOf(pushes)
    BY <1>1, <2>3, HandlerIs DEF Height
  <2>5. PICK new : new = Append(stack, f)
    OBVIOUS
  <2>6. PICK hs : hs = Append(handlers, h)
    OBVIOUS
  <2>7. PopOK(new, pushes, Len(stack) + 1)
    BY <1>3, <2>2, <2>5
  <2>8. Good(new, hs, pushes, "run")
    BY <1>1, <2>2, <2>4, <2>5, <2>6, <2>7, GrowArmed
  <2>9. new[Len(new)] = f
    BY <1>1, <2>5, SeqPush DEF Good, Frames
  <2>10. CallSettor(new, hs, p.name)
    BY <1>4, <2>1, <2>3, <2>5, <2>6
  <2>11. QED
    BY <2>2, <2>8, <2>9, <2>10, CallsSettor
<1>5. CASE /\ stack' = Append(stack, Frame("restore", p.name, p.defn, NULL, NoHandler, 0))
           /\ UNCHANGED <<handlers, pushes, mode>>
  <2>1. PICK f : f = Frame("restore", p.name, p.defn, NULL, NoHandler, 0)
    OBVIOUS
  <2>2. FrameOK(f) /\ f.kind = "restore" /\ f.name = p.name
    BY <2>1, FrameIs DEF Kinds
  <2>3. PopOK(Append(stack, f), pushes, Len(stack) + 1)
    BY <1>3, <2>2
  <2>4. Good(Append(stack, f), handlers, pushes, "run")
    BY <1>1, <2>2, <2>3, Grow DEF Armed
  <2>5. QED
    BY <1>5, <2>1, <2>4 DEF IInv
<1>6. QED
  <2>1. CASE p.name \in Settors
    BY <1>2, <1>4, <2>1 DEF StartPop, WithSettor
  <2>2. CASE p.name \notin Settors
    BY <1>2, <1>5, <2>2 DEF StartPop, WithSettor
  <2>3. QED
    BY <2>1, <2>2

\* A handler throws on.
LEMMA Rethrows ==
  ASSUME IInv, mode = "caught", Rethrow, UNCHANGED pushes,
         Top.kind \in {"call", "loop", "catcher", "settor"}
  PROVE  IInv'
<1>1. Good(stack, handlers, pushes, "caught") /\ Top = stack[Len(stack)]
  BY DEF IInv, Top, Height
<1>2. PICK f : f = [Top EXCEPT !.kind = "dead"]
  OBVIOUS
<1>3. FrameOK(Top)
  BY <1>1, Sizes
<1>4. FrameOK(f) /\ f.kind = "dead"
  BY <1>2, <1>3 DEF FrameOK, Kinds
<1>5. PICK new : new = Append(Front(stack), f)
  OBVIOUS
<1>6. Good(new, handlers, pushes, "run")
  BY <1>1, <1>4, <1>5, Kill DEF Armed
<1>7. Return(1) = Front(stack)
  BY <1>1, ReturnIs DEF Good, Frames
<1>8. Raise(new, handlers, exception)
  BY <1>2, <1>5, <1>7 DEF Rethrow
<1>9. QED
  BY <1>6, <1>8, Raises

LEMMA InitInv ==
  ASSUME Init
  PROVE  IInv
<1>1. PICK f : f = Plain("top", 0)
  OBVIOUS
<1>2. PICK h : h = Handler(1, 0, 0)
  OBVIOUS
<1>3. FrameOK(f) /\ f.kind = "top" /\ h.at = 1 /\ h.pushlist = 0
  BY <1>1, <1>2, FrameIs, HandlerIs DEF Kinds
<1>4. /\ stack = <<f>> /\ handlers = <<h>> /\ pushes = <<>> /\ mode = "run"
  BY <1>1, <1>2 DEF Init
<1>5. /\ IsSeq(stack) /\ stack # <<>> /\ Len(stack) = 1 /\ DOMAIN stack = {1} /\ stack[1] = f
  BY <1>4, SeqOne
<1>6. IsSeq(handlers) /\ DOMAIN handlers = {1} /\ handlers[1] = h
  BY <1>4, SeqOne
<1>7. IsSeq(pushes) /\ DOMAIN pushes = {}
  <2>1. <<>> \in Seq({})
    OBVIOUS
  <2>2. QED
    BY <1>4, <2>1 DEF IsSeq
<1>8. Frames(stack) /\ Pushes(stack, pushes) /\ Throws(stack, handlers, pushes)
  BY <1>3, <1>5, <1>7 DEF Frames, Pushes, Rising, Throws
<1>9. Handlers(stack, handlers, pushes)
  BY <1>3, <1>5, <1>6, <1>7 DEF Handlers, HandlerOK, Rising, Saved, Armed
<1>10. /\ Arms(stack, handlers, mode) /\ Locals(stack, pushes, mode) /\ Pops(stack, pushes)
       /\ Waits(stack) /\ Bare(stack, handlers, pushes, mode)
  BY <1>3, <1>4, <1>5, <1>6 DEF Arms, Locals, Pops, Waits, Bare
<1>11. QED
  BY <1>4, <1>8, <1>9, <1>10 DEF IInv, Good

LEMMA Now ==
  ASSUME IInv
  PROVE  /\ Good(stack, handlers, pushes, mode) /\ Top = stack[Len(stack)] /\ Height = Len(stack)
         /\ TopPush = TopOf(pushes) /\ Return(1) = Front(stack)
         /\ mode = "run" => Good(stack, handlers, pushes, "run")
         /\ mode = "caught" => Good(stack, handlers, pushes, "caught")
BY ReturnIs DEF IInv, Top, Height, TopPush, TopOf, Good, Frames

\* eval of a lambda: a frame with a handler, and with a push if it is named.
LEMMA CallKeeps ==
  ASSUME IInv, NEW named \in BOOLEAN, Call(named)
  PROVE  IInv'
<1>1. /\ Good(stack, handlers, pushes, "run") /\ mode = "run" /\ Height = Len(stack)
      /\ TopPush = TopOf(pushes)
  BY Now DEF Call, Running
<1>2. CASE /\ Raise(Append(stack, Plain("dead", 1)), handlers, "error")
           /\ pushes' = Pushed(Height + 1, Zero) \/ pushes' = pushes
  <2>1. PICK f : f = Plain("dead", 1)
    OBVIOUS
  <2>2. PICK new : new = Append(stack, f)
    OBVIOUS
  <2>3. FrameOK(f) /\ f.kind = "dead"
    BY <2>1, FrameIs DEF Kinds
  <2>4. PICK p : p = [at |-> Height + 1, name |-> Zero, defn |-> vars[Zero]]
    OBVIOUS
  <2>5. p.at = Len(stack) + 1 /\ (pushes' = Append(pushes, p) \/ pushes' = pushes)
    BY <1>1, <1>2, <2>4 DEF Pushed
  <2>6. Good(new, handlers, pushes', "run")
    BY <1>1, <2>2, <2>3, <2>5, GrowDead
  <2>7. QED
    BY <1>2, <2>1, <2>2, <2>6, Raises
<1>3. CASE /\ stack' = Append(stack, Frame("call", Zero, NULL, NULL, NoHandler, 1))
           /\ handlers' = Append(handlers, Handler(Height + 1, TopPush, evaldepth + 1))
           /\ mode' = mode
           /\ pushes' = Pushed(Height + 1, Zero) \/ pushes' = pushes
  <2>1. PICK f : f = Frame("call", Zero, NULL, NULL, NoHandler, 1)
    OBVIOUS
  <2>2. PICK h : h = Handler(Height + 1, TopPush, evaldepth + 1)
    OBVIOUS
  <2>3. FrameOK(f) /\ f.kind = "call" /\ h.at = Len(stack) + 1 /\ h.pushlist = TopOf(pushes)
    BY <1>1, <2>1, <2>2, FrameIs, HandlerIs DEF Kinds
  <2>4. PICK new : new = Append(stack, f)
    OBVIOUS
  <2>5. PICK hs : hs = Append(handlers, h)
    OBVIOUS
  <2>6. Good(new, hs, pushes, "run")
    BY <1>1, <2>3, <2>4, <2>5, GrowArmed
  <2>7. PICK p : p = [at |-> Height + 1, name |-> Zero, defn |-> vars[Zero]]
    OBVIOUS
  <2>8. /\ Len(new) = Len(stack) + 1 /\ new[Len(new)] = f /\ Len(stack) \in Nat
        /\ p.at = Len(stack) + 1
    BY <1>1, <2>4, <2>7, SeqPush DEF Good, Frames
  <2>9. \A k \in DOMAIN pushes : pushes[k].at # p.at
    <3>1. /\ TopOf(pushes) \in 0 .. Len(stack)
          /\ \A k \in DOMAIN pushes : pushes[k].at \in 1 .. TopOf(pushes)
      BY <1>1, LastPush
    <3>2. QED
      BY <2>8, <3>1
  <2>10. Good(new, hs, Append(pushes, p), "run")
    BY <2>3, <2>6, <2>8, <2>9, Push DEF PushFrames
  <2>11. pushes' = Append(pushes, p) \/ pushes' = pushes
    BY <1>3, <2>7 DEF Pushed
  <2>12. QED
    BY <1>1, <1>3, <2>1, <2>2, <2>4, <2>5, <2>6, <2>10, <2>11 DEF IInv
<1>4. /\ EnterEval(stack, handlers, Frame("call", Zero, NULL, NULL, NoHandler, 1),
                 Append(handlers, Handler(Height + 1, TopPush, evaldepth + 1)))
      /\ pushes' = Pushed(Height + 1, Zero) \/ pushes' = pushes
  BY DEF Call
<1>5. QED
  BY <1>2, <1>3, <1>4 DEF EnterEval

\* varpop of 0.
LEMMA PopZeroIs ==
  ASSUME IInv, PopZero
  PROVE  pushes' = IF TopOf(pushes) = Len(stack) THEN Front(pushes) ELSE pushes
BY Now DEF PopZero

LEMMA CallEndKeeps ==
  ASSUME IInv, CallEnd
  PROVE  IInv'
<1>1. /\ Good(stack, handlers, pushes, "run") /\ mode = "run" /\ Top = stack[Len(stack)]
      /\ Return(1) = Front(stack) /\ Top.kind = "call"
  BY Now DEF CallEnd, Running
<1>2. pushes' = IF TopOf(pushes) = Len(stack) THEN Front(pushes) ELSE pushes
  BY PopZeroIs DEF CallEnd
<1>3. Good(Front(stack), Front(handlers), pushes', "run")
  BY <1>1, <1>2, EndFrame
<1>4. QED
  BY <1>1, <1>3 DEF CallEnd, IInv

\* LoopEnd, CatchEnd, CatcherEnd.
LEMMA EndKeeps ==
  ASSUME IInv, mode = "run", Top.kind \in {"loop", "catch", "catcher"},
         stack' = Return(1), handlers' = Front(handlers), UNCHANGED <<pushes, mode>>
  PROVE  IInv'
<1>1. /\ Good(stack, handlers, pushes, "run") /\ Top = stack[Len(stack)]
      /\ Return(1) = Front(stack)
  BY Now
<1>2. PICK ps : ps = IF TopOf(pushes) = Len(stack) THEN Front(pushes) ELSE pushes
  OBVIOUS
<1>3. ps = pushes /\ Good(Front(stack), Front(handlers), ps, "run")
  BY <1>1, <1>2, EndFrame
<1>4. QED
  BY <1>1, <1>3 DEF IInv

LEMMA LoopKeeps ==
  ASSUME IInv, Loop
  PROVE  IInv'
<1>1. /\ Good(stack, handlers, pushes, "run") /\ mode = "run" /\ Height = Len(stack)
      /\ TopPush = TopOf(pushes)
  BY Now DEF Loop, Running
<1>2. PICK f : f = Plain("loop", 0)
  OBVIOUS
<1>3. PICK h : h = Handler(Height + 1, TopPush, evaldepth)
  OBVIOUS
<1>4. FrameOK(f) /\ f.kind = "loop" /\ h.at = Len(stack) + 1 /\ h.pushlist = TopOf(pushes)
  BY <1>1, <1>2, <1>3, FrameIs, HandlerIs DEF Kinds
<1>5. Good(Append(stack, f), Append(handlers, h), pushes, "run")
  BY <1>1, <1>4, GrowArmed
<1>6. QED
  BY <1>1, <1>2, <1>3, <1>5 DEF Loop, IInv

LEMMA BindKeeps ==
  ASSUME IInv, Bind
  PROVE  IInv'
<1>1. /\ Good(stack, handlers, pushes, "run") /\ mode = "run" /\ Top = stack[Len(stack)]
      /\ Return(1) = Front(stack) /\ Top.kind = "bind" /\ Height = Len(stack)
  BY Now DEF Bind
<1>2. PICK n : n = Len(stack)
  OBVIOUS
<1>3. PICK front : front = Front(stack)
  OBVIOUS
<1>4. n \in Nat \ {0} /\ n # 1
  BY <1>1, <1>2, Sizes
<1>5. /\ \A k \in DOMAIN handlers : handlers[k].at # n
      /\ \A k \in DOMAIN pushes : pushes[k].at # n
  BY <1>1, <1>2 DEF Good, Handlers, HandlerOK, Pushes, Armed, PushFrames
<1>6. Good(front, handlers, pushes, "run")
  BY <1>1, <1>2, <1>3, <1>4, <1>5, Drop
<1>7. PICK f : f = Frame("local", Top.name, NULL, NULL, NoHandler, 0)
  OBVIOUS
<1>8. FrameOK(f) /\ f.kind = "local"
  BY <1>7, FrameIs DEF Kinds
<1>9. PICK new : new = Append(front, f)
  OBVIOUS
<1>10. Good(new, handlers, pushes, "caught")
  BY <1>6, <1>8, <1>9, Grow
<1>11. Len(new) = n /\ new[n] = f
  BY <1>1, <1>2, <1>3, <1>9, SeqChange DEF Good, Frames
<1>12. PICK p : p = [at |-> Height, name |-> Top.name, defn |-> vars[Top.name]]
  OBVIOUS
<1>13. p.at = n
  BY <1>1, <1>2, <1>12
<1>14. Good(new, handlers, Append(pushes, p), "run")
  BY <1>5, <1>8, <1>10, <1>11, <1>13, Push DEF PushFrames
<1>15. QED
  BY <1>1, <1>3, <1>7, <1>9, <1>12, <1>14 DEF Bind, Pushed, IInv

LEMMA StoreKeeps ==
  ASSUME IInv, Store
  PROVE  IInv'
<1>1. /\ Good(stack, handlers, pushes, "run") /\ mode = "run" /\ Top = stack[Len(stack)]
      /\ Return(1) = Front(stack) /\ Top.kind = "store"
  BY Now DEF Store
<1>2. Len(stack) # 1
  BY <1>1, Sizes
<1>3. /\ \A k \in DOMAIN handlers : handlers[k].at # Len(stack)
      /\ \A k \in DOMAIN pushes : pushes[k].at # Len(stack)
  BY <1>1 DEF Good, Handlers, HandlerOK, Pushes, Armed, PushFrames
<1>4. Good(Front(stack), handlers, pushes, "run")
  BY <1>1, <1>2, <1>3, Drop
<1>5. QED
  BY <1>1, <1>4 DEF Store, IInv

\* callsettor returns the value v.
LEMMA SettorKeeps ==
  ASSUME IInv, NEW v, NEW hs, Good(stack, hs, pushes, "caught"), Top.kind = "settor",
         SettorValue(v), mode' = "run",
         handlers' = IF stack[Height - 1].kind = "pop" THEN Front(hs) ELSE hs
  PROVE  IInv'
<1>1. Top = stack[Len(stack)] /\ Height = Len(stack) /\ IsSeq(stack) /\ stack # <<>>
  BY Now DEF Good, Frames
<1>2. PICK n : n = Len(stack)
  OBVIOUS
<1>3. n \in Nat \ {0} /\ DOMAIN stack = 1 .. n /\ n # 1
  BY <1>1, <1>2, Sizes
<1>4. Return(2) = Front(Front(stack))
  BY <1>1, <1>2, <1>3, ReturnIs
<1>5. PICK f : f = [stack[n - 1] EXCEPT !.kind = After(stack[n - 1].kind), !.val = v]
  OBVIOUS
<1>6. FrameOK(stack[n - 1]) /\ stack[n - 1].kind \in {"push", "assign", "pop"}
  BY <1>1, <1>2, <1>3 DEF Good, Frames, Waits
<1>7. FrameOK(f) /\ f.kind = After(stack[n - 1].kind) /\ f.name = stack[n - 1].name
  <2>1. f.kind = After(stack[n - 1].kind) /\ f.name = stack[n - 1].name
    BY <1>5, <1>6 DEF FrameOK
  <2>2. After(stack[n - 1].kind) \in Kinds
    BY <1>6 DEF After, Kinds
  <2>3. QED
    BY <1>5, <1>6, <2>1, <2>2 DEF FrameOK
<1>8. pushes' = IF TopOf(pushes) = Len(stack) THEN Front(pushes) ELSE pushes
  BY PopZeroIs DEF SettorValue
<1>9. Good(Append(Front(Front(stack)), f), handlers', pushes', "run")
  BY <1>1, <1>2, <1>7, <1>8, SettorLeaves
<1>10. stack' = Append(Front(Front(stack)), f)
  BY <1>1, <1>2, <1>4, <1>5 DEF SettorValue
<1>11. QED
  BY <1>9, <1>10 DEF IInv

LEMMA SettorEndKeeps ==
  ASSUME IInv, NEW v, SettorEnd(v)
  PROVE  IInv'
<1>1. /\ Good(stack, handlers, pushes, "run") /\ mode = "run" /\ Top = stack[Len(stack)]
      /\ Top.kind = "settor"
  BY Now DEF SettorEnd, Running
<1>2. PICK hs : hs = Front(handlers)
  OBVIOUS
<1>3. Good(stack, hs, pushes, "caught")
  BY <1>1, <1>2, Disarm DEF Armed
<1>4. handlers' = IF stack[Height - 1].kind = "pop" THEN Front(hs) ELSE hs
  BY <1>2 DEF SettorEnd
<1>5. SettorValue(v) /\ mode' = "run"
  BY <1>1 DEF SettorEnd
<1>6. QED
  BY <1>1, <1>3, <1>4, <1>5, SettorKeeps

LEMMA RestoreKeeps ==
  ASSUME IInv, Restore
  PROVE  IInv'
<1>1. /\ Good(stack, handlers, pushes, "run") /\ mode = "run" /\ Top = stack[Len(stack)]
      /\ Return(1) = Front(stack) /\ Top.kind = "restore" /\ Height = Len(stack)
      /\ IsSeq(stack) /\ stack # <<>>
  BY Now DEF Restore, Good, Frames
<1>2. PICK front : front = Front(stack)
  OBVIOUS
<1>3. PICK ps : ps = Front(pushes)
  OBVIOUS
<1>4. /\ front[Len(front)] = stack[Len(stack) - 1]
      /\ stack[Len(stack) - 1].kind \in {"local", "throw"}
      /\ stack[Len(stack) - 1].kind = "local" =>
           /\ Good(front, handlers, ps, "caught")
           /\ Good(Front(front), handlers, ps, "run")
      /\ stack[Len(stack) - 1].kind = "throw" => Good(front, handlers, ps, "run")
  BY <1>1, <1>2, <1>3, Restores
<1>5. pushes' = ps /\ Len(stack) # 1
  BY <1>1, <1>3, Sizes DEF Restore
<1>6. Return(2) = Front(front)
  BY <1>1, <1>2, <1>5, ReturnIs
<1>7. CASE Raise(Return(1), handlers, Top.exc)
  <2>1. Raise(front, handlers, Top.exc)
    BY <1>1, <1>2, <1>7
  <2>2. CASE stack[Len(stack) - 1].kind = "local"
    BY <1>4, <1>5, <2>1, <2>2, Raises
  <2>3. CASE stack[Len(stack) - 1].kind = "throw"
    BY <1>4, <1>5, <2>1, <2>3, Raises
  <2>4. QED
    BY <1>4, <2>2, <2>3
<1>8. CASE /\ stack' = IF stack[Height - 1].kind = "local" THEN Return(2) ELSE Return(1)
           /\ UNCHANGED <<handlers, mode>>
  <2>1. Good(stack', handlers, ps, "run")
    BY <1>1, <1>2, <1>4, <1>6, <1>8
  <2>2. QED
    BY <1>1, <1>5, <1>8, <2>1 DEF IInv
<1>9. QED
  BY <1>7, <1>8 DEF Restore

LEMMA CatchKeeps ==
  ASSUME IInv, Catch
  PROVE  IInv'
<1>1. Good(stack, handlers, pushes, "run") /\ mode = "run"
  BY Now DEF Catch, Running
<1>2. ASSUME NEW kind \in {"dead", "try"}
      PROVE  Good(Append(stack, Plain(kind, 1)), handlers, pushes, "run")
  <2>1. PICK f : f = Plain(kind, 1)
    OBVIOUS
  <2>2. FrameOK(f) /\ f.kind = kind
    BY <2>1, FrameIs DEF Kinds
  <2>3. Good(Append(stack, f), handlers, pushes, "run")
    BY <1>1, <2>2, Grow DEF Armed
  <2>4. QED
    BY <2>1, <2>3
<1>3. UNCHANGED pushes /\ EnterEval(stack, handlers, Plain("try", 1), handlers)
  BY DEF Catch
<1>4. CASE Raise(Append(stack, Plain("dead", 1)), handlers, "error")
  BY <1>2, <1>3, <1>4, Raises
<1>5. CASE stack' = Append(stack, Plain("try", 1)) /\ UNCHANGED <<handlers, mode>>
  BY <1>1, <1>2, <1>3, <1>5 DEF IInv
<1>6. QED
  BY <1>3, <1>4, <1>5 DEF EnterEval

\* The handler that $&catch makes.
LEMMA CatchArms ==
  ASSUME IInv, mode = "run", Top.kind = "try"
  PROVE  Good(Append(Front(stack), Plain("catch", 2)),
              Append(handlers, Handler(Height, TopPush, evaldepth)), pushes, "run")
<1>1. /\ Good(stack, handlers, pushes, "run") /\ Top = stack[Len(stack)]
      /\ Height = Len(stack) /\ TopPush = TopOf(pushes)
  BY Now
<1>2. PICK front : front = Front(stack)
  OBVIOUS
<1>3. /\ \A k \in DOMAIN handlers : handlers[k].at # Len(stack)
      /\ \A k \in DOMAIN pushes : pushes[k].at # Len(stack)
      /\ Len(stack) # 1
  BY <1>1, Sizes DEF Good, Handlers, HandlerOK, Pushes, Armed, PushFrames
<1>4. Good(front, handlers, pushes, "run") /\ Len(front) + 1 = Len(stack)
  <2>1. Good(front, handlers, pushes, "run")
    BY <1>1, <1>2, <1>3, Drop
  <2>2. QED
    BY <1>1, <1>2, <2>1, SeqPop DEF Good, Frames
<1>5. PICK f : f = Plain("catch", 2)
  OBVIOUS
<1>6. PICK h : h = Handler(Height, TopPush, evaldepth)
  OBVIOUS
<1>7. FrameOK(f) /\ f.kind = "catch" /\ h.at = Len(front) + 1 /\ h.pushlist = TopOf(pushes)
  BY <1>1, <1>4, <1>5, <1>6, FrameIs, HandlerIs DEF Kinds
<1>8. Good(Append(front, f), Append(handlers, h), pushes, "run")
  BY <1>4, <1>7, GrowArmed
<1>9. QED
  BY <1>2, <1>5, <1>6, <1>8

LEMMA CatchBodyKeeps ==
  ASSUME IInv, CatchBody
  PROVE  IInv'
<1>1. mode = "run" /\ Top.kind = "try" /\ Return(1) = Front(stack)
  BY Now DEF CatchBody
<1>2. PICK stk : stk = Append(Front(stack), Plain("catch", 2))
  OBVIOUS
<1>3. PICK hs : hs = Append(handlers, Handler(Height, TopPush, evaldepth))
  OBVIOUS
<1>4. Good(stk, hs, pushes, "run")
  BY <1>1, <1>2, <1>3, CatchArms
<1>5. /\ Raise(stk, hs, "error") \/ (stack' = stk /\ handlers' = hs /\ mode' = mode)
      /\ UNCHANGED pushes
  BY <1>1, <1>2, <1>3 DEF CatchBody
<1>6. QED
  BY <1>1, <1>4, <1>5, Raises DEF IInv

\* The stack that longjmp leaves.
LEMMA Lands ==
  ASSUME IInv, Jump, NEW m, m = Top.to.at
  PROVE  /\ m \in 1 .. Len(stack) - 1
         /\ IsSeq(stack') /\ Len(stack') = m /\ DOMAIN stack' = 1 .. m
         /\ \A i \in 1 .. m - 1 : stack'[i] = stack[i]
         /\ FrameOK(stack'[m]) /\ stack'[m].kind = stack[m].kind
         /\ stack'[m].name = stack[m].name /\ stack'[m].val = stack[m].val
<1>1. /\ Good(stack, handlers, pushes, "run") /\ Top = stack[Len(stack)]
      /\ Top.kind = "throw"
  BY Now DEF Jump
<1>2. PICK n : n = Len(stack)
  OBVIOUS
<1>3. n \in Nat \ {0} /\ DOMAIN stack = 1 .. n
  BY <1>1, <1>2, Sizes
<1>4. m \in 1 .. n - 1
  BY <1>1, <1>2, <1>3 DEF Good, Throws, ThrowOK, HandlerOK
<1>5. PICK new : new = [i \in 1 .. m |->
                 IF i = m /\ stack[i].kind = "catch" THEN [stack[i] EXCEPT !.evals = 1]
                                                     ELSE stack[i]]
  OBVIOUS
<1>6. m \in Nat \ {0} /\ m \in 1 .. n
  BY <1>3, <1>4
<1>7. /\ DOMAIN new = 1 .. m /\ \A i \in 1 .. m - 1 : new[i] = stack[i]
      /\ new[m] = stack[m] \/ new[m] = [stack[m] EXCEPT !.evals = 1]
  BY <1>5, <1>6
<1>8. IsSeq(new) /\ Len(new) = m
  <2>1. new \in [1 .. m -> {new[i] : i \in 1 .. m}]
    BY <1>5
  <2>2. new \in Seq({new[i] : i \in 1 .. m})
    BY <1>6, <2>1, SeqDef
  <2>3. Len(new) = m
    BY <1>6, <1>7, <2>2, LenProperties
  <2>4. QED
    BY <2>2, <2>3 DEF IsSeq
<1>9. /\ FrameOK(new[m]) /\ new[m].kind = stack[m].kind /\ new[m].name = stack[m].name
      /\ new[m].val = stack[m].val
  <2>1. FrameOK(stack[m])
    BY <1>1, <1>3, <1>6 DEF Good, Frames
  <2>2. QED
    BY <1>7, <2>1 DEF FrameOK
<1>10. stack' = new
  BY <1>5 DEF Jump
<1>11. QED
  BY <1>2, <1>4, <1>7, <1>8, <1>9, <1>10

LEMMA JumpKeepsInv ==
  ASSUME IInv, Jump
  PROVE  IInv'
<1>1. /\ Good(stack, handlers, pushes, "run") /\ mode = "run" /\ Top = stack[Len(stack)]
      /\ Top.kind = "throw" /\ TopPush = TopOf(pushes)
  BY Now DEF Jump
<1>2. PICK to : to = Top.to
  OBVIOUS
<1>3. PICK m : m = to.at
  OBVIOUS
<1>4. PICK new : new = stack'
  OBVIOUS
<1>5. /\ m \in 1 .. Len(stack) - 1 /\ IsSeq(new) /\ Len(new) = m
      /\ DOMAIN new = 1 .. m /\ \A i \in 1 .. m - 1 : new[i] = stack[i]
      /\ FrameOK(new[m]) /\ new[m].kind = stack[m].kind /\ new[m].name = stack[m].name
  BY <1>2, <1>3, <1>4, Lands
<1>6. \A k \in DOMAIN pushes : pushes[k].at <= to.pushlist
  <2>1. TopOf(pushes) = to.pushlist /\ TopOf(pushes) \in Nat
    BY <1>1, <1>2, LastPush DEF Jump
  <2>2. \A k \in DOMAIN pushes : pushes[k].at \in 1 .. TopOf(pushes)
    BY <1>1, LastPush
  <2>3. QED
    BY <2>1, <2>2
<1>7. Good(new, handlers, pushes, "caught")
  BY <1>1, <1>2, <1>3, <1>5, <1>6, JumpKeeps
<1>8. mode' = "caught" /\ UNCHANGED <<handlers, pushes>>
  BY DEF Jump
<1>9. QED
  BY <1>4, <1>7, <1>8 DEF IInv

\* CallCaught, LoopCaught, CatcherCaught: where the frame does not throw on.
LEMMA CaughtKeeps ==
  ASSUME IInv, mode = "caught", mode' = "run", UNCHANGED pushes,
         Top.kind \in {"call", "loop", "catch", "catcher"}
  PROVE  /\ stack' = Return(1) /\ UNCHANGED handlers => IInv'
         /\ stack' = Append(Return(1), Plain("try", 1)) /\ UNCHANGED handlers => IInv'
         /\ /\ stack' = Append(Return(1), Plain("catcher", 1))
            /\ handlers' = Append(handlers, Handler(Height, TopPush, evaldepth))
            => IInv'
<1>1. /\ Good(stack, handlers, pushes, "caught") /\ Top = stack[Len(stack)]
      /\ Return(1) = Front(stack) /\ Height = Len(stack) /\ TopPush = TopOf(pushes)
  BY Now
<1>2. PICK front : front = Front(stack)
  OBVIOUS
<1>3. Good(front, handlers, pushes, "run")
  BY <1>1, <1>2, EndCaught
<1>4. Len(front) + 1 = Len(stack)
  BY <1>1, <1>2, SeqPop DEF Good, Frames
<1>5. ASSUME stack' = Return(1), UNCHANGED handlers PROVE IInv'
  BY <1>1, <1>2, <1>3, <1>5 DEF IInv
<1>6. ASSUME stack' = Append(Return(1), Plain("try", 1)), UNCHANGED handlers PROVE IInv'
  <2>1. PICK f : f = Plain("try", 1)
    OBVIOUS
  <2>2. FrameOK(f) /\ f.kind = "try"
    BY <2>1, FrameIs DEF Kinds
  <2>3. Good(Append(front, f), handlers, pushes, "run")
    BY <1>3, <2>2, Grow DEF Armed
  <2>4. QED
    BY <1>1, <1>2, <1>6, <2>1, <2>3 DEF IInv
<1>7. ASSUME stack' = Append(Return(1), Plain("catcher", 1)),
             handlers' = Append(handlers, Handler(Height, TopPush, evaldepth))
      PROVE  IInv'
  <2>1. PICK f : f = Plain("catcher", 1)
    OBVIOUS
  <2>2. PICK h : h = Handler(Height, TopPush, evaldepth)
    OBVIOUS
  <2>3. /\ FrameOK(f) /\ f.kind = "catcher"
        /\ h.at = Len(front) + 1 /\ h.pushlist = TopOf(pushes)
    BY <1>1, <1>4, <2>1, <2>2, FrameIs, HandlerIs DEF Kinds
  <2>4. Good(Append(front, f), Append(handlers, h), pushes, "run")
    BY <1>3, <2>3, GrowArmed
  <2>5. QED
    BY <1>1, <1>2, <1>7, <2>1, <2>2, <2>4 DEF IInv
<1>8. QED
  BY <1>5, <1>6, <1>7

LEMMA PopCaughtKeeps ==
  ASSUME IInv, PopCaught
  PROVE  IInv'
<1>1. /\ Good(stack, handlers, pushes, "caught") /\ Top = stack[Len(stack)]
      /\ Return(1) = Front(stack) /\ Top.kind = "pop"
  BY Now DEF PopCaught, Caught
<1>2. PICK f : f = [Top EXCEPT !.kind = "restore", !.exc = exception]
  OBVIOUS
<1>3. FrameOK(Top)
  BY <1>1, Sizes
<1>4. FrameOK(f) /\ f.kind = "restore" /\ f.name = Top.name
  BY <1>2, <1>3 DEF FrameOK, Kinds
<1>5. /\ \A k \in DOMAIN handlers : handlers[k].at # Len(stack)
      /\ \A k \in DOMAIN pushes : pushes[k].at # Len(stack)
  BY <1>1 DEF Good, Bare
<1>6. Good(Append(Front(stack), f), handlers, pushes, "run")
  BY <1>1, <1>4, <1>5, Turn
<1>7. QED
  BY <1>1, <1>2, <1>6 DEF PopCaught, IInv

LEMMA SettorCaughtKeeps ==
  ASSUME IInv, SettorCaught
  PROVE  IInv'
<1>1. /\ Good(stack, handlers, pushes, "caught") /\ mode = "caught" /\ Top.kind = "settor"
  BY Now DEF SettorCaught, Caught
<1>2. CASE exception = "return"
  <2>1. PICK v \in Value \cup {NULL} : SettorValue(v)
    BY <1>2 DEF SettorCaught
  <2>2. /\ handlers' = IF stack[Height - 1].kind = "pop" THEN Front(handlers) ELSE handlers
        /\ mode' = "run"
    BY <1>2 DEF SettorCaught
  <2>3. QED
    BY <1>1, <2>1, <2>2, SettorKeeps
<1>3. CASE exception # "return"
  BY <1>1, <1>3, Rethrows DEF SettorCaught
<1>4. QED
  BY <1>2, <1>3

LEMMA NextInv ==
  ASSUME IInv, [Next]_uvars
  PROVE  IInv'
<1>1. ASSUME NEW named \in BOOLEAN, Call(named) PROVE IInv'
  BY <1>1, CallKeeps
<1>2. ASSUME NEW x, NEW v, Local(x, v) \/ Assign(x, v) PROVE IInv'
  BY <1>2, Operates DEF Local, Assign, Running
<1>3. ASSUME NEW e, Throw(e) PROVE IInv'
  <2>1. Good(stack, handlers, pushes, "run") /\ Raise(stack, handlers, e) /\ UNCHANGED pushes
    BY <1>3, Now DEF Throw, Running
  <2>2. QED
    BY <2>1, Raises
<1>4. ASSUME NEW v, SettorEnd(v) PROVE IInv'
  BY <1>4, SettorEndKeeps
<1>5. CASE Loop
  BY <1>5, LoopKeeps
<1>6. CASE Catch
  BY <1>6, CatchKeeps
<1>7. CASE CallEnd
  BY <1>7, CallEndKeeps
<1>8. CASE LoopEnd \/ CatchEnd \/ CatcherEnd
  BY <1>8, EndKeeps DEF LoopEnd, CatchEnd, CatcherEnd, Running
<1>9. CASE LocalEnd
  BY <1>9, Unbinds DEF LocalEnd, Running
<1>10. CASE Bind
  BY <1>10, BindKeeps
<1>11. CASE Store
  BY <1>11, StoreKeeps
<1>12. CASE Restore
  BY <1>12, RestoreKeeps
<1>13. CASE CatchBody
  BY <1>13, CatchBodyKeeps
<1>14. CASE UnwindPush
  BY <1>14, Unbinds DEF UnwindPush
<1>15. CASE Jump
  BY <1>15, JumpKeepsInv
<1>16. CASE CallCaught
  BY <1>16, CaughtKeeps, Rethrows DEF CallCaught, Caught
<1>17. CASE SettorCaught
  BY <1>17, SettorCaughtKeeps
<1>18. CASE LoopCaught
  BY <1>18, CaughtKeeps, Rethrows DEF LoopCaught, Caught
<1>19. CASE PopCaught
  BY <1>19, PopCaughtKeeps
<1>20. CASE CatchCaught
  BY <1>20, CaughtKeeps DEF CatchCaught, Caught
<1>21. CASE CatcherCaught
  BY <1>21, CaughtKeeps, Rethrows DEF CatcherCaught, Caught
<1>22. CASE TopCaught
  BY <1>22, Stop DEF TopCaught, Caught, IInv
<1>23. CASE UNCHANGED uvars
  BY <1>23 DEF uvars, IInv
<1>24. QED
  BY <1>1, <1>2, <1>3, <1>4, <1>5, <1>6, <1>7, <1>8, <1>9, <1>10, <1>11, <1>12, <1>13,
     <1>14, <1>15, <1>16, <1>17, <1>18, <1>19, <1>20, <1>21, <1>22, <1>23
     DEF Next, Program, Machinery, Ended

LEMMA Invariance == Spec => []IInv
<1>1. Init => IInv
  BY InitInv
<1>2. IInv /\ [Next]_uvars => IInv'
  BY NextInv
<1>3. QED
  BY <1>1, <1>2, PTL DEF Spec

\* Through any nest of throws, settors and catches, neither the chain of handlers
\* nor pushlist has an address of a frame that longjmp discarded; what a handler
\* saved of pushlist is still there when throw comes to it; and a frame that ends
\* normally finds its own handler on top, as pophandler asserts.
THEOREM NothingDangles == Spec => []ListsLive
<1>1. IInv => ListsLive
  <2>. SUFFICES ASSUME IInv PROVE ListsLive
    OBVIOUS
  <2>1. /\ Good(stack, handlers, pushes, mode) /\ Top = stack[Len(stack)]
        /\ Height = Len(stack)
        /\ mode = "run" => Good(stack, handlers, pushes, "run")
    BY Now
  <2>2. Height \in Nat \ {0} /\ DOMAIN stack = 1 .. Height /\ ~Doomed(stack, Height)
    BY <2>1, Sizes
  <2>3. \A at, q : Saved(pushes, at, q) =>
          /\ q = 0 \/ \E i \in DOMAIN pushes : pushes[i].at = q
          /\ \A i \in DOMAIN pushes : ~(q < pushes[i].at /\ pushes[i].at < at)
    BY DEF Saved
  <2>4. Rising(handlers) /\ \A i \in DOMAIN handlers :
          /\ handlers[i].at <= Height
          /\ stack[handlers[i].at].kind \in Armed /\ SavedPush(handlers[i])
    BY <2>1, <2>2, <2>3 DEF Good, Handlers, HandlerOK, SavedPush
  <2>5. Rising(pushes) /\ \A i \in DOMAIN pushes : pushes[i].at <= Height
    BY <2>1, <2>2 DEF Good, Pushes
  <2>6. Top.kind = "throw" => SavedPush(Top.to)
    BY <2>1, <2>2, <2>3 DEF Good, Throws, ThrowOK, SavedPush
  <2>7. PopsOwnHandler
    BY <2>1, OwnHandler DEF PopsOwnHandler, Running
  <2>8. QED
    BY <2>4, <2>5, <2>6, <2>7 DEF ListsLive
<1>2. QED
  BY <1>1, Invariance, PTL

-----------------------------------------------------------------------------
(***************************************************************************)
(* Shallow binding is deep binding: vars and pushlist, with each value     *)
(* saved by the push above it, hold the nest of scopes of DynScope.        *)
(*                                                                         *)
(* What the push i of a variable gave it, or what it has outside of all    *)
(* (i = 0), is a function ValueIn of pushlist and vars; the first lemmas   *)
(* say what a push, a pop and an assignment do to it, and so which steps   *)
(* of DynScope they are.  What is left of each action is then what it does *)
(* to pushlist and vars (Move).  For that the frames say that a settor     *)
(* runs only where there is one, that only the innermost frame puts back a *)
(* value, which is what the last push saved unless a settor gave it, and   *)
(* that a frame which is no local's has pushed nothing but 0 (Bound).      *)
(***************************************************************************)

\* What push i gave x: ScopeValue, of a pushlist ps and variables vs.
ValueIn(ps, vs, x, i) ==
  LET later == {j \in i + 1 .. Len(ps) : ps[j].name = x}
  IN  IF later = {} THEN vs[x]
      ELSE ps[CHOOSE j \in later : \A l \in later : j <= l].defn

\* No push of x is later than i.
LastOf(ps, x, i) == \A j \in i + 1 .. Len(ps) : ps[j].name # x

\* The next push of x after i is j.
NextOf(ps, x, i, j) ==
  /\ j \in i + 1 .. Len(ps) /\ ps[j].name = x
  /\ \A l \in i + 1 .. j - 1 : ps[l].name # x

\* A set of numbers from a to b has a least one ...
LEMMA SmallestOf ==
  ASSUME NEW S, S \subseteq Nat, S # {}
  PROVE  \E j \in S : \A l \in S : j <= l
<1>1. PICK j \in S : \A l \in S : <<l, j>> \notin OpToRel(<, Nat)
  BY NatLessThanWellFounded, WFMin, Zenon
<1>2. \A l \in S : ~(l < j)
  BY <1>1 DEF OpToRel
<1>3. QED
  BY <1>2

\* ... and a greatest one.
LEMMA LargestOf ==
  ASSUME NEW n \in Nat, NEW S, S \subseteq 1 .. n, S # {}
  PROVE  \E j \in S : \A l \in S : l <= j
<1>1. PICK R : R = {d \in Nat : n - d \in S}
  OBVIOUS
<1>2. R \subseteq Nat /\ R # {}
  <2>1. PICK s \in S : TRUE
    OBVIOUS
  <2>2. s \in 1 .. n
    BY <2>1
  <2>3. n - s \in Nat /\ n - (n - s) = s
    BY <2>2
  <2>4. QED
    BY <1>1, <2>1, <2>3
<1>3. PICK d \in R : \A e \in R : d <= e
  BY <1>2, SmallestOf
<1>4. PICK j : j = n - d
  OBVIOUS
<1>5. d \in Nat /\ j \in S
  BY <1>1, <1>3, <1>4
<1>6. ASSUME NEW l \in S PROVE l <= j
  <2>1. l \in 1 .. n
    BY <1>6
  <2>2. n - l \in Nat /\ n - (n - l) = l
    BY <2>1
  <2>3. n - l \in R
    BY <1>1, <1>6, <2>2
  <2>4. d <= n - l
    BY <1>3, <2>3
  <2>5. QED
    BY <1>4, <1>5, <2>1, <2>4
<1>7. QED
  BY <1>5, <1>6

\* The value is in the next push of the name, or in the variable.
LEMMA ValueIs ==
  ASSUME NEW ps, IsSeq(ps), NEW vs, NEW x, NEW i \in 0 .. Len(ps)
  PROVE  /\ LastOf(ps, x, i) => ValueIn(ps, vs, x, i) = vs[x]
         /\ \A j : NextOf(ps, x, i, j) => ValueIn(ps, vs, x, i) = ps[j].defn
         /\ LastOf(ps, x, i) \/ \E j : NextOf(ps, x, i, j)
<1>1. PICK n : n = Len(ps)
  OBVIOUS
<1>2. n \in Nat /\ i \in 0 .. n
  BY <1>1, LenProperties DEF IsSeq
<1>3. PICK later : later = {j \in i + 1 .. n : ps[j].name = x}
  OBVIOUS
<1>4. later \subseteq Nat
  BY <1>2, <1>3
<1>5. ValueIn(ps, vs, x, i) =
        IF later = {} THEN vs[x] ELSE ps[CHOOSE j \in later : \A l \in later : j <= l].defn
  BY <1>1, <1>3 DEF ValueIn
<1>6. LastOf(ps, x, i) => later = {}
  BY <1>1, <1>3 DEF LastOf
<1>7. ASSUME NEW j, NextOf(ps, x, i, j)
      PROVE  ValueIn(ps, vs, x, i) = ps[j].defn
  <2>1. j \in i + 1 .. n /\ ps[j].name = x /\ \A l \in i + 1 .. j - 1 : ps[l].name # x
    BY <1>1, <1>7 DEF NextOf
  <2>2. j \in later
    BY <1>3, <2>1
  <2>3. ASSUME NEW l \in later PROVE j <= l
    <3>1. l \in i + 1 .. n /\ ps[l].name = x
      BY <1>3, <2>3
    <3>2. l \notin i + 1 .. j - 1
      BY <2>1, <3>1
    <3>3. QED
      BY <1>2, <2>1, <3>1, <3>2
  <2>4. \A k \in later : (\A l \in later : k <= l) => k = j
    <3>1. ASSUME NEW k \in later, \A l \in later : k <= l PROVE k = j
      <4>1. k <= j /\ j <= k
        BY <2>2, <2>3, <3>1
      <4>2. QED
        BY <1>4, <2>2, <4>1
    <3>2. QED
      BY <3>1
  <2>5. (CHOOSE k \in later : \A l \in later : k <= l) = j
    BY <2>2, <2>3, <2>4
  <2>6. QED
    BY <1>5, <2>2, <2>5
<1>8. LastOf(ps, x, i) \/ \E j : NextOf(ps, x, i, j)
  <2>1. CASE later = {}
    BY <1>1, <1>3, <2>1 DEF LastOf
  <2>2. CASE later # {}
    <3>1. PICK j \in later : \A l \in later : j <= l
      BY <1>4, <2>2, SmallestOf
    <3>2. j \in i + 1 .. n /\ ps[j].name = x
      BY <1>3, <3>1
    <3>3. ASSUME NEW l \in i + 1 .. j - 1 PROVE ps[l].name # x
      <4>1. l \in i + 1 .. n /\ ~(j <= l)
        BY <1>2, <3>2, <3>3
      <4>2. QED
        BY <1>3, <3>1, <4>1
    <3>4. QED
      BY <1>1, <3>2, <3>3 DEF NextOf
  <2>3. QED
    BY <2>1, <2>2
<1>9. QED
  BY <1>5, <1>6, <1>7, <1>8

\* new is ps with a push more, which saved what its variable is in vs.
Saves(ps, vs, new) ==
  /\ IsSeq(ps) /\ IsSeq(new) /\ Len(new) = Len(ps) + 1
  /\ \A j \in 1 .. Len(ps) : new[j] = ps[j]
  /\ new[Len(new)].defn = vs[new[Len(new)].name]

\* vs2 is vs, for any variable y but the last one pushed.
Agree(new, vs, vs2, y) == y # new[Len(new)].name => vs2[y] = vs[y]

\* A push keeps what the bindings below it hold; read from right to left, a pop
\* that puts back what was saved does.
LEMMA PushValue ==
  ASSUME NEW ps, NEW vs, NEW new, Saves(ps, vs, new), NEW vs2, NEW y, Agree(new, vs, vs2, y),
         NEW i, i \in 0 .. Len(ps)
  PROVE  ValueIn(new, vs2, y, i) = ValueIn(ps, vs, y, i)
<1>1. PICK n : n = Len(ps)
  OBVIOUS
<1>2. PICK p : p = new[Len(new)]
  OBVIOUS
<1>3. /\ IsSeq(ps) /\ IsSeq(new) /\ n \in Nat /\ Len(new) = n + 1 /\ p.defn = vs[p.name]
      /\ new[n + 1] = p /\ \A j \in 1 .. n : new[j] = ps[j]
  BY <1>1, <1>2, LenProperties DEF Saves, IsSeq
<1>4. i \in 0 .. n /\ i \in 0 .. Len(new) /\ (y # p.name => vs2[y] = vs[y])
  BY <1>1, <1>2, <1>3 DEF Agree
<1>5. CASE LastOf(ps, y, i)
  <2>1. \A j \in i + 1 .. n : new[j].name # y
    BY <1>1, <1>3, <1>4, <1>5 DEF LastOf
  <2>2. ValueIn(ps, vs, y, i) = vs[y]
    BY <1>3, <1>5, ValueIs
  <2>3. CASE y = p.name
    <3>1. n + 1 \in i + 1 .. Len(new) /\ new[n + 1].name = y
      BY <1>3, <1>4, <2>3
    <3>2. \A l \in i + 1 .. (n + 1) - 1 : new[l].name # y
      BY <1>3, <2>1
    <3>3. NextOf(new, y, i, n + 1)
      BY <3>1, <3>2 DEF NextOf
    <3>4. ValueIn(new, vs2, y, i) = p.defn
      BY <1>3, <1>4, <3>3, ValueIs
    <3>5. QED
      BY <1>3, <2>2, <2>3, <3>4
  <2>4. CASE y # p.name
    <3>1. \A j \in i + 1 .. n + 1 : new[j].name # y
      <4>1. \A j \in i + 1 .. n + 1 : j \in i + 1 .. n \/ j = n + 1
        BY <1>3, <1>4
      <4>2. QED
        BY <1>3, <2>1, <2>4, <4>1
    <3>2. LastOf(new, y, i)
      BY <1>3, <3>1 DEF LastOf
    <3>3. ValueIn(new, vs2, y, i) = vs2[y]
      BY <1>3, <1>4, <3>2, ValueIs
    <3>4. QED
      BY <2>2, <1>4, <2>4, <3>3
  <2>5. QED
    BY <2>3, <2>4
<1>6. ASSUME NEW j, NextOf(ps, y, i, j)
      PROVE  ValueIn(new, vs2, y, i) = ValueIn(ps, vs, y, i)
  <2>1. j \in i + 1 .. n /\ ps[j].name = y /\ \A l \in i + 1 .. j - 1 : ps[l].name # y
    BY <1>1, <1>6 DEF NextOf
  <2>2. j \in 1 .. n /\ \A l \in i + 1 .. j - 1 : l \in 1 .. n
    BY <1>3, <1>4, <2>1
  <2>3. j \in i + 1 .. Len(new) /\ new[j].name = y /\ \A l \in i + 1 .. j - 1 : new[l].name # y
    BY <1>3, <1>4, <2>1, <2>2
  <2>4. NextOf(new, y, i, j)
    BY <2>3 DEF NextOf
  <2>5. ValueIn(new, vs2, y, i) = new[j].defn
    BY <1>3, <1>4, <2>4, ValueIs
  <2>6. ValueIn(ps, vs, y, i) = ps[j].defn
    BY <1>3, <1>6, ValueIs
  <2>7. QED
    BY <1>3, <2>2, <2>5, <2>6
<1>7. QED
  BY <1>3, <1>5, <1>6, ValueIs

\* An assignment changes what the innermost binding holds, and no other.
LEMMA AssignValue ==
  ASSUME NEW ps, IsSeq(ps), NEW vs, NEW vs2, NEW y, NEW i \in 0 .. Len(ps)
  PROVE  /\ LastOf(ps, y, i) => ValueIn(ps, vs2, y, i) = vs2[y]
         /\ ~LastOf(ps, y, i) => ValueIn(ps, vs2, y, i) = ValueIn(ps, vs, y, i)
         /\ vs2[y] = vs[y] => ValueIn(ps, vs2, y, i) = ValueIn(ps, vs, y, i)
<1>1. CASE LastOf(ps, y, i)
  BY <1>1, ValueIs
<1>2. ASSUME NEW j, NextOf(ps, y, i, j)
      PROVE  /\ ~LastOf(ps, y, i)
             /\ ValueIn(ps, vs2, y, i) = ValueIn(ps, vs, y, i)
  <2>1. ~LastOf(ps, y, i)
    BY <1>2 DEF LastOf, NextOf
  <2>2. ValueIn(ps, vs2, y, i) = ps[j].defn /\ ValueIn(ps, vs, y, i) = ps[j].defn
    BY <1>2, ValueIs
  <2>3. QED
    BY <2>1, <2>2
<1>3. QED
  BY <1>1, <1>2, ValueIs

-----------------------------------------------------------------------------
(* The abstract state of DynScope, as a function of pushlist and vars.     *)

BaseOf(ps, vs) == [x \in Name |-> ValueIn(ps, vs, x, 0)]

ScopesOf(ps, vs) ==
  [i \in DOMAIN ps |-> [name |-> ps[i].name, value |-> ValueIn(ps, vs, ps[i].name, i)]]

\* As many scopes as pushes.
LEMMA ScopesSeq ==
  ASSUME NEW ps, IsSeq(ps), NEW vs
  PROVE  /\ IsSeq(ScopesOf(ps, vs)) /\ Len(ps) \in Nat /\ DOMAIN ps = 1 .. Len(ps)
         /\ Len(ScopesOf(ps, vs)) = Len(ps) /\ DOMAIN ScopesOf(ps, vs) = 1 .. Len(ps)
         /\ \A i \in 1 .. Len(ps) :
              ScopesOf(ps, vs)[i] =
                [name |-> ps[i].name, value |-> ValueIn(ps, vs, ps[i].name, i)]
<1>1. PICK n : n = Len(ps)
  OBVIOUS
<1>2. n \in Nat /\ DOMAIN ps = 1 .. n
  BY <1>1, LenProperties DEF IsSeq
<1>3. PICK s : s = ScopesOf(ps, vs)
  OBVIOUS
<1>4. /\ s = [i \in 1 .. n |-> s[i]]
      /\ \A i \in 1 .. n :
           s[i] = [name |-> ps[i].name, value |-> ValueIn(ps, vs, ps[i].name, i)]
  BY <1>2, <1>3 DEF ScopesOf
<1>5. PICK T : T = {s[i] : i \in 1 .. n}
  OBVIOUS
<1>6. s \in [1 .. n -> T]
  BY <1>4, <1>5
<1>7. s \in Seq(T)
  BY <1>2, <1>6, SeqDef
<1>8. Len(s) = n /\ DOMAIN s = 1 .. n /\ IsSeq(s)
  BY <1>2, <1>6, <1>7, LenProperties DEF IsSeq
<1>9. QED
  BY <1>1, <1>2, <1>3, <1>4, <1>8

\* A scope more, or, from right to left, one less.
LEMMA Nests ==
  ASSUME NEW ps, NEW vs, NEW new, Saves(ps, vs, new), NEW vs2,
         NEW x, x = new[Len(new)].name,
         \A y \in Name \ {x} : vs2[y] = vs[y],
         \A k \in DOMAIN ps : ps[k].name \in Name
  PROVE  /\ BaseOf(new, vs2) = BaseOf(ps, vs)
         /\ ScopesOf(new, vs2) = Append(ScopesOf(ps, vs), [name |-> x, value |-> vs2[x]])
<1>1. PICK n : n = Len(ps)
  OBVIOUS
<1>2. PICK p : p = new[Len(new)]
  OBVIOUS
<1>3. /\ IsSeq(ps) /\ IsSeq(new) /\ n \in Nat /\ Len(new) = n + 1 /\ p.name = x
      /\ new[n + 1] = p /\ \A j \in 1 .. n : new[j] = ps[j] /\ ps[j].name \in Name
  BY <1>1, <1>2, LenProperties DEF Saves, IsSeq
<1>4. ASSUME NEW y \in Name, NEW i, i \in 0 .. n
      PROVE  ValueIn(new, vs2, y, i) = ValueIn(ps, vs, y, i)
  <2>1. Saves(ps, vs, new) /\ Agree(new, vs, vs2, y)
    BY DEF Agree
  <2>2. i \in 0 .. Len(ps)
    BY <1>1, <1>4
  <2>3. QED
    BY ONLY <2>1, <2>2, PushValue
<1>5. BaseOf(new, vs2) = BaseOf(ps, vs)
  <2>1. 0 \in 0 .. n
    BY <1>3
  <2>2. QED
    BY <1>4, <2>1 DEF BaseOf
<1>6. ValueIn(new, vs2, x, n + 1) = vs2[x]
  <2>1. PICK k : k = n + 1
    OBVIOUS
  <2>2. k \in 0 .. Len(new) /\ LastOf(new, x, k)
    BY <1>3, <2>1 DEF LastOf
  <2>3. ValueIn(new, vs2, x, k) = vs2[x]
    BY <1>3, <2>2, ValueIs
  <2>4. QED
    BY <2>1, <2>3
<1>7. PICK e : e = [name |-> x, value |-> vs2[x]]
  OBVIOUS
<1>8. PICK s : s = ScopesOf(ps, vs)
  OBVIOUS
<1>9. PICK t : t = ScopesOf(new, vs2)
  OBVIOUS
<1>10. /\ IsSeq(s) /\ Len(s) = n
       /\ \A i \in 1 .. n : s[i] = [name |-> ps[i].name, value |-> ValueIn(ps, vs, ps[i].name, i)]
  BY <1>1, <1>3, <1>8, ScopesSeq
<1>11. /\ IsSeq(t) /\ Len(t) = n + 1
       /\ \A i \in 1 .. n + 1 :
            t[i] = [name |-> new[i].name, value |-> ValueIn(new, vs2, new[i].name, i)]
  <2>1. PICK k : k = Len(new)
    OBVIOUS
  <2>2. /\ IsSeq(ScopesOf(new, vs2)) /\ Len(ScopesOf(new, vs2)) = Len(new)
        /\ \A i \in 1 .. Len(new) :
             ScopesOf(new, vs2)[i] =
               [name |-> new[i].name, value |-> ValueIn(new, vs2, new[i].name, i)]
    BY <1>3, ScopesSeq
  <2>3. /\ IsSeq(t) /\ Len(t) = k
        /\ \A i \in 1 .. k :
             t[i] = [name |-> new[i].name, value |-> ValueIn(new, vs2, new[i].name, i)]
    BY <1>9, <2>1, <2>2
  <2>4. k = n + 1
    BY <1>3, <2>1
  <2>5. QED
    BY <2>3, <2>4
<1>12. PICK u : u = Append(s, e)
  OBVIOUS
<1>13. IsSeq(u) /\ Len(u) = n + 1 /\ u[n + 1] = e /\ \A i \in 1 .. n : u[i] = s[i]
  BY <1>10, <1>12, SeqPush
<1>14. \A i \in 1 .. n + 1 : t[i] = u[i]
  <2>1. ASSUME NEW i \in 1 .. n PROVE t[i] = u[i]
    <3>1. i \in 1 .. n + 1 /\ i \in 0 .. n /\ ps[i].name \in Name /\ new[i].name = ps[i].name
      BY <1>3
    <3>2. ValueIn(new, vs2, ps[i].name, i) = ValueIn(ps, vs, ps[i].name, i)
      BY <1>4, <3>1
    <3>3. QED
      BY <1>10, <1>11, <1>13, <3>1, <3>2
  <2>2. n + 1 \in 1 .. n + 1
    BY <1>3
  <2>3. t[n + 1] = u[n + 1]
    BY <1>3, <1>6, <1>7, <1>11, <1>13, <2>2
  <2>4. \A i \in 1 .. n + 1 : i \in 1 .. n \/ i = n + 1
    BY <1>3
  <2>5. QED
    BY <2>1, <2>3, <2>4
<1>15. t = u
  BY <1>11, <1>13, <1>14, SeqSame
<1>16. QED
  BY <1>5, <1>7, <1>8, <1>9, <1>12, <1>15

\* varpush enters a scope.
LEMMA PushEnters ==
  ASSUME NEW ps, IsSeq(ps), NEW vs, NEW vs2,
         \A k \in DOMAIN ps : ps[k].name \in Name,
         NEW p, p.defn = vs[p.name], \A y \in Name \ {p.name} : vs2[y] = vs[y]
  PROVE  /\ BaseOf(Append(ps, p), vs2) = BaseOf(ps, vs)
         /\ ScopesOf(Append(ps, p), vs2) =
              Append(ScopesOf(ps, vs), [name |-> p.name, value |-> vs2[p.name]])
<1>1. PICK new : new = Append(ps, p)
  OBVIOUS
<1>2. PICK x : x = p.name
  OBVIOUS
<1>3. Saves(ps, vs, new) /\ x = new[Len(new)].name
  BY <1>1, <1>2, SeqPush DEF Saves
<1>4. \A y \in Name \ {x} : vs2[y] = vs[y]
  BY <1>2
<1>5. /\ BaseOf(new, vs2) = BaseOf(ps, vs)
      /\ ScopesOf(new, vs2) = Append(ScopesOf(ps, vs), [name |-> x, value |-> vs2[x]])
  <2>1. \A k \in DOMAIN ps : ps[k].name \in Name
    OBVIOUS
  <2>2. QED
    BY ONLY <1>3, <1>4, <2>1, Nests
<1>6. QED
  BY <1>1, <1>2, <1>5

\* varpop leaves it: the bindings below are as they were.
LEMMA PopLeaves ==
  ASSUME NEW ps, IsSeq(ps), ps # <<>>, NEW vs, NEW vs2,
         \A k \in DOMAIN ps : ps[k].name \in Name,
         vs2[Last(ps).name] = Last(ps).defn,
         \A y \in Name \ {Last(ps).name} : vs2[y] = vs[y]
  PROVE  /\ BaseOf(Front(ps), vs2) = BaseOf(ps, vs)
         /\ ScopesOf(Front(ps), vs2) = SubSeq(ScopesOf(ps, vs), 1, Len(ps) - 1)
<1>1. PICK front : front = Front(ps)
  OBVIOUS
<1>2. PICK x : x = Last(ps).name
  OBVIOUS
<1>3. /\ IsSeq(front) /\ Len(ps) \in Nat \ {0} /\ Len(front) = Len(ps) - 1
      /\ DOMAIN ps = 1 .. Len(ps) /\ DOMAIN front = 1 .. Len(ps) - 1
      /\ Last(ps) = ps[Len(ps)] /\ \A j \in 1 .. Len(ps) - 1 : front[j] = ps[j]
  BY <1>1, SeqPop
<1>4. Saves(front, vs2, ps) /\ x = ps[Len(ps)].name
  BY <1>2, <1>3 DEF Saves
<1>5. \A y \in Name \ {x} : vs[y] = vs2[y]
  BY <1>2
<1>6. \A k \in DOMAIN front : front[k].name \in Name
  BY <1>3
<1>7. PICK e : e = [name |-> x, value |-> vs[x]]
  OBVIOUS
<1>8. PICK s : s = ScopesOf(front, vs2)
  OBVIOUS
<1>9. /\ BaseOf(ps, vs) = BaseOf(front, vs2)
      /\ ScopesOf(ps, vs) = Append(s, e)
  BY <1>4, <1>5, <1>6, <1>7, <1>8, Nests
<1>10. PICK t : t = ScopesOf(ps, vs)
  OBVIOUS
<1>11. IsSeq(s) /\ Len(s) = Len(ps) - 1
  BY <1>3, <1>8, ScopesSeq
<1>12. IsSeq(t) /\ Len(t) = Len(ps) /\ t # <<>> /\ \A j \in 1 .. Len(s) : t[j] = s[j]
  <2>1. IsSeq(t) /\ Len(t) = Len(ps)
    BY <1>10, ScopesSeq
  <2>2. \A j \in 1 .. Len(s) : t[j] = s[j]
    BY <1>9, <1>10, <1>11, SeqPush
  <2>3. QED
    BY <1>3, <2>1, <2>2, EmptySeq
<1>13. PICK u : u = Front(t)
  OBVIOUS
<1>14. IsSeq(u) /\ Len(u) = Len(ps) - 1 /\ \A j \in 1 .. Len(ps) - 1 : u[j] = t[j]
  BY <1>12, <1>13, SeqPop
<1>15. u = s
  BY <1>11, <1>12, <1>14, SeqSame
<1>16. u = SubSeq(t, 1, Len(ps) - 1)
  BY <1>12, <1>13 DEF Front
<1>17. QED
  BY <1>1, <1>8, <1>9, <1>10, <1>15, <1>16

\* The pushes of x.
Own(ps, x) == {i \in 1 .. Len(ps) : ps[i].name = x}

\* vs2 is vs but for x.
Differs(vs, vs2, x) == \A y \in Name \ {x} : vs2[y] = vs[y]

Named(ps) == IsSeq(ps) /\ \A k \in DOMAIN ps : ps[k].name \in Name

\* From b and s to b2 and s2 the last of the scopes S of x gets the value v, or the
\* binding outside of all if there is none.
Sets(b, s, S, x, v, b2, s2) ==
  /\ S = {} => b2 = [b EXCEPT ![x] = v] /\ s2 = s
  /\ \A m \in S : (\A j \in S : j <= m) => b2 = b /\ s2 = [s EXCEPT ![m].value = v]

\* An assignment sets the innermost binding of x.
LEMMA AssignSets ==
  ASSUME NEW ps, Named(ps), NEW vs, NEW vs2, NEW x \in Name, Differs(vs, vs2, x)
  PROVE  Sets(BaseOf(ps, vs), ScopesOf(ps, vs), Own(ps, x), x, vs2[x],
              BaseOf(ps, vs2), ScopesOf(ps, vs2))
<1>. DEFINE v == vs2[x]
<1>15. IsSeq(ps) /\ vs2[x] = v /\ (\A k \in DOMAIN ps : ps[k].name \in Name)
       /\ \A y \in Name \ {x} : vs2[y] = vs[y]
  BY DEF Named, Differs
<1>. HIDE DEF v
<1>1. PICK n : n = Len(ps)
  OBVIOUS
<1>2. n \in Nat /\ DOMAIN ps = 1 .. n
  BY <1>1, <1>15, LenProperties DEF IsSeq
<1>. DEFINE S == Own(ps, x)
<1>13. S = {i \in 1 .. n : ps[i].name = x}
  BY <1>1 DEF Own
<1>. HIDE DEF S
<1>3. \A j \in 1 .. n : ps[j].name \in Name
  BY <1>2, <1>15
<1>4. ASSUME NEW y \in Name, NEW i \in 0 .. n
      PROVE  /\ y # x \/ ~LastOf(ps, y, i) => ValueIn(ps, vs2, y, i) = ValueIn(ps, vs, y, i)
             /\ LastOf(ps, x, i) => ValueIn(ps, vs2, x, i) = v
  <2>1. i \in 0 .. Len(ps)
    BY <1>1
  <2>2. /\ ~LastOf(ps, y, i) => ValueIn(ps, vs2, y, i) = ValueIn(ps, vs, y, i)
        /\ vs2[y] = vs[y] => ValueIn(ps, vs2, y, i) = ValueIn(ps, vs, y, i)
    BY <1>15, <2>1, AssignValue
  <2>3. LastOf(ps, x, i) => ValueIn(ps, vs2, x, i) = vs2[x]
    BY <1>15, <2>1, AssignValue
  <2>4. QED
    BY <1>15, <2>2, <2>3
<1>5. PICK s : s = ScopesOf(ps, vs)
  OBVIOUS
<1>6. PICK t : t = ScopesOf(ps, vs2)
  OBVIOUS
<1>7. /\ IsSeq(s) /\ Len(s) = n /\ DOMAIN s = 1 .. n
      /\ \A i \in 1 .. n : s[i] = [name |-> ps[i].name, value |-> ValueIn(ps, vs, ps[i].name, i)]
  BY <1>1, <1>5, <1>15, ScopesSeq
<1>8. /\ IsSeq(t) /\ Len(t) = n /\ DOMAIN t = 1 .. n
      /\ \A i \in 1 .. n : t[i] = [name |-> ps[i].name, value |-> ValueIn(ps, vs2, ps[i].name, i)]
  BY <1>1, <1>6, <1>15, ScopesSeq
<1>9. \A i \in 1 .. n : ps[i].name # x => t[i] = s[i]
  <2>1. ASSUME NEW i \in 1 .. n, ps[i].name # x PROVE t[i] = s[i]
    <3>1. i \in 0 .. n /\ ps[i].name \in Name
      BY <1>2, <1>3
    <3>2. ValueIn(ps, vs2, ps[i].name, i) = ValueIn(ps, vs, ps[i].name, i)
      BY <1>4, <2>1, <3>1
    <3>3. QED
      BY <1>7, <1>8, <3>2
  <2>2. QED
    BY <2>1
<1>10. ASSUME S = {}
       PROVE  BaseOf(ps, vs2) = [BaseOf(ps, vs) EXCEPT ![x] = v] /\ t = s
  <2>1. \A i \in 1 .. n : ps[i].name # x
    BY <1>10, <1>13
  <2>2. t = s
    BY <1>7, <1>8, <1>9, <2>1, SeqSame
  <2>3. LastOf(ps, x, 0) /\ 0 \in 0 .. n
    BY <1>1, <1>2, <2>1 DEF LastOf
  <2>4. /\ ValueIn(ps, vs2, x, 0) = v
        /\ \A y \in Name \ {x} : ValueIn(ps, vs2, y, 0) = ValueIn(ps, vs, y, 0)
    BY <1>4, <2>3
  <2>5. QED
    BY <2>2, <2>4 DEF BaseOf
<1>11. ASSUME NEW m \in S, \A j \in S : j <= m
       PROVE  BaseOf(ps, vs2) = BaseOf(ps, vs) /\ t = [s EXCEPT ![m].value = v]
  <2>1. m \in 1 .. n /\ ps[m].name = x
    BY <1>11, <1>13
  <2>2. ASSUME NEW i \in 0 .. m - 1
        PROVE  ~LastOf(ps, x, i) /\ i \in 0 .. n
    <3>1. m \in i + 1 .. n /\ i \in 0 .. n
      BY <1>2, <2>1, <2>2
    <3>2. QED
      BY <1>1, <2>1, <3>1 DEF LastOf
  <2>3. LastOf(ps, x, m) /\ m \in 0 .. n
    <3>1. ASSUME NEW j \in m + 1 .. n PROVE ps[j].name # x
      <4>1. j \in 1 .. n /\ ~(j <= m)
        BY <1>2, <2>1, <3>1
      <4>2. QED
        BY <1>11, <1>13, <4>1
    <3>2. QED
      BY <1>1, <1>2, <2>1, <3>1 DEF LastOf
  <2>4. BaseOf(ps, vs2) = BaseOf(ps, vs)
    <3>1. 0 \in 0 .. m - 1
      BY <2>1
    <3>2. ~LastOf(ps, x, 0) /\ 0 \in 0 .. n
      BY <2>2, <3>1
    <3>3. \A y \in Name : ValueIn(ps, vs2, y, 0) = ValueIn(ps, vs, y, 0)
      BY <1>4, <3>2
    <3>4. QED
      BY <3>3 DEF BaseOf
  <2>5. PICK u : u = [s EXCEPT ![m].value = v]
    OBVIOUS
  <2>6. /\ DOMAIN u = 1 .. n /\ \A i \in 1 .. n \ {m} : u[i] = s[i]
        /\ u[m] = [s[m] EXCEPT !.value = v]
        /\ u = [i \in 1 .. n |-> u[i]] /\ t = [i \in 1 .. n |-> t[i]]
    BY <1>2, <1>7, <1>8, <2>1, <2>5, <1>15, LenProperties DEF IsSeq
  <2>7. u[m] = t[m]
    <3>1. ValueIn(ps, vs2, x, m) = v
      BY <1>4, <2>3
    <3>2. t[m] = [name |-> x, value |-> v]
      BY <1>8, <2>1, <3>1
    <3>3. s[m] = [name |-> x, value |-> ValueIn(ps, vs, x, m)]
      BY <1>7, <2>1
    <3>4. QED
      BY <2>6, <3>2, <3>3
  <2>8. \A i \in 1 .. n \ {m} : t[i] = s[i]
    <3>1. ASSUME NEW i \in 1 .. n \ {m}, ps[i].name = x PROVE t[i] = s[i]
      <4>1. i <= m
        BY <1>11, <1>13, <3>1
      <4>2. i \in 0 .. m - 1
        BY <2>1, <3>1, <4>1
      <4>3. ValueIn(ps, vs2, x, i) = ValueIn(ps, vs, x, i)
        BY <1>4, <2>2, <4>2
      <4>4. QED
        BY <1>7, <1>8, <3>1, <4>3
    <3>2. QED
      BY <1>9, <3>1
  <2>9. \A i \in 1 .. n : t[i] = u[i]
    BY <2>6, <2>7, <2>8
  <2>10. t = u
    BY <2>6, <2>9
  <2>11. QED
    BY <2>4, <2>5, <2>10
<1>14. QED
  BY <1>5, <1>6, <1>10, <1>11 DEF Sets, S, v

-----------------------------------------------------------------------------
(* Steps of DynScope.                                                      *)

Values == Value \cup {NULL}

\* The substitution of Scope is BaseOf and ScopesOf.
LEMMA Mapped ==
  /\ [x \in Name |-> ScopeValue(x, 0)] = BaseOf(pushes, vars)
  /\ [i \in DOMAIN pushes |-> [name |-> pushes[i].name, value |-> ScopeValue(pushes[i].name, i)]]
       = ScopesOf(pushes, vars)
  /\ [x \in Name |-> ScopeValue(x, 0)]' = BaseOf(pushes, vars)'
  /\ [i \in DOMAIN pushes |-> [name |-> pushes[i].name, value |-> ScopeValue(pushes[i].name, i)]]'
       = ScopesOf(pushes, vars)'
<1>1. \A x, i : /\ ScopeValue(x, i) = ValueIn(pushes, vars, x, i)
                /\ ScopeValue(x, i)' = ValueIn(pushes, vars, x, i)'
  BY DEF ScopeValue, ValueIn
<1>2. QED
  BY <1>1 DEF BaseOf, ScopesOf

\* A scope is entered.
LEMMA Enters ==
  ASSUME NEW x \in Name, NEW v \in Values,
         BaseOf(pushes, vars)' = BaseOf(pushes, vars),
         ScopesOf(pushes, vars)' = Append(ScopesOf(pushes, vars), [name |-> x, value |-> v])
  PROVE  Scope!Next
<1>1. Scope!Enter(x, v)
  BY Mapped DEF Scope!Enter
<1>2. QED
  BY <1>1 DEF Scope!Next, Values

\* A scope is left.
LEMMA Lefts ==
  ASSUME ScopesOf(pushes, vars) # <<>>,
         BaseOf(pushes, vars)' = BaseOf(pushes, vars),
         ScopesOf(pushes, vars)' =
           SubSeq(ScopesOf(pushes, vars), 1, Len(ScopesOf(pushes, vars)) - 1)
  PROVE  Scope!Next
<1>1. Scope!Leave
  BY Mapped DEF Scope!Leave
<1>2. QED
  BY <1>1 DEF Scope!Next

\* The scopes of x among the first n.
ScopesFor(s, x, n) == {i \in DOMAIN s : s[i].name = x} \cap (1 .. n)

\* The innermost binding of x among the first n scopes is set.
LEMMA Below ==
  ASSUME NEW x, NEW v, NEW n \in Nat, NEW S, S = ScopesFor(ScopesOf(pushes, vars), x, n),
         NEW kept, kept = SubSeq(ScopesOf(pushes, vars), 1, n),
         Sets(BaseOf(pushes, vars), kept, S, x, v, BaseOf(pushes, vars)', ScopesOf(pushes, vars)')
  PROVE  Scope!SetBelow(x, n, v)
<1>1. S = Scope!Binds(x) \cap (1 .. n)
  BY Mapped DEF Scope!Binds, ScopesFor
<1>2. CASE S = {}
  BY <1>1, <1>2, Mapped DEF Sets, Scope!SetBelow
<1>3. CASE S # {}
  <2>1. PICK m \in S : \A j \in S : j <= m
    <3>1. S \subseteq 1 .. n
      BY DEF ScopesFor
    <3>2. QED
      BY <1>3, <3>1, LargestOf
  <2>2. PICK c : c = CHOOSE i \in S : \A j \in S : j <= i
    OBVIOUS
  <2>3. c \in S /\ \A j \in S : j <= c
    BY <2>1, <2>2
  <2>4. Scope!Innermost(S) = c
    BY <2>2 DEF Scope!Innermost
  <2>5. /\ BaseOf(pushes, vars)' = BaseOf(pushes, vars)
        /\ ScopesOf(pushes, vars)' = [kept EXCEPT ![c].value = v]
    BY <2>3 DEF Sets
  <2>6. QED
    BY <1>1, <1>3, <2>4, <2>5, Mapped DEF Scope!SetBelow
<1>4. QED
  BY <1>2, <1>3

Held(ps) ==
  /\ IsSeq(ps)
  /\ \A k \in DOMAIN ps : ps[k].name \in Name /\ ps[k].defn \in Values

\* The last push is of a variable and saved a value.
LEMMA LastHeld ==
  ASSUME Held(pushes), pushes # <<>>
  PROVE  Last(pushes).name \in Name /\ Last(pushes).defn \in Values
BY SeqPop DEF Held

\* varpush, of 0 or of a local variable.
LEMMA Pushing ==
  ASSUME Held(pushes), vars \in [Name -> Values], NEW x \in Name, NEW v \in Values, NEW at,
         pushes' = Append(pushes, [at |-> at, name |-> x, defn |-> vars[x]]),
         vars' = [vars EXCEPT ![x] = v]
  PROVE  Scope!Next
<1>1. PICK p : p = [at |-> at, name |-> x, defn |-> vars[x]]
  OBVIOUS
<1>2. PICK vs : vs = vars'
  OBVIOUS
<1>3. vs[x] = v /\ \A y \in Name \ {x} : vs[y] = vars[y]
  BY <1>2
<1>4. p.name = x /\ p.defn = vars[x]
  BY <1>1
<1>5. /\ p.defn = vars[p.name] /\ \A y \in Name \ {p.name} : vs[y] = vars[y]
      /\ IsSeq(pushes) /\ \A k \in DOMAIN pushes : pushes[k].name \in Name
  BY <1>3, <1>4 DEF Held
<1>6. /\ BaseOf(Append(pushes, p), vs) = BaseOf(pushes, vars)
      /\ ScopesOf(Append(pushes, p), vs) =
           Append(ScopesOf(pushes, vars), [name |-> p.name, value |-> vs[p.name]])
  BY ONLY <1>5, PushEnters
<1>7. pushes' = Append(pushes, p)
  BY <1>1
<1>8. /\ BaseOf(pushes, vars)' = BaseOf(pushes, vars)
      /\ ScopesOf(pushes, vars)' = Append(ScopesOf(pushes, vars), [name |-> x, value |-> v])
  <2>1. /\ BaseOf(pushes, vars)' = BaseOf(Append(pushes, p), vs)
        /\ ScopesOf(pushes, vars)' = ScopesOf(Append(pushes, p), vs)
    <3>1. /\ BaseOf(pushes, vars)' = BaseOf(pushes', vars')
          /\ ScopesOf(pushes, vars)' = ScopesOf(pushes', vars')
      BY DEF BaseOf, ScopesOf, ValueIn
    <3>2. QED
      BY <1>2, <1>7, <3>1, Zenon
  <2>2. QED
    BY <1>3, <1>4, <1>6, <2>1
<1>9. QED
  BY <1>8, Enters

\* The rest of vardef.
LEMMA Assigning ==
  ASSUME Held(pushes), vars \in [Name -> Values], NEW x \in Name, NEW v \in Values,
         pushes' = pushes, vars' = [vars EXCEPT ![x] = v]
  PROVE  Scope!Next
<1>1. PICK vs : vs = vars'
  OBVIOUS
<1>2. vs[x] = v /\ \A y \in Name \ {x} : vs[y] = vars[y]
  BY <1>1
<1>3. PICK S : S = Own(pushes, x)
  OBVIOUS
<1>4. IsSeq(pushes) /\ Named(pushes)
  BY DEF Held, Named
<1>5. Sets(BaseOf(pushes, vars), ScopesOf(pushes, vars), S, x, v,
           BaseOf(pushes, vs), ScopesOf(pushes, vs))
  <2>1. Differs(vars, vs, x)
    BY <1>2 DEF Differs
  <2>2. Sets(BaseOf(pushes, vars), ScopesOf(pushes, vars), Own(pushes, x), x, vs[x],
             BaseOf(pushes, vs), ScopesOf(pushes, vs))
    BY <1>4, <2>1, AssignSets
  <2>3. QED
    BY <1>2, <1>3, <2>2
<1>6. BaseOf(pushes, vars)' = BaseOf(pushes, vs) /\ ScopesOf(pushes, vars)' = ScopesOf(pushes, vs)
  BY <1>1 DEF BaseOf, ScopesOf, ValueIn
<1>7. PICK s : s = ScopesOf(pushes, vars)
  OBVIOUS
<1>8. PICK n : n = Len(pushes)
  OBVIOUS
<1>9. /\ IsSeq(s) /\ n \in Nat /\ Len(s) = n /\ DOMAIN s = 1 .. n
      /\ \A i \in 1 .. n : s[i].name = pushes[i].name
  <2>1. /\ IsSeq(ScopesOf(pushes, vars)) /\ Len(pushes) \in Nat
        /\ Len(ScopesOf(pushes, vars)) = Len(pushes)
        /\ DOMAIN ScopesOf(pushes, vars) = 1 .. Len(pushes)
        /\ \A i \in 1 .. Len(pushes) :
             ScopesOf(pushes, vars)[i] =
               [name |-> pushes[i].name, value |-> ValueIn(pushes, vars, pushes[i].name, i)]
    BY <1>4, ScopesSeq
  <2>2. QED
    BY <1>7, <1>8, <2>1
<1>10. SubSeq(s, 1, n) = s
  BY <1>9, SubSeqFull DEF IsSeq
<1>11. S = ScopesFor(s, x, n) /\ S \subseteq 1 .. n
  BY <1>3, <1>8, <1>9 DEF Own, ScopesFor
<1>12. Sets(BaseOf(pushes, vars), SubSeq(s, 1, n), S, x, v,
            BaseOf(pushes, vars)', ScopesOf(pushes, vars)')
  BY <1>5, <1>6, <1>7, <1>10
<1>13. Scope!SetBelow(x, n, v)
  BY <1>7, <1>9, <1>11, <1>12, Below
<1>14. Scope!Assign(x, v)
  BY <1>7, <1>9, <1>13, Mapped DEF Scope!Assign
<1>15. QED
  BY <1>14 DEF Scope!Next, Values

\* varpop, where no settor changes what comes back.
LEMMA Popping ==
  ASSUME Held(pushes), vars \in [Name -> Values], pushes # <<>>,
         pushes' = Front(pushes), vars' = [vars EXCEPT ![Last(pushes).name] = Last(pushes).defn]
  PROVE  Scope!Next
<1>1. PICK vs : vs = vars'
  OBVIOUS
<1>2. /\ IsSeq(pushes) /\ Len(pushes) \in Nat \ {0} /\ Last(pushes).name \in Name
      /\ \A k \in DOMAIN pushes : pushes[k].name \in Name
  BY SeqPop DEF Held
<1>3. /\ vs[Last(pushes).name] = Last(pushes).defn
      /\ \A y \in Name \ {Last(pushes).name} : vs[y] = vars[y]
  BY <1>1, <1>2
<1>4. pushes # <<>>
  OBVIOUS
<1>5. /\ BaseOf(Front(pushes), vs) = BaseOf(pushes, vars)
      /\ ScopesOf(Front(pushes), vs) = SubSeq(ScopesOf(pushes, vars), 1, Len(pushes) - 1)
  BY ONLY <1>2, <1>3, <1>4, PopLeaves
<1>6. /\ BaseOf(pushes, vars)' = BaseOf(Front(pushes), vs)
      /\ ScopesOf(pushes, vars)' = ScopesOf(Front(pushes), vs)
  BY <1>1 DEF BaseOf, ScopesOf, ValueIn
<1>7. Len(ScopesOf(pushes, vars)) = Len(pushes) /\ ScopesOf(pushes, vars) # <<>>
  BY <1>2, ScopesSeq, EmptySeq
<1>8. QED
  BY <1>5, <1>6, <1>7, Lefts

\* varpop, where the settor returned v.
LEMMA Giving ==
  ASSUME Held(pushes), vars \in [Name -> Values], pushes # <<>>,
         NEW x \in Settors, x = Last(pushes).name, NEW v \in Values,
         pushes' = Front(pushes), vars' = [vars EXCEPT ![x] = v]
  PROVE  Scope!Next
<1>1. PICK vs : vs = vars'
  OBVIOUS
<1>2. PICK mid : mid = [vars EXCEPT ![x] = Last(pushes).defn]
  OBVIOUS
<1>3. PICK front : front = Front(pushes)
  OBVIOUS
<1>4. PICK n : n = Len(front)
  OBVIOUS
<1>5. /\ IsSeq(pushes) /\ Len(pushes) \in Nat \ {0} /\ x \in Name
      /\ IsSeq(front) /\ n \in Nat /\ n = Len(pushes) - 1 /\ DOMAIN front = 1 .. n
      /\ \A k \in DOMAIN pushes : pushes[k].name \in Name
      /\ \A k \in 1 .. n : front[k] = pushes[k] /\ front[k].name \in Name
  <2>1. IsSeq(pushes) /\ \A k \in DOMAIN pushes : pushes[k].name \in Name
    BY DEF Held
  <2>2. /\ IsSeq(front) /\ Len(pushes) \in Nat \ {0} /\ DOMAIN pushes = 1 .. Len(pushes)
        /\ n = Len(pushes) - 1 /\ DOMAIN front = 1 .. Len(pushes) - 1
        /\ \A k \in 1 .. Len(pushes) - 1 : front[k] = pushes[k]
        /\ Last(pushes) = pushes[Len(pushes)]
    BY <1>3, <1>4, <2>1, SeqPop
  <2>3. QED
    BY <2>1, <2>2
<1>6. /\ vs[x] = v /\ mid[x] = Last(pushes).defn
      /\ \A y \in Name \ {x} : vs[y] = mid[y] /\ mid[y] = vars[y]
  BY <1>1, <1>2, <1>5
<1>7. /\ mid[Last(pushes).name] = Last(pushes).defn
      /\ \A y \in Name \ {Last(pushes).name} : mid[y] = vars[y]
      /\ IsSeq(pushes) /\ pushes # <<>> /\ \A k \in DOMAIN pushes : pushes[k].name \in Name
  BY <1>5, <1>6
<1>8. /\ BaseOf(Front(pushes), mid) = BaseOf(pushes, vars)
      /\ ScopesOf(Front(pushes), mid) = SubSeq(ScopesOf(pushes, vars), 1, Len(pushes) - 1)
  BY ONLY <1>7, PopLeaves
<1>9. PICK kept : kept = SubSeq(ScopesOf(pushes, vars), 1, n)
  OBVIOUS
<1>10. BaseOf(front, mid) = BaseOf(pushes, vars) /\ ScopesOf(front, mid) = kept
  BY <1>3, <1>5, <1>8, <1>9
<1>11. PICK S : S = Own(front, x)
  OBVIOUS
<1>12. Sets(BaseOf(front, mid), ScopesOf(front, mid), S, x, v,
            BaseOf(front, vs), ScopesOf(front, vs))
  <2>1. Named(front) /\ Differs(mid, vs, x)
    BY <1>5, <1>6 DEF Named, Differs
  <2>2. Sets(BaseOf(front, mid), ScopesOf(front, mid), Own(front, x), x, vs[x],
             BaseOf(front, vs), ScopesOf(front, vs))
    BY <1>5, <2>1, AssignSets
  <2>3. QED
    BY <1>6, <1>11, <2>2
<1>13. BaseOf(pushes, vars)' = BaseOf(front, vs) /\ ScopesOf(pushes, vars)' = ScopesOf(front, vs)
  BY <1>1, <1>3 DEF BaseOf, ScopesOf, ValueIn
<1>14. PICK s : s = ScopesOf(pushes, vars)
  OBVIOUS
<1>15. /\ IsSeq(s) /\ Len(s) = n + 1 /\ DOMAIN s = 1 .. n + 1 /\ s # <<>>
       /\ \A i \in 1 .. n + 1 : s[i].name = pushes[i].name
  <2>1. /\ IsSeq(ScopesOf(pushes, vars)) /\ Len(ScopesOf(pushes, vars)) = Len(pushes)
        /\ DOMAIN ScopesOf(pushes, vars) = 1 .. Len(pushes)
        /\ \A i \in 1 .. Len(pushes) :
             ScopesOf(pushes, vars)[i] =
               [name |-> pushes[i].name, value |-> ValueIn(pushes, vars, pushes[i].name, i)]
    BY <1>5, ScopesSeq
  <2>2. Len(pushes) = n + 1
    BY <1>5
  <2>3. /\ IsSeq(s) /\ Len(s) = n + 1 /\ DOMAIN s = 1 .. n + 1
        /\ \A i \in 1 .. n + 1 : s[i].name = pushes[i].name
    BY <1>14, <2>1, <2>2
  <2>4. QED
    BY <1>5, <2>3, EmptySeq
<1>16. S = ScopesFor(s, x, n) /\ S \subseteq 1 .. n
  BY <1>4, <1>5, <1>11, <1>15 DEF Own, ScopesFor
<1>17. Sets(BaseOf(pushes, vars), kept, S, x, v, BaseOf(pushes, vars)', ScopesOf(pushes, vars)')
  BY <1>10, <1>12, <1>13
<1>18. Scope!SetBelow(x, n, v)
  BY <1>5, <1>9, <1>14, <1>16, <1>17, Below
<1>19. Scope!Leave
  <2>1. Len(s) - 1 = n /\ s[Len(s)].name = x
    BY <1>5, <1>15, SeqPop
  <2>. DEFINE sc == [i \in DOMAIN pushes |->
                       [name |-> pushes[i].name, value |-> ScopeValue(pushes[i].name, i)]]
  <2>2. sc = s
    BY <1>14, Mapped
  <2>. HIDE DEF sc
  <2>3. sc # <<>> /\ Len(sc) - 1 = n /\ sc[Len(sc)].name = x
    BY <1>15, <2>1, <2>2
  <2>4. v \in Value \cup {NULL}
    BY DEF Values
  <2>5. QED
    BY ONLY <1>18, <2>3, <2>4, x \in Settors DEF Scope!Leave, sc
<1>20. QED
  BY <1>19 DEF Scope!Next

-----------------------------------------------------------------------------
(* The frames and the values that they work on.                            *)

\* The frames in which a settor runs.
Waiting == {"push", "assign", "pop"}

\* A frame works on a value of a variable, and waits only for a settor there is.
Fits(f, ss) == f.name \in Name /\ f.val \in Values /\ (f.kind \in Waiting => f.name \in ss)

Settled(stk, ss) == \A i \in DOMAIN stk : Fits(stk[i], ss) /\ stk[i].kind # "restore"

\* Only the innermost frame puts back a value.
Fitted(stk, ss) == Settled(Front(stk), ss) /\ Fits(Last(stk), ss)

\* Frames that are in both are local in both.
Same(stk, stk2) ==
  \A i \in DOMAIN stk : i \in DOMAIN stk2 /\ stk[i].kind = "local" => stk2[i].kind = "local"

\* A push that is no local variable's is one of 0.
Zeros(stk, ps) == \A k \in DOMAIN ps : stk[ps[k].at].kind # "local" => ps[k].name = Zero

\* Where there is no settor, what was saved comes back.
Back == Top.kind = "restore" /\ Top.name \notin Settors => Top.val = Last(pushes).defn

Bound ==
  /\ setup \in Setups /\ vars \in [Name -> Values] /\ Held(pushes)
  /\ Fitted(stack, Settors) /\ Zeros(stack, pushes) /\ Back

\* What a step does to pushlist and the variables.
Move ==
  \/ UNCHANGED <<pushes, vars>>
  \/ \E x \in Name, v \in Values, at \in Nat :
       /\ pushes' = Append(pushes, [at |-> at, name |-> x, defn |-> vars[x]])
       /\ vars' = [vars EXCEPT ![x] = v]
       /\ stack'[at].kind # "local" => x = Zero
  \/ /\ pushes # <<>> /\ pushes' = Front(pushes)
     /\ \/ vars' = [vars EXCEPT ![Last(pushes).name] = Last(pushes).defn]
        \/ /\ Last(pushes).name \in Settors
           /\ \E v \in Values : vars' = [vars EXCEPT ![Last(pushes).name] = v]
  \/ /\ pushes' = pushes
     /\ \E x \in Name, v \in Values : vars' = [vars EXCEPT ![x] = v]

\* Each move is a step of DynScope, or none.
LEMMA MoveSteps ==
  ASSUME Held(pushes), vars \in [Name -> Values], Move
  PROVE  /\ Scope!Next \/ UNCHANGED <<pushes, vars>>
         /\ Held(pushes)' /\ vars' \in [Name -> Values]
<1>1. CASE UNCHANGED <<pushes, vars>>
  BY <1>1 DEF Held
<1>2. ASSUME NEW x \in Name, NEW v \in Values, NEW at,
             pushes' = Append(pushes, [at |-> at, name |-> x, defn |-> vars[x]]),
             vars' = [vars EXCEPT ![x] = v]
      PROVE  Scope!Next /\ Held(pushes)' /\ vars' \in [Name -> Values]
  <2>1. Scope!Next
    BY <1>2, Pushing
  <2>2. PICK p : p = [at |-> at, name |-> x, defn |-> vars[x]]
    OBVIOUS
  <2>3. p.name \in Name /\ p.defn \in Values
    BY <2>2
  <2>4. PICK new : new = Append(pushes, p)
    OBVIOUS
  <2>5. Held(new)
    BY <2>3, <2>4, SeqPush DEF Held
  <2>6. pushes' = new
    BY <1>2, <2>2, <2>4
  <2>7. Held(pushes)'
    BY <2>5, <2>6 DEF Held
  <2>8. vars' \in [Name -> Values]
    BY <1>2
  <2>9. QED
    BY <2>1, <2>7, <2>8
<1>3. ASSUME pushes # <<>>, pushes' = Front(pushes)
      PROVE  Held(pushes)' /\ Last(pushes).name \in Name /\ Last(pushes).defn \in Values
  <2>1. PICK new : new = Front(pushes)
    OBVIOUS
  <2>2. /\ IsSeq(new) /\ DOMAIN new = 1 .. Len(pushes) - 1 /\ Len(pushes) \in Nat \ {0}
        /\ DOMAIN pushes = 1 .. Len(pushes)
        /\ \A i \in 1 .. Len(pushes) - 1 : new[i] = pushes[i]
    BY <1>3, <2>1, SeqPop DEF Held
  <2>3. Held(new)
    BY <2>2 DEF Held
  <2>4. Last(pushes).name \in Name /\ Last(pushes).defn \in Values
    BY <1>3, LastHeld
  <2>5. QED
    BY <1>3, <2>1, <2>3, <2>4 DEF Held
<1>4. CASE /\ pushes # <<>> /\ pushes' = Front(pushes)
           /\ vars' = [vars EXCEPT ![Last(pushes).name] = Last(pushes).defn]
  <2>1. Scope!Next
    BY <1>4, Popping
  <2>2. QED
    BY <1>3, <1>4, <2>1
<1>5. ASSUME pushes # <<>>, pushes' = Front(pushes), Last(pushes).name \in Settors,
             NEW v \in Values, vars' = [vars EXCEPT ![Last(pushes).name] = v]
      PROVE  Scope!Next /\ Held(pushes)' /\ vars' \in [Name -> Values]
  <2>1. PICK x \in Settors : x = Last(pushes).name
    BY <1>5
  <2>2. Scope!Next
    BY <1>5, <2>1, Giving
  <2>3. QED
    BY <1>3, <1>5, <2>2
<1>6. ASSUME pushes' = pushes, NEW x \in Name, NEW v \in Values, vars' = [vars EXCEPT ![x] = v]
      PROVE  Scope!Next /\ Held(pushes)' /\ vars' \in [Name -> Values]
  <2>1. Scope!Next
    BY <1>6, Assigning
  <2>2. QED
    BY <1>6, <2>1 DEF Held
<1>7. QED
  BY <1>1, <1>2, <1>4, <1>5, <1>6 DEF Move

\* What is to be shown of each action.
Step ==
  /\ setup' = setup /\ Move /\ Fitted(stack', Settors) /\ Same(stack, stack')
  /\ Back'

\* The pushes that stay are still of local variables, or of 0.
LEMMA ZerosStay ==
  ASSUME NEW stk, NEW ps, NEW stk2, NEW ps2, Pushes(stk, ps), Pushes(stk2, ps2),
         Zeros(stk, ps), Same(stk, stk2),
         \A k \in DOMAIN ps2 :
           \/ k \in DOMAIN ps /\ ps2[k] = ps[k]
           \/ stk2[ps2[k].at].kind # "local" => ps2[k].name = Zero
  PROVE  Zeros(stk2, ps2)
BY DEF Pushes, Zeros, Same

\* A Step is one of DynScope, or none.
LEMMA StepKeeps ==
  ASSUME IInv, IInv', Bound, Step
  PROVE  Bound' /\ (Scope!Next \/ UNCHANGED <<pushes, vars>>)
<1>1. Pushes(stack, pushes) /\ Pushes(stack, pushes)'
  BY DEF IInv, Good
<1>2. Held(pushes) /\ vars \in [Name -> Values] /\ Move /\ setup' = setup
  BY DEF Bound, Step
<1>3. /\ Scope!Next \/ UNCHANGED <<pushes, vars>>
      /\ Held(pushes)' /\ vars' \in [Name -> Values]
  BY <1>2, MoveSteps
<1>4. PICK ps : ps = pushes'
  OBVIOUS
<1>5. PICK stk : stk = stack'
  OBVIOUS
<1>6. \A k \in DOMAIN ps :
           \/ k \in DOMAIN pushes /\ ps[k] = pushes[k]
           \/ stk[ps[k].at].kind # "local" => ps[k].name = Zero
  <2>1. CASE ps = pushes
    BY <2>1
  <2>2. CASE pushes # <<>> /\ ps = Front(pushes)
    <3>1. /\ DOMAIN pushes = 1 .. Len(pushes) /\ Len(pushes) \in Nat \ {0}
          /\ DOMAIN ps = 1 .. Len(pushes) - 1
          /\ \A k \in 1 .. Len(pushes) - 1 : ps[k] = pushes[k]
      BY <1>2, <2>2, SeqPop DEF Held
    <3>2. QED
      BY <3>1
  <2>3. ASSUME NEW x, NEW at, NEW p, p = [at |-> at, name |-> x, defn |-> vars[x]],
               ps = Append(pushes, p), stk[at].kind # "local" => x = Zero
        PROVE  \A k \in DOMAIN ps :
                 \/ k \in DOMAIN pushes /\ ps[k] = pushes[k]
                 \/ stk[ps[k].at].kind # "local" => ps[k].name = Zero
    <3>1. p.at = at /\ p.name = x
      BY <2>3
    <3>2. /\ DOMAIN pushes = 1 .. Len(pushes) /\ DOMAIN ps = 1 .. Len(pushes) + 1
          /\ Len(pushes) \in Nat
          /\ ps[Len(pushes) + 1] = p /\ \A k \in 1 .. Len(pushes) : ps[k] = pushes[k]
      BY <1>2, <2>3, SeqPush DEF Held
    <3>3. \A k \in DOMAIN ps : k \in 1 .. Len(pushes) \/ k = Len(pushes) + 1
      BY <3>2
    <3>4. QED
      BY <2>3, <3>1, <3>2, <3>3
  <2>4. ASSUME NEW x, NEW at, ps = Append(pushes, [at |-> at, name |-> x, defn |-> vars[x]]),
               stk[at].kind # "local" => x = Zero
        PROVE  \A k \in DOMAIN ps :
                 \/ k \in DOMAIN pushes /\ ps[k] = pushes[k]
                 \/ stk[ps[k].at].kind # "local" => ps[k].name = Zero
    <3>1. PICK p : p = [at |-> at, name |-> x, defn |-> vars[x]]
      OBVIOUS
    <3>2. ps = Append(pushes, p)
      BY <2>4, <3>1
    <3>3. QED
      BY <2>3, <2>4, <3>1, <3>2
  <2>. DEFINE Adds == \E x, at : /\ ps = Append(pushes, [at |-> at, name |-> x, defn |-> vars[x]])
                                 /\ stk[at].kind # "local" => x = Zero
  <2>5. ps = pushes \/ (pushes # <<>> /\ ps = Front(pushes)) \/ Adds
    BY <1>2, <1>4, <1>5 DEF Move
  <2>6. CASE Adds
    <3>1. PICK x, at : /\ ps = Append(pushes, [at |-> at, name |-> x, defn |-> vars[x]])
                       /\ stk[at].kind # "local" => x = Zero
      BY <2>6
    <3>2. QED
      BY <2>4, <3>1
  <2>. HIDE DEF Adds
  <2>7. QED
    BY ONLY <2>1, <2>2, <2>5, <2>6
<1>7. Pushes(stk, ps) /\ Zeros(stack, pushes) /\ Same(stack, stk)
  BY <1>1, <1>4, <1>5 DEF Bound, Step
<1>8. Zeros(stk, ps)
  BY <1>1, <1>6, <1>7, ZerosStay
<1>9. Fitted(stk, Settors) /\ setup \in Setups
  BY <1>5 DEF Bound, Step
<1>10. Bound'
  BY <1>2, <1>3, <1>4, <1>5, <1>8, <1>9 DEF Bound, Step, Settors
<1>11. QED
  BY <1>3, <1>10

-----------------------------------------------------------------------------
(* What each action does to the frames and the pushes.                     *)

\* The frames stk2 have what is local in stk, and none of them puts back a value.
Follows(stk, stk2, ss) ==
  /\ IsSeq(stk2) /\ Settled(stk2, ss)
  /\ \A i \in DOMAIN stk : stk[i].kind = "local" => i \in DOMAIN stk2 /\ stk2[i].kind = "local"

\* One frame more, which puts nothing back.
LEMMA FollowsPut ==
  ASSUME NEW stk, NEW stk2, NEW ss, Follows(stk, stk2, ss),
         NEW f, Fits(f, ss), f.kind # "restore"
  PROVE  Follows(stk, Append(stk2, f), ss)
<1>1. PICK new : new = Append(stk2, f)
  OBVIOUS
<1>2. /\ IsSeq(new) /\ Len(stk2) \in Nat /\ DOMAIN stk2 = 1 .. Len(stk2)
      /\ DOMAIN new = 1 .. Len(stk2) + 1
      /\ new[Len(stk2) + 1] = f /\ \A i \in 1 .. Len(stk2) : new[i] = stk2[i]
  BY <1>1, SeqPush DEF Follows
<1>3. \A i \in DOMAIN new : i \in DOMAIN stk2 \/ i = Len(stk2) + 1
  BY <1>2
<1>4. Settled(new, ss)
  BY <1>2, <1>3 DEF Follows, Settled
<1>5. \A i \in DOMAIN stk : stk[i].kind = "local" => i \in DOMAIN new /\ new[i].kind = "local"
  BY <1>2 DEF Follows
<1>6. QED
  BY <1>1, <1>2, <1>4, <1>5 DEF Follows

\* The top frame is left.
LEMMA FollowsBack ==
  ASSUME NEW stk, IsSeq(stk), stk # <<>>, NEW ss, Fitted(stk, ss)
  PROVE  /\ Settled(Front(stk), ss) /\ Same(stk, Front(stk))
         /\ Fits(stk[Len(stk)], ss)
         /\ stk[Len(stk)].kind # "restore" => Follows(stk, stk, ss)
         /\ stk[Len(stk)].kind # "local" => Follows(stk, Front(stk), ss)
<1>1. PICK n : n = Len(stk)
  OBVIOUS
<1>2. PICK front : front = Front(stk)
  OBVIOUS
<1>3. /\ n \in Nat \ {0} /\ DOMAIN stk = 1 .. n /\ IsSeq(front) /\ DOMAIN front = 1 .. n - 1
      /\ \A i \in 1 .. n - 1 : front[i] = stk[i]
      /\ Last(stk) = stk[n]
  BY <1>1, <1>2, SeqPop
<1>4. Settled(front, ss) /\ Fits(stk[n], ss)
  BY <1>2, <1>3 DEF Fitted
<1>5. \A i \in 1 .. n : i \in 1 .. n - 1 \/ i = n
  BY <1>3
<1>6. Same(stk, front)
  BY <1>3 DEF Same
<1>7. stk[n].kind # "restore" => Follows(stk, stk, ss)
  BY <1>3, <1>4, <1>5 DEF Follows, Settled
<1>8. stk[n].kind # "local" => Follows(stk, front, ss)
  BY <1>3, <1>4, <1>5 DEF Follows
<1>9. QED
  BY <1>1, <1>2, <1>4, <1>6, <1>7, <1>8

\* A frame that works on a value.
LEMMA FrameFits ==
  ASSUME NEW ss, NEW kind, NEW x \in Name, NEW v \in Values, NEW e, NEW to, NEW n,
         kind \in Waiting => x \in ss
  PROVE  Fits(Frame(kind, x, v, e, to, n), ss) /\ Frame(kind, x, v, e, to, n).kind = kind
BY DEF Fits, Frame

\* A frame that works on none.
LEMMA PlainFits ==
  ASSUME NEW ss, NEW kind, kind \notin Waiting, NEW e, NEW to, NEW n
  PROVE  /\ Fits(Plain(kind, n), ss) /\ Plain(kind, n).kind = kind
         /\ Fits(Frame(kind, Zero, NULL, e, to, n), ss)
         /\ Frame(kind, Zero, NULL, e, to, n).kind = kind
BY NameAssumption DEF Fits, Frame, Plain, Values

\* throw.
LEMMA RaiseFollows ==
  ASSUME NEW stk, NEW hs, NEW e, Follows(stack, stk, Settors), Raise(stk, hs, e)
  PROVE  Follows(stack, stack', Settors)
<1>1. CASE stack' = stk
  BY <1>1
<1>2. CASE stack' = Append(stk, Frame("throw", Zero, NULL, e, Last(hs), 0))
  <2>1. PICK f : f = Frame("throw", Zero, NULL, e, Last(hs), 0)
    OBVIOUS
  <2>2. Fits(f, Settors) /\ f.kind = "throw"
    BY <2>1, PlainFits DEF Waiting
  <2>3. Follows(stack, Append(stk, f), Settors)
    BY <2>2, FollowsPut
  <2>4. QED
    BY <1>2, <2>1, <2>3
<1>3. QED
  BY <1>1, <1>2 DEF Raise

\* eval.
LEMMA EnterFollows ==
  ASSUME NEW stk, NEW hs, NEW frame, NEW h, Follows(stack, stk, Settors),
         Fits(frame, Settors), frame.kind # "restore", EnterEval(stk, hs, frame, h)
  PROVE  Follows(stack, stack', Settors)
<1>1. CASE Raise(Append(stk, Plain("dead", 1)), hs, "error")
  <2>1. PICK f : f = Plain("dead", 1)
    OBVIOUS
  <2>2. Fits(f, Settors) /\ f.kind = "dead"
    BY <2>1, PlainFits DEF Waiting
  <2>3. PICK new : new = Append(stk, f)
    OBVIOUS
  <2>4. Follows(stack, new, Settors)
    BY <2>2, <2>3, FollowsPut
  <2>5. Raise(new, hs, "error")
    BY <1>1, <2>1, <2>3
  <2>6. QED
    BY <2>4, <2>5, RaiseFollows
<1>2. CASE stack' = Append(stk, frame)
  BY <1>2, FollowsPut
<1>3. QED
  BY <1>1, <1>2 DEF EnterEval

-----------------------------------------------------------------------------
(* The actions.                                                            *)

\* An action after which no frame puts back a value.
LEMMA Stays ==
  ASSUME IInv', setup' = setup, Move, Settled(stack', Settors), Same(stack, stack')
  PROVE  Step
<1>1. PICK stk : stk = stack'
  OBVIOUS
<1>2. IsSeq(stk) /\ stk # <<>>
  BY <1>1 DEF IInv, Good, Frames
<1>3. PICK n : n = Len(stk)
  OBVIOUS
<1>4. /\ n \in Nat \ {0} /\ DOMAIN stk = 1 .. n /\ DOMAIN Front(stk) = 1 .. n - 1
      /\ \A i \in 1 .. n - 1 : Front(stk)[i] = stk[i]
      /\ Last(stk) = stk[n]
  BY <1>2, <1>3, SeqPop
<1>5. Fitted(stk, Settors)
  BY <1>1, <1>4 DEF Settled, Fitted
<1>6. Top'.kind # "restore"
  BY <1>1, <1>3, <1>4 DEF Settled, Top, Height
<1>7. Back'
  BY <1>6 DEF Back
<1>8. QED
  BY <1>1, <1>5, <1>7 DEF Step

\* An action that ends with a new frame on top.
LEMMA Ends ==
  ASSUME setup' = setup, Move, NEW stk, Follows(stack, stk, Settors),
         NEW f, Fits(f, Settors), stack' = Append(stk, f),
         f.kind = "restore" /\ f.name \notin Settors => f.val = Last(pushes').defn
  PROVE  Step
<1>1. PICK new : new = Append(stk, f)
  OBVIOUS
<1>2. PICK n : n = Len(stk)
  OBVIOUS
<1>3. /\ IsSeq(new) /\ n \in Nat /\ DOMAIN stk = 1 .. n
      /\ Len(new) = n + 1 /\ DOMAIN new = 1 .. n + 1
      /\ new[n + 1] = f /\ \A i \in 1 .. n : new[i] = stk[i]
  BY <1>1, <1>2, SeqPush DEF Follows
<1>4. new # <<>>
  BY <1>3, EmptySeq
<1>5. /\ DOMAIN Front(new) = 1 .. n /\ \A i \in 1 .. n : Front(new)[i] = stk[i]
      /\ Last(new) = f
  <2>1. /\ DOMAIN Front(new) = 1 .. Len(new) - 1 /\ Last(new) = new[Len(new)]
        /\ \A i \in 1 .. Len(new) - 1 : Front(new)[i] = new[i]
    BY <1>3, <1>4, SeqPop
  <2>2. QED
    BY <1>3, <2>1
<1>6. Fitted(new, Settors)
  BY <1>3, <1>5 DEF Fitted, Settled, Follows
<1>7. Same(stack, new)
  BY <1>3 DEF Same, Follows
<1>8. Top' = f
  BY <1>1, <1>3 DEF Top, Height
<1>9. Settors' = Settors
  BY DEF Settors
<1>10. Back'
  BY <1>8, <1>9 DEF Back
<1>11. QED
  BY <1>1, <1>6, <1>7, <1>10 DEF Step

\* The frames now, and as they are without the top one.
LEMMA Here ==
  ASSUME IInv, Bound
  PROVE  /\ Good(stack, handlers, pushes, mode)
         /\ IsSeq(stack) /\ Height \in Nat \ {0} /\ DOMAIN stack = 1 .. Height
         /\ Height = Len(stack) /\ Top = stack[Height] /\ stack # <<>>
         /\ Fits(Top, Settors) /\ Return(1) = Front(stack)
         /\ Settled(Return(1), Settors) /\ Same(stack, Return(1))
         /\ Top.kind # "restore" => Follows(stack, stack, Settors)
         /\ Top.kind # "local" => Follows(stack, Return(1), Settors)
<1>1. Good(stack, handlers, pushes, mode) /\ Return(1) = Front(stack)
  BY Now
<1>2. Len(stack) \in Nat \ {0} /\ DOMAIN stack = 1 .. Len(stack)
  BY <1>1, Sizes
<1>3. IsSeq(stack) /\ stack # <<>>
  BY <1>1 DEF Good, Frames
<1>4. /\ Settled(Front(stack), Settors) /\ Same(stack, Front(stack))
      /\ Fits(stack[Len(stack)], Settors)
      /\ stack[Len(stack)].kind # "restore" => Follows(stack, stack, Settors)
      /\ stack[Len(stack)].kind # "local" => Follows(stack, Front(stack), Settors)
  BY <1>3, FollowsBack DEF Bound
<1>5. QED
  BY <1>1, <1>2, <1>3, <1>4 DEF Top, Height

\* What the frames of an action that puts nothing back look like is enough.
LEMMA FollowsStays ==
  ASSUME IInv', setup' = setup, Move, Follows(stack, stack', Settors)
  PROVE  Step
BY Stays DEF Follows, Same

\* A push of 0 in the frame at.
LEMMA PushesZero ==
  ASSUME NEW at \in Nat, pushes' = Pushed(at, Zero), vars' = [vars EXCEPT ![Zero] = FnName]
  PROVE  Move
<1>1. pushes' = Append(pushes, [at |-> at, name |-> Zero, defn |-> vars[Zero]])
  BY DEF Pushed
<1>2. Zero \in Name /\ FnName \in Values
  BY NameAssumption, ValueAssumption DEF Values
<1>3. QED
  BY <1>1, <1>2 DEF Move

\* eval of a lambda.
LEMMA CallMoves ==
  ASSUME IInv, IInv', Bound, NEW named \in BOOLEAN, Call(named)
  PROVE  Step
<1>1. Follows(stack, stack, Settors) /\ Height \in Nat
  BY Here DEF Call, Running
<1>2. PICK f : f = Frame("call", Zero, NULL, NULL, NoHandler, 1)
  OBVIOUS
<1>3. Fits(f, Settors) /\ f.kind = "call"
  BY <1>2, PlainFits DEF Waiting
<1>4. PICK h : h = Append(handlers, Handler(Height + 1, TopPush, evaldepth + 1))
  OBVIOUS
<1>5. EnterEval(stack, handlers, f, h)
  BY <1>2, <1>4 DEF Call
<1>6. Follows(stack, stack', Settors)
  BY <1>1, <1>3, <1>5, EnterFollows
<1>7. \/ pushes' = Pushed(Height + 1, Zero) /\ vars' = [vars EXCEPT ![Zero] = FnName]
      \/ UNCHANGED <<pushes, vars>>
  BY DEF Call
<1>8. Move
  <2>1. CASE pushes' = Pushed(Height + 1, Zero) /\ vars' = [vars EXCEPT ![Zero] = FnName]
    BY <1>1, <2>1, PushesZero
  <2>2. CASE UNCHANGED <<pushes, vars>>
    BY <2>2 DEF Move
  <2>3. QED
    BY <1>7, <2>1, <2>2
<1>9. QED
  BY <1>6, <1>8, FollowsStays DEF Call

\* callsettor.
LEMMA SettorMoves ==
  ASSUME NEW stk, NEW hs, NEW x \in Name, Follows(stack, stk, Settors), CallSettor(stk, hs, x)
  PROVE  Move /\ Follows(stack, stack', Settors)
<1>1. Len(stk) \in Nat
  BY LenProperties DEF Follows, IsSeq
<1>2. Move
  BY <1>1, PushesZero DEF CallSettor
<1>3. PICK f : f = Frame("settor", x, NULL, NULL, NoHandler, 1)
  OBVIOUS
<1>4. Fits(f, Settors) /\ f.kind = "settor"
  BY <1>3, FrameFits DEF Waiting, Values
<1>5. PICK h : h = Append(hs, Handler(Len(stk) + 1, Len(stk) + 1, evaldepth + 1))
  OBVIOUS
<1>6. EnterEval(stk, hs, f, h)
  BY <1>3, <1>5 DEF CallSettor
<1>7. QED
  BY <1>2, <1>4, <1>6, EnterFollows

\* A variable operation begins: where it goes on at once and puts back a value,
\* that is what the last push saved.
LEMMA OperationMoves ==
  ASSUME IInv, IInv', Bound, Top.kind # "restore", setup' = setup, NEW hs,
         NEW wait \in Waiting, NEW go, go \notin Waiting, NEW x \in Name, NEW v \in Values,
         WithSettor(stack, hs, wait, go, x, v),
         go = "restore" => v = Last(pushes).defn
  PROVE  Step
<1>1. Follows(stack, stack, Settors)
  BY Here
<1>2. CASE /\ x \in Settors
           /\ CallSettor(Append(stack, Frame(wait, x, v, NULL, NoHandler, 0)), hs, x)
  <2>1. PICK f : f = Frame(wait, x, v, NULL, NoHandler, 0)
    OBVIOUS
  <2>2. Fits(f, Settors) /\ f.kind # "restore"
    BY <1>2, <2>1, FrameFits DEF Waiting
  <2>3. PICK new : new = Append(stack, f)
    OBVIOUS
  <2>4. Follows(stack, new, Settors)
    BY <1>1, <2>2, <2>3, FollowsPut
  <2>5. CallSettor(new, hs, x)
    BY <1>2, <2>1, <2>3
  <2>6. QED
    BY <2>4, <2>5, SettorMoves, FollowsStays
<1>3. CASE /\ stack' = Append(stack, Frame(go, x, v, NULL, NoHandler, 0))
           /\ UNCHANGED <<pushes, vars>>
  <2>1. PICK f : f = Frame(go, x, v, NULL, NoHandler, 0)
    OBVIOUS
  <2>2. Fits(f, Settors) /\ f.kind = go /\ f.val = v
    <3>1. go \in Waiting => x \in Settors
      OBVIOUS
    <3>2. /\ Fits(Frame(go, x, v, NULL, NoHandler, 0), Settors)
          /\ Frame(go, x, v, NULL, NoHandler, 0).kind = go
      BY <3>1 DEF Fits, Frame
    <3>3. f.val = v
      BY <2>1 DEF Frame
    <3>4. QED
      BY <2>1, <3>2, <3>3
  <2>3. Move
    BY <1>3 DEF Move
  <2>4. f.kind = "restore" /\ f.name \notin Settors => f.val = Last(pushes').defn
    BY <1>3, <2>2
  <2>5. QED
    BY <1>1, <1>3, <2>1, <2>2, <2>3, <2>4, Ends
<1>4. QED
  BY <1>2, <1>3 DEF WithSettor

\* varpop begins.
LEMMA PopMoves ==
  ASSUME IInv, IInv', Bound, mode = "run", setup' = setup, StartPop,
         Top.kind = "local" \/ (Top.kind = "throw" /\ TopPush # Top.to.pushlist)
  PROVE  Step
<1>1. /\ Good(stack, handlers, pushes, "run") /\ TopPush = TopOf(pushes)
      /\ Top = stack[Len(stack)] /\ Held(pushes)
  BY Now DEF Bound
<1>2. pushes # <<>>
  <2>1. PICK f : f = Frame("restore", Last(pushes).name, NULL, NULL, NoHandler, 0)
    OBVIOUS
  <2>2. f.name = Last(pushes).name
    BY <2>1 DEF Frame
  <2>3. PopOK(Append(stack, f), pushes, Len(stack) + 1)
    BY <1>1, <2>2, StartsPop
  <2>4. PICK new : new = Append(stack, f)
    OBVIOUS
  <2>5. Good(new, handlers, pushes, "run")
    BY <1>1, <2>1, <2>3, <2>4, FrameIs, Grow DEF Kinds, Armed
  <2>6. Len(new) = Len(stack) + 1
    BY <1>1, <2>4, SeqPush DEF Good, Frames
  <2>7. ~Doomed(new, Len(stack) + 1)
    BY <2>5, <2>6, Sizes
  <2>8. \E k \in DOMAIN pushes : TRUE
    BY <2>3, <2>4, <2>7 DEF PopOK
  <2>9. QED
    BY <2>8, EmptySeq
<1>3. PICK x : x = Last(pushes).name
  OBVIOUS
<1>4. PICK v : v = Last(pushes).defn
  OBVIOUS
<1>5. x \in Name /\ v \in Values
  BY <1>1, <1>2, <1>3, <1>4, LastHeld
<1>6. PICK hs : WithSettor(stack, hs, "pop", "restore", x, v)
  BY <1>3, <1>4 DEF StartPop
<1>7. "pop" \in Waiting /\ "restore" \notin Waiting /\ Top.kind # "restore"
  BY DEF Waiting
<1>8. QED
  BY <1>4, <1>5, <1>6, <1>7, OperationMoves

\* varpush and vardef begin.
LEMMA LocalMoves ==
  ASSUME IInv, IInv', Bound, NEW x \in Name, NEW v \in Values, Local(x, v) \/ Assign(x, v)
  PROVE  Step
<1>1. Top.kind # "restore" /\ setup' = setup
  BY DEF Local, Assign, Running
<1>2. /\ "push" \in Waiting /\ "assign" \in Waiting
      /\ "bind" \notin Waiting /\ "store" \notin Waiting
  BY DEF Waiting
<1>3. \/ WithSettor(stack, handlers, "push", "bind", x, v)
      \/ WithSettor(stack, handlers, "assign", "store", x, v)
  BY DEF Local, Assign
<1>4. QED
  BY <1>1, <1>2, <1>3, OperationMoves

\* The rest of varpush.
LEMMA BindMoves ==
  ASSUME IInv, IInv', Bound, Bind
  PROVE  Step
<1>1. /\ Follows(stack, Return(1), Settors) /\ Height \in Nat \ {0} /\ Fits(Top, Settors)
      /\ IsSeq(stack) /\ stack # <<>> /\ Height = Len(stack) /\ Return(1) = Front(stack)
  BY Here DEF Bind
<1>2. PICK x \in Name : x = Top.name
  BY <1>1 DEF Fits
<1>3. PICK v \in Values : v = Top.val
  BY <1>1 DEF Fits
<1>4. PICK f : f = Frame("local", x, NULL, NULL, NoHandler, 0)
  OBVIOUS
<1>5. Fits(f, Settors) /\ f.kind = "local"
  BY <1>4, FrameFits DEF Waiting, Values
<1>6. PICK new : new = Append(Front(stack), f)
  OBVIOUS
<1>7. new[Height] = f
  BY <1>1, <1>6, SeqChange
<1>8. stack' = new /\ setup' = setup
  BY <1>1, <1>2, <1>4, <1>6 DEF Bind
<1>9. /\ pushes' = Append(pushes, [at |-> Height, name |-> x, defn |-> vars[x]])
      /\ vars' = [vars EXCEPT ![x] = v]
  BY <1>2, <1>3 DEF Bind, Pushed
<1>10. stack'[Height].kind = "local"
  BY <1>5, <1>7, <1>8
<1>11. Move
  BY <1>1, <1>9, <1>10 DEF Move
<1>12. QED
  BY <1>1, <1>5, <1>6, <1>8, <1>11, Ends

\* The rest of vardef.
LEMMA StoreMoves ==
  ASSUME IInv, IInv', Bound, Store
  PROVE  Step
<1>1. Follows(stack, Return(1), Settors) /\ Fits(Top, Settors)
  BY Here DEF Store
<1>2. PICK x \in Name : x = Top.name
  BY <1>1 DEF Fits
<1>3. PICK v \in Values : v = Top.val
  BY <1>1 DEF Fits
<1>4. pushes' = pushes /\ vars' = [vars EXCEPT ![x] = v]
  BY <1>2, <1>3 DEF Store
<1>5. Move
  BY <1>4 DEF Move
<1>6. stack' = Return(1) /\ setup' = setup
  BY DEF Store
<1>7. QED
  BY <1>1, <1>5, <1>6, FollowsStays

\* varpop of 0, which has no settor.
LEMMA ZeroMoves ==
  ASSUME IInv, Bound, PopZero, Top.kind # "local"
  PROVE  Move
<1>1. CASE TopPush # Height
  BY <1>1 DEF PopZero, Move
<1>2. CASE TopPush = Height
  <2>1. /\ Good(stack, handlers, pushes, mode) /\ Height \in Nat \ {0}
        /\ Top = stack[Height] /\ TopPush = TopOf(pushes)
    BY Here, Now
  <2>2. pushes # <<>> /\ Last(pushes).at = Height
    BY <1>2, <2>1, LastPush
  <2>3. Last(pushes) = pushes[Len(pushes)] /\ Len(pushes) \in DOMAIN pushes
    BY <2>2, SeqPop DEF Bound, Held
  <2>4. Last(pushes).name = Zero
    BY <2>1, <2>2, <2>3 DEF Bound, Zeros
  <2>5. pushes' = Front(pushes) /\ vars' = [vars EXCEPT ![Last(pushes).name] = Last(pushes).defn]
    BY <1>2, <2>4 DEF PopZero
  <2>6. QED
    BY <2>2, <2>5 DEF Move
<1>3. QED
  BY <1>1, <1>2

\* The lambda returns.
LEMMA CallEndMoves ==
  ASSUME IInv, IInv', Bound, CallEnd
  PROVE  Step
<1>1. Follows(stack, Return(1), Settors)
  BY Here DEF CallEnd
<1>2. Move
  BY ZeroMoves DEF CallEnd
<1>3. stack' = Return(1) /\ setup' = setup
  BY DEF CallEnd
<1>4. QED
  BY <1>1, <1>2, <1>3, FollowsStays

\* Frames that come and go with no push: Loop, LoopEnd, CatchEnd, CatcherEnd, and
\* what a handler goes on with.
LEMMA PlainMoves ==
  ASSUME IInv, IInv', Bound, UNCHANGED <<pushes, vars, setup>>, Top.kind # "restore",
         \/ Top.kind # "local" /\ stack' = Return(1)
         \/ stack' = Append(stack, Plain("loop", 0))
         \/ /\ Top.kind # "local"
            /\ \E kind \in {"try", "catcher"} : stack' = Append(Return(1), Plain(kind, 1))
  PROVE  Step
<1>1. Follows(stack, stack, Settors) /\ (Top.kind # "local" => Follows(stack, Return(1), Settors))
  BY Here
<1>2. Move
  BY DEF Move
<1>3. CASE Top.kind # "local" /\ stack' = Return(1)
  BY <1>1, <1>2, <1>3, FollowsStays
<1>4. CASE stack' = Append(stack, Plain("loop", 0))
  <2>1. Fits(Plain("loop", 0), Settors) /\ Plain("loop", 0).kind = "loop"
    BY PlainFits DEF Waiting
  <2>2. QED
    BY <1>1, <1>2, <1>4, <2>1, Ends
<1>5. CASE /\ Top.kind # "local"
           /\ \E kind \in {"try", "catcher"} : stack' = Append(Return(1), Plain(kind, 1))
  <2>1. PICK kind \in {"try", "catcher"} : stack' = Append(Return(1), Plain(kind, 1))
    BY <1>5
  <2>2. Fits(Plain(kind, 1), Settors) /\ Plain(kind, 1).kind = kind
    BY PlainFits DEF Waiting
  <2>3. QED
    BY <1>1, <1>2, <1>5, <2>1, <2>2, Ends
<1>6. QED
  BY <1>3, <1>4, <1>5

\* A throw of the program's.
LEMMA ThrowMoves ==
  ASSUME IInv, IInv', Bound, NEW e, Throw(e)
  PROVE  Step
<1>1. Follows(stack, stack, Settors) /\ Raise(stack, handlers, e)
  BY Here DEF Throw, Running
<1>2. Move /\ setup' = setup
  BY DEF Throw, Move
<1>3. QED
  BY <1>1, <1>2, RaiseFollows, FollowsStays

\* $&catch makes its handler and calls its body.
LEMMA CatchMoves ==
  ASSUME IInv, IInv', Bound, Catch \/ CatchBody
  PROVE  Step
<1>1. Move /\ setup' = setup
  BY DEF Catch, CatchBody, Move
<1>2. CASE Catch
  <2>1. Follows(stack, stack, Settors)
    BY <1>2, Here DEF Catch, Running
  <2>2. PICK f : f = Plain("try", 1)
    OBVIOUS
  <2>3. Fits(f, Settors) /\ f.kind = "try"
    BY <2>2, PlainFits DEF Waiting
  <2>4. EnterEval(stack, handlers, f, handlers)
    BY <1>2, <2>2 DEF Catch
  <2>5. QED
    BY <1>1, <2>1, <2>3, <2>4, EnterFollows, FollowsStays
<1>3. CASE CatchBody
  <2>1. Follows(stack, Return(1), Settors)
    BY <1>3, Here DEF CatchBody
  <2>2. PICK f : f = Plain("catch", 2)
    OBVIOUS
  <2>3. Fits(f, Settors) /\ f.kind = "catch"
    BY <2>2, PlainFits DEF Waiting
  <2>4. PICK stk : stk = Append(Return(1), f)
    OBVIOUS
  <2>5. Follows(stack, stk, Settors)
    BY <2>1, <2>3, <2>4, FollowsPut
  <2>6. PICK hs : hs = Append(handlers, Handler(Height, TopPush, evaldepth))
    OBVIOUS
  <2>7. Raise(stk, hs, "error") \/ stack' = stk
    BY <1>3, <2>2, <2>4, <2>6 DEF CatchBody
  <2>8. QED
    BY <1>1, <2>5, <2>7, RaiseFollows, FollowsStays
<1>4. QED
  BY <1>2, <1>3

\* A settor returns v: the operation below goes on with it.
LEMMA ValueMoves ==
  ASSUME IInv, IInv', Bound, setup' = setup, NEW v \in Values, SettorValue(v),
         Top.kind = "settor"
  PROVE  Step
<1>1. /\ Good(stack, handlers, pushes, mode) /\ IsSeq(stack) /\ stack # <<>>
      /\ Height \in Nat \ {0} /\ DOMAIN stack = 1 .. Height /\ Height = Len(stack)
      /\ Top = stack[Height] /\ Return(1) = Front(stack) /\ Settled(Return(1), Settors)
      /\ Follows(stack, Return(1), Settors)
  BY Here
<1>2. PICK front : front = Front(stack)
  OBVIOUS
<1>3. PICK n : n = Height - 1
  OBVIOUS
<1>4. n \in Nat \ {0} /\ stack[n].kind \in Waiting
  <2>1. Waits(stack) /\ Height \in DOMAIN stack /\ stack[Height].kind = "settor"
    BY <1>1 DEF Good
  <2>2. Height > 1 /\ stack[Height - 1].kind \in {"push", "assign", "pop"}
    BY <2>1 DEF Waits
  <2>3. QED
    BY <1>1, <1>3, <2>2 DEF Waiting
<1>5. /\ IsSeq(front) /\ Len(front) = n /\ DOMAIN front = 1 .. n /\ front[n] = stack[n]
      /\ front # <<>>
  <2>1. /\ IsSeq(front) /\ Len(front) = n /\ DOMAIN front = 1 .. n /\ front[n] = stack[n]
    <3>1. /\ IsSeq(front) /\ Len(front) = Len(stack) - 1 /\ DOMAIN front = 1 .. Len(stack) - 1
          /\ \A i \in 1 .. Len(stack) - 1 : front[i] = stack[i]
      BY <1>1, <1>2, SeqPop
    <3>2. QED
      BY <1>1, <1>3, <1>4, <3>1
  <2>2. QED
    BY <1>4, <2>1, EmptySeq
<1>6. PICK below : below = stack[n]
  OBVIOUS
<1>7. Fits(below, Settors) /\ below.kind \in Waiting /\ below.kind # "local"
  BY <1>1, <1>2, <1>4, <1>5, <1>6 DEF Settled, Waiting
<1>8. PICK stk : stk = Return(2)
  OBVIOUS
<1>9. Follows(stack, stk, Settors)
  <2>1. stk = Front(front)
    BY <1>1, <1>2, <1>3, <1>4, <1>8, ReturnIs
  <2>2. Fitted(front, Settors)
    <3>1. /\ DOMAIN Front(front) = 1 .. n - 1 /\ Last(front) = below
          /\ \A i \in 1 .. n - 1 : Front(front)[i] = front[i]
      BY <1>5, <1>6, SeqPop
    <3>2. PICK ff : ff = Front(front)
      OBVIOUS
    <3>3. /\ Settled(front, Settors) /\ DOMAIN ff = 1 .. n - 1
          /\ \A i \in 1 .. n - 1 : ff[i] = front[i]
      BY <1>1, <1>2, <3>1, <3>2
    <3>4. Settled(ff, Settors)
      BY <1>5, <3>3 DEF Settled
    <3>5. QED
      BY <1>7, <3>1, <3>2, <3>4 DEF Fitted
  <2>3. Follows(front, Front(front), Settors)
    BY <1>5, <1>6, <1>7, <2>2, FollowsBack
  <2>4. \A i \in DOMAIN stack :
          stack[i].kind = "local" => i \in DOMAIN front /\ front[i].kind = "local"
    BY <1>1, <1>2 DEF Follows
  <2>5. QED
    BY <2>1, <2>3, <2>4 DEF Follows
<1>10. PICK f : f = [below EXCEPT !.kind = After(below.kind), !.val = v]
  OBVIOUS
<1>11. below.name \in Settors /\ FrameOK(below)
  BY <1>1, <1>3, <1>4, <1>6, <1>7 DEF Fits, Good, Frames
<1>12. f.name \in Settors /\ f.val = v /\ f.kind \notin Waiting
  <2>1. After(below.kind) \notin Waiting
    BY <1>7 DEF After, Waiting
  <2>2. QED
    BY <1>10, <1>11, <2>1 DEF FrameOK
<1>13. Fits(f, Settors)
  BY <1>7, <1>10, <1>11, <1>12 DEF Fits, FrameOK
<1>14. stack' = Append(stk, f)
  BY <1>3, <1>6, <1>8, <1>10 DEF SettorValue
<1>15. Move
  BY ZeroMoves DEF SettorValue
<1>16. QED
  BY <1>9, <1>12, <1>13, <1>14, <1>15, Ends

\* The rest of varpop.
LEMMA RestoreMoves ==
  ASSUME IInv, IInv', Bound, Restore
  PROVE  Step
<1>1. /\ Good(stack, handlers, pushes, "run") /\ Top.kind = "restore"
      /\ Top = stack[Len(stack)] /\ setup' = setup /\ Height = Len(stack)
  BY Now DEF Restore
<1>2. /\ pushes # <<>> /\ Last(pushes).name = Top.name
      /\ stack[Len(stack) - 1].kind \in {"local", "throw"}
  BY <1>1, Restores
<1>3. Fits(Top, Settors) /\ Settled(Return(1), Settors) /\ Same(stack, Return(1))
      /\ Follows(stack, Return(1), Settors)
  BY <1>1, Here
<1>4. Move
  <2>1. /\ pushes' = Front(pushes) /\ Top.val \in Values
        /\ vars' = [vars EXCEPT ![Last(pushes).name] = Top.val]
    BY <1>2, <1>3 DEF Restore, Fits
  <2>2. CASE Top.name \in Settors
    BY <1>2, <2>1, <2>2 DEF Move
  <2>3. CASE Top.name \notin Settors
    <3>1. Top.val = Last(pushes).defn
      BY <1>1, <2>3 DEF Bound, Back
    <3>2. QED
      BY <1>2, <2>1, <3>1 DEF Move
  <2>4. QED
    BY <2>2, <2>3
<1>5. CASE Raise(Return(1), handlers, Top.exc)
  BY <1>1, <1>3, <1>4, <1>5, RaiseFollows, FollowsStays
<1>6. CASE stack' = Return(1)
  BY <1>1, <1>3, <1>4, <1>6, Stays
<1>7. CASE stack' = Return(2)
  <2>1. /\ IsSeq(stack) /\ stack # <<>> /\ Return(1) = Front(stack) /\ Len(stack) # 1
        /\ Len(stack) \in Nat \ {0}
    BY <1>1, Here, Sizes
  <2>2. PICK front : front = Front(stack)
    OBVIOUS
  <2>3. Return(2) = Front(front)
    BY <1>1, <2>1, <2>2, ReturnIs
  <2>4. IsSeq(front) /\ Len(front) = Len(stack) - 1 /\ DOMAIN front = 1 .. Len(stack) - 1
    BY <2>1, <2>2, SeqPop
  <2>5. front # <<>>
    BY <2>1, <2>4, EmptySeq
  <2>6. /\ DOMAIN Front(front) = 1 .. Len(front) - 1
        /\ \A i \in 1 .. Len(front) - 1 : Front(front)[i] = front[i]
    BY <2>4, <2>5, SeqPop
  <2>7. Settled(Front(front), Settors) /\ Same(stack, Front(front))
    <3>1. PICK ff : ff = Front(front)
      OBVIOUS
    <3>2. /\ Settled(front, Settors) /\ Same(stack, front)
          /\ DOMAIN ff \subseteq DOMAIN front /\ \A i \in DOMAIN ff : ff[i] = front[i]
      BY <1>3, <2>1, <2>2, <2>4, <2>6, <3>1
    <3>3. Settled(ff, Settors) /\ Same(stack, ff)
      BY <3>2 DEF Settled, Same
    <3>4. QED
      BY <3>1, <3>3
  <2>8. QED
    BY <1>1, <1>4, <1>7, <2>3, <2>7, Stays
<1>8. QED
  BY <1>5, <1>6, <1>7 DEF Restore

\* longjmp.
LEMMA JumpMoves ==
  ASSUME IInv, IInv', Bound, Jump
  PROVE  Step
<1>1. PICK m : m = Top.to.at
  OBVIOUS
<1>2. PICK new : new = stack'
  OBVIOUS
<1>3. /\ m \in 1 .. Len(stack) - 1 /\ DOMAIN new = 1 .. m
      /\ \A i \in 1 .. m - 1 : new[i] = stack[i]
      /\ new[m].kind = stack[m].kind /\ new[m].name = stack[m].name /\ new[m].val = stack[m].val
  BY <1>1, <1>2, Lands
<1>4. /\ Len(stack) \in Nat \ {0} /\ Settled(Front(stack), Settors)
      /\ DOMAIN stack = 1 .. Len(stack) /\ IsSeq(stack) /\ stack # <<>>
  BY Here
<1>5. PICK front : front = Front(stack)
  OBVIOUS
<1>6. /\ DOMAIN front = 1 .. Len(stack) - 1
      /\ \A i \in 1 .. Len(stack) - 1 : front[i] = stack[i]
  BY <1>4, <1>5, SeqPop
<1>7. \A i \in 1 .. Len(stack) - 1 : Fits(stack[i], Settors) /\ stack[i].kind # "restore"
  BY <1>4, <1>5, <1>6 DEF Settled
<1>8. \A i \in 1 .. m : i \in 1 .. Len(stack) - 1 /\ (i \in 1 .. m - 1 \/ i = m)
  BY <1>3, <1>4
<1>9. \A i \in 1 .. m : new[i].kind = stack[i].kind /\ new[i].name = stack[i].name
                        /\ new[i].val = stack[i].val
  BY <1>3, <1>8
<1>10. Settled(new, Settors)
  BY <1>3, <1>7, <1>8, <1>9 DEF Settled, Fits
<1>11. Same(stack, new)
  BY <1>3, <1>9 DEF Same
<1>12. Move /\ setup' = setup
  BY DEF Jump, Move
<1>13. QED
  BY <1>2, <1>10, <1>11, <1>12, Stays

\* A handler throws on.
LEMMA RethrowMoves ==
  ASSUME IInv, IInv', Bound, Rethrow, UNCHANGED <<pushes, vars, setup>>,
         Top.kind \in {"call", "loop", "catcher", "settor"}
  PROVE  Step
<1>1. Follows(stack, Return(1), Settors) /\ Fits(Top, Settors) /\ FrameOK(Top)
  BY Here, Sizes
<1>2. PICK f : f = [Top EXCEPT !.kind = "dead"]
  OBVIOUS
<1>3. f.kind = "dead" /\ f.name = Top.name /\ f.val = Top.val
  BY <1>1, <1>2 DEF FrameOK
<1>4. Fits(f, Settors)
  BY <1>1, <1>3 DEF Fits, Waiting
<1>5. PICK stk : stk = Append(Return(1), f)
  OBVIOUS
<1>6. Follows(stack, stk, Settors)
  BY <1>1, <1>3, <1>4, <1>5, FollowsPut
<1>7. Raise(stk, handlers, exception)
  BY <1>2, <1>5 DEF Rethrow
<1>8. Move
  BY DEF Move
<1>9. QED
  BY <1>6, <1>7, <1>8, RaiseFollows, FollowsStays

\* varpop's handler.
LEMMA PopCaughtMoves ==
  ASSUME IInv, IInv', Bound, PopCaught
  PROVE  Step
<1>1. /\ Follows(stack, Return(1), Settors) /\ Fits(Top, Settors) /\ FrameOK(Top)
      /\ Top.kind = "pop"
  BY Here, Sizes DEF PopCaught, Caught
<1>2. PICK f : f = [Top EXCEPT !.kind = "restore", !.exc = exception]
  OBVIOUS
<1>3. f.kind = "restore" /\ f.name = Top.name /\ f.val = Top.val
  BY <1>1, <1>2 DEF FrameOK
<1>4. Fits(f, Settors) /\ f.name \in Settors
  BY <1>1, <1>3 DEF Fits, Waiting
<1>5. Move /\ setup' = setup /\ stack' = Append(Return(1), f)
  BY <1>2 DEF PopCaught, Move
<1>6. QED
  BY <1>1, <1>4, <1>5, Ends

\* All the actions.
LEMMA NextMoves ==
  ASSUME IInv, IInv', Bound, [Next]_uvars
  PROVE  Step
<1>1. ASSUME NEW named \in BOOLEAN, Call(named) PROVE Step
  BY <1>1, CallMoves
<1>2. ASSUME NEW x \in Name, NEW v \in Value \cup {NULL}, Local(x, v) \/ Assign(x, v) PROVE Step
  BY <1>2, LocalMoves DEF Values
<1>3. ASSUME NEW e, Throw(e) PROVE Step
  BY <1>3, ThrowMoves
<1>4. ASSUME NEW v \in Value \cup {NULL}, SettorEnd(v) PROVE Step
  BY <1>4, ValueMoves DEF SettorEnd, Values
<1>5. CASE Loop \/ LoopEnd \/ CatchEnd \/ CatcherEnd
  BY <1>5, PlainMoves DEF Loop, LoopEnd, CatchEnd, CatcherEnd, Running
<1>6. CASE Catch \/ CatchBody
  BY <1>6, CatchMoves
<1>7. CASE CallEnd
  BY <1>7, CallEndMoves
<1>8. CASE LocalEnd
  BY <1>8, PopMoves DEF LocalEnd, Running
<1>9. CASE UnwindPush
  BY <1>9, PopMoves DEF UnwindPush
<1>10. CASE Bind
  BY <1>10, BindMoves
<1>11. CASE Store
  BY <1>11, StoreMoves
<1>12. CASE Restore
  BY <1>12, RestoreMoves
<1>13. CASE Jump
  BY <1>13, JumpMoves
<1>14. CASE CallCaught
  BY <1>14, PlainMoves, RethrowMoves DEF CallCaught, Caught
<1>15. CASE LoopCaught
  BY <1>15, PlainMoves, RethrowMoves DEF LoopCaught, Caught
<1>16. CASE CatcherCaught
  BY <1>16, PlainMoves, RethrowMoves DEF CatcherCaught, Caught
<1>17. CASE CatchCaught
  BY <1>17, PlainMoves DEF CatchCaught, Caught
<1>18. CASE SettorCaught
  BY <1>18, ValueMoves, RethrowMoves DEF SettorCaught, Caught, Values
<1>19. CASE PopCaught
  BY <1>19, PopCaughtMoves
<1>20. CASE UNCHANGED <<stack, pushes, vars, setup>>
  <2>1. Move
    BY <1>20 DEF Move
  <2>2. Same(stack, stack) /\ Settors' = Settors
    BY <1>20 DEF Same, Settors
  <2>3. Fitted(stack', Settors) /\ Back'
    BY <1>20, <2>2 DEF Bound, Back, Top, Height
  <2>4. QED
    BY <1>20, <2>1, <2>2, <2>3 DEF Step
<1>21. CASE TopCaught \/ Ended \/ UNCHANGED uvars
  BY <1>20, <1>21 DEF TopCaught, Ended, uvars
<1>22. QED
  BY <1>1, <1>2, <1>3, <1>4, <1>5, <1>6, <1>7, <1>8, <1>9, <1>10, <1>11, <1>12, <1>13,
     <1>14, <1>15, <1>16, <1>17, <1>18, <1>19, <1>21
     DEF Next, Program, Machinery

-----------------------------------------------------------------------------
(* The refinement.                                                         *)

\* At the start nothing is pushed.
LEMMA InitBound ==
  ASSUME Init
  PROVE  Bound /\ Scope!Init
<1>1. PICK f : f = Plain("top", 0)
  OBVIOUS
<1>2. Fits(f, Settors) /\ f.kind = "top"
  BY <1>1, PlainFits DEF Waiting
<1>3. stack = <<f>> /\ pushes = <<>> /\ vars = [x \in Name |-> NULL] /\ setup \in Setups
  BY <1>1 DEF Init
<1>4. /\ IsSeq(stack) /\ stack # <<>> /\ Len(stack) = 1 /\ DOMAIN stack = {1} /\ stack[1] = f
  BY <1>3, SeqOne
<1>5. IsSeq(pushes) /\ Len(pushes) = 0 /\ DOMAIN pushes = {}
  <2>1. <<>> \in Seq({})
    OBVIOUS
  <2>2. QED
    BY <1>3, <2>1 DEF IsSeq
<1>6. Fitted(stack, Settors)
  <2>1. DOMAIN Front(stack) = 1 .. 0 /\ Last(stack) = f
    BY <1>4, SeqPop
  <2>2. QED
    BY <1>2, <2>1 DEF Fitted, Settled
<1>7. Top.kind # "restore"
  BY <1>2, <1>4 DEF Top, Height
<1>8. Bound
  BY <1>3, <1>5, <1>6, <1>7 DEF Bound, Held, Zeros, Back, Values
<1>9. Settors \subseteq Name
  BY <1>3, SetupAssumption DEF Settors, Setup
<1>10. BaseOf(pushes, vars) = [x \in Name |-> NULL]
  <2>1. ASSUME NEW x \in Name PROVE ValueIn(pushes, vars, x, 0) = NULL
    <3>1. {j \in 0 + 1 .. Len(pushes) : pushes[j].name = x} = {}
      BY <1>5
    <3>2. vars[x] = NULL
      BY <1>3
    <3>3. QED
      BY <3>1, <3>2 DEF ValueIn
  <2>2. QED
    BY <2>1 DEF BaseOf
<1>11. ScopesOf(pushes, vars) = <<>>
  <2>1. IsSeq(ScopesOf(pushes, vars)) /\ Len(ScopesOf(pushes, vars)) = 0
    BY <1>5, ScopesSeq
  <2>2. QED
    BY <2>1, EmptySeq DEF IsSeq
<1>12. QED
  BY <1>8, <1>9, <1>10, <1>11, Mapped DEF Scope!Init

\* Through pushes, settors, throws and catches, what vars and pushlist hold is the
\* nest of scopes that local promises: a scope that is left, however it is left,
\* brings back the binding below it as it was, or as its settor returned it.
THEOREM ImplementsScopes == Spec => RefinesScopes
<1>1. Init => Bound /\ Scope!Init
  BY InitBound
<1>2. IInv /\ IInv' /\ Bound /\ [Next]_uvars =>
        /\ Bound'
        /\ [Scope!Next /\ UNCHANGED Settors]_<<Settors, [x \in Name |-> ScopeValue(x, 0)],
             [i \in DOMAIN pushes |->
               [name |-> pushes[i].name, value |-> ScopeValue(pushes[i].name, i)]]>>
  <2>. SUFFICES ASSUME IInv, IInv', Bound, [Next]_uvars
       PROVE /\ Bound'
        /\ [Scope!Next /\ UNCHANGED Settors]_<<Settors, [x \in Name |-> ScopeValue(x, 0)],
             [i \in DOMAIN pushes |->
               [name |-> pushes[i].name, value |-> ScopeValue(pushes[i].name, i)]]>>
    OBVIOUS
  <2>1. Step
    BY NextMoves
  <2>2. Bound' /\ (Scope!Next \/ UNCHANGED <<pushes, vars>>)
    BY <2>1, StepKeeps
  <2>3. UNCHANGED Settors
    BY <2>1 DEF Step, Settors
  <2>4. CASE UNCHANGED <<pushes, vars>>
    <3>1. /\ BaseOf(pushes, vars)' = BaseOf(pushes, vars)
          /\ ScopesOf(pushes, vars)' = ScopesOf(pushes, vars)
      BY <2>4 DEF BaseOf, ScopesOf, ValueIn
    <3>2. QED
      BY <2>2, <2>3, <3>1, Mapped
  <2>5. QED
    BY <2>2, <2>3, <2>4
<1>3. Spec => []IInv
  BY Invariance
<1>4. QED
  BY <1>1, <1>2, <1>3, PTL DEF Spec, RefinesScopes, Scope!Spec

(***************************************************************************)
(* evaldepth is exact: eval raises it and lowers it again on its ways out, *)
(* and a throw that jumps over evals sets it back to what the handler      *)
(* saved (except.c), so that a long session never creeps up to             *)
(* maxevaldepth.                                                           *)
(*                                                                         *)
(* The invariant: the depth that a handler saved, on the list or taken by  *)
(* a throw, is the count of the evals up to its frame.  One frame is       *)
(* special, catch, which enters its second eval after its handler: jumped  *)
(* to, it has one eval only.                                               *)
(***************************************************************************)

\* How many evals the first n frames have entered and not left.
Depth(stk, n) == Cardinality(EvalsIn(stk, n))

\* What each kind of frame has entered.  A catch has two evals, or one, when it
\* was just jumped to and has lost the eval of its body.
EvalsFor(f, catch) ==
  /\ f.evals \in 0 .. 2
  /\ f.kind \in {"call", "try", "catcher", "settor"} => f.evals = 1
  /\ f.kind = "catch" => f.evals = catch
  /\ f.kind \in Kinds \ {"call", "try", "catcher", "settor", "catch", "dead"} => f.evals = 0

\* evaldepth as it is when a throw comes to frame i.
Base(stk, i) ==
  IF stk[i].kind = "catch" THEN Depth(stk, i - 1) + 1 ELSE Depth(stk, i)

\* Every depth there is, evaldepth and those saved, is a count of evals.
Counted(stk, hs, d, catch) ==
  /\ IsSeq(stk) /\ stk # <<>> /\ IsSeq(hs) /\ Rising(hs)
  /\ \A i \in DOMAIN stk : i # Len(stk) => EvalsFor(stk[i], 2)
  /\ EvalsFor(stk[Len(stk)], catch)
  /\ d = Depth(stk, Len(stk))
  /\ \A k \in DOMAIN hs :
       hs[k].at \in DOMAIN stk /\ hs[k].evaldepth = Base(stk, hs[k].at)
  /\ \A j \in DOMAIN stk : stk[j].kind = "throw" =>
       stk[j].to.at \in 1 .. j - 1 /\ stk[j].to.evaldepth = Base(stk, stk[j].to.at)

LEMMA DepthNat ==
  ASSUME NEW stk, NEW n \in Nat
  PROVE  IsFiniteSet(EvalsIn(stk, n)) /\ Depth(stk, n) \in Nat
<1>1. IsFiniteSet(1 .. n) /\ IsFiniteSet(1 .. 2)
  <2>1. n \in Int /\ 1 \in Int /\ 2 \in Int
    OBVIOUS
  <2>2. QED
    BY ONLY <2>1, FS_Interval
<1>2. IsFiniteSet((1 .. n) \X (1 .. 2))
  BY <1>1, FS_Product
<1>3. EvalsIn(stk, n) \in SUBSET ((1 .. n) \X (1 .. 2))
  BY DEF EvalsIn
<1>4. IsFiniteSet(EvalsIn(stk, n))
  BY <1>2, <1>3, FS_Subset
<1>5. QED
  BY <1>4, FS_CardinalityType DEF Depth

LEMMA DepthZero ==
  ASSUME NEW stk
  PROVE  Depth(stk, 0) = 0
<1>1. EvalsIn(stk, 0) = {}
  BY DEF EvalsIn
<1>2. QED
  BY <1>1, FS_EmptySet DEF Depth

\* The first n frames decide.
LEMMA DepthSame ==
  ASSUME NEW stk, NEW new, NEW n \in Nat, \A i \in 1 .. n : new[i].evals = stk[i].evals
  PROVE  Depth(new, n) = Depth(stk, n)
<1>1. EvalsIn(new, n) = EvalsIn(stk, n)
  BY DEF EvalsIn
<1>2. QED
  BY <1>1 DEF Depth

LEMMA DepthNext ==
  ASSUME NEW stk, NEW n \in Nat, stk[n + 1].evals \in 0 .. 2
  PROVE  Depth(stk, n + 1) = Depth(stk, n) + stk[n + 1].evals
<1>1. PICK S : S = EvalsIn(stk, n)
  OBVIOUS
<1>2. PICK T : T = EvalsIn(stk, n + 1)
  OBVIOUS
<1>3. IsFiniteSet(S) /\ Cardinality(S) \in Nat /\ Depth(stk, n) = Cardinality(S)
      /\ Depth(stk, n + 1) = Cardinality(T)
  BY <1>1, <1>2, DepthNat DEF Depth
<1>4. <<n + 1, 1>> \notin S /\ <<n + 1, 2>> \notin S
  BY <1>1 DEF EvalsIn
<1>5. PICK m : m = n + 1
  OBVIOUS
<1>6. T = S \cup {e \in {m} \X (1 .. 2) : e[2] <= stk[m].evals}
  <2>1. 1 .. m = (1 .. n) \cup {m}
    BY <1>5
  <2>2. QED
    BY <1>1, <1>2, <1>5, <2>1 DEF EvalsIn
<1>7. CASE stk[m].evals = 0
  <2>1. \A e \in {m} \X (1 .. 2) : ~(e[2] <= stk[m].evals)
    BY <1>7
  <2>2. T = S
    BY <1>6, <2>1
  <2>3. QED
    BY <1>3, <1>5, <1>7, <2>2
<1>8. CASE stk[m].evals = 1
  <2>1. {e \in {m} \X (1 .. 2) : e[2] <= stk[m].evals} = {<<m, 1>>}
    BY <1>8
  <2>2. T = S \cup {<<m, 1>>}
    BY <1>6, <2>1
  <2>3. Cardinality(T) = Cardinality(S) + 1
    BY <1>3, <1>4, <1>5, <2>2, FS_AddElement
  <2>4. QED
    BY <1>3, <1>5, <1>8, <2>3
<1>9. CASE stk[m].evals = 2
  <2>1. {e \in {m} \X (1 .. 2) : e[2] <= stk[m].evals} = {<<m, 1>>, <<m, 2>>}
    BY <1>9
  <2>2. PICK U : U = S \cup {<<m, 1>>}
    OBVIOUS
  <2>3. T = U \cup {<<m, 2>>} /\ <<m, 2>> \notin U
    BY <1>4, <1>5, <1>6, <2>1, <2>2
  <2>4. IsFiniteSet(U) /\ Cardinality(U) = Cardinality(S) + 1
    BY <1>3, <1>4, <1>5, <2>2, FS_AddElement
  <2>5. Cardinality(T) = Cardinality(U) + 1
    BY <2>3, <2>4, FS_AddElement
  <2>6. QED
    BY <1>3, <1>5, <1>9, <2>4, <2>5
<1>10. QED
  BY <1>5, <1>7, <1>8, <1>9

\* Two stacks that agree on the first n frames.
LEMMA BaseSame ==
  ASSUME NEW stk, NEW new, NEW n \in Nat, \A i \in 1 .. n : new[i] = stk[i]
  PROVE  \A i \in 1 .. n : Base(new, i) = Base(stk, i)
<1>1. SUFFICES ASSUME NEW i \in 1 .. n PROVE Base(new, i) = Base(stk, i)
  OBVIOUS
<1>2. i \in Nat /\ i - 1 \in Nat /\ \A j \in 1 .. i : j \in 1 .. n
  OBVIOUS
<1>3. Depth(new, i) = Depth(stk, i) /\ Depth(new, i - 1) = Depth(stk, i - 1)
  BY <1>2, DepthSame
<1>4. QED
  BY <1>3 DEF Base

-----------------------------------------------------------------------------
LEMMA CountedSize ==
  ASSUME NEW stk, NEW hs, NEW d, NEW catch, Counted(stk, hs, d, catch)
  PROVE  /\ Len(stk) \in Nat \ {0} /\ DOMAIN stk = 1 .. Len(stk)
         /\ d = Depth(stk, Len(stk)) /\ d \in Nat
         /\ EvalsFor(stk[Len(stk)], catch)
         /\ Len(hs) \in Nat /\ DOMAIN hs = 1 .. Len(hs)
<1>1. /\ Len(stk) \in Nat \ {0} /\ DOMAIN stk = 1 .. Len(stk)
      /\ Len(hs) \in Nat /\ DOMAIN hs = 1 .. Len(hs)
  BY EmptySeq, LenProperties DEF Counted, IsSeq
<1>2. QED
  BY <1>1, DepthNat DEF Counted

\* A new frame.
LEMMA CountGrow ==
  ASSUME NEW stk, NEW hs, NEW d, NEW f, Counted(stk, hs, d, 2), EvalsFor(f, 2),
         f.kind = "throw" =>
           f.to.at \in DOMAIN stk /\ f.to.evaldepth = Base(stk, f.to.at)
  PROVE  Counted(Append(stk, f), hs, d + f.evals, 2)
<1>1. PICK n : n = Len(stk)
  OBVIOUS
<1>2. PICK new : new = Append(stk, f)
  OBVIOUS
<1>3. n \in Nat \ {0} /\ DOMAIN stk = 1 .. n /\ d = Depth(stk, n)
  BY <1>1, CountedSize
<1>4. /\ IsSeq(new) /\ Len(new) = n + 1 /\ DOMAIN new = 1 .. n + 1
      /\ new[n + 1] = f /\ \A i \in 1 .. n : new[i] = stk[i]
  BY <1>1, <1>2, SeqPush DEF Counted
<1>5. \A i \in 1 .. n : Base(new, i) = Base(stk, i)
  BY <1>3, <1>4, BaseSame
<1>6. Depth(new, n + 1) = d + f.evals
  <2>1. Depth(new, n) = Depth(stk, n)
    BY <1>3, <1>4, DepthSame
  <2>2. Depth(new, n + 1) = Depth(new, n) + f.evals
    BY <1>3, <1>4, DepthNext DEF EvalsFor
  <2>3. QED
    BY <1>3, <2>1, <2>2
<1>7. new # <<>>
  BY <1>3, <1>4, EmptySeq
<1>8. \A i \in 1 .. n + 1 : EvalsFor(new[i], 2)
  <2>1. \A i \in 1 .. n : EvalsFor(stk[i], 2)
    BY <1>1, <1>3 DEF Counted
  <2>2. QED
    BY <1>3, <1>4, <2>1
<1>9. \A k \in DOMAIN hs : hs[k].at \in 1 .. n + 1 /\ hs[k].evaldepth = Base(new, hs[k].at)
  BY <1>3, <1>5 DEF Counted
<1>10. ASSUME NEW j \in 1 .. n + 1, new[j].kind = "throw"
       PROVE  /\ new[j].to.at \in 1 .. j - 1
              /\ new[j].to.evaldepth = Base(new, new[j].to.at)
  <2>1. CASE j = n + 1
    BY <1>3, <1>4, <1>5, <1>10, <2>1
  <2>2. CASE j \in 1 .. n
    <3>1. new[j] = stk[j] /\ stk[j].to.at \in 1 .. j - 1
          /\ stk[j].to.evaldepth = Base(stk, stk[j].to.at)
      BY <1>3, <1>4, <1>10, <2>2 DEF Counted
    <3>2. stk[j].to.at \in 1 .. n
      BY <1>3, <2>2, <3>1
    <3>3. QED
      BY <1>5, <3>1, <3>2
  <2>3. QED
    BY <1>3, <1>10, <2>1, <2>2
<1>11. QED
  BY <1>2, <1>4, <1>6, <1>7, <1>8, <1>9, <1>10 DEF Counted

\* A handler of the top frame.
LEMMA CountArm ==
  ASSUME NEW stk, NEW hs, NEW d, NEW h, NEW catch, Counted(stk, hs, d, catch),
         h.at = Len(stk), h.evaldepth = Base(stk, Len(stk)),
         \A k \in DOMAIN hs : hs[k].at # Len(stk)
  PROVE  Counted(stk, Append(hs, h), d, catch)
<1>1. PICK n : n = Len(stk)
  OBVIOUS
<1>2. PICK new : new = Append(hs, h)
  OBVIOUS
<1>3. PICK m : m = Len(hs)
  OBVIOUS
<1>4. n \in Nat \ {0} /\ DOMAIN stk = 1 .. n
  BY <1>1, CountedSize
<1>5. /\ IsSeq(new) /\ m \in Nat /\ DOMAIN hs = 1 .. m /\ DOMAIN new = 1 .. m + 1
      /\ new[m + 1] = h /\ \A k \in 1 .. m : new[k] = hs[k]
  BY <1>2, <1>3, SeqPush DEF Counted
<1>6. \A k \in 1 .. m : hs[k].at \in 1 .. n - 1
  <2>1. \A k \in 1 .. m : hs[k].at \in 1 .. n
    BY <1>4, <1>5 DEF Counted
  <2>2. QED
    BY <1>1, <1>4, <1>5, <2>1
<1>7. Rising(new)
  <2>1. \A k, l \in 1 .. m : k < l => hs[k].at < hs[l].at
    BY <1>5 DEF Counted, Rising
  <2>2. \A k \in 1 .. m : hs[k].at < h.at
    BY <1>1, <1>4, <1>6
  <2>3. QED
    BY <1>5, <2>1, <2>2 DEF Rising
<1>8. \A k \in 1 .. m + 1 : new[k].at \in 1 .. n /\ new[k].evaldepth = Base(stk, new[k].at)
  BY <1>1, <1>4, <1>5 DEF Counted
<1>9. QED
  BY <1>2, <1>4, <1>5, <1>7, <1>8 DEF Counted

\* pophandler.
LEMMA CountDisarm ==
  ASSUME NEW stk, NEW hs, NEW d, NEW catch, Counted(stk, hs, d, catch), hs # <<>>
  PROVE  /\ Counted(stk, Front(hs), d, catch)
         /\ \A k \in DOMAIN Front(hs) : Front(hs)[k].at < Last(hs).at
         /\ Last(hs).at \in DOMAIN stk /\ Last(hs).evaldepth = Base(stk, Last(hs).at)
<1>1. PICK new : new = Front(hs)
  OBVIOUS
<1>2. PICK m : m = Len(hs)
  OBVIOUS
<1>3. /\ IsSeq(new) /\ m \in Nat \ {0} /\ DOMAIN hs = 1 .. m /\ DOMAIN new = 1 .. m - 1
      /\ Last(hs) = hs[m] /\ \A k \in 1 .. m - 1 : new[k] = hs[k]
  BY <1>1, <1>2, SeqPop DEF Counted
<1>4. Rising(new) /\ \A k \in 1 .. m - 1 : new[k].at < hs[m].at
  <2>1. \A k, l \in 1 .. m : k < l => hs[k].at < hs[l].at
    BY <1>3 DEF Counted, Rising
  <2>2. \A k \in 1 .. m - 1 : k \in 1 .. m /\ k < m /\ m \in 1 .. m /\ new[k] = hs[k]
    BY <1>3
  <2>3. QED
    BY <1>3, <2>1, <2>2 DEF Rising
<1>5. \A k \in 1 .. m : hs[k].at \in DOMAIN stk /\ hs[k].evaldepth = Base(stk, hs[k].at)
  BY <1>3 DEF Counted
<1>6. QED
  BY <1>1, <1>3, <1>4, <1>5 DEF Counted

\* The top frame is left.
LEMMA CountDrop ==
  ASSUME NEW stk, NEW hs, NEW d, NEW catch, Counted(stk, hs, d, catch), Len(stk) # 1,
         \A k \in DOMAIN hs : hs[k].at # Len(stk)
  PROVE  Counted(Front(stk), hs, d - stk[Len(stk)].evals, 2)
<1>1. PICK n : n = Len(stk)
  OBVIOUS
<1>2. PICK new : new = Front(stk)
  OBVIOUS
<1>3. n \in Nat \ {0} /\ n # 1 /\ DOMAIN stk = 1 .. n /\ d = Depth(stk, n)
      /\ EvalsFor(stk[n], catch)
  BY <1>1, CountedSize
<1>4. PICK m : m = n - 1
  OBVIOUS
<1>5. m \in Nat \ {0} /\ m + 1 = n
  BY <1>3, <1>4
<1>6. IsSeq(new) /\ Len(new) = m /\ DOMAIN new = 1 .. m /\ \A i \in 1 .. m : new[i] = stk[i]
  BY <1>1, <1>2, <1>4, SeqPop DEF Counted
<1>7. \A i \in 1 .. m : Base(new, i) = Base(stk, i)
  BY <1>5, <1>6, BaseSame
<1>8. Depth(new, m) = d - stk[n].evals
  <2>1. Depth(new, m) = Depth(stk, m) /\ Depth(stk, m) \in Nat
    BY <1>5, <1>6, DepthSame, DepthNat
  <2>2. d = Depth(stk, m) + stk[n].evals
    BY <1>3, <1>5, DepthNext DEF EvalsFor
  <2>3. QED
    BY <1>3, <2>1, <2>2 DEF EvalsFor
<1>9. new # <<>>
  BY <1>5, <1>6, EmptySeq
<1>10. \A i \in 1 .. m : EvalsFor(new[i], 2)
  <2>1. \A i \in 1 .. m : i \in 1 .. n /\ i # n
    BY <1>5
  <2>2. QED
    BY <1>1, <1>3, <1>6, <2>1 DEF Counted
<1>11. \A k \in DOMAIN hs : hs[k].at \in 1 .. m /\ hs[k].evaldepth = Base(new, hs[k].at)
  <2>1. \A k \in DOMAIN hs : hs[k].at \in 1 .. n /\ hs[k].at # n
    BY <1>1, <1>3 DEF Counted
  <2>2. \A k \in DOMAIN hs : hs[k].at \in 1 .. m
    BY <1>5, <2>1
  <2>3. QED
    BY <1>7, <2>2 DEF Counted
<1>12. ASSUME NEW j \in 1 .. m, new[j].kind = "throw"
       PROVE  /\ new[j].to.at \in 1 .. j - 1
              /\ new[j].to.evaldepth = Base(new, new[j].to.at)
  <2>1. new[j] = stk[j] /\ j \in 1 .. n
    BY <1>5, <1>6
  <2>2. stk[j].to.at \in 1 .. j - 1 /\ stk[j].to.evaldepth = Base(stk, stk[j].to.at)
    BY <1>3, <1>12, <2>1 DEF Counted
  <2>3. stk[j].to.at \in 1 .. m
    BY <1>5, <2>2
  <2>4. QED
    BY <1>7, <2>1, <2>2, <2>3
<1>13. EvalsFor(new[m], 2)
  BY <1>5, <1>10
<1>14. Depth(new, Len(new)) = d - stk[n].evals
  BY <1>6, <1>8
<1>15. QED
  BY <1>1, <1>2, <1>6, <1>9, <1>10, <1>11, <1>12, <1>13, <1>14 DEF Counted

\* longjmp to the frame at.
LEMMA CountJump ==
  ASSUME NEW stk, NEW hs, NEW d, NEW new, NEW to, Counted(stk, hs, d, 2),
         stk[Len(stk)].kind = "throw", to = stk[Len(stk)].to,
         \A k \in DOMAIN hs : hs[k].at < to.at,
         IsSeq(new), Len(new) = to.at,
         \A i \in 1 .. to.at - 1 : new[i] = stk[i],
         new[to.at].kind = stk[to.at].kind,
         stk[to.at].kind \in Armed,
         new[to.at].evals = IF stk[to.at].kind = "catch" THEN 1 ELSE stk[to.at].evals
  PROVE  Counted(new, hs, to.evaldepth, 1)
<1>1. PICK n : n = Len(stk)
  OBVIOUS
<1>2. n \in Nat \ {0} /\ DOMAIN stk = 1 .. n
  BY <1>1, CountedSize
<1>3. PICK m : m = to.at
  OBVIOUS
<1>4. m \in 1 .. n - 1 /\ to.evaldepth = Base(stk, m)
  BY <1>1, <1>2, <1>3 DEF Counted
<1>5. PICK l : l = m - 1
  OBVIOUS
<1>6. l \in Nat /\ l + 1 = m /\ m \in Nat \ {0}
  BY <1>2, <1>4, <1>5
<1>7. DOMAIN new = 1 .. m /\ Len(new) = m /\ \A i \in 1 .. l : new[i] = stk[i]
  BY <1>3, <1>5, LenProperties DEF IsSeq
<1>8. \A i \in 1 .. l : Base(new, i) = Base(stk, i)
  BY <1>6, <1>7, BaseSame
<1>9. EvalsFor(stk[m], 2)
  <2>1. m \in 1 .. n /\ m # n
    BY <1>2, <1>4
  <2>2. QED
    BY <1>1, <1>2, <2>1 DEF Counted
<1>10. /\ new[m].kind = stk[m].kind /\ stk[m].kind \in Armed
       /\ new[m].evals = IF stk[m].kind = "catch" THEN 1 ELSE stk[m].evals
  BY <1>3
<1>11. EvalsFor(new[m], 1)
  BY <1>9, <1>10 DEF EvalsFor, Armed, Kinds
<1>12. Depth(new, m) = to.evaldepth
  <2>1. Depth(new, l) = Depth(stk, l)
    BY <1>6, <1>7, DepthSame
  <2>2. Depth(new, m) = Depth(stk, l) + new[m].evals
    BY <1>6, <1>11, <2>1, DepthNext DEF EvalsFor
  <2>3. CASE stk[m].kind = "catch"
    BY <1>4, <1>5, <1>10, <2>2, <2>3 DEF Base
  <2>4. CASE stk[m].kind # "catch"
    <3>1. Depth(stk, m) = Depth(stk, l) + stk[m].evals
      BY <1>6, <1>9, DepthNext DEF EvalsFor
    <3>2. QED
      BY <1>4, <1>10, <2>2, <2>4, <3>1 DEF Base
  <2>5. QED
    BY <2>3, <2>4
<1>13. \A i \in 1 .. m : i # m => EvalsFor(new[i], 2)
  <2>1. SUFFICES ASSUME NEW i \in 1 .. m, i # m PROVE EvalsFor(new[i], 2)
    OBVIOUS
  <2>2. i \in 1 .. l /\ i \in 1 .. n /\ i # n
    BY <1>2, <1>4, <1>6, <2>1
  <2>3. EvalsFor(stk[i], 2)
    BY <1>1, <1>2, <2>2 DEF Counted
  <2>4. QED
    BY <1>7, <2>2, <2>3
<1>14. \A k \in DOMAIN hs : hs[k].at \in 1 .. m /\ hs[k].evaldepth = Base(new, hs[k].at)
  <2>1. \A k \in DOMAIN hs : hs[k].at \in 1 .. n /\ hs[k].at < m
    BY <1>2, <1>3 DEF Counted
  <2>2. \A k \in DOMAIN hs : hs[k].at \in 1 .. l /\ hs[k].at \in 1 .. m
    BY <1>2, <1>6, <2>1
  <2>3. QED
    BY <1>8, <2>2 DEF Counted
<1>15. ASSUME NEW j \in 1 .. m, new[j].kind = "throw"
       PROVE  /\ new[j].to.at \in 1 .. j - 1
              /\ new[j].to.evaldepth = Base(new, new[j].to.at)
  <2>1. j # m
    BY <1>10, <1>15 DEF Armed
  <2>2. j \in 1 .. l /\ j \in 1 .. n
    BY <1>2, <1>4, <1>6, <2>1
  <2>3. new[j] = stk[j] /\ stk[j].to.at \in 1 .. j - 1
        /\ stk[j].to.evaldepth = Base(stk, stk[j].to.at)
    BY <1>2, <1>7, <1>15, <2>2 DEF Counted
  <2>4. stk[j].to.at \in 1 .. l
    BY <1>6, <2>2, <2>3
  <2>5. QED
    BY <1>8, <2>3, <2>4
<1>16. new # <<>>
  BY <1>6, <1>7, EmptySeq
<1>17. QED
  BY <1>3, <1>7, <1>11, <1>12, <1>13, <1>14, <1>15, <1>16 DEF Counted

-----------------------------------------------------------------------------
Exact == Counted(stack, handlers, evaldepth, IF mode = "caught" THEN 1 ELSE 2)

LEMMA EvalsIs ==
  ASSUME NEW kind \in Kinds, NEW x, NEW v, NEW e, NEW to, NEW n
  PROVE  /\ Frame(kind, x, v, e, to, n).evals = n /\ Frame(kind, x, v, e, to, n).kind = kind
         /\ Frame(kind, x, v, e, to, n).to = to
         /\ Plain(kind, n).evals = n /\ Plain(kind, n).kind = kind
BY DEF Frame, Plain

LEMMA CountNow ==
  ASSUME IInv, Exact
  PROVE  /\ mode = "run" => Counted(stack, handlers, evaldepth, 2)
         /\ mode = "caught" => Counted(stack, handlers, evaldepth, 1)
         /\ Top = stack[Len(stack)] /\ Height = Len(stack) /\ Return(1) = Front(stack)
         /\ evaldepth \in Nat /\ Len(stack) \in Nat \ {0} /\ DOMAIN stack = 1 .. Len(stack)
         /\ Top.kind \in Kinds
         /\ mode = "run" => EvalsFor(Top, 2)
         /\ mode = "caught" => EvalsFor(Top, 1)
<1>1. PICK c : c = IF mode = "caught" THEN 1 ELSE 2
  OBVIOUS
<1>2. Counted(stack, handlers, evaldepth, c)
  BY <1>1 DEF Exact
<1>3. /\ evaldepth \in Nat /\ EvalsFor(stack[Len(stack)], c)
      /\ Len(stack) \in Nat \ {0} /\ DOMAIN stack = 1 .. Len(stack)
  BY <1>2, CountedSize
<1>4. FrameOK(stack[Len(stack)])
  BY Sizes DEF IInv
<1>5. Top = stack[Len(stack)] /\ Height = Len(stack) /\ Return(1) = Front(stack)
  BY Now
<1>6. QED
  BY <1>1, <1>2, <1>3, <1>4, <1>5 DEF FrameOK

\* A new frame with its handler.
LEMMA CountGrowArmed ==
  ASSUME NEW stk, NEW hs, NEW d, NEW f, NEW h, Counted(stk, hs, d, 2), EvalsFor(f, 2),
         f.kind # "throw", h.at = Len(stk) + 1,
         h.evaldepth = IF f.kind = "catch" THEN d + 1 ELSE d + f.evals
  PROVE  Counted(Append(stk, f), Append(hs, h), d + f.evals, 2)
<1>1. PICK n : n = Len(stk)
  OBVIOUS
<1>2. PICK new : new = Append(stk, f)
  OBVIOUS
<1>3. n \in Nat \ {0} /\ DOMAIN stk = 1 .. n /\ d = Depth(stk, n)
  BY <1>1, CountedSize
<1>4. Len(new) = n + 1 /\ new[n + 1] = f /\ \A i \in 1 .. n : new[i] = stk[i]
  BY <1>1, <1>2, SeqPush DEF Counted
<1>5. Counted(new, hs, d + f.evals, 2)
  BY <1>2, CountGrow
<1>6. d + f.evals = Depth(new, n + 1)
  BY <1>4, <1>5 DEF Counted
<1>7. Depth(new, n) = d
  BY <1>3, <1>4, DepthSame
<1>8. h.evaldepth = Base(new, Len(new))
  BY <1>3, <1>4, <1>6, <1>7 DEF Base
<1>9. \A k \in DOMAIN hs : hs[k].at # Len(new)
  <2>1. \A k \in DOMAIN hs : hs[k].at \in 1 .. n
    BY <1>3 DEF Counted
  <2>2. QED
    BY <1>3, <1>4, <2>1
<1>10. h.at = Len(new)
  BY <1>1, <1>4
<1>11. Counted(new, Append(hs, h), d + f.evals, 2)
  BY <1>5, <1>8, <1>9, <1>10, CountArm
<1>12. QED
  BY <1>2, <1>11

\* throw, whatever called it.
LEMMA CountRaises ==
  ASSUME NEW stk, NEW hs, NEW d, NEW e,
         Counted(stk, hs, d, 2), Raise(stk, hs, e), evaldepth' = d
  PROVE  Exact'
<1>1. CASE mode' = "abort" /\ stack' = stk /\ handlers' = hs
  BY <1>1 DEF Exact
<1>2. CASE /\ hs # <<>> /\ mode' = "run" /\ handlers' = Front(hs)
           /\ stack' = Append(stk, Frame("throw", Zero, NULL, e, Last(hs), 0))
  <2>1. PICK f : f = Frame("throw", Zero, NULL, e, Last(hs), 0)
    OBVIOUS
  <2>2. f.kind = "throw" /\ f.to = Last(hs) /\ f.evals = 0
    BY <2>1, EvalsIs DEF Kinds
  <2>3. EvalsFor(f, 2)
    BY <2>2 DEF EvalsFor, Kinds
  <2>4. /\ Counted(stk, Front(hs), d, 2)
        /\ Last(hs).at \in DOMAIN stk /\ Last(hs).evaldepth = Base(stk, Last(hs).at)
    BY <1>2, CountDisarm
  <2>5. Counted(Append(stk, f), Front(hs), d + f.evals, 2)
    BY <2>2, <2>3, <2>4, CountGrow
  <2>6. d \in Nat
    BY CountedSize
  <2>7. d + f.evals = d
    BY <2>2, <2>6
  <2>8. QED
    BY <1>2, <2>1, <2>5, <2>7 DEF Exact
<1>3. QED
  BY <1>1, <1>2 DEF Raise

\* eval, with a handler of its own or without.
LEMMA CountEnters ==
  ASSUME NEW stk, NEW hs, NEW f, NEW new, NEW h,
         Counted(stk, hs, evaldepth, 2), EnterEval(stk, hs, f, new), mode = "run",
         f.kind \in {"call", "settor", "try"}, f.evals = 1,
         new = hs \/ new = Append(hs, h),
         h.at = Len(stk) + 1, h.evaldepth = evaldepth + 1
  PROVE  Exact'
<1>1. evaldepth' = evaldepth + 1
  BY DEF EnterEval
<1>2. EvalsFor(f, 2)
  BY DEF EvalsFor, Kinds
<1>3. CASE Raise(Append(stk, Plain("dead", 1)), hs, "error")
  <2>1. PICK g : g = Plain("dead", 1)
    OBVIOUS
  <2>2. g.kind = "dead" /\ g.evals = 1
    BY <2>1, EvalsIs DEF Kinds
  <2>3. EvalsFor(g, 2)
    BY <2>2 DEF EvalsFor, Kinds
  <2>4. Counted(Append(stk, g), hs, evaldepth + 1, 2)
    BY <2>2, <2>3, CountGrow
  <2>5. QED
    BY <1>1, <1>3, <2>1, <2>4, CountRaises
<1>4. CASE stack' = Append(stk, f) /\ handlers' = new /\ mode' = mode
  <2>1. Counted(Append(stk, f), hs, evaldepth + 1, 2)
    BY <1>2, CountGrow
  <2>2. Counted(Append(stk, f), Append(hs, h), evaldepth + 1, 2)
    BY <1>2, CountGrowArmed
  <2>3. QED
    BY <1>1, <1>4, <2>1, <2>2 DEF Exact
<1>5. QED
  BY <1>3, <1>4 DEF EnterEval

LEMMA CountCallsSettor ==
  ASSUME NEW stk, NEW hs, NEW x,
         Counted(stk, hs, evaldepth, 2), CallSettor(stk, hs, x), mode = "run"
  PROVE  Exact'
<1>1. PICK at : at = Len(stk) + 1
  OBVIOUS
<1>2. PICK f : f = Frame("settor", x, NULL, NULL, NoHandler, 1)
  OBVIOUS
<1>3. PICK h : h = Handler(at, at, evaldepth + 1)
  OBVIOUS
<1>4. f.kind = "settor" /\ f.evals = 1 /\ h.at = Len(stk) + 1 /\ h.evaldepth = evaldepth + 1
  BY <1>1, <1>2, <1>3, EvalsIs DEF Kinds, Handler
<1>5. PICK new : new = Append(hs, h)
  OBVIOUS
<1>6. EnterEval(stk, hs, f, new)
  BY <1>1, <1>2, <1>3, <1>5 DEF CallSettor
<1>7. QED
  BY <1>4, <1>5, <1>6, CountEnters

\* varpush, or vardef.
LEMMA CountOperates ==
  ASSUME NEW wait \in {"push", "assign"}, NEW go \in {"bind", "store"}, NEW x, NEW v,
         IInv, Exact, mode = "run", WithSettor(stack, handlers, wait, go, x, v)
  PROVE  Exact'
<1>1. Counted(stack, handlers, evaldepth, 2) /\ evaldepth \in Nat
  BY CountNow
<1>2. ASSUME NEW kind \in {wait, go}
      PROVE  Counted(Append(stack, Frame(kind, x, v, NULL, NoHandler, 0)), handlers, evaldepth, 2)
  <2>1. PICK f : f = Frame(kind, x, v, NULL, NoHandler, 0)
    OBVIOUS
  <2>2. f.kind \in {"push", "assign", "bind", "store"} /\ f.evals = 0
    BY <2>1, EvalsIs DEF Kinds
  <2>3. EvalsFor(f, 2)
    BY <2>2 DEF EvalsFor, Kinds
  <2>4. Counted(Append(stack, f), handlers, evaldepth + f.evals, 2)
    BY <1>1, <2>2, <2>3, CountGrow
  <2>5. evaldepth + f.evals = evaldepth
    BY <1>1, <2>2
  <2>6. QED
    BY <2>1, <2>4, <2>5
<1>3. CASE CallSettor(Append(stack, Frame(wait, x, v, NULL, NoHandler, 0)), handlers, x)
  BY <1>2, <1>3, CountCallsSettor
<1>4. CASE /\ stack' = Append(stack, Frame(go, x, v, NULL, NoHandler, 0))
           /\ UNCHANGED <<handlers, evaldepth, mode>>
  BY <1>2, <1>4 DEF Exact
<1>5. QED
  BY <1>3, <1>4 DEF WithSettor

\* varpop begins.
LEMMA CountUnbinds ==
  ASSUME IInv, Exact, mode = "run", StartPop
  PROVE  Exact'
<1>1. Counted(stack, handlers, evaldepth, 2) /\ evaldepth \in Nat /\ Height = Len(stack)
  BY CountNow
<1>2. PICK p : p = Last(pushes)
  OBVIOUS
<1>3. CASE /\ p.name \in Settors
           /\ CallSettor(Append(stack, Frame("pop", p.name, p.defn, NULL, NoHandler, 0)),
                         Append(handlers, Handler(Height + 1, TopPush, evaldepth)), p.name)
  <2>1. PICK f : f = Frame("pop", p.name, p.defn, NULL, NoHandler, 0)
    OBVIOUS
  <2>2. PICK h : h = Handler(Height + 1, TopPush, evaldepth)
    OBVIOUS
  <2>3. /\ f.kind = "pop" /\ f.evals = 0 /\ h.at = Len(stack) + 1
        /\ h.evaldepth = evaldepth /\ evaldepth + f.evals = evaldepth
    BY <1>1, <2>1, <2>2, EvalsIs DEF Kinds, Handler
  <2>4. EvalsFor(f, 2)
    BY <2>3 DEF EvalsFor, Kinds
  <2>5. Counted(Append(stack, f), Append(handlers, h), evaldepth + f.evals, 2)
    BY <1>1, <2>3, <2>4, CountGrowArmed
  <2>6. QED
    BY <1>3, <2>1, <2>2, <2>3, <2>5, CountCallsSettor
<1>4. CASE /\ stack' = Append(stack, Frame("restore", p.name, p.defn, NULL, NoHandler, 0))
           /\ UNCHANGED <<handlers, evaldepth, mode>>
  <2>1. PICK f : f = Frame("restore", p.name, p.defn, NULL, NoHandler, 0)
    OBVIOUS
  <2>2. f.kind = "restore" /\ f.evals = 0 /\ evaldepth + f.evals = evaldepth
    BY <1>1, <2>1, EvalsIs DEF Kinds
  <2>3. EvalsFor(f, 2)
    BY <2>2 DEF EvalsFor, Kinds
  <2>4. Counted(Append(stack, f), handlers, evaldepth + f.evals, 2)
    BY <1>1, <2>2, <2>3, CountGrow
  <2>5. QED
    BY <1>4, <2>1, <2>2, <2>4 DEF Exact
<1>5. QED
  <2>1. CASE p.name \in Settors
    BY <1>2, <1>3, <2>1 DEF StartPop, WithSettor
  <2>2. CASE p.name \notin Settors
    BY <1>2, <1>4, <2>2 DEF StartPop, WithSettor
  <2>3. QED
    BY <2>1, <2>2

\* The top frame is replaced.
LEMMA CountTurn ==
  ASSUME NEW stk, NEW hs, NEW d, NEW c, NEW f, Counted(stk, hs, d, c), Len(stk) # 1,
         \A k \in DOMAIN hs : hs[k].at # Len(stk), EvalsFor(f, 2), f.kind # "throw",
         f.evals = stk[Len(stk)].evals
  PROVE  Counted(Append(Front(stk), f), hs, d, 2)
<1>1. d \in Nat /\ EvalsFor(stk[Len(stk)], c)
  BY CountedSize
<1>2. PICK e : e = stk[Len(stk)].evals
  OBVIOUS
<1>3. f.evals = e /\ e \in 0 .. 2 /\ (d - e) + e = d
  BY <1>1, <1>2 DEF EvalsFor
<1>4. PICK rest : rest = d - e
  OBVIOUS
<1>5. Counted(Front(stk), hs, rest, 2)
  BY <1>2, <1>4, CountDrop
<1>6. Counted(Append(Front(stk), f), hs, rest + f.evals, 2)
  BY <1>5, CountGrow
<1>7. QED
  BY <1>3, <1>4, <1>6

\* Some frames have no handler.
LEMMA Unarmed ==
  ASSUME NEW stk, NEW hs, NEW ps, NEW md, Good(stk, hs, ps, md), NEW i, stk[i].kind \notin Armed
  PROVE  \A k \in DOMAIN hs : hs[k].at # i
BY DEF Good, Handlers, HandlerOK

LEMMA CountCall ==
  ASSUME IInv, Exact, NEW named \in BOOLEAN, Call(named)
  PROVE  Exact'
<1>1. mode = "run" /\ Counted(stack, handlers, evaldepth, 2) /\ Height = Len(stack)
  BY CountNow DEF Call, Running
<1>2. PICK f : f = Frame("call", Zero, NULL, NULL, NoHandler, 1)
  OBVIOUS
<1>3. PICK h : h = Handler(Height + 1, TopPush, evaldepth + 1)
  OBVIOUS
<1>4. f.kind = "call" /\ f.evals = 1 /\ h.at = Len(stack) + 1 /\ h.evaldepth = evaldepth + 1
  BY <1>1, <1>2, <1>3, EvalsIs DEF Kinds, Handler
<1>5. PICK new : new = Append(handlers, h)
  OBVIOUS
<1>6. EnterEval(stack, handlers, f, new)
  BY <1>2, <1>3, <1>5 DEF Call
<1>7. QED
  BY <1>1, <1>4, <1>5, <1>6, CountEnters

LEMMA CountCatch ==
  ASSUME IInv, Exact, Catch
  PROVE  Exact'
<1>1. mode = "run" /\ Counted(stack, handlers, evaldepth, 2)
  BY CountNow DEF Catch, Running
<1>2. PICK f : f = Plain("try", 1)
  OBVIOUS
<1>3. PICK h : h = Handler(Len(stack) + 1, 0, evaldepth + 1)
  OBVIOUS
<1>4. f.kind = "try" /\ f.evals = 1 /\ h.at = Len(stack) + 1 /\ h.evaldepth = evaldepth + 1
  BY <1>2, <1>3, EvalsIs DEF Kinds, Handler
<1>5. EnterEval(stack, handlers, f, handlers)
  BY <1>2 DEF Catch
<1>6. QED
  BY <1>1, <1>4, <1>5, CountEnters

\* CallEnd, LoopEnd, CatchEnd, CatcherEnd.
LEMMA CountEnds ==
  ASSUME IInv, Exact, mode = "run", Top.kind \in {"call", "loop", "catch", "catcher"},
         stack' = Return(1), handlers' = Front(handlers), mode' = mode,
         evaldepth' = evaldepth - Top.evals
  PROVE  Exact'
<1>1. /\ Counted(stack, handlers, evaldepth, 2) /\ Top = stack[Len(stack)]
      /\ Return(1) = Front(stack) /\ Len(stack) \in Nat
  BY CountNow
<1>2. Good(stack, handlers, pushes, "run") /\ Len(stack) # 1
  BY <1>1, Now, Sizes
<1>3. handlers # <<>> /\ Last(handlers).at = Len(stack)
  BY <1>1, <1>2, OwnHandler DEF Armed
<1>4. PICK hs : hs = Front(handlers)
  OBVIOUS
<1>5. Counted(stack, hs, evaldepth, 2) /\ \A k \in DOMAIN hs : hs[k].at < Len(stack)
  BY <1>1, <1>3, <1>4, CountDisarm
<1>6. \A k \in DOMAIN hs : hs[k].at \in DOMAIN stack /\ DOMAIN stack = 1 .. Len(stack)
  BY <1>5, CountedSize DEF Counted
<1>7. \A k \in DOMAIN hs : hs[k].at # Len(stack)
  BY <1>1, <1>5, <1>6
<1>8. Counted(Front(stack), hs, evaldepth - Top.evals, 2)
  BY <1>1, <1>2, <1>5, <1>7, CountDrop
<1>9. QED
  BY <1>1, <1>4, <1>8 DEF Exact

LEMMA CountLoop ==
  ASSUME IInv, Exact, Loop
  PROVE  Exact'
<1>1. mode = "run" /\ Counted(stack, handlers, evaldepth, 2) /\ Height = Len(stack)
      /\ evaldepth \in Nat
  BY CountNow DEF Loop, Running
<1>2. PICK f : f = Plain("loop", 0)
  OBVIOUS
<1>3. PICK h : h = Handler(Height + 1, TopPush, evaldepth)
  OBVIOUS
<1>4. f.kind = "loop" /\ f.evals = 0 /\ h.at = Len(stack) + 1 /\ h.evaldepth = evaldepth
      /\ evaldepth + f.evals = evaldepth
  BY <1>1, <1>2, <1>3, EvalsIs DEF Kinds, Handler
<1>5. EvalsFor(f, 2)
  BY <1>4 DEF EvalsFor, Kinds
<1>6. Counted(Append(stack, f), Append(handlers, h), evaldepth, 2)
  BY <1>1, <1>4, <1>5, CountGrowArmed
<1>7. QED
  BY <1>1, <1>2, <1>3, <1>6 DEF Loop, Exact

LEMMA CountBind ==
  ASSUME IInv, Exact, Bind
  PROVE  Exact'
<1>1. /\ mode = "run" /\ Counted(stack, handlers, evaldepth, 2) /\ Top = stack[Len(stack)]
      /\ Return(1) = Front(stack) /\ Top.kind = "bind" /\ EvalsFor(Top, 2)
  BY CountNow DEF Bind
<1>2. /\ Good(stack, handlers, pushes, "run") /\ Len(stack) # 1
      /\ \A k \in DOMAIN handlers : handlers[k].at # Len(stack)
  <2>1. Good(stack, handlers, pushes, "run") /\ Top.kind \notin Armed \cup {"top"}
    BY <1>1, Now DEF Armed
  <2>2. Len(stack) # 1
    BY <1>1, <2>1, Sizes
  <2>3. \A k \in DOMAIN handlers : handlers[k].at # Len(stack)
    BY <1>1, <2>1, Unarmed
  <2>4. QED
    BY <2>1, <2>2, <2>3
<1>3. PICK f : f = Frame("local", Top.name, NULL, NULL, NoHandler, 0)
  OBVIOUS
<1>4. f.kind = "local" /\ f.evals = 0 /\ Top.evals = 0
  BY <1>1, <1>3, EvalsIs DEF Kinds, EvalsFor
<1>5. EvalsFor(f, 2)
  BY <1>4 DEF EvalsFor, Kinds
<1>6. Counted(Append(Front(stack), f), handlers, evaldepth, 2)
  BY <1>1, <1>2, <1>4, <1>5, CountTurn
<1>7. QED
  BY <1>1, <1>3, <1>6 DEF Bind, Exact

LEMMA CountStore ==
  ASSUME IInv, Exact, Store
  PROVE  Exact'
<1>1. /\ mode = "run" /\ Counted(stack, handlers, evaldepth, 2) /\ Top = stack[Len(stack)]
      /\ Return(1) = Front(stack) /\ Top.kind = "store" /\ EvalsFor(Top, 2)
      /\ evaldepth \in Nat
  BY CountNow DEF Store
<1>2. /\ Good(stack, handlers, pushes, "run") /\ Len(stack) # 1
      /\ \A k \in DOMAIN handlers : handlers[k].at # Len(stack)
  <2>1. Good(stack, handlers, pushes, "run") /\ Top.kind \notin Armed \cup {"top"}
    BY <1>1, Now DEF Armed
  <2>2. Len(stack) # 1
    BY <1>1, <2>1, Sizes
  <2>3. \A k \in DOMAIN handlers : handlers[k].at # Len(stack)
    BY <1>1, <2>1, Unarmed
  <2>4. QED
    BY <2>1, <2>2, <2>3
<1>3. Top.evals = 0 /\ evaldepth - Top.evals = evaldepth
  BY <1>1 DEF EvalsFor, Kinds
<1>4. Counted(Front(stack), handlers, evaldepth, 2)
  BY <1>1, <1>2, <1>3, CountDrop
<1>5. QED
  BY <1>1, <1>4 DEF Store, Exact

\* callsettor returns the value v.
LEMMA CountSettor ==
  ASSUME IInv, Exact, NEW v, NEW hs, Good(stack, hs, pushes, "caught"), NEW c \in {1, 2},
         Counted(stack, hs, evaldepth, c), Top.kind = "settor",
         SettorValue(v), mode' = "run",
         handlers' = IF stack[Height - 1].kind = "pop" THEN Front(hs) ELSE hs
  PROVE  Exact'
<1>1. PICK n : n = Len(stack)
  OBVIOUS
<1>2. PICK front : front = Front(stack)
  OBVIOUS
<1>3. /\ Top = stack[n] /\ Height = n /\ evaldepth \in Nat
      /\ n \in Nat \ {0} /\ DOMAIN stack = 1 .. n
  BY <1>1, CountNow
<1>4. /\ n # 1 /\ stack[n - 1].kind \in {"push", "assign", "pop"} /\ FrameOK(stack[n - 1])
      /\ \A k \in DOMAIN hs : hs[k].at # n
  BY <1>1, <1>3 DEF Good, Frames, Waits, Bare
<1>5. PICK m : m = n - 1
  OBVIOUS
<1>6. m \in Nat \ {0} /\ m \in 1 .. n /\ m # n
  BY <1>3, <1>4, <1>5
<1>7. stack[m].evals = 0
  <2>1. EvalsFor(stack[m], 2)
    BY <1>1, <1>3, <1>6 DEF Counted
  <2>2. QED
    BY <1>4, <1>5, <2>1 DEF EvalsFor, Kinds
<1>8. stack[n].evals = 1
  <2>1. EvalsFor(stack[n], c)
    BY <1>1, CountedSize
  <2>2. QED
    BY <1>3, <2>1 DEF EvalsFor
<1>9. Counted(front, hs, evaldepth - 1, 2)
  BY <1>1, <1>2, <1>4, <1>8, CountDrop
<1>10. Len(front) = m /\ front[m] = stack[m]
  BY <1>1, <1>2, <1>5, <1>6, SeqPop DEF Counted
<1>11. m # 1
  BY <1>4, <1>5 DEF Good, Frames
<1>12. PICK new : new = handlers'
  OBVIOUS
<1>13. Counted(front, new, evaldepth - 1, 2) /\ \A k \in DOMAIN new : new[k].at # m
  <2>1. CASE stack[m].kind = "pop"
    <3>1. new = Front(hs)
      BY <1>3, <1>5, <1>12, <2>1
    <3>2. PICK k \in DOMAIN hs : hs[k].at = m
      <4>1. ~Targeted(stack, m)
        <5>1. \A j \in m + 1 .. n : j = n
          BY <1>3, <1>5
        <5>2. QED
          BY <1>1, <1>3, <5>1 DEF Targeted
      <4>2. m \in DOMAIN stack /\ stack[m].kind \in Armed
        BY <1>3, <1>6, <2>1 DEF Armed
      <4>3. QED
        BY <1>1, <1>6, <4>1, <4>2 DEF Good, Arms
    <3>3. PICK l : l = Len(hs)
      OBVIOUS
    <3>4. l \in Nat /\ DOMAIN hs = 1 .. l
      BY <3>3, CountedSize
    <3>5. hs # <<>>
      BY <3>2, <3>3, <3>4
    <3>6. /\ Counted(front, Front(hs), evaldepth - 1, 2)
          /\ \A i \in DOMAIN Front(hs) : Front(hs)[i].at < Last(hs).at
          /\ Last(hs).at \in DOMAIN front
      BY <1>9, <3>5, CountDisarm
    <3>7. DOMAIN front = 1 .. m /\ Last(hs) = hs[l]
      BY <1>9, <1>10, <3>3, <3>5, CountedSize, SeqPop DEF Counted
    <3>8. Last(hs).at = m
      <4>1. k < l => hs[k].at < hs[l].at
        BY <3>2, <3>4 DEF Counted, Rising
      <4>2. Last(hs).at \in 1 .. m
        BY <3>6, <3>7
      <4>3. QED
        BY <1>6, <3>2, <3>4, <3>7, <4>1, <4>2
    <3>9. \A i \in DOMAIN new : new[i].at # m
      <4>1. \A i \in DOMAIN new : new[i].at < m /\ new[i].at \in 1 .. m
        BY <3>1, <3>6, <3>7, <3>8 DEF Counted
      <4>2. QED
        BY <1>6, <4>1
    <3>10. QED
      BY <3>1, <3>6, <3>9
  <2>2. CASE stack[m].kind # "pop"
    <3>1. new = hs
      BY <1>3, <1>5, <1>12, <2>2
    <3>2. stack[m].kind \notin Armed
      BY <1>4, <1>5, <2>2 DEF Armed
    <3>3. QED
      BY <1>9, <3>1, <3>2, Unarmed
  <2>3. QED
    BY <2>1, <2>2
<1>14. PICK f : f = [stack[n - 1] EXCEPT !.kind = After(stack[n - 1].kind), !.val = v]
  OBVIOUS
<1>15. f.kind = After(stack[n - 1].kind) /\ f.evals = stack[n - 1].evals
  BY <1>4, <1>14 DEF FrameOK
<1>16. f.kind \in {"bind", "store", "restore"} /\ f.evals = 0
  BY <1>4, <1>5, <1>7, <1>15 DEF After
<1>17. EvalsFor(f, 2)
  BY <1>16 DEF EvalsFor, Kinds
<1>18. Counted(Append(Front(front), f), new, evaldepth - 1, 2)
  BY <1>7, <1>10, <1>11, <1>13, <1>16, <1>17, CountTurn
<1>19. Return(2) = Front(front)
  BY <1>1, <1>2, <1>3, <1>4, ReturnIs DEF Counted
<1>20. stack' = Append(Front(front), f) /\ evaldepth' = evaldepth - 1
  BY <1>3, <1>14, <1>19 DEF SettorValue
<1>21. QED
  BY <1>12, <1>18, <1>20 DEF Exact

LEMMA CountSettorEnd ==
  ASSUME IInv, Exact, NEW v, SettorEnd(v)
  PROVE  Exact'
<1>1. /\ Good(stack, handlers, pushes, "run") /\ mode = "run" /\ Top = stack[Len(stack)]
      /\ Top.kind = "settor" /\ Counted(stack, handlers, evaldepth, 2)
  BY Now, CountNow DEF SettorEnd, Running
<1>2. PICK hs : hs = Front(handlers)
  OBVIOUS
<1>3. Good(stack, hs, pushes, "caught")
  BY <1>1, <1>2, Disarm DEF Armed
<1>4. Counted(stack, hs, evaldepth, 2)
  <2>1. handlers # <<>>
    BY <1>1, OwnHandler DEF Armed
  <2>2. QED
    BY <1>1, <1>2, <2>1, CountDisarm
<1>5. handlers' = IF stack[Height - 1].kind = "pop" THEN Front(hs) ELSE hs
  BY <1>2 DEF SettorEnd
<1>6. SettorValue(v) /\ mode' = "run"
  BY <1>1 DEF SettorEnd
<1>7. QED
  BY <1>1, <1>3, <1>4, <1>5, <1>6, CountSettor

LEMMA CountRestore ==
  ASSUME IInv, Exact, Restore
  PROVE  Exact'
<1>1. PICK n : n = Len(stack)
  OBVIOUS
<1>2. PICK front : front = Front(stack)
  OBVIOUS
<1>3. /\ Good(stack, handlers, pushes, "run") /\ mode = "run" /\ Top = stack[n]
      /\ Return(1) = front /\ Top.kind = "restore" /\ Height = n /\ evaldepth \in Nat
      /\ Counted(stack, handlers, evaldepth, 2) /\ EvalsFor(stack[n], 2)
      /\ n \in Nat \ {0} /\ DOMAIN stack = 1 .. n /\ n # 1
  BY <1>1, <1>2, Now, CountNow, Sizes DEF Restore
<1>4. stack[n].evals = 0 /\ evaldepth - stack[n].evals = evaldepth
  BY <1>3 DEF EvalsFor, Kinds
<1>5. \A k \in DOMAIN handlers : handlers[k].at # n
  BY <1>3, Unarmed DEF Armed
<1>6. Counted(front, handlers, evaldepth, 2)
  BY <1>1, <1>2, <1>3, <1>4, <1>5, CountDrop
<1>7. evaldepth' = evaldepth
  BY DEF Restore
<1>8. CASE Raise(Return(1), handlers, Top.exc)
  BY <1>3, <1>6, <1>7, <1>8, CountRaises
<1>9. CASE /\ stack' = IF stack[Height - 1].kind = "local" THEN Return(2) ELSE Return(1)
           /\ UNCHANGED <<handlers, mode>>
  <2>1. CASE stack[n - 1].kind = "local"
    <3>1. PICK m : m = n - 1
      OBVIOUS
    <3>2. m \in Nat \ {0} /\ m \in 1 .. n /\ m # n
      BY <1>3, <3>1
    <3>3. Len(front) = m /\ front[m] = stack[m]
      BY <1>1, <1>2, <3>1, <3>2, <1>3, SeqPop DEF Counted
    <3>4. m # 1 /\ \A k \in DOMAIN handlers : handlers[k].at # m
      BY <1>3, <2>1, <3>1, Unarmed DEF Good, Frames, Armed
    <3>5. EvalsFor(front[m], 2)
      BY <1>6, <3>3, CountedSize
    <3>6. front[m].evals = 0 /\ evaldepth - front[m].evals = evaldepth
      BY <1>3, <2>1, <3>1, <3>3, <3>5 DEF EvalsFor, Kinds
    <3>7. Counted(Front(front), handlers, evaldepth, 2)
      BY <1>6, <3>3, <3>4, <3>6, CountDrop
    <3>8. Return(2) = Front(front)
      BY <1>1, <1>2, <1>3, ReturnIs DEF Counted
    <3>9. QED
      BY <1>3, <1>7, <1>9, <2>1, <3>7, <3>8 DEF Exact
  <2>2. CASE stack[n - 1].kind # "local"
    BY <1>3, <1>6, <1>7, <1>9, <2>2 DEF Exact
  <2>3. QED
    BY <2>1, <2>2
<1>10. QED
  BY <1>8, <1>9 DEF Restore

LEMMA CountCatchBody ==
  ASSUME IInv, Exact, CatchBody
  PROVE  Exact'
<1>1. PICK n : n = Len(stack)
  OBVIOUS
<1>2. PICK front : front = Front(stack)
  OBVIOUS
<1>3. /\ Good(stack, handlers, pushes, "run") /\ mode = "run" /\ Top = stack[n]
      /\ Return(1) = front /\ Top.kind = "try" /\ Height = n /\ evaldepth \in Nat
      /\ Counted(stack, handlers, evaldepth, 2) /\ EvalsFor(stack[n], 2)
      /\ n \in Nat \ {0} /\ n # 1
  BY <1>1, <1>2, Now, CountNow, Sizes DEF CatchBody
<1>4. \A k \in DOMAIN handlers : handlers[k].at # n
  BY <1>3, Unarmed DEF Armed
<1>5. PICK d : d = evaldepth - 1
  OBVIOUS
<1>6. Counted(front, handlers, d, 2)
  BY <1>1, <1>2, <1>3, <1>4, <1>5, CountDrop DEF EvalsFor
<1>7. Len(front) + 1 = n
  BY <1>1, <1>2, <1>3, SeqPop DEF Counted
<1>8. PICK f : f = Plain("catch", 2)
  OBVIOUS
<1>9. PICK h : h = Handler(Height, TopPush, evaldepth)
  OBVIOUS
<1>10. /\ f.kind = "catch" /\ f.evals = 2 /\ h.at = Len(front) + 1
       /\ h.evaldepth = d + 1 /\ d + f.evals = evaldepth + 1
  BY <1>3, <1>5, <1>7, <1>8, <1>9, EvalsIs DEF Kinds, Handler
<1>11. EvalsFor(f, 2)
  BY <1>10 DEF EvalsFor, Kinds
<1>12. PICK stk : stk = Append(front, f)
  OBVIOUS
<1>13. PICK hs : hs = Append(handlers, h)
  OBVIOUS
<1>14. Counted(stk, hs, evaldepth + 1, 2)
  BY <1>6, <1>10, <1>11, <1>12, <1>13, CountGrowArmed
<1>15. /\ Raise(stk, hs, "error") \/ (stack' = stk /\ handlers' = hs /\ mode' = mode)
       /\ evaldepth' = evaldepth + 1
  BY <1>3, <1>8, <1>9, <1>12, <1>13 DEF CatchBody
<1>16. QED
  BY <1>3, <1>14, <1>15, CountRaises DEF Exact

LEMMA CountJumps ==
  ASSUME IInv, Exact, Jump
  PROVE  Exact'
<1>1. PICK n : n = Len(stack)
  OBVIOUS
<1>2. PICK to : to = Top.to
  OBVIOUS
<1>3. PICK m : m = to.at
  OBVIOUS
<1>4. /\ Good(stack, handlers, pushes, "run") /\ mode = "run" /\ Top = stack[n]
      /\ Top.kind = "throw" /\ Counted(stack, handlers, evaldepth, 2)
      /\ n \in Nat \ {0} /\ DOMAIN stack = 1 .. n
  BY <1>1, Now, CountNow DEF Jump
<1>5. ThrowOK(stack, handlers, pushes, n)
  BY <1>4 DEF Good, Throws
<1>6. m \in 1 .. n - 1 /\ stack[m].kind \in Armed
  BY <1>2, <1>3, <1>4, <1>5 DEF ThrowOK, HandlerOK
<1>7. \A k \in DOMAIN handlers : handlers[k].at < m
  <2>1. \A k \in DOMAIN handlers : handlers[k].at \in 1 .. n
    BY <1>4 DEF Counted
  <2>2. \A k \in DOMAIN handlers : ~(m <= handlers[k].at /\ handlers[k].at <= n)
    BY <1>2, <1>3, <1>4, <1>5 DEF ThrowOK
  <2>3. QED
    BY <1>4, <1>6, <2>1, <2>2
<1>8. PICK new : new = [i \in 1 .. m |->
                 IF i = m /\ stack[i].kind = "catch" THEN [stack[i] EXCEPT !.evals = 1]
                                                     ELSE stack[i]]
  OBVIOUS
<1>9. m \in Nat \ {0} /\ m \in 1 .. n /\ m \in 1 .. m
  BY <1>4, <1>6
<1>10. /\ DOMAIN new = 1 .. m /\ \A i \in 1 .. m - 1 : new[i] = stack[i]
       /\ new[m] = IF stack[m].kind = "catch" THEN [stack[m] EXCEPT !.evals = 1] ELSE stack[m]
  BY <1>8, <1>9
<1>11. IsSeq(new) /\ Len(new) = m
  <2>1. new \in [1 .. m -> {new[i] : i \in 1 .. m}]
    BY <1>8
  <2>2. new \in Seq({new[i] : i \in 1 .. m})
    BY <1>9, <2>1, SeqDef
  <2>3. Len(new) = m
    BY <1>9, <1>10, <2>2, LenProperties
  <2>4. QED
    BY <2>2, <2>3 DEF IsSeq
<1>12. /\ new[m].kind = stack[m].kind
       /\ new[m].evals = IF stack[m].kind = "catch" THEN 1 ELSE stack[m].evals
  <2>1. FrameOK(stack[m])
    BY <1>4, <1>9 DEF Good, Frames
  <2>2. QED
    BY <1>10, <2>1 DEF FrameOK
<1>13. Counted(new, handlers, to.evaldepth, 1)
  <2>1. stack[Len(stack)].kind = "throw" /\ to = stack[Len(stack)].to
    BY <1>1, <1>2, <1>4
  <2>2. /\ \A k \in DOMAIN handlers : handlers[k].at < to.at
        /\ IsSeq(new) /\ Len(new) = to.at
        /\ \A i \in 1 .. to.at - 1 : new[i] = stack[i]
    BY <1>3, <1>7, <1>10, <1>11
  <2>3. /\ new[to.at].kind = stack[to.at].kind /\ stack[to.at].kind \in Armed
        /\ new[to.at].evals = IF stack[to.at].kind = "catch" THEN 1 ELSE stack[to.at].evals
    BY <1>3, <1>6, <1>12
  <2>4. QED
    BY <1>4, <2>1, <2>2, <2>3, CountJump
<1>14. stack' = new /\ mode' = "caught" /\ handlers' = handlers /\ evaldepth' = to.evaldepth
  BY <1>2, <1>3, <1>8 DEF Jump
<1>15. QED
  BY <1>13, <1>14 DEF Exact

\* A handler throws on.
LEMMA CountRethrows ==
  ASSUME IInv, Exact, mode = "caught", Rethrow, evaldepth' = evaldepth,
         Top.kind \in {"call", "loop", "catcher", "settor"}
  PROVE  Exact'
<1>1. /\ Good(stack, handlers, pushes, "caught") /\ Top = stack[Len(stack)]
      /\ Return(1) = Front(stack) /\ Counted(stack, handlers, evaldepth, 1) /\ EvalsFor(Top, 1)
  BY Now, CountNow
<1>2. PICK f : f = [Top EXCEPT !.kind = "dead"]
  OBVIOUS
<1>3. FrameOK(Top) /\ Len(stack) # 1
  BY <1>1, Sizes
<1>4. f.kind = "dead" /\ f.evals = Top.evals
  BY <1>2, <1>3 DEF FrameOK
<1>5. EvalsFor(f, 2)
  BY <1>1, <1>4 DEF EvalsFor, Kinds
<1>6. \A k \in DOMAIN handlers : handlers[k].at # Len(stack)
  BY <1>1 DEF Good, Bare
<1>7. Counted(Append(Front(stack), f), handlers, evaldepth, 2)
  BY <1>1, <1>3, <1>4, <1>5, <1>6, CountTurn
<1>8. Raise(Append(Front(stack), f), handlers, exception)
  BY <1>1, <1>2 DEF Rethrow
<1>9. QED
  BY <1>7, <1>8, CountRaises

\* The frame that catches the exception returns.
LEMMA CountReturns ==
  ASSUME IInv, Exact, mode = "caught", mode' = "run", Top.kind \in {"call", "loop"},
         stack' = Return(1), UNCHANGED handlers, evaldepth' = evaldepth - Top.evals
  PROVE  Exact'
<1>1. /\ Good(stack, handlers, pushes, "caught") /\ Top = stack[Len(stack)]
      /\ Return(1) = Front(stack) /\ Counted(stack, handlers, evaldepth, 1)
  BY Now, CountNow
<1>2. Len(stack) # 1 /\ \A k \in DOMAIN handlers : handlers[k].at # Len(stack)
  BY <1>1, Sizes DEF Good, Bare
<1>3. Counted(Front(stack), handlers, evaldepth - Top.evals, 2)
  BY <1>1, <1>2, CountDrop
<1>4. QED
  BY <1>1, <1>3 DEF Exact

\* It goes on in another way: f is its frame now.
LEMMA CountTurns ==
  ASSUME IInv, Exact, mode = "caught", NEW f, f.evals = Top.evals,
         Top.kind # "top", EvalsFor(f, 2), f.kind # "throw"
  PROVE  /\ Counted(Append(Return(1), f), handlers, evaldepth, 2)
         /\ mode' = "run" /\ stack' = Append(Return(1), f) /\ UNCHANGED <<handlers, evaldepth>>
            => Exact'
<1>1. /\ Good(stack, handlers, pushes, "caught") /\ Top = stack[Len(stack)]
      /\ Return(1) = Front(stack) /\ Counted(stack, handlers, evaldepth, 1)
  BY Now, CountNow
<1>2. Len(stack) # 1 /\ \A k \in DOMAIN handlers : handlers[k].at # Len(stack)
  BY <1>1, Sizes DEF Good, Bare
<1>3. Counted(Append(Return(1), f), handlers, evaldepth, 2)
  BY <1>1, <1>2, CountTurn
<1>4. QED
  BY <1>3 DEF Exact

LEMMA CountCallCaught ==
  ASSUME IInv, Exact, CallCaught
  PROVE  Exact'
<1>1. mode = "caught" /\ Top.kind = "call" /\ Top.evals = 1
  BY CountNow DEF CallCaught, Caught, EvalsFor
<1>2. CASE exception = "return"
  BY <1>1, <1>2, CountReturns DEF CallCaught
<1>3. CASE exception # "return"
  BY <1>1, <1>3, CountRethrows DEF CallCaught
<1>4. QED
  BY <1>2, <1>3

LEMMA CountLoopCaught ==
  ASSUME IInv, Exact, LoopCaught
  PROVE  Exact'
<1>1. mode = "caught" /\ Top.kind = "loop" /\ evaldepth' = evaldepth
  BY DEF LoopCaught, Caught
<1>2. Top.evals = 0 /\ evaldepth - Top.evals = evaldepth
  <2>1. evaldepth \in Nat /\ EvalsFor(Top, 1)
    BY <1>1, CountNow
  <2>2. QED
    BY <1>1, <2>1 DEF EvalsFor, Kinds
<1>3. CASE exception = "break"
  BY <1>1, <1>2, <1>3, CountReturns DEF LoopCaught
<1>4. CASE exception # "break"
  BY <1>1, <1>4, CountRethrows DEF LoopCaught
<1>5. QED
  BY <1>3, <1>4

LEMMA CountSettorCaught ==
  ASSUME IInv, Exact, SettorCaught
  PROVE  Exact'
<1>1. /\ Good(stack, handlers, pushes, "caught") /\ mode = "caught" /\ Top.kind = "settor"
      /\ Counted(stack, handlers, evaldepth, 1)
  BY Now, CountNow DEF SettorCaught, Caught
<1>2. CASE exception = "return"
  <2>1. PICK v \in Value \cup {NULL} : SettorValue(v)
    BY <1>2 DEF SettorCaught
  <2>2. /\ handlers' = IF stack[Height - 1].kind = "pop" THEN Front(handlers) ELSE handlers
        /\ mode' = "run"
    BY <1>2 DEF SettorCaught
  <2>3. QED
    BY <1>1, <2>1, <2>2, CountSettor
<1>3. CASE exception # "return"
  BY <1>1, <1>3, CountRethrows DEF SettorCaught
<1>4. QED
  BY <1>2, <1>3

LEMMA CountPopCaught ==
  ASSUME IInv, Exact, PopCaught
  PROVE  Exact'
<1>1. mode = "caught" /\ Top.kind = "pop" /\ Top = stack[Len(stack)]
  BY Now DEF PopCaught, Caught
<1>2. PICK f : f = [Top EXCEPT !.kind = "restore", !.exc = exception]
  OBVIOUS
<1>3. FrameOK(Top)
  BY <1>1, Sizes DEF IInv
<1>4. f.kind = "restore" /\ f.evals = Top.evals
  BY <1>2, <1>3 DEF FrameOK
<1>5. EvalsFor(Top, 1)
  BY <1>1, CountNow
<1>6. EvalsFor(f, 2)
  BY <1>1, <1>4, <1>5 DEF EvalsFor, Kinds
<1>7. QED
  BY <1>1, <1>2, <1>4, <1>6, CountTurns DEF PopCaught

\* The catcher starts, in place of the body.
LEMMA CountCatchCaught ==
  ASSUME IInv, Exact, CatchCaught
  PROVE  Exact'
<1>1. PICK n : n = Len(stack)
  OBVIOUS
<1>2. /\ mode = "caught" /\ Top.kind = "catch" /\ Height = n /\ EvalsFor(Top, 1)
      /\ Return(1) = Front(stack) /\ Good(stack, handlers, pushes, "caught")
      /\ n \in Nat \ {0} /\ IsSeq(stack) /\ stack # <<>>
  BY <1>1, Now, CountNow DEF CatchCaught, Caught, Good, Frames
<1>3. PICK f : f = Plain("catcher", 1)
  OBVIOUS
<1>4. f.kind = "catcher" /\ f.evals = 1 /\ Top.evals = 1
  BY <1>2, <1>3, EvalsIs DEF Kinds, EvalsFor
<1>5. EvalsFor(f, 2)
  BY <1>4 DEF EvalsFor, Kinds
<1>6. PICK new : new = Append(Return(1), f)
  OBVIOUS
<1>7. Counted(new, handlers, evaldepth, 2)
  BY <1>2, <1>4, <1>5, <1>6, CountTurns
<1>8. Len(new) = n /\ new[n] = f
  BY <1>1, <1>2, <1>6, SeqChange
<1>9. PICK h : h = Handler(Height, TopPush, evaldepth)
  OBVIOUS
<1>10. h.at = Len(new) /\ h.evaldepth = evaldepth
  BY <1>2, <1>8, <1>9 DEF Handler
<1>11. Base(new, Len(new)) = evaldepth
  BY <1>4, <1>7, <1>8 DEF Base, Counted
<1>12. \A k \in DOMAIN handlers : handlers[k].at # Len(new)
  BY <1>1, <1>2, <1>8 DEF Good, Bare
<1>13. Counted(new, Append(handlers, h), evaldepth, 2)
  BY <1>7, <1>10, <1>11, <1>12, CountArm
<1>14. QED
  BY <1>3, <1>6, <1>9, <1>13 DEF CatchCaught, Exact

LEMMA CountCatcherCaught ==
  ASSUME IInv, Exact, CatcherCaught
  PROVE  Exact'
<1>1. mode = "caught" /\ Top.kind = "catcher" /\ EvalsFor(Top, 1) /\ evaldepth' = evaldepth
  BY CountNow DEF CatcherCaught, Caught
<1>2. CASE exception = "retry"
  <2>1. PICK f : f = Plain("try", 1)
    OBVIOUS
  <2>2. f.kind = "try" /\ f.evals = 1 /\ Top.evals = 1
    BY <1>1, <2>1, EvalsIs DEF Kinds, EvalsFor
  <2>3. EvalsFor(f, 2)
    BY <2>2 DEF EvalsFor, Kinds
  <2>4. QED
    BY <1>1, <1>2, <2>1, <2>2, <2>3, CountTurns DEF CatcherCaught
<1>3. CASE exception # "retry"
  BY <1>1, <1>3, CountRethrows DEF CatcherCaught
<1>4. QED
  BY <1>2, <1>3

LEMMA CountTopCaught ==
  ASSUME IInv, Exact, TopCaught
  PROVE  Exact'
<1>1. /\ mode = "caught" /\ Top.kind = "top" /\ mode' = "exit" /\ Top = stack[Len(stack)]
      /\ Counted(stack, handlers, evaldepth, 1)
  BY CountNow DEF TopCaught, Caught
<1>2. EvalsFor(stack[Len(stack)], 2)
  BY <1>1 DEF Counted, EvalsFor
<1>3. Counted(stack, handlers, evaldepth, 2)
  BY <1>1, <1>2 DEF Counted
<1>4. QED
  BY <1>1, <1>3 DEF TopCaught, Exact

LEMMA InitExact ==
  ASSUME Init
  PROVE  Exact
<1>1. PICK f : f = Plain("top", 0)
  OBVIOUS
<1>2. PICK h : h = Handler(1, 0, 0)
  OBVIOUS
<1>3. f.kind = "top" /\ f.evals = 0 /\ h.at = 1 /\ h.evaldepth = 0
  BY <1>1, <1>2, EvalsIs DEF Kinds, Handler
<1>4. stack = <<f>> /\ handlers = <<h>> /\ evaldepth = 0 /\ mode = "run"
  BY <1>1, <1>2 DEF Init
<1>5. /\ IsSeq(stack) /\ stack # <<>> /\ Len(stack) = 1 /\ DOMAIN stack = {1} /\ stack[1] = f
  BY <1>4, SeqOne
<1>6. IsSeq(handlers) /\ DOMAIN handlers = {1} /\ handlers[1] = h
  BY <1>4, SeqOne
<1>7. EvalsFor(f, 2)
  BY <1>3 DEF EvalsFor, Kinds
<1>8. Depth(stack, 1) = 0
  <2>1. Depth(stack, 0) = 0 /\ stack[0 + 1].evals = 0
    BY <1>3, <1>5, DepthZero
  <2>2. Depth(stack, 0 + 1) = Depth(stack, 0) + stack[0 + 1].evals
    BY <2>1, DepthNext
  <2>3. QED
    BY <2>1, <2>2
<1>9. Base(stack, 1) = 0
  BY <1>3, <1>5, <1>8 DEF Base
<1>10. Rising(handlers)
  BY <1>6 DEF Rising
<1>11. Counted(stack, handlers, 0, 2)
  BY <1>3, <1>5, <1>6, <1>7, <1>8, <1>9, <1>10 DEF Counted
<1>12. QED
  BY <1>4, <1>11 DEF Exact

LEMMA NextExact ==
  ASSUME IInv, Exact, [Next]_uvars
  PROVE  Exact'
<1>1. ASSUME NEW named \in BOOLEAN, Call(named) PROVE Exact'
  BY <1>1, CountCall
<1>2. ASSUME NEW x, NEW v, Local(x, v) \/ Assign(x, v) PROVE Exact'
  BY <1>2, CountOperates DEF Local, Assign, Running
<1>3. ASSUME NEW e, Throw(e) PROVE Exact'
  <2>1. /\ Counted(stack, handlers, evaldepth, 2) /\ Raise(stack, handlers, e)
        /\ evaldepth' = evaldepth
    BY <1>3, CountNow DEF Throw, Running
  <2>2. QED
    BY <2>1, CountRaises
<1>4. ASSUME NEW v, SettorEnd(v) PROVE Exact'
  BY <1>4, CountSettorEnd
<1>5. CASE Loop
  BY <1>5, CountLoop
<1>6. CASE Catch
  BY <1>6, CountCatch
<1>7. CASE CallEnd \/ LoopEnd \/ CatchEnd \/ CatcherEnd
  <2>1. mode = "run" /\ EvalsFor(Top, 2) /\ evaldepth \in Nat
    BY <1>7, CountNow DEF CallEnd, LoopEnd, CatchEnd, CatcherEnd, Running
  <2>2. evaldepth' = evaldepth - Top.evals
    BY <1>7, <2>1 DEF CallEnd, LoopEnd, CatchEnd, CatcherEnd, EvalsFor, Kinds
  <2>3. QED
    BY <1>7, <2>1, <2>2, CountEnds DEF CallEnd, LoopEnd, CatchEnd, CatcherEnd
<1>8. CASE LocalEnd
  BY <1>8, CountUnbinds DEF LocalEnd, Running
<1>9. CASE Bind
  BY <1>9, CountBind
<1>10. CASE Store
  BY <1>10, CountStore
<1>11. CASE Restore
  BY <1>11, CountRestore
<1>12. CASE CatchBody
  BY <1>12, CountCatchBody
<1>13. CASE UnwindPush
  BY <1>13, CountUnbinds DEF UnwindPush
<1>14. CASE Jump
  BY <1>14, CountJumps
<1>15. CASE CallCaught
  BY <1>15, CountCallCaught
<1>16. CASE SettorCaught
  BY <1>16, CountSettorCaught
<1>17. CASE LoopCaught
  BY <1>17, CountLoopCaught
<1>18. CASE PopCaught
  BY <1>18, CountPopCaught
<1>19. CASE CatchCaught
  BY <1>19, CountCatchCaught
<1>20. CASE CatcherCaught
  BY <1>20, CountCatcherCaught
<1>21. CASE TopCaught
  BY <1>21, CountTopCaught
<1>22. CASE UNCHANGED uvars
  BY <1>22 DEF uvars, Exact
<1>23. QED
  BY <1>1, <1>2, <1>3, <1>4, <1>5, <1>6, <1>7, <1>8, <1>9, <1>10, <1>11, <1>12, <1>13,
     <1>14, <1>15, <1>16, <1>17, <1>18, <1>19, <1>20, <1>21, <1>22
     DEF Next, Program, Machinery, Ended

\* After any nest of calls, catches, throws and settors, evaldepth is the number of
\* evals entered and not left: the handlers put back what eval had counted when
\* they were made, less the evals that the jump leaves.
THEOREM DepthExact == Spec => []EvalDepthExact
<1>1. Init => IInv /\ Exact
  BY InitInv, InitExact
<1>2. IInv /\ Exact /\ [Next]_uvars => (IInv /\ Exact)'
  BY NextInv, NextExact
<1>3. Exact => EvalDepthExact
  BY DEF Exact, Counted, EvalDepthExact, Depth, Height
<1>4. QED
  BY <1>1, <1>2, <1>3, PTL DEF Spec

-----------------------------------------------------------------------------
(***************************************************************************)
(* Where no settor fails, a jump leaves nothing else behind either: the    *)
(* roots that throw registered with the collector are those of the throws  *)
(* in progress, signals are blocked once for each catcher that runs, and   *)
(* each exception reaches the innermost handler, so that throw's assertion *)
(* holds (NothingLeft, InnermostCatches).                                  *)
(*                                                                         *)
(* The invariant says what the stack is like then: what may be above a     *)
(* throw or an operation that waits for its settor, that no armed frame is *)
(* between a throw and its handler, and that an exception other than       *)
(* return has a catch to go to before it would come to such an operation.  *)
(* A new throw finds the innermost handler because the topmost armed frame *)
(* has its own: a throw on its way to it would be under a varpop, which is *)
(* armed itself.                                                           *)
(***************************************************************************)

\* What g may be above a frame f.
Above(f, g) ==
  /\ f.kind \notin {"try", "restore", "bind", "store"}
  /\ f.kind = "throw" => g.kind \in {"pop", "restore"}
  /\ f.kind \in Waiting => g.kind = "settor"

\* An exception raised in frame n that is no return is caught before it comes
\* to a frame that waits for a settor.
Covered(stk, n) ==
  \A i \in 1 .. n : stk[i].kind \in Waiting => \E l \in i .. n : stk[l].kind = "catch"

\* The throw of frame j goes to the innermost armed frame.
Innermost(stk, j) ==
  /\ \A l \in 1 .. j : stk[j].to.at < l => stk[l].kind \notin Armed
  /\ stk[j].exc # "return" => Covered(stk, j)

\* A stack in which no settor has failed.
Calm(stk) ==
  /\ IsSeq(stk) /\ stk # <<>>
  /\ \A i \in DOMAIN stk : i # 1 => Above(stk[i - 1], stk[i])
  /\ \A i \in DOMAIN stk : stk[i].kind \in {"pop", "restore"} => stk[i].exc = NULL
  /\ \A j \in DOMAIN stk : stk[j].kind = "throw" => Innermost(stk, j)

\* The frames of a kind.
Of(stk, kind) == {i \in 1 .. Len(stk) : stk[i].kind = kind}

\* The roots are those of the throws in progress.
Rooted(stk, rs) ==
  /\ IsSeq(rs)
  /\ \A i, j \in DOMAIN rs : i < j => rs[i] < rs[j]
  /\ {rs[i] : i \in DOMAIN rs} = Of(stk, "throw")

\* All of it, with the roots rs and the count b of blocked.
Still(stk, rs, b, settors) ==
  /\ Calm(stk)
  /\ stk[Len(stk)].kind \notin Waiting
  /\ settors = {} => \A i \in DOMAIN stk : stk[i].kind \notin Waiting
  /\ Rooted(stk, rs)
  /\ b = Cardinality(Of(stk, "catcher"))

LEMMA CalmSize ==
  ASSUME NEW stk, Calm(stk)
  PROVE  Len(stk) \in Nat \ {0} /\ DOMAIN stk = 1 .. Len(stk)
BY EmptySeq, LenProperties DEF Calm, IsSeq

\* All but the top of new is as in stk.
LEMMA CalmTop ==
  ASSUME NEW stk, NEW new, NEW m, Calm(stk), IsSeq(new), Len(new) = m,
         m \in 1 .. Len(stk) + 1, \A i \in 1 .. m - 1 : new[i] = stk[i],
         m # 1 => Above(stk[m - 1], new[m]),
         new[m].kind \in {"pop", "restore"} => new[m].exc = NULL,
         new[m].kind = "throw" =>
           /\ \A l \in 1 .. m - 1 : new[m].to.at < l => stk[l].kind \notin Armed
           /\ new[m].exc # "return" => Covered(stk, m - 1)
  PROVE  Calm(new)
<1>1. PICK n : n = Len(stk)
  OBVIOUS
<1>2. n \in Nat \ {0} /\ DOMAIN stk = 1 .. n
  BY <1>1, CalmSize
<1>3. m \in Nat \ {0} /\ DOMAIN new = 1 .. m /\ new # <<>> /\ m \in 1 .. n + 1
  BY <1>1, <1>2, EmptySeq, LenProperties DEF IsSeq
<1>4. \A i \in 1 .. m - 1 : i \in 1 .. n /\ new[i] = stk[i]
  BY <1>2, <1>3
<1>5. \A i \in 1 .. m : i = m \/ i \in 1 .. m - 1
  BY <1>3
<1>6. \A i \in 1 .. m : i # 1 => Above(new[i - 1], new[i])
  <2>1. SUFFICES ASSUME NEW i \in 1 .. m, i # 1 PROVE Above(new[i - 1], new[i])
    OBVIOUS
  <2>2. i - 1 \in 1 .. m - 1
    BY <1>3, <2>1
  <2>3. new[i - 1] = stk[i - 1]
    BY <1>4, <2>2
  <2>4. CASE i = m
    BY <2>1, <2>3, <2>4
  <2>5. CASE i \in 1 .. m - 1
    BY <1>2, <1>4, <2>1, <2>3, <2>5 DEF Calm
  <2>6. QED
    BY <1>5, <2>4, <2>5
<1>7. \A i \in 1 .. m : new[i].kind \in {"pop", "restore"} => new[i].exc = NULL
  BY <1>2, <1>4, <1>5 DEF Calm
<1>8. ASSUME NEW j \in 1 .. m - 1 PROVE Covered(new, j) <=> Covered(stk, j)
  <2>1. \A i \in 1 .. j : new[i] = stk[i] /\ \A l \in i .. j : new[l] = stk[l]
    BY <1>3, <1>4
  <2>2. QED
    BY <2>1 DEF Covered
<1>9. ASSUME NEW j \in 1 .. m, new[j].kind = "throw" PROVE Innermost(new, j)
  <2>1. CASE j = m
    <3>1. \A l \in 1 .. m : new[m].to.at < l => new[l].kind \notin Armed
      BY <1>4, <1>5, <1>9, <2>1 DEF Armed
    <3>2. ASSUME Covered(stk, m - 1) PROVE Covered(new, m)
      <4>1. SUFFICES ASSUME NEW i \in 1 .. m, new[i].kind \in Waiting
                     PROVE  \E l \in i .. m : new[l].kind = "catch"
        BY DEF Covered
      <4>2. i \in 1 .. m - 1 /\ stk[i].kind \in Waiting
        BY <1>4, <1>5, <1>9, <2>1, <4>1 DEF Waiting
      <4>3. PICK l \in i .. m - 1 : stk[l].kind = "catch"
        BY <3>2, <4>2 DEF Covered
      <4>4. l \in i .. m /\ l \in 1 .. m - 1
        BY <1>3, <4>2
      <4>5. QED
        BY <1>4, <4>3, <4>4
    <3>3. QED
      BY <1>9, <2>1, <3>1, <3>2 DEF Innermost
  <2>2. CASE j \in 1 .. m - 1
    <3>1. Innermost(stk, j) /\ new[j] = stk[j]
      BY <1>2, <1>4, <1>9, <2>2 DEF Calm
    <3>2. \A l \in 1 .. j : new[l] = stk[l]
      BY <1>3, <1>4, <2>2
    <3>3. QED
      BY <1>8, <2>2, <3>1, <3>2 DEF Innermost
  <2>3. QED
    BY <1>5, <1>9, <2>1, <2>2
<1>10. QED
  BY <1>3, <1>6, <1>7, <1>9 DEF Calm

LEMMA OfFinite ==
  ASSUME NEW stk, Len(stk) \in Nat, NEW kind
  PROVE  IsFiniteSet(Of(stk, kind)) /\ Cardinality(Of(stk, kind)) \in Nat
<1>1. IsFiniteSet(1 .. Len(stk))
  <2>1. 1 \in Int /\ Len(stk) \in Int
    OBVIOUS
  <2>2. QED
    BY ONLY <2>1, FS_Interval
<1>2. Of(stk, kind) \in SUBSET (1 .. Len(stk))
  BY DEF Of
<1>3. IsFiniteSet(Of(stk, kind))
  BY <1>1, <1>2, FS_Subset
<1>4. QED
  BY <1>3, FS_CardinalityType

\* new has m frames, those of stk but for the last one.
Retops(stk, new, m) ==
  /\ Len(stk) \in Nat /\ Len(new) = m /\ m \in 1 .. Len(stk) + 1
  /\ \A i \in 1 .. m - 1 : new[i] = stk[i]

\* A new top, for frames that are not of the kind.
LEMMA OfTop ==
  ASSUME NEW stk, NEW new, NEW m, NEW kind, Retops(stk, new, m),
         Of(stk, kind) \subseteq 1 .. m - 1
  PROVE  /\ m \notin Of(new, kind) => Of(new, kind) = Of(stk, kind)
         /\ m \in Of(new, kind) => Of(new, kind) = Of(stk, kind) \cup {m}
         /\ m \notin Of(stk, kind)
<1>1. PICK n : n = Len(stk)
  OBVIOUS
<1>2. PICK S : S = {i \in 1 .. m - 1 : stk[i].kind = kind}
  OBVIOUS
<1>3. /\ n \in Nat /\ m \in 1 .. n + 1 /\ Len(new) = m
      /\ \A i \in 1 .. m - 1 : new[i] = stk[i]
  BY <1>1 DEF Retops
<1>4. Of(stk, kind) = S
  <2>1. \A i \in 1 .. m - 1 : i \in 1 .. n
    BY <1>3
  <2>2. QED
    BY <1>1, <1>2, <2>1 DEF Of
<1>5. \A i : i \in 1 .. m <=> i \in 1 .. m - 1 \/ i = m
  BY <1>3
<1>6. Of(new, kind) = {i \in 1 .. m : new[i].kind = kind}
  BY <1>3 DEF Of
<1>7. m \notin S
  BY <1>2, <1>3
<1>8. QED
  BY <1>2, <1>3, <1>4, <1>5, <1>6, <1>7

LEMMA OfDrop ==
  ASSUME NEW stk, NEW new, NEW kind, Len(stk) \in Nat \ {0}, Len(new) = Len(stk) - 1,
         \A i \in 1 .. Len(new) : new[i] = stk[i]
  PROVE  Of(new, kind) = Of(stk, kind) \ {Len(stk)}
<1>1. PICK n : n = Len(stk)
  OBVIOUS
<1>2. \A i : i \in 1 .. n - 1 <=> i \in 1 .. n /\ i # n
  BY <1>1
<1>3. QED
  BY <1>1, <1>2 DEF Of

-----------------------------------------------------------------------------
\* A new top frame that neither throws nor waits.
LEMMA StillTop ==
  ASSUME NEW stk, NEW rs, NEW b, NEW ss, Still(stk, rs, b, ss), NEW new, NEW m,
         IsSeq(new), Len(new) = m, m \in 1 .. Len(stk) + 1,
         \A i \in 1 .. m - 1 : new[i] = stk[i],
         m # 1 => Above(stk[m - 1], new[m]),
         new[m].kind = "restore" => new[m].exc = NULL,
         new[m].kind \notin Waiting \cup {"throw"},
         \A i \in m .. Len(stk) : stk[i].kind \notin {"throw", "catcher"}
  PROVE  Still(new, rs, IF new[m].kind = "catcher" THEN b + 1 ELSE b, ss)
<1>1. Calm(stk)
  BY DEF Still
<1>2. Len(stk) \in Nat /\ DOMAIN stk = 1 .. Len(stk) /\ DOMAIN new = 1 .. m /\ m \in Nat
  BY <1>1, CalmSize, LenProperties DEF IsSeq
<1>3. Calm(new)
  BY <1>1, CalmTop DEF Waiting
<1>0. ASSUME NEW kind, kind \in {"throw", "catcher"}
      PROVE  /\ new[m].kind # kind => Of(new, kind) = Of(stk, kind)
             /\ new[m].kind = kind => Of(new, kind) = Of(stk, kind) \cup {m}
             /\ m \notin Of(stk, kind)
  <2>1. Of(stk, kind) \subseteq 1 .. m - 1
    <3>1. \A i \in 1 .. Len(stk) : i \in 1 .. m - 1 \/ i \in m .. Len(stk)
      BY <1>2
    <3>2. QED
      BY <1>0, <3>1 DEF Of
  <2>2. Retops(stk, new, m)
    BY <1>2 DEF Retops
  <2>3. /\ m \notin Of(new, kind) => Of(new, kind) = Of(stk, kind)
        /\ m \in Of(new, kind) => Of(new, kind) = Of(stk, kind) \cup {m}
        /\ m \notin Of(stk, kind)
    BY ONLY <2>1, <2>2, OfTop
  <2>4. m \in Of(new, kind) <=> new[m].kind = kind
    BY <1>2 DEF Of
  <2>5. QED
    BY <2>3, <2>4
<1>4. Of(new, "throw") = Of(stk, "throw")
  <2>1. new[m].kind # "throw"
    OBVIOUS
  <2>2. QED
    BY <1>0, <2>1
<1>5. (IF new[m].kind = "catcher" THEN b + 1 ELSE b) = Cardinality(Of(new, "catcher"))
  <2>1. b = Cardinality(Of(stk, "catcher")) /\ IsFiniteSet(Of(stk, "catcher"))
    BY <1>2, OfFinite DEF Still
  <2>2. CASE new[m].kind = "catcher"
    <3>1. Of(new, "catcher") = Of(stk, "catcher") \cup {m} /\ m \notin Of(stk, "catcher")
      BY <1>0, <2>2
    <3>2. QED
      BY <2>1, <2>2, <3>1, FS_AddElement
  <2>3. CASE new[m].kind # "catcher"
    <3>1. Of(new, "catcher") = Of(stk, "catcher")
      BY <1>0, <2>3
    <3>2. QED
      BY <2>1, <2>3, <3>1
  <2>4. QED
    BY <2>2, <2>3
<1>6. ss = {} => \A i \in 1 .. m : new[i].kind \notin Waiting
  <2>1. \A i \in 1 .. m : i = m \/ (i \in 1 .. m - 1 /\ i \in 1 .. Len(stk))
    BY <1>2
  <2>2. QED
    BY <1>2, <2>1 DEF Still
<1>7. Rooted(new, rs)
  BY <1>4 DEF Still, Rooted
<1>8. QED
  BY <1>2, <1>3, <1>5, <1>6, <1>7 DEF Still

\* The top frame is left.
LEMMA StillDrop ==
  ASSUME NEW stk, NEW rs, NEW b, NEW ss, Still(stk, rs, b, ss), Len(stk) # 1,
         stk[Len(stk)].kind \notin {"throw", "settor"}
  PROVE  Still(Front(stk), rs, IF stk[Len(stk)].kind = "catcher" THEN b - 1 ELSE b, ss)
<1>1. PICK n : n = Len(stk)
  OBVIOUS
<1>2. PICK new : new = Front(stk)
  OBVIOUS
<1>3. PICK m : m = n - 1
  OBVIOUS
<1>4. Calm(stk) /\ n \in Nat \ {0} /\ n # 1 /\ DOMAIN stk = 1 .. n
  BY <1>1, CalmSize DEF Still
<1>5. m \in Nat \ {0} /\ m \in 1 .. n + 1 /\ m \in 1 .. n
  BY <1>3, <1>4
<1>6. IsSeq(new) /\ Len(new) = m /\ DOMAIN new = 1 .. m /\ \A i \in 1 .. m : new[i] = stk[i]
  BY <1>1, <1>2, <1>3, SeqPop DEF Still, Calm
<1>7. new[m] = stk[m]
  BY <1>5, <1>6
<1>8. Calm(new)
  <2>1. m # 1 => Above(stk[m - 1], new[m])
    BY <1>4, <1>5, <1>7 DEF Calm
  <2>2. new[m].kind \in {"pop", "restore"} => new[m].exc = NULL
    BY <1>4, <1>5, <1>7 DEF Calm
  <2>3. ASSUME new[m].kind = "throw"
        PROVE  /\ \A l \in 1 .. m - 1 : new[m].to.at < l => stk[l].kind \notin Armed
               /\ new[m].exc # "return" => Covered(stk, m - 1)
    <3>1. Innermost(stk, m)
      BY <1>4, <1>5, <1>7, <2>3 DEF Calm
    <3>2. \A i \in 1 .. m - 1 : i \in 1 .. m
      BY <1>5
    <3>3. ASSUME Covered(stk, m) PROVE Covered(stk, m - 1)
      <4>1. SUFFICES ASSUME NEW i \in 1 .. m - 1, stk[i].kind \in Waiting
                     PROVE  \E l \in i .. m - 1 : stk[l].kind = "catch"
        BY DEF Covered
      <4>2. PICK l \in i .. m : stk[l].kind = "catch"
        BY <3>2, <3>3, <4>1 DEF Covered
      <4>3. l # m
        BY <1>7, <2>3, <4>2
      <4>4. QED
        BY <1>5, <4>2, <4>3
    <3>4. QED
      BY <1>7, <3>1, <3>2, <3>3 DEF Innermost
  <2>4. \A i \in 1 .. m - 1 : new[i] = stk[i]
    BY <1>5, <1>6
  <2>5. m \in 1 .. Len(stk) + 1
    BY <1>1, <1>5
  <2>6. QED
    BY <1>4, <1>6, <2>1, <2>2, <2>3, <2>4, <2>5, CalmTop
<1>9. \A kind : Of(new, kind) = Of(stk, kind) \ {n}
  BY <1>1, <1>3, <1>4, <1>6, OfDrop
<1>10. Of(new, "throw") = Of(stk, "throw")
  BY <1>1, <1>9 DEF Of
<1>11. (IF stk[n].kind = "catcher" THEN b - 1 ELSE b) = Cardinality(Of(new, "catcher"))
  <2>1. /\ b = Cardinality(Of(stk, "catcher")) /\ IsFiniteSet(Of(stk, "catcher"))
        /\ Of(new, "catcher") = Of(stk, "catcher") \ {n}
        /\ n \in Of(stk, "catcher") <=> stk[n].kind = "catcher"
    <3>1. n \in 1 .. n
      BY <1>4
    <3>2. n \in Of(stk, "catcher") <=> stk[n].kind = "catcher"
      BY <1>1, <3>1 DEF Of
    <3>3. QED
      BY <1>1, <1>4, <1>9, <3>2, OfFinite DEF Still
  <2>2. QED
    BY <2>1, FS_RemoveElement
<1>12. new[m].kind \notin Waiting
  <2>1. n \in DOMAIN stk
    BY <1>4
  <2>2. Above(stk[n - 1], stk[n])
    BY <1>4, <2>1 DEF Calm
  <2>3. QED
    BY <1>1, <1>3, <1>7, <2>2 DEF Above
<1>13. ss = {} => \A i \in 1 .. m : new[i].kind \notin Waiting
  BY <1>4, <1>5, <1>6 DEF Still
<1>14. Rooted(new, rs)
  BY <1>10 DEF Still, Rooted
<1>15. QED
  BY <1>1, <1>2, <1>6, <1>8, <1>11, <1>12, <1>13, <1>14 DEF Still

\* A new frame on top.
LEMMA StillPush ==
  ASSUME NEW stk, NEW rs, NEW b, NEW ss, Still(stk, rs, b, ss), NEW f,
         Above(stk[Len(stk)], f), f.kind = "restore" => f.exc = NULL,
         f.kind \notin Waiting \cup {"throw"}
  PROVE  Still(Append(stk, f), rs, IF f.kind = "catcher" THEN b + 1 ELSE b, ss)
<1>1. PICK n : n = Len(stk)
  OBVIOUS
<1>2. PICK new : new = Append(stk, f)
  OBVIOUS
<1>3. IsSeq(stk) /\ n \in Nat \ {0}
  BY <1>1, CalmSize DEF Still, Calm
<1>4. /\ IsSeq(new) /\ Len(new) = n + 1 /\ new[n + 1] = f
      /\ \A i \in 1 .. n : new[i] = stk[i]
  BY <1>1, <1>2, <1>3, SeqPush
<1>5. PICK m : m = n + 1
  OBVIOUS
<1>6. /\ Len(new) = m /\ m \in 1 .. Len(stk) + 1 /\ new[m] = f
      /\ \A i \in 1 .. m - 1 : new[i] = stk[i]
      /\ m # 1 => Above(stk[m - 1], new[m])
      /\ \A i \in m .. Len(stk) : stk[i].kind \notin {"throw", "catcher"}
  BY <1>1, <1>3, <1>4, <1>5
<1>7. Still(new, rs, IF new[m].kind = "catcher" THEN b + 1 ELSE b, ss)
  BY <1>4, <1>6, StillTop
<1>8. QED
  BY <1>2, <1>6, <1>7

\* Frames that wait or throw allow only some above them.
LEMMA AnyAbove ==
  ASSUME NEW stk, Calm(stk), Len(stk) # 1,
         stk[Len(stk)].kind \notin {"pop", "restore", "settor"}, NEW f
  PROVE  Above(stk[Len(stk) - 1], f)
<1>1. Len(stk) \in Nat \ {0} /\ Len(stk) \in DOMAIN stk
  BY CalmSize
<1>2. Above(stk[Len(stk) - 1], stk[Len(stk)])
  BY <1>1 DEF Calm
<1>3. QED
  BY <1>2 DEF Above

\* The top frame goes on as f.
LEMMA StillChange ==
  ASSUME NEW stk, NEW rs, NEW b, NEW ss, Still(stk, rs, b, ss), NEW f, Len(stk) # 1,
         stk[Len(stk)].kind \notin {"throw", "settor", "pop", "restore"},
         f.kind \notin Waiting \cup {"throw", "restore"}, NEW b1,
         b1 = IF stk[Len(stk)].kind = "catcher" THEN b - 1 ELSE b
  PROVE  Still(Append(Front(stk), f), rs, IF f.kind = "catcher" THEN b1 + 1 ELSE b1, ss)
<1>1. PICK front : front = Front(stk)
  OBVIOUS
<1>2. Still(front, rs, b1, ss)
  BY <1>1, StillDrop
<1>3. Calm(stk) /\ IsSeq(stk) /\ stk # <<>> /\ Len(stk) \in Nat \ {0}
  BY CalmSize DEF Still, Calm
<1>4. Len(front) = Len(stk) - 1 /\ \A i \in 1 .. Len(stk) - 1 : front[i] = stk[i]
  BY <1>1, <1>3, SeqPop
<1>5. front[Len(front)] = stk[Len(stk) - 1]
  <2>1. PICK n : n = Len(stk)
    OBVIOUS
  <2>2. n \in Nat /\ n > 1
    BY <1>3, <2>1
  <2>3. n - 1 \in 1 .. n - 1
    BY <2>2
  <2>4. QED
    BY <1>4, <2>1, <2>3
<1>6. Above(front[Len(front)], f)
  BY <1>3, <1>5, AnyAbove
<1>7. QED
  BY <1>1, <1>2, <1>6, StillPush

\* callsettor, for an operation that waits for it.
LEMMA StillSettor ==
  ASSUME NEW stk, NEW rs, NEW b, NEW ss, Still(stk, rs, b, ss), NEW w, NEW s,
         w.kind \in Waiting, w.kind = "pop" => w.exc = NULL, s.kind = "settor",
         Above(stk[Len(stk)], w), ss # {}
  PROVE  Still(Append(Append(stk, w), s), rs, b, ss)
<1>1. PICK n : n = Len(stk)
  OBVIOUS
<1>2. PICK one : one = Append(stk, w)
  OBVIOUS
<1>3. PICK two : two = Append(one, s)
  OBVIOUS
<1>4. IsSeq(stk) /\ n \in Nat \ {0} /\ Calm(stk)
  BY <1>1, CalmSize DEF Still, Calm
<1>5. /\ IsSeq(one) /\ Len(one) = n + 1 /\ one[n + 1] = w
      /\ \A i \in 1 .. n : one[i] = stk[i]
  BY <1>1, <1>2, <1>4, SeqPush
<1>6. /\ IsSeq(two) /\ Len(two) = n + 2 /\ two[n + 2] = s
      /\ \A i \in 1 .. n + 1 : two[i] = one[i]
  BY <1>3, <1>4, <1>5, SeqPush
<1>7. PICK m : m = n + 1
  OBVIOUS
<1>8. PICK k : k = n + 2
  OBVIOUS
<1>9. /\ Len(one) = m /\ m \in 1 .. Len(stk) + 1 /\ one[m] = w /\ m \in Nat
      /\ \A i \in 1 .. m - 1 : one[i] = stk[i]
      /\ m # 1 => Above(stk[m - 1], one[m])
  BY <1>1, <1>4, <1>5, <1>7
<1>10. /\ Len(two) = k /\ k \in 1 .. Len(one) + 1 /\ two[k] = s
       /\ \A i \in 1 .. k - 1 : two[i] = one[i]
       /\ one[k - 1] = w
  BY <1>4, <1>5, <1>6, <1>8
<1>11. Calm(one)
  <2>1. /\ one[m].kind \in {"pop", "restore"} => one[m].exc = NULL
        /\ one[m].kind # "throw"
    BY <1>9 DEF Waiting
  <2>2. QED
    BY <1>4, <1>5, <1>9, <2>1, CalmTop
<1>12. Calm(two)
  <2>1. k # 1 => Above(one[k - 1], two[k])
    BY <1>10 DEF Above, Waiting
  <2>2. two[k].kind \notin {"pop", "restore", "throw"}
    BY <1>10
  <2>3. QED
    BY <1>6, <1>10, <1>11, <2>1, <2>2, CalmTop
<1>13. ASSUME NEW kind, kind \in {"throw", "catcher"}
       PROVE  Of(two, kind) = Of(stk, kind)
  <2>1. Of(stk, kind) \subseteq 1 .. m - 1 /\ m \notin Of(one, kind)
    BY <1>1, <1>4, <1>7, <1>9, <1>13 DEF Of, Waiting
  <2>2. Retops(stk, one, m)
    BY <1>1, <1>4, <1>9 DEF Retops
  <2>3. Of(one, kind) = Of(stk, kind)
    BY ONLY <2>1, <2>2, OfTop
  <2>4. Of(one, kind) \subseteq 1 .. k - 1 /\ k \notin Of(two, kind)
    BY <1>4, <1>5, <1>8, <1>10, <1>13 DEF Of
  <2>5. Retops(one, two, k)
    BY <1>9, <1>10 DEF Retops
  <2>6. Of(two, kind) = Of(one, kind)
    BY ONLY <2>4, <2>5, OfTop
  <2>7. QED
    BY <2>3, <2>6
<1>14. Of(two, "throw") = Of(stk, "throw") /\ Of(two, "catcher") = Of(stk, "catcher")
  BY <1>13
<1>15. two[Len(two)].kind \notin Waiting
  BY <1>10 DEF Waiting
<1>16. QED
  BY <1>2, <1>3, <1>12, <1>14, <1>15 DEF Still, Rooted

\* The settor returns, and the operation below it goes on as f.
LEMMA StillAfter ==
  ASSUME NEW stk, NEW rs, NEW b, NEW ss, Still(stk, rs, b, ss), NEW f,
         stk[Len(stk)].kind = "settor", stk[Len(stk) - 1].kind \in Waiting,
         f.exc = stk[Len(stk) - 1].exc, f.kind = After(stk[Len(stk) - 1].kind),
         Len(stk) # 1
  PROVE  Still(Append(Front(Front(stk)), f), rs, b, ss)
<1>1. PICK n : n = Len(stk)
  OBVIOUS
<1>2. PICK front : front = Front(stk)
  OBVIOUS
<1>3. PICK new : new = Append(Front(front), f)
  OBVIOUS
<1>4. PICK m : m = n - 1
  OBVIOUS
<1>5. IsSeq(stk) /\ stk # <<>> /\ n \in Nat \ {0} /\ Calm(stk) /\ DOMAIN stk = 1 .. n
  BY <1>1, CalmSize DEF Still, Calm
<1>6. m \in Nat \ {0} /\ m \in DOMAIN stk /\ n \in DOMAIN stk
  BY <1>1, <1>4, <1>5
<1>7. IsSeq(front) /\ Len(front) = m /\ \A i \in 1 .. m : front[i] = stk[i]
  BY <1>1, <1>2, <1>4, <1>5, SeqPop
<1>8. front # <<>>
  BY <1>6, <1>7, EmptySeq
<1>9. /\ IsSeq(new) /\ Len(new) = m /\ new[m] = f
      /\ \A i \in DOMAIN front \ {m} : new[i] = front[i]
      /\ DOMAIN front = 1 .. m
  <2>1. IsSeq(front) /\ front # <<>>
    BY <1>7, <1>8
  <2>2. PICK g : g = Append(Front(front), f)
    OBVIOUS
  <2>3. /\ IsSeq(g) /\ Len(g) = Len(front) /\ g[Len(front)] = f
        /\ \A i \in DOMAIN front \ {Len(front)} : g[i] = front[i]
        /\ DOMAIN front = 1 .. Len(front)
    BY ONLY <2>1, <2>2, SeqChange
  <2>4. QED
    BY <1>3, <1>7, <2>2, <2>3
<1>10. \A i \in 1 .. m - 1 : new[i] = stk[i]
  <2>1. \A i \in 1 .. m - 1 : i \in 1 .. m /\ i # m
    BY <1>6
  <2>2. QED
    BY <1>7, <1>9, <2>1
<1>11. stk[m].kind \in Waiting /\ f.kind = After(stk[m].kind) /\ f.exc = stk[m].exc
       /\ stk[n].kind = "settor"
  BY <1>1, <1>4
<1>12. f.kind \in {"bind", "store", "restore"} /\ (f.kind = "restore" <=> stk[m].kind = "pop")
  BY <1>11 DEF Waiting, After
<1>13. m # 1 => Above(stk[m - 1], new[m])
  <2>1. m # 1 => Above(stk[m - 1], stk[m])
    BY <1>5, <1>6 DEF Calm
  <2>2. QED
    BY <1>9, <1>11, <1>12, <2>1 DEF Above, Waiting
<1>14. new[m].kind = "restore" => new[m].exc = NULL
  BY <1>5, <1>6, <1>9, <1>11, <1>12 DEF Calm
<1>15. \A i \in m .. Len(stk) : stk[i].kind \notin {"throw", "catcher"}
  <2>1. \A i \in m .. n : i = m \/ i = n
    BY <1>4, <1>5
  <2>2. QED
    BY <1>1, <1>11, <2>1 DEF Waiting
<1>16. new[m].kind \notin Waiting \cup {"throw", "catcher"} /\ m \in 1 .. Len(stk) + 1
  BY <1>1, <1>4, <1>5, <1>6, <1>9, <1>12 DEF Waiting
<1>17. Still(new, rs, IF new[m].kind = "catcher" THEN b + 1 ELSE b, ss)
  BY <1>9, <1>10, <1>13, <1>14, <1>15, <1>16, StillTop
<1>18. QED
  BY <1>2, <1>3, <1>16, <1>17

\* In a calm stack whose top may throw, the topmost armed frame has its handler:
\* any other has one or is under a varpop, which is armed.
LEMMA TopmostArmed ==
  ASSUME NEW stk, NEW hs, NEW ps, Good(stk, hs, ps, "run"), Calm(stk),
         stk[Len(stk)].kind \notin {"throw", "restore"}
  PROVE  /\ hs # <<>> /\ Last(hs).at \in 1 .. Len(stk)
         /\ \A l \in 1 .. Len(stk) : Last(hs).at < l => stk[l].kind \notin Armed
<1>1. PICK n : n = Len(stk)
  OBVIOUS
<1>2. n \in Nat \ {0} /\ DOMAIN stk = 1 .. n
  BY <1>1, CalmSize
<1>3. PICK R : R = {d \in Nat : n - d \in 1 .. n /\ stk[n - d].kind \in Armed}
  OBVIOUS
<1>4. n - 1 \in R
  <2>1. n - 1 \in Nat /\ n - (n - 1) = 1 /\ 1 \in 1 .. n
    BY <1>2
  <2>2. stk[1].kind \in Armed
    BY DEF Good, Frames, Armed
  <2>3. QED
    BY <1>3, <2>1, <2>2
<1>5. PICK d \in R : \A e \in R : <<e, d>> \notin OpToRel(<, Nat)
  BY <1>3, <1>4, NatLessThanWellFounded, WFMin, Zenon
<1>6. d \in Nat /\ \A e \in R : ~(e < d)
  BY <1>3, <1>5 DEF OpToRel
<1>7. PICK a : a = n - d
  OBVIOUS
<1>8. a \in 1 .. n /\ stk[a].kind \in Armed
  BY <1>3, <1>5, <1>7
<1>9. ASSUME NEW l \in 1 .. n, a < l PROVE stk[l].kind \notin Armed
  <2>1. n - l \in Nat /\ n - (n - l) = l /\ n - l < d
    BY <1>2, <1>6, <1>7, <1>9
  <2>2. n - l \notin R
    BY <1>6, <2>1
  <2>3. QED
    BY <1>3, <2>1, <2>2
<1>10. ~Targeted(stk, a)
  <2>1. SUFFICES ASSUME NEW j \in a + 1 .. n, stk[j].kind = "throw" PROVE FALSE
    BY <1>1 DEF Targeted
  <2>2. j # n
    BY <1>1, <2>1
  <2>3. j + 1 \in 1 .. n /\ a < j + 1 /\ j + 1 # 1 /\ (j + 1) - 1 = j
    BY <1>2, <1>8, <2>1, <2>2
  <2>4. Above(stk[j], stk[j + 1])
    BY <1>2, <2>3 DEF Calm
  <2>5. stk[j + 1].kind = "restore"
    BY <1>9, <2>1, <2>3, <2>4 DEF Above, Armed
  <2>6. j + 1 # n
    BY <1>1, <2>5
  <2>7. j + 2 \in 1 .. n /\ j + 2 # 1 /\ (j + 2) - 1 = j + 1
    BY <1>2, <2>3, <2>6
  <2>8. Above(stk[j + 1], stk[j + 2])
    BY <1>2, <2>7 DEF Calm
  <2>9. QED
    BY <2>5, <2>8 DEF Above
<1>11. PICK k \in DOMAIN hs : hs[k].at = a
  BY <1>2, <1>8, <1>10 DEF Good, Arms
<1>12. IsSeq(hs) /\ Rising(hs) /\ \A i \in DOMAIN hs : hs[i].at \in 1 .. n
  BY <1>2 DEF Good, Handlers, HandlerOK
<1>13. PICK c : c = Len(hs)
  OBVIOUS
<1>14. hs # <<>>
  BY <1>11
<1>15. c \in Nat \ {0} /\ DOMAIN hs = 1 .. c /\ Last(hs) = hs[c]
  BY <1>12, <1>13, <1>14, SeqPop
<1>16. hs[c].at \in 1 .. n /\ a <= hs[c].at
  <2>1. c \in DOMAIN hs /\ (k < c \/ k = c)
    BY <1>11, <1>15
  <2>2. QED
    BY <1>8, <1>11, <1>12, <2>1 DEF Rising
<1>17. \A l \in 1 .. n : hs[c].at < l => stk[l].kind \notin Armed
  BY <1>2, <1>8, <1>9, <1>16
<1>18. QED
  BY <1>1, <1>14, <1>15, <1>16, <1>17

\* A throw: there is a handler for it, and it is the innermost one.
LEMMA StillRaise ==
  ASSUME NEW stk, NEW hs, NEW ps, NEW rs, NEW b, NEW ss, NEW f,
         Good(stk, hs, ps, "run"), Still(stk, rs, b, ss),
         stk[Len(stk)].kind \notin {"throw", "try", "restore", "bind", "store"},
         f.kind = "throw", f.to = Last(hs), f.exc = "return" \/ Covered(stk, Len(stk))
  PROVE  hs # <<>> /\ Still(Append(stk, f), Append(rs, Len(stk) + 1), b, ss)
<1>1. PICK n : n = Len(stk)
  OBVIOUS
<1>2. PICK new : new = Append(stk, f)
  OBVIOUS
<1>3. PICK m : m = n + 1
  OBVIOUS
<1>4. IsSeq(stk) /\ n \in Nat \ {0} /\ Calm(stk) /\ DOMAIN stk = 1 .. n
  BY <1>1, CalmSize DEF Still, Calm
<1>5. /\ IsSeq(new) /\ Len(new) = m /\ new[m] = f /\ m \in Nat /\ m \in 1 .. Len(stk) + 1
      /\ \A i \in 1 .. m - 1 : new[i] = stk[i]
      /\ m - 1 = n
  BY <1>1, <1>2, <1>3, <1>4, SeqPush
<1>6. /\ hs # <<>>
      /\ \A l \in 1 .. n : f.to.at < l => stk[l].kind \notin Armed
  BY <1>1, <1>4, TopmostArmed
<1>7. Calm(new)
  <2>1. m # 1 => Above(stk[m - 1], new[m])
    BY <1>1, <1>5 DEF Above, Still
  <2>2. /\ \A l \in 1 .. m - 1 : new[m].to.at < l => stk[l].kind \notin Armed
        /\ new[m].exc # "return" => Covered(stk, m - 1)
    BY <1>1, <1>5, <1>6
  <2>3. new[m].kind \notin {"pop", "restore"}
    BY <1>5
  <2>4. QED
    BY <1>4, <1>5, <2>1, <2>2, <2>3, CalmTop
<1>8. ASSUME NEW kind
      PROVE  /\ m \notin Of(new, kind) => Of(new, kind) = Of(stk, kind)
             /\ m \in Of(new, kind) => Of(new, kind) = Of(stk, kind) \cup {m}
             /\ m \in Of(new, kind) <=> f.kind = kind
  <2>1. Of(stk, kind) \subseteq 1 .. m - 1 /\ Retops(stk, new, m)
    BY <1>1, <1>4, <1>5 DEF Of, Retops
  <2>2. m \in Of(new, kind) <=> new[m].kind = kind
    BY <1>5 DEF Of
  <2>3. /\ m \notin Of(new, kind) => Of(new, kind) = Of(stk, kind)
        /\ m \in Of(new, kind) => Of(new, kind) = Of(stk, kind) \cup {m}
    BY ONLY <2>1, OfTop
  <2>4. QED
    BY <1>5, <2>2, <2>3
<1>9. Of(new, "catcher") = Of(stk, "catcher")
  BY <1>8
<1>10. Of(new, "throw") = Of(stk, "throw") \cup {m}
  BY <1>8
<1>11. PICK more : more = Append(rs, m)
  OBVIOUS
<1>12. Rooted(new, more)
  <2>1. IsSeq(rs) /\ {rs[i] : i \in DOMAIN rs} = Of(stk, "throw")
        /\ \A i, j \in DOMAIN rs : i < j => rs[i] < rs[j]
    BY DEF Still, Rooted
  <2>2. PICK c : c = Len(rs)
    OBVIOUS
  <2>3. /\ IsSeq(more) /\ c \in Nat /\ DOMAIN rs = 1 .. c /\ DOMAIN more = 1 .. c + 1
        /\ more[c + 1] = m /\ \A i \in 1 .. c : more[i] = rs[i]
    BY <1>11, <2>1, <2>2, SeqPush
  <2>4. \A i \in 1 .. c : rs[i] \in 1 .. n
    BY <1>1, <2>1, <2>3 DEF Of
  <2>5. \A i \in 1 .. c + 1 : i = c + 1 \/ i \in 1 .. c
    BY <2>3
  <2>6. ASSUME NEW i \in 1 .. c + 1, NEW j \in 1 .. c + 1, i < j PROVE more[i] < more[j]
    <3>1. i \in 1 .. c /\ more[i] = rs[i] /\ rs[i] \in 1 .. n
      BY <2>3, <2>4, <2>6
    <3>2. CASE j = c + 1
      BY <1>3, <1>4, <2>3, <3>1, <3>2
    <3>3. CASE j \in 1 .. c
      BY <2>1, <2>3, <2>6, <3>1, <3>3
    <3>4. QED
      BY <2>5, <3>2, <3>3
  <2>7. {more[i] : i \in DOMAIN more} = {rs[i] : i \in DOMAIN rs} \cup {m}
    BY <2>3, <2>5
  <2>8. QED
    BY <1>10, <2>1, <2>3, <2>6, <2>7 DEF Rooted
<1>13. ss = {} => \A i \in 1 .. m : new[i].kind \notin Waiting
  <2>1. \A i \in 1 .. m : i = m \/ i \in 1 .. m - 1
    BY <1>5
  <2>2. QED
    BY <1>4, <1>5, <2>1 DEF Still, Waiting
<1>14. DOMAIN new = 1 .. m /\ new[m].kind \notin Waiting
  BY <1>5, LenProperties DEF IsSeq, Waiting
<1>15. Still(new, more, b, ss)
  BY <1>5, <1>7, <1>9, <1>12, <1>13, <1>14 DEF Still
<1>16. QED
  BY <1>1, <1>2, <1>3, <1>6, <1>11, <1>15

\* The end of a throw: no frame between the throw and the handler is armed, so no
\* catcher and no other throw is left, and no settor of an operation.
LEMMA StillJump ==
  ASSUME NEW stk, NEW hs, NEW ps, NEW rs, NEW b, NEW ss, NEW new, NEW m,
         Good(stk, hs, ps, "run"), Still(stk, rs, b, ss),
         stk[Len(stk)].kind = "throw", m = stk[Len(stk)].to.at,
         IsSeq(new), Len(new) = m, \A i \in 1 .. m - 1 : new[i] = stk[i],
         new[m].kind = stk[m].kind
  PROVE  /\ Still(new, Front(rs), b, ss) /\ new[m].kind # "pop"
         /\ stk[Len(stk)].exc # "return" => Covered(new, m)
<1>1. PICK n : n = Len(stk)
  OBVIOUS
<1>2. IsSeq(stk) /\ n \in Nat \ {0} /\ Calm(stk) /\ DOMAIN stk = 1 .. n /\ n \in 1 .. n
  BY <1>1, CalmSize DEF Still, Calm
<1>3. m \in 1 .. n - 1 /\ stk[m].kind \in Armed
  BY <1>1, <1>2 DEF Good, Throws, ThrowOK, HandlerOK
<1>4. m \in 1 .. n /\ m # n /\ m \in 1 .. Len(stk) + 1
  BY <1>1, <1>2, <1>3
<1>5. Innermost(stk, n)
  BY <1>1, <1>2 DEF Calm
<1>6. \A l \in 1 .. n : m < l => stk[l].kind \notin Armed
  BY <1>1, <1>5 DEF Innermost
<1>7. new[m].kind \notin Waiting
  <2>1. m + 1 \in 1 .. n /\ m < m + 1 /\ m + 1 # 1 /\ (m + 1) - 1 = m
    BY <1>2, <1>3
  <2>2. Above(stk[m], stk[m + 1]) /\ stk[m + 1].kind \notin Armed
    BY <1>2, <1>6, <2>1 DEF Calm
  <2>3. QED
    BY <2>2 DEF Above, Armed
<1>8. new[m].kind \in Armed
  BY <1>3
<1>9. Calm(new)
  <2>1. m # 1 => Above(stk[m - 1], new[m])
    <3>1. m # 1 => Above(stk[m - 1], stk[m])
      BY <1>2, <1>4 DEF Calm
    <3>2. QED
      BY <3>1 DEF Above
  <2>2. new[m].kind \notin {"pop", "restore", "throw"}
    BY <1>7, <1>8 DEF Armed, Waiting
  <2>3. QED
    BY <1>2, <1>4, <2>1, <2>2, CalmTop
<1>10. ASSUME NEW j \in m + 1 .. n - 1 PROVE stk[j].kind # "throw"
  <2>1. SUFFICES ASSUME stk[j].kind = "throw" PROVE FALSE
    OBVIOUS
  <2>2. j + 1 \in 1 .. n /\ m < j + 1 /\ j + 1 # 1 /\ (j + 1) - 1 = j
    BY <1>2, <1>4, <1>10
  <2>3. Above(stk[j], stk[j + 1])
    BY <1>2, <2>2 DEF Calm
  <2>4. stk[j + 1].kind = "restore"
    BY <1>6, <2>1, <2>2, <2>3 DEF Above, Armed
  <2>5. j + 1 # n
    BY <1>1, <2>4
  <2>6. j + 2 \in 1 .. n /\ j + 2 # 1 /\ (j + 2) - 1 = j + 1
    BY <1>2, <2>2, <2>5
  <2>7. Above(stk[j + 1], stk[j + 2])
    BY <1>2, <2>6 DEF Calm
  <2>8. QED
    BY <2>4, <2>7 DEF Above
<1>11. DOMAIN new = 1 .. m /\ \A i \in 1 .. m : new[i].kind = stk[i].kind /\ i \in 1 .. n
  <2>1. \A i \in 1 .. m : (i = m \/ i \in 1 .. m - 1) /\ i \in 1 .. n
    BY <1>2, <1>4
  <2>2. QED
    BY <2>1, LenProperties DEF IsSeq
<1>12. \A i \in 1 .. n : i \in 1 .. m \/ i \in m + 1 .. n - 1 \/ i = n
  BY <1>2, <1>4
<1>13. Of(new, "throw") = Of(stk, "throw") \ {n} /\ n \in Of(stk, "throw")
  <2>1. \A i \in Of(stk, "throw") : i # n => i \in Of(new, "throw")
    BY <1>1, <1>10, <1>11, <1>12 DEF Of
  <2>2. \A i \in Of(new, "throw") : i \in Of(stk, "throw") /\ i # n
    BY <1>1, <1>2, <1>4, <1>11 DEF Of
  <2>3. n \in Of(stk, "throw")
    BY <1>1, <1>2 DEF Of
  <2>4. QED
    BY <2>1, <2>2, <2>3
<1>14. Of(new, "catcher") = Of(stk, "catcher")
  <2>1. \A i \in Of(stk, "catcher") : i \in Of(new, "catcher")
    <3>1. SUFFICES ASSUME NEW i \in Of(stk, "catcher") PROVE i \in Of(new, "catcher")
      OBVIOUS
    <3>2. i \in 1 .. n /\ stk[i].kind = "catcher"
      BY <1>1, <3>1 DEF Of
    <3>3. ~(m < i)
      BY <1>6, <3>2 DEF Armed
    <3>4. i \in 1 .. m
      BY <1>2, <1>4, <3>2, <3>3
    <3>5. QED
      BY <1>11, <3>2, <3>4 DEF Of
  <2>2. \A i \in Of(new, "catcher") : i \in Of(stk, "catcher")
    BY <1>1, <1>11 DEF Of
  <2>3. QED
    BY <2>1, <2>2
<1>15. Rooted(new, Front(rs))
  <2>1. PICK less : less = Front(rs)
    OBVIOUS
  <2>2. IsSeq(rs) /\ {rs[i] : i \in DOMAIN rs} = Of(stk, "throw")
        /\ \A i, j \in DOMAIN rs : i < j => rs[i] < rs[j]
    BY DEF Still, Rooted
  <2>3. PICK c : c = Len(rs)
    OBVIOUS
  <2>4. PICK k \in DOMAIN rs : rs[k] = n
    BY <1>13, <2>2
  <2>5. rs # <<>>
    BY <2>4
  <2>6. /\ IsSeq(less) /\ c \in Nat \ {0} /\ DOMAIN rs = 1 .. c /\ DOMAIN less = 1 .. c - 1
        /\ \A i \in 1 .. c - 1 : less[i] = rs[i]
    BY <2>1, <2>2, <2>3, <2>5, SeqPop
  <2>7. \A i \in 1 .. c : rs[i] \in 1 .. n
    BY <1>1, <2>2, <2>6 DEF Of
  <2>8. c \in 1 .. c /\ k \in 1 .. c /\ (k < c \/ k = c)
    BY <2>4, <2>6
  <2>9. k = c
    <3>1. CASE k < c
      <4>1. rs[k] < rs[c] /\ rs[c] \in 1 .. n
        BY <2>2, <2>6, <2>7, <2>8, <3>1
      <4>2. QED
        BY <1>2, <2>4, <4>1
    <3>2. QED
      BY <2>8, <3>1
  <2>10. \A i \in 1 .. c : (i = c \/ i \in 1 .. c - 1) /\ (i \in 1 .. c - 1 => i < c)
    BY <2>6
  <2>11. \A i \in 1 .. c - 1 : i \in 1 .. c
    BY <2>6
  <2>12. {less[i] : i \in DOMAIN less} = Of(new, "throw")
    <3>1. \A i \in DOMAIN less : less[i] \in Of(new, "throw")
      <4>1. SUFFICES ASSUME NEW i \in 1 .. c - 1 PROVE rs[i] \in Of(new, "throw")
        BY <2>6
      <4>2. i \in 1 .. c /\ rs[i] < rs[c] /\ rs[c] = n
        BY <2>2, <2>4, <2>6, <2>8, <2>9, <2>10, <2>11, <4>1
      <4>3. rs[i] \in {rs[j] : j \in DOMAIN rs}
        BY <2>6, <4>2
      <4>4. rs[i] \in 1 .. n /\ rs[i] < n
        BY <2>7, <4>2
      <4>5. rs[i] # n
        BY <1>2, <4>4
      <4>6. QED
        BY <1>13, <2>2, <4>3, <4>5
    <3>2. ASSUME NEW x \in Of(new, "throw") PROVE \E i \in DOMAIN less : less[i] = x
      <4>1. x \in Of(stk, "throw") /\ x # n
        BY <1>13, <3>2
      <4>2. PICK i \in 1 .. c : rs[i] = x
        BY <2>2, <2>6, <4>1
      <4>3. i # c
        BY <2>4, <2>9, <4>1, <4>2
      <4>4. i \in 1 .. c - 1
        BY <2>10, <4>3
      <4>5. QED
        BY <2>6, <4>2, <4>4
    <3>3. QED
      BY <3>1, <3>2
  <2>13. \A i, j \in DOMAIN less : i < j => less[i] < less[j]
    BY <2>2, <2>6, <2>11
  <2>14. QED
    BY <2>1, <2>6, <2>12, <2>13 DEF Rooted
<1>16. ss = {} => \A i \in DOMAIN new : new[i].kind \notin Waiting
  BY <1>2, <1>11 DEF Still
<1>17. ASSUME Covered(stk, n) PROVE Covered(new, m)
  <2>1. SUFFICES ASSUME NEW i \in 1 .. m, new[i].kind \in Waiting
                 PROVE  \E l \in i .. m : new[l].kind = "catch"
    BY DEF Covered
  <2>2. i \in 1 .. n /\ stk[i].kind \in Waiting
    BY <1>11, <2>1
  <2>3. PICK l \in i .. n : stk[l].kind = "catch"
    BY <1>17, <2>2 DEF Covered
  <2>4. l \in 1 .. n
    BY <2>2
  <2>5. ~(m < l)
    BY <1>6, <2>3, <2>4 DEF Armed
  <2>6. l \in i .. m /\ l \in 1 .. m
    BY <1>2, <1>4, <2>1, <2>3, <2>4, <2>5
  <2>7. QED
    BY <1>11, <2>3, <2>6
<1>18. stk[Len(stk)].exc # "return" => Covered(stk, n)
  BY <1>1, <1>5 DEF Innermost
<1>19. Still(new, Front(rs), b, ss)
  <2>1. b = Cardinality(Of(stk, "catcher"))
    BY DEF Still
  <2>2. QED
    BY <1>7, <1>9, <1>14, <1>15, <1>16, <2>1 DEF Still
<1>20. QED
  BY <1>7, <1>17, <1>18, <1>19 DEF Waiting

-----------------------------------------------------------------------------
(* The steps, where no settor fails. *)

\* The same of the state; an exception that has just arrived is no varpop's.
Quiet ==
  /\ mode # "abort"
  /\ Still(stack, roots, blocked, Settors)
  /\ mode = "caught" =>
       Top.kind # "pop" /\ (exception # "return" => Covered(stack, Len(stack)))

LEMMA QuietNow ==
  ASSUME IInv, Quiet
  PROVE  /\ Still(stack, roots, blocked, Settors) /\ Calm(stack)
         /\ Len(stack) \in Nat \ {0} /\ DOMAIN stack = 1 .. Len(stack)
         /\ Top = stack[Len(stack)]
         /\ Top.kind # "top" => Len(stack) # 1
<1>1. Calm(stack) /\ Still(stack, roots, blocked, Settors)
  BY DEF Quiet, Still
<1>2. Top = stack[Len(stack)] /\ (Top.kind # "top" => Len(stack) # 1)
  BY Now, Sizes
<1>3. QED
  BY <1>1, <1>2, CalmSize

\* throw, whatever called it.
LEMMA QuietRaises ==
  ASSUME NEW stk, NEW hs, NEW ps, NEW b, NEW e,
         Good(stk, hs, ps, "run"), Still(stk, roots, b, Settors),
         stk[Len(stk)].kind \notin {"throw", "try", "restore", "bind", "store"},
         e = "return" \/ Covered(stk, Len(stk)),
         Raise(stk, hs, e), blocked' = b, setup' = setup
  PROVE  Quiet'
<1>1. PICK f : f = Frame("throw", Zero, NULL, e, Last(hs), 0)
  OBVIOUS
<1>2. f.kind = "throw" /\ f.to = Last(hs) /\ f.exc = e
  BY <1>1 DEF Frame
<1>3. hs # <<>> /\ Still(Append(stk, f), Append(roots, Len(stk) + 1), b, Settors)
  BY <1>2, StillRaise
<1>4. /\ mode' = "run" /\ stack' = Append(stk, f)
      /\ roots' = Append(roots, Len(stk) + 1) /\ Settors' = Settors
  BY <1>1, <1>3 DEF Raise, Settors
<1>5. QED
  BY <1>3, <1>4 DEF Quiet

\* An error that the program raises where it may: there is a catch above every
\* frame that waits for a settor.
LEMMA NoEscape ==
  ASSUME IInv, Quiet, NoSettorFails, Running, setup.fail \/ ~Escapes(stack)
  PROVE  Covered(stack, Len(stack))
<1>1. PICK n : n = Len(stack)
  OBVIOUS
<1>2. n \in Nat \ {0} /\ DOMAIN stack = 1 .. n /\ Calm(stack) /\ Top = stack[n]
  BY <1>1, QuietNow
<1>3. CASE Settors = {}
  <2>1. \A i \in DOMAIN stack : stack[i].kind \notin Waiting
    BY <1>3, QuietNow DEF Still
  <2>2. QED
    BY <1>1, <1>2, <2>1 DEF Covered
<1>4. CASE ~Escapes(stack)
  <2>1. SUFFICES ASSUME NEW i \in 1 .. n, stack[i].kind \in Waiting
                 PROVE  \E l \in i .. n : stack[l].kind = "catch"
    BY <1>1 DEF Covered
  <2>2. PICK l \in i .. n : stack[l].kind \in {"catch", "try"}
    BY <1>1, <1>2, <1>4, <2>1 DEF Escapes, Waiting
  <2>3. stack[l].kind # "try"
    <3>1. CASE l = n
      BY <1>2, <3>1 DEF Running
    <3>2. CASE l # n
      <4>1. l + 1 \in 1 .. n /\ l + 1 # 1 /\ (l + 1) - 1 = l
        BY <1>2, <2>1, <2>2, <3>2
      <4>2. Above(stack[l], stack[l + 1])
        BY <1>2, <4>1 DEF Calm
      <4>3. QED
        BY <4>2 DEF Above
    <3>3. QED
      BY <3>1, <3>2
  <2>4. QED
    BY <2>2, <2>3
<1>5. QED
  BY <1>3, <1>4 DEF NoSettorFails, Settors

LEMMA CoveredMore ==
  ASSUME NEW stk, IsSeq(stk), NEW f, Covered(stk, Len(stk)), f.kind \notin Waiting
  PROVE  Covered(Append(stk, f), Len(Append(stk, f)))
<1>1. PICK n : n = Len(stk)
  OBVIOUS
<1>2. PICK new : new = Append(stk, f)
  OBVIOUS
<1>3. /\ n \in Nat /\ Len(new) = n + 1 /\ new[n + 1] = f
      /\ \A i \in 1 .. n : new[i] = stk[i]
  BY <1>1, <1>2, SeqPush
<1>4. SUFFICES ASSUME NEW i \in 1 .. n + 1, new[i].kind \in Waiting
               PROVE  \E l \in i .. n + 1 : new[l].kind = "catch"
  BY <1>2, <1>3 DEF Covered
<1>5. i \in 1 .. n
  BY <1>3, <1>4
<1>6. stk[i].kind \in Waiting
  BY <1>3, <1>4, <1>5
<1>7. PICK l \in i .. n : stk[l].kind = "catch"
  BY <1>1, <1>5, <1>6 DEF Covered
<1>8. l \in 1 .. n /\ l \in i .. n + 1
  BY <1>3, <1>5
<1>9. QED
  BY <1>3, <1>7, <1>8

\* eval too deep.
LEMMA QuietDead ==
  ASSUME IInv, Quiet, NoSettorFails, Running, setup.fail \/ ~Escapes(stack),
         Raise(Append(stack, Plain("dead", 1)), handlers, "error"),
         UNCHANGED <<blocked, setup>>
  PROVE  Quiet'
<1>1. PICK f : f = Plain("dead", 1)
  OBVIOUS
<1>2. FrameOK(f) /\ f.kind = "dead"
  BY <1>1, FrameIs DEF Kinds
<1>3. PICK new : new = Append(stack, f)
  OBVIOUS
<1>4. PICK p : p = [at |-> Len(stack) + 1]
  OBVIOUS
<1>5. Good(stack, handlers, pushes, "run") /\ Top = stack[Len(stack)]
  BY Now DEF Running
<1>6. Good(new, handlers, pushes, "run")
  <2>1. p.at = Len(stack) + 1
    BY <1>4
  <2>2. QED
    BY <1>2, <1>3, <1>5, <2>1, GrowDead
<1>7. Above(stack[Len(stack)], f)
  BY <1>5 DEF Above, Running, Waiting
<1>8. Still(new, roots, blocked, Settors)
  <2>1. f.kind \notin Waiting \cup {"throw", "restore", "catcher"}
    BY <1>2 DEF Waiting
  <2>2. QED
    BY <1>3, <1>7, <2>1, QuietNow, StillPush
<1>9. Covered(new, Len(new))
  BY <1>2, <1>3, <1>5, NoEscape, CoveredMore DEF Waiting, Good, Frames
<1>10. new[Len(new)] = f
  BY <1>3, <1>5, SeqPush DEF Good, Frames
<1>11. QED
  BY <1>1, <1>2, <1>3, <1>6, <1>8, <1>9, <1>10, QuietRaises

\* A frame that the program enters.
LEMMA QuietPush ==
  ASSUME IInv, Quiet, Running, NEW f, f.kind \in {"call", "loop", "try", "bind", "store"},
         stack' = Append(stack, f), UNCHANGED <<roots, blocked, setup, mode>>
  PROVE  Quiet'
<1>1. Above(stack[Len(stack)], f)
  BY QuietNow DEF Above, Running, Waiting
<1>2. f.kind \notin Waiting \cup {"throw", "restore", "catcher"}
  BY DEF Waiting
<1>3. Still(Append(stack, f), roots, blocked, Settors)
  BY <1>1, <1>2, QuietNow, StillPush
<1>4. QED
  BY <1>3 DEF Quiet, Settors, Running

\* callsettor, for an operation in a new frame w.
LEMMA QuietSettor ==
  ASSUME IInv, Quiet, NoSettorFails, mode = "run", NEW w, NEW hs, NEW x \in Settors,
         w.kind \in Waiting, w.exc = NULL, Above(stack[Len(stack)], w),
         CallSettor(Append(stack, w), hs, x), UNCHANGED <<blocked, setup>>
  PROVE  Quiet'
<1>1. PICK one : one = Append(stack, w)
  OBVIOUS
<1>2. PICK s : s = Frame("settor", x, NULL, NULL, NoHandler, 1)
  OBVIOUS
<1>3. s.kind = "settor" /\ Settors # {}
  BY <1>2 DEF Frame
<1>4. Escapes(one)
  <2>1. PICK k : k = Len(stack) + 1
    OBVIOUS
  <2>2. k \in DOMAIN one /\ Len(one) = k /\ one[k] = w /\ k \in Nat
    BY <1>1, <2>1, Now, SeqPush DEF Good, Frames
  <2>3. \A j \in k .. k : j = k
    BY <2>2
  <2>4. QED
    BY <2>2, <2>3 DEF Escapes, Waiting
<1>5. ~setup.fail
  BY <1>3 DEF NoSettorFails, Settors
<1>6. stack' = Append(one, s) /\ UNCHANGED <<roots, mode>>
  BY <1>1, <1>2, <1>4, <1>5 DEF CallSettor, EnterEval
<1>7. Still(Append(one, s), roots, blocked, Settors)
  BY <1>1, <1>3, QuietNow, StillSettor
<1>8. QED
  BY <1>6, <1>7 DEF Quiet, Settors

\* varpush and vardef.
LEMMA QuietOperates ==
  ASSUME IInv, Quiet, NoSettorFails, Running,
         NEW wait \in {"push", "assign"}, NEW go \in {"bind", "store"}, NEW x, NEW v,
         WithSettor(stack, handlers, wait, go, x, v), UNCHANGED <<blocked, setup>>
  PROVE  Quiet'
<1>1. CASE /\ x \in Settors
           /\ CallSettor(Append(stack, Frame(wait, x, v, NULL, NoHandler, 0)), handlers, x)
  <2>1. PICK w : w = Frame(wait, x, v, NULL, NoHandler, 0)
    OBVIOUS
  <2>2. w.kind \in Waiting /\ w.exc = NULL
    BY <2>1 DEF Frame, Waiting
  <2>3. Above(stack[Len(stack)], w)
    BY QuietNow DEF Above, Running, Waiting
  <2>4. QED
    BY <1>1, <2>1, <2>2, <2>3, QuietSettor DEF Running
<1>2. CASE /\ stack' = Append(stack, Frame(go, x, v, NULL, NoHandler, 0))
           /\ UNCHANGED <<roots, mode>>
  <2>1. PICK f : f = Frame(go, x, v, NULL, NoHandler, 0)
    OBVIOUS
  <2>2. f.kind = go
    BY <2>1 DEF Frame
  <2>3. QED
    BY <1>2, <2>1, <2>2, QuietPush
<1>3. QED
  BY <1>1, <1>2 DEF WithSettor

\* varpop.
LEMMA QuietUnbinds ==
  ASSUME IInv, Quiet, NoSettorFails, mode = "run", Top.kind \in {"local", "throw"},
         StartPop, UNCHANGED <<blocked, setup>>
  PROVE  Quiet'
<1>1. PICK p : p = Last(pushes)
  OBVIOUS
<1>2. CASE /\ p.name \in Settors
           /\ CallSettor(Append(stack, Frame("pop", p.name, p.defn, NULL, NoHandler, 0)),
                         Append(handlers, Handler(Height + 1, TopPush, evaldepth)), p.name)
  <2>1. PICK w : w = Frame("pop", p.name, p.defn, NULL, NoHandler, 0)
    OBVIOUS
  <2>2. w.kind = "pop" /\ w.exc = NULL
    BY <2>1 DEF Frame
  <2>3. Above(stack[Len(stack)], w)
    BY <2>2, QuietNow DEF Above, Waiting
  <2>4. PICK hs : hs = Append(handlers, Handler(Height + 1, TopPush, evaldepth))
    OBVIOUS
  <2>5. w.kind \in Waiting
    BY <2>2 DEF Waiting
  <2>6. QED
    BY <1>2, <2>1, <2>2, <2>3, <2>4, <2>5, QuietSettor
<1>3. CASE /\ stack' = Append(stack, Frame("restore", p.name, p.defn, NULL, NoHandler, 0))
           /\ UNCHANGED <<roots, mode>>
  <2>1. PICK f : f = Frame("restore", p.name, p.defn, NULL, NoHandler, 0)
    OBVIOUS
  <2>2. f.kind = "restore" /\ f.exc = NULL
    BY <2>1 DEF Frame
  <2>3. Above(stack[Len(stack)], f)
    BY <2>2, QuietNow DEF Above, Waiting
  <2>4. f.kind \notin Waiting \cup {"throw", "catcher"}
    BY <2>2 DEF Waiting
  <2>5. Still(Append(stack, f), roots, blocked, Settors)
    BY <2>2, <2>3, <2>4, QuietNow, StillPush
  <2>6. QED
    BY <1>3, <2>1, <2>5 DEF Quiet, Settors
<1>4. QED
  BY <1>1, <1>2, <1>3 DEF StartPop, WithSettor

\* A frame that returns.
LEMMA QuietEnds ==
  ASSUME IInv, Quiet, Top.kind \notin {"top", "throw", "settor"},
         stack' = Return(1), mode' = "run", UNCHANGED <<roots, setup>>,
         blocked' = IF Top.kind = "catcher" THEN blocked - 1 ELSE blocked
  PROVE  Quiet'
<1>1. PICK b : b = IF Top.kind = "catcher" THEN blocked - 1 ELSE blocked
  OBVIOUS
<1>2. Still(Front(stack), roots, b, Settors)
  BY <1>1, QuietNow, StillDrop
<1>3. stack' = Front(stack)
  BY Now
<1>4. QED
  BY <1>1, <1>2, <1>3 DEF Quiet, Settors

\* A frame that goes on as f.
LEMMA QuietChanges ==
  ASSUME IInv, Quiet, Top.kind \in {"bind", "try", "catch", "catcher"}, NEW f,
         f.kind \in {"local", "try", "catch", "catcher"}, NEW b, NEW b1,
         b1 = IF Top.kind = "catcher" THEN blocked - 1 ELSE blocked,
         b = IF f.kind = "catcher" THEN b1 + 1 ELSE b1
  PROVE  Still(Append(Front(stack), f), roots, b, Settors)
<1>1. f.kind \notin Waiting \cup {"throw", "restore"}
  BY DEF Waiting
<1>2. QED
  BY <1>1, QuietNow, StillChange

LEMMA QuietBind ==
  ASSUME IInv, Quiet, Bind
  PROVE  Quiet'
<1>1. PICK f : f = Frame("local", Top.name, NULL, NULL, NoHandler, 0)
  OBVIOUS
<1>2. f.kind = "local" /\ Top.kind = "bind" /\ Return(1) = Front(stack)
  BY <1>1, Now DEF Frame, Bind
<1>3. Still(Append(Front(stack), f), roots, blocked, Settors)
  BY <1>2, QuietChanges
<1>4. QED
  BY <1>1, <1>2, <1>3 DEF Bind, Quiet, Settors

\* callsettor returns the value v.
LEMMA QuietSettorValue ==
  ASSUME IInv, Quiet, Top.kind = "settor", NEW v, SettorValue(v), mode' = "run",
         UNCHANGED <<roots, blocked, setup>>
  PROVE  Quiet'
<1>1. PICK n : n = Len(stack)
  OBVIOUS
<1>2. /\ n \in Nat \ {0} /\ DOMAIN stack = 1 .. n /\ n # 1 /\ Top = stack[n]
      /\ Height = n /\ Good(stack, handlers, pushes, mode)
      /\ Return(2) = Front(Front(stack))
  BY <1>1, QuietNow, Now, ReturnIs DEF Good, Frames
<1>3. stack[n - 1].kind \in Waiting /\ FrameOK(stack[n - 1])
  BY <1>2 DEF Good, Waits, Frames, Waiting
<1>4. PICK f : f = [stack[n - 1] EXCEPT !.kind = After(stack[n - 1].kind), !.val = v]
  OBVIOUS
<1>5. f.kind = After(stack[n - 1].kind) /\ f.exc = stack[n - 1].exc
  BY <1>3, <1>4 DEF FrameOK
<1>6. Still(Append(Front(Front(stack)), f), roots, blocked, Settors)
  BY <1>1, <1>2, <1>3, <1>5, QuietNow, StillAfter
<1>7. stack' = Append(Front(Front(stack)), f)
  BY <1>2, <1>4 DEF SettorValue
<1>8. QED
  BY <1>6, <1>7 DEF Quiet, Settors

LEMMA QuietRestore ==
  ASSUME IInv, Quiet, Restore
  PROVE  Quiet'
<1>1. PICK n : n = Len(stack)
  OBVIOUS
<1>2. /\ n \in Nat \ {0} /\ DOMAIN stack = 1 .. n /\ Top = stack[n] /\ Top.kind = "restore"
      /\ n # 1 /\ Calm(stack) /\ Height = n /\ IsSeq(stack) /\ stack # <<>>
      /\ Return(1) = Front(stack) /\ Return(2) = Front(Front(stack))
  BY <1>1, QuietNow, Now, ReturnIs DEF Restore, Good, Frames
<1>3. Top.exc = NULL
  BY <1>2 DEF Calm
<1>4. Still(Front(stack), roots, blocked, Settors)
  BY <1>1, <1>2, QuietNow, StillDrop
<1>5. PICK front : front = Front(stack)
  OBVIOUS
<1>6. Len(front) = n - 1 /\ front[Len(front)] = stack[n - 1]
  <2>1. Len(front) = n - 1 /\ \A i \in 1 .. n - 1 : front[i] = stack[i]
    BY <1>1, <1>2, <1>5, SeqPop
  <2>2. n - 1 \in 1 .. n - 1
    BY <1>2
  <2>3. QED
    BY <2>1, <2>2
<1>7. CASE stack[n - 1].kind = "local"
  <2>1. Len(front) # 1
    <3>1. n - 1 \in DOMAIN stack /\ stack[1].kind = "top"
      BY <1>2, Now DEF Good, Frames
    <3>2. n - 1 # 1
      BY <1>7, <3>1
    <3>3. QED
      BY <1>6, <3>2
  <2>2. Still(Front(front), roots, blocked, Settors)
    BY <1>4, <1>5, <1>6, <1>7, <2>1, StillDrop
  <2>3. stack' = Front(front)
    BY <1>2, <1>3, <1>5, <1>7 DEF Restore
  <2>4. QED
    BY <1>3, <2>2, <2>3 DEF Restore, Quiet, Settors
<1>8. CASE stack[n - 1].kind # "local"
  <2>1. stack' = Front(stack)
    BY <1>2, <1>3, <1>8 DEF Restore
  <2>2. QED
    BY <1>3, <1>4, <2>1 DEF Restore, Quiet, Settors
<1>9. QED
  BY <1>7, <1>8

LEMMA QuietCatchBody ==
  ASSUME IInv, Quiet, CatchBody
  PROVE  Quiet'
<1>1. PICK f : f = Plain("catch", 2)
  OBVIOUS
<1>2. PICK stk : stk = Append(Front(stack), f)
  OBVIOUS
<1>3. PICK hs : hs = Append(handlers, Handler(Height, TopPush, evaldepth))
  OBVIOUS
<1>4. /\ f.kind = "catch" /\ Top.kind = "try" /\ mode = "run"
      /\ Return(1) = Front(stack) /\ IsSeq(stack) /\ stack # <<>>
  BY <1>1, Now DEF Plain, Frame, CatchBody, Good, Frames
<1>5. Good(stk, hs, pushes, "run")
  BY <1>1, <1>2, <1>3, <1>4, CatchArms
<1>6. Still(stk, roots, blocked, Settors)
  BY <1>2, <1>4, QuietChanges
<1>7. PICK n : n = Len(stk)
  OBVIOUS
<1>8. stk[n] = f /\ n \in Nat \ {0}
  BY <1>2, <1>4, <1>7, SeqChange
<1>9. Covered(stk, n)
  <2>1. \A i \in 1 .. n : n \in i .. n
    BY <1>8
  <2>2. QED
    BY <1>4, <1>8, <2>1 DEF Covered
<1>10. CASE Raise(stk, hs, "error")
  BY <1>4, <1>5, <1>6, <1>7, <1>8, <1>9, <1>10, QuietRaises DEF CatchBody
<1>11. CASE stack' = stk /\ UNCHANGED <<roots, mode>>
  BY <1>4, <1>6, <1>11 DEF CatchBody, Quiet, Settors
<1>12. QED
  BY <1>1, <1>2, <1>3, <1>4, <1>10, <1>11 DEF CatchBody

LEMMA QuietThrow ==
  ASSUME IInv, Quiet, NoSettorFails, NEW e, Throw(e)
  PROVE  Quiet'
<1>1. Good(stack, handlers, pushes, "run") /\ Still(stack, roots, blocked, Settors)
  BY Now, QuietNow DEF Throw, Running
<1>2. stack[Len(stack)].kind \notin {"throw", "try", "restore", "bind", "store"}
  BY QuietNow DEF Throw, Running
<1>3. e = "return" \/ Covered(stack, Len(stack))
  BY NoEscape DEF Throw
<1>4. Raise(stack, handlers, e) /\ blocked' = blocked /\ setup' = setup
  BY DEF Throw
<1>5. QED
  BY <1>1, <1>2, <1>3, <1>4, QuietRaises

LEMMA QuietJump ==
  ASSUME IInv, Quiet, Jump
  PROVE  Quiet'
<1>1. PICK m : m = Top.to.at
  OBVIOUS
<1>2. PICK new : new = stack'
  OBVIOUS
<1>3. /\ Good(stack, handlers, pushes, "run") /\ Still(stack, roots, blocked, Settors)
      /\ Top = stack[Len(stack)] /\ Top.kind = "throw"
  BY Now, QuietNow DEF Jump
<1>4. /\ IsSeq(new) /\ Len(new) = m /\ \A i \in 1 .. m - 1 : new[i] = stack[i]
      /\ new[m].kind = stack[m].kind
  BY <1>1, <1>2, Lands
<1>5. /\ Still(new, Front(roots), blocked, Settors) /\ new[m].kind # "pop"
      /\ Top.exc # "return" => Covered(new, m)
  BY <1>1, <1>3, <1>4, StillJump
<1>6. /\ roots' = Front(roots) /\ exception' = Top.exc /\ mode' = "caught"
      /\ blocked' = blocked /\ setup' = setup
  BY DEF Jump
<1>7. Top' = new[m]
  BY <1>2, <1>4 DEF Top, Height
<1>8. QED
  BY <1>2, <1>4, <1>5, <1>6, <1>7 DEF Quiet, Settors

\* An exception that is no return has not come to a frame under a settor's.
LEMMA QuietCovered ==
  ASSUME IInv, Quiet, mode = "caught", exception # "return"
  PROVE  Top.kind # "settor" /\ Covered(stack, Len(stack))
<1>1. PICK n : n = Len(stack)
  OBVIOUS
<1>2. n \in Nat \ {0} /\ DOMAIN stack = 1 .. n /\ n \in 1 .. n /\ Top = stack[n]
  BY <1>1, QuietNow
<1>3. Covered(stack, n)
  BY <1>1 DEF Quiet
<1>4. ASSUME Top.kind = "settor" PROVE FALSE
  <2>1. n > 1 /\ stack[n - 1].kind \in Waiting
    BY <1>2, <1>4, Now DEF Good, Waits, Waiting
  <2>2. n - 1 \in 1 .. n
    BY <1>2, <2>1
  <2>3. PICK l \in n - 1 .. n : stack[l].kind = "catch"
    BY <1>3, <2>1, <2>2 DEF Covered
  <2>4. l = n - 1 \/ l = n
    BY <1>2
  <2>5. QED
    BY <1>2, <1>4, <2>1, <2>3, <2>4 DEF Waiting
<1>5. QED
  BY <1>1, <1>3, <1>4

LEMMA QuietRethrows ==
  ASSUME IInv, Quiet, mode = "caught", Rethrow, Top.kind \in {"call", "loop", "catcher"},
         blocked' = IF Top.kind = "catcher" THEN blocked - 1 ELSE blocked, setup' = setup
  PROVE  Quiet'
<1>1. PICK f : f = [Top EXCEPT !.kind = "dead"]
  OBVIOUS
<1>2. PICK front : front = Front(stack)
  OBVIOUS
<1>3. PICK new : new = Append(front, f)
  OBVIOUS
<1>4. PICK b : b = IF Top.kind = "catcher" THEN blocked - 1 ELSE blocked
  OBVIOUS
<1>5. PICK n : n = Len(stack)
  OBVIOUS
<1>6. /\ Good(stack, handlers, pushes, "caught") /\ Top = stack[n] /\ FrameOK(Top)
      /\ n \in Nat \ {0} /\ n # 1 /\ Return(1) = front
      /\ IsSeq(stack) /\ stack # <<>>
  BY <1>2, <1>5, Now, QuietNow, Sizes DEF Good, Frames
<1>7. FrameOK(f) /\ f.kind = "dead"
  BY <1>1, <1>6 DEF FrameOK, Kinds
<1>8. Good(new, handlers, pushes, "run")
  BY <1>2, <1>3, <1>5, <1>6, <1>7, Kill DEF Armed
<1>9. Still(new, roots, b, Settors)
  <2>1. f.kind \notin Waiting \cup {"throw", "restore", "catcher"}
    BY <1>7 DEF Waiting
  <2>2. QED
    BY <1>2, <1>3, <1>4, <1>5, <1>6, <2>1, QuietNow, StillChange
<1>10. /\ Len(new) = n /\ new[n] = f /\ IsSeq(front) /\ Len(front) = n - 1
       /\ \A i \in 1 .. n - 1 : front[i] = stack[i]
  BY <1>2, <1>3, <1>5, <1>6, SeqChange, SeqPop
<1>11. exception = "return" \/ Covered(new, n)
  <2>1. SUFFICES ASSUME exception # "return" PROVE Covered(new, n)
    OBVIOUS
  <2>2. Covered(stack, n)
    BY <1>5, <2>1, QuietCovered
  <2>3. Covered(front, n - 1)
    <3>1. SUFFICES ASSUME NEW i \in 1 .. n - 1, front[i].kind \in Waiting
                   PROVE  \E l \in i .. n - 1 : front[l].kind = "catch"
      BY DEF Covered
    <3>2. i \in 1 .. n /\ stack[i].kind \in Waiting
      BY <1>6, <1>10, <3>1
    <3>3. PICK l \in i .. n : stack[l].kind = "catch"
      BY <2>2, <3>2 DEF Covered
    <3>4. l # n
      BY <1>6, <3>3
    <3>5. l \in i .. n - 1 /\ l \in 1 .. n - 1
      BY <1>6, <3>1, <3>3, <3>4
    <3>6. QED
      BY <1>10, <3>3, <3>5
  <2>4. f.kind \notin Waiting
    BY <1>7 DEF Waiting
  <2>5. QED
    BY <1>3, <1>10, <2>3, <2>4, CoveredMore
<1>12. Raise(new, handlers, exception)
  BY <1>1, <1>3, <1>6 DEF Rethrow
<1>13. QED
  BY <1>4, <1>7, <1>8, <1>9, <1>10, <1>11, <1>12, QuietRaises

LEMMA QuietCaught ==
  ASSUME IInv, Quiet, NoSettorFails
  PROVE  /\ CallCaught \/ LoopCaught \/ SettorCaught \/ PopCaught => Quiet'
         /\ CatchCaught \/ CatcherCaught \/ TopCaught => Quiet'
<1>1. ASSUME CallCaught PROVE Quiet'
  BY <1>1, QuietEnds, QuietRethrows DEF CallCaught, Caught
<1>2. ASSUME LoopCaught PROVE Quiet'
  BY <1>2, QuietEnds, QuietRethrows DEF LoopCaught, Caught
<1>3. ASSUME SettorCaught PROVE Quiet'
  <2>1. mode = "caught" /\ Top.kind = "settor"
    BY <1>3 DEF SettorCaught, Caught
  <2>2. exception = "return"
    BY <2>1, QuietCovered
  <2>3. PICK v : SettorValue(v)
    BY <1>3, <2>2 DEF SettorCaught
  <2>4. mode' = "run" /\ UNCHANGED <<roots, blocked, setup>>
    BY <1>3, <2>2 DEF SettorCaught
  <2>5. QED
    BY <2>1, <2>3, <2>4, QuietSettorValue
<1>4. ~PopCaught
  BY DEF PopCaught, Caught, Quiet
<1>5. ASSUME CatchCaught PROVE Quiet'
  <2>1. PICK f : f = Plain("catcher", 1)
    OBVIOUS
  <2>2. f.kind = "catcher" /\ Top.kind = "catch" /\ Return(1) = Front(stack)
    BY <1>5, <2>1, Now DEF Plain, Frame, CatchCaught, Caught
  <2>3. Still(Append(Front(stack), f), roots, blocked + 1, Settors)
    BY <2>2, QuietChanges
  <2>4. QED
    BY <1>5, <2>1, <2>2, <2>3 DEF CatchCaught, Quiet, Settors
<1>6. ASSUME CatcherCaught PROVE Quiet'
  <2>1. CASE exception = "retry"
    <3>1. PICK f : f = Plain("try", 1)
      OBVIOUS
    <3>2. f.kind = "try" /\ Top.kind = "catcher" /\ Return(1) = Front(stack)
      BY <1>6, <3>1, Now DEF Plain, Frame, CatcherCaught, Caught
    <3>3. Still(Append(Front(stack), f), roots, blocked - 1, Settors)
      BY <3>2, QuietChanges
    <3>4. QED
      BY <1>6, <2>1, <3>1, <3>2, <3>3 DEF CatcherCaught, Quiet, Settors
  <2>2. CASE exception # "retry"
    BY <1>6, <2>2, QuietRethrows DEF CatcherCaught, Caught
  <2>3. QED
    BY <2>1, <2>2
<1>7. ASSUME TopCaught PROVE Quiet'
  BY <1>7 DEF TopCaught, Quiet, Settors
<1>8. QED
  BY <1>1, <1>2, <1>3, <1>4, <1>5, <1>6, <1>7

LEMMA InitQuiet ==
  ASSUME Init
  PROVE  Quiet
<1>1. PICK f : f = Plain("top", 0)
  OBVIOUS
<1>2. f.kind = "top"
  BY <1>1 DEF Plain, Frame
<1>3. /\ IsSeq(stack) /\ stack # <<>> /\ Len(stack) = 1 /\ DOMAIN stack = {1} /\ stack[1] = f
  BY <1>1, SeqOne DEF Init
<1>4. mode = "run" /\ roots = <<>> /\ blocked = 0
  BY DEF Init
<1>5. Calm(stack)
  BY <1>2, <1>3 DEF Calm
<1>6. ASSUME NEW kind, kind # "top" PROVE Of(stack, kind) = {}
  <2>1. \A i \in 1 .. 1 : i = 1
    OBVIOUS
  <2>2. QED
    BY <1>2, <1>3, <1>6, <2>1 DEF Of
<1>7. Of(stack, "throw") = {} /\ Of(stack, "catcher") = {}
  BY <1>6
<1>8. Rooted(stack, roots)
  <2>1. roots \in Seq({}) /\ DOMAIN roots = {}
    BY <1>4
  <2>2. IsSeq(roots)
    BY <2>1 DEF IsSeq
  <2>3. QED
    BY <1>7, <2>1, <2>2 DEF Rooted
<1>9. Cardinality(Of(stack, "catcher")) = 0
  BY <1>7, FS_EmptySet
<1>10. \A i \in DOMAIN stack : stack[i].kind \notin Waiting
  BY <1>2, <1>3 DEF Waiting
<1>11. Still(stack, roots, blocked, Settors)
  BY <1>3, <1>4, <1>5, <1>8, <1>9, <1>10 DEF Still
<1>12. QED
  BY <1>4, <1>11 DEF Quiet

LEMMA NextQuiet ==
  ASSUME IInv, Quiet, NoSettorFails, [Next]_uvars
  PROVE  Quiet'
<1>1. ASSUME NEW named \in BOOLEAN, Call(named) PROVE Quiet'
  <2>1. /\ EnterEval(stack, handlers, Frame("call", Zero, NULL, NULL, NoHandler, 1),
                     Append(handlers, Handler(Height + 1, TopPush, evaldepth + 1)))
        /\ Running /\ UNCHANGED <<blocked, setup>>
    BY <1>1 DEF Call
  <2>2. PICK f : f = Frame("call", Zero, NULL, NULL, NoHandler, 1)
    OBVIOUS
  <2>3. f.kind = "call"
    BY <2>2 DEF Frame
  <2>4. CASE /\ setup.fail \/ ~Escapes(stack)
             /\ Raise(Append(stack, Plain("dead", 1)), handlers, "error")
    BY <2>1, <2>4, QuietDead
  <2>5. CASE stack' = Append(stack, f) /\ UNCHANGED <<roots, mode>>
    BY <2>1, <2>3, <2>5, QuietPush
  <2>6. QED
    BY <2>1, <2>2, <2>4, <2>5 DEF EnterEval
<1>2. ASSUME NEW x, NEW v, Local(x, v) \/ Assign(x, v) PROVE Quiet'
  BY <1>2, QuietOperates DEF Local, Assign
<1>3. ASSUME NEW e, Throw(e) PROVE Quiet'
  BY <1>3, QuietThrow
<1>4. ASSUME NEW v, SettorEnd(v) PROVE Quiet'
  BY <1>4, QuietSettorValue DEF SettorEnd, Running
<1>5. CASE Loop
  <2>1. Plain("loop", 0).kind = "loop"
    BY DEF Plain, Frame
  <2>2. QED
    BY <1>5, <2>1, QuietPush DEF Loop
<1>6. CASE Catch
  <2>1. PICK f : f = Plain("try", 1)
    OBVIOUS
  <2>2. f.kind = "try" /\ EnterEval(stack, handlers, f, handlers)
        /\ Running /\ UNCHANGED <<blocked, setup>>
    BY <1>6, <2>1 DEF Plain, Frame, Catch
  <2>3. CASE /\ setup.fail \/ ~Escapes(stack)
             /\ Raise(Append(stack, Plain("dead", 1)), handlers, "error")
    BY <2>2, <2>3, QuietDead
  <2>4. CASE stack' = Append(stack, f) /\ UNCHANGED <<roots, mode>>
    BY <2>2, <2>4, QuietPush
  <2>5. QED
    BY <2>2, <2>3, <2>4 DEF EnterEval
<1>7. CASE CallEnd \/ LoopEnd \/ CatchEnd \/ CatcherEnd
  BY <1>7, QuietEnds DEF CallEnd, LoopEnd, CatchEnd, CatcherEnd, Running
<1>8. CASE LocalEnd
  BY <1>8, QuietUnbinds DEF LocalEnd, Running
<1>9. CASE Bind
  BY <1>9, QuietBind
<1>10. CASE Store
  BY <1>10, QuietEnds DEF Store
<1>11. CASE Restore
  BY <1>11, QuietRestore
<1>12. CASE CatchBody
  BY <1>12, QuietCatchBody
<1>13. CASE UnwindPush
  BY <1>13, QuietUnbinds DEF UnwindPush
<1>14. CASE Jump
  BY <1>14, QuietJump
<1>15. CASE UNCHANGED uvars
  BY <1>15 DEF uvars, Quiet, Settors, Top, Height
<1>16. QED
  BY <1>1, <1>2, <1>3, <1>4, <1>5, <1>6, <1>7, <1>8, <1>9, <1>10, <1>11, <1>12, <1>13,
     <1>14, <1>15, QuietCaught DEF Next, Program, Machinery, Ended

LEMMA QuietInvariance == Spec => [](IInv /\ (NoSettorFails => Quiet))
<1>1. Init => IInv /\ Quiet
  BY InitInv, InitQuiet
<1>2. ASSUME [Next]_uvars PROVE setup' = setup
  BY <1>2 DEF Next, Program, Machinery, Ended, uvars, Call, Local, Assign, Throw, SettorEnd,
     Loop, Catch, CallEnd, LoopEnd, LocalEnd, CatchEnd, CatcherEnd, Bind, Store, Restore,
     CatchBody, UnwindPush, Jump, CallCaught, SettorCaught, LoopCaught, PopCaught,
     CatchCaught, CatcherCaught, TopCaught
<1>3. ASSUME IInv, NoSettorFails => Quiet, [Next]_uvars
      PROVE  (IInv /\ (NoSettorFails => Quiet))'
  <2>1. IInv'
    BY <1>3, NextInv
  <2>2. NoSettorFails' => NoSettorFails
    BY <1>2, <1>3 DEF NoSettorFails
  <2>3. NoSettorFails => Quiet'
    BY <1>3, NextQuiet
  <2>4. QED
    BY <2>1, <2>2, <2>3
<1>4. QED
  BY <1>1, <1>3, PTL DEF Spec

\* Where no settor fails, no jump leaves anything behind, however many throws,
\* catchers and varpops are nested: exceptionrootlist holds the roots of the throws
\* in progress, in the order of the stack, and signals are blocked once for each
\* catcher that runs.
THEOREM NothingIsLeft == Spec => []NothingLeft
<1>1. IInv /\ (NoSettorFails => Quiet) => NothingLeft
  <2>1. SUFFICES ASSUME IInv, Quiet, NoSettorFails
                 PROVE  /\ \A i, j \in DOMAIN roots : i < j => roots[i] < roots[j]
                        /\ {roots[i] : i \in DOMAIN roots} = Of(stack, "throw")
                        /\ blocked = Cardinality(Of(stack, "catcher"))
    BY DEF NothingLeft, Of, Height
  <2>2. QED
    BY <2>1 DEF Quiet, Still, Rooted
<1>2. QED
  BY <1>1, QuietInvariance, PTL

\* Where no settor fails, an exception goes to the innermost frame that has a
\* handler, be it in the middle of a throw or a varpop, and there is always one.
THEOREM ReachesInnermost == Spec => []InnermostCatches
<1>1. IInv /\ (NoSettorFails => Quiet) => InnermostCatches
  <2>1. SUFFICES ASSUME IInv, Quiet, NoSettorFails PROVE GoesInnermost /\ mode # "abort"
    BY DEF InnermostCatches
  <2>2. SUFFICES ASSUME NEW i \in 1 .. Height, stack[i].kind = "throw",
                        NEW j \in stack[i].to.at + 1 .. i
                 PROVE  stack[j].kind \notin Armed
    BY <2>1 DEF GoesInnermost, Quiet
  <2>3. i \in DOMAIN stack /\ DOMAIN stack = 1 .. Height /\ Calm(stack)
    BY <2>1, <2>2, QuietNow DEF Height
  <2>4. stack[i].to.at \in 1 .. Height
    BY <2>1, <2>2, <2>3, Now DEF Good, Throws, ThrowOK, HandlerOK
  <2>5. PICK m : m = stack[i].to.at
    OBVIOUS
  <2>6. j \in 1 .. i /\ m < j
    BY <2>2, <2>4, <2>5
  <2>7. QED
    BY <2>2, <2>3, <2>5, <2>6 DEF Calm, Innermost
<1>2. QED
  BY <1>1, QuietInvariance, PTL

=============================================================================
