--------------------------------- MODULE Gc ---------------------------------
(***************************************************************************)
(* gc.c: the copying collector, in the steps in which it scans, and        *)
(* gcalloc.  Objects keep their names when they are copied; what tells a   *)
(* copy that has been scanned, so that its pointers lead to copies, from   *)
(* one whose pointers still lead to the old space is the set done.         *)
(*                                                                         *)
(* The program builds trees, as the evaluator does: a new object points to *)
(* some of those that are rooted last, and takes their place there.        *)
(***************************************************************************)
EXTENDS Integers, Sequences, FiniteSets, SequencesExt

CONSTANTS
  Objects,       \* names of objects
  Sizes,         \* sizes of objects with their tags
  TagSize,       \* sizeof (Tag *)
  MIN_minspace,
  MaxKids,       \* bound: the pointers of an object
  MaxBlocked,    \* bound: nested gcdisable
  MaxSpaces,     \* bound: objects are only allocated up to so many spaces
  MaxMinspace    \* bound: objects are only allocated up to this minspace

ASSUME SizeAssumption ==
  /\ TagSize \in Nat \ {0} /\ MIN_minspace \in Nat \ {0}
  /\ Sizes \subseteq Nat /\ \A n \in Sizes : n >= TagSize
ASSUME ObjectAssumption == Objects \subseteq Nat /\ IsFiniteSet(Objects)
ASSUME BoundAssumption == {MaxKids, MaxBlocked, MaxSpaces, MaxMinspace} \subseteq Nat

VARIABLES
  new,        \* the spaces, the one that is filled last: [cap, objs]
  minspace,
  gcblocked,  \* gcdisable's nesting; the collector's own is its phase
  sizes,      \* of the allocated objects
  refs,       \* their pointers
  roots,      \* the root list, innermost last
  request,    \* the object that gcalloc is asked for: [size, kids], or None
  phase,      \* "run", "roots", "scan", or "lost"
  at,         \* where the collector is: [root, sp, obj, front, scanned]
  done,       \* the objects in new whose pointers have been forwarded
  stale       \* objects that were left with pointers to the old space

vars == <<new, minspace, gcblocked, sizes, refs, roots, request, phase, at, done, stale>>

None == [size |-> 0, kids |-> 0]

Nowhere == [root |-> 0, sp |-> 0, obj |-> 0, front |-> 0, scanned |-> 0]

Space(size) == [cap |-> size, objs |-> <<>>]

-----------------------------------------------------------------------------
\* The sum of a list of sizes.
Total(f) ==
  LET upto[i \in 0 .. Len(f)] == IF i = 0 THEN 0 ELSE upto[i - 1] + f[i]
  IN  upto[Len(f)]

Used(sp) == Total([i \in DOMAIN sp.objs |-> sizes[sp.objs[i]]])

InSpaces(s) == UNION {ToSet(s[i].objs) : i \in DOMAIN s}

Fits_Untagged(sp, n) == Used(sp) + n - TagSize <= sp.cap   \* mutant: the tag is not counted

Fits(sp, n) == Used(sp) + n <= sp.cap

Put(s, o) == [s EXCEPT ![Len(s)].objs = Append(@, o)]

\* gcalloc: minspace < nbytes.
Raised(m, n) == IF m < n - TagSize THEN n ELSE m

\* forward: the object is copied, unless it has been; gcalloc adds a space, and
\* goes on for ever if that has no room either: stuck are such objects.
Forward(h, o) ==
  IF o \in InSpaces(h.new) THEN h
  ELSE IF Fits(Last(h.new), sizes[o]) THEN [h EXCEPT !.new = Put(@, o)]
  ELSE LET m == Raised(h.min, sizes[o])
       IN  [new |-> Append(h.new, [cap |-> m, objs |-> <<o>>]), min |-> m,
            stuck |-> IF sizes[o] <= m THEN h.stuck ELSE h.stuck \cup {o}]

Now == [new |-> new, min |-> minspace, stuck |-> {}]

\* A list of pointers, one after the other.
ForwardAll(os) ==
  LET after[i \in 0 .. Len(os)] == IF i = 0 THEN Now ELSE Forward(after[i - 1], os[i])
  IN  after[Len(os)]

-----------------------------------------------------------------------------
Init ==
  /\ new = <<Space(MIN_minspace)>> /\ minspace = MIN_minspace /\ gcblocked = 0
  /\ sizes = <<>> /\ refs = <<>> /\ roots = <<>>
  /\ request = None /\ phase = "run" /\ at = Nowhere
  /\ done = {} /\ stale = {}

\* The head of gc's loop.
Start(min) ==
  /\ phase' = "roots"
  /\ new' = <<Space(min)>>
  /\ minspace' = min
  /\ at' = [Nowhere EXCEPT !.root = Len(roots)]
  /\ done' = {}

Running == phase = "run"

\* gcdisable and gcenable.
Gcdisable ==
  /\ Running /\ request = None
  /\ gcblocked < MaxBlocked
  /\ gcblocked' = gcblocked + 1
  /\ UNCHANGED <<new, minspace, sizes, refs, roots, request, phase, at, done, stale>>

Gcenable ==
  /\ Running /\ request = None
  /\ gcblocked > 0
  /\ gcblocked' = gcblocked - 1
  /\ IF gcblocked = 1 /\ Len(new) > 1
     THEN Start(minspace)
     ELSE UNCHANGED <<new, minspace, phase, at, done>>
  /\ UNCHANGED <<sizes, refs, roots, request, stale>>

\* A root goes out of scope.
RefEnd ==
  /\ Running /\ request = None
  /\ roots # <<>>
  /\ roots' = Front(roots)
  /\ UNCHANGED <<new, minspace, gcblocked, sizes, refs, request, phase, at, done, stale>>

Free == Objects \ InSpaces(new)

\* gcalloc is called ...
Gcalloc(n, k) ==
  /\ Running /\ request = None
  /\ Free # {} /\ k <= Len(roots)
  /\ minspace <= MaxMinspace /\ Len(new) <= MaxSpaces
  /\ request' = [size |-> n, kids |-> k]
  /\ UNCHANGED <<new, minspace, gcblocked, sizes, refs, roots, phase, at, done, stale>>

\* ... finds room ...
GcallocFits ==
  /\ Running /\ request # None
  /\ Fits(Last(new), request.size)
  /\ LET o == CHOOSE x \in Free : \A y \in Free : x <= y
         n == Len(roots) - request.kids
     IN  /\ new' = Put(new, o)
         /\ sizes' = [x \in InSpaces(new) \cup {o} |-> IF x = o THEN request.size ELSE sizes[x]]
         /\ refs' = [x \in InSpaces(new) \cup {o} |->
                       IF x = o THEN SubSeq(roots, n + 1, Len(roots)) ELSE refs[x]]
         /\ roots' = Append(SubSeq(roots, 1, n), o)
         /\ done' = done \cup {o}
  /\ request' = None
  /\ UNCHANGED <<minspace, gcblocked, phase, at, stale>>

\* ... or adds a space ...
GcallocGrows ==
  /\ Running /\ request # None
  /\ ~Fits(Last(new), request.size)
  /\ gcblocked > 0
  /\ minspace' = Raised(minspace, request.size)
  /\ new' = Append(new, Space(minspace'))
  /\ UNCHANGED <<gcblocked, sizes, refs, roots, request, phase, at, done, stale>>

\* ... or collects, and tries again.
GcallocCollects ==
  /\ Running /\ request # None
  /\ ~Fits(Last(new), request.size)
  /\ gcblocked = 0
  /\ Start(Raised(minspace, request.size))
  /\ UNCHANGED <<gcblocked, sizes, refs, roots, request, stale>>

-----------------------------------------------------------------------------
(* The collector. *)

RootsDone_Early == at.root <= 1                  \* mutant: the outermost root is left out

RootsDone == at.root = 0

\* scanroots, and the head of scanspace's loop.
Scanroots ==
  /\ phase = "roots"
  /\ IF ~RootsDone
     THEN LET h == Forward(Now, roots[at.root])
          IN  /\ h.stuck = {}
              /\ new' = h.new /\ minspace' = h.min
              /\ at' = [at EXCEPT !.root = @ - 1]
              /\ phase' = phase
     ELSE /\ phase' = "scan"
          /\ at' = [root |-> 0, sp |-> Len(new), obj |-> 1, front |-> Len(new), scanned |-> 0]
          /\ UNCHANGED <<new, minspace>>
  /\ UNCHANGED <<gcblocked, sizes, refs, roots, request, done, stale>>

\* The end of the space: it moves while the space is scanned.
AtEnd_Early == at.obj >= Len(new[at.sp].objs)    \* mutant: the last object is left out

AtEnd == at.obj > Len(new[at.sp].objs)

\* The next object of the space.
ScanObject ==
  /\ phase = "scan" /\ ~AtEnd
  /\ LET o == new[at.sp].objs[at.obj]
         h == ForwardAll(refs[o])
     IN  /\ h.stuck = {}
         /\ new' = h.new /\ minspace' = h.min
         /\ done' = done \cup {o}
  /\ at' = [at EXCEPT !.obj = @ + 1]
  /\ UNCHANGED <<gcblocked, sizes, refs, roots, request, phase, stale>>

SpaceDone == phase = "scan" /\ AtEnd

\* The next space, of those that were there at the beginning of the round.
ScanNext ==
  /\ SpaceDone
  /\ at.sp - 1 > at.scanned
  /\ at' = [at EXCEPT !.sp = @ - 1, !.obj = 1]
  /\ UNCHANGED <<new, minspace, gcblocked, sizes, refs, roots, request, phase, done, stale>>

\* The next round, with the spaces that the last one has added.
ScanRound ==
  /\ SpaceDone
  /\ at.sp - 1 = at.scanned /\ Len(new) > at.front
  /\ at' = [at EXCEPT !.sp = Len(new), !.obj = 1, !.front = Len(new), !.scanned = at.front]
  /\ UNCHANGED <<new, minspace, gcblocked, sizes, refs, roots, request, phase, done, stale>>

Livedata == Total([i \in DOMAIN new |-> Used(new[i])])

Adjusted_Keep == minspace                        \* mutant: minspace does not follow livedata

Adjusted ==
  IF minspace < Livedata * 2 THEN Livedata * 4
  ELSE IF minspace > Livedata * 12 /\ minspace > MIN_minspace * 2 THEN minspace \div 2
  ELSE minspace

Missed == {o \in InSpaces(new) \ done : refs[o] # <<>>}

\* The rest of gc's loop: once more, if there are several spaces.  What an
\* object that has been missed points to is undefined, and so is the rest.
GcEnd ==
  /\ SpaceDone
  /\ at.sp - 1 = at.scanned /\ Len(new) = at.front
  /\ stale' = Missed
  /\ sizes' = [o \in InSpaces(new) |-> sizes[o]]
  /\ refs' = [o \in InSpaces(new) |-> refs[o]]
  /\ IF Len(new) > 1 /\ Missed = {}
     THEN Start(Adjusted)
     ELSE /\ phase' = IF Missed = {} THEN "run" ELSE "lost"
          /\ at' = Nowhere
          /\ minspace' = Adjusted
          /\ UNCHANGED <<new, done>>
  /\ UNCHANGED <<gcblocked, roots, request>>

Gc == Scanroots \/ ScanObject \/ ScanNext \/ ScanRound \/ GcEnd

Next ==
  \/ Gcdisable \/ Gcenable \/ RefEnd
  \/ \E n \in Sizes, k \in 0 .. MaxKids : Gcalloc(n, k)
  \/ GcallocFits \/ GcallocGrows \/ GcallocCollects
  \/ Gc

Spec == Init /\ [][Next]_vars

\* A call goes on until it returns.
FairSpec ==
  Spec /\ WF_vars(Gc) /\ WF_vars(GcallocFits) /\ WF_vars(GcallocGrows) /\ WF_vars(GcallocCollects)

-----------------------------------------------------------------------------
\* The types, and no space is filled past its top.
TypeOK ==
  /\ \A i \in DOMAIN new : new[i].cap \in Nat /\ new[i].objs \in Seq(Objects)
  /\ \A i \in DOMAIN new : Used(new[i]) <= new[i].cap
  /\ new # <<>> /\ minspace \in Nat /\ gcblocked \in 0 .. MaxBlocked
  /\ InSpaces(new) \subseteq DOMAIN sizes /\ DOMAIN refs = DOMAIN sizes
  /\ roots \in Seq(Objects)
  /\ request \in [size : Nat, kids : Nat] /\ phase \in {"run", "roots", "scan", "lost"}
  /\ done \subseteq InSpaces(new) /\ stale \subseteq Objects

\* scanspace scans new space until it is up to date: a collection leaves no
\* object with a pointer into the space that it frees.
UpToDate == stale = {}

\* It does so at least if the collection has not needed a second space.
OneSpaceUpToDate == [][GcEnd /\ Len(new) = 1 => stale' = {}]_vars

\* What the program can reach: it is in each set that has the roots and what its
\* own objects point to.
Reach(S) ==
  {o \in Objects : \A T \in SUBSET Objects :
     S \subseteq T /\ (\A x \in T \cap DOMAIN refs : ToSet(refs[x]) \subseteq T) => o \in T}

\* No object is in two places.
Once(s) ==
  \A i, j \in DOMAIN s : \A k \in DOMAIN s[i].objs, l \in DOMAIN s[j].objs :
    s[i].objs[k] = s[j].objs[l] => i = j /\ k = l

\* All that the program can reach is in a space, once, and so not freed; and no
\* space holds more than there is room for (gcalloc, forward, scanspace).
NothingLost ==
  /\ TypeOK
  /\ phase = "run" =>
       /\ Reach(ToSet(roots)) \subseteq InSpaces(new)
       /\ Once(new)

\* The space that gcalloc adds has room for the object it is added for, unless
\* the object is within a tag of minspace: minspace is compared without the tag.
WithinTag == request.size - TagSize <= minspace /\ minspace < request.size

GrowsEnough == [][GcallocGrows /\ ~WithinTag => Fits(Last(new'), request.size)]_vars

\* Half a space, rounded up: what minspace, twice the live data, leaves free.
SmallSizes == {n \in {0} \cup Sizes : 2 * n <= MIN_minspace + 1}

\* gcalloc returns if it is asked for a small object, and so does gcenable:
\* minspace grows until a collection needs one space only.
CallsEnd ==
  (request # None \/ phase \in {"roots", "scan"}) /\ request.size \in SmallSizes ~>
    \/ request = None /\ phase = "run"
    \/ phase = "lost"

=============================================================================
