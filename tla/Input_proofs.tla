---------------------------- MODULE Input_proofs ----------------------------
(***************************************************************************)
(* Proofs about Input, for any number of chunks, sources, signals and      *)
(* failing reads.                                                          *)
(***************************************************************************)
EXTENDS Input, FiniteSetTheorems, SequenceTheorems, WellFoundedInduction, TLAPS

Activation ==
    [kind  : {"fd", "string", "term"},
     fd    : -1..MaxDepth,
     fill  : {"fdfill", "stringfill", "eoffill"},
     inter : BOOLEAN,
     loop  : {"interactive", "batch", "once"},
     at    : {"loop", "lex", "here", "lexeof", "hereeof", "eval"}]

Sources ==
    /\ calls \in Seq(Activation)
    /\ Depth <= MaxDepth
    /\ openfds \subseteq 0..MaxDepth
    /\ OwnSource
    /\ \A i \in 1..Depth - 1 : calls[i].at = "eval"

-----------------------------------------------------------------------------
(* The four things that a step may do with the sources. *)

Keeps == UNCHANGED <<calls, input, openfds>>

\* The innermost source is at another point, and may have been closed.
Changes ==
    \E in \in Activation :
        /\ calls' = [calls EXCEPT ![Depth] = in]
        /\ in.fd \in {Top.fd, -1}
        /\ openfds' = openfds \ ({Top.fd} \ {in.fd})
        /\ input' = input

Leaves ==
    /\ calls' = Front(calls)
    /\ openfds' = openfds \ {Top.fd}
    /\ input' = Depth - 1

Enters ==
    \E in \in Activation :
        /\ Depth < MaxDepth /\ Top.at = "eval"
        /\ in.fd \notin openfds /\ in.at = "loop"
        /\ calls' = Append(calls, in)
        /\ input' = Depth + 1
        /\ openfds' = openfds \cup ({in.fd} \ {-1})

LEMMA Bounds == MaxDepth \in Nat \ {0} /\ MaxChunks \in Nat
BY InputAssumption

LEMMA TopType ==
    ASSUME Sources, calls # <<>>
    PROVE  /\ Depth \in Nat \ {0} /\ DOMAIN calls = 1..Depth
           /\ Top \in Activation /\ calls[input] = Top
<1>1. Depth \in Nat \ {0} /\ DOMAIN calls = 1..Depth
  BY EmptySeq, LenProperties DEF Sources, Depth
<1>2. QED
  BY <1>1, ElementOfSeq DEF Sources, OwnSource, Depth, Top

LEMMA KeepSources ==
    ASSUME Sources, Keeps
    PROVE  Sources'
BY DEF Sources, Keeps, OwnSource, Depth

LEMMA ChangeSources ==
    ASSUME Sources, calls # <<>>, Changes
    PROVE  Sources'
<1>1. PICK in \in Activation :
        /\ calls' = [calls EXCEPT ![Depth] = in]
        /\ in.fd \in {Top.fd, -1}
        /\ openfds' = openfds \ ({Top.fd} \ {in.fd})
        /\ input' = input
  BY DEF Changes
<1>2. Depth \in Nat \ {0} /\ DOMAIN calls = 1..Depth /\ calls \in Seq(Activation)
  BY TopType DEF Sources
<1>3. /\ calls' \in Seq(Activation) /\ Len(calls') = Depth
      /\ \A j \in 1..Depth : calls'[j] = IF j = Depth THEN in ELSE calls[j]
  BY <1>1, <1>2, ExceptSeq DEF Depth
<1>4. \A j \in 1..Depth : calls'[j].fd = IF j = Depth THEN in.fd ELSE calls[j].fd
  BY <1>3
<1>5. \A i, j \in 1..Depth : i # j /\ calls[i].fd # -1 => calls[i].fd # calls[j].fd
  BY DEF Sources, OwnSource
<1>6. ASSUME NEW i \in 1..Depth, NEW j \in 1..Depth, i # j, calls'[i].fd # -1
      PROVE  calls'[i].fd # calls'[j].fd
  <2>1. calls[Depth] = Top
    BY DEF Top
  <2>2. calls'[i].fd = calls[i].fd
    BY <1>1, <1>4, <1>6, <2>1
  <2>3. calls'[j].fd \in {calls[j].fd, -1}
    BY <1>1, <1>4, <2>1
  <2>4. QED
    BY <1>5, <1>6, <2>2, <2>3
<1>7. openfds' = {calls'[i].fd : i \in 1..Depth} \ {-1}
  <2>1. openfds = {calls[i].fd : i \in 1..Depth} \ {-1} /\ Top = calls[Depth]
    BY DEF Sources, OwnSource, Top
  <2>2. ASSUME NEW d \in openfds' PROVE d \in {calls'[i].fd : i \in 1..Depth} \ {-1}
    <3>1. PICK i \in 1..Depth : d = calls[i].fd /\ d # -1
      BY <1>1, <2>1, <2>2
    <3>2. calls'[i].fd = calls[i].fd
      BY <1>1, <1>4, <2>1, <2>2, <3>1
    <3>3. QED
      BY <3>1, <3>2
  <2>3. ASSUME NEW i \in 1..Depth, calls'[i].fd # -1 PROVE calls'[i].fd \in openfds'
    <3>1. calls'[i].fd = calls[i].fd /\ calls[i].fd \in openfds
      BY <1>1, <1>4, <2>1, <2>3
    <3>2. i # Depth => calls[i].fd # Top.fd
      BY <1>2, <1>5, <2>1, <2>3, <3>1
    <3>3. i = Depth => calls[i].fd = in.fd
      BY <1>4, <3>1
    <3>4. QED
      BY <1>1, <3>1, <3>2, <3>3
  <2>4. QED
    BY <2>2, <2>3
<1>8. Depth' = Depth /\ input' = Depth
  BY <1>1, <1>3 DEF Sources, OwnSource, Depth
<1>9. openfds' \subseteq 0..MaxDepth /\ Depth' <= MaxDepth
  BY <1>1, <1>8 DEF Sources
<1>10. \A i \in 1..Depth - 1 : calls'[i].at = "eval"
  BY <1>2, <1>3 DEF Sources
<1>11. QED
  BY <1>3, <1>6, <1>7, <1>8, <1>9, <1>10 DEF Sources, OwnSource

LEMMA LeaveSources ==
    ASSUME Sources, calls # <<>>, Leaves
    PROVE  /\ Sources'
           /\ calls' # <<>> => Top'.at = "eval"
<1>1. Depth \in Nat \ {0} /\ DOMAIN calls = 1..Depth /\ calls \in Seq(Activation)
  BY TopType DEF Sources
<1>2. calls' = SubSeq(calls, 1, Depth - 1)
  BY DEF Leaves, Front, Depth
<1>3. /\ calls' \in Seq(Activation) /\ Len(calls') = Depth - 1
      /\ \A i \in 1..Depth - 1 : calls'[i] = calls[i]
  <2>1. \A i \in 1..Depth - 1 : calls[i] \in Activation
    BY <1>1, ElementOfSeq DEF Depth
  <2>2. QED
    BY <1>1, <1>2, <2>1, SubSeqProperties
<1>4. /\ openfds = {calls[i].fd : i \in 1..Depth} \ {-1} /\ Top = calls[Depth]
      /\ \A i, j \in 1..Depth : i # j /\ calls[i].fd # -1 => calls[i].fd # calls[j].fd
  BY DEF Sources, OwnSource, Top
<1>5. openfds' = {calls'[i].fd : i \in 1..Depth - 1} \ {-1}
  <2>1. openfds' = openfds \ {calls[Depth].fd}
    BY <1>4 DEF Leaves
  <2>2. ASSUME NEW d \in openfds' PROVE d \in {calls'[i].fd : i \in 1..Depth - 1} \ {-1}
    <3>1. PICK i \in 1..Depth : d = calls[i].fd /\ d # -1
      BY <1>4, <2>1, <2>2
    <3>2. i \in 1..Depth - 1
      BY <1>1, <2>1, <2>2, <3>1
    <3>3. QED
      BY <1>3, <3>1, <3>2
  <2>3. ASSUME NEW i \in 1..Depth - 1, calls'[i].fd # -1 PROVE calls'[i].fd \in openfds'
    <3>1. i \in 1..Depth /\ Depth \in 1..Depth /\ i # Depth
      BY <1>1
    <3>2. calls[i].fd # calls[Depth].fd /\ calls'[i] = calls[i]
      BY <1>3, <1>4, <2>3, <3>1
    <3>3. QED
      BY <1>4, <2>1, <2>3, <3>1, <3>2
  <2>4. QED
    BY <2>2, <2>3
<1>6. Depth' = Depth - 1 /\ input' = Depth'
  BY <1>3 DEF Leaves, Depth
<1>7. \A i, j \in 1..Depth' : i # j /\ calls'[i].fd # -1 => calls'[i].fd # calls'[j].fd
  BY <1>1, <1>3, <1>4, <1>6
<1>8. openfds' \subseteq 0..MaxDepth /\ Depth' <= MaxDepth
  <2>1. openfds \subseteq 0..MaxDepth /\ openfds' = openfds \ {Top.fd} /\ Depth <= MaxDepth
    BY DEF Sources, Leaves
  <2>2. openfds' \subseteq 0..MaxDepth
    BY <2>1, Zenon
  <2>3. QED
    BY <1>1, <1>6, <2>1, <2>2, Bounds
<1>9. \A i \in 1..Depth' : calls'[i].at = "eval"
  BY <1>1, <1>3, <1>6 DEF Sources
<1>10. \A i \in 1..Depth' - 1 : calls'[i].at = "eval"
  BY <1>1, <1>6, <1>9
<1>11. calls' # <<>> => Top'.at = "eval"
  <2>1. calls' # <<>> => Depth' \in 1..Depth'
    BY <1>3, EmptySeq, LenProperties DEF Depth
  <2>2. QED
    BY <1>9, <2>1 DEF Top
<1>12. QED
  BY <1>3, <1>5, <1>6, <1>7, <1>8, <1>10, <1>11 DEF Sources, OwnSource

LEMMA EnterSources ==
    ASSUME Sources, calls # <<>>, Enters
    PROVE  Sources' /\ Len(calls') = Depth + 1 /\ Top'.at = "loop"
<1>1. PICK in \in Activation :
        /\ Depth < MaxDepth /\ Top.at = "eval"
        /\ in.fd \notin openfds /\ in.at = "loop"
        /\ calls' = Append(calls, in)
        /\ input' = Depth + 1
        /\ openfds' = openfds \cup ({in.fd} \ {-1})
  BY DEF Enters
<1>2. Depth \in Nat /\ calls \in Seq(Activation) /\ in.fd \in -1..MaxDepth
  BY LenProperties DEF Sources, Depth, Activation
<1>3. /\ calls' \in Seq(Activation) /\ Len(calls') = Depth + 1
      /\ \A i \in 1..Depth : calls'[i] = calls[i]
      /\ calls'[Depth + 1] = in
  BY <1>1, <1>2, AppendProperties DEF Depth
<1>4. /\ openfds = {calls[i].fd : i \in 1..Depth} \ {-1}
      /\ \A i, j \in 1..Depth : i # j /\ calls[i].fd # -1 => calls[i].fd # calls[j].fd
  BY DEF Sources, OwnSource
<1>5. \A i \in 1..Depth + 1 : i \in 1..Depth \/ i = Depth + 1
  BY <1>2
<1>6. \A i \in 1..Depth : calls[i].fd # -1 => calls[i].fd \in openfds
  BY <1>4
<1>7. ASSUME NEW i \in 1..Depth + 1, NEW j \in 1..Depth + 1, i # j, calls'[i].fd # -1
      PROVE  calls'[i].fd # calls'[j].fd
  <2>1. CASE i \in 1..Depth /\ j \in 1..Depth
    BY <1>3, <1>4, <1>7, <2>1
  <2>2. CASE i \in 1..Depth /\ j = Depth + 1
    BY <1>1, <1>3, <1>6, <1>7, <2>2
  <2>3. CASE i = Depth + 1 /\ j \in 1..Depth
    BY <1>1, <1>3, <1>6, <1>7, <2>3
  <2>4. QED
    BY <1>5, <1>7, <2>1, <2>2, <2>3
<1>8. openfds' = {calls'[i].fd : i \in 1..Depth + 1} \ {-1}
  <2>1. ASSUME NEW d \in openfds' PROVE d \in {calls'[i].fd : i \in 1..Depth + 1} \ {-1}
    <3>1. CASE d = in.fd
      BY <1>1, <1>2, <1>3, <1>4, <2>1, <3>1
    <3>2. CASE d \in openfds
      <4>1. PICK i \in 1..Depth : d = calls[i].fd /\ d # -1
        BY <1>4, <3>2
      <4>2. i \in 1..Depth + 1 /\ calls'[i] = calls[i]
        BY <1>2, <1>3
      <4>3. QED
        BY <4>1, <4>2
    <3>3. QED
      BY <1>1, <2>1, <3>1, <3>2
  <2>2. ASSUME NEW i \in 1..Depth + 1, calls'[i].fd # -1 PROVE calls'[i].fd \in openfds'
    BY <1>1, <1>3, <1>5, <1>6, <2>2
  <2>3. QED
    BY <2>1, <2>2
<1>9. Depth' = Depth + 1 /\ input' = Depth' /\ Depth' <= MaxDepth
  BY <1>1, <1>2, <1>3, Bounds DEF Depth
<1>10. openfds' \subseteq 0..MaxDepth
  <2>1. openfds \subseteq 0..MaxDepth
    BY DEF Sources
  <2>2. in.fd # -1 => in.fd \in 0..MaxDepth
    BY <1>2, Bounds
  <2>3. openfds' = openfds \cup ({in.fd} \ {-1})
    BY <1>1
  <2>4. QED
    BY <2>1, <2>2, <2>3, Zenon
<1>11. \A i \in 1..Depth : calls'[i].at = "eval"
  <2>1. \A i \in 1..Depth - 1 : calls[i].at = "eval"
    BY DEF Sources
  <2>2. calls[Depth].at = "eval"
    BY <1>1 DEF Top
  <2>3. QED
    BY <1>2, <1>3, <2>1, <2>2
<1>12. \A i \in 1..Depth' - 1 : calls'[i].at = "eval"
  BY <1>2, <1>9, <1>11
<1>13. Top'.at = "loop"
  BY <1>1, <1>3, <1>9 DEF Top
<1>14. QED
  BY <1>3, <1>7, <1>8, <1>9, <1>10, <1>12, <1>13 DEF Sources, OwnSource

\* There is a descriptor left for another source, as each has one at most.
LEMMA LowestIsFree ==
    ASSUME Sources, Depth < MaxDepth
    PROVE  LowestFree \in 0..MaxDepth /\ LowestFree \notin openfds
<1>. DEFINE free == (0..MaxDepth) \ openfds
            fds  == {calls[i].fd : i \in 1..Depth}
            f    == [i \in 1..Depth |-> calls[i].fd]
<1>1. Depth \in Nat
  BY LenProperties DEF Sources, Depth
<1>2. IsFiniteSet(1..Depth) /\ Cardinality(1..Depth) = Depth
  BY <1>1, FS_Interval
<1>3. f \in Surjection(1..Depth, fds)
  BY DEF Surjection
<1>4. IsFiniteSet(fds) /\ Cardinality(fds) <= Depth
  BY <1>2, <1>3, FS_Surjection
<1>5. openfds \subseteq fds
  BY DEF Sources, OwnSource
<1>6. IsFiniteSet(openfds) /\ Cardinality(openfds) <= Cardinality(fds)
  BY <1>4, <1>5, FS_Subset
<1>7. IsFiniteSet(0..MaxDepth) /\ Cardinality(0..MaxDepth) = MaxDepth + 1
  BY Bounds, FS_Interval
<1>8. Cardinality(openfds) \in Nat /\ Cardinality(fds) \in Nat
  BY <1>4, <1>6, FS_CardinalityType
<1>9. openfds # 0..MaxDepth
  BY <1>1, <1>4, <1>6, <1>7, <1>8, Bounds
<1>10. free # {} /\ free \subseteq Nat
  <2>1. openfds \subseteq 0..MaxDepth
    BY DEF Sources
  <2>2. free # {}
    BY <1>9, <2>1, Zenon
  <2>3. QED
    BY <2>2, Bounds
<1>11. \E x \in free : \A y \in free : x =< y
  <2>. HIDE DEF free
  <2>1. PICK x \in free : \A y \in free : <<y, x>> \notin OpToRel(<, Nat)
    BY <1>10, NatLessThanWellFounded, WFMin, Zenon
  <2>2. \A y \in free : ~ (y < x)
    BY <1>10, <2>1 DEF OpToRel
  <2>3. QED
    BY <1>10, <2>2
<1>12. LowestFree \in free
  BY <1>11 DEF LowestFree, Min
<1>13. QED
  BY <1>12

-----------------------------------------------------------------------------
(* What the steps of the parser and the loops do with the sources. *)

Moves == Keeps \/ Changes \/ Leaves \/ Enters

LEMMA MoveSources ==
    ASSUME Sources, Moves, calls # <<>>
    PROVE  Sources'
BY KeepSources, ChangeSources, LeaveSources, EnterSources DEF Moves

Points == {"loop", "lex", "here", "lexeof", "hereeof", "eval"}

LEMMA Going ==
    ASSUME Sources, calls # <<>>, NEW where \in Points, Goto(where)
    PROVE  /\ UNCHANGED <<input, openfds>> => Changes
           /\ Depth' = Depth /\ Len(calls') = Depth /\ calls' # <<>>
           /\ Top'.at = where /\ Top'.fill = Top.fill /\ calls'[Depth].at = where
<1>1. Depth \in Nat \ {0} /\ DOMAIN calls = 1..Depth /\ Top \in Activation
  BY TopType
<1>2. PICK in : in = [Top EXCEPT !.at = where]
  OBVIOUS
<1>3. in \in Activation /\ in.fd = Top.fd /\ in.at = where /\ in.fill = Top.fill
  BY <1>1, <1>2 DEF Activation, Points
<1>4. calls' = [calls EXCEPT ![Depth] = in]
  BY <1>2 DEF Goto, Top
<1>5. calls \in Seq(Activation) /\ Depth \in 1..Len(calls)
  BY <1>1 DEF Sources, Depth
<1>6. Len(calls') = Depth /\ calls'[Depth] = in /\ calls' \in Seq(Activation)
  BY <1>3, <1>4, <1>5, ExceptSeq DEF Depth
<1>7. calls' # <<>>
  BY <1>1, <1>6, EmptySeq
<1>8. UNCHANGED <<input, openfds>> => Changes
  <2>1. openfds = openfds \ ({Top.fd} \ {in.fd})
    BY <1>3
  <2>2. QED
    BY <1>3, <1>4, <2>1 DEF Changes
<1>9. QED
  BY <1>3, <1>6, <1>7, <1>8 DEF Depth, Top

LEMMA Staying ==
    ASSUME UNCHANGED calls
    PROVE  Depth' = Depth /\ Top' = Top
BY DEF Depth, Top

LEMMA Finishing ==
    ASSUME Sources, calls # <<>>, NEW bad, FinishParse(bad)
    PROVE  /\ Moves /\ error' = FALSE /\ exc' \in {exc, "error", "none"}
           /\ Quiet' => Top'.at \in {"loop", "eval"}
<1>1. CASE UNCHANGED <<calls, input, openfds>> /\ exc' = "error"
  BY <1>1 DEF Moves, Keeps, FinishParse, Quiet
<1>2. CASE \E where \in {"eval", "loop"} : Goto(where) /\ UNCHANGED <<input, openfds, exc>>
  BY <1>2, Going DEF Moves, FinishParse, Points
<1>3. CASE Return
  <2>1. Leaves
    BY <1>3 DEF Leaves, Return, Cleanup
  <2>2. Quiet' => Top'.at = "eval"
    BY <2>1, LeaveSources DEF Quiet, Running
  <2>3. QED
    BY <1>3, <2>1, <2>2 DEF Moves, Return, FinishParse
<1>4. QED
  BY <1>1, <1>2, <1>3 DEF FinishParse

LEMMA EndingFile ==
    ASSUME Sources, calls # <<>>,
           openfds' = IF AfterEof(Top).fd # Top.fd THEN openfds \ {Top.fd} ELSE openfds,
           UNCHANGED input,
           \E in \in {AfterEof(Top)} \cup {[AfterEof(Top) EXCEPT !.at = p] : p \in Points} :
              calls' = [calls EXCEPT ![Depth] = in]
    PROVE  /\ Changes /\ calls' # <<>>
           /\ \A p \in Points :
                calls' = [calls EXCEPT ![Depth] = [AfterEof(Top) EXCEPT !.at = p]] => Top'.at = p
<1>1. Top \in Activation /\ Depth \in 1..Len(calls) /\ calls \in Seq(Activation)
  BY TopType DEF Sources, Depth
<1>2. PICK in : /\ calls' = [calls EXCEPT ![Depth] = in]
                /\ in = AfterEof(Top) \/ \E p \in Points : in = [AfterEof(Top) EXCEPT !.at = p]
  OBVIOUS
<1>3. AfterEof(Top) \in Activation /\ AfterEof(Top).fd \in {Top.fd, -1}
  <2>1. Closed(Top) \in Activation /\ Closed(Top).fd = -1
    <3>1. -1 \in -1..MaxDepth
      BY Bounds
    <3>2. PICK shut : shut = Closed(Top)
      OBVIOUS
    <3>3. /\ shut = [kind |-> Top.kind, fd |-> -1, fill |-> "eoffill", inter |-> FALSE,
                    loop |-> Top.loop, at |-> Top.at]
      BY <1>1, <3>2 DEF Closed, Activation
    <3>4. shut \in Activation /\ shut.fd = -1
      BY <1>1, <3>1, <3>3 DEF Activation
    <3>5. QED
      BY <3>2, <3>4
  <2>2. /\ [Top EXCEPT !.fill = "eoffill"] \in Activation
        /\ [Top EXCEPT !.fill = "eoffill"].fd = Top.fd
    BY <1>1 DEF Activation
  <2>3. AfterEof(Top) \in {Top, Closed(Top), [Top EXCEPT !.fill = "eoffill"]}
    BY DEF AfterEof
  <2>4. QED
    BY <1>1, <2>1, <2>2, <2>3
<1>4. in \in Activation /\ in.fd = AfterEof(Top).fd
  BY <1>2, <1>3 DEF Activation, Points
<1>5. openfds' = openfds \ ({Top.fd} \ {in.fd})
  BY <1>4
<1>6. Changes
  BY <1>2, <1>3, <1>4, <1>5 DEF Changes
<1>7. calls' \in Seq(Activation) /\ Len(calls') = Depth /\ calls'[Depth] = in
  BY <1>1, <1>2, <1>4, ExceptSeq DEF Depth
<1>8. calls' # <<>> /\ Top' = in
  BY <1>1, <1>7, EmptySeq DEF Top, Depth
<1>9. ASSUME NEW p \in Points, calls' = [calls EXCEPT ![Depth] = [AfterEof(Top) EXCEPT !.at = p]]
      PROVE  Top'.at = p
  <2>1. calls'[Depth] = [AfterEof(Top) EXCEPT !.at = p]
    BY <1>1, <1>9, LenProperties DEF Depth
  <2>2. QED
    BY <1>3, <1>7, <1>8, <2>1 DEF Activation
<1>10. QED
  BY <1>6, <1>8, <1>9

-----------------------------------------------------------------------------
(* The invariant. *)

\* The documents queued are among those the command has had.
Queue ==
    /\ queued \in Nat /\ left \in Nat /\ queued + left <= MaxChunks
    /\ hereq \in Seq(1..queued) /\ IsInjective(hereq)

Flags ==
    /\ exc \in {"none", "eof", "error", "signal", "exit", "user"}
    /\ error \in BOOLEAN /\ ignoreeof \in BOOLEAN /\ aborted \in BOOLEAN
    /\ deep \in BOOLEAN /\ skip \in BOOLEAN

Limited ==
    /\ limits \in Limits
    /\ signals \in 0..limits.signals /\ failures \in 0..limits.failures

\* Where no read fails, the message is that of the parse in progress.
ErrorInside ==
    limits.failures = 0 =>
        /\ ~aborted
        /\ error => exc = "none" /\ calls # <<>> /\ Top.at \notin {"loop", "eval"}

\* While here documents are being read, there is one.
HereOpen == Quiet /\ Top.at \in {"here", "hereeof"} => hereq # <<>>

IInv ==
    Sources /\ Queue /\ Flags /\ Limited /\ ErrorInside /\ HereOpen /\ IgnoreHere

\* What a step that is not the parser's leaves alone.
LEMMA QueueKept ==
    ASSUME Queue, UNCHANGED <<queued, left, hereq>>
    PROVE  Queue'
BY DEF Queue

LEMMA LimitedKept ==
    ASSUME Limited, UNCHANGED <<limits, signals, failures>>
    PROVE  Limited'
BY DEF Limited

LEMMA FewerLeft ==
    ASSUME NEW a \in Nat, NEW b \in Nat, NEW c \in Nat, c <= b, a + b <= MaxChunks
    PROVE  a + c <= MaxChunks
BY Bounds

\* A queue begun anew, and one of which a document has been read.
LEMMA QueueEmpty ==
    ASSUME Queue, hereq' = <<>>, queued' = 0, left' = left
    PROVE  Queue'
<1>1. <<>> \in Seq(1..0) /\ IsInjective(<<>>)
  BY EmptySeq DEF IsInjective
<1>2. queued \in Nat /\ left \in Nat /\ queued + left <= MaxChunks
  BY DEF Queue
<1>3. queued' + left' <= MaxChunks /\ queued' \in Nat /\ left' \in Nat
  BY <1>2, Bounds
<1>4. QED
  BY <1>1, <1>3 DEF Queue

LEMMA QueueTail ==
    ASSUME Queue, hereq # <<>>, hereq' = Tail(hereq), queued' = queued,
           left' \in Nat, left' <= left
    PROVE  Queue'
<1>1. hereq \in Seq(1..queued) /\ IsInjective(hereq) /\ hereq # <<>>
  BY DEF Queue
<1>2. /\ hereq' \in Seq(1..queued) /\ Len(hereq') = Len(hereq) - 1
      /\ \A i \in 1..Len(hereq') : hereq'[i] = hereq[i + 1]
  BY <1>1, HeadTailProperties
<1>3. Len(hereq) \in Nat /\ DOMAIN hereq = 1..Len(hereq) /\ DOMAIN hereq' = 1..Len(hereq')
  BY <1>1, <1>2, LenProperties
<1>4. ASSUME NEW i \in DOMAIN hereq', NEW j \in DOMAIN hereq', hereq'[i] = hereq'[j]
      PROVE  i = j
  <2>1. i + 1 \in DOMAIN hereq /\ j + 1 \in DOMAIN hereq
    BY <1>2, <1>3
  <2>2. hereq[i + 1] = hereq[j + 1]
    BY <1>2, <1>3, <1>4
  <2>3. i + 1 = j + 1
    BY <1>1, <2>1, <2>2 DEF IsInjective
  <2>4. QED
    BY <1>3, <2>3
<1>5. IsInjective(hereq')
  BY <1>4 DEF IsInjective
<1>6. queued \in Nat /\ left \in Nat /\ queued + left <= MaxChunks
  BY DEF Queue
<1>7. queued' + left' <= MaxChunks
  BY <1>6, FewerLeft
<1>8. QED
  BY <1>2, <1>5, <1>6, <1>7 DEF Queue

\* One element more, in front.
LEMMA SeqCons ==
  ASSUME NEW S, NEW s \in Seq(S), NEW e \in S
  PROVE  /\ <<e>> \o s \in Seq(S) /\ Len(<<e>> \o s) = Len(s) + 1
         /\ Len(s) \in Nat /\ DOMAIN s = 1 .. Len(s) /\ DOMAIN (<<e>> \o s) = 1 .. Len(s) + 1
         /\ \A i \in 1 .. Len(s) + 1 : (<<e>> \o s)[i] = IF i = 1 THEN e ELSE s[i - 1]
<1>1. PICK o : o = <<e>>
  OBVIOUS
<1>2. o \in Seq(S) /\ Len(o) = 1 /\ o[1] = e
  BY <1>1
<1>3. /\ o \o s \in Seq(S) /\ Len(o \o s) = Len(o) + Len(s)
      /\ \A i \in 1 .. Len(o) + Len(s) : (o \o s)[i] = IF i <= Len(o) THEN o[i] ELSE s[i - Len(o)]
  BY <1>2, ConcatProperties
<1>4. PICK t : t = o \o s
  OBVIOUS
<1>5. /\ t \in Seq(S) /\ Len(t) = 1 + Len(s)
      /\ \A i \in 1 .. 1 + Len(s) : t[i] = IF i <= 1 THEN o[i] ELSE s[i - 1]
  BY <1>2, <1>3, <1>4, Zenon
<1>6. Len(s) \in Nat /\ DOMAIN s = 1 .. Len(s)
  BY LenProperties
<1>7. Len(t) = Len(s) + 1 /\ \A i \in 1 .. Len(s) + 1 : t[i] = IF i = 1 THEN e ELSE s[i - 1]
  BY <1>2, <1>5, <1>6
<1>8. DOMAIN t = 1 .. Len(s) + 1
  BY <1>5, <1>7, LenProperties
<1>9. QED
  BY <1>1, <1>4, <1>5, <1>6, <1>7, <1>8, Zenon

\* QueueHeredoc, with the number of a new document.
LEMMA QueueNew ==
    ASSUME Queue, hereq' = QueueHeredoc(hereq, queued + 1), queued' = queued + 1,
           left \in Nat \ {0}, left' = left - 1
    PROVE  Queue'
<1>. DEFINE n == queued + 1
<1>1. /\ hereq \in Seq(1..queued) /\ IsInjective(hereq)
      /\ queued \in Nat /\ queued + left <= MaxChunks
  BY DEF Queue
<1>2. 1..queued \subseteq 1..n /\ n \in 1..n /\ n \notin 1..queued
  BY <1>1
<1>3. hereq \in Seq(1..n)
  BY <1>1, <1>2, SeqMonotonic
<1>4. Len(hereq) \in Nat /\ DOMAIN hereq = 1..Len(hereq)
      /\ \A i \in 1..Len(hereq) : hereq[i] \in 1..queued
  BY <1>1, LenProperties, ElementOfSeq
<1>5. /\ hereq' \in Seq(1..n) /\ Len(hereq') = Len(hereq) + 1
      /\ \A i \in 1..Len(hereq) + 1 : hereq'[i] = IF i = 1 THEN n ELSE hereq[i - 1]
  <2>1. hereq' = <<n>> \o hereq
    BY DEF QueueHeredoc
  <2>. HIDE DEF n
  <2>2. PICK h : h = <<n>> \o hereq
    OBVIOUS
  <2>3. n \in 1..n /\ hereq \in Seq(1..n)
    BY <1>2, <1>3
  <2>4. /\ h \in Seq(1..n) /\ Len(h) = Len(hereq) + 1
        /\ \A i \in 1..Len(hereq) + 1 : h[i] = IF i = 1 THEN n ELSE hereq[i - 1]
    BY <2>2, <2>3, SeqCons
  <2>5. QED
    BY <2>1, <2>2, <2>4, Zenon
<1>6. DOMAIN hereq' = 1..Len(hereq) + 1
  BY <1>5, LenProperties
<1>7. ASSUME NEW i \in DOMAIN hereq', NEW j \in DOMAIN hereq', hereq'[i] = hereq'[j]
      PROVE  i = j
  <2>1. \A m \in DOMAIN hereq' : m # 1 => m - 1 \in DOMAIN hereq /\ hereq'[m] = hereq[m - 1]
    <3>1. \A m \in DOMAIN hereq' : m # 1 => m - 1 \in DOMAIN hereq
      BY <1>4, <1>6
    <3>2. QED
      BY <1>5, <1>6, <3>1
  <2>2. \A m \in DOMAIN hereq' : m # 1 => hereq'[m] # n
    <3>1. \A m \in DOMAIN hereq : hereq[m] # n
      BY <1>2, <1>4
    <3>2. QED
      BY <2>1, <3>1, Zenon
  <2>3. hereq'[1] = n
    BY <1>4, <1>5
  <2>4. CASE i = 1 \/ j = 1
    BY <1>7, <2>2, <2>3, <2>4
  <2>5. CASE i # 1 /\ j # 1
    <3>1. i - 1 = j - 1
      BY <1>1, <1>7, <2>1, <2>5 DEF IsInjective
    <3>2. QED
      BY <1>4, <1>6, <3>1
  <2>6. QED
    BY <2>4, <2>5
<1>8. IsInjective(hereq')
  BY <1>7 DEF IsInjective
<1>9. queued' \in Nat /\ left' \in Nat /\ queued' + left' <= MaxChunks
  BY <1>1, Bounds
<1>10. QED
  BY <1>5, <1>8, <1>9 DEF Queue

-----------------------------------------------------------------------------
(* Each step keeps the invariant. *)

LEMMA InvInit == Init => IInv
<1>. SUFFICES ASSUME Init PROVE IInv
  OBVIOUS
<1>1. PICK k \in {"fd", "string"}, i \in BOOLEAN :
        calls = <<Source(k, IF k = "fd" THEN 0 ELSE -1, i)>>
  BY DEF Init
<1>2. PICK in : in = Source(k, IF k = "fd" THEN 0 ELSE -1, i)
  OBVIOUS
<1>3. in \in Activation /\ in.at = "loop"
  BY <1>2, Bounds DEF Source, Activation
<1>4. calls = <<in>> /\ calls \in Seq(Activation) /\ Len(calls) = 1 /\ calls[1] = in
  BY <1>1, <1>2, <1>3
<1>5. Sources
  <2>1. input = Depth /\ Depth = 1
    BY <1>4 DEF Init, Depth
  <2>2. openfds = {calls[1].fd} \ {-1} /\ in.fd \in -1..MaxDepth
    BY <1>3 DEF Init, Activation
  <2>3. openfds = {calls[j].fd : j \in 1..Depth} \ {-1}
    BY <2>1, <2>2
  <2>4. openfds \subseteq 0..MaxDepth /\ 1 <= MaxDepth /\ 1..Depth - 1 = {}
    BY <1>4, <2>1, <2>2, Bounds
  <2>5. QED
    BY <1>4, <2>1, <2>3, <2>4 DEF Sources, OwnSource
<1>6. Queue
  <2>1. <<>> \in Seq(1..0) /\ IsInjective(<<>>)
    BY EmptySeq DEF IsInjective
  <2>2. hereq = <<>> /\ queued = 0 /\ left = MaxChunks
    BY DEF Init
  <2>3. QED
    BY <2>1, <2>2, Bounds DEF Queue
<1>7. Flags
  BY DEF Init, Flags
<1>8. Limited
  <2>1. limits \in Limit /\ limits \in Limits
    BY InputAssumption DEF Init
  <2>2. limits.signals \in Nat /\ limits.failures \in Nat
    BY <2>1 DEF Limit
  <2>3. QED
    BY <2>1, <2>2 DEF Init, Limited
<1>9. ErrorInside /\ IgnoreHere /\ HereOpen
  BY <1>3, <1>4 DEF Init, ErrorInside, IgnoreHere, HereOpen, Top, Depth
<1>10. QED
  BY <1>5, <1>6, <1>7, <1>8, <1>9 DEF IInv

\* The parser: what FinishParse is given.
LEMMA FinishInv ==
    ASSUME IInv, Quiet, NEW bad, FinishParse(bad), Queue', Limited',
           ignoreeof' \in BOOLEAN, Undisturbed => ~ignoreeof',
           deep' \in BOOLEAN, skip' \in BOOLEAN, UNCHANGED <<aborted, limits>>
    PROVE  IInv'
<1>1. calls # <<>> /\ exc = "none" /\ ~aborted
  BY DEF Quiet, Running
<1>2. /\ Moves /\ error' = FALSE /\ exc' \in {"error", "none"}
      /\ Quiet' => Top'.at \in {"loop", "eval"}
  BY <1>1, Finishing DEF IInv
<1>3. Sources'
  BY <1>1, <1>2, MoveSources DEF IInv
<1>4. Flags'
  BY <1>1, <1>2 DEF IInv, Flags
<1>5. ErrorInside'
  BY <1>1, <1>2 DEF ErrorInside
<1>6. Undisturbed' => ~ignoreeof'
  BY DEF Undisturbed
<1>7. HereOpen'
  BY <1>2 DEF HereOpen
<1>8. QED
  BY <1>3, <1>4, <1>5, <1>6, <1>7 DEF IInv, IgnoreHere

\* The parser goes on to another point, where it may have a message.
LEMMA GoInv ==
    ASSUME IInv, Quiet, NEW where \in {"lex", "here"}, Goto(where), UNCHANGED <<input, openfds, exc>>,
           where = "here" => hereq' # <<>>,
           Queue', Limited', error' \in BOOLEAN, ignoreeof' \in BOOLEAN,
           where = "lex" => (Undisturbed => ~ignoreeof'),
           deep' \in BOOLEAN, skip' \in BOOLEAN, UNCHANGED <<aborted, limits>>
    PROVE  IInv'
<1>1. calls # <<>> /\ exc = "none" /\ ~aborted
  BY DEF Quiet, Running
<1>2. Changes /\ calls' # <<>> /\ Top'.at = where
  BY <1>1, Going DEF IInv, Points
<1>3. Sources'
  BY <1>1, <1>2, ChangeSources DEF IInv
<1>4. Flags'
  BY <1>1 DEF IInv, Flags
<1>5. ErrorInside'
  BY <1>1, <1>2 DEF ErrorInside
<1>6. Undisturbed' /\ ignoreeof' => where = "here"
  BY DEF Undisturbed
<1>7. HereOpen'
  BY <1>2 DEF HereOpen
<1>8. QED
  BY <1>1, <1>2, <1>3, <1>4, <1>5, <1>6, <1>7 DEF IInv, IgnoreHere, Quiet, Running

LEMMA ParseStartInv ==
    ASSUME IInv, ParseStart
    PROVE  IInv'
<1>1. Quiet /\ Top.at = "loop" /\ calls # <<>> /\ exc = "none" /\ ~aborted
  BY DEF ParseStart, At, Quiet, Running
<1>2. Limited' /\ UNCHANGED limits
  BY LimitedKept DEF ParseStart, IInv, bounds
<1>3. CASE error
  <2>1. UNCHANGED <<calls, input, openfds, exc, reader, bounds>> /\ aborted' = TRUE
    BY <1>3 DEF ParseStart
  <2>2. Sources' /\ Queue' /\ Flags'
    BY <2>1, KeepSources, QueueKept DEF IInv, Keeps, reader, bounds, Flags
  <2>3. ErrorInside'
    BY <1>1, <1>2, <1>3 DEF IInv, ErrorInside
  <2>4. IgnoreHere' /\ HereOpen'
    BY <1>1, <2>1 DEF IInv, IgnoreHere, HereOpen, Quiet, Running, Undisturbed, reader, bounds
  <2>5. QED
    BY <1>2, <2>2, <2>3, <2>4 DEF IInv
<1>4. CASE ~error
  <2>1. /\ hereq' = <<>> /\ queued' = 0 /\ left' = left /\ deep' = FALSE /\ skip' = FALSE
        /\ UNCHANGED <<error, ignoreeof, aborted, input, openfds>>
    BY <1>4 DEF ParseStart, bounds
  <2>2. Queue'
    BY <2>1, QueueEmpty DEF IInv
  <2>3. CASE Top.fill = "eoffill"
    <3>1. exc' = "eof" /\ UNCHANGED calls
      BY <1>4, <2>3 DEF ParseStart
    <3>2. Sources' /\ Flags'
      BY <2>1, <3>1, KeepSources DEF IInv, Keeps, Flags
    <3>3. ErrorInside'
      BY <1>1, <1>2, <1>4, <2>1 DEF IInv, ErrorInside
    <3>4. IgnoreHere' /\ HereOpen'
      BY <1>1, <1>2, <2>1, <3>1 DEF IInv, IgnoreHere, HereOpen, Quiet, Undisturbed
    <3>5. QED
      BY <1>2, <2>2, <3>2, <3>3, <3>4 DEF IInv
  <2>4. CASE Top.fill # "eoffill"
    <3>1. Goto("lex") /\ UNCHANGED exc
      BY <1>4, <2>4 DEF ParseStart
    <3>2. error' \in BOOLEAN /\ ignoreeof' \in BOOLEAN
      BY <2>1 DEF IInv, Flags
    <3>3. Undisturbed => ~ignoreeof'
      BY <1>1, <2>1 DEF IInv, IgnoreHere
    <3>4. QED
      BY <1>1, <1>2, <2>1, <2>2, <3>1, <3>2, <3>3, GoInv
  <2>5. QED
    BY <2>3, <2>4
<1>5. QED
  BY <1>3, <1>4

LEMMA LexInv ==
    ASSUME IInv, NEW c \in Chunk, Lex(c)
    PROVE  IInv'
<1>. DEFINE taken == ~skip /\ c.bad # "marker"
            here  == c.here /\ taken
            q     == IF here THEN QueueHeredoc(hereq, queued + 1) ELSE hereq
            bad   == error \/ (~skip /\ c.bad # "no")
            stray == ~skip /\ c.bad = "syntax"
            in    == IF c.brace /\ taken /\ ~stray THEN ~deep ELSE deep
<1>1. Quiet /\ Top.at = "lex" /\ calls # <<>> /\ exc = "none" /\ ~aborted
  BY DEF Lex, At, Quiet, Running
<1>2. /\ left > 0 /\ left' = left - 1
      /\ hereq' = q /\ queued' = (IF here THEN queued + 1 ELSE queued)
      /\ skip' = (skip \/ stray) /\ deep' = in
      /\ UNCHANGED <<aborted, signals, failures, limits>>
  BY DEF Lex
<1>3. Queue'
  <2>1. left \in Nat \ {0} /\ left' \in Nat
    BY <1>2 DEF IInv, Queue
  <2>2. CASE here
    BY <1>2, <2>1, <2>2, QueueNew DEF IInv
  <2>3. CASE ~here
    <3>1. hereq' = hereq /\ queued' = queued
      BY <1>2, <2>3
    <3>2. queued \in Nat /\ left \in Nat /\ queued + left <= MaxChunks
      BY DEF IInv, Queue
    <3>3. queued + left' <= MaxChunks
      BY <1>2, <3>2, Bounds
    <3>4. QED
      BY <2>1, <3>1, <3>2, <3>3 DEF IInv, Queue
  <2>4. QED
    BY <2>2, <2>3
<1>4. Limited'
  BY <1>2, LimitedKept DEF IInv
<1>5. bad \in BOOLEAN /\ skip' \in BOOLEAN /\ deep' \in BOOLEAN
  BY <1>2 DEF IInv, Flags
<1>6. \/ \E b \in BOOLEAN : FinishParse(b) /\ UNCHANGED ignoreeof
      \/ /\ Goto("here") /\ ignoreeof' = TRUE /\ error' = bad /\ hereq' # <<>>
         /\ UNCHANGED <<input, openfds, exc>>
      \/ error' = bad /\ UNCHANGED <<calls, input, openfds, exc, ignoreeof>>
  BY <1>2, <1>5 DEF Lex
<1>7. CASE \E b \in BOOLEAN : FinishParse(b) /\ UNCHANGED ignoreeof
  <2>1. ignoreeof' \in BOOLEAN /\ (Undisturbed => ~ignoreeof')
    BY <1>1, <1>7 DEF IInv, IgnoreHere, Flags
  <2>2. QED
    BY <1>1, <1>2, <1>3, <1>4, <1>5, <1>7, <2>1, FinishInv
<1>8. CASE /\ Goto("here") /\ ignoreeof' = TRUE /\ error' = bad /\ hereq' # <<>>
           /\ UNCHANGED <<input, openfds, exc>>
  BY <1>1, <1>2, <1>3, <1>4, <1>5, <1>8, GoInv
<1>9. CASE error' = bad /\ UNCHANGED <<calls, input, openfds, exc, ignoreeof>>
  <2>1. Sources'
    BY <1>9, KeepSources DEF IInv, Keeps
  <2>2. Flags'
    BY <1>2, <1>5, <1>9 DEF IInv, Flags
  <2>3. Top' = Top /\ calls' = calls /\ exc' = exc
    BY <1>9, Staying
  <2>4. ErrorInside' /\ IgnoreHere' /\ HereOpen'
    BY <1>1, <1>2, <1>9, <2>3 DEF IInv, ErrorInside, IgnoreHere, HereOpen, Undisturbed
  <2>5. QED
    BY <1>3, <1>4, <2>1, <2>2, <2>4 DEF IInv
<1>10. QED
  BY <1>6, <1>7, <1>8, <1>9

LEMMA EndOfDocumentInv ==
    ASSUME IInv, Quiet, Top.at \in {"here", "hereeof"}, EndOfDocument,
           left' \in Nat, left' <= left, Limited',
           UNCHANGED <<queued, deep, skip, aborted, limits>>
    PROVE  IInv'
<1>1. hereq # <<>> /\ calls # <<>>
  BY DEF IInv, HereOpen, Quiet, Running
<1>2. Queue'
  BY <1>1, QueueTail DEF IInv, EndOfDocument
<1>3. deep' \in BOOLEAN /\ skip' \in BOOLEAN /\ error \in BOOLEAN /\ ignoreeof \in BOOLEAN
  BY DEF IInv, Flags
<1>4. CASE hereq' # <<>>
  <2>1. Goto("here") /\ UNCHANGED <<input, openfds, exc, error, ignoreeof>>
    BY <1>4 DEF EndOfDocument
  <2>2. QED
    BY <1>2, <1>3, <1>4, <2>1, GoInv
<1>5. CASE hereq' = <<>>
  <2>1. /\ ignoreeof' = FALSE
        /\ \/ FinishParse(error)
           \/ Goto("lex") /\ UNCHANGED <<input, openfds, exc, error>>
    BY <1>5 DEF EndOfDocument
  <2>2. CASE FinishParse(error)
    <3>1. PICK bad : bad = error
      OBVIOUS
    <3>2. FinishParse(bad)
      BY <2>2, <3>1, Zenon
    <3>3. /\ Queue' /\ Limited' /\ ignoreeof' = FALSE
          /\ deep' \in BOOLEAN /\ skip' \in BOOLEAN /\ UNCHANGED <<aborted, limits>>
      BY <1>2, <1>3, <2>1
    <3>4. ignoreeof' \in BOOLEAN /\ (Undisturbed => ~ignoreeof')
      BY <3>3
    <3>5. QED
      BY <3>2, <3>3, <3>4, FinishInv
  <2>3. CASE Goto("lex") /\ UNCHANGED <<input, openfds, exc, error>>
    <3>1. /\ Queue' /\ Limited' /\ ignoreeof' = FALSE /\ error' \in BOOLEAN
          /\ deep' \in BOOLEAN /\ skip' \in BOOLEAN /\ UNCHANGED <<aborted, limits>>
      BY <1>2, <1>3, <2>1, <2>3
    <3>2. ignoreeof' \in BOOLEAN /\ (Undisturbed => ~ignoreeof')
      BY <3>1
    <3>3. QED
      BY <2>3, <3>1, <3>2, GoInv
  <2>4. QED
    BY <2>1, <2>2, <2>3
<1>6. QED
  BY <1>4, <1>5

LEMMA HereLineInv ==
    ASSUME IInv, NEW mark \in BOOLEAN, HereLine(mark)
    PROVE  IInv'
<1>1. Quiet /\ Top.at = "here" /\ calls # <<>>
  BY DEF HereLine, At, Quiet, Running
<1>2. left' \in Nat /\ left' <= left /\ UNCHANGED <<queued, deep, skip, aborted, signals, failures, limits>>
  BY DEF HereLine, IInv, Queue
<1>3. Limited'
  BY <1>2, LimitedKept DEF IInv
<1>4. CASE mark
  BY <1>1, <1>2, <1>3, <1>4, EndOfDocumentInv DEF HereLine
<1>5. CASE ~mark
  <2>1. UNCHANGED <<calls, input, openfds, exc, error, hereq, ignoreeof>>
    BY <1>5 DEF HereLine
  <2>2. Sources' /\ Flags'
    BY <1>2, <2>1, KeepSources DEF IInv, Keeps, Flags
  <2>3. Queue'
    <3>1. queued \in Nat /\ left \in Nat /\ queued + left <= MaxChunks /\ left' = left - 1
      BY DEF IInv, Queue, HereLine
    <3>2. queued + left' <= MaxChunks
      BY <3>1, Bounds
    <3>3. QED
      BY <1>2, <2>1, <3>1, <3>2 DEF IInv, Queue
  <2>4. ErrorInside' /\ HereOpen' /\ IgnoreHere'
    BY <1>2, <2>1, Staying
       DEF IInv, ErrorInside, HereOpen, IgnoreHere, Undisturbed, Quiet, Running
  <2>5. QED
    BY <1>3, <2>2, <2>3, <2>4 DEF IInv
<1>6. QED
  BY <1>4, <1>5

LEMMA EofInv ==
    ASSUME IInv, Eof
    PROVE  IInv'
<1>1. Quiet /\ Top.at \in {"lex", "here"} /\ calls # <<>> /\ exc = "none" /\ ~aborted
  BY DEF Eof, Quiet, Running
<1>2. PICK p \in Points : p = IF Top.at = "lex" THEN "lexeof" ELSE "hereeof"
  BY DEF Points
<1>3. /\ calls' = [calls EXCEPT ![Depth] = [AfterEof(Top) EXCEPT !.at = p]]
      /\ openfds' = IF AfterEof(Top).fd # Top.fd THEN openfds \ {Top.fd} ELSE openfds
      /\ UNCHANGED <<input, exc, error, hereq, queued, ignoreeof, deep, skip, aborted,
                     limits, left, signals, failures>>
  BY <1>2 DEF Eof, reader, bounds
<1>4. Changes /\ calls' # <<>> /\ Top'.at = p
  BY <1>1, <1>3, EndingFile DEF IInv
<1>5. Sources' /\ Queue' /\ Flags' /\ Limited'
  BY <1>1, <1>3, <1>4, ChangeSources, QueueKept, LimitedKept DEF IInv, Flags
<1>6. ErrorInside' /\ HereOpen' /\ IgnoreHere'
  BY <1>1, <1>2, <1>3, <1>4
     DEF IInv, ErrorInside, HereOpen, IgnoreHere, Undisturbed, Quiet, Running
<1>7. QED
  BY <1>5, <1>6 DEF IInv

LEMMA EndFileInv ==
    ASSUME IInv, EndFile
    PROVE  IInv'
<1>1. PICK bad \in BOOLEAN : FinishParse(bad)
  BY DEF EndFile, IInv, Flags
<1>2. Quiet /\ Top.at = "lexeof"
  BY DEF EndFile, At
<1>3. UNCHANGED <<hereq, queued, ignoreeof, deep, skip, aborted, limits, left, signals, failures>>
  BY DEF EndFile, bounds
<1>4. Queue' /\ Limited' /\ deep' \in BOOLEAN /\ skip' \in BOOLEAN
  BY <1>3, QueueKept, LimitedKept DEF IInv, Flags
<1>5. ignoreeof' \in BOOLEAN /\ (Undisturbed => ~ignoreeof')
  BY <1>2, <1>3 DEF IInv, IgnoreHere, Flags
<1>6. QED
  BY <1>1, <1>2, <1>3, <1>4, <1>5, FinishInv

LEMMA HereEofInv ==
    ASSUME IInv, HereEof
    PROVE  IInv'
<1>1. Quiet /\ Top.at = "hereeof"
  BY DEF HereEof, At
<1>2. UNCHANGED <<queued, deep, skip, aborted, signals, failures, limits>>
  BY DEF HereEof
<1>3. Limited' /\ deep' \in BOOLEAN /\ skip' \in BOOLEAN
  BY <1>2, LimitedKept DEF IInv, Flags
<1>4. CASE left > 0 /\ left' = left - 1 /\ EndOfDocument
  <2>1. left' \in Nat /\ left' <= left
    BY <1>4 DEF IInv, Queue
  <2>2. QED
    BY <1>1, <1>2, <1>3, <1>4, <2>1, EndOfDocumentInv
<1>5. CASE ignoreeof' = FALSE /\ FinishParse(TRUE) /\ UNCHANGED <<hereq, left>>
  <2>1. Queue'
    BY <1>2, <1>5, QueueKept DEF IInv
  <2>2. QED
    <3>1. PICK bad : bad = TRUE
      OBVIOUS
    <3>2. FinishParse(bad)
      BY <1>5, <3>1, Zenon
    <3>3. UNCHANGED <<aborted, limits>> /\ ignoreeof' = FALSE
      BY <1>2, <1>5
    <3>4. ignoreeof' \in BOOLEAN /\ (Undisturbed => ~ignoreeof')
      BY <3>3
    <3>5. QED
      BY <1>1, <1>3, <2>1, <3>2, <3>3, <3>4, FinishInv
<1>6. QED
  BY <1>4, <1>5 DEF HereEof

\* An exception begins, in a source that stays where it is.
LEMMA ThrowInv ==
    ASSUME IInv, Quiet, Keeps, UNCHANGED <<hereq, queued, ignoreeof, deep, skip, aborted, left, limits>>,
           exc' \in {"eof", "error", "signal", "exit", "user"}, Limited',
           error' \in BOOLEAN, limits.failures = 0 => ~error',
           Undisturbed => Top.at = "eval"
    PROVE  IInv'
<1>1. Sources' /\ Queue'
  BY KeepSources, QueueKept DEF IInv
<1>2. calls # <<>> /\ ~aborted
  BY DEF Quiet, Running
<1>3. Flags'
  BY <1>2 DEF IInv, Flags
<1>4. ErrorInside' /\ HereOpen'
  BY <1>2 DEF IInv, ErrorInside, HereOpen, Quiet
<1>5. IgnoreHere'
  BY DEF IInv, IgnoreHere, Undisturbed
<1>6. QED
  BY <1>1, <1>3, <1>4, <1>5 DEF IInv

LEMMA SignalInv ==
    ASSUME IInv, Signal
    PROVE  IInv'
<1>1. limits \in Limit /\ signals \in 0..limits.signals /\ failures \in 0..limits.failures
  BY InputAssumption DEF IInv, Limited
<1>2. limits.signals \in Nat /\ signals > 0 /\ signals' = signals - 1
  BY <1>1 DEF Limit, Signal
<1>3. Limited'
  BY <1>1, <1>2 DEF IInv, Limited, Signal
<1>4. ~Undisturbed
  BY <1>1, <1>2 DEF Undisturbed
<1>5. /\ Quiet /\ Keeps /\ exc' = "signal" /\ error' = FALSE
      /\ UNCHANGED <<hereq, queued, ignoreeof, deep, skip, aborted, left, limits>>
  BY DEF Signal, Keeps
<1>6. error' \in BOOLEAN /\ (limits.failures = 0 => ~error')
  BY <1>5
<1>7. QED
  BY <1>3, <1>4, <1>5, <1>6, ThrowInv

LEMMA ReadFailsInv ==
    ASSUME IInv, ReadFails
    PROVE  IInv'
<1>1. limits \in Limit /\ signals \in 0..limits.signals /\ failures \in 0..limits.failures
  BY InputAssumption DEF IInv, Limited
<1>2. limits.failures \in Nat /\ failures > 0 /\ failures' = failures - 1
  BY <1>1 DEF Limit, ReadFails
<1>3. Limited' /\ limits' = limits /\ limits'.failures # 0
  BY <1>1, <1>2 DEF IInv, Limited, ReadFails
<1>4. calls # <<>> /\ exc' = "error" /\ UNCHANGED <<input, reader, aborted, left>>
  BY DEF ReadFails, Quiet, Running
<1>5. Changes
  BY <1>4, EndingFile DEF IInv, ReadFails
<1>6. Sources' /\ Queue' /\ Flags'
  BY <1>4, <1>5, ChangeSources, QueueKept DEF IInv, Flags, reader
<1>7. ErrorInside' /\ HereOpen' /\ IgnoreHere'
  BY <1>3, <1>4 DEF ErrorInside, HereOpen, IgnoreHere, Undisturbed, Quiet
<1>8. QED
  BY <1>3, <1>6, <1>7 DEF IInv

\* A step outside of the parser, after which the innermost source is at loop or eval.
LEMMA OutsideInv ==
    ASSUME IInv, Moves, calls # <<>>, Top.at \in {"loop", "eval"} \/ exc # "none",
           UNCHANGED <<error, hereq, queued, ignoreeof, deep, skip, aborted, limits, signals, failures>>,
           left' \in Nat, left' <= left,
           exc' \in {"none", "eof", "error", "signal", "exit", "user"},
           Quiet' => Top'.at \in {"loop", "eval"}
    PROVE  IInv'
<1>1. Sources' /\ Limited'
  BY MoveSources, LimitedKept DEF IInv
<1>2. Queue'
  <2>1. queued \in Nat /\ left \in Nat /\ queued + left <= MaxChunks
    BY DEF IInv, Queue
  <2>2. queued + left' <= MaxChunks
    BY <2>1, FewerLeft
  <2>3. QED
    BY <2>1, <2>2 DEF IInv, Queue
<1>3. Flags'
  BY DEF IInv, Flags
<1>4. limits.failures = 0 => ~error /\ ~aborted
  BY DEF IInv, ErrorInside, Flags
<1>5. Undisturbed => ~ignoreeof
  BY DEF IInv, IgnoreHere, Quiet
<1>6. ErrorInside' /\ HereOpen' /\ IgnoreHere'
  BY <1>4, <1>5 DEF ErrorInside, HereOpen, IgnoreHere, Undisturbed
<1>7. QED
  BY <1>1, <1>2, <1>3, <1>6 DEF IInv

LEMMA EvalInv ==
    ASSUME IInv, EvalEnds \/ EvalThrows \/ EvalCatches
    PROVE  IInv'
<1>1. calls # <<>> /\ Top.at = "eval" /\ ~aborted
  BY DEF EvalEnds, EvalThrows, EvalCatches, At, Quiet, Running
<1>2. UNCHANGED <<input, openfds, reader, aborted, bounds>>
  BY DEF EvalEnds, EvalThrows, EvalCatches
<1>3. left' \in Nat /\ left' <= left /\ exc \in {"none", "eof", "error", "signal", "exit", "user"}
  BY <1>2 DEF IInv, Queue, Flags, bounds
<1>4. CASE EvalEnds
  <2>1. Goto("loop") /\ exc' = exc
    BY <1>4 DEF EvalEnds
  <2>2. Moves /\ Top'.at = "loop"
    BY <1>1, <1>2, <2>1, Going DEF IInv, Moves, Points
  <2>3. QED
    BY <1>1, <1>2, <1>3, <2>1, <2>2, OutsideInv DEF reader, bounds
<1>5. CASE EvalThrows \/ EvalCatches
  <2>1. UNCHANGED calls /\ exc' \in {"none", "eof", "error", "signal", "exit", "user"}
    BY <1>5 DEF EvalThrows, EvalCatches
  <2>2. Moves /\ Top' = Top
    BY <1>2, <2>1, Staying DEF Moves, Keeps
  <2>3. QED
    BY <1>1, <1>2, <1>3, <2>1, <2>2, OutsideInv DEF reader, bounds
<1>6. QED
  BY <1>4, <1>5

LEMMA EvalRunsInv ==
    ASSUME IInv, EvalRuns
    PROVE  IInv'
<1>1. calls # <<>> /\ Top.at = "eval" /\ Depth < limits.depth /\ left > 0 /\ left' = left - 1
  BY DEF EvalRuns, At, Quiet, Running
<1>2. UNCHANGED <<exc, reader, aborted, signals, failures, limits>>
  BY DEF EvalRuns
<1>3. Depth \in Nat /\ Depth < MaxDepth
  <2>1. limits \in Limit
    BY InputAssumption DEF IInv, Limited
  <2>2. limits.depth \in 1..MaxDepth
    BY <2>1 DEF Limit
  <2>3. Depth \in Nat
    BY <1>1, TopType DEF IInv
  <2>4. QED
    BY <1>1, <2>2, <2>3, Bounds
<1>4. LowestFree \in 0..MaxDepth /\ LowestFree \notin openfds
  BY <1>3, LowestIsFree DEF IInv
<1>5. PICK in \in {Source("fd", LowestFree, TRUE), Source("fd", LowestFree, FALSE),
                   Source("string", -1, FALSE), Source("term", -1, FALSE)} : Push(in)
  BY DEF EvalRuns
<1>6. PICK k \in {"fd", "string", "term"}, fd \in {LowestFree, -1}, i \in BOOLEAN : in = Source(k, fd, i)
  BY <1>5
<1>7. fd \in -1..MaxDepth /\ fd \notin openfds
  <2>1. openfds \subseteq 0..MaxDepth
    BY DEF IInv, Sources
  <2>2. -1 \notin openfds
    BY <2>1
  <2>3. QED
    BY <1>4, <1>6, <2>2, Bounds
<1>8. in \in Activation /\ in.fd = fd /\ in.at = "loop"
  BY <1>6, <1>7 DEF Source, Activation
<1>9. Enters
  BY <1>1, <1>3, <1>5, <1>7, <1>8 DEF Enters, Push
<1>10. Top'.at = "loop"
  BY <1>1, <1>9, EnterSources DEF IInv
<1>11. left' \in Nat /\ left' <= left /\ exc' \in {"none", "eof", "error", "signal", "exit", "user"}
  BY <1>1, <1>2 DEF IInv, Queue, Flags
<1>12. QED
  BY <1>1, <1>2, <1>9, <1>10, <1>11, OutsideInv DEF Moves, reader

LEMMA LoopInv ==
    ASSUME IInv, LoopEnds \/ LoopRetries \/ LoopThrows
    PROVE  IInv'
<1>1. calls # <<>> /\ exc # "none" /\ Sources
  BY DEF LoopEnds, LoopRetries, LoopThrows, Running, IInv
<1>2. UNCHANGED <<reader, aborted, bounds>>
  BY DEF LoopEnds, LoopRetries, LoopThrows
<1>3. left' \in Nat /\ left' <= left /\ exc \in {"none", "eof", "error", "signal", "exit", "user"}
  BY <1>2 DEF IInv, Queue, Flags, bounds
<1>4. CASE LoopEnds \/ LoopThrows
  <2>1. Top = calls[input] /\ input = Depth
    BY <1>1, TopType DEF Sources, OwnSource
  <2>2. Leaves /\ exc' \in {"none", exc}
    BY <1>4, <2>1 DEF LoopEnds, LoopThrows, Return, Rethrow, Cleanup, Leaves
  <2>3. Quiet' => Top'.at = "eval"
    BY <1>1, <2>2, LeaveSources DEF Quiet, Running
  <2>4. QED
    BY <1>1, <1>2, <1>3, <2>2, <2>3, OutsideInv DEF Moves, reader, bounds
<1>5. CASE LoopRetries
  <2>1. Goto("loop") /\ exc' = "none" /\ UNCHANGED <<input, openfds>>
    BY <1>5 DEF LoopRetries
  <2>2. Moves /\ Top'.at = "loop"
    BY <1>1, <2>1, Going DEF Moves, Points
  <2>3. QED
    BY <1>1, <1>2, <1>3, <2>1, <2>2, OutsideInv DEF reader, bounds
<1>6. QED
  BY <1>4, <1>5

LEMMA InvNext == IInv /\ [Next]_vars => IInv'
<1>. SUFFICES ASSUME IInv, [Next]_vars PROVE IInv'
  OBVIOUS
<1>1. CASE UNCHANGED vars
  <2>1. Keeps /\ UNCHANGED <<reader, aborted, bounds, exc>>
    BY <1>1 DEF vars, Keeps
  <2>2. Sources' /\ Queue' /\ Flags' /\ Limited'
    BY <2>1, KeepSources, QueueKept, LimitedKept DEF IInv, Flags, reader, bounds
  <2>3. ErrorInside' /\ HereOpen' /\ IgnoreHere'
    BY <2>1, Staying
       DEF IInv, Keeps, reader, bounds, ErrorInside, HereOpen, IgnoreHere, Undisturbed, Quiet, Running
  <2>4. QED
    BY <2>2, <2>3 DEF IInv
<1>2. CASE ParseStart \/ Eof \/ EndFile \/ HereEof \/ Signal \/ ReadFails
  BY <1>2, ParseStartInv, EofInv, EndFileInv, HereEofInv, SignalInv, ReadFailsInv
<1>3. CASE (\E c \in Chunk : Lex(c)) \/ (\E mark \in BOOLEAN : HereLine(mark))
  BY <1>3, LexInv, HereLineInv
<1>4. CASE EvalEnds \/ EvalThrows \/ EvalRuns \/ EvalCatches
  BY <1>4, EvalInv, EvalRunsInv
<1>5. CASE LoopEnds \/ LoopRetries \/ LoopThrows
  BY <1>5, LoopInv
<1>6. QED
  BY <1>1, <1>2, <1>3, <1>4, <1>5 DEF Next, Over

LEMMA Invariance == Spec => []IInv
BY InvInit, InvNext, PTL DEF Spec

-----------------------------------------------------------------------------
(* What is proved. *)

\* The global input is always the source of the innermost activation, and the
\* open descriptors are those of the sources that are not at their end, each
\* with its own (runinput, parseinput, fdfill, fdcleanup).
THEOREM SourcesAreOwn == Spec => []OwnSource
<1>1. IInv => OwnSource
  BY DEF IInv, Sources
<1>2. QED
  BY <1>1, Invariance, PTL

\* Where no read fails, parse never finds the message of an earlier parse, as
\* it asserts (input.c:228): every way out of a parse has cleared it.
THEOREM NoStaleError == Spec => []ParserClean
<1>1. IInv => ParserClean
  BY DEF IInv, ErrorInside, ParserClean
<1>2. QED
  BY <1>1, Invariance, PTL

\* Where no signal comes and no read fails, fdfill takes an end of file for none
\* only while a here document is being read, so that an end is not missed.
THEOREM EndsAreSeen == Spec => []IgnoreHere
<1>1. IInv => IgnoreHere
  BY DEF IInv
<1>2. QED
  BY <1>1, Invariance, PTL

\* Every variable keeps its type: in particular the stack of sources is never
\* deeper than what was pushed, and no here document is queued twice.
THEOREM Typing == Spec => []TypeOK
<1>1. IInv => TypeOK
  <2>. SUFFICES ASSUME IInv PROVE TypeOK
    OBVIOUS
  <2>1. calls \in Seq(Activation) /\ Depth <= MaxDepth /\ openfds \subseteq 0..MaxDepth
    BY DEF IInv, Sources
  <2>2. input \in 0..MaxDepth
    <3>1. input = Depth /\ Depth \in Nat
      BY <2>1, LenProperties DEF IInv, Sources, OwnSource, Depth
    <3>2. QED
      BY <2>1, <3>1, Bounds
  <2>3. queued \in 0..MaxChunks /\ left \in 0..MaxChunks
    <3>1. queued \in Nat /\ left \in Nat /\ queued + left <= MaxChunks
      BY DEF IInv, Queue
    <3>2. QED
      BY <3>1, Bounds
  <2>4. QED
    BY <2>1, <2>2, <2>3 DEF IInv, Queue, Flags, Limited, TypeOK, Activation, Depth
<1>2. QED
  BY <1>1, Invariance, PTL

\* A parse that finishes in a command to be run has not been stopped by an error.
LEMMA FinishRuns ==
    ASSUME Sources, calls # <<>>, NEW bad, FinishParse(bad),
           Top.at # "eval", Len(calls') = Depth, calls'[Depth].at = "eval"
    PROVE  ~bad
<1>1. CASE UNCHANGED calls
  BY <1>1 DEF Top
<1>2. QED
  BY <1>1 DEF FinishParse

\* A command runs only when all of it has been read without an error, and its
\* here documents too, whatever interrupted the parses before it.
THEOREM CommandsRunWhole == Spec => RunsWhole
<1>. DEFINE Begins == /\ Quiet /\ calls[Depth].at # "eval"
                      /\ Len(calls') = Depth /\ calls'[Depth].at = "eval"
<1>1. IInv /\ [Next]_vars => (Begins => hereq' = <<>> /\ ~error) \/ UNCHANGED calls
  <2>. SUFFICES ASSUME IInv, Next, Begins PROVE hereq' = <<>> /\ ~error
    BY DEF vars
  <2>. Top.at # "eval"
    BY DEF Top
  <2>1. Sources /\ calls # <<>> /\ exc = "none" /\ Depth \in Nat \ {0} /\ error \in BOOLEAN
    BY TopType DEF IInv, Quiet, Running, Flags
  <2>2. \A where \in Points : Goto(where) => where = "eval"
    BY <2>1, Going
  <2>3. calls' # calls /\ Top'.at = "eval"
    BY DEF Top, Depth
  <2>4. CASE ParseStart
    BY <2>2, <2>3, <2>4 DEF ParseStart, Points
  <2>5. ASSUME NEW c \in Chunk, Lex(c) PROVE hereq' = <<>> /\ ~error
    <3>1. ~Goto("here")
      BY <2>2 DEF Points
    <3>2. PICK bad : bad = (error \/ (~skip /\ c.bad # "no"))
      OBVIOUS
    <3>3. bad \in BOOLEAN /\ (~bad => ~error)
      BY <2>1, <3>2
    <3>4. FinishParse(TRUE) \/ (hereq' = <<>> /\ FinishParse(bad))
      BY <2>3, <2>5, <3>1, <3>2 DEF Lex
    <3>5. CASE FinishParse(TRUE)
      <4>1. PICK b \in BOOLEAN : FinishParse(b) /\ b
        BY <3>5
      <4>2. QED
        BY <2>1, <4>1, FinishRuns
    <3>6. CASE hereq' = <<>> /\ FinishParse(bad)
      BY <2>1, <3>3, <3>6, FinishRuns
    <3>7. QED
      BY <3>4, <3>5, <3>6
  <2>6. CASE (\E mark \in BOOLEAN : HereLine(mark)) \/ HereEof
    <3>1. CASE EndOfDocument
      <4>1. hereq' = <<>> /\ FinishParse(error)
        BY <2>2, <2>3, <3>1 DEF EndOfDocument, Points
      <4>2. PICK bad \in BOOLEAN : FinishParse(bad) /\ (bad <=> error)
        BY <2>1, <4>1
      <4>3. QED
        BY <2>1, <4>1, <4>2, FinishRuns
    <3>2. CASE FinishParse(TRUE)
      <4>1. PICK bad \in BOOLEAN : FinishParse(bad) /\ bad
        BY <3>2
      <4>2. QED
        BY <2>1, <4>1, FinishRuns
    <3>3. QED
      BY <2>3, <2>6, <3>1, <3>2 DEF HereLine, HereEof
  <2>7. CASE Eof
    <3>1. PICK p \in {"lexeof", "hereeof"} : p = IF Top.at = "lex" THEN "lexeof" ELSE "hereeof"
      OBVIOUS
    <3>2. calls' = [calls EXCEPT ![Depth] = [AfterEof(Top) EXCEPT !.at = p]] /\ p \in Points
      BY <2>7, <3>1 DEF Eof, Points
    <3>3. Top'.at = p
      BY <2>1, <2>7, <3>2, EndingFile DEF Eof
    <3>4. QED
      BY <2>3, <3>1, <3>3
  <2>8. CASE EndFile
    <3>1. FinishParse(error \/ deep \/ hereq # <<>>) /\ hereq' = hereq
      BY <2>8 DEF EndFile
    <3>2. PICK bad \in BOOLEAN : FinishParse(bad) /\ (bad <=> (error \/ deep \/ hereq # <<>>))
      BY <3>1
    <3>3. QED
      BY <2>1, <3>1, <3>2, FinishRuns
  <2>9. CASE Signal \/ ReadFails
    <3>1. calls' = [calls EXCEPT ![Depth] = AfterEof(Top)]
      BY <2>3, <2>9 DEF Signal, ReadFails
    <3>2. AfterEof(Top).at = Top.at
      <4>1. Closed(Top).at = Top.at
        BY TopType, <2>1 DEF Closed, Activation
      <4>2. Top.fill = "fdfill"
        BY <2>3, <2>9 DEF Signal, ReadFails
      <4>3. QED
        BY <4>1, <4>2 DEF AfterEof
    <3>3. Depth \in DOMAIN calls
      BY <2>1, TopType
    <3>4. QED
      BY <3>1, <3>2, <3>3
  <2>10. CASE EvalEnds \/ EvalThrows \/ EvalRuns \/ EvalCatches
    BY <2>10 DEF EvalEnds, EvalThrows, EvalRuns, EvalCatches, At
  <2>11. CASE LoopEnds \/ LoopRetries \/ LoopThrows
    BY <2>1, <2>11 DEF LoopEnds, LoopRetries, LoopThrows
  <2>12. QED
    BY <2>3, <2>4, <2>5, <2>6, <2>7, <2>8, <2>9, <2>10, <2>11 DEF Next, Over, vars
<1>2. QED
  BY <1>1, Invariance, PTL DEF Spec, RunsWhole

=============================================================================
