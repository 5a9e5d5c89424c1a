------------------------------ MODULE Subscript ------------------------------
(***************************************************************************)
(* $var(subscripts): subscript of glom.c, which goes once through the list *)
(* for ascending subscripts and starts again for others.                   *)
(*                                                                         *)
(* An element of the list is named by its position.  A subscript is the    *)
(* number that its word says, or Dots; words that are no numbers say 0.    *)
(***************************************************************************)
EXTENDS Integers, Sequences, SequencesExt

CONSTANTS IntBits, LongBits,   \* the widths of int and long
          MaxNumber,           \* bound: the largest subscript
          MaxSubs,             \* bound: subscripts
          MaxList              \* bound: elements of the list

SubscriptAssumption ==
    /\ IntBits \in Nat \ {0} /\ LongBits \in Nat \ {0} /\ IntBits <= LongBits
    /\ MaxNumber \in Nat /\ MaxSubs \in Nat /\ MaxList \in Nat

VARIABLES n,          \* the length of the list
          subs,       \* the subscripts
          next,       \* the first subscript not yet taken
          node,       \* current_node, n + 1 for NULL
          position,   \* current_position
          result,
          outcome

vars == <<n, subs, next, node, position, result, outcome>>

Dots == -1

TypeOK ==
    /\ n \in 0..MaxList
    /\ subs \in BoundedSeq({Dots} \cup 0..MaxNumber, MaxSubs)
    /\ next \in 1..MaxSubs + 2
    /\ node \in 1..MaxList + 1 /\ position \in 1..MaxList + 1
    /\ result \in Seq(1..MaxList + 1)
    /\ outcome \in {"running", "done", "bad subscript"}

Init ==
    /\ n \in 0..MaxList
    /\ subs \in BoundedSeq({Dots} \cup 0..MaxNumber, MaxSubs)
    /\ next = 1 /\ node = 1 /\ position = 1
    /\ result = <<>> /\ outcome = "running"

(* atoi: strtol stops at the largest long, and the conversion to int keeps *)
(* the low bits.  ... is no number.                                        *)
Atoi(word) ==
    LET long == IF word < 2^(LongBits - 1) THEN word ELSE 2^(LongBits - 1) - 1
        half == 2^(IntBits - 1)
    IN  IF word = Dots THEN 0 ELSE ((long + half) % (2 * half)) - half

DotsAt(i) == i <= Len(subs) /\ subs[i] = Dots

MidRange_Open(low, i) ==
    [low  |-> low,
     high |-> IF i = Len(subs) THEN n ELSE Atoi(subs[i + 1]),
     bad  |-> i < Len(subs) /\ Atoi(subs[i + 1]) < 1,
     next |-> i + 2]

(* mid_range: the dots are at i, with or without a bound after them. *)
MidRange(low, i) ==
    LET high == IF i = Len(subs) THEN n ELSE Atoi(subs[i + 1])
    IN  [low  |-> low,
         high |-> IF high > n THEN n ELSE high,
         bad  |-> high < 1 /\ i < Len(subs),
         next |-> i + 2]

(* The subscript or range that begins at i; only the first of them may     *)
(* begin with dots.                                                        *)
Item(i) ==
    LET low == Atoi(subs[i])
    IN  IF i = 1 /\ DotsAt(1) THEN MidRange(1, 1)
        ELSE IF low < 1 THEN [low |-> low, high |-> low, bad |-> TRUE, next |-> i + 1]
        ELSE IF DotsAt(i + 1) THEN MidRange(low, i + 1)
        ELSE [low |-> low, high |-> low, bad |-> FALSE, next |-> i + 1]

Rewind_Position(low) ==
    IF position > low THEN [node |-> node, position |-> 1]
    ELSE [node |-> node, position |-> position]

(* Where the walk to an element starts: at the beginning if it is behind. *)
Rewind(low) ==
    IF position > low THEN [node |-> 1, position |-> 1]
    ELSE [node |-> node, position |-> position]

(* The copies of the elements from the low-th that the walk from there     *)
(* comes by, as many as the range has.                                     *)
Take(item) ==
    LET start == Rewind(item.low)
        first == start.node + (item.low - start.position)
        many  == IF item.high < item.low THEN 0 ELSE item.high - item.low + 1
    IN  /\ result' = result \o [i \in 1..many |-> first + i - 1]
        /\ node' = first + many
        /\ position' = item.low + many

Step ==
    /\ outcome = "running" /\ next <= Len(subs)
    /\ LET item == Item(next) IN
       \/ /\ item.bad
          /\ outcome' = "bad subscript"
          /\ UNCHANGED <<next, node, position, result>>
       \/ /\ ~item.bad /\ item.low > n
          /\ next' = item.next
          /\ UNCHANGED <<node, position, result, outcome>>
       \/ /\ ~item.bad /\ item.low <= n
          /\ Take(item)
          /\ next' = item.next
          /\ UNCHANGED outcome
    /\ UNCHANGED <<n, subs>>

Done ==
    /\ outcome = "running" /\ next > Len(subs)
    /\ outcome' = "done"
    /\ UNCHANGED <<n, subs, next, node, position, result>>

Over == outcome # "running" /\ UNCHANGED vars

Next == Step \/ Done \/ Over

Spec == Init /\ [][Next]_vars

-----------------------------------------------------------------------------
(* What es.1 says of subscripts, in whole numbers: the elements between lo *)
(* and hi for lo ... hi, one and the length being what is left out, and    *)
(* nothing for elements that do not exist.  Meant[i] is what the           *)
(* subscripts from i on mean.                                              *)
Between(lo, hi) == SelectSeq([i \in 1..n |-> i], LAMBDA i : lo <= i /\ i <= hi)

RECURSIVE Meant(_)
Meant(i) ==
    IF i > Len(subs) THEN <<>>
    ELSE LET dots == IF i = 1 /\ DotsAt(1) THEN 1 ELSE i + 1
             lo   == IF dots = i THEN 1 ELSE subs[i]
         IN  IF ~DotsAt(dots) THEN Between(lo, lo) \o Meant(i + 1)
             ELSE IF dots = Len(subs) THEN Between(lo, n)
             ELSE Between(lo, subs[dots + 1]) \o Meant(dots + 2)

(* In any order and with repetitions, subscripts give the elements they    *)
(* name, although the list is not walked from its start for each.          *)
SubscriptRight == outcome = "done" => result = Meant(1)

(* current_node is the element at current_position; a node that is copied  *)
(* is never NULL.                                                          *)
NodeRight == node = position /\ ToSet(result) \subseteq 1..n
=============================================================================
