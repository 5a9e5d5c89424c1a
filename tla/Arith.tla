-------------------------------- MODULE Arith --------------------------------
(***************************************************************************)
(* The arithmetic of es (prim-math.c): every number is a word, which the   *)
(* primitives read with strtol or strtod.                                  *)
(*                                                                         *)
(* A word is what the two functions make of it, where they read all of it: *)
(* the long, in a set that is empty where there is none; whether it is a   *)
(* number for strtod, and the double, in a set that is empty where it is   *)
(* nan; and whether it has a decimal point.  A long has LongBits bits, and *)
(* what is too large for it is read as the largest; a double is a multiple *)
(* of 1 / Unit.                                                            *)
(*                                                                         *)
(* What the primitives of doubles compute is not modelled, as no one gets  *)
(* to see it: they print it with %g, of which printfmt knows nothing.      *)
(***************************************************************************)
EXTENDS Integers, Sequences, SequencesExt, FiniteSetsExt

CONSTANTS Lists,       \* what primitives are called with
          LongBits,    \* bits of a long
          Unit,        \* doubles are multiples of 1 / Unit
          Epsilon      \* numbers closer than Epsilon / Unit are equal

ArithAssumption == LongBits \in Nat \ {0} /\ Unit \in Nat \ {0} /\ Epsilon \in Nat

VARIABLES prim,        \* the primitive, "none" before
          args,        \* its arguments
          outcome      \* what has come of it

vars == <<prim, args, outcome>>

LongMin == -(2 ^ (LongBits - 1))
LongMax == 2 ^ (LongBits - 1) - 1
The(S) == CHOOSE v \in S : TRUE
Size(v) == IF v < 0 THEN -v ELSE v

\* C's division, which rounds towards zero.
Quotient_Down(a, b) == IF b > 0 THEN a \div b ELSE (-a) \div (-b)
Quotient(a, b) == LET q == Size(a) \div Size(b) IN IF (a < 0) = (b < 0) THEN q ELSE -q

Wrap(v) == ((v - LongMin) % 2 ^ LongBits) + LongMin
Bits(v) == {k \in 0 .. LongBits - 1 : (v \div 2 ^ k) % 2 = 1}
OfBits(S) == Wrap(FoldSet(LAMBDA k, v : v + 2 ^ k, 0, S))

LongOf(p, a, b) ==
    CASE p = "intaddition" -> Wrap(a + b)
      [] p = "intsubtraction" -> Wrap(a - b)
      [] p = "intmultiplication" -> Wrap(a * b)
      [] p = "intdivision" -> Quotient(a, b)
      [] p = "and" -> OfBits(Bits(a) \cap Bits(b))
      [] p = "or" -> OfBits(Bits(a) \cup Bits(b))
      [] p = "xor" -> OfBits((Bits(a) \ Bits(b)) \cup (Bits(b) \ Bits(a)))
      [] p = "bitwiseshiftleft" -> OfBits({k + b : k \in {j \in Bits(a) : j + b < LongBits}})
      [] p = "bitwiseshiftright" -> a \div 2 ^ b

\* Comparisons, which are all false of what is not a number.
Compared(p, v, w) ==
    \E x \in v.double, y \in w.double :
      CASE p = "greater" -> x > y
        [] p = "less" -> x < y
        [] p = "greaterequal" -> x >= y
        [] p = "lessequal" -> x <= y
        [] p = "equal" -> Size(x - y) < Epsilon
        [] p = "notequal" -> Size(x - y) >= Epsilon

-----------------------------------------------------------------------------
(* Calls.                                                                  *)

LongFolds   == {"intaddition", "intsubtraction", "intmultiplication", "intdivision", "and", "or", "xor"}
Shifts      == {"bitwiseshiftleft", "bitwiseshiftright"}
LongPrims   == LongFolds \cup Shifts
DoublePrims == {"addition", "subtraction", "multiplication", "division", "modulo", "pow", "min", "max",
                "abs", "tofloat"}
Comparisons == {"greater", "less", "greaterequal", "lessequal", "equal", "notequal"}
Unary       == {"abs", "tofloat", "not", "toint", "isint", "isfloat"}
Prims == LongPrims \cup DoublePrims \cup Comparisons \cup Unary \cup {"count"}

\* How many arguments there must be at least, and whether there may be more.
Least(p) ==
    CASE p \in {"addition", "intaddition", "or", "xor", "count"} -> 0
      [] p \in {"multiplication", "intmultiplication", "and", "min", "max"} \cup Unary -> 1
      [] OTHER -> 2
Exactly == Unary \cup Comparisons \cup Shifts \cup {"modulo", "pow"}
Usage(p, n) == IF p \in Exactly THEN n = Least(p) ELSE n >= Least(p)

Fails    == [kind |-> "fails"]     \* an exception
Dies     == [kind |-> "dies"]      \* the shell ends
Truth(b) == [kind |-> "truth", is |-> b]
Value(v) == [kind |-> "value", is |-> v]

\* One argument after another.
RECURSIVE LongFold(_, _, _)
LongFold(p, a, ws) ==
    IF ws = <<>> THEN Value(a)
    ELSE IF Head(ws).long = {} THEN Fails
    ELSE LET b == The(Head(ws).long)
         IN  IF (p = "intdivision" /\ b = 0) \/ (p \in Shifts /\ b \notin 0 .. LongBits - 1) THEN Fails
             ELSE IF p = "intdivision" /\ a = LongMin /\ b = -1 THEN Dies
             ELSE LongFold(p, LongOf(p, a, b), Tail(ws))

\* Where a fold begins, if that is not its first argument.
LongStart == [p \in {"intaddition", "or", "xor", "intmultiplication"} |-> IF p = "intmultiplication" THEN 1 ELSE 0]

Longs(p, ws) ==
    IF p \in DOMAIN LongStart THEN LongFold(p, LongStart[p], ws)
    ELSE IF ws[1].long = {} THEN Fails
    ELSE LongFold(p, The(ws[1].long), Tail(ws))

\* The checks of the arguments, and then badconv.
Doubles(p, ws) ==
    IF \/ \E k \in DOMAIN ws : ~ws[k].number
       \/ p \in {"division", "modulo"} /\ \E k \in 2 .. Len(ws) : ws[k].double = {0}
       \/ p = "pow" /\ ws[1].double = {0} /\ \E y \in ws[2].double : y < 0
    THEN Fails ELSE Dies

\* A double that is no long becomes what the processor makes of it.
Toint(w) ==
    IF w.long # {} THEN {Value(The(w.long))}
    ELSE IF ~w.number THEN {Fails}
    ELSE IF \E x \in w.double : Quotient(x, Unit) \in LongMin .. LongMax
    THEN {Value(Quotient(The(w.double), Unit))}
    ELSE {Value(v) : v \in {LongMin, LongMax, 0}}

Outcomes(p, ws) ==
    CASE p = "isfloat" /\ ws = <<>> -> {Dies}     \* list->term before the check
      [] ~Usage(p, Len(ws)) /\ ~(p = "isfloat" /\ ws = <<>>) -> {Fails}
      [] Usage(p, Len(ws)) ->
           CASE p \in LongPrims -> {Longs(p, ws)}
             [] p \in DoublePrims -> {Doubles(p, ws)}
             [] p \in Comparisons ->
                  IF ws[1].number /\ ws[2].number THEN {Truth(Compared(p, ws[1], ws[2]))} ELSE {Fails}
             [] p = "count" -> {Value(Len(ws))}
             [] p = "not" -> IF ws[1].long = {} THEN {Fails}
                             ELSE {Value(OfBits((0 .. LongBits - 1) \ Bits(The(ws[1].long))))}
             [] p = "toint" -> Toint(ws[1])
             [] p = "isint" -> {Truth(ws[1].long # {})}
             [] p = "isfloat" -> {Truth(ws[1].number /\ ws[1].point)}

Init == prim = "none" /\ args \in Lists /\ outcome = Fails

Call(p) ==
    /\ prim = "none" /\ prim' = p
    /\ outcome' \in Outcomes(p, args)
    /\ UNCHANGED args

Next == \E p \in Prims : Call(p)

Spec == Init /\ [][Next]_vars

-----------------------------------------------------------------------------
(* Numbers, from the outside.                                              *)

n == Len(args)
Long(k) == The(args[k].long)
Result == outcome.is
Same(a, b) == (a - b) % 2 ^ LongBits = 0

\* The result has a one where the digits of the arguments say so: Rule is told which
\* of them have one there.
Digit(v, k) == ((v + 2 ^ LongBits) \div 2 ^ k) % 2
Digits(Rule(_)) ==
    /\ Result \in LongMin .. LongMax
    /\ \A k \in 0 .. LongBits - 1 :
         (Digit(Result, k) = 1) = Rule({i \in 1 .. n : Digit(Long(i), k) = 1})

\* Longs are whole numbers as far as their bits go; quotients round to zero, but
\* shifts to the right do not.
LongRight ==
    LET from(k) == [i \in 1 .. n - k + 1 |-> Long(i + k - 1)]
    IN  CASE prim = "intaddition" -> Same(Result, FoldLeft(LAMBDA v, w : v + w, 0, from(1)))
          [] prim = "intsubtraction" -> Same(Long(1), FoldLeft(LAMBDA v, w : v + w, Result, from(2)))
          [] prim = "intmultiplication" -> Same(Result, FoldLeft(LAMBDA v, w : v * w, 1, from(1)))
          [] prim = "intdivision" /\ n = 2 ->
               LET r == Long(1) - Result * Long(2) IN Size(r) < Size(Long(2)) /\ r * Long(1) >= 0
          [] prim = "and" -> Digits(LAMBDA S : \A i \in 1 .. n : i \in S)
          [] prim = "or" -> Digits(LAMBDA S : S # {})
          [] prim = "xor" -> Digits(LAMBDA S : Cardinality(S) % 2 = 1)
          [] prim = "not" -> Result = -1 - Long(1)
          [] prim = "bitwiseshiftleft" -> Same(Result, Long(1) * 2 ^ Long(2))
          [] prim = "bitwiseshiftright" ->
               Result * 2 ^ Long(2) <= Long(1) /\ Long(1) < (Result + 1) * 2 ^ Long(2)
          [] prim = "toint" /\ args[1].long = {} ->
               \A x \in args[1].double : Size(x) < LongMax * Unit =>
                   Size(x - Result * Unit) < Unit /\ Size(Result * Unit) <= Size(x)
          [] OTHER -> TRUE

\* Numbers are in order, but for those that are equal and not the same, and for
\* nan, of which everything is false.
ComparedRight ==
    LET is(p) == Compared(p, args[1], args[2])
        converse == [greater |-> "less", less |-> "greater", greaterequal |-> "lessequal",
                     lessequal |-> "greaterequal", equal |-> "equal", notequal |-> "notequal"]
    IN  /\ Result = Compared(converse[prim], args[2], args[1])
        /\ \A x \in args[1].double, y \in args[2].double :
             /\ Cardinality({p \in {"greater", "equal", "less"} : is(p)}) = 1 \/ (is("equal") /\ x # y)
             /\ is("equal") # is("notequal") /\ is("less") # is("greaterequal") /\ is("greater") # is("lessequal")
        /\ {} \in {args[1].double, args[2].double} => ~Result

\* A primitive fails where its arguments are too few or too many, are no numbers,
\* divide by zero or shift too far, and for no other reason (all of prim-math.c).
Reason ==
    \/ ~Usage(prim, n)
    \/ prim \in LongPrims \cup {"not"} /\ \E k \in 1 .. n : args[k].long = {}
    \/ prim \in DoublePrims \cup Comparisons \cup {"toint"} /\ \E k \in 1 .. n : ~args[k].number
    \/ prim \in {"intdivision", "division", "modulo"} /\ \E k \in 2 .. n : args[k].double = {0}
    \/ prim \in Shifts /\ Long(2) \notin 0 .. LongBits - 1
    \/ prim = "pow" /\ args[1].double = {0} /\ \E y \in args[2].double : y < 0

\* Calls of which nothing is said: those of doubles that do not fail, the smallest
\* long divided by -1, and isfloat without an argument.
Excepted ==
    \/ prim \in DoublePrims /\ ~Reason
    \/ prim = "intdivision" /\ n > 1 /\ args[1].long = {LongMin}
         /\ \E k \in 2 .. n : args[k].long = {-1} /\ \A j \in 2 .. k - 1 : args[j].long = {1}
    \/ prim = "isfloat" /\ n = 0

\* Any other call fails for a reason, or has the result that the primitive is named
\* for.
ArithRight ==
    prim # "none" /\ ~Excepted =>
      CASE outcome.kind = "dies" -> FALSE
        [] outcome.kind = "fails" -> Reason
        [] outcome.kind = "value" -> ~Reason /\ LongRight
        [] outcome.kind = "truth" -> ~Reason /\ (prim \in Comparisons => ComparedRight)

\* A primitive of doubles that does not fail returns a value.
DoublesReturn == prim \in DoublePrims /\ ~Reason => outcome.kind = "value"
=============================================================================
