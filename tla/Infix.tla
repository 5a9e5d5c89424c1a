-------------------------------- MODULE Infix --------------------------------
(***************************************************************************)
(* Commands that are written as expressions, 1 plus 2 multiply x: how      *)
(* rewriteinfix (syntax.c) makes calls of es's functions of the first word *)
(* of a command and its arguments, or leaves them alone.                   *)
(*                                                                         *)
(* A word is an operator, a function, a number or another; groups are      *)
(* words in parentheses.  Each operator of the model stands for those of   *)
(* its precedence.                                                         *)
(***************************************************************************)
EXTENDS Integers, Sequences, SequencesExt, FiniteSetsExt

CONSTANTS Commands   \* first words with their arguments

VARIABLES command,   \* one of them
          result     \* the call that comes of it, or None; Pending before

vars == <<command, result>>

Word(s)  == [kind |-> "word", s |-> s]
Group(t) == [kind |-> "group", items |-> t]
Var(t)   == [kind |-> "var", of |-> t]
Call(op, args) == [kind |-> "call", op |-> op, args |-> args]
Redirection == [kind |-> "redirection"]     \* nRedir, in front of the other arguments
None == [kind |-> "none"]
Pending == [kind |-> "pending"]

Numbers == {"1", "2"}

\* Operators by their precedence, as parseproduct, parsesum, parsebitwise and
\* parsecomparison look for them.
Levels == <<{"multiply", "pow"}, {"plus", "minus"}, {"~and"}, {"less"}>>

\* normalizeinfix, and arithword as well: a word that is no number is a variable.
Normalizeinfix(t) == IF t.kind = "word" /\ t.s \notin Numbers THEN Var(t) ELSE t

RECURSIVE Arithword(_)
Arithword(t) ==
    IF t.kind = "group" THEN Group([i \in DOMAIN t.items |-> Arithword(t.items[i])])
    ELSE Normalizeinfix(t)

RECURSIVE Resolve(_), Level(_, _, _), Operations(_, _)

Parsed(t, rest, saw) == [tree |-> t, rest |-> rest, saw |-> saw]
Failed == Parsed(None, <<>>, FALSE)

Resolve_Begins(t) ==                         \* mutant: a group may begin with one
    IF t.kind = "redirection" \/ (t.kind = "group" /\ t.items = <<>>) THEN None
    ELSE IF t.kind = "group"
    THEN Normalizeinfix(Level(Len(Levels), Head(t.items), Tail(t.items)).tree)
    ELSE Normalizeinfix(t)

\* resolveinfixoperand: a group must be an expression, all of it.
Resolve(t) ==
    IF t.kind = "redirection" \/ (t.kind = "group" /\ t.items = <<>>) THEN None
    ELSE IF t.kind = "group"
    THEN LET p == Level(Len(Levels), Head(t.items), Tail(t.items))
         IN  IF p.rest = <<>> THEN Normalizeinfix(p.tree) ELSE None
    ELSE Normalizeinfix(t)

\* The operators of a precedence and those that bind closer: an operand, and
\* operators with operands as long as there are some.
Level(k, t, rest) ==
    IF k = 0 THEN Parsed(Resolve(t), rest, FALSE) ELSE Operations(k, Level(k - 1, t, rest))

Operations(k, lhs) ==
    IF lhs.tree = None \/ lhs.rest = <<>> THEN lhs
    ELSE IF Head(lhs.rest).kind = "redirection" THEN Failed
    ELSE IF Head(lhs.rest) \notin {Word(s) : s \in Levels[k]} THEN lhs
    ELSE IF Len(lhs.rest) = 1 THEN Failed
    ELSE LET rhs == Level(k - 1, lhs.rest[2], SubSeq(lhs.rest, 3, Len(lhs.rest)))
         IN  IF rhs.tree = None THEN Failed
             ELSE Operations(k, Parsed(Call(Head(lhs.rest).s, <<lhs.tree, rhs.tree>>), rhs.rest, TRUE))

Comparison(t, rest) == Level(Len(Levels), t, rest)

Rewriteinfix(first, args) ==
    IF first = Word("~not")
    THEN IF args = <<>> THEN None
         ELSE LET p == Comparison(Head(args), Tail(args))
              IN  IF p.tree = None \/ p.rest # <<>> THEN None ELSE Call("~not", <<Normalizeinfix(p.tree)>>)
    ELSE IF first = Word("abs")
    THEN IF Len(args) # 1 \/ Resolve(args[1]) = None THEN None ELSE Call("abs", <<Resolve(args[1])>>)
    ELSE IF first = Word("count")
    THEN IF \E i \in DOMAIN args : Resolve(args[i]) = None THEN None
         ELSE Call("count", [i \in DOMAIN args |-> Resolve(args[i])])
    ELSE LET p == Comparison(first, args)
         IN  IF p.saw /\ p.tree # None /\ p.rest = <<>> THEN p.tree ELSE None

Init == command \in Commands /\ result = Pending

\* simple in parse.y; what is written as a word, and not first, is wrapped.
Simple ==
    /\ result = Pending
    /\ LET first == command.first
       IN  result' = Rewriteinfix(IF first.kind = "group" THEN Arithword(first) ELSE first,
                                  [i \in DOMAIN command.args |-> Arithword(command.args[i])])
    /\ UNCHANGED command

Next == Simple

Spec == Init /\ [][Next]_vars

-----------------------------------------------------------------------------
(* Expressions, from the outside: the last operator of the lowest          *)
(* precedence is the one that is applied last.                             *)

IsOperator(t) == \E k \in DOMAIN Levels : t \in {Word(s) : s \in Levels[k]}
Precedence(t) == CHOOSE k \in DOMAIN Levels : t \in {Word(s) : s \in Levels[k]}

RECURSIVE IsExpression(_), Value(_)
IsOperand(t) ==
    /\ t.kind # "redirection"
    /\ t.kind = "group" => IsExpression(t.items)
IsExpression(e) ==
    /\ Len(e) % 2 = 1
    /\ \A i \in DOMAIN e : IF i % 2 = 1 THEN IsOperand(e[i]) ELSE IsOperator(e[i])
Value(e) ==
    IF Len(e) = 1
    THEN CASE e[1].kind = "group" -> Value(e[1].items)
           [] e[1].kind = "word" -> IF e[1].s \in Numbers THEN e[1] ELSE Var(e[1])
           [] OTHER -> e[1]
    ELSE LET ops == {i \in DOMAIN e : i % 2 = 0}
             k   == Max({Precedence(e[i]) : i \in ops})
             at  == Max({i \in ops : Precedence(e[i]) = k})
         IN  Call(e[at].s, <<Value(SubSeq(e, 1, at - 1)), Value(SubSeq(e, at + 1, Len(e)))>>)

\* What the command should become, where words come as they are written.
Expected ==
    LET first == command.first
        args  == command.args
        all   == <<first>> \o args
    IN  CASE first = Word("~not") -> IF IsExpression(args) THEN Call("~not", <<Value(args)>>) ELSE None
          [] first = Word("abs") -> IF Len(args) = 1 /\ IsOperand(args[1])
                                    THEN Call("abs", <<Value(args)>>) ELSE None
          [] first = Word("count") -> IF \A i \in DOMAIN args : IsOperand(args[i])
                                      THEN Call("count", [i \in DOMAIN args |-> Value(<<args[i]>>)])
                                      ELSE None
          [] OTHER -> IF Len(all) > 1 /\ IsExpression(all) THEN Value(all) ELSE None

\* A command that is rewritten was an expression, all of it, and becomes calls by the
\* precedence of its operators, from left to right where it is equal (rewriteinfix,
\* parsecomparison and those below it).
InfixRight == result \notin {Pending, None} => result = Expected

\* Every command that is an expression becomes calls.
OperatorsFound == result # Pending => result = Expected
=============================================================================
