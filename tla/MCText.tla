------------------------------- MODULE MCText -------------------------------
(***************************************************************************)
(* The parts of es that work on text, one call after another and without   *)
(* each other: characters and pushback (Inbuf), options (Opt), ~ and ~~    *)
(* (Match), the form of variables in the environment (Envcode), splitting  *)
(* (Split), subscripts (Subscript), the words of commands (Glom), tokens   *)
(* (Lexer), trees (Syntax), commands that are expressions (Infix) and      *)
(* arithmetic (Arith).  In each behaviour one of them runs and the others  *)
(* wait at their beginning.                                                *)
(***************************************************************************)
EXTENDS Integers, Sequences, SequencesExt

VARIABLES
  which,                                                                \* the one that runs
  source, buf, rbuf, fill, rfill, ungot, hist, last,                    \* Inbuf's
  usage_message, argument_list, option_argument, next_char_position,
  caller, mains, optGiven, got, outcome,                                \* Opt's
  command, subjects, patterns, sn, pn, s, p, next, begin, parts,
  result, step,                                                         \* Match's
  name, list, envstr, namePos, decoded, read, defn, lp, word, offset,
  envStep,                                                              \* Envcode's
  ifs, ifsvalid, isifs, coalesce, splitchars, buffer, value, at,
  endword, rest, sep, given, fields,                                    \* Split's
  n, subs, nextSub, node, position, elements, subOutcome,               \* Subscript's
  heap, store, bound, done, glommed,                                    \* Glom's
  todo, pushed, caret, newline, dollar, goterror, lineno, lexAt, meta,
  token, fds, number, base, tokens, begun, throws,                      \* Lexer's
  cmds, id, ended, reductions,                                          \* Syntax's
  infix, rewritten,                                                     \* Infix's
  prim, args, computed                                                  \* Arith's

Strings(A, k) == UNION {[1 .. i -> A] : i \in 0 .. k}

-----------------------------------------------------------------------------
\* Sources of at most three characters, with the two of pushback.
Characters == INSTANCE Inbuf WITH
  Chars <- {"x", "nl"}, NUL <- "NUL", EOF <- "EOF", MAXUNGET <- 2, MaxSource <- 3

\* Words that begin options, some with the argument in the word, and others.
D == "-"
OptWords == {<<D, "x">>, <<D, "n">>, <<D, "x", "n">>, <<D, "n", "x">>, <<D, "c">>,
             <<D, "s">>, <<D, "s", "x">>, <<D, D>>, <<D>>, <<"x">>}

Options == INSTANCE Opt WITH
  Words <- OptWords, Behind <- {<<>>, <<"x">>, <<"n", D>>}, MaxWords <- 3, given <- optGiven

RawWords(A, k) == Strings([c : A, q : {FALSE}], k)
AnyWords(A, k) == Strings([c : A, q : BOOLEAN], k)
Lone(S) == {<<w>> : w \in S}

MatchCalls == {
  \* Stars: what is between them may match in several places.
  [subjects |-> Lone(Strings({"a", "b", "*"}, 3) \cup Strings({"a", "b"}, 4)),
   patterns |-> Lone(AnyWords({"a", "*"}, 3) \cup RawWords({"a", "b", "*", "?"}, 3)
                     \cup RawWords({"a", "*"}, 4))],
  \* Ranges, with what may be in them, after a star or not.
  [subjects |-> Lone(Strings({"a", "b", "c", "-", "]", "[", "~", "^"}, 1) \cup Strings({"a", "[", "]"}, 2)),
   patterns |-> Lone({<<[c |-> "[", q |-> FALSE]>> \o w : w \in AnyWords({"a", "-", "]", "~"}, 3)
                                               \cup RawWords({"a", "c", "-", "]", "~"}, 4)}
                     \cup AnyWords({"[", "]", "a", "*"}, 3))],
  \* Lists: which pattern is tried, and in which order.
  [subjects |-> Strings(Strings({"a", "b"}, 1) \cup {<<"a", "b">>}, 2),
   patterns |-> Strings(AnyWords({"a"}, 1) \cup RawWords({"a", "*", "?"}, 2), 2)]}

Matching == INSTANCE Match WITH Calls <- MatchCalls

\* What names and lists go through does not depend on each other: one is fixed.
EnvWordChars == {"a", "^O", "^N"}
EnvExports == {
  [names |-> Strings({"x", "d", "f", "-", "_", "2", "3", "5"}, 4) \ {<<>>}, lists |-> {<<<<"a">>>>}],
  [names |-> {<<"x">>},
   lists |-> UNION {[1 .. k -> Strings(EnvWordChars, 2)] : k \in 1 .. 3}
             \cup [1 .. 2 -> Strings(EnvWordChars, 3)] \cup [1 .. 1 -> Strings(EnvWordChars, 5)]]}
ForeignNames == {<<"x", "_", "_">>, <<"x", "_", "_", "2">>, <<"_", "_", "x">>}

Environment == INSTANCE Envcode WITH
  Exports <- EnvExports, Foreign <- ForeignNames, s <- namePos, step <- envStep

\* Separator strings of none, one and two characters, of which those of two do
\* not fit ifs.
Splitting == INSTANCE Split WITH
  Chars <- {"x", ":", ","}, Seps <- {<<>>, <<":">>, <<",">>, <<":", ",">>},
  IfsSize <- 3, MaxLen <- 2, MaxPieces <- 2, result <- fields

\* No subscript is too large for an int.
Subscripting == INSTANCE Subscript WITH
  IntBits <- 8, LongBits <- 9, MaxNumber <- 4, MaxSubs <- 4, MaxList <- 3,
  next <- nextSub, result <- elements, outcome <- subOutcome

\* Words over the variables x and y: what is glued or concatenated may be raw or
\* quoted, of one variable, of two, or some elements of one.
Word(c)      == [kind |-> "word", word |-> <<c>>]
Quoted(c)    == [kind |-> "qword", word |-> <<c>>]
Variable(t)  == [kind |-> "var", of |-> t]
Both(t, u)   == [kind |-> "list", head |-> t,
                 rest |-> [kind |-> "list", head |-> u, rest |-> [kind |-> "nil"]]]
Joined(t, u) == [kind |-> "concat", left |-> t, right |-> u]
Of(c)        == [kind |-> "call", body |-> c]
Command(k, names, values, body) == [kind |-> k, names |-> names, values |-> values, body |-> body]
Assign(names, t) == Command("assign", names, t, [kind |-> "nil"])

Simple == {Word("a"), Word("*"), Quoted("*"), Variable(Word("x"))}
Several == {Variable(Both(Word("x"), Word("y")))}
           \cup {[kind |-> "varsub", of |-> Word("x"), subs |-> t] :
                   t \in {Word("1"), Both(Word("2"), Word("1")), Variable(Word("x"))}}
GlomTrees ==
  {Both(t, u) : t, u \in Simple \cup Several} \cup {Joined(t, u) : t, u \in Simple \cup Several}
  \cup {Joined(Joined(t, u), v) : t, u, v \in Simple} \cup {Joined(t, Both(u, v)) : t, u, v \in Simple}

\* Commands that return the list of a variable or a part of it, or the shell's own,
\* and assignments to which such a command is glued.
OneOrBoth == {Word("x"), Both(Word("x"), Word("y"))}
Returns  == {Assign(names, Both(Word("a"), t)) : names \in OneOrBoth, t \in {Variable(Word("y")), Word("*")}}
Inner    == Returns
            \cup {Command("let", Word("y"), Variable(Word("x")), c) : c \in Returns}
            \cup {Command("call", Both(Word("*"), Word("y")), Both(Word("b"), Variable(Word("x"))), c) : c \in Returns}
            \cup {Command("for", Word("y"), Variable(Word("x")), c) : c \in Returns}
            \cup {Command("result", [kind |-> "nil"], Variable(Word("x")), [kind |-> "nil"])}
GlomCommands ==
  Inner
  \cup {Assign(names, t) : names \in OneOrBoth, t \in {Word("a"), Both(Word("b"), Variable(Word("x")))}}
  \cup {Assign(Word("x"), Both(Of(c), t)) : c \in Inner,
                                           t \in {Word("a"), Of(Assign(Word("y"), Variable(Word("x"))))}}

FilesOf(pattern) == IF pattern = <<"*">> THEN <<<<"a">>, <<"x">>>>
                    ELSE IF pattern = <<"a", "*">> THEN <<<<"a">>>> ELSE <<>>

Glomming == INSTANCE Glom WITH
  Names <- {<<"x">>, <<"y">>}, Trees <- GlomTrees, Commands <- GlomCommands, Files <- FilesOf,
  MaxCommands <- 2, outcome <- glommed

\* Texts of words and quotes, of names after dollar signs, of escapes, of
\* redirections with their numbers, and of operators.
LexTexts ==
  Strings({"a", "-", "1", "~", "$", "'", " ", "("}, 3) \cup Strings({"a", "'", "\n", "$", "=", "#"}, 4)
  \cup {<<"\\">> \o t : t \in Strings({"a", "x", "q", "1", "8", "0", "\n", "."}, 3)}
  \cup {<<"a", "\\">> \o t : t \in Strings({"x", "1", "\n", " "}, 2)}
  \cup {<<"$">> \o t : t \in Strings({"a", ".", "-", "\\", "\n", "&"}, 3)}
  \cup {<<c>> \o t : c \in {"<", ">", "|"}, t \in Strings({"<", ">", "=", "|", "a"}, 2)}
  \cup {t \o <<"[">> \o u : t \in {<<">">>, <<"<", ">", ">">>, <<"|">>}, u \in Strings({"1", "=", "]", "\n"}, 4)}
  \cup Strings({"bq", "&", "f", "n", "^", ";"}, 3)

Lexing == INSTANCE Lexer WITH
  Texts <- LexTexts, CharSize <- 16, MaxThrows <- 1, w <- caret, at <- lexAt, buf <- token, n <- number

\* Three items after a first word, and then two commands of at most one.
SyntaxItem(k, t) == [kind |-> k, s |-> t]
Putting == {SyntaxItem("word", "b"), SyntaxItem("file", "%create"), SyntaxItem("process", "%open")}
AnyItem == Putting \cup {SyntaxItem("file", "%heredoc"), SyntaxItem("process", "%append"), SyntaxItem("dup", "2")}

Parsing == INSTANCE Syntax WITH
  Firsts <- Strings(AnyItem, 2) \cup [1 .. 3 -> Putting], Others <- Strings({SyntaxItem("process", "%open")}, 1),
  MaxReductions <- 4, MaxCommands <- 3

\* Operands in groups, complete expressions or not, and redirections.
InWord(t)  == [kind |-> "word", s |-> t]
InGroup(t) == [kind |-> "group", items |-> t]
AnyOperator == {InWord(t) : t \in {"multiply", "pow", "plus", "~and", "less"}}
Operands == {InWord("1"), InGroup(<<InWord("2"), InWord("plus"), InWord("x")>>)}
Arguments ==
  {InWord("1"), InWord("x"), InWord("plus"), InWord("multiply"), InGroup(<<InWord("1")>>),
   InGroup(<<InWord("1"), InWord("plus")>>), InGroup(<<InGroup(<<InWord("2"), InWord("~and"), InWord("x")>>)>>)}
Expressions ==
  [first : {InWord("1"), InWord("x")},
   args : {<<a, b, c, d, e, f>> : a, c, e \in AnyOperator, b, d, f \in Operands}]
  \cup [first : {InWord(t) : t \in {"1", "x", "~not", "abs", "count"}}
                \cup {InGroup(<<InWord("1"), InWord("less"), InWord("2")>>), InGroup(<<>>)},
        args : Strings(Arguments, 3)
               \cup {<<[kind |-> "redirection"]>> \o t : t \in Strings({InWord("1"), InWord("plus")}, 2)}]

Rewriting == INSTANCE Infix WITH Commands <- Expressions, command <- infix, result <- rewritten

\* All longs of four bits; words that only strtod reads, that both read, but as
\* different numbers (20, 010), nan, and others.
Numeral(long, double, point) == [long |-> long, number |-> TRUE, double |-> double, point |-> point]
LongWord(v) == Numeral({v}, {4 * v}, FALSE)
Numerals ==
  {LongWord(v) : v \in -8 .. 7}
  \cup {Numeral({7}, {80}, FALSE), Numeral({4}, {20}, FALSE), Numeral({}, {16}, FALSE), Numeral({}, {80}, TRUE),
        Numeral({}, {10}, TRUE), Numeral({}, {-11}, TRUE), Numeral({}, {1}, TRUE), Numeral({}, {}, FALSE),
        [long |-> {}, number |-> FALSE, double |-> {}, point |-> FALSE]}

Computing == INSTANCE Arith WITH
  Lists <- Strings(Numerals, 2) \cup [1 .. 3 -> {LongWord(v) : v \in {0, 1, -1, -3, -8}}],
  LongBits <- 4, Unit <- 4, Epsilon <- 2,
  outcome <- computed

ASSUME TextAssumption ==
  /\ Characters!InbufAssumption /\ Options!OptAssumption /\ Matching!MatchAssumption
  /\ Environment!EnvcodeAssumption /\ Splitting!SplitAssumption
  /\ Subscripting!SubscriptAssumption /\ Glomming!GlomAssumption
  /\ Lexing!LexerAssumption /\ Parsing!SyntaxAssumption /\ Computing!ArithAssumption

-----------------------------------------------------------------------------
charVars  == <<source, buf, rbuf, fill, rfill, ungot, hist, last>>
optVars   == <<usage_message, argument_list, option_argument, next_char_position, caller, mains,
               optGiven, got, outcome>>
matchVars == <<command, subjects, patterns, sn, pn, s, p, next, begin, parts, result, step>>
envVars   == <<name, list, envstr, namePos, decoded, read, defn, lp, word, offset, envStep>>
splitVars == <<ifs, ifsvalid, isifs, coalesce, splitchars, buffer, value, at, endword, rest, sep,
               given, fields>>
subVars   == <<n, subs, nextSub, node, position, elements, subOutcome>>
glomVars  == <<heap, store, bound, done, glommed>>
lexVars   == <<todo, pushed, caret, newline, dollar, goterror, lineno, lexAt, meta, token, fds, number,
               base, tokens, begun, throws>>
treeVars  == <<cmds, id, ended, reductions>>
infixVars == <<infix, rewritten>>
arithVars == <<prim, args, computed>>
parseVars == <<lexVars, treeVars, infixVars, arithVars>>

vars == <<which, charVars, optVars, matchVars, envVars, splitVars, subVars, glomVars, parseVars>>

\* Where those that do not run wait.
CharactersWait == source = <<>> /\ Characters!Init
MatchingWaits == subjects = <<>> /\ patterns = <<>> /\ command = "~" /\ Matching!Init
EnvironmentWaits == name = <<"x">> /\ list = <<<<"a">>>> /\ Environment!Init
SplittingWaits == sep = <<>> /\ Splitting!Init
SubscriptingWaits == n = 0 /\ subs = <<>> /\ Subscripting!Init

LexingWaits == todo = <<>> /\ Lexing!Init
RewritingWaits == infix = [first |-> InWord("1"), args |-> <<>>] /\ Rewriting!Init
ComputingWaits == args = <<>> /\ Computing!Init

Init ==
  /\ which \in {"characters", "options", "match", "environment", "split", "subscript", "words",
               "lexer", "syntax", "infix", "arithmetic"}
  /\ Options!Init /\ Glomming!Init /\ Parsing!Init
  /\ IF which = "characters" THEN Characters!Init ELSE CharactersWait
  /\ IF which = "match" THEN Matching!Init ELSE MatchingWaits
  /\ IF which = "environment" THEN Environment!Init ELSE EnvironmentWaits
  /\ IF which = "split" THEN Splitting!Init ELSE SplittingWaits
  /\ IF which = "subscript" THEN Subscripting!Init ELSE SubscriptingWaits
  /\ IF which = "lexer" THEN Lexing!Init ELSE LexingWaits
  /\ IF which = "infix" THEN Rewriting!Init ELSE RewritingWaits
  /\ IF which = "arithmetic" THEN Computing!Init ELSE ComputingWaits

Next ==
  \/ /\ which = "characters" /\ Characters!Next
     /\ UNCHANGED <<which, optVars, matchVars, envVars, splitVars, subVars, glomVars, parseVars>>
  \/ /\ which = "options" /\ Options!Next
     /\ UNCHANGED <<which, charVars, matchVars, envVars, splitVars, subVars, glomVars, parseVars>>
  \/ /\ which = "match" /\ Matching!Next
     /\ UNCHANGED <<which, charVars, optVars, envVars, splitVars, subVars, glomVars, parseVars>>
  \/ /\ which = "environment" /\ Environment!Next
     /\ UNCHANGED <<which, charVars, optVars, matchVars, splitVars, subVars, glomVars, parseVars>>
  \/ /\ which = "split" /\ Splitting!Next
     /\ UNCHANGED <<which, charVars, optVars, matchVars, envVars, subVars, glomVars, parseVars>>
  \/ /\ which = "subscript" /\ Subscripting!Next
     /\ UNCHANGED <<which, charVars, optVars, matchVars, envVars, splitVars, glomVars, parseVars>>
  \/ /\ which = "words" /\ Glomming!Next
     /\ UNCHANGED <<which, charVars, optVars, matchVars, envVars, splitVars, subVars, parseVars>>
  \/ /\ which = "lexer" /\ Lexing!Next
     /\ UNCHANGED <<which, charVars, optVars, matchVars, envVars, splitVars, subVars, glomVars, treeVars, infixVars, arithVars>>
  \/ /\ which = "syntax" /\ Parsing!Next
     /\ UNCHANGED <<which, charVars, optVars, matchVars, envVars, splitVars, subVars, glomVars, lexVars, infixVars, arithVars>>
  \/ /\ which = "infix" /\ Rewriting!Next
     /\ UNCHANGED <<which, charVars, optVars, matchVars, envVars, splitVars, subVars, glomVars, lexVars, treeVars, arithVars>>
  \/ /\ which = "arithmetic" /\ Computing!Next
     /\ UNCHANGED <<which, charVars, optVars, matchVars, envVars, splitVars, subVars, glomVars, lexVars, treeVars, infixVars>>

Spec == Init /\ [][Next]_vars

-----------------------------------------------------------------------------
\* What get and unget give the lexer is one sequence of characters, each of which
\* enters the history line once.
StreamSpec == Characters!StreamSpec /\ Characters!HistoryOnce

\* ~ says whether some word matches some pattern: listmatch, and match with the
\* place after the last star as the only one to come back to.  ~~ returns the parts
\* that the wildcards stand for: extractsinglematch finds the match again, as it
\* asserts but where a star follows another.
MatchRight ==
  /\ [](Matching!TypeOK /\ Matching!Backtracking /\ Matching!MatchRight /\ Matching!AssertsStars)
  /\ Matching!PartsRight

\* %N undoes %F within the name, and importvar undoes %W where each word has one
\* character to escape at most.
ReadsBack ==
  Environment!TypeOK /\ Environment!NameBack /\ Environment!InBounds /\ Environment!ListBackOnce

\* The splitter's fields are those of the text, wherever it is cut, and its table
\* is that of the separators it was called with.
SplitRight == Splitting!TypeOK /\ Splitting!SplitRight /\ Splitting!SepRight

\* The words of a command are what it is written with, each with its quotes, and
\* gluing lists together leaves those alone that were bound to a name; subscript
\* returns the elements that are named, and its node is the one at its position.
WordsRight ==
  /\ Glomming!TypeOK /\ Glomming!QuotesFit /\ Glomming!WordsRight /\ Glomming!ListsKeep
  /\ Subscripting!TypeOK /\ Subscripting!SubscriptRight /\ Subscripting!NodeRight

\* The tokens that a parse gets are those of the text it reads, whatever came
\* before it: yylex keeps no more than the dollar sign over an exception.
LexRight == Lexing!LexRight

\* The trees of commands run what the commands say (redirect, mkseq, mkpipe), and
\* what becomes a call is the expression that is written there (rewriteinfix).
RewriteRight == Parsing!RewriteRight /\ Parsing!AbortsOnly /\ Rewriting!InfixRight

\* A command that is an expression is rewritten (rewriteinfix under arithword).
OperatorsFound == Rewriting!OperatorsFound

\* Primitives of numbers return what they are named for, or fail for a reason,
\* where they do not end the shell (prim-math.c).
ArithRight == Computing!ArithRight

\* A primitive of doubles that gets what it asks for returns (prim-math.c).
DoublesReturn == Computing!DoublesReturn

-----------------------------------------------------------------------------
(* The options of a list, by recursion on its words and letters. *)

Result(opts, left, ok) == [got |-> opts, rest |-> left, ok |-> ok, known |-> TRUE]
Unknown == [known |-> FALSE]

RECURSIVE Parse(_, _, _), ParseWord(_, _, _, _)

\* The words from the first on.
Parse(c, words, opts) ==
  IF words = <<>> \/ Head(words)[1] # D THEN Result(opts, words, TRUE)
  ELSE IF Head(words) = <<D, D>> THEN Result(opts, Tail(words), TRUE)
  ELSE IF Head(words) = <<D>> THEN Unknown
  ELSE ParseWord(c, Tail(Head(words)), Tail(words), opts)

\* The letters that are left of a word, and the words after it.
ParseWord(c, letters, words, opts) ==
  IF letters = <<>> THEN Parse(c, words, opts)
  ELSE LET l    == Head(letters)
           more == Tail(letters)
       IN  IF l \in Options!Plain[c] THEN ParseWord(c, more, words, Append(opts, <<l>>))
           ELSE IF l \in Options!Stop[c] /\ more = <<>> THEN Result(Append(opts, <<l>>), words, TRUE)
           ELSE IF l \notin Options!WithArgument[c] THEN Result(opts, <<>>, FALSE)
           ELSE IF more # <<>> THEN Parse(c, words, Append(opts, <<l, more>>))
           ELSE IF words = <<>> THEN Result(opts, <<>>, FALSE)
           ELSE Parse(c, Tail(words), Append(opts, <<l, Head(words)>>))

\* Where -s has letters after it, main leaves the word among its arguments.
StopsWithin == outcome.caller = "main" /\ <<D, "s", "x">> \in ToSet(outcome.list)

\* Every call of esopt's gets the options that its words have, in their order,
\* with their arguments, and the words after them, or it fails where they are
\* wrong; and no letter is read after a word's end.  This says nothing of a lone dash
\* among the options, nor of what main makes of letters after -s.
ParseRight ==
  /\ Options!TypeOK /\ Options!InBounds
  /\ outcome.caller # "none" /\ ~StopsWithin =>
    LET r == Parse(outcome.caller, outcome.list, <<>>)
    IN  r.known =>
        /\ outcome.ok = r.ok
        /\ outcome.ok => outcome.got = r.got /\ outcome.rest = r.rest

\* A call begins with no usage message left over: esoptbegin asserts it (opt.c).
NoMessageLeft == Options!NoMessageLeft
=============================================================================
