------------------------------- MODULE Lexer -------------------------------
(***************************************************************************)
(* The lexer of es (token.c): yylex, character by character, with what it  *)
(* keeps in static variables from one token to the next, what inityy       *)
(* resets of it when a parse begins, and the exceptions that end a parse   *)
(* where a character is read.  The characters come as CharStream has them: *)
(* a sequence that is read from the front and pushed back to the front.    *)
(***************************************************************************)
EXTENDS Integers, Sequences, SequencesExt, FiniteSetsExt

CONSTANTS Texts,      \* the texts that are read
          CharSize,   \* how many values a char has
          MaxThrows   \* bound: exceptions that reads throw

LexerAssumption == CharSize \in Nat \ {0} /\ MaxThrows \in Nat

EOF == "EOF"
MAXUNGET == 2

VARIABLES todo,       \* the characters to come, those pushed back in front
          pushed,     \* how many of them have been pushed back
          w,          \* NW, RW or KW: what a free caret depends on
          newline,    \* whether the next line is a continuation
          dollar,     \* whether a variable's name may come next
          goterror,   \* whether a newline stands for the rest of a wrong line
          lineno,     \* input->lineno
          at,         \* where yylex is
          meta,       \* the characters that do not belong to a word
          buf,        \* the characters of the word or the operator so far
          fds,        \* the numbers in brackets, as digits
          n, base,    \* the number of an escape
          tokens,     \* what the parser has got since its parse began
          begun,      \* what there was to read then, with dollar and lineno
          throws      \* what the bound leaves

statics == <<w, newline, dollar, goterror, lineno>>
locals  == <<meta, buf, fds, n, base>>
vars == <<todo, pushed, statics, at, locals, tokens, begun, throws>>

Digits == {"0", "1", "8"}
DigitValue == [d \in Digits \cup {"a", "f"} |->
                 CASE d = "0" -> 0 [] d = "1" -> 1 [] d = "8" -> 8 [] d = "a" -> 10 [] d = "f" -> 15]
DigitsOf(k) == {d \in DOMAIN DigitValue : DigitValue[d] < k}
\* nw and dnw, of the characters of Texts; those of Always belong to words all the same.
Nw  == {" ", "\n", "#", ";", "&", "|", "^", "$", "=", "bq", "'", "!", "{", "}", "(", ")", "<", ">", "\\"}
Dnw == Nw \cup {".", "~", "@", "[", "]", "-", "+"}
Always == {"-", "*", "+"}
Controls == {"a", "n"}       \* the letters that escape a control character
Letters == {"a", "f", "n", "q", "x"}

Keywords == {<<"@">>, <<"~">>, <<"~", "~">>, <<"f", "n">>}

Redirections == {<<"|">>, <<"<">>, <<"<", ">">>, <<"<", ">", ">">>, <<"<", "<">>, <<"<", "<", "<">>,
                 <<">">>, <<">", ">">>, <<">", ">", "<">>, <<">", "<">>}
\* Operators that may go on, and those that may not.
Open  == Redirections \cup {<<"bq">>, <<"bq", "bq">>, <<"$">>, <<"&">>}
Final == {<<"bq", "^">>, <<"bq", "bq", "^">>, <<"$", "#">>, <<"$", "^">>, <<"$", "&">>, <<"&", "&">>,
          <<"|", "|">>, <<"<", "=">>}

-----------------------------------------------------------------------------
(* GETC and UNGETC.                                                        *)

Char == IF todo = <<>> THEN EOF ELSE Head(todo)

\* GETC, and after it UNGETC until the characters of s are in front.
ReadBack(s) ==
    /\ todo' = SelectSeq(s, LAMBDA c : c # EOF) \o (IF todo = <<>> THEN todo ELSE Tail(todo))
    /\ pushed' = Max({pushed - 1, 0}) + Len(s)

Read == ReadBack(<<>>)
Peek == ReadBack(<<Char>>)

Goto(where) == at' = where /\ UNCHANGED <<tokens, begun>>

\* yylex returns a token, and at which line it does.
Return(kind, text) ==
    /\ tokens' = Append(tokens, [kind |-> kind, text |-> text, line |-> lineno'])
    /\ at' = "parser"
    /\ UNCHANGED begun

-----------------------------------------------------------------------------
(* The parser.                                                             *)

AfterKind(k) == tokens # <<>> /\ Last(tokens).kind = k
AfterError == \E i \in 1 .. Len(tokens) : tokens[i].kind = "ERROR"

Inityy_Keep == newline' = FALSE /\ UNCHANGED <<w, dollar, goterror, lineno>>

Inityy == newline' = FALSE /\ w' = "NW" /\ UNCHANGED <<dollar, goterror, lineno>>

\* parse begins where the text goes on.
Parse ==
    /\ Inityy
    /\ at' = "parser" /\ tokens' = <<>>
    /\ begun' = [todo |-> todo, dollar |-> dollar, lineno |-> lineno]
    /\ UNCHANGED <<todo, pushed, locals>>

Init ==
    /\ todo \in Texts /\ pushed = 0
    /\ w = "NW" /\ newline = FALSE /\ dollar = FALSE /\ goterror = FALSE /\ lineno = 1
    /\ at = "parser" /\ meta = Nw /\ buf = <<>> /\ fds = <<<<>>, <<>>>> /\ n = 0 /\ base = 8
    /\ tokens = <<>>
    /\ begun = [todo |-> todo, dollar |-> FALSE, lineno |-> 1]
    /\ throws = MaxThrows

\* A newline ends the parse, or it does not because of a brace.
EndOfLine ==
    /\ at = "parser" /\ AfterKind("NL")
    /\ Parse /\ UNCHANGED throws

\* A signal or a failed read is thrown where a character is read that has not been
\* pushed back, and the loop that has called the parser calls it again.
Thrown ==
    /\ at # "parser" /\ pushed = 0 /\ throws > 0 /\ throws' = throws - 1
    /\ Parse

\* yylex up to its first GETC; after an error the rest of the line is a newline.
Begin ==
    /\ UNCHANGED <<todo, pushed, w, lineno, buf, fds, n, base, throws>>
    /\ at = "parser"
    /\ ~AfterKind("ENDFILE") /\ ~(AfterKind("NL") /\ AfterError)
    /\ IF goterror
       THEN /\ goterror' = FALSE
            /\ Return("NL", <<>>)
            /\ UNCHANGED <<dollar, newline, meta>>
       ELSE /\ meta' = IF dollar THEN Dnw ELSE Nw
            /\ dollar' = FALSE /\ newline' = FALSE
            /\ Goto("top")
            /\ UNCHANGED goterror

-----------------------------------------------------------------------------
(* Lexical errors.                                                         *)

\* scanerror, called with the character c: it reads the rest of the line.
Scanerror(c) ==
    IF c \in {"\n", EOF}
    THEN goterror' = TRUE /\ Return("ERROR", <<>>)
    ELSE Goto("skip") /\ UNCHANGED goterror

Skip ==
    /\ UNCHANGED <<w, newline, dollar, lineno, locals, throws>>
    /\ at = "skip"
    /\ Read /\ Scanerror(Char)

-----------------------------------------------------------------------------
(* The beginning of a token.                                               *)

InWord(c, numeric) == c # EOF /\ (c \notin meta \/ (~numeric /\ c \in Always))

Begins(c) == InWord(c, FALSE) \/ c \in {"bq", "!", "$", "'", "="}

Blank ==
    /\ UNCHANGED <<newline, dollar, goterror, lineno, at, locals, tokens, begun, throws>>
    /\ at = "top" /\ Char = " "
    /\ w' = "NW" /\ Read

InsertFreeCaret_Word(c) == w = "RW" /\ Begins(c)

\* InsertFreeCaret, before what begins a word where one has just ended.
InsertFreeCaret(c) == w # "NW" /\ Begins(c)

FreeCaret ==
    /\ UNCHANGED <<newline, dollar, goterror, lineno, locals, throws>>
    /\ at = "top" /\ Char # " " /\ InsertFreeCaret(Char)
    /\ w' = "NW" /\ Peek /\ Return("^", <<>>)

NewLine ==
    /\ lineno' = lineno + 1 /\ newline' = TRUE /\ w' = "NW"
    /\ Return("NL", <<>>)

\* A token of one character.
Single ==
    /\ UNCHANGED <<dollar, goterror, locals, throws>>
    /\ at = "top" /\ ~InsertFreeCaret(Char) /\ ~InWord(Char, FALSE)
    /\ \/ /\ Char = EOF
          /\ UNCHANGED <<w, lineno, newline>> /\ Return("ENDFILE", <<>>)
       \/ /\ Char = "\n" /\ NewLine
       \/ /\ Char \in {"!", "="}
          /\ w' = "KW" /\ UNCHANGED <<lineno, newline>> /\ Return(Char, <<>>)
       \/ /\ Char \notin {EOF, "\n", "!", "=", " ", "'", "\\", "#"} /\ <<Char>> \notin Open
          /\ w' = "NW" /\ UNCHANGED <<lineno, newline>>
          /\ Return(IF Char = "(" /\ w = "RW" THEN "SUB" ELSE Char, <<>>)
    /\ Read

\* A token of more.
Several ==
    /\ UNCHANGED <<newline, goterror, lineno, meta, n, base, throws>>
    /\ at = "top" /\ ~InsertFreeCaret(Char)
    /\ \/ InWord(Char, FALSE) /\ Goto("word") /\ buf' = <<Char>> /\ UNCHANGED <<w, dollar>>
       \/ Char = "'" /\ Goto("quote") /\ buf' = <<>> /\ UNCHANGED <<w, dollar>>
       \/ Char = "\\" /\ Goto("backslash") /\ UNCHANGED <<w, dollar, buf>>
       \/ Char = "#" /\ Goto("comment") /\ UNCHANGED <<w, dollar, buf>>
       \/ /\ <<Char>> \in Open
          /\ Goto("operator") /\ buf' = <<Char>> /\ w' = "NW"
          /\ dollar' = (Char = "$")
    /\ fds' = <<<<>>, <<>>>>
    /\ Read

Comment ==
    /\ UNCHANGED <<dollar, goterror, locals, throws>>
    /\ at = "comment"
    /\ \/ Char = "\n" /\ NewLine
       \/ Char = EOF /\ UNCHANGED <<lineno, newline, w>> /\ Return("ENDFILE", <<>>)
       \/ Char \notin {"\n", EOF} /\ Goto("comment") /\ UNCHANGED <<lineno, newline, w>>
    /\ Read

-----------------------------------------------------------------------------
(* Words.                                                                  *)

Numeric == buf[1] \in Digits

Word ==
    /\ UNCHANGED <<newline, dollar, goterror, lineno, meta, fds, n, base, throws>>
    /\ at = "word"
    /\ IF InWord(Char, Numeric)
       THEN buf' = Append(buf, Char) /\ Read /\ Goto("word") /\ UNCHANGED w
       ELSE /\ Peek
            /\ IF buf \in Keywords
               THEN w' = "KW" /\ Return("keyword", buf)
               ELSE w' = "RW" /\ Return("WORD", buf)
            /\ UNCHANGED buf

\* Within quotes; two of them stand for one.
Quote ==
    /\ UNCHANGED <<newline, dollar, meta, fds, n, base, throws>>
    /\ at = "quote"
    /\ Read
    /\ \/ Char = "'" /\ Goto("quote'") /\ UNCHANGED <<buf, w, goterror, lineno>>
       \/ /\ Char \notin {"'", EOF}
          /\ buf' = Append(buf, Char)
          /\ lineno' = IF Char = "\n" THEN lineno + 1 ELSE lineno
          /\ Goto("quote") /\ UNCHANGED <<w, goterror>>
       \/ Char = EOF /\ w' = "NW" /\ UNCHANGED <<buf, lineno>> /\ Scanerror(EOF)

AfterQuote ==
    /\ UNCHANGED <<newline, dollar, goterror, lineno, meta, fds, n, base, throws>>
    /\ at = "quote'"
    /\ IF Char = "'"
       THEN Read /\ buf' = Append(buf, "'") /\ Goto("quote") /\ UNCHANGED w
       ELSE Peek /\ w' = "RW" /\ Return("QWORD", buf) /\ UNCHANGED buf

\* A backslash: a continued line is a blank, and a character begins a word.
Backslash ==
    /\ UNCHANGED <<newline, dollar, locals, throws>>
    /\ at = "backslash"
    /\ \/ /\ Char = "\n"
          /\ ReadBack(<<" ">>) /\ lineno' = lineno + 1 /\ Goto("top")
          /\ UNCHANGED <<w, goterror>>
       \/ /\ Char = EOF
          /\ Peek /\ UNCHANGED <<w, lineno>> /\ Scanerror(EOF)
       \/ /\ Char \notin {"\n", EOF} /\ w # "NW"
          /\ ReadBack(<<"\\", Char>>) /\ w' = "NW" /\ UNCHANGED <<goterror, lineno>>
          /\ Return("^", <<>>)
       \/ /\ Char \notin {"\n", EOF} /\ w = "NW"
          /\ Peek /\ w' = "RW" /\ Goto("escape")
          /\ UNCHANGED <<goterror, lineno>>

Escape ==
    /\ UNCHANGED <<w, newline, dollar, lineno, meta, buf, fds, throws>>
    /\ at = "escape"
    /\ Read
    /\ \/ /\ Char \in Controls
          /\ Return("QWORD", <<<<"control", Char>>>>) /\ UNCHANGED <<goterror, n, base>>
       \/ /\ Char = "x"
          /\ n' = 0 /\ base' = 16 /\ Goto("number") /\ UNCHANGED goterror
       \/ /\ Char \in DigitsOf(8)
          /\ n' = DigitValue[Char] /\ base' = 8 /\ Goto("number") /\ UNCHANGED goterror
       \/ /\ Char \in (Letters \ (Controls \cup {"x"})) \cup {"8"}
          /\ Scanerror(Char) /\ UNCHANGED <<n, base>>
       \/ /\ Char \notin Letters \cup Digits
          /\ Return("QWORD", <<Char>>) /\ UNCHANGED <<goterror, n, base>>

\* The digits of an escape, whose number is stored in a char: where that is zero
\* and the number is not, the string is empty.
Number ==
    /\ UNCHANGED <<w, newline, dollar, lineno, meta, buf, fds, base, throws>>
    /\ at = "number"
    /\ IF Char \in DigitsOf(base)
       THEN Read /\ n' = n * base + DigitValue[Char] /\ Goto("number") /\ UNCHANGED goterror
       ELSE IF n = 0 THEN Read /\ Scanerror(Char) /\ UNCHANGED n
       ELSE /\ Peek
            /\ Return("QWORD", IF n % CharSize = 0 THEN <<>> ELSE <<<<"char", n % CharSize>>>>)
            /\ UNCHANGED <<goterror, n>>

-----------------------------------------------------------------------------
(* Operators.                                                              *)

\* One more character of an operator, or the first after it, which is looked at
\* by getfds where the operator is a redirection.
Operator ==
    /\ UNCHANGED <<statics, meta, fds, n, base, throws>>
    /\ at = "operator"
    /\ \/ /\ Append(buf, Char) \in Open
          /\ buf' = Append(buf, Char) /\ Read /\ Goto("operator")
       \/ /\ Append(buf, Char) \in Final
          /\ Read /\ Return("op", Append(buf, Char)) /\ UNCHANGED buf
       \/ /\ Append(buf, Char) \notin Open \cup Final
          /\ buf \in Redirections /\ Char = "["
          /\ Read /\ Goto("from") /\ UNCHANGED buf
       \/ /\ Append(buf, Char) \notin Open \cup Final
          /\ buf \notin Redirections \/ Char # "["
          /\ Peek /\ Return("op", buf) /\ UNCHANGED buf

CLOSED == <<"closed">>

\* getfds: the first number, which must be there.
From ==
    /\ UNCHANGED <<w, newline, dollar, lineno, meta, buf, n, base, throws>>
    /\ at = "from"
    /\ Read
    /\ \/ /\ Char \in Digits
          /\ fds' = [fds EXCEPT ![1] = Append(@, Char)] /\ Goto("from") /\ UNCHANGED goterror
       \/ /\ fds[1] # <<>> /\ Char = "="
          /\ Goto("to") /\ UNCHANGED <<goterror, fds>>
       \/ /\ fds[1] # <<>> /\ Char = "]"
          /\ Return("op", <<buf, fds[1]>>) /\ UNCHANGED <<goterror, fds>>
       \/ /\ Char \notin Digits /\ (fds[1] = <<>> \/ Char \notin {"=", "]"})
          /\ Scanerror(Char) /\ UNCHANGED fds

\* The second one, which is closed if it is not there; a pipe cannot be closed.
To ==
    /\ UNCHANGED <<w, newline, dollar, lineno, meta, buf, n, base, throws>>
    /\ at = "to"
    /\ Read
    /\ \/ /\ Char \in Digits
          /\ fds' = [fds EXCEPT ![2] = Append(@, Char)] /\ Goto("to") /\ UNCHANGED goterror
       \/ /\ Char = "]" /\ (fds[2] # <<>> \/ buf # <<"|">>)
          /\ Return("op", <<buf, fds[1], IF fds[2] = <<>> THEN CLOSED ELSE fds[2]>>)
          /\ UNCHANGED <<goterror, fds>>
       \/ /\ Char = "]" /\ fds[2] = <<>> /\ buf = <<"|">>
          /\ Scanerror("[") /\ UNCHANGED fds
       \/ /\ Char \notin Digits \cup {"]"}
          /\ Scanerror(Char) /\ UNCHANGED fds

Next ==
    \/ EndOfLine \/ Thrown \/ Begin \/ Skip
    \/ Blank \/ FreeCaret \/ Single \/ Several \/ Comment
    \/ Word \/ Quote \/ AfterQuote \/ Backslash \/ Escape \/ Number
    \/ Operator \/ From \/ To

Spec == Init /\ [][Next]_vars

-----------------------------------------------------------------------------
(* The tokens of a text, by what is in front of it.                        *)

\* The length of the longest beginning of t that is in S.
Run(t, S) == Max({k \in 0 .. Len(t) : \A i \in 1 .. k : t[i] \in S})
From1(t, k) == SubSeq(t, k, Len(t))
Newlines(t) == Cardinality({i \in DOMAIN t : t[i] = "\n"})
Value(digits, k) == FoldLeft(LAMBDA v, d : v * k + DigitValue[d], 0, digits)

Lexeme(kind, text, length, after, lines) ==
    [kind |-> kind, text |-> text, length |-> length, after |-> after, lines |-> lines]

Wrong(after, lines) == Lexeme("ERROR", <<>>, 0, after, lines)

WordAt(t, special) ==
    LET k == Max({i \in 1 .. Len(t) : \A j \in 2 .. i :
                    t[j] \notin special \/ (t[j] \in Always /\ t[1] \notin Digits)})
        s == SubSeq(t, 1, k)
    IN  IF s \in Keywords THEN Lexeme("keyword", s, k, "KW", 0) ELSE Lexeme("WORD", s, k, "RW", 0)

\* A string ends at the first quote that is the last of an even number of them.
QuotedAt(t) ==
    LET Quotes(k) == Cardinality({i \in 1 .. k : t[i] = "'"})
        ends == {k \in 2 .. Len(t) : /\ t[k] = "'" /\ Quotes(k) % 2 = 0
                                     /\ k < Len(t) => t[k + 1] # "'"}
        k    == Min(ends)
        kept == {i \in 2 .. k - 1 : t[i] # "'" \/ Quotes(i) % 2 = 1}
    IN  IF ends = {} THEN Wrong("NW", Newlines(t))
        ELSE Lexeme("QWORD", [i \in 1 .. Cardinality(kept) |-> t[CHOOSE j \in kept :
                                 Cardinality({m \in kept : m <= j}) = i]],
                    k, "RW", Newlines(SubSeq(t, 1, k)))

EscapeAt(t) ==
    LET hex    == t[2] = "x"
        digits == LET more == From1(t, IF hex THEN 3 ELSE 2)
                  IN  SubSeq(more, 1, Run(more, DigitsOf(IF hex THEN 16 ELSE 8)))
        v      == Value(digits, IF hex THEN 16 ELSE 8)
    IN  CASE t[2] \in Controls -> Lexeme("QWORD", <<<<"control", t[2]>>>>, 2, "RW", 0)
          [] hex \/ t[2] \in DigitsOf(8) ->
               IF v = 0 THEN Wrong("RW", 0)
               ELSE Lexeme("QWORD", IF v % CharSize = 0 THEN <<>> ELSE <<<<"char", v % CharSize>>>>,
                           Len(digits) + (IF hex THEN 2 ELSE 1), "RW", 0)
          [] OTHER -> IF t[2] \in Letters \cup Digits THEN Wrong("RW", 0)
                      ELSE Lexeme("QWORD", <<t[2]>>, 2, "RW", 0)

OperatorAt(t) ==
    LET k    == Max({i \in 1 .. Min({3, Len(t)}) : SubSeq(t, 1, i) \in Open \cup Final})
        op   == SubSeq(t, 1, k)
        more == From1(t, k + 2)                  \* what is after a bracket
        m    == Run(more, Digits)
        last == From1(more, m + 2)               \* what is after an equals sign
        j    == Run(last, Digits)
        Is(s, i, c) == i <= Len(s) /\ s[i] = c
    IN  IF op \notin Redirections \/ ~Is(t, k + 1, "[") THEN Lexeme("op", op, k, "NW", 0)
        ELSE IF m > 0 /\ Is(more, m + 1, "]")
        THEN Lexeme("op", <<op, SubSeq(more, 1, m)>>, k + m + 2, "NW", 0)
        ELSE IF m > 0 /\ Is(more, m + 1, "=") /\ Is(last, j + 1, "]") /\ (j > 0 \/ op # <<"|">>)
        THEN Lexeme("op", <<op, SubSeq(more, 1, m), IF j = 0 THEN CLOSED ELSE SubSeq(last, 1, j)>>,
                    k + m + j + 3, "NW", 0)
        ELSE Wrong("NW", 0)

LexemeAt(t, name, before) ==
    LET special == IF name THEN Dnw ELSE Nw
        c == t[1]
    IN  CASE c \notin special \/ c \in Always -> WordAt(t, special)
          [] c = "'" -> QuotedAt(t)
          [] c = "\\" /\ Len(t) = 1 -> Wrong(before, 0)
          [] c = "\\" /\ Len(t) > 1 -> EscapeAt(t)
          [] <<c>> \in Open -> OperatorAt(t)
          [] c \in {"!", "="} -> Lexeme(c, <<>>, 1, "KW", 0)
          [] c = "(" -> Lexeme(IF before = "RW" THEN "SUB" ELSE c, <<>>, 1, "NW", 0)
          [] c = "\n" -> Lexeme("NL", <<>>, 1, "NW", 1)
          [] OTHER -> Lexeme(c, <<>>, 1, "NW", 0)

Token(kind, text, line) == [kind |-> kind, text |-> text, line |-> line]

\* name: whether a variable's name may come first; before: what t is next to.
RECURSIVE Tokens(_, _, _, _)
Tokens(t, name, before, line) ==
    LET Line == Min({i \in DOMAIN t : t[i] = "\n"} \cup {Len(t) + 1})
        l == LexemeAt(t, name, before)
    IN  CASE t = <<>> -> <<Token("ENDFILE", <<>>, line)>>
          [] t # <<>> /\ t[1] = " " -> Tokens(Tail(t), name, "NW", line)
          [] t # <<>> /\ t[1] = "#" -> Tokens(From1(t, Line), name, before, line)
          [] Len(t) > 1 /\ t[1] = "\\" /\ t[2] = "\n" -> Tokens(From1(t, 3), name, "NW", line + 1)
          [] OTHER ->
               IF /\ before # "NW"
                  /\ t[1] \in {"bq", "!", "$", "'", "="} \/ (t[1] = "\\" /\ Len(t) > 1)
                     \/ t[1] \in Always \/ t[1] \notin (IF name THEN Dnw ELSE Nw)
               THEN <<Token("^", <<>>, line)>> \o Tokens(t, FALSE, "NW", line)
               ELSE IF l.kind = "ERROR"
               THEN <<Token("ERROR", <<>>, line + l.lines), Token("NL", <<>>, line + l.lines)>>
               ELSE <<Token(l.kind, l.text, line + l.lines)>>
                    \o Tokens(From1(t, l.length + 1),
                              l.kind = "op" /\ l.text[1] = "$", l.after, line + l.lines)

\* The tokens that a parse gets are those of its text, with free carets where
\* words touch, and with their lines; of an earlier parse at most the dollar sign
\* is left, where an exception came after it; and no more is pushed back than
\* there is room for (yylex, getfds, scanerror, inityy).
LexRight ==
    /\ pushed <= MAXUNGET
    /\ at = "parser" =>
         IsPrefix(tokens, Tokens(begun.todo, begun.dollar, "NW", begun.lineno))
    /\ at = "parser" /\ tokens = <<>> =>
         w = "NW" /\ ~newline /\ ~goterror /\ (dollar => throws < MaxThrows)
=============================================================================
