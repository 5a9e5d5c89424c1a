----------------------------- MODULE CharStream -----------------------------
(***************************************************************************)
(* What the lexer of es is promised by get() and unget() of input.c: a     *)
(* sequence of characters that is read from the front and pushed back to   *)
(* the front.                                                              *)
(***************************************************************************)
EXTENDS Sequences

CONSTANTS Chars,    \* the characters a source may hold, the null one left out
          EOF       \* what is read at the end, no character

VARIABLES todo,     \* the characters still to be read, in order
          last      \* the character the latest read returned

vars == <<todo, last>>

Read ==
    IF todo = <<>>
    THEN last' = EOF /\ UNCHANGED todo
    ELSE last' = Head(todo) /\ todo' = Tail(todo)

PushBack ==
    \E c \in Chars \cup {EOF} : todo' = <<c>> \o todo /\ UNCHANGED last

Init == todo \in Seq(Chars) /\ last = EOF

Next == Read \/ PushBack

Spec == Init /\ [][Next]_vars
=============================================================================
