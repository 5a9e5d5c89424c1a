-------------------------------- MODULE Split --------------------------------
(***************************************************************************)
(* Splitting text at separators (split.c), for %split and %fsplit, which   *)
(* split each of their arguments, and for backquote substitution, which    *)
(* splits what it reads in whatever pieces the pipe delivers it.           *)
(*                                                                         *)
(* The splitter keeps everything in statics: the field it is in, the list  *)
(* so far, and a table of separators that is built anew only when the      *)
(* separator string is another one than before.                            *)
(***************************************************************************)
EXTENDS Naturals, FiniteSets, Sequences, SequencesExt

CONSTANTS Chars,      \* the characters of texts and separators
          Seps,       \* the separator strings
          IfsSize,    \* sizeof ifs: a separator string as long is not remembered
          MaxLen,     \* bound: characters of a piece
          MaxPieces   \* bound: pieces given to one split

SplitAssumption ==
    /\ Seps \subseteq Seq(Chars)
    /\ IfsSize \in Nat \ {0} /\ MaxLen \in Nat /\ MaxPieces \in Nat

VARIABLES ifs, ifsvalid, isifs,   \* the separators remembered, and their table
          coalesce, splitchars,
          buffer,                 \* <<field>> while there is one, <<>> for NULL
          value,                  \* the fields so far, the last one first
          at,                     \* where the caller is
          endword,                \* whether a field ends with its piece
          rest,                   \* what stepsplit has not seen of the piece
          sep, given,             \* ghosts: what was asked for
          result

table  == <<ifs, ifsvalid, isifs>>
asked  == <<coalesce, splitchars, endword, sep>>
vars   == <<table, asked, buffer, value, at, rest, given, result>>

Piece == BoundedSeq(Chars, MaxLen)

TypeOK ==
    /\ ifs \in Seps \cup {<<>>} /\ ifsvalid \in BOOLEAN
    /\ isifs \subseteq Chars
    /\ coalesce \in BOOLEAN /\ splitchars \in BOOLEAN /\ endword \in BOOLEAN
    /\ buffer \in Seq(Seq(Chars)) /\ Len(buffer) <= 1
    /\ value \in Seq(Seq(Chars))
    /\ at \in {"idle", "between", "within", "done"}
    /\ rest \in Piece
    /\ sep \in Seps
    /\ given \in Seq(Piece)
    /\ result \in Seq(Seq(Chars))
    /\ (coalesce \/ splitchars) /\ endword /\ at # "within" => buffer = <<>>

Init ==
    /\ ifs = <<>> /\ ifsvalid = FALSE /\ isifs = {}
    /\ coalesce = TRUE /\ splitchars = FALSE /\ endword = TRUE
    /\ buffer = <<>> /\ value = <<>> /\ at = "idle" /\ rest = <<>>
    /\ sep \in Seps /\ given = <<>> /\ result = <<>>

Remember_Valid(s) ==
    IF ifsvalid /\ s = ifs
    THEN UNCHANGED table
    ELSE /\ IF Len(s) + 1 < IfsSize
            THEN ifs' = s /\ ifsvalid' = TRUE
            ELSE UNCHANGED <<ifs, ifsvalid>>
         /\ isifs' = ToSet(s)

(* The table is left as it is for the string it was built for.  A string   *)
(* that does not fit ifs is used and not remembered.                       *)
Remember(s) ==
    IF ifsvalid /\ s = ifs
    THEN UNCHANGED table
    ELSE /\ IF Len(s) + 1 < IfsSize
            THEN ifs' = s /\ ifsvalid' = TRUE
            ELSE ifsvalid' = FALSE /\ UNCHANGED ifs
         /\ isifs' = ToSet(s)

(* startsplit, for backquote (coalescing, fields may cross pieces), %split *)
(* (coalescing) and %fsplit.                                               *)
Startsplit(s, c, e) ==
    /\ at \in {"idle", "done"}
    /\ Remember(s)
    /\ coalesce' = c /\ splitchars' = (~c /\ s = <<>>)
    /\ endword' = e
    /\ buffer' = <<>> /\ value' = <<>>
    /\ at' = "between"
    /\ sep' = s /\ given' = <<>> /\ result' = <<>>
    /\ UNCHANGED rest

(* A piece comes: stepsplit opens a field at once unless it coalesces. *)
Give(piece) ==
    /\ at = "between" /\ Len(given) < MaxPieces
    /\ rest' = piece /\ given' = Append(given, piece)
    /\ at' = "within"
    /\ buffer' = IF ~splitchars /\ ~coalesce /\ buffer = <<>> THEN << <<>> >> ELSE buffer
    /\ UNCHANGED <<table, asked, value, result>>

Push(field) == value' = <<field>> \o value

Stepsplit_Restart(c) ==
    \/ /\ splitchars
       /\ Push(<<c>>) /\ UNCHANGED buffer
    \/ /\ ~splitchars /\ c \in isifs /\ buffer # <<>>
       /\ Push(buffer[1])
       /\ buffer' = << <<>> >>
    \/ /\ ~splitchars /\ c \notin isifs
       /\ buffer' = IF buffer = <<>> THEN << <<c>> >> ELSE << Append(buffer[1], c) >>
       /\ UNCHANGED value
    \/ /\ ~splitchars /\ c \in isifs /\ buffer = <<>>
       /\ UNCHANGED <<buffer, value>>

(* stepsplit takes a character; at the end of a field it comes back to its *)
(* caller, which calls it again with what follows.                         *)
Stepsplit(c) ==
    \/ /\ splitchars
       /\ Push(<<c>>) /\ UNCHANGED buffer
    \/ /\ ~splitchars /\ c \in isifs /\ buffer # <<>>
       /\ Push(buffer[1])
       /\ buffer' = IF coalesce THEN <<>> ELSE << <<>> >>
    \/ /\ ~splitchars /\ c \in isifs /\ buffer = <<>>
       /\ UNCHANGED <<buffer, value>>
    \/ /\ ~splitchars /\ c \notin isifs
       /\ buffer' = IF buffer = <<>> THEN << <<c>> >> ELSE << Append(buffer[1], c) >>
       /\ UNCHANGED value

Step ==
    /\ at = "within" /\ rest # <<>>
    /\ Stepsplit(Head(rest))
    /\ rest' = Tail(rest)
    /\ UNCHANGED <<table, asked, at, given, result>>

(* The field that is open, if one is, goes into the list. *)
Close ==
    IF buffer # <<>>
    THEN Push(buffer[1]) /\ buffer' = <<>>
    ELSE UNCHANGED <<buffer, value>>

(* The end of a piece. *)
EndPiece ==
    /\ at = "within" /\ rest = <<>>
    /\ IF endword THEN Close ELSE UNCHANGED <<buffer, value>>
    /\ at' = "between"
    /\ UNCHANGED <<table, asked, rest, given, result>>

Endsplit ==
    /\ at = "between"
    /\ result' = Reverse(IF buffer # <<>> THEN buffer \o value ELSE value)
    /\ buffer' = <<>> /\ value' = <<>>
    /\ at' = "done"
    /\ UNCHANGED <<table, asked, rest, given>>

Next ==
    \/ \E s \in Seps :
           \/ Startsplit(s, TRUE, FALSE) \/ Startsplit(s, TRUE, TRUE)
           \/ Startsplit(s, FALSE, TRUE)
    \/ \E piece \in Piece : Give(piece)
    \/ Step \/ EndPiece \/ Endsplit

Spec == Init /\ [][Next]_vars

-----------------------------------------------------------------------------
(* The reference: a text of n separators has n + 1 fields, between them.   *)
Cuts(text) == {i \in 1..Len(text) : text[i] \in ToSet(sep)} \cup {0, Len(text) + 1}

Cut(text, i) ==
    CHOOSE n \in Cuts(text) : Cardinality({m \in Cuts(text) : m < n}) = i

AllFields(text) ==
    [i \in 1..Cardinality(Cuts(text)) - 1 |->
        SubSeq(text, Cut(text, i - 1) + 1, Cut(text, i) - 1)]

NotEmpty(field) == field # <<>>

Fields(text) ==
    CASE coalesce -> SelectSeq(AllFields(text), NotEmpty)
      [] splitchars -> [i \in 1..Len(text) |-> <<text[i]>>]
      [] ~coalesce /\ ~splitchars -> AllFields(text)

(* The result is the fields of each argument in turn, and for backquote    *)
(* those of the whole text, wherever the pieces were cut: es.1, %split and *)
(* %fsplit.  A separator of no characters splits into characters for       *)
(* %fsplit, and nowhere for %split.                                        *)
SplitRight ==
    at = "done" =>
        result = IF endword
                 THEN FlattenSeq([i \in 1..Len(given) |-> Fields(given[i])])
                 ELSE Fields(FlattenSeq(given))

(* The table is that of the separator string of the split under way,       *)
(* whatever strings were used before it (ifs, ifsvalid).                   *)
SepRight == at # "idle" => isifs = ToSet(sep)
=============================================================================
