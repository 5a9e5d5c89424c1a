------------------------------ MODULE Envcode ------------------------------
(***************************************************************************)
(* The form in which a variable is in the environment: conv.c writes it    *)
(* (%F the name, %W the list) and a later shell reads it (%N, importvar).  *)
(* The loops that read are in steps of a character or an escape.           *)
(***************************************************************************)
EXTENDS Integers, Sequences, FiniteSets, SequencesExt

CONSTANTS
  Exports,    \* what is exported: sets of names, which are sequences of NameChars,
              \* each with a set of lists, which are sequences of words
  Foreign     \* names that other programs have put into the environment

ENV_SEPARATOR == "^O"
ENV_ESCAPE == "^N"
NUL == "NUL"

\* %02x of the characters that may have to be encoded.
Digits == {"2", "3", "5"}
Hex == [c \in Digits \cup {"_", "-"} |->
  IF c = "_" THEN <<"5", "f">> ELSE IF c = "-" THEN <<"2", "d">> ELSE <<"3", c>>]
NameChars == {"x", "d", "f", "-", "_"} \cup Digits
Other == "other"  \* what no code here stands for
WordChars == {"a", ENV_SEPARATOR, ENV_ESCAPE}

EnvcodeAssumption ==
  /\ Foreign \subseteq Seq(NameChars) \ {<<>>}
  /\ \A e \in Exports : /\ e.names \subseteq Seq(NameChars) \ {<<>>}
                        /\ e.lists \subseteq Seq(Seq(WordChars)) \ {<<>>}

VARIABLES
  name, list,   \* what is exported; for a foreign name, list is <<>>
  envstr,       \* the two sides of the string: [name, value]
  s, decoded,   \* %N: its position in envstr.name, and what it has put out
  read,         \* the last position that it has read
  defn,         \* importvar's list,
  lp, word,     \* the place in it, and the word that is searched for escapes
  offset,       \* up to where it has been
  step          \* "export", "name", "value", "end", "lost"

vars == <<name, list, envstr, s, decoded, read, defn, lp, word, offset, step>>

-----------------------------------------------------------------------------
(* Writing. *)

Kept_Any(w, i) ==                                \* mutant: what follows a _ is not asked
  w[i] \in {"x", "d", "f", "_"} \/ (w[i] \in Digits /\ i > 1)

Kept(w, i) ==
  \/ w[i] \in {"x", "d", "f"}
  \/ w[i] \in Digits /\ i > 1
  \/ w[i] = "_" /\ (i < Len(w) => w[i + 1] # "_")

Fconv(w) ==
  FlattenSeq([i \in DOMAIN w |-> IF Kept(w, i) THEN <<w[i]>> ELSE <<"_", "_">> \o Hex[w[i]]])

Escaped_Separator == {ENV_SEPARATOR}             \* mutant: the escape is not escaped

Escaped == {ENV_SEPARATOR, ENV_ESCAPE}

Wconv(l) ==
  LET conv(w) == FlattenSeq([i \in DOMAIN w |-> IF w[i] \in Escaped THEN <<ENV_ESCAPE, w[i]>> ELSE <<w[i]>>])
  IN  FlattenSeq([i \in DOMAIN l |-> conv(l[i]) \o (IF i < Len(l) THEN <<ENV_SEPARATOR>> ELSE <<>>)])

\* fsplit, with the separator alone.
Fsplit(v) ==
  FoldLeft(LAMBDA l, c : IF c = ENV_SEPARATOR THEN Append(l, <<>>) ELSE [l EXCEPT ![Len(l)] = Append(@, c)],
           <<<<>>>>, v)

-----------------------------------------------------------------------------
Init ==
  /\ \/ \E e \in Exports : name \in e.names /\ list \in e.lists
     \/ name \in Foreign /\ list = <<>>
  /\ envstr = [name |-> <<>>, value |-> <<>>]
  /\ s = 1 /\ decoded = <<>> /\ read = 1 /\ defn = <<>> /\ lp = 1 /\ word = <<>> /\ offset = 0
  /\ step = "export"

\* mkenv0, or another program; then initenv begins.
Export ==
  /\ step = "export"
  /\ envstr' = IF list = <<>> THEN [name |-> name, value |-> <<>>]
               ELSE [name |-> Fconv(name), value |-> Wconv(list)]
  /\ step' = "name"
  /\ UNCHANGED <<name, list, s, decoded, read, defn, lp, word, offset>>

At(i) == IF i <= Len(envstr.name) THEN envstr.name[i] ELSE NUL

\* strchr finds the NUL of hexchar, too.
IsHex(c) == c \in Digits \cup {"d", "f", NUL}

CodeLength_Short == 3                            \* mutant: the last digit is read again

CodeLength == 4

Decoded ==
  LET x == {c \in DOMAIN Hex : Hex[c] = <<At(s + 2), At(s + 3)>>}
  IN  IF x = {} THEN Other ELSE CHOOSE c \in x : TRUE

Code(i) == At(i) = "_" /\ At(i + 1) = "_"

\* The NUL is taken for a digit: the name goes on with what the buffer held before.
PastNul == Code(s) /\ IsHex(At(s + 2)) /\ s + 3 > Len(envstr.name)

Nconv ==
  /\ step = "name" /\ s <= Len(envstr.name)
  /\ PastNul => s + 2 > Len(envstr.name)
  /\ read' = IF Code(s) THEN s + 3 ELSE s + 1
  /\ IF ~PastNul /\ Code(s) /\ IsHex(At(s + 2)) /\ IsHex(At(s + 3))
     THEN s' = s + CodeLength /\ decoded' = Append(decoded, Decoded)
     ELSE s' = s + 1 /\ decoded' = Append(decoded, At(s))
  /\ UNCHANGED <<name, list, envstr, defn, lp, word, offset, step>>

NconvPast ==
  /\ step = "name" /\ s <= Len(envstr.name) /\ PastNul
  /\ read' = s + 4
  /\ step' = "lost"
  /\ UNCHANGED <<name, list, envstr, s, decoded, defn, lp, word, offset>>

Importvar ==
  /\ step = "name" /\ s > Len(envstr.name)
  /\ defn' = Fsplit(envstr.value)
  /\ lp' = 1 /\ word' = defn'[1] /\ offset' = 0
  /\ step' = "value"
  /\ UNCHANGED <<name, list, envstr, s, decoded, read>>

-----------------------------------------------------------------------------
Escapes == {i \in offset + 1 .. Len(word) : word[i] = ENV_ESCAPE}

Escape == CHOOSE i \in Escapes : \A j \in Escapes : i <= j

PairEnd(i) == i + 1

\* The word's end after an escape: the separator was one of its characters.
ImportSeparator ==
  /\ step = "value" /\ Escapes # {} /\ Escape = Len(word)
  /\ offset' = Escape
  /\ defn' = IF lp = Len(defn) THEN defn
             ELSE RemoveAt([defn EXCEPT ![lp] = SubSeq(word, 1, Escape - 1) \o <<ENV_SEPARATOR>> \o defn[lp + 1]],
                           lp + 1)
  /\ UNCHANGED <<name, list, envstr, s, decoded, read, lp, word, step>>

ImportEscape ==
  /\ step = "value" /\ Escapes # {} /\ Escape < Len(word) /\ word[Escape + 1] = ENV_ESCAPE
  /\ defn' = [defn EXCEPT ![lp] = SubSeq(word, 1, Escape) \o SubSeq(word, Escape + 2, Len(word))]
  /\ offset' = PairEnd(Escape)
  /\ UNCHANGED <<name, list, envstr, s, decoded, read, lp, word, step>>

\* The loop over the list; word is only read here.
ImportNext ==
  /\ step = "value" /\ Escapes = {}
  /\ IF lp < Len(defn)
     THEN lp' = lp + 1 /\ word' = defn[lp + 1] /\ offset' = 0 /\ step' = step
     ELSE step' = "end" /\ UNCHANGED <<lp, word, offset>>
  /\ UNCHANGED <<name, list, envstr, s, decoded, read, defn>>

Over == step \in {"end", "lost"} /\ UNCHANGED vars

Next == Export \/ Nconv \/ NconvPast \/ Importvar \/ ImportSeparator \/ ImportEscape \/ ImportNext \/ Over

Spec == Init /\ [][Next]_vars

-----------------------------------------------------------------------------
Own == list # <<>>

\* The types; and no position is past the end of the word that it is in.
TypeOK ==
  /\ defn \in Seq(Seq(WordChars)) /\ word \in Seq(WordChars)
  /\ offset \in 0 .. Len(word) /\ (step = "value" => lp \in DOMAIN defn)
  /\ decoded \in Seq(NameChars \cup {Other})
  /\ step \in {"export", "name", "value", "end", "lost"}

\* %N undoes %F: the next shell has each variable under the name it had.
NameBack == step \in {"value", "end"} /\ Own => decoded = name

\* %N reads the names that es has written up to their NUL.
InBounds == Own /\ step # "export" => read <= Len(envstr.name) + 1

\* The next shell has the list, word for word, if no word has two of the
\* characters that are escaped.
ListBackOnce ==
  /\ step = "end" /\ Own
  /\ \A i \in DOMAIN list : Cardinality({j \in DOMAIN list[i] : list[i][j] # "a"}) <= 1
  => defn = list

=============================================================================
