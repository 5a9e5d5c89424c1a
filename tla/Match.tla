------------------------------- MODULE Match -------------------------------
(***************************************************************************)
(* match.c: the ~ and ~~ commands (listmatch and extractmatches) over the  *)
(* words that glom2 returns.  match and extractsinglematch are modelled    *)
(* in steps of one round of their loops; positions count from 1, and the   *)
(* position past a word is that of its NUL.                                *)
(***************************************************************************)
EXTENDS Integers, Sequences, FiniteSets, SequencesExt

CONSTANTS
  Calls        \* what ~ and ~~ are called with: sets of lists of subjects, which
               \* are sequences of characters, each with a set of lists of
               \* patterns, which are sequences of [c, q], q for quoted

Codes == [c \in {"*", "-", "?", "[", "]", "^", "a", "b", "c", "~"} |->
  CASE c = "*" -> 42 [] c = "-" -> 45 [] c = "?" -> 63 [] c = "[" -> 91 [] c = "]" -> 93
    [] c = "^" -> 94 [] c = "a" -> 97 [] c = "b" -> 98 [] c = "c" -> 99 [] c = "~" -> 126]

Chars == DOMAIN Codes

MatchAssumption ==
  \A calls \in Calls :
    /\ \A l \in calls.subjects : l \in Seq(Seq(Chars))
    /\ \A l \in calls.patterns : l \in Seq(Seq([c : Chars, q : BOOLEAN]))

VARIABLES
  command, subjects, patterns,
  sn, pn,      \* the words that are compared
  s, p,        \* the positions in them
  next,        \* match's next: where to go on after the last star
  begin,       \* extractsinglematch: where the search for the end of a star began
  parts,       \* what it has extracted
  result,      \* the list that is returned; for ~, <<>> until a pattern matches
  step         \* "word", "match", "extract", "end", "failed" (an assertion)

vars == <<command, subjects, patterns, sn, pn, s, p, next, begin, parts, result, step>>

None == [s |-> 0, p |-> 0]

Yes == <<<<>>>>     \* ltrue, for ~

-----------------------------------------------------------------------------
Raw(w, i, c) == i <= Len(w) /\ w[i].c = c /\ ~w[i].q

Wild(x) == x.c \in {"*", "?", "["} /\ ~x.q

Haswild(w) == \E i \in DOMAIN w : Wild(w[i])

\* rangematch's test for [..-..], which ignores [..-].
IsRange_Last(w, i) == Raw(w, i + 1, "-") /\ i + 2 <= Len(w)     \* mutant: a last dash counts

IsRange(w, i) == Raw(w, i + 1, "-") /\ i + 2 <= Len(w) /\ ~Raw(w, i + 2, "]")

\* rangematch, from the character after the bracket: the position of the right
\* bracket (0 for none), and whether c has been met on the way.
RangeLoop(w, from, c) ==
  LET f[i \in from .. Len(w) + 1] ==
        IF i > Len(w) THEN [end |-> 0, hit |-> FALSE]
        ELSE IF Raw(w, i, "]") THEN [end |-> i, hit |-> FALSE]
        ELSE IF IsRange(w, i)
        THEN [f[i + 3] EXCEPT !.hit = @ \/ Codes[c] \in Codes[w[i].c] .. Codes[w[i + 2].c]]
        ELSE [f[i + 1] EXCEPT !.hit = @ \/ w[i].c = c]
  IN  f[from]

Fail == 0

\* The position after the right bracket, or Fail; with no right bracket, the
\* position itself for a left one.
Rangematch(w, i, c) ==
  LET neg   == Raw(w, i, "~")
      first == IF neg THEN i + 1 ELSE i
      right == Raw(w, first, "]")
      r     == RangeLoop(w, IF right THEN first + 1 ELSE first, c)
      hit   == r.hit \/ (right /\ c = "]")
  IN  IF r.end = 0 THEN (IF c = "[" THEN i ELSE Fail)
      ELSE IF hit # neg THEN r.end + 1 ELSE Fail

-----------------------------------------------------------------------------
Init ==
  /\ command \in {"~", "~~"}
  /\ \E calls \in Calls : subjects \in calls.subjects /\ patterns \in calls.patterns
  /\ sn = 1 /\ pn = 1 /\ s = 1 /\ p = 1
  /\ next = None /\ begin = 0 /\ parts = <<>> /\ result = <<>>
  /\ step = "word"

Subject == subjects[sn]
Pattern == patterns[pn]

\* listmatch, for a null subject.
NullMatch ==
  \/ patterns = <<>>
  \/ \E i \in DOMAIN patterns :
       patterns[i] # <<>> /\ \A j \in DOMAIN patterns[i] : Raw(patterns[i], j, "*")

ListmatchNull ==
  /\ step = "word" /\ command = "~" /\ subjects = <<>>
  /\ result' = IF NullMatch THEN Yes ELSE <<>>
  /\ step' = "end"
  /\ UNCHANGED <<command, subjects, patterns, sn, pn, s, p, next, begin, parts>>

\* The end of both loops over the lists.
NoMore ==
  /\ step = "word"
  /\ IF command = "~" THEN subjects # <<>> /\ pn > Len(patterns) ELSE sn > Len(subjects)
  /\ step' = "end"
  /\ UNCHANGED <<command, subjects, patterns, sn, pn, s, p, next, begin, parts, result>>

\* listmatch's inner loop is that over the subjects, extractmatches' that over
\* the patterns.
Advance ==
  IF command = "~"
  THEN IF sn < Len(subjects) THEN sn' = sn + 1 /\ pn' = pn ELSE sn' = 1 /\ pn' = pn + 1
  ELSE IF pn < Len(patterns) THEN pn' = pn + 1 /\ sn' = sn ELSE pn' = 1 /\ sn' = sn + 1

\* The words are compared; for ~~, only if the pattern has wildcards.
Compare ==
  /\ step = "word"
  /\ sn <= Len(subjects) /\ pn <= Len(patterns)
  /\ IF command = "~~" /\ ~Haswild(Pattern)
     THEN /\ Advance
          /\ UNCHANGED <<s, p, next, step>>
     ELSE /\ s' = 1 /\ p' = 1 /\ next' = None
          /\ step' = "match"
          /\ UNCHANGED <<sn, pn>>
  /\ UNCHANGED <<command, subjects, patterns, begin, parts, result>>

\* extractmatches, with no patterns.
NoPattern ==
  /\ step = "word" /\ command = "~~" /\ patterns = <<>> /\ sn <= Len(subjects)
  /\ sn' = sn + 1
  /\ UNCHANGED <<command, subjects, patterns, pn, s, p, next, begin, parts, result, step>>

-----------------------------------------------------------------------------
(* match. *)

Matched == step = "match" /\ s > Len(Subject) /\ p > Len(Pattern)

Here == s <= Len(Subject)

\* The position in the pattern after what matches the character at i; Fail if
\* there is none, or it does not.
OneAt(word, w, i, j) ==
  IF j > Len(w) \/ i > Len(word) THEN Fail
  ELSE IF Raw(w, j, "?") THEN j + 1
  ELSE IF Raw(w, j, "[") THEN Rangematch(w, j + 1, word[i])
  ELSE IF w[j].c = word[i] THEN j + 1
  ELSE Fail

One == OneAt(Subject, Pattern, s, p)

Backtrack_First == IF next = None /\ Here THEN [s |-> s + 1, p |-> p] ELSE next   \* mutant: the first star's place is kept

Backtrack == IF Here THEN [s |-> s + 1, p |-> p] ELSE None

Star ==
  /\ step = "match" /\ Raw(Pattern, p, "*")
  /\ next' = Backtrack
  /\ p' = p + 1
  /\ UNCHANGED <<command, subjects, patterns, sn, pn, s, begin, parts, result, step>>

MatchOne ==
  /\ step = "match" /\ ~Raw(Pattern, p, "*") /\ One # Fail
  /\ s' = s + 1 /\ p' = One
  /\ UNCHANGED <<command, subjects, patterns, sn, pn, next, begin, parts, result, step>>

\* No match here: on to the last star's next place, or to the next words.
\* match returns as soon as the subject ends at a bracket.
MatchFails ==
  /\ step = "match" /\ ~Matched /\ ~Raw(Pattern, p, "*") /\ One = Fail
  /\ IF next # None /\ (Raw(Pattern, p, "[") => Here)
     THEN /\ s' = next.s /\ p' = next.p
          /\ UNCHANGED <<sn, pn, step>>
     ELSE /\ Advance
          /\ step' = "word"
          /\ UNCHANGED <<s, p>>
  /\ UNCHANGED <<command, subjects, patterns, next, begin, parts, result>>

MatchSucceeds ==
  /\ Matched
  /\ IF command = "~"
     THEN /\ result' = Yes /\ step' = "end"
          /\ UNCHANGED <<s, p, begin, parts>>
     ELSE /\ s' = 1 /\ p' = 1 /\ begin' = 0 /\ parts' = <<>>
          /\ step' = "extract"
          /\ UNCHANGED result
  /\ UNCHANGED <<command, subjects, patterns, sn, pn, next>>

-----------------------------------------------------------------------------
(* What the patterns mean, without match's loop. *)

\* The right bracket of the one at i: the first after its first character.
RightBracket(w, i) ==
  LET first == IF Raw(w, i + 1, "~") THEN i + 2 ELSE i + 1
      ends  == {k \in first + 1 .. Len(w) : Raw(w, k, "]")}
  IN  IF ends = {} THEN 0 ELSE CHOOSE k \in ends : \A l \in ends : k <= l

\* A range, as the comment from ed(1) has it: a dash is ordinary if it is first or last.
InRange(w, i, c) ==
  LET neg   == Raw(w, i + 1, "~")
      first == IF neg THEN i + 2 ELSE i + 1
      last  == RightBracket(w, i) - 1
      dash[d \in first - 2 .. last + 1] ==
        /\ d > first /\ d < last /\ Raw(w, d, "-")
        /\ ~dash[d - 1] /\ ~dash[d - 2]
      member == \/ \E d \in first + 1 .. last - 1 :
                     dash[d] /\ Codes[w[d - 1].c] <= Codes[c] /\ Codes[c] <= Codes[w[d + 1].c]
                \/ \E d \in first .. last :
                     w[d].c = c /\ ~dash[d - 1] /\ ~dash[d] /\ ~dash[d + 1]
  IN  member # neg

IsBracket(w, i) == Raw(w, i, "[") /\ RightBracket(w, i) # 0

\* Does the word from i match the pattern from j?
Matches(word, w, from, at) ==
  LET m[i \in from .. Len(word) + 1, j \in at .. Len(w) + 1] ==
        IF j > Len(w) THEN i > Len(word)
        ELSE IF Raw(w, j, "*") THEN \E k \in i .. Len(word) + 1 : m[k, j + 1]
        ELSE IF i > Len(word) THEN FALSE
        ELSE IF Raw(w, j, "?") THEN m[i + 1, j + 1]
        ELSE IF IsBracket(w, j) THEN InRange(w, j, word[i]) /\ m[i + 1, RightBracket(w, j) + 1]
        ELSE w[j].c = word[i] /\ m[i + 1, j + 1]
  IN  m[from, at]

-----------------------------------------------------------------------------
(* extractsinglematch, of a pattern that matches and has wildcards. *)

\* All rounds of match's loop from here, with the place after the last star.
RECURSIVE Rounds(_, _, _, _, _)
Rounds(word, w, i, j, star) ==
  IF i > Len(word) /\ j > Len(w) THEN TRUE
  ELSE IF Raw(w, j, "*")
  THEN Rounds(word, w, i, j + 1, IF i <= Len(word) THEN [s |-> i + 1, p |-> j] ELSE None)
  ELSE IF OneAt(word, w, i, j) # Fail THEN Rounds(word, w, i + 1, OneAt(word, w, i, j), star)
  ELSE IF star = None \/ (Raw(w, j, "[") /\ i > Len(word)) THEN FALSE
  ELSE Rounds(word, w, star.s, star.p, star)

Rest_Next(word, from) == SubSeq(word, from + 1, Len(word))   \* mutant: off by one

Rest(word, from) == SubSeq(word, from, Len(word))

ExtractDone ==
  /\ result' = result \o parts'
  /\ sn' = sn + 1 /\ pn' = 1
  /\ step' = "word"

\* The end of the pattern, or of what has wildcards.
ExtractEnds ==
  /\ step = "extract" /\ begin = 0
  /\ p > Len(Pattern)
  /\ parts' = parts
  /\ ExtractDone
  /\ UNCHANGED <<command, subjects, patterns, s, p, next, begin>>

ExtractLiteral ==
  /\ step = "extract" /\ begin = 0
  /\ p <= Len(Pattern) /\ ~Wild(Pattern[p])
  /\ s' = s + 1 /\ p' = p + 1
  /\ UNCHANGED <<command, subjects, patterns, sn, pn, next, begin, parts, result, step>>

\* A left bracket without a right one comes here, too.
ExtractOne ==
  /\ step = "extract" /\ begin = 0
  /\ Raw(Pattern, p, "?") \/ Raw(Pattern, p, "[")
  /\ LET q == IF Raw(Pattern, p, "?") THEN p + 1 ELSE Rangematch(Pattern, p + 1, Subject[s])
     IN  IF q = Fail
         THEN step' = "failed" /\ UNCHANGED <<s, p, parts>>
         ELSE /\ parts' = Append(parts, <<Subject[s]>>)
              /\ s' = s + 1 /\ p' = q
              /\ UNCHANGED step
  /\ UNCHANGED <<command, subjects, patterns, sn, pn, next, begin, result>>

\* A star that is last takes the rest; another begins its search.
ExtractStar ==
  /\ step = "extract" /\ begin = 0 /\ Raw(Pattern, p, "*")
  /\ IF p = Len(Pattern)
     THEN /\ parts' = Append(parts, Rest(Subject, s))
          /\ ExtractDone
          /\ UNCHANGED <<p, begin>>
     ELSE /\ begin' = s /\ p' = p + 1
          /\ UNCHANGED <<sn, pn, parts, result, step>>
  /\ UNCHANGED <<command, subjects, patterns, s, next>>

EndsHere_Quote ==                                \* mutant: the quotes are not those of the tail
  LET w == [i \in DOMAIN Pattern |->
              IF i < p THEN Pattern[i] ELSE [Pattern[i] EXCEPT !.q = Pattern[i - p + 1].q]]
  IN  Rounds(Subject, w, s, p, None)

\* match(s, pattern + i, q) of the search.
EndsHere == Rounds(Subject, Pattern, s, p, None)

ExtractSearch ==
  /\ step = "extract" /\ begin > 0
  /\ IF s > Len(Subject)
     THEN step' = "failed" /\ UNCHANGED <<sn, pn, s, begin, parts, result>>
     ELSE IF ~EndsHere
     THEN s' = s + 1 /\ UNCHANGED <<sn, pn, begin, parts, result, step>>
     ELSE /\ parts' = Append(parts, SubSeq(Subject, begin, s - 1))
          /\ begin' = 0 /\ s' = s
          /\ IF \E i \in p .. Len(Pattern) : Wild(Pattern[i])
             THEN UNCHANGED <<sn, pn, result, step>>
             ELSE ExtractDone
  /\ UNCHANGED <<command, subjects, patterns, p, next>>

-----------------------------------------------------------------------------
Over == step \in {"end", "failed"} /\ UNCHANGED vars

Match == Star \/ MatchOne \/ MatchFails \/ MatchSucceeds

Extractsinglematch ==
  ExtractEnds \/ ExtractLiteral \/ ExtractOne \/ ExtractStar \/ ExtractSearch

Next ==
  ListmatchNull \/ NoMore \/ Compare \/ NoPattern \/ Match \/ Extractsinglematch \/ Over

Spec == Init /\ [][Next]_vars

-----------------------------------------------------------------------------
TypeOK ==
  /\ sn \in 1 .. Len(subjects) + 1 /\ pn \in 1 .. Len(patterns) + 1
  /\ step \in {"word", "match", "extract", "end", "failed"}
  /\ step \in {"match", "extract"} =>
       /\ s \in 1 .. Len(Subject) + 1 /\ p \in 1 .. Len(Pattern) + 1
       /\ next = None \/ next \in [s : 1 .. Len(Subject) + 1, p : DOMAIN Pattern]
       /\ begin \in 0 .. s
  /\ parts \in Seq(Seq(Chars)) /\ result \in Seq(Seq(Chars))

\* A range whose first character is a right bracket before a dash: what
\* rangematch makes of it is not what the comment says, where it is first or last.
BracketDash(w) ==
  \E i \in DOMAIN w :
    /\ IsBracket(w, i)
    /\ LET first == IF Raw(w, i + 1, "~") THEN i + 2 ELSE i + 1
       IN  Raw(w, first, "]") /\ Raw(w, first + 1, "-")

\* match's loop keeps one place to come back to, the one after the last star.
\* It is enough: the words match if they do from here or from there.
Backtracking ==
  step = "match" /\ ~BracketDash(Pattern) =>
    (Matches(Subject, Pattern, 1, 1) <=>
       \/ Matches(Subject, Pattern, s, p)
       \/ next # None /\ Matches(Subject, Pattern, next.s, next.p))

\* ~ says whether a word matches a pattern; null matches null and stars.
ListMatches ==
  IF subjects = <<>>
  THEN patterns = <<>> \/ \E i \in DOMAIN patterns :
         patterns[i] # <<>> /\ Matches(<<>>, patterns[i], 1, 1)
  ELSE \E i \in DOMAIN subjects, j \in DOMAIN patterns :
         Matches(subjects[i], patterns[j], 1, 1)

MatchRight ==
  command = "~" /\ step = "end" /\ (\A j \in DOMAIN patterns : ~BracketDash(patterns[j])) =>
    (result # <<>> <=> ListMatches)

\* The parts, put in the place of the wildcards of the pattern.
Fill(w, ps) ==
  LET f[j \in 1 .. Len(w) + 1, n \in 1 .. Len(ps) + 1] ==
        IF j > Len(w) THEN <<>>
        ELSE IF (Raw(w, j, "*") \/ Raw(w, j, "?") \/ IsBracket(w, j)) /\ n <= Len(ps)
        THEN ps[n] \o f[IF IsBracket(w, j) THEN RightBracket(w, j) + 1 ELSE j + 1, n + 1]
        ELSE <<w[j].c>> \o f[j + 1, n]
  IN  f[1, 1]

Wildcards(w) ==
  LET n[j \in 1 .. Len(w) + 1] ==
        IF j > Len(w) THEN 0
        ELSE IF IsBracket(w, j) THEN 1 + n[RightBracket(w, j) + 1]
        ELSE (IF Raw(w, j, "*") \/ Raw(w, j, "?") THEN 1 ELSE 0) + n[j + 1]
  IN  n[1]

Fit ==
  /\ Len(parts') = Wildcards(Pattern)
  /\ Fill(Pattern, parts') = Subject

NoLoneBracket == \A i \in DOMAIN Pattern : Raw(Pattern, i, "[") => IsBracket(Pattern, i)

\* ~~ returns the parts of the subject that correspond to the wildcards: one for
\* each, and with them the pattern is the subject.
PartsRight == [][step = "extract" /\ step' = "word" /\ NoLoneBracket => Fit]_vars

\* extractsinglematch's assertions hold, unless a star follows another.
AssertsStars ==
  step = "failed" => \E i \in DOMAIN Pattern : Raw(Pattern, i, "*") /\ Raw(Pattern, i + 1, "*")

=============================================================================
