-------------------------------- MODULE Opt ---------------------------------
(***************************************************************************)
(* opt.c: the options of access, . and of the shell itself, taken one at a *)
(* time from a list of words.  The state is global and is left over from   *)
(* one call to the next, whichever way a call ends.                        *)
(*                                                                         *)
(* A word is a sequence of letters.  Each caller has a part of its options *)
(* here: plain ones, those with an argument, and the one at which main     *)
(* stops.                                                                  *)
(***************************************************************************)
EXTENDS Integers, Sequences, SequencesExt

CONSTANTS
  Words,    \* the words that are passed
  Behind,   \* what lies behind the terminator of a word in memory, up to the next one
  MaxWords  \* bound: the words of a call

OptAssumption ==
  /\ (\A w \in Words : w \in Seq(STRING) /\ w # <<>>) /\ MaxWords \in Nat
  /\ Behind \subseteq Seq(STRING)

NUL == "NUL"

Dash == <<"-">>

Callers == {"access", "dot", "main"}

Plain == [access |-> {"x", "c", "s"}, dot |-> {"x", "n"}, main |-> {"x", "n"}]
WithArgument == [access |-> {"n"}, dot |-> {}, main |-> {"c"}]
Stop == [access |-> {}, dot |-> {}, main |-> {"s"}]

VARIABLES
  usage_message,       \* whether it is set
  argument_list,
  option_argument,     \* <<>> for NULL
  next_char_position,
  caller,              \* whose options are being parsed, "none", "exited", or "aborted"
  mains,               \* whether main has had its turn
  given,               \* the list of the call
  got,                 \* the options that the call has got, with their arguments
  outcome              \* of the last call: its list, the options, what is left, and how it ended

vars == <<usage_message, argument_list, option_argument, next_char_position, caller, mains,
          given, got, outcome>>

Lists == UNION {[1 .. n -> Words] : n \in 0 .. MaxWords}

NoOutcome == [caller |-> "none", list |-> <<>>, got |-> <<>>, rest |-> <<>>, ok |-> TRUE]

Init ==
  /\ usage_message = FALSE /\ argument_list = <<>> /\ option_argument = <<>>
  /\ next_char_position = 0
  /\ caller = "none" /\ mains = FALSE /\ given = <<>> /\ got = <<>>
  /\ outcome = NoOutcome

Esoptbegin_Keep(c, list) ==                      \* mutant: the position is left over
  /\ usage_message' = (c # "main")
  /\ argument_list' = list /\ option_argument' = <<>>
  /\ UNCHANGED next_char_position

\* esoptbegin; main passes no usage.
Esoptbegin(c, list) ==
  /\ usage_message' = (c # "main")
  /\ argument_list' = list /\ option_argument' = <<>>
  /\ next_char_position' = 0

\* It asserts that no message is left of a parse before.
Abort ==
  /\ caller' = "aborted"
  /\ UNCHANGED <<usage_message, argument_list, option_argument, next_char_position, mains,
                 given, got>>

Call(c, list) ==
  /\ caller = "none"
  /\ IF c = "main" THEN ~mains ELSE mains
  /\ outcome' = NoOutcome
  /\ \/ usage_message /\ Abort
     \/ /\ ~usage_message /\ Esoptbegin(c, list)
        /\ caller' = c /\ mains' = TRUE /\ given' = list /\ got' = <<>>

End(ok, rest) ==
  /\ caller' = IF ok \/ caller # "main" THEN "none" ELSE "exited"
  /\ outcome' = [caller |-> caller, list |-> given, got |-> got', rest |-> rest, ok |-> ok]
  /\ UNCHANGED <<mains, given>>

-----------------------------------------------------------------------------
\* esopt, up to its first test: EOF, or the position in the first word.
AtEnd ==
  /\ next_char_position = 0
  /\ argument_list # <<>> =>
       Head(Head(argument_list)) # "-" \/ Head(argument_list) = <<"-", "-">>

Position == IF next_char_position = 0 THEN 1 ELSE next_char_position

\* There is another letter in the word.
InWord == caller \in Callers /\ ~AtEnd /\ Position < Len(Head(argument_list))

Letter == Head(argument_list)[Position + 1]

\* The word has no letter after this one.
Ends == Position + 2 > Len(Head(argument_list))

\* The caller gets EOF, and takes the rest.
EndOfOptions ==
  LET rest == IF argument_list # <<>> /\ Head(argument_list) = <<"-", "-">>
              THEN Tail(argument_list) ELSE argument_list
  IN  /\ caller \in Callers /\ AtEnd
      /\ argument_list' = <<>> /\ usage_message' = FALSE
      /\ got' = got
      /\ UNCHANGED <<option_argument, next_char_position>>
      /\ End(TRUE, rest)

\* esopt's move past the letter.
Past == IF Ends THEN <<Tail(argument_list), 0>> ELSE <<argument_list, Position + 1>>

PlainOption ==
  /\ InWord
  /\ Letter \in Plain[caller]
  /\ argument_list' = Past[1] /\ next_char_position' = Past[2]
  /\ got' = Append(got, <<Letter>>)
  /\ UNCHANGED <<usage_message, option_argument, caller, mains, given, outcome>>

\* goto getopt_done.
StopOption ==
  /\ InWord
  /\ Letter \in Stop[caller]
  /\ argument_list' = <<>> /\ usage_message' = FALSE
  /\ next_char_position' = Past[2]
  /\ got' = Append(got, <<Letter>>)
  /\ UNCHANGED option_argument
  /\ End(TRUE, Past[1])

IllegalOption ==
  /\ InWord
  /\ Letter \notin Plain[caller] \cup WithArgument[caller] \cup Stop[caller]
  /\ usage_message' = FALSE /\ argument_list' = <<>> /\ next_char_position' = 0
  /\ got' = got
  /\ UNCHANGED option_argument
  /\ End(FALSE, <<>>)

Argument_Next ==                                 \* mutant: the next word, if there is one
  IF Len(argument_list) > 1 THEN argument_list[2] ELSE Head(argument_list)

Argument ==
  IF Ends THEN Past[1][1] ELSE SubSeq(Head(argument_list), Position + 2, Len(Head(argument_list)))

HasArgument == Past[1] # <<>>

\* The option's argument, which the caller takes with esoptarg.
OptionWithArgument ==
  /\ InWord
  /\ Letter \in WithArgument[caller]
  /\ HasArgument
  /\ option_argument' = Argument
  /\ argument_list' = Tail(Past[1]) /\ next_char_position' = 0
  /\ got' = Append(got, <<Letter>>)
  /\ UNCHANGED <<usage_message, caller, mains, given, outcome>>

Esoptarg ==
  /\ got' = Append(Front(got), Append(Last(got), option_argument))
  /\ option_argument' = <<>>

TakeArgument ==
  /\ option_argument # <<>>
  /\ Esoptarg
  /\ UNCHANGED <<usage_message, argument_list, next_char_position, caller, mains, given, outcome>>

\* An error, after which the message stays.
MissingArgument ==
  /\ InWord
  /\ Letter \in WithArgument[caller]
  /\ ~HasArgument
  /\ argument_list' = Past[1] /\ next_char_position' = Past[2]
  /\ got' = got
  /\ UNCHANGED <<usage_message, option_argument>>
  /\ End(FALSE, <<>>)

\* strchr finds the terminator of a lone dash at the end of every list of options;
\* what lies behind it is read as the rest of the word.  . goes on; access and main
\* have no such option, and end.  (What follows the list of options is read too, and
\* taken to be no colon.)
LoneDash ==
  /\ caller \in Callers /\ ~AtEnd /\ ~InWord
  /\ \E more \in Behind :
       LET rest == IF more = <<>> THEN Tail(argument_list)
                   ELSE <<Dash \o <<NUL>> \o more>> \o Tail(argument_list)
       IN  /\ next_char_position' = IF more = <<>> THEN 0 ELSE 2
           /\ argument_list' = IF caller = "dot" THEN rest ELSE <<>>
  /\ got' = got
  /\ UNCHANGED option_argument
  /\ \/ caller = "dot" /\ UNCHANGED <<usage_message, caller, mains, given, outcome>>
     \/ caller # "dot" /\ usage_message' = FALSE /\ End(FALSE, <<>>)

Esopt ==
  /\ option_argument = <<>>
  /\ LoneDash \/ EndOfOptions \/ PlainOption \/ StopOption \/ IllegalOption \/ OptionWithArgument
     \/ MissingArgument

Next ==
  \/ \E c \in Callers, list \in Lists : Call(c, list)
  \/ Esopt \/ TakeArgument

Spec == Init /\ [][Next]_vars

-----------------------------------------------------------------------------
TypeOK ==
  /\ usage_message \in BOOLEAN /\ mains \in BOOLEAN
  /\ caller \in Callers \cup {"none", "exited", "aborted"}
  /\ Len(argument_list) <= MaxWords
  /\ \A i \in DOMAIN argument_list :
       argument_list[i] \in Words \cup {Dash \o <<NUL>> \o more : more \in Behind}
  /\ next_char_position \in Nat
  /\ caller \in Callers /\ argument_list # <<>> => next_char_position < Len(Head(argument_list))
  /\ outcome.ok \in BOOLEAN

\* No letter is read after the end of a word, whatever was parsed before, but for
\* the one that is only a dash (esopt).
InBounds ==
  caller \in Callers /\ ~AtEnd =>
    argument_list # <<>> /\ (Position < Len(Head(argument_list)) \/ Head(argument_list) = Dash)

\* esoptbegin finds no message that an earlier parse has left, as it asserts.
NoMessageLeft == caller # "aborted"

=============================================================================
