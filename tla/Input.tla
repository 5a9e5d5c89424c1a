-------------------------------- MODULE Input --------------------------------
(***************************************************************************)
(* The input sources of es and what reads them: the stack of sources       *)
(* (input.c), the loops that parse a command and run it (prim-etc.c and    *)
(* initial.es), the parser's error message and the queue of here documents *)
(* (heredoc.c).                                                            *)
(*                                                                         *)
(* Text comes in chunks, a chunk being what there is of one line.  A chunk *)
(* of commands may hold a here document operator, open or close a brace,   *)
(* be wrong in one of the ways parse.y tells apart, and end the line or    *)
(* not.  The here documents of a command are numbered as they appear.      *)
(***************************************************************************)
EXTENDS InputState, SequencesExt, FiniteSetsExt

reader == <<error, hereq, queued, ignoreeof, deep, skip>>
bounds == <<limits, left, signals, failures>>
vars == <<calls, input, openfds, exc, reader, aborted, bounds>>

Source(k, fd, i) ==
    [kind  |-> k,
     fd    |-> fd,
     fill  |-> IF k = "fd" THEN "fdfill" ELSE "stringfill",
     inter |-> i,
     loop  |-> CASE k = "term" -> "once"
                 [] k # "term" -> IF i THEN "interactive" ELSE "batch",
     at    |-> "loop"]

TypeOK ==
    /\ calls \in Seq([kind  : {"fd", "string", "term"},
                      fd    : -1..MaxDepth,
                      fill  : {"fdfill", "stringfill", "eoffill"},
                      inter : BOOLEAN,
                      loop  : {"interactive", "batch", "once"},
                      at    : {"loop", "lex", "here", "lexeof", "hereeof", "eval"}])
    /\ Len(calls) <= MaxDepth
    /\ input \in 0..MaxDepth
    /\ openfds \subseteq 0..MaxDepth
    /\ exc \in {"none", "eof", "error", "signal", "exit", "user"}
    /\ error \in BOOLEAN /\ ignoreeof \in BOOLEAN /\ aborted \in BOOLEAN
    /\ deep \in BOOLEAN /\ skip \in BOOLEAN
    /\ queued \in 0..MaxChunks
    /\ hereq \in Seq(1..queued) /\ IsInjective(hereq)
    /\ left \in 0..MaxChunks
    /\ limits \in Limits
    /\ signals \in 0..limits.signals /\ failures \in 0..limits.failures

(* main: the shell reads its standard input or the string of es -c. *)
Init ==
    /\ \E k \in {"fd", "string"}, i \in BOOLEAN :
           calls = <<Source(k, IF k = "fd" THEN 0 ELSE -1, i)>>
    /\ input = 1
    /\ openfds = {calls[1].fd} \ {-1}
    /\ exc = "none"
    /\ error = FALSE /\ hereq = <<>> /\ queued = 0 /\ ignoreeof = FALSE
    /\ deep = FALSE /\ skip = FALSE
    /\ aborted = FALSE
    /\ limits \in Limits
    /\ left = MaxChunks /\ signals = limits.signals /\ failures = limits.failures

Top == calls[Depth]
At(where) == Quiet /\ Top.at = where

Goto(where) == calls' = [calls EXCEPT ![Depth].at = where]

-----------------------------------------------------------------------------
(* Leaving a source.                                                       *)

(* fdcleanup, stringcleanup *)
Cleanup(in) == openfds' = openfds \ {in.fd}

(* The end of runinput or parseinput without an exception. *)
Return ==
    /\ input' = Depth - 1
    /\ calls' = Front(calls)
    /\ Cleanup(Top)
    /\ exc' = "none"

Rethrow_NoCleanup ==
    /\ input' = input - 1
    /\ calls' = Front(calls)
    /\ UNCHANGED <<openfds, exc>>

(* Their CatchException, which works on the global input. *)
Rethrow ==
    /\ Cleanup(calls[input])
    /\ input' = input - 1
    /\ calls' = Front(calls)
    /\ UNCHANGED exc

-----------------------------------------------------------------------------
(* The parser.                                                             *)

(* parse, up to yyparse: the message of an earlier parse must be gone, the *)
(* queue is emptied, and a source that is at its end throws eof.           *)
ParseStart ==
    /\ At("loop")
    /\ IF error
       THEN aborted' = TRUE /\ UNCHANGED <<calls, exc, reader>>
       ELSE /\ hereq' = <<>> /\ queued' = 0 /\ deep' = FALSE /\ skip' = FALSE
            /\ IF Top.fill = "eoffill"
               THEN exc' = "eof" /\ UNCHANGED calls
               ELSE Goto("lex") /\ UNCHANGED exc
            /\ UNCHANGED <<error, ignoreeof, aborted>>
    /\ UNCHANGED <<input, openfds, bounds>>

(* The end of parse, the message set or not: an error is reported and the  *)
(* message cleared.  Otherwise a loop runs the command, if there is one,   *)
(* and parseinput, which reads a single term, requires the end to follow.  *)
FinishParse(bad) ==
    /\ error' = FALSE
    /\ \/ /\ bad
          /\ exc' = "error" /\ UNCHANGED <<calls, input, openfds>>
       \/ /\ ~bad /\ Top.loop # "once"
          /\ \E where \in {"eval", "loop"} : Goto(where)
          /\ UNCHANGED <<input, openfds, exc>>
       \/ /\ ~bad /\ Top.loop = "once"
          /\ \/ Return
             \/ left > 0 /\ exc' = "error" /\ UNCHANGED <<calls, input, openfds>>

Chunk == [here  : BOOLEAN,    \* a here document operator
          brace : BOOLEAN,    \* a brace that opens a block, or closes the open one
          bad   : {"no", "soft", "syntax", "marker"},
          nl    : BOOLEAN]    \* a newline at its end

QueueHeredoc(q, n) == <<n>> \o q

(* The parser takes a chunk of commands.  In error recovery it only waits  *)
(* for the end of the line.  A here document whose marker is no word stops *)
(* it where it is; a line that ends has its here documents read, after it  *)
(* the parse is over unless a brace is open.                               *)
Lex(c) ==
    LET taken == ~skip /\ c.bad # "marker"
        here  == c.here /\ taken
        q     == IF here THEN QueueHeredoc(hereq, queued + 1) ELSE hereq
        bad   == error \/ (~skip /\ c.bad # "no")
        stray == ~skip /\ c.bad = "syntax"
        in    == IF c.brace /\ taken /\ ~stray THEN ~deep ELSE deep
    IN /\ At("lex")
       /\ left > 0 /\ left' = left - 1
       /\ Top.fill # "eoffill"
       /\ hereq' = q
       /\ queued' = IF here THEN queued + 1 ELSE queued
       /\ skip' = (skip \/ stray)
       /\ deep' = in
       /\ \/ /\ ~skip /\ c.bad = "marker"
             /\ FinishParse(TRUE)
             /\ UNCHANGED ignoreeof
          \/ /\ skip \/ c.bad # "marker"
             /\ c.nl /\ q # <<>>
             /\ Goto("here") /\ ignoreeof' = TRUE /\ error' = bad
             /\ UNCHANGED <<input, openfds, exc>>
          \/ /\ skip \/ c.bad # "marker"
             /\ c.nl /\ q = <<>> /\ (skip' \/ ~in)
             /\ FinishParse(bad)
             /\ UNCHANGED ignoreeof
          \/ /\ skip \/ c.bad # "marker"
             /\ ~c.nl \/ (q = <<>> /\ ~skip' /\ in)
             /\ error' = bad
             /\ UNCHANGED <<calls, input, openfds, exc, ignoreeof>>
       /\ UNCHANGED <<aborted, signals, failures, limits>>

(* readheredocs, at the end marker of the document it is reading: the next *)
(* one, or back to the parser after the newline that had it read them.     *)
EndOfDocument ==
    /\ hereq' = Tail(hereq)
    /\ IF hereq' # <<>>
       THEN Goto("here") /\ UNCHANGED <<input, openfds, exc, error, ignoreeof>>
       ELSE /\ ignoreeof' = FALSE
            /\ IF skip \/ ~deep
               THEN FinishParse(error)
               ELSE Goto("lex") /\ UNCHANGED <<input, openfds, exc, error>>

(* snarfheredoc takes a line, which is the end marker or is not. *)
HereLine(mark) ==
    /\ At("here")
    /\ left > 0 /\ left' = left - 1
    /\ Top.fill # "eoffill"
    /\ IF mark
       THEN EndOfDocument
       ELSE UNCHANGED <<calls, input, openfds, exc, error, hereq, ignoreeof>>
    /\ UNCHANGED <<queued, deep, skip, aborted, signals, failures, limits>>

-----------------------------------------------------------------------------
(* Ends, interruptions and failures of a source.                           *)

Closed(in) == [in EXCEPT !.fd = -1, !.fill = "eoffill", !.inter = FALSE]

AfterEof_Fill(in) ==
    IF in.fill = "fdfill" /\ ~ignoreeof THEN [in EXCEPT !.fd = -1] ELSE in

(* fdfill at an end of file, stringfill and eoffill: the source is at its  *)
(* end from now on, unless a here document is being read.                  *)
AfterEof(in) ==
    CASE in.fill = "fdfill" /\ ignoreeof -> in
      [] in.fill = "fdfill" /\ ~ignoreeof -> Closed(in)
      [] in.fill # "fdfill" -> [in EXCEPT !.fill = "eoffill"]

Eof ==
    /\ Quiet /\ Top.at \in {"lex", "here"}
    /\ LET in == AfterEof(Top) IN
           /\ calls' = [calls EXCEPT ![Depth] =
                  [in EXCEPT !.at = IF Top.at = "lex" THEN "lexeof" ELSE "hereeof"]]
           /\ openfds' = IF in.fd # Top.fd THEN openfds \ {Top.fd} ELSE openfds
    /\ UNCHANGED <<input, exc, reader, aborted, bounds>>

EndFile_Pending ==
    /\ At("lexeof")
    /\ FinishParse(error \/ deep)
    /\ UNCHANGED <<hereq, queued, ignoreeof, deep, skip, aborted, bounds>>

(* The parser at ENDFILE: an open brace is a syntax error, and             *)
(* readheredocs(TRUE) has one for here documents that are still queued.    *)
EndFile ==
    /\ At("lexeof")
    /\ FinishParse(error \/ deep \/ hereq # <<>>)
    /\ UNCHANGED <<hereq, queued, ignoreeof, deep, skip, aborted, bounds>>

(* snarfheredoc at an end of file: an end marker need not have a newline,  *)
(* anything else is an incomplete here document.                           *)
HereEof ==
    /\ At("hereeof")
    /\ \/ left > 0 /\ left' = left - 1 /\ EndOfDocument
       \/ /\ ignoreeof' = FALSE
          /\ FinishParse(TRUE)
          /\ UNCHANGED <<hereq, left>>
    /\ UNCHANGED <<queued, deep, skip, aborted, signals, failures, limits>>

Signal_Keep ==
    /\ Quiet /\ signals > 0 /\ signals' = signals - 1
    /\ \/ Top.at \in {"loop", "eval"}
       \/ Top.at \in {"lex", "here"} /\ Top.fill = "fdfill"
    /\ exc' = "signal"
    /\ UNCHANGED <<calls, input, openfds, reader, aborted, left, failures, limits>>

(* A caught signal is thrown by sigchk, which fdfill calls after each read *)
(* and the evaluator all the time; it clears the parser's message.         *)
Signal ==
    /\ Quiet /\ signals > 0 /\ signals' = signals - 1
    /\ \/ Top.at \in {"loop", "eval"}
       \/ Top.at \in {"lex", "here"} /\ Top.fill = "fdfill"
    /\ error' = FALSE /\ exc' = "signal"
    /\ UNCHANGED <<calls, input, openfds, hereq, queued, ignoreeof, deep, skip,
                   aborted, left, failures, limits>>

(* A read that fails: fdfill closes the descriptor as at an end of file,   *)
(* and throws.                                                             *)
ReadFails ==
    /\ Quiet /\ failures > 0 /\ failures' = failures - 1
    /\ Top.at \in {"lex", "here"} /\ Top.fill = "fdfill"
    /\ LET in == AfterEof(Top) IN
           /\ calls' = [calls EXCEPT ![Depth] = in]
           /\ openfds' = IF in.fd # Top.fd THEN openfds \ {Top.fd} ELSE openfds
    /\ exc' = "error"
    /\ UNCHANGED <<input, reader, aborted, left, signals, limits>>

-----------------------------------------------------------------------------
(* Commands.                                                               *)

(* The command of the innermost loop ends. *)
EvalEnds ==
    /\ At("eval")
    /\ Goto("loop")
    /\ UNCHANGED <<input, openfds, exc, reader, aborted, bounds>>

EvalThrows ==
    /\ At("eval")
    /\ \E e \in {"eof", "error", "exit", "user"} : exc' = e
    /\ UNCHANGED <<calls, input, openfds, reader, aborted, bounds>>

(* runinput and parseinput put a source on top. *)
Push(in) ==
    /\ calls' = Append(calls, in)
    /\ input' = Depth + 1
    /\ openfds' = openfds \cup ({in.fd} \ {-1})

LowestFree == Min((0..MaxDepth) \ openfds)

(* A command runs another source: . file and . -i file (runfd), eval       *)
(* (runstring), or a closure that is still text (parsestring).             *)
EvalRuns ==
    /\ At("eval")
    /\ Depth < limits.depth /\ left > 0 /\ left' = left - 1
    /\ \E in \in {Source("fd", LowestFree, TRUE), Source("fd", LowestFree, FALSE),
                  Source("string", -1, FALSE), Source("term", -1, FALSE)} : Push(in)
    /\ UNCHANGED <<exc, reader, aborted, signals, failures, limits>>

(* A command catches the exception that came out of what it ran. *)
EvalCatches ==
    /\ Running /\ exc # "none" /\ Top.at = "eval"
    /\ exc' = "none"
    /\ UNCHANGED <<calls, input, openfds, reader, aborted, bounds>>

(* $&batchloop and %interactive-loop catch eof and return; the interactive *)
(* one goes on after any other exception but exit.                         *)
LoopEnds ==
    /\ Running /\ exc = "eof" /\ Top.loop # "once"
    /\ Return
    /\ UNCHANGED <<reader, aborted, bounds>>

LoopRetries ==
    /\ Running /\ exc \notin {"none", "eof", "exit"} /\ Top.loop = "interactive"
    /\ Goto("loop") /\ exc' = "none"
    /\ UNCHANGED <<input, openfds, reader, aborted, bounds>>

LoopThrows ==
    /\ Running /\ exc # "none"
    /\ \/ Top.loop = "once"
       \/ Top.loop = "batch" /\ exc # "eof"
       \/ Top.loop = "interactive" /\ exc = "exit"
    /\ Rethrow
    /\ UNCHANGED <<reader, aborted, bounds>>

(* The shell has left its last source, or has aborted. *)
Over == ~Running /\ UNCHANGED vars

Next ==
    \/ ParseStart \/ Eof \/ EndFile \/ HereEof
    \/ \E c \in Chunk : Lex(c)
    \/ \E mark \in BOOLEAN : HereLine(mark)
    \/ Signal \/ ReadFails
    \/ EvalEnds \/ EvalThrows \/ EvalRuns \/ EvalCatches
    \/ LoopEnds \/ LoopRetries \/ LoopThrows
    \/ Over

Spec == Init /\ [][Next]_vars

(* Reads return, and a command does not throw and catch for ever. *)
FairSpec == Spec /\ WF_vars(Next) /\ SF_vars(EvalEnds)

-----------------------------------------------------------------------------
(* Properties.                                                             *)

(* Where no signal comes and no read fails, fdfill takes an end of file    *)
(* for no end only while a here document is being read (ignoreeof).        *)
Undisturbed == limits.signals = 0 /\ limits.failures = 0

IgnoreHere == Undisturbed /\ ignoreeof => Quiet /\ Top.at \in {"here", "hereeof"}

(* When there is nothing more to come but the end of input, each source is *)
(* left, and the shell ends.                                               *)
EofEnds == []IgnoreHere /\ ((left = 0 /\ Undisturbed) ~> ~Running)
=============================================================================
