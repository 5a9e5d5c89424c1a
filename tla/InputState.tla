----------------------------- MODULE InputState -----------------------------
(***************************************************************************)
(* The state of Input, and what must be true of it.                        *)
(***************************************************************************)
EXTENDS Integers, Sequences

CONSTANTS MaxChunks,   \* bound: chunks and nested sources in a behaviour
          MaxDepth,    \* bound: sources open at a time
          Limits       \* what behaviours are limited to, see limits

Limit ==
    [depth    : 1..MaxDepth,   \* sources open at a time
     signals  : Nat,           \* signals caught
     failures : Nat]           \* reads that fail

ASSUME InputAssumption ==
    MaxChunks \in Nat /\ MaxDepth \in Nat \ {0} /\ Limits \subseteq Limit

VARIABLES calls,       \* the activations of runinput and parseinput, with their sources
          input,       \* the global input: which of them is being read (0 for none)
          openfds,     \* the descriptors open for sources
          exc,         \* the exception that is being thrown, or "none"
          error,       \* whether yyerror's message is set
          hereq,       \* the here documents to be read, first to last in the queue
          queued,      \* how many the command being parsed has queued
          ignoreeof,   \* whether fdfill takes an end of file for one
          deep,        \* whether the parser is in braces
          skip,        \* whether the parser is in error recovery
          aborted,     \* whether an assertion has failed
          limits,      \* one of Limits, for the whole behaviour
          left, signals, failures  \* what the bounds leave

-----------------------------------------------------------------------------
Depth == Len(calls)
Running == calls # <<>> /\ ~aborted
Quiet == Running /\ exc = "none"

(* The global input is the source of the innermost activation, and the     *)
(* descriptors open for sources are those of the sources that are not at   *)
(* their end, each with its own: however a source is left, it is the one   *)
(* that is closed (runinput, parseinput, fdfill, fdcleanup).               *)
OwnSource ==
    /\ input = Depth
    /\ openfds = {calls[i].fd : i \in 1..Depth} \ {-1}
    /\ \A i, j \in 1..Depth : i # j /\ calls[i].fd # -1 => calls[i].fd # calls[j].fd

(* A command runs only when all of it has been read without an error, its  *)
(* here documents too (parse, readheredocs).                               *)
RunsWhole ==
    [][/\ Quiet /\ calls[Depth].at # "eval"
       /\ Len(calls') = Depth /\ calls'[Depth].at = "eval"
       => hereq' = <<>> /\ ~error]_calls

(* parse begins with no message of an earlier parse, as input.c:228        *)
(* asserts: errors and signals leave none, though a failed read may.       *)
ParserClean == limits.failures = 0 => ~aborted

=============================================================================
