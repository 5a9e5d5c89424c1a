-------------------------------- MODULE Inbuf --------------------------------
(***************************************************************************)
(* The character layer of an input source of es (input.c): a buffer that   *)
(* fdfill refills from the descriptor, two characters of pushback that     *)
(* unget installs as if they were a buffer of their own, by saving the     *)
(* real buffer and the real fill routine aside, and the history line that  *)
(* get writes as it reads.                                                 *)
(*                                                                         *)
(* A buffer is the sequence of what it still holds (buf .. bufend); the    *)
(* lexer is the environment: it reads, and pushes back while there is room.*)
(***************************************************************************)
EXTENDS Naturals, Sequences, SequencesExt

CONSTANTS Chars,      \* the characters a source may hold, the null one left out
          NUL,        \* the null character
          EOF,        \* what get returns at the end
          MAXUNGET,   \* characters of pushback
          MaxSource   \* bound: the longest source

InbufAssumption ==
    /\ EOF \notin Chars
    /\ NUL \notin Chars \cup {EOF}
    /\ MAXUNGET \in Nat \ {0}
    /\ MaxSource \in Nat

VARIABLES source,     \* what the descriptor still has to give
          buf,        \* the characters between buf and bufend
          rbuf,       \* the buffer set aside by unget (<<>> for none)
          fill,       \* the routine that refills the buffer
          rfill,      \* the fill routine set aside by unget
          ungot,      \* unget[0 .. ungot-1]: the characters pushed back
          hist,       \* the history line
          last        \* the character get returned

vars == <<source, buf, rbuf, fill, rfill, ungot, hist, last>>

NULL == "NULL"

TypeOK ==
    /\ source \in Seq(Chars \cup {NUL})
    /\ buf \in Seq(Chars \cup {NUL})
    /\ rbuf \in Seq(Chars \cup {NUL})
    /\ (fill = "ungetfill") = (rfill # NULL) /\ (fill = "ungetfill") = (ungot # <<>>)
    /\ fill \in {"fdfill", "eoffill", "ungetfill"}
    /\ rfill \in {NULL, "fdfill", "eoffill"}
    /\ ungot \in Seq(Chars \cup {EOF}) /\ Len(ungot) <= MAXUNGET
    /\ hist \in Seq(Chars)
    /\ last \in Chars \cup {EOF}

(* runfd: an empty buffer, everything to be read from the descriptor. *)
Init ==
    /\ source \in BoundedSeq(Chars \cup {NUL}, MaxSource)
    /\ buf = <<>> /\ rbuf = <<>>
    /\ fill = "fdfill" /\ rfill = NULL
    /\ ungot = <<>> /\ hist = <<>>
    /\ last = EOF

(* ungetfill: with the last of the characters pushed back, the real buffer *)
(* and its fill routine come back.                                         *)
TakeBack_Keep ==
    /\ ungot' = Front(ungot)
    /\ IF Len(ungot) = 1
       THEN fill' = rfill /\ rfill' = NULL /\ rbuf' = <<>> /\ UNCHANGED buf
       ELSE UNCHANGED <<fill, rfill, buf, rbuf>>

TakeBack ==
    /\ ungot' = Front(ungot)
    /\ IF Len(ungot) = 1
       THEN fill' = rfill /\ rfill' = NULL /\ buf' = rbuf /\ rbuf' = <<>>
       ELSE UNCHANGED <<fill, rfill, buf, rbuf>>

(* get returns c, which is not null: unless it was reading pushed-back     *)
(* characters, it writes c into the history line.                          *)
Deliver_All(c) ==
    /\ last' = c
    /\ hist' = IF c # EOF THEN Append(hist, c) ELSE hist

Deliver(c) ==
    /\ last' = c
    /\ hist' = IF fill # "ungetfill" /\ c # EOF THEN Append(hist, c) ELSE hist

(* get, the buffer holding a character: null characters are passed over.   *)
Get ==
    /\ buf # <<>>
    /\ IF Head(buf) = NUL
       THEN UNCHANGED <<last, hist>>
       ELSE Deliver(Head(buf))
    /\ buf' = Tail(buf)
    /\ UNCHANGED <<source, rbuf, fill, rfill, ungot>>

(* get on an empty buffer while characters are pushed back. *)
GetBack ==
    /\ buf = <<>> /\ fill = "ungetfill"
    /\ Deliver(Last(ungot))
    /\ TakeBack
    /\ UNCHANGED source

(* get on an empty buffer of a source that is not at its end: fdfill reads *)
(* some of what is left and returns the first character of it, or closes   *)
(* the descriptor and returns EOF.                                         *)
GetMore ==
    /\ buf = <<>> /\ fill = "fdfill"
    /\ \/ \E n \in 1..Len(source) :
              /\ source' = SubSeq(source, n + 1, Len(source))
              /\ buf' = SubSeq(source, 2, n)
              /\ IF source[1] = NUL
                 THEN UNCHANGED <<last, hist>>
                 ELSE Deliver(source[1])
              /\ UNCHANGED fill
       \/ /\ source = <<>>
          /\ fill' = "eoffill"
          /\ Deliver(EOF)
          /\ UNCHANGED <<source, buf>>
    /\ UNCHANGED <<rbuf, rfill, ungot>>

(* get after the end. *)
GetEnd ==
    /\ buf = <<>> /\ fill = "eoffill"
    /\ Deliver(EOF)
    /\ UNCHANGED <<source, buf, rbuf, fill, rfill, ungot>>

(* unget(c): the first character pushed back sets the real buffer aside.   *)
(* The lexer pushes back the character it has just read, and sometimes a   *)
(* backslash or a blank before it; it never has more than MAXUNGET there.  *)
Unget(c) ==
    /\ Len(ungot) < MAXUNGET
    /\ ungot' = Append(ungot, c)
    /\ IF ungot = <<>>
       THEN /\ rfill' = fill /\ fill' = "ungetfill"
            /\ rbuf' = buf /\ buf' = <<>>
       ELSE UNCHANGED <<rfill, fill, rbuf, buf>>
    /\ UNCHANGED <<source, hist, last>>

Next == \/ Get \/ GetBack \/ GetMore \/ GetEnd
        \/ \E c \in Chars \cup {EOF} : Unget(c)

Spec == Init /\ [][Next]_vars

-----------------------------------------------------------------------------
NotNull(c) == c # NUL

(* The real buffer, wherever it is kept at the moment. *)
Buffer == IF fill = "ungetfill" THEN rbuf ELSE buf

Unread == SelectSeq(Buffer \o source, NotNull)

Stream == INSTANCE CharStream
          WITH todo <- Reverse(ungot) \o Unread, last <- last

(* However reads and pushbacks follow each other and wherever the          *)
(* descriptor cuts the text, the lexer sees one sequence of characters in  *)
(* order, with what it pushed back in front (get, unget, ungetfill,        *)
(* fdfill).                                                                *)
StreamSpec == Stream!Spec

(* A character enters the history line once, when it leaves the source,    *)
(* and never again when it is pushed back and read anew: the line and what *)
(* was never read always make up the text (get, addhistbuffer).            *)
HistoryOnce ==
    [][hist' \o Unread' = hist \o Unread]_vars
=============================================================================
