-------------------------------- MODULE Fds ---------------------------------
(***************************************************************************)
(* fd.c, and its callers in prim-io.c, prim-sys.c and proc.c: the          *)
(* descriptors of one process.  In the shell itself a redirection is only  *)
(* noted, on the stack deftab, with the file open under a number of its    *)
(* own; a child performs what is noted when it is forked, and does further *)
(* redirections at once.  Numbers that the shell itself holds are kept out *)
(* of the way by releasefd, where they are registered.                     *)
(*                                                                         *)
(* view is what the program asked for: descriptor -> file, with every      *)
(* redirection performed at once and undone at the end of its command.     *)
(***************************************************************************)
EXTENDS Integers, Sequences, FiniteSets, SequencesExt

CONSTANTS
  Setups,      \* what the programs use: see setup
  ExecInRedir, \* whether exec comes inside of a redirection of the shell
  HereInChild, \* whether here documents come where redirections are done at once
  CloseStd,    \* whether 0, 1 and 2 may be closed for good
  MaxDepth     \* bound: nested constructs

MaxFd == 9 + MaxDepth

Fd == 0 .. MaxFd

Setup ==
  [user  : SUBSET Fd,   \* descriptors that redirections name
   dup   : SUBSET Fd,   \* those that dup copies from
   left  : SUBSET Fd,   \* those that pipes connect on their left
   right : SUBSET Fd,   \* and on their right
   input : {0, 3},      \* where the shell's input is: 0, or the script's descriptor
   names : Nat]         \* bound: descriptors above 2 that are open when <{...} opens another

ASSUME SetupAssumption == Setups \subseteq Setup
ASSUME UseAssumption ==
  {ExecInRedir, HereInChild, CloseStd} \subseteq BOOLEAN
ASSUME BoundAssumption == MaxDepth \in Nat

\* Files are numbered from 1; the input is file 4 where it is not file 1.
Files == 0 .. MaxFd + 3
Closed == 0

VARIABLES
  setup,    \* one of Setups, for the whole behaviour
  table,    \* the kernel's table: descriptor -> file
  deftab,   \* the user's descriptors of the deferred operations
  reserved, \* the registered numbers: of the input (0), of the i-th deferral (i)
  frames,   \* the commands that run, innermost last
  view      \* what the program asked for

vars == <<setup, table, deftab, reserved, frames, view>>

Input == 0

-----------------------------------------------------------------------------
(* The kernel. *)

Free(t) == CHOOSE n \in Fd : t[n] = Closed /\ \A m \in 0 .. n - 1 : t[m] # Closed

Open(t, f) == [t EXCEPT ![Free(t)] = f]

Close(t, n) == [t EXCEPT ![n] = Closed]

Mvfd_Keep(t, old, new) == [t EXCEPT ![new] = t[old]]  \* mutant: the old stays open

\* mvfd
Mvfd(t, old, new) ==
  IF old = new THEN t ELSE [t EXCEPT ![new] = t[old], ![old] = Closed]

\* A file that nobody has open.
NewFile == CHOOSE f \in Files \ {Closed} : \A n \in Fd : table[n] # f /\ view[n] # f

NewFile2 == CHOOSE f \in Files \ {Closed, NewFile} : \A n \in Fd : table[n] # f /\ view[n] # f

-----------------------------------------------------------------------------
(* fd.c, as functions of the table and the registered numbers. *)

Releasefd_Never(s, n) == s                       \* mutant: nobody gives way

\* releasefd: who holds the number is given another one.
Releasefd(s, n) ==
  IF \E r \in DOMAIN s.reserved : s.reserved[r] = n
  THEN LET r == CHOOSE x \in DOMAIN s.reserved : s.reserved[x] = n
       IN  [table    |-> Close(Open(s.table, s.table[n]), n),
            reserved |-> [s.reserved EXCEPT ![r] = Free(s.table)]]
  ELSE s

\* dodeferred; -1 stands for a close.
Dodeferred(s, real, user) ==
  LET q == Releasefd(s, user)
  IN  [q EXCEPT !.table = IF real = -1 THEN Close(@, user) ELSE Mvfd(@, real, user)]

Unregister(s, r) == [s EXCEPT !.reserved = Restrict(@, DOMAIN @ \ {r})]

Perform(s, i) == Dodeferred(Unregister(s, i), s.reserved[i], deftab[i])

Remapfds_Backwards(s) ==                         \* mutant: the last one first
  LET after[i \in 0 .. Len(deftab)] ==
        IF i = 0 THEN s ELSE Perform(after[i - 1], Len(deftab) + 1 - i)
  IN  after[Len(deftab)]

\* remapfds
Remapfds(s) ==
  LET after[i \in 0 .. Len(deftab)] == IF i = 0 THEN s ELSE Perform(after[i - 1], i)
  IN  after[Len(deftab)]

\* closefds: what is registered to be closed at a fork is the input.
Closefds(s) ==
  LET q  == Remapfds(s)
      fd == q.reserved[Input]
  IN  [table    |-> IF fd >= 3 THEN Close(q.table, fd) ELSE q.table,
       reserved |-> [q.reserved EXCEPT ![Input] = -1]]

Now == [table |-> table, reserved |-> reserved]

Real(n, i) == IF n = deftab[i] THEN reserved[i] ELSE n

Fdmap_First(u) ==                                \* mutant: the outermost one wins
  LET number[i \in 0 .. Len(deftab)] == IF i = 0 THEN u ELSE Real(number[i - 1], i)
  IN  number[Len(deftab)]

\* fdmap, from the innermost one on.
Fdmap(u) ==
  LET number[i \in 0 .. Len(deftab)] ==
        IF i = Len(deftab) THEN u ELSE Real(number[i + 1], i + 1)
  IN  number[0]

Isdeferred(n) == \E i \in DOMAIN deftab : deftab[i] = n

\* newfd: 3, if it is free, or else the first free one that is not deferred.
Newfd_Deferred ==                                \* mutant: isdeferred is not asked
  IF table[3] = Closed THEN 3 ELSE Free(table)

Newfd ==
  LET i == CHOOSE n \in 3 .. MaxFd : ~Isdeferred(n) /\ \A m \in 3 .. n - 1 : Isdeferred(m)
  IN  IF table[i] = Closed THEN i
      ELSE CHOOSE n \in Fd : /\ table[n] = Closed /\ ~Isdeferred(n)
                             /\ \A m \in 0 .. n - 1 : table[m] # Closed \/ Isdeferred(m)

-----------------------------------------------------------------------------
Init ==
  /\ setup \in Setups
  /\ table    = [n \in Fd |-> IF n \in 0 .. 2 THEN n + 1
                              ELSE IF n = setup.input THEN 4 ELSE Closed]
  /\ deftab   = <<>>
  /\ reserved = [r \in {Input} |-> setup.input]
  /\ frames   = <<>>
  /\ view     = [n \in Fd |-> IF n \in 0 .. 2 THEN n + 1 ELSE Closed]

\* eval_inchild, of the command that runs.
Inchild == frames # <<>> /\ Last(frames).inchild

Frame(kind, inchild) ==
  [kind |-> kind, inchild |-> inchild, user |-> 0, file |-> Closed, fd |-> -1]

CanEnter == Len(frames) < MaxDepth

\* redir: the operation is noted, or done.
Redir(kind, inparent, s, real, u, f) ==
  /\ CanEnter
  /\ IF inparent
     THEN /\ table' = s.table
          /\ deftab' = Append(deftab, u)
          /\ reserved' = [r \in 0 .. Len(deftab') |->
                            IF r = Len(deftab') THEN real ELSE s.reserved[r]]
          /\ frames' = Append(frames, [Frame(kind, Inchild) EXCEPT !.user = u, !.file = view[u],
                                                                  !.fd = real])
     ELSE LET q == Dodeferred(s, real, u)
          IN  /\ table' = q.table
              /\ reserved' = q.reserved
              /\ frames' = Append(frames, Frame("done", Inchild))
              /\ deftab' = deftab
  /\ view' = [view EXCEPT ![u] = f]
  /\ UNCHANGED setup

Openfile(u) ==
  Redir("redir", ~Inchild, [Now EXCEPT !.table = Open(@, NewFile)], Free(table), u, NewFile)

\* dup, of what the program has open.
Dup(u, v) ==
  /\ view[v] # Closed
  /\ LET f == table[Fdmap(v)]
     IN  Redir("redir", ~Inchild, [Now EXCEPT !.table = Open(@, f)], Free(table), u, view[v])

CloseFd(u) ==
  /\ CloseStd \/ u > 2
  /\ Redir("redir", ~Inchild, Now, -1, u, Closed)

\* here, of a short document: the pipe's write end is closed again, and the
\* operation noted, wherever the shell is.
Here(u) ==
  /\ Inchild => HereInChild
  /\ Redir("here", TRUE, [Now EXCEPT !.table = Open(@, NewFile)], Free(table), u, NewFile)

Undefer_Leak(frame) ==                           \* mutant: the file stays open
  /\ deftab' = Front(deftab)
  /\ reserved' = Restrict(reserved, 0 .. Len(deftab) - 1)
  /\ table' = table

Undefer_Count(frame) ==                          \* mutant: the deferral stays on the stack
  /\ table' = IF reserved[Len(deftab)] = -1 THEN table
              ELSE Close(table, reserved[Len(deftab)])
  /\ UNCHANGED <<deftab, reserved>>

\* undefer; here closes the number again.
Undefer(frame) ==
  LET real == reserved[Len(deftab)]
      t    == IF real = -1 THEN table ELSE Close(table, real)
  IN  /\ deftab' = Front(deftab)
      /\ reserved' = Restrict(reserved, 0 .. Len(deftab) - 1)
      /\ table' = IF frame.kind = "here" THEN Close(t, frame.fd) ELSE t

\* The end of a command with a redirection.
RedirEnd ==
  /\ frames # <<>>
  /\ Last(frames).kind \in {"redir", "here"}
  /\ Undefer(Last(frames))
  /\ view' = [view EXCEPT ![Last(frames).user] = Last(frames).file]
  /\ frames' = Front(frames)
  /\ UNCHANGED setup

\* The commands of a sequence that are not its last; exec.
Seq1 ==
  /\ CanEnter
  /\ frames' = Append(frames, Frame("seq", FALSE))
  /\ UNCHANGED <<setup, table, deftab, reserved, view>>

Exec ==
  /\ CanEnter
  /\ deftab # <<>> => ExecInRedir
  /\ frames' = Append(frames, Frame("exec", TRUE))
  /\ UNCHANGED <<setup, table, deftab, reserved, view>>

End ==
  /\ frames # <<>>
  /\ Last(frames).kind \in {"seq", "exec", "done"}
  /\ frames' = Front(frames)
  /\ UNCHANGED <<setup, table, deftab, reserved, view>>

-----------------------------------------------------------------------------
(* efork: from here on in the child. *)

Child(t, inchild) ==
  /\ table' = t
  /\ deftab' = <<>>
  /\ reserved' = [r \in {Input} |-> -1]
  /\ frames' = <<Frame("child", inchild)>>
  /\ UNCHANGED setup

Fork ==
  /\ Child(Closefds(Now).table, TRUE)
  /\ view' = view

\* A background job: /dev/null is its input.
Background ==
  LET t == Closefds(Now).table
  IN  /\ Child(Mvfd(Open(t, NewFile), Free(t), 0), TRUE)
      /\ view' = [view EXCEPT ![0] = NewFile]

\* pipefork registers the ends of the pipe, p[0] and p[1], and inpipe, the
\* read end of the pipe before, until the child has called closefds.
Forked(t, ends) ==
  Closefds([table |-> t,
            reserved |-> [r \in DOMAIN reserved \cup DOMAIN ends |->
                            IF r \in DOMAIN reserved THEN reserved[r] ELSE ends[r]]])

P0 == -1
P1 == -2
Inpipe == -3

\* The commands of a pipeline but the last: left ones, and middle ones.
PipeLeft(out) ==
  LET t1 == Open(table, NewFile)
      t2 == Open(t1, NewFile2)
      q  == Forked(t2, [r \in {P0, P1} |-> IF r = P0 THEN Free(table) ELSE Free(t1)])
  IN  /\ Child(Close(Mvfd(q.table, q.reserved[P1], out), q.reserved[P0]), TRUE)
      /\ view' = [view EXCEPT ![out] = NewFile2]

\* Where inpipe is in a pipeline: each pipe is made while the one before it is open,
\* so that the read ends take turns at the two lowest numbers.
Inpipes == {Free(table), Free(Open(table, NewFile))}

\* The pipe before it has been made, and its left command forked.
PipeMiddle(in, out) ==
  \E f \in Files \ {Closed, NewFile, NewFile2}, inpipe \in Inpipes :
    /\ \A n \in Fd : table[n] # f /\ view[n] # f
    /\ LET t0 == [table EXCEPT ![inpipe] = f]
           t1 == Open(t0, NewFile)
           t2 == Open(t1, NewFile2)
           q  == Forked(t2, [r \in {P0, P1, Inpipe} |->
                               IF r = P0 THEN Free(t0) ELSE IF r = P1 THEN Free(t1)
                               ELSE inpipe])
           m  == Mvfd(q.table, q.reserved[Inpipe], in)
       IN  Child(Close(Mvfd(m, q.reserved[P1], out), q.reserved[P0]), TRUE)
    /\ view' = [view EXCEPT ![in] = f, ![out] = NewFile2]

\* The last command: nothing is registered for it.
PipeRight(in) ==
  /\ \E inpipe \in Inpipes :
       LET q == Closefds([Now EXCEPT !.table = [table EXCEPT ![inpipe] = NewFile]])
       IN  Child(Mvfd(q.table, inpipe, in), TRUE)
  /\ view' = [view EXCEPT ![in] = NewFile]

\* The child of `{...}: like a left command, with 1 for its output.
Backquote == PipeLeft(1)

\* The child of <{...}: here p[0] is closed first, and what follows is deferred.
ReadfromChild ==
  LET t1 == Open(table, NewFile)
      t2 == Open(t1, NewFile2)
      q  == Forked(t2, [r \in {P0, P1} |-> IF r = P0 THEN Free(table) ELSE Free(t1)])
  IN  /\ setup.names > 0
      /\ Child(Mvfd(Close(q.table, q.reserved[P0]), q.reserved[P1], 1), FALSE)
      /\ view' = [view EXCEPT ![1] = NewFile2]

\* The command of <{...}: it has the pipe under the number in its name.
Readfrom ==
  /\ CanEnter
  /\ Cardinality({n \in Fd : n > 2 /\ view[n] # Closed}) < setup.names
  /\ table' = Open(table, NewFile)
  /\ view' = [view EXCEPT ![Free(table)] = NewFile]
  /\ frames' = Append(frames, [Frame("readfrom", Inchild) EXCEPT !.fd = Free(table),
                                                                !.file = NewFile])
  /\ UNCHANGED <<setup, deftab, reserved>>

ReadfromEnd_Open ==                              \* mutant: p[0] is not closed
  /\ frames # <<>> /\ Last(frames).kind = "readfrom"
  /\ view' = [view EXCEPT ![Last(frames).fd] = Closed]
  /\ frames' = Front(frames)
  /\ UNCHANGED <<setup, table, deftab, reserved>>

ReadfromEnd ==
  /\ frames # <<>>
  /\ Last(frames).kind = "readfrom"
  /\ table' = Close(table, Last(frames).fd)
  /\ view' = [view EXCEPT ![Last(frames).fd] = Closed]
  /\ frames' = Front(frames)
  /\ UNCHANGED <<setup, deftab, reserved>>

Next ==
  \/ \E u \in setup.user : Openfile(u) \/ CloseFd(u) \/ Here(u)
  \/ \E u \in setup.user, v \in setup.dup : Dup(u, v)
  \/ RedirEnd \/ Seq1 \/ Exec \/ End
  \/ Fork \/ Background \/ Backquote \/ ReadfromChild
  \/ \E out \in setup.left : PipeLeft(out) \/ \E in \in setup.right : PipeMiddle(in, out)
  \/ \E in \in setup.right : PipeRight(in)
  \/ Readfrom \/ ReadfromEnd

Spec == Init /\ [][Next]_vars

-----------------------------------------------------------------------------
TypeOK ==
  /\ setup \in Setups
  /\ table \in [Fd -> Files] /\ view \in [Fd -> Files]
  /\ deftab \in Seq(setup.user)
  /\ reserved \in [0 .. Len(deftab) -> Fd \cup {-1}]
  /\ frames \in Seq([kind : {"redir", "here", "done", "seq", "exec", "child", "readfrom"},
                     inchild : BOOLEAN, user : Fd, file : Files, fd : Fd \cup {-1}])

\* An external command that starts now gets the descriptors that the program
\* asked for, and no other: neither those of the deferrals nor the script's.
CommandGets == Closefds(Now).table = view

\* A builtin that reads or writes now, through fdmap, meets the same files, as
\* long as no redirection names a number under which the shell holds the file of
\* another one: fdmap would take that number for the program's.
BuiltinGets ==
  (\A i, j \in DOMAIN deftab : deftab[i] # reserved[j]) =>
    \A u \in Fd : view[u] # Closed => Fdmap(u) # -1 /\ table[Fdmap(u)] = view[u]

\* The numbers that the shell holds are open, no two of them are the same, and
\* everything else that is open was asked for: nothing leaks, however
\* redirections nest and end, and undefer finds the deferral of its command.
Accounted ==
  LET held == {r \in DOMAIN reserved : reserved[r] # -1}
  IN  /\ \A r \in held : table[reserved[r]] # Closed
      /\ \A r, q \in held : reserved[r] = reserved[q] => r = q
      /\ \A n \in Fd : table[n] # Closed =>
           (\E r \in held : reserved[r] = n) \/ view[n] = table[n] \/ Isdeferred(n)
      /\ Len(deftab) = Cardinality({i \in DOMAIN frames : frames[i].kind \in {"redir", "here"}})

\* What %newfd returns is free, for the program and for the shell.
NewfdFree == view[Newfd] = Closed /\ table[Newfd] = Closed

=============================================================================
