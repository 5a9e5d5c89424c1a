-------------------------------- MODULE Proc --------------------------------
(***************************************************************************)
(* proc.c and the primitives that fork: the children of one shell, its     *)
(* list of them, and what its commands wait for.  A construct that reads   *)
(* from or writes to a child while it runs a command (%readfrom, %writeto, *)
(* %here) waits for the child when the command is over, with its own end   *)
(* of the pipe closed; every descendant that was forked meanwhile has      *)
(* inherited that end.                                                     *)
(*                                                                         *)
(* A job is a child's identity, which, unlike its pid, is not used again   *)
(* while anybody remembers it.                                             *)
(***************************************************************************)
EXTENDS Integers, Sequences, FiniteSets, SequencesExt

CONSTANTS
  Pids,        \* process ids that the kernel gives out
  MaxDepth,    \* the largest bound of a setup
  Setups       \* what programs do: see setup

Setup ==
  [pids        : SUBSET Pids,     \* those that are free
   depth       : 1 .. MaxDepth, \* bound: constructs that are active at once
   waitInside  : BOOLEAN,   \* whether wait is used while a construct has a child
   startInside : BOOLEAN,   \* whether background jobs are started meanwhile
   forkFails   : BOOLEAN,   \* whether fork may fail, and what comes between it and the wait
   inherited   : BOOLEAN]   \* whether a shell with children may exec another shell

ASSUME PidAssumption == Pids \subseteq Nat \ {0} /\ IsFiniteSet(Pids)
ASSUME DepthAssumption == MaxDepth \in Nat \ {0}
ASSUME SetupAssumption == Setups \subseteq Setup

AnyPid == -1                            \* waitpid's first argument

\* More jobs than can be remembered: each child and those it holds, and the
\* frames' two each.
Jobs == 1 .. Cardinality(Pids) * (1 + MaxDepth) + 2 * MaxDepth + 2

VARIABLES
  setup,     \* one of Setups, for the whole behaviour
  kids,      \* the kernel's: pid -> [job, dead, reads: it ends when its reader has gone,
             \*                       holds: the jobs to whose pipes it has the other end]
  proclist,  \* the shell's: [pid, background], the newest first
  frames,    \* the constructs that run, innermost last:
             \* [kind, phase, pids, jobs, failed]
  started    \* the jobs that the program started in the background and has not waited for

vars == <<setup, kids, proclist, frames, started>>

-----------------------------------------------------------------------------
Remembered ==
  (UNION {{kids[p].job} \cup kids[p].holds : p \in DOMAIN kids})
    \cup (UNION {ToSet(f.jobs) : f \in ToSet(frames)})

Job == CHOOSE j \in Jobs : j \notin Remembered

\* The ends of pipes that the shell has open.
HeldIn(phases) ==
  UNION {ToSet(frames[i].jobs) : i \in {k \in DOMAIN frames : frames[k].kind = "around"
                                                             /\ frames[k].phase \in phases}}

Held_Late == HeldIn({"body", "wait"})            \* mutant: closed after ewaitfor

\* close(p[0]) comes before ewaitfor.
Held == HeldIn({"body"})

HeldBy(p) == UNION {kids[q].holds : q \in {k \in DOMAIN kids \ {p} : ~kids[k].dead}}

Kid(job, reads) == [job |-> job, dead |-> FALSE, reads |-> reads, holds |-> Held]

Put(f, p, v) == [q \in DOMAIN f \cup {p} |-> IF q = p THEN v ELSE f[q]]

Frame(kind, phase, pids, jobs) ==
  [kind |-> kind, phase |-> phase, pids |-> pids, jobs |-> jobs, failed |-> FALSE]

Top == Last(frames)

\* Commands run at the top level, and inside of what is around them.
Running == frames # <<>> => Top.phase = "body"

\* An exception: some caller catches it, or the next construct, which then
\* waits for its child and throws it again.
Thrown(fs) ==
  {fs} \cup (IF fs = <<>> THEN {}
             ELSE {Append(Front(fs), [Last(fs) EXCEPT !.phase = "wait", !.failed = TRUE])})

Throw(fs) == frames' \in Thrown(fs)

-----------------------------------------------------------------------------
Init ==
  /\ setup \in Setups
  /\ kids = <<>> /\ proclist = <<>> /\ frames = <<>> /\ started = {}

Efork_Flag(pid, background, reads) ==            \* mutant: always in the foreground
  /\ kids' = Put(kids, pid, Kid(Job, reads))
  /\ proclist' = <<[pid |-> pid, background |-> FALSE]>> \o proclist

\* efork, in the parent.
Efork(pid, background, reads) ==
  /\ kids' = Put(kids, pid, Kid(Job, reads))
  /\ proclist' = <<[pid |-> pid, background |-> background]>> \o proclist

NewPid == setup.pids \ DOMAIN kids

\* Commands that fork and wait at once: %run, fork, time, backquote.
Run(pid) ==
  /\ Running /\ Len(frames) < setup.depth
  /\ Efork(pid, FALSE, FALSE)
  /\ frames' = Append(frames, Frame("one", "wait", <<pid>>, <<Job>>))
  /\ UNCHANGED <<setup, started>>

Background(pid) ==
  /\ Running
  /\ frames # <<>> => setup.startInside
  /\ Efork(pid, TRUE, FALSE)
  /\ started' = started \cup {Job}
  /\ UNCHANGED <<setup, frames>>

\* %readfrom, %writeto, %here, up to the command that they run.
Around(pid) ==
  /\ Running /\ Len(frames) < setup.depth
  /\ \E reads \in BOOLEAN : Efork(pid, FALSE, reads)
  /\ frames' = Append(frames, Frame("around", "body", <<pid>>, <<Job>>))
  /\ UNCHANGED <<setup, started>>

\* %pipe, of two commands.
Pipe(pid1, pid2) ==
  LET job2 == CHOOSE j \in Jobs \ {Job} : j \notin Remembered
  IN  /\ Running /\ Len(frames) < setup.depth
      /\ pid1 # pid2
      /\ kids' = Put(Put(kids, pid1, Kid(Job, FALSE)), pid2, Kid(job2, FALSE))
      /\ proclist' = <<[pid |-> pid2, background |-> FALSE],
                       [pid |-> pid1, background |-> FALSE]>> \o proclist
      /\ frames' = Append(frames, Frame("pipe", "wait", <<pid1, pid2>>, <<Job, job2>>))
      /\ UNCHANGED <<setup, started>>

\* fork fails, for whatever it is done.
ForkFail ==
  /\ setup.forkFails /\ Running
  /\ Throw(frames)
  /\ UNCHANGED <<setup, kids, proclist, started>>

\* A child has been forked, and an exception leaves what forked it before it waits:
\* the second fork or getnumber of a pipe, the settor of %readfrom's variable, the
\* read of a backquote.  Nothing makes the child end: an end of its pipe may stay open.
Abandon(pid) ==
  /\ setup.forkFails /\ Running
  /\ Efork(pid, FALSE, FALSE)
  /\ Throw(frames)
  /\ UNCHANGED <<setup, started>>

Child_KeepList ==                                \* mutant: the child keeps the list
  /\ Running /\ NewPid # {}
  /\ kids' = <<>> /\ frames' = <<>> /\ started' = {}
  /\ UNCHANGED <<setup, proclist>>

\* efork, in the child: the shell is this one from here on.
Child ==
  /\ Running /\ NewPid # {}
  /\ kids' = <<>> /\ frames' = <<>> /\ started' = {}
  /\ proclist' = <<>>
  /\ UNCHANGED setup

\* exec of another shell, at the top level: the children stay, the list does not.
ExecShell ==
  /\ setup.inherited /\ frames = <<>>
  /\ proclist' = <<>>
  /\ UNCHANGED <<setup, kids, frames, started>>

\* The command inside of a construct ends, or throws.
BodyEnd ==
  /\ frames # <<>> /\ Top.phase = "body"
  /\ \E failed \in BOOLEAN :
       frames' = Append(Front(frames), [Top EXCEPT !.phase = "wait", !.failed = failed])
  /\ UNCHANGED <<setup, kids, proclist, started>>

\* $&wait, before it waits.
Wait(pid) ==
  /\ Running /\ Len(frames) < setup.depth
  /\ ~setup.waitInside =>
       IF pid = AnyPid THEN frames = <<>>
       ELSE \A k \in DOMAIN proclist : proclist[k].pid = pid => proclist[k].background
  /\ frames' = Append(frames, Frame("wait", "wait", <<pid>>, <<>>))
  /\ UNCHANGED <<setup, kids, proclist, started>>

\* A signal while $&wait waits; no other wait is interruptible.
Interrupted ==
  /\ frames # <<>> /\ Top.kind = "wait"
  /\ Throw(Front(frames))
  /\ UNCHANGED <<setup, kids, proclist, started>>

-----------------------------------------------------------------------------
Unlink_Any(pid) == Tail(proclist)                \* mutant: the newest is taken for it

\* reap, which asserts that the process is in the list.
Unlink(pid) ==
  LET k == CHOOSE i \in DOMAIN proclist : proclist[i].pid = pid /\ \A m \in 1 .. i - 1 :
                                                                  proclist[m].pid # pid
  IN  RemoveAt(proclist, k)

InList(pid) == \E k \in DOMAIN proclist : proclist[k].pid = pid

Collected_Any(pid) ==                            \* mutant: waitpid of any child
  frames # <<>> /\ Top.phase = "wait" /\ pid \in DOMAIN kids /\ kids[pid].dead

\* waitpid returns the process.
Collected(pid) ==
  /\ frames # <<>> /\ Top.phase = "wait"
  /\ Last(Top.pids) \in {pid, AnyPid}
  /\ pid \in DOMAIN kids /\ kids[pid].dead

\* The construct is done with one of its children, the last one first.
After ==
  LET left == [Top EXCEPT !.pids = Front(@), !.jobs = IF @ = <<>> THEN @ ELSE Front(@)]
  IN  IF left.pids # <<>> THEN {Append(Front(frames), left)}
      ELSE IF Top.failed THEN Thrown(Front(frames))
      ELSE IF Top.kind = "one"       \* SIGCHK
      THEN {Front(frames)} \cup Thrown(Front(frames))
      ELSE {Front(frames)}

\* ewait.
Ewait(pid) ==
  /\ Collected(pid)
  /\ InList(pid)
  /\ kids' = [q \in DOMAIN kids \ {pid} |-> kids[q]]
  /\ proclist' = Unlink(pid)
  /\ started' = started \ {kids[pid].job}
  /\ frames' \in After
  /\ UNCHANGED setup

\* It fails where there is no such child.
EwaitFail ==
  /\ frames # <<>> /\ Top.phase = "wait"
  /\ IF Last(Top.pids) = AnyPid THEN DOMAIN kids = {} ELSE Last(Top.pids) \notin DOMAIN kids
  /\ Throw(Front(frames))
  /\ UNCHANGED <<setup, kids, proclist, started>>

\* A child ends; one that works for a reader may only do so when that one has gone.
Exit(pid) ==
  /\ pid \in DOMAIN kids /\ ~kids[pid].dead
  /\ kids[pid].reads => kids[pid].job \notin Held \cup HeldBy(pid)
  /\ kids' = [kids EXCEPT ![pid].dead = TRUE]
  /\ UNCHANGED <<setup, proclist, frames, started>>

Reap == \E pid \in Pids : Ewait(pid)

Next ==
  \/ \E pid \in NewPid : Run(pid) \/ Background(pid) \/ Around(pid) \/ Abandon(pid)
  \/ \E pid1, pid2 \in NewPid : Pipe(pid1, pid2)
  \/ ForkFail \/ Child \/ ExecShell
  \/ BodyEnd \/ \E pid \in Pids \cup {AnyPid} : Wait(pid)
  \/ Interrupted \/ EwaitFail \/ Reap
  \/ \E pid \in Pids : Exit(pid)

Spec == Init /\ [][Next]_vars

\* The shell goes on, and what runs in the foreground ends; the children that
\* run in the background need not.
Foreground(pid) ==
  /\ pid \in DOMAIN kids
  /\ \E i \in DOMAIN frames : frames[i].kind # "wait" /\ pid \in ToSet(frames[i].pids)

FairSpec ==
  /\ Spec
  /\ WF_vars(Reap) /\ WF_vars(EwaitFail) /\ WF_vars(BodyEnd)
  /\ \A pid \in Pids : WF_vars(Foreground(pid) /\ Exit(pid))

-----------------------------------------------------------------------------
TypeOK ==
  /\ setup \in Setups
  /\ DOMAIN kids \subseteq Pids
  /\ \A p \in DOMAIN kids : kids[p] \in [job : Jobs, dead : BOOLEAN, reads : BOOLEAN,
                                        holds : SUBSET Jobs]
  /\ proclist \in Seq([pid : Pids, background : BOOLEAN])
  /\ frames \in Seq([kind : {"one", "around", "pipe", "wait"}, phase : {"body", "wait"},
                     pids : Seq(Pids \cup {AnyPid}), jobs : Seq(Jobs), failed : BOOLEAN])
  /\ Len(frames) <= MaxDepth
  /\ started \subseteq Jobs

\* The list is what the kernel has: so reap finds whatever waitpid returns, and
\* no child is forgotten.  A shell that was started by exec has no list of the
\* children that came with its process.
ListExact ==
  ~setup.inherited =>
    /\ \A p \in DOMAIN kids : InList(p)
    /\ \A k \in DOMAIN proclist : proclist[k].pid \in DOMAIN kids
    /\ IsInjective([k \in DOMAIN proclist |-> proclist[k].pid])

\* A construct waits for the child that it forked, however pids are used again
\* meanwhile: the status that it returns is that child's.  A wait inside of it
\* may take that away.
WaitsForOwn ==
  ~setup.waitInside =>
    \A i \in DOMAIN frames : frames[i].kind # "wait" =>
      \A k \in DOMAIN frames[i].pids :
        frames[i].pids[k] \in DOMAIN kids /\ kids[frames[i].pids[k]].job = frames[i].jobs[k]

\* apids has the jobs in the background that nobody waited for, and at the top
\* level, where no construct was left before its wait, no other children are
\* left.
ApidsExact ==
  ~setup.inherited =>
    /\ {kids[proclist[k].pid].job : k \in {i \in DOMAIN proclist : proclist[i].background}}
         = started
    /\ frames = <<>> /\ ~setup.forkFails => \A k \in DOMAIN proclist : proclist[k].background

\* A construct that waits gets done, if its child ends without a reader: unless
\* a background job has been started in between, the shell itself was the last
\* one to hold the other end of the pipe, and has closed it.
ConstructsEnd ==
  \A d \in 1 .. MaxDepth :
    (Len(frames) = d /\ Top.phase = "wait" /\ Top.kind # "wait" /\ ~setup.startInside)
      ~> Len(frames) < d

=============================================================================
