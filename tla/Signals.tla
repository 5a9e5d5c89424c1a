------------------------------ MODULE Signals -------------------------------
(***************************************************************************)
(* signal.c: the kernel interrupts the shell with catcher, which notes the *)
(* signal in caught and counts it in sigcount; the shell looks at the      *)
(* count in sigchk, between two steps of its work, and throws.  catcher    *)
(* may interrupt the shell, and another catcher, between any two memory    *)
(* accesses: caught and sigcount are volatile, and compilers make a load,  *)
(* an addition and a store of ++sigcount and --sigcount.  While the shell  *)
(* reads a line with readline, catcher leaves by longjmp.                  *)
(***************************************************************************)
EXTENDS Integers, Sequences, FiniteSets, SequencesExt

CONSTANTS
  NSIG,          \* signals are 1 .. NSIG - 1, 1 is SIGINT
  Effect0,       \* sigeffect at the start
  MayFork,       \* whether it may become the child of a fork
  Builds,        \* the builds: [atomic, readline], see build
  MaxBlocked,    \* bound: depth of blocksignals
  MaxSent        \* bound: signals sent

Sig == 1 .. NSIG - 1

Effects == {"catch", "special", "noop", "ignore", "default"}

ASSUME SigAssumption == NSIG \in Nat \ {0} /\ Effect0 \in [Sig -> Effects]
ASSUME UseAssumption ==
  MayFork \in BOOLEAN /\ Builds \subseteq [atomic : BOOLEAN, readline : BOOLEAN]
ASSUME BoundAssumption == MaxBlocked \in Nat /\ MaxSent \in Nat

VARIABLES
  caught, sigcount, blocked, sigeffect, slow, hasforked,
  pc,        \* where the shell is: "run" is its own work
  sig, reg,  \* sigchk's loop index; the count that --sigcount has loaded
  catchers,  \* the interrupted activations of catcher, innermost last
  pending,   \* signals the kernel holds back: their catcher is running
  sent,      \* number of signals sent so far
  build,     \* whether ++ and -- of sigcount are one memory access in this build,
             \* and whether it reads lines with readline
  here       \* whether a signal was sent to this process (since it was forked)

shell == <<build, blocked, sigeffect, hasforked, pc, sig, reg>>
vars == <<caught, sigcount, slow, catchers, pending, sent, here, shell>>

-----------------------------------------------------------------------------
Init ==
  /\ caught    = [s \in Sig |-> FALSE]
  /\ sigcount  = 0
  /\ blocked   = 0
  /\ sigeffect = Effect0
  /\ slow      = FALSE
  /\ hasforked = FALSE
  /\ pc        = "run"
  /\ sig       = 0
  /\ reg       = 0
  /\ catchers  = <<>>
  /\ pending   = {}
  /\ sent      = 0
  /\ here      = FALSE
  /\ build     \in Builds

Alive == pc \notin {"exit", "killed"}

\* esignal gave the signal to catcher.
Handled(s) == sigeffect[s] \in {"catch", "special", "noop"}

Activation(s) == [sig |-> s, at |-> "enter", reg |-> 0]

Top == Last(catchers)

\* A signal comes: its effect is the kernel's, or catcher begins at once,
\* whatever runs, unless it is catcher for the same signal.
Send(s) ==
  /\ Alive
  /\ sent < MaxSent
  /\ sent' = sent + 1
  /\ here' = TRUE
  /\ \/ /\ sigeffect[s] = "ignore"
        /\ UNCHANGED <<pc, catchers, pending>>
     \/ /\ sigeffect[s] = "default"
        /\ pc' = "killed"
        /\ UNCHANGED <<catchers, pending>>
     \/ /\ Handled(s)
        /\ IF \E i \in DOMAIN catchers : catchers[i].sig = s
           THEN pending' = pending \cup {s} /\ catchers' = catchers
           ELSE catchers' = Append(catchers, Activation(s)) /\ pending' = pending
        /\ UNCHANGED pc
  /\ UNCHANGED <<caught, sigcount, blocked, sigeffect, slow, hasforked, sig, reg, build>>

\* The kernel delivers a signal that it held back, before the shell goes on.
Deliver(s) ==
  /\ Alive
  /\ s \in pending
  /\ \A i \in DOMAIN catchers : catchers[i].sig # s
  /\ pending' = pending \ {s}
  /\ catchers' = Append(catchers, Activation(s))
  /\ UNCHANGED <<caught, sigcount, slow, sent, here, shell>>

CatcherAt(at) == Alive /\ catchers # <<>> /\ Top.at = at

Advance(at, r) == catchers' = [catchers EXCEPT ![Len(catchers)].at = at,
                                               ![Len(catchers)].reg = r]

\* The first lines of catcher, up to caught[sig] = TRUE.
CatcherEnter ==
  /\ CatcherAt("enter")
  /\ \/ /\ hasforked
        /\ pc' = "exit"
        /\ UNCHANGED <<caught, catchers>>
     \/ /\ ~hasforked
        /\ caught' = [caught EXCEPT ![Top.sig] = TRUE]
        /\ Advance(IF caught[Top.sig] THEN "slow" ELSE "load", 0)
        /\ pc' = pc
  /\ UNCHANGED <<sigcount, slow, pending, sent, here, blocked, sigeffect, hasforked, sig, reg, build>>

\* ++sigcount: the load, and the store of what was loaded, plus one.
CatcherLoad ==
  /\ CatcherAt("load")
  /\ IF build.atomic
     THEN sigcount' = sigcount + 1 /\ Advance("slow", 0)
     ELSE sigcount' = sigcount /\ Advance("store", sigcount)
  /\ UNCHANGED <<caught, slow, pending, sent, here, shell>>

CatcherStore ==
  /\ CatcherAt("store")
  /\ sigcount' = Top.reg + 1
  /\ Advance("slow", 0)
  /\ UNCHANGED <<caught, slow, pending, sent, here, shell>>

\* catcher's end: back to what it interrupted, or to slowlabel, which leaves
\* every activation and gives the process its signal mask back.
CatcherEnd ==
  /\ CatcherAt("slow")
  /\ IF slow
     THEN catchers' = <<>> /\ pc' = "jumped"
     ELSE /\ catchers' = Front(catchers)
          /\ pc' = IF pc = "read" /\ Len(catchers) = 1 THEN "sigchk" ELSE pc    \* EINTR
  /\ UNCHANGED <<caught, sigcount, slow, pending, sent, here, blocked, sigeffect, hasforked, sig, reg, build>>

-----------------------------------------------------------------------------
\* The shell runs where no catcher does.
At(p) == catchers = <<>> /\ pending = {} /\ pc = p

Go(p) == pc' = p /\ UNCHANGED <<sig, reg>>

Interrupts == <<build, catchers, pending, sent>>

\* sigchk's first lines.
Sigchk ==
  /\ At("run") \/ At("sigchk")
  /\ \/ /\ sigcount = 0 \/ blocked > 0
        /\ Go("run")
        /\ pc = "sigchk"
     \/ /\ sigcount # 0 /\ blocked = 0
        /\ IF hasforked THEN Go("exit") ELSE pc' = "scan" /\ sig' = 0 /\ reg' = reg
  /\ UNCHANGED <<caught, sigcount, slow, blocked, sigeffect, hasforked, here, Interrupts>>

\* sigchk's loop reads caught[sig]; caught[0] is never set, and caught[NSIG]
\* does not exist.
Scan ==
  /\ At("scan")
  /\ \/ /\ sig \in Sig /\ caught[sig]
        /\ Go("count")
     \/ /\ ~(sig \in Sig /\ caught[sig])
        /\ sig < NSIG
        /\ sig' = sig + 1 /\ UNCHANGED <<pc, reg>>
  /\ UNCHANGED <<caught, sigcount, slow, blocked, sigeffect, hasforked, here, Interrupts>>

CountLoad_Reset ==                               \* mutant: the whole count is dropped
  /\ At("count")
  /\ sigcount' = 0
  /\ Go("clear")
  /\ UNCHANGED <<caught, slow, blocked, sigeffect, hasforked, here, Interrupts>>

\* --sigcount: the load and the store.
CountLoad ==
  /\ At("count")
  /\ IF build.atomic
     THEN sigcount' = sigcount - 1 /\ Go("clear")
     ELSE sigcount' = sigcount /\ pc' = "store" /\ reg' = sigcount /\ sig' = sig
  /\ UNCHANGED <<caught, slow, blocked, sigeffect, hasforked, here, Interrupts>>

CountStore_Forget ==                             \* mutant: the count stays
  /\ At("store")
  /\ Go("clear")
  /\ UNCHANGED <<caught, sigcount, slow, blocked, sigeffect, hasforked, here, Interrupts>>

CountStore ==
  /\ At("store")
  /\ sigcount' = reg - 1
  /\ Go("clear")
  /\ UNCHANGED <<caught, slow, blocked, sigeffect, hasforked, here, Interrupts>>

\* caught[sig] = 0, and the effect: a throw, or nothing.  Where the exception
\* goes, the shell works on.
Clear ==
  /\ At("clear")
  /\ caught' = [caught EXCEPT ![sig] = FALSE]
  /\ pc' = "run" /\ sig' = 0 /\ reg' = 0
  /\ UNCHANGED <<sigcount, slow, blocked, sigeffect, hasforked, here, Interrupts>>

\* A catcher of $&catch begins and ends; SIGCHK comes after its end.
Blocksignals ==
  /\ At("run") /\ blocked < MaxBlocked
  /\ blocked' = blocked + 1
  /\ UNCHANGED <<caught, sigcount, slow, sigeffect, hasforked, here, pc, sig, reg, Interrupts>>

Unblocksignals_Forget ==                         \* mutant: they stay blocked
  /\ At("run") /\ blocked > 0
  /\ Go("sigchk")
  /\ UNCHANGED <<caught, sigcount, slow, blocked, sigeffect, hasforked, here, Interrupts>>

Unblocksignals ==
  /\ At("run") /\ blocked > 0
  /\ blocked' = blocked - 1
  /\ Go("sigchk")
  /\ UNCHANGED <<caught, sigcount, slow, sigeffect, hasforked, here, Interrupts>>

\* esignal, as $&setsignals calls it.
Esignal(s, effect) ==
  /\ At("run") /\ ~hasforked
  /\ effect = "special" => s = 1
  /\ sigeffect' = [sigeffect EXCEPT ![s] = effect]
  /\ UNCHANGED <<caught, sigcount, slow, blocked, hasforked, here, pc, sig, reg, Interrupts>>

\* read of fdfill and read1: it ends, or a signal ends it, and SIGCHK follows.
Read == At("run") /\ Go("read")
        /\ UNCHANGED <<caught, sigcount, slow, blocked, sigeffect, hasforked, here, Interrupts>>

ReadEnd == At("read") /\ Go("sigchk")
           /\ UNCHANGED <<caught, sigcount, slow, blocked, sigeffect, hasforked, here, Interrupts>>

\* callreadline: setjmp, then slow = TRUE and readline, then slow = FALSE.
Setjmp == At("run") /\ build.readline /\ Go("setjmp")
          /\ UNCHANGED <<caught, sigcount, slow, blocked, sigeffect, hasforked, here, Interrupts>>

Readline == At("setjmp") /\ slow' = TRUE /\ Go("readline")
            /\ UNCHANGED <<caught, sigcount, blocked, sigeffect, hasforked, here, Interrupts>>

ReadlineEnd == At("readline") /\ Go("line")
               /\ UNCHANGED <<caught, sigcount, slow, blocked, sigeffect, hasforked, here, Interrupts>>

NotSlow_Late ==                                  \* mutant: slow is left on for SIGCHK
  /\ At("line") \/ At("jumped")
  /\ Go("sigchk")
  /\ UNCHANGED <<caught, sigcount, slow, blocked, sigeffect, hasforked, here, Interrupts>>

NotSlow == (At("line") \/ At("jumped")) /\ slow' = FALSE /\ Go("sigchk")
           /\ UNCHANGED <<caught, sigcount, blocked, sigeffect, hasforked, here, Interrupts>>

\* efork, from here on in the child: hasforked, then setsigdefaults.
Fork ==
  /\ At("run") /\ MayFork /\ ~hasforked
  /\ here' = FALSE
  /\ Go("forked")
  /\ UNCHANGED <<caught, sigcount, slow, blocked, sigeffect, hasforked, Interrupts>>

HasForked ==
  /\ At("forked")
  /\ hasforked' = TRUE
  /\ Go("child")
  /\ UNCHANGED <<caught, sigcount, slow, blocked, sigeffect, here, Interrupts>>

Setsigdefaults ==
  /\ At("child")
  /\ sigeffect' = [s \in Sig |-> IF Handled(s) THEN "default" ELSE sigeffect[s]]
  /\ Go("run")
  /\ UNCHANGED <<caught, sigcount, slow, blocked, hasforked, here, Interrupts>>

Ended == ~Alive /\ UNCHANGED vars

Catcher == CatcherEnter \/ CatcherLoad \/ CatcherStore \/ CatcherEnd

Kernel == \E s \in Sig : Send(s) \/ Deliver(s)

Delivery == Sigchk \/ Scan \/ CountLoad \/ CountStore \/ Clear

Shell ==
  \/ Blocksignals \/ Unblocksignals
  \/ \E s \in Sig, effect \in Effects : Esignal(s, effect)
  \/ Read \/ ReadEnd \/ Setjmp \/ Readline \/ ReadlineEnd \/ NotSlow
  \/ Fork \/ HasForked \/ Setsigdefaults

Next == Kernel \/ Catcher \/ Delivery \/ Shell \/ Ended

Spec == Init /\ [][Next]_vars

\* The shell runs on: it calls SIGCHK again and again, no catcher of $&catch
\* runs for ever, and what it reads comes in the end.
FairSpec ==
  Spec /\ WF_vars(\E s \in Sig : Deliver(s))
       /\ WF_vars(Catcher) /\ WF_vars(Delivery) /\ SF_vars(Unblocksignals)
       /\ WF_vars(HasForked \/ Setsigdefaults)
       /\ WF_vars(ReadEnd) /\ WF_vars(Readline \/ ReadlineEnd \/ NotSlow)

-----------------------------------------------------------------------------
TypeOK ==
  /\ build \in Builds
  /\ caught \in [Sig -> BOOLEAN]
  /\ sigcount \in Nat
  /\ blocked \in 0 .. MaxBlocked
  /\ sigeffect \in [Sig -> Effects]
  /\ slow \in BOOLEAN /\ hasforked \in BOOLEAN /\ here \in BOOLEAN
  /\ pc \in {"run", "sigchk", "scan", "count", "store", "clear", "read", "setjmp", "readline",
             "line", "jumped", "forked", "child", "exit", "killed"}
  /\ sig \in 0 .. NSIG /\ reg \in Nat
  /\ \A i \in DOMAIN catchers : catchers[i].sig \in Sig /\ catchers[i].reg \in Nat
  /\ pending \subseteq Sig
  /\ sent \in 0 .. MaxSent

\* However catchers, longjmps and the lost counts interleave, sigcount never
\* exceeds the signals noted: sigchk's loop, which reads caught[sig] before it
\* compares sig with NSIG, finds one inside the array.
ScanInBounds == pc = "scan" => sig < NSIG

\* slow is set only while callreadline's frame, the one slowlabel jumps to, is
\* there.
LabelLive == slow /\ Alive => pc \in {"readline", "line", "jumped"}

\* A signal noted by catcher is counted: while sigcount is zero sigchk throws
\* nothing, and catcher does not count a signal again that it noted before.
NotedAreCounted == At("run") /\ sigcount = 0 => \A s \in Sig : ~caught[s]

\* In a build where ++ and -- are one access, and no longjmp leaves catchers
\* that were interrupted before their ++, that is so.
Counted == build.atomic /\ ~build.readline => NotedAreCounted

\* There, a signal noted is taken out of caught by sigchk in the end, however
\* often it is sent again and however signals were blocked.
Raised ==
  build.atomic /\ ~build.readline =>
    \A s \in Sig : caught[s] ~> ~caught[s] \/ ~Alive

=============================================================================
