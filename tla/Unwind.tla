------------------------------- MODULE Unwind -------------------------------
(***************************************************************************)
(* Exceptions and dynamic scope: except.c, the ExceptionHandler macros of  *)
(* es.h, varpush, varpop, callsettor and vardef of var.c, $&catch, and the *)
(* handlers of eval (return) and of forloop (break).                       *)
(*                                                                         *)
(* A throw unwinds the pushed variables one by one before it jumps, and    *)
(* each of them may have a settor, es code that runs in the middle of the  *)
(* unwinding, may push, catch and throw itself, and whose own exception    *)
(* varpop throws again from there.  The model keeps the C stack, because   *)
(* handlers, pushes and rooted exceptions are linked through it: each of   *)
(* those lists holds addresses of C frames, here their heights.            *)
(***************************************************************************)
EXTENDS Integers, Sequences, SequencesExt

CONSTANTS
  Name,          \* the dynamic variables
  Zero,          \* the variable 0, which has no settor (specialvar)
  Value,         \* their values; NULL is the empty list
  FnName,        \* the value given to 0: the name of a function or variable
  Exc,           \* what may be thrown
  Setups,        \* what programs find: see setup
  MaxRoots,      \* bound: nothing is thrown with more roots or blocks than that
  NULL

Setup ==
  [settors      : SUBSET (Name \ {Zero}),  \* the variables x that have a set-x
   fail         : BOOLEAN,                 \* whether an error may leave a settor
   maxevaldepth : Nat,
   height       : Nat]                     \* bound: nothing is started on a higher stack

ASSUME NameAssumption == Zero \in Name
ASSUME ValueAssumption == FnName \in Value /\ NULL \notin Value
ASSUME SetupAssumption == Setups \subseteq Setup /\ MaxRoots \in Nat

VARIABLES
  setup,      \* one of Setups, for the whole behaviour
  stack,      \* the C frames, main first
  handlers,   \* tophandler and its chain, roothandler first
  pushes,     \* pushlist, its end first
  roots,      \* exceptionrootlist: the heights of the throw frames that hold the roots
  vars,       \* the variables' values
  evaldepth,
  blocked,    \* calls of blocksignals not yet undone
  mode,       \* "run", "caught": just jumped to a handler, "exit" or "abort"
  exception   \* the exception passed by longjmp

uvars ==
  <<setup, stack, handlers, pushes, roots, vars, evaldepth, blocked, mode, exception>>

Settors == setup.settors
MaxDepth == setup.maxevaldepth

-----------------------------------------------------------------------------
\* A frame: what it is doing, the name and value it works on, the exception it
\* carries, the handler it unwinds to, and the evals it has entered.
Frame(kind, name, val, exc, to, evals) ==
  [kind |-> kind, name |-> name, val |-> val, exc |-> exc, to |-> to, evals |-> evals]

NoHandler == [at |-> 0, pushlist |-> 0, evaldepth |-> 0]

Plain(kind, evals) == Frame(kind, Zero, NULL, NULL, NoHandler, evals)

Height == Len(stack)

Top == stack[Height]

\* The program's own code runs in the top frame.
Running ==
  /\ mode = "run"
  /\ Top.kind \in {"top", "call", "loop", "catch", "catcher", "local", "settor"}

Room == Height < setup.height

TopPush == IF pushes = <<>> THEN 0 ELSE Last(pushes).at

\* struct Handler, as ExceptionHandler fills it in frame at.
Handler(at, push, depth) == [at |-> at, pushlist |-> push, evaldepth |-> depth]

\* throw, up to its loop: the frames are stk, the chain of handlers is hs.
Raise(stk, hs, e) ==
  \/ /\ hs = <<>>                               \* assert(handler != NULL)
     /\ mode' = "abort"
     /\ stack' = stk
     /\ handlers' = hs
     /\ roots' = roots
  \/ /\ hs # <<>>
     /\ mode' = "run"
     /\ stack' = Append(stk, Frame("throw", Zero, NULL, e, Last(hs), 0))
     /\ handlers' = Front(hs)
     /\ roots' = Append(roots, Len(stk) + 1)

\* An error raised with the frames stk would leave the settor that one of them
\* waits for.  Where programs have no such error (setup.fail), none is raised.
Escapes(stk) ==
  \E i \in DOMAIN stk :
    /\ stk[i].kind \in {"push", "assign", "pop"}
    /\ \A j \in i .. Len(stk) : stk[j].kind \notin {"catch", "try"}

\* eval called with the frames stk and handlers hs: it may exceed
\* maxevaldepth, and fails before its own handler is there.
EnterEval(stk, hs, frame, handler) ==
  /\ evaldepth' = evaldepth + 1
  /\ \/ /\ evaldepth + 1 >= MaxDepth
        /\ setup.fail \/ ~Escapes(stk)
        /\ Raise(Append(stk, Plain("dead", 1)), hs, "error")
     \/ /\ evaldepth + 1 < MaxDepth
        /\ stack' = Append(stk, frame)
        /\ handlers' = handler
        /\ UNCHANGED <<roots, mode>>

Pushed(at, x) == Append(pushes, [at |-> at, name |-> x, defn |-> vars[x]])

\* callsettor(x): push 0, call the settor.
CallSettor(stk, hs, x) ==
  LET at == Len(stk) + 1 IN
  /\ pushes' = Pushed(at, Zero)
  /\ vars' = [vars EXCEPT ![Zero] = FnName]
  /\ EnterEval(stk, hs, Frame("settor", x, NULL, NULL, NoHandler, 1),
               Append(hs, Handler(at, at, evaldepth + 1)))

\* A variable operation with value v in a new frame: call the settor of x, or
\* go on with v at once.  In the frame of kind wait a settor is running.
WithSettor(stk, hs, wait, go, x, v) ==
  \/ /\ x \in Settors
     /\ CallSettor(Append(stk, Frame(wait, x, v, NULL, NoHandler, 0)), hs, x)
  \/ /\ x \notin Settors
     /\ stack' = Append(stk, Frame(go, x, v, NULL, NoHandler, 0))
     /\ handlers' = hs
     /\ UNCHANGED <<pushes, roots, vars, evaldepth, mode>>

\* varpop of the last push, in the frames of stack.  The handler around
\* callsettor is left out where there is no settor to call.
StartPop ==
  LET p == Last(pushes)
      h == IF p.name \in Settors
           THEN Append(handlers, Handler(Height + 1, TopPush, evaldepth))
           ELSE handlers
  IN  WithSettor(stack, h, "pop", "restore", p.name, p.defn)

Return(n) == SubSeq(stack, 1, Height - n)

-----------------------------------------------------------------------------
Init ==
  /\ setup \in Setups
  /\ stack     = <<Plain("top", 0)>>
  /\ handlers  = <<Handler(1, 0, 0)>>
  /\ pushes    = <<>>
  /\ roots     = <<>>
  /\ vars      = [x \in Name |-> NULL]
  /\ evaldepth = 0
  /\ blocked   = 0
  /\ mode      = "run"
  /\ exception = NULL

\* eval of a lambda: a handler for return, and, if it was called by its name,
\* a push of 0.
Call(named) ==
  /\ Running /\ Room
  /\ LET at == Height + 1 IN
     /\ EnterEval(stack, handlers, Frame("call", Zero, NULL, NULL, NoHandler, 1),
                  Append(handlers, Handler(at, TopPush, evaldepth + 1)))
     /\ IF named /\ evaldepth + 1 < MaxDepth
        THEN pushes' = Pushed(at, Zero) /\ vars' = [vars EXCEPT ![Zero] = FnName]
        ELSE UNCHANGED <<pushes, vars>>
  /\ UNCHANGED <<blocked, exception, setup>>

\* mutant: the old value does not come back
PopZero_Forget ==
  IF TopPush = Height THEN vars' = vars /\ pushes' = Front(pushes)
                      ELSE UNCHANGED <<vars, pushes>>

\* varpop of 0, when its push is the frame's: there is no settor.
PopZero ==
  IF TopPush = Height
  THEN /\ vars' = [vars EXCEPT ![Zero] = Last(pushes).defn]
       /\ pushes' = Front(pushes)
  ELSE UNCHANGED <<vars, pushes>>

CallEnd ==
  /\ Running /\ Top.kind = "call"
  /\ PopZero
  /\ stack' = Return(1)
  /\ handlers' = Front(handlers)
  /\ evaldepth' = evaldepth - 1
  /\ UNCHANGED <<roots, blocked, mode, exception, setup>>

\* forloop's handler, around all the iterations.
Loop ==
  /\ Running /\ Room
  /\ stack' = Append(stack, Plain("loop", 0))
  /\ handlers' = Append(handlers, Handler(Height + 1, TopPush, evaldepth))
  /\ UNCHANGED <<pushes, roots, vars, evaldepth, blocked, mode, exception, setup>>

LoopEnd_KeepHandler ==                          \* mutant: no pophandler
  /\ Running /\ Top.kind = "loop"
  /\ stack' = Return(1)
  /\ UNCHANGED <<handlers, pushes, roots, vars, evaldepth, blocked, mode, exception, setup>>

LoopEnd ==
  /\ Running /\ Top.kind = "loop"
  /\ stack' = Return(1)
  /\ handlers' = Front(handlers)
  /\ UNCHANGED <<pushes, roots, vars, evaldepth, blocked, mode, exception, setup>>

\* local x = v
Local(x, v) ==
  /\ Running /\ Room
  /\ WithSettor(stack, handlers, "push", "bind", x, v)
  /\ UNCHANGED <<blocked, exception, setup>>

\* The rest of varpush.
Bind ==
  /\ mode = "run" /\ Top.kind = "bind"
  /\ pushes' = Pushed(Height, Top.name)
  /\ vars' = [vars EXCEPT ![Top.name] = Top.val]
  /\ stack' = Append(Return(1), Frame("local", Top.name, NULL, NULL, NoHandler, 0))
  /\ UNCHANGED <<handlers, roots, evaldepth, blocked, mode, exception, setup>>

LocalEnd_KeepPush ==                            \* mutant: no varpop
  /\ Running /\ Top.kind = "local"
  /\ stack' = Return(1)
  /\ UNCHANGED <<handlers, pushes, roots, vars, evaldepth, blocked, mode, exception, setup>>

\* localbind calls varpop.
LocalEnd ==
  /\ Running /\ Top.kind = "local"
  /\ StartPop
  /\ UNCHANGED <<blocked, exception, setup>>

\* x = v
Assign(x, v) ==
  /\ Running /\ Room
  /\ WithSettor(stack, handlers, "assign", "store", x, v)
  /\ UNCHANGED <<blocked, exception, setup>>

\* The rest of vardef.
Store ==
  /\ mode = "run" /\ Top.kind = "store"
  /\ vars' = [vars EXCEPT ![Top.name] = Top.val]
  /\ stack' = Return(1)
  /\ UNCHANGED <<handlers, pushes, roots, evaldepth, blocked, mode, exception, setup>>

\* What the operation below a settor does with what it returned.
After(kind) ==
  CASE kind = "push" -> "bind" [] kind = "assign" -> "store" [] kind = "pop" -> "restore"

\* callsettor pops 0 and returns v; the handler that varpop had is popped.
SettorValue(v) ==
  LET below == stack[Height - 1] IN
  /\ PopZero
  /\ stack' = Append(Return(2), [below EXCEPT !.kind = After(below.kind), !.val = v])
  /\ evaldepth' = evaldepth - 1

SettorEnd(v) ==
  /\ Running /\ Top.kind = "settor"
  /\ SettorValue(v)
  /\ handlers' = IF stack[Height - 1].kind = "pop" THEN Front(Front(handlers))
                                                   ELSE Front(handlers)
  /\ UNCHANGED <<roots, blocked, mode, exception, setup>>

\* The rest of varpop: give the variable its value back, and throw on what the
\* settor threw.
Restore ==
  /\ mode = "run" /\ Top.kind = "restore"
  /\ vars' = [vars EXCEPT ![Top.name] = Top.val]
  /\ pushes' = Front(pushes)
  /\ \/ /\ Top.exc # NULL
        /\ Raise(Return(1), handlers, Top.exc)
     \/ /\ Top.exc = NULL
        /\ stack' = IF stack[Height - 1].kind = "local" THEN Return(2) ELSE Return(1)
        /\ UNCHANGED <<handlers, roots, mode>>
  /\ UNCHANGED <<evaldepth, blocked, exception, setup>>

\* $&catch: do ...
Catch ==
  /\ Running /\ Room
  /\ EnterEval(stack, handlers, Plain("try", 1), handlers)
  /\ UNCHANGED <<pushes, vars, blocked, exception, setup>>

\* ... the handler, and eval of the body.
CatchBody ==
  /\ mode = "run" /\ Top.kind = "try"
  /\ evaldepth' = evaldepth + 1
  /\ LET stk == Append(Return(1), Plain("catch", 2))
         hs  == Append(handlers, Handler(Height, TopPush, evaldepth))
     IN  \/ /\ evaldepth + 1 >= MaxDepth
            /\ Raise(stk, hs, "error")
         \/ /\ evaldepth + 1 < MaxDepth
            /\ stack' = stk
            /\ handlers' = hs
            /\ UNCHANGED <<roots, mode>>
  /\ UNCHANGED <<pushes, vars, blocked, exception, setup>>

CatchEnd ==
  /\ Running /\ Top.kind = "catch"
  /\ stack' = Return(1)
  /\ handlers' = Front(handlers)
  /\ evaldepth' = evaldepth - 2
  /\ UNCHANGED <<pushes, roots, vars, blocked, mode, exception, setup>>

CatcherEnd ==
  /\ Running /\ Top.kind = "catcher"
  /\ stack' = Return(1)
  /\ handlers' = Front(handlers)
  /\ evaldepth' = evaldepth - 1
  /\ blocked' = blocked - 1
  /\ UNCHANGED <<pushes, roots, vars, mode, exception, setup>>

\* $&throw, or a primitive that fails.
Throw(e) ==
  /\ Running
  /\ setup.fail \/ e = "return" \/ ~Escapes(stack)
  /\ Len(roots) < MaxRoots /\ blocked < MaxRoots
  /\ Raise(stack, handlers, e)
  /\ UNCHANGED <<pushes, vars, evaldepth, blocked, exception, setup>>

\* throw's loop.
UnwindPush ==
  /\ mode = "run" /\ Top.kind = "throw"
  /\ TopPush # Top.to.pushlist
  /\ StartPop
  /\ UNCHANGED <<blocked, exception, setup>>

Jump_KeepDepth ==                               \* mutant: evaldepth stays
  /\ mode = "run" /\ Top.kind = "throw"
  /\ TopPush = Top.to.pushlist
  /\ roots' = Front(roots)
  /\ evaldepth' = evaldepth
  /\ exception' = Top.exc
  /\ stack' = [i \in 1 .. Top.to.at |->
                 IF i = Top.to.at /\ stack[i].kind = "catch"
                 THEN [stack[i] EXCEPT !.evals = 1]
                 ELSE stack[i]]
  /\ mode' = "caught"
  /\ UNCHANGED <<handlers, pushes, vars, blocked, setup>>

Jump_KeepRoot ==                                \* mutant: no exceptionunroot
  /\ mode = "run" /\ Top.kind = "throw"
  /\ TopPush = Top.to.pushlist
  /\ roots' = roots
  /\ evaldepth' = Top.to.evaldepth
  /\ exception' = Top.exc
  /\ stack' = [i \in 1 .. Top.to.at |->
                 IF i = Top.to.at /\ stack[i].kind = "catch"
                 THEN [stack[i] EXCEPT !.evals = 1]
                 ELSE stack[i]]
  /\ mode' = "caught"
  /\ UNCHANGED <<handlers, pushes, vars, blocked, setup>>

\* The end of throw: longjmp.
Jump ==
  /\ mode = "run" /\ Top.kind = "throw"
  /\ TopPush = Top.to.pushlist
  /\ roots' = Front(roots)
  /\ evaldepth' = Top.to.evaldepth
  /\ exception' = Top.exc
  /\ stack' = [i \in 1 .. Top.to.at |->
                 IF i = Top.to.at /\ stack[i].kind = "catch"
                 THEN [stack[i] EXCEPT !.evals = 1]
                 ELSE stack[i]]
  /\ mode' = "caught"
  /\ UNCHANGED <<handlers, pushes, vars, blocked, setup>>

Caught(kind) == mode = "caught" /\ Top.kind = kind

\* A handler that throws the exception on: its frame only waits to be left.
Rethrow == Raise(Append(Return(1), [Top EXCEPT !.kind = "dead"]), handlers, exception)

\* eval's handler for return.
CallCaught ==
  /\ Caught("call")
  /\ \/ /\ exception = "return"
        /\ stack' = Return(1)
        /\ evaldepth' = evaldepth - 1
        /\ mode' = "run"
        /\ UNCHANGED <<handlers, roots>>
     \/ /\ exception # "return"
        /\ Rethrow
        /\ UNCHANGED evaldepth
  /\ UNCHANGED <<pushes, vars, blocked, exception, setup>>

\* The same handler, of the eval that callsettor made; what the return
\* carries is the settor's value.
SettorCaught ==
  /\ Caught("settor")
  /\ \/ /\ exception = "return"
        /\ \E v \in Value \cup {NULL} : SettorValue(v)
        /\ handlers' = IF stack[Height - 1].kind = "pop" THEN Front(handlers) ELSE handlers
        /\ mode' = "run"
        /\ UNCHANGED roots
     \/ /\ exception # "return"
        /\ Rethrow
        /\ UNCHANGED <<evaldepth, pushes, vars>>
  /\ UNCHANGED <<blocked, exception, setup>>

LoopCaught ==
  /\ Caught("loop")
  /\ \/ /\ exception = "break"
        /\ stack' = Return(1)
        /\ mode' = "run"
        /\ UNCHANGED <<handlers, roots>>
     \/ /\ exception # "break"
        /\ Rethrow
  /\ UNCHANGED <<pushes, vars, evaldepth, blocked, exception, setup>>

\* varpop's handler: the old value stays, the exception is thrown later.
PopCaught ==
  /\ Caught("pop")
  /\ stack' = Append(Return(1), [Top EXCEPT !.kind = "restore", !.exc = exception])
  /\ mode' = "run"
  /\ UNCHANGED <<handlers, pushes, roots, vars, evaldepth, blocked, exception, setup>>

CatchCaught_NoHandler ==                        \* mutant: the catcher runs unguarded
  /\ Caught("catch")
  /\ blocked' = blocked + 1
  /\ stack' = Append(Return(1), Plain("catcher", 1))
  /\ mode' = "run"
  /\ UNCHANGED <<handlers, pushes, roots, vars, evaldepth, exception, setup>>

\* $&catch's handler: the catcher runs with signals blocked, under a handler.
CatchCaught ==
  /\ Caught("catch")
  /\ blocked' = blocked + 1
  /\ handlers' = Append(handlers, Handler(Height, TopPush, evaldepth))
  /\ stack' = Append(Return(1), Plain("catcher", 1))
  /\ mode' = "run"
  /\ UNCHANGED <<pushes, roots, vars, evaldepth, exception, setup>>

CatcherCaught_NoUnblock ==                      \* mutant: the retry forgets it
  /\ Caught("catcher")
  /\ \/ /\ exception = "retry"
        /\ blocked' = blocked
        /\ stack' = Append(Return(1), Plain("try", 1))
        /\ mode' = "run"
        /\ UNCHANGED <<handlers, roots>>
     \/ /\ exception # "retry"
        /\ blocked' = blocked - 1
        /\ Rethrow
  /\ UNCHANGED <<pushes, vars, evaldepth, exception, setup>>

\* The catcher's handler: retry, or throw on.
CatcherCaught ==
  /\ Caught("catcher")
  /\ blocked' = blocked - 1
  /\ \/ /\ exception = "retry"
        /\ stack' = Append(Return(1), Plain("try", 1))
        /\ mode' = "run"
        /\ UNCHANGED <<handlers, roots>>
     \/ /\ exception # "retry"
        /\ Rethrow
  /\ UNCHANGED <<pushes, vars, evaldepth, exception, setup>>

\* main's handler: the shell ends.
TopCaught ==
  /\ Caught("top")
  /\ mode' = "exit"
  /\ UNCHANGED <<stack, handlers, pushes, roots, vars, evaldepth, blocked, exception, setup>>

Ended == mode \in {"exit", "abort"} /\ UNCHANGED uvars

Program ==
  \/ \E named \in BOOLEAN : Call(named)
  \/ \E x \in Name \ {Zero}, v \in Value \cup {NULL} : Local(x, v) \/ Assign(x, v)
  \/ \E e \in Exc : Throw(e)
  \/ \E v \in Value \cup {NULL} : SettorEnd(v)
  \/ Loop \/ Catch
  \/ CallEnd \/ LoopEnd \/ LocalEnd \/ CatchEnd \/ CatcherEnd

Machinery ==
  \/ Bind \/ Store \/ Restore \/ CatchBody \/ UnwindPush \/ Jump
  \/ CallCaught \/ SettorCaught \/ LoopCaught \/ PopCaught
  \/ CatchCaught \/ CatcherCaught \/ TopCaught

Next == Program \/ Machinery \/ Ended

Spec == Init /\ [][Next]_uvars

-----------------------------------------------------------------------------
Kinds == {"top", "call", "loop", "try", "catch", "catcher", "local", "settor", "push",
          "assign", "pop", "bind", "store", "restore", "throw", "dead"}

IsHandler(h) ==
  /\ DOMAIN h = {"at", "pushlist", "evaldepth"}
  /\ h.at \in Nat /\ h.pushlist \in Nat /\ h.evaldepth \in Nat

TypeOK ==
  /\ setup \in Setups
  /\ stack # <<>>
  /\ \A i \in DOMAIN stack :
       /\ stack[i].kind \in Kinds
       /\ stack[i].name \in Name
       /\ stack[i].val \in Value \cup {NULL}
       /\ stack[i].exc \in Exc \cup {NULL, "error"}
       /\ IsHandler(stack[i].to)
       /\ stack[i].evals \in 0 .. 2
  /\ \A i \in DOMAIN handlers : IsHandler(handlers[i])
  /\ \A i \in DOMAIN pushes : /\ pushes[i].at \in Nat \ {0}
                              /\ pushes[i].name \in Name
                              /\ pushes[i].defn \in Value \cup {NULL}
  /\ roots \in Seq(Nat \ {0})
  /\ vars \in [Name -> Value \cup {NULL}]
  /\ evaldepth \in 0 .. MaxDepth + Height
  /\ blocked \in Nat
  /\ mode \in {"run", "caught", "exit", "abort"}
  /\ exception \in Exc \cup {NULL, "error"}

Rising(s) == \A i, j \in DOMAIN s : i < j => s[i].at < s[j].at

\* Frames whose handler, if it is still in the chain, is meant to be reached.
Armed == {"top", "call", "loop", "catch", "catcher", "settor", "pop"}

\* What a handler saved of pushlist is still in it, and is what was on top
\* when the handler was made: the loop of throw will come to its end there.
SavedPush(h) ==
  /\ h.pushlist = 0 \/ \E i \in DOMAIN pushes : pushes[i].at = h.pushlist
  /\ \A i \in DOMAIN pushes : ~(h.pushlist < pushes[i].at /\ pushes[i].at < h.at)

\* The assertion of pophandler: a frame that ends normally ends its own handler.
PopsOwnHandler ==
  Running /\ Top.kind \in Armed => handlers # <<>> /\ Last(handlers).at = Height

\* longjmp never leaves an address of a frame it discarded in tophandler's
\* chain or in pushlist, and both have the order of the stack.
ListsLive ==
  /\ Rising(handlers)
  /\ \A i \in DOMAIN handlers : /\ handlers[i].at <= Height
                                /\ stack[handlers[i].at].kind \in Armed
                                /\ SavedPush(handlers[i])
  /\ Rising(pushes)
  /\ \A i \in DOMAIN pushes : pushes[i].at <= Height
  /\ Top.kind = "throw" => SavedPush(Top.to)
  /\ PopsOwnHandler

\* The evals that the first n of the frames stk have entered and not left.
EvalsIn(stk, n) == {e \in (1 .. n) \X (1 .. 2) : e[2] <= stk[e[1]].evals}

\* evaldepth is the number of evals entered and not left, after any number of
\* jumps: it neither creeps up to maxevaldepth nor runs below zero.
EvalDepthExact == evaldepth = Cardinality(EvalsIn(stack, Height))

\* Whether no settor can fail: what follows relies on that.
NoSettorFails == setup.settors = {} \/ ~setup.fail

\* No jump leaves anything behind: exceptionrootlist holds the roots of the throws
\* in progress and no other, signals are blocked as often as catchers are running.
NothingLeft ==
  NoSettorFails =>
    /\ \A i, j \in DOMAIN roots : i < j => roots[i] < roots[j]
    /\ {roots[i] : i \in DOMAIN roots} = {i \in 1 .. Height : stack[i].kind = "throw"}
    /\ blocked = Cardinality({i \in 1 .. Height : stack[i].kind = "catcher"})

\* An exception goes to the innermost handler around the code that raised it:
\* throw passes over no frame that waits for one.
GoesInnermost ==
  \A i \in 1 .. Height : stack[i].kind = "throw" =>
    \A j \in stack[i].to.at + 1 .. i : stack[j].kind \notin Armed

\* It does, where no settor fails, and there always is one, as throw asserts.
InnermostCatches == NoSettorFails => GoesInnermost /\ mode # "abort"

\* The value that push i gave its variable: it is in the next push of the name,
\* or in vars.
ScopeValue(x, i) ==
  LET later == {j \in i + 1 .. Len(pushes) : pushes[j].name = x}
  IN  IF later = {} THEN vars[x]
      ELSE pushes[CHOOSE j \in later : \A l \in later : j <= l].defn

\* Shallow binding is deep binding: through pushes, settors, throws and
\* catches, vars and pushlist are the nest of scopes that local promises.
Scope == INSTANCE DynScope WITH
  settors <- Settors,
  base   <- [x \in Name |-> ScopeValue(x, 0)],
  scopes <- [i \in DOMAIN pushes |->
               [name |-> pushes[i].name, value |-> ScopeValue(pushes[i].name, i)]]

RefinesScopes == Scope!Spec

=============================================================================
