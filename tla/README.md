# Verification of the es shell

TLA+ modules of es, the extensible shell in this repository, with the TLC
configurations that check them and the TLAPS proofs about them. The modules
are translated from the C sources; names of definitions are those of the
functions and variables wherever TLA+ allows it, and `PROJECT.json` names for
each definition the lines that it stands for.

1. [The system](#1-the-system)
2. [The modules](#2-the-modules)
3. [The runs](#3-the-runs)
4. [Fairness](#4-fairness)
5. [What is proved](#5-what-is-proved)
6. [Disagreements of code and documents](#6-disagreements-of-code-and-documents)
7. [What is not modelled](#7-what-is-not-modelled)
8. [Plan](#8-plan)

## 1. The system

es is one process, single-threaded, that reads commands, parses them to trees
and evaluates the trees. What makes it hard is not parallelism but re-entry:
nearly every place in the shell may call es code (settors, `%`-hooks, catchers,
`%prompt`), any es code may throw, a throw is a `longjmp` over C frames whose
addresses are linked into global lists, signals come between any two memory
accesses, and any allocation may move every object. Children run
concurrently and share descriptors with the shell.

| component | state it keeps | operations | what is hard, and what makes it correct |
|---|---|---|---|
| dictionaries (`dict.c`) | slots, tombstones, `remain` | `dictget`, `dictput`, growth | the counter is kept by hand, probes end only at an empty slot, removal turns marks back into empty slots; it must be the map it promises to be |
| exceptions (`except.c`, `es.h`) | `tophandler`, `exceptionrootlist`, `rootlist` | `ExceptionHandler`, `throw`, `pophandler` | lists of addresses of C frames, a throw within a throw; every address is live, each exception reaches the innermost handler |
| dynamic scope (`var.c`) | `pushlist`, variables | `varpush`, `varpop`, `vardef`, `callsettor` | settors are es code that runs in the middle of binding and unwinding; scopes nest as if it did not |
| evaluator (`eval.c`, `glom.c`) | `evaldepth`, shared lists | `eval`, `walk`, `glom`, assignments, loops | lists are glued in place and bound without copies; depth must be exact on every exit |
| signals (`signal.c`) | `caught`, `sigcount`, `blocked`, `slow` | `catcher`, `sigchk`, blocking, `setsigdefaults` | interrupts between any two accesses, `longjmp` out of a handler, forks; no signal is lost, no frame is jumped to that is gone |
| environment (`var.c`, `conv.c`) | `isdirty`, `rebound`, `var->env`, `sortenv`, `noexport` | `mkenv`, `initenv`, everything that changes a variable | three caches with two global marks; a command gets the variables as they are |
| descriptors (`fd.c`, `prim-io.c`) | `deftab`, `reserved`, the kernel's table | deferral, `releasefd`, `mvfd`, `fdmap`, pipes | redirections are performed only in the child, in an order in which numbers collide; each command meets the files that it was given |
| processes (`proc.c`) | `proclist` | `efork`, `reap`, `ewait`, `$&apids` | children end in any order, pids are used again; each construct gets its own child |
| input (`input.c`, `heredoc.c`, `prim-etc.c`) | stack of sources, `error`, `hereq`, `ignoreeof` | `runinput`, `parse`, `fdfill`, `get`/`unget`, here documents | globals that an exception may leave set; each source is left by its own activation, only whole commands run |
| collector (`gc.c`) | spaces, root list, `gcblocked`, `minspace` | `gcalloc`, `gc`, `scanspace`, `gcenable` | several spaces at once; nothing reachable is lost, every call returns |
| matching (`match.c`) | – | `~`, `~~` | one place to come back to, extraction repeats the match |
| options (`opt.c`) | a parse left over in globals | `esoptbegin`, `esopt`, `esoptarg`, `esoptend` | each ending must leave the state in which the next call can begin |
| encoding (`conv.c`, `var.c`) | – | `%F`, `%W`, `%N`, `importvar` | reading back what was written, within the string |
| splitting (`split.c`) | field, list and separator table in statics | `startsplit`, `stepsplit`, `endsplit` | pieces are cut anywhere, the table is kept |
| globbing (`glob.c`) | static buffers | `glob`, `glob0`, `glob1` | cells of a list are linked anew in place |
| lexer (`token.c`) | `w`, `newline`, `dollar`, `goterror`, `lineno` between tokens | `yylex`, `scanerror`, `getfds`, `inityy` | free carets depend on the token before, an exception may leave at any character; what a parse gets depends on its text alone |
| grammar (`parse.y`), rewriting (`syntax.c`, `tree.c`) | trees, changed in place | `redirect`, `redirappend`, `mkseq`, `mkpipe`, `mkmatch`, `rewriteinfix` | redirections wait in front of a tree and are filled in later, lists grow in place; a tree runs what was written |
| arithmetic (`prim-math.c`) | – | 28 primitives | widths, division at the edges, words that `strtol` and `strtod` read differently |
| start-up and dump (`main.c`, `dump.c`, `initial.es`), history, utilities | – | – | sequential |

How they interact: `eval` calls primitives, which fork (`proc.c`), redirect
(`fd.c`), bind (`var.c`) and throw (`except.c`); `varpush`, `varpop` and
`vardef` call settors through `eval`; `forkexec` asks `mkenv` for the
environment; every loop and every `eval` asks `sigchk`, which throws; `throw`
calls `varpop`; whatever allocates may run the collector, which finds roots
through lists that the exceptions maintain; `parse` calls `get`, which may run
`%prompt`-like hooks and `sigchk`, and so may throw out of the parser.

## 2. The modules

| module | models | state and actions |
|---|---|---|
| `DictMap` | what a dictionary promises | one function, changed by `Put` and `Remove` |
| `Dict` | `dict.c` | a slot at a time: `Call` (replace, insert, or begin to grow), `Loop` (the copy into the new table, the scan and walk back of `rm`), `DictputRemove`; a probe is one condition |
| `DynScope` | what scopes promise | bindings that nest, whatever runs in between |
| `Unwind` | `except.c`, the handler macros, `varpush`/`varpop`/`callsettor`/`vardef`, `$&catch`, the handlers of `eval` and `forloop` | an explicit C stack; handlers, pushes and roots are heights in it. `Program` is what code may start or end at the top of the stack, `Machinery` the steps of throws, jumps, settors and catchers |
| `Signals` | `signal.c` with the blocking reads of `input.c` | the shell's steps and each activation of `catcher`, one memory access at a time; `build` says whether `++` and `--` of `sigcount` are one access, and whether lines come from readline |
| `Env` | `mkenv`, `mkenv0`, `initenv`, the marks | variables with their kept strings, the vector, the stack of scopes and of settors that run; `Mkenv` is a command, `Collect` drops closures' sharing, the others are assignments, scopes, `$noexport`, and `initenv`'s settors (`Import`, `ImportEnd`), which may remove the variable whose settor it waits for (a frame `lost`) or has yet to call (`dead`: it reads through NULL) |
| `Fds` | `fd.c` and its callers in `prim-io.c`, `prim-sys.c` | the kernel's table, `deftab`, the registered numbers; beside them `view`, what the program asked for. A fork continues as the child; a pipeline has any length, as its read ends take turns at the two lowest free numbers (`Inpipes`) |
| `Proc` | `proc.c` and what waits | kernel's children, `proclist`, constructs that run, jobs that nobody waited for; `Abandon` leaves a construct after its fork and before its wait, as `getnumber` and a settor can |
| `Inbuf`, `CharStream` | `get`, `unget`, `fdfill` and the history line | buffers set aside by pushback; `CharStream` is the plain sequence that they promise |
| `Input` | `runinput`, `parse`, the loops of `prim-etc.c` and `initial.es`, `heredoc.c` | activations with their sources; text in chunks, each being what there is of a line |
| `Gc` | new space, `gcalloc`, `gc`, `scanspace`, `gcenable` | objects keep names; a copy whose pointers have been forwarded is in `done` |
| `Opt` | `opt.c` with the loops of `access`, `.` and `main` | the globals of the parse and the call that uses them. A lone dash has what lies behind it in memory for its letters, and the assertion of `esoptbegin` is an outcome (`Abort`) |
| `Match` | `match.c` | a round of the loops of `match` and `extractsinglematch` at a time. Where extraction asks `match` about a rest, all rounds of that loop are taken at once (`Rounds`) |
| `Envcode` | `%F`, `%W` of `conv.c`, `%N`, `importvar` | write, then read back by characters and escapes |
| `Split` | `split.c` and its three callers | the statics and the piece that is read |
| `Subscript` | `subscript` of `glom.c` | one subscript per step |
| `Glom` | `glom1`, `glom2`, `concat`, `qconcat`, `glob0`, and `assign`, `letbindings`, `forloop`, `bindargs` | a heap of list cells: evaluation goes from heap to heap, so that a list that two hold and one changes is seen by both |
| `Lexer` | `yylex`, `scanerror`, `getfds`, `inityy` of `token.c` | a character per step, what comes as one sequence that may be pushed back to; `Thrown` leaves at any read, `Parse` begins again; the reference `Tokens` goes over the text by its prefixes |
| `Syntax` | the reductions of commands in `parse.y` with the functions of `syntax.c` that they call | a stack of commands, each with its tree and with what it means; a reduction takes some from the top and pushes one. Meanings are made from what was written, and `Norm` reads them off the trees |
| `Infix` | `rewriteinfix` and the four levels below it, `arithword` of `parse.y` | one command per behaviour, its words as `arithword` leaves them |
| `Arith` | `prim-math.c` | one call per behaviour; a word is the numbers that `strtol` and `strtod` make of it, and the end of the shell by a panic or a signal is an outcome |
| `MC…` | instances for TLC | values of the constants. `MCStore` brings together `Dict` and `Gc`, `MCReading` `Signals` and `Input`, `MCVars` `Env` and `Unwind`, `MCText` the eleven sequential modules; of those one runs in each behaviour (`which`), and the others wait where they begin |
| `DictState`, `EnvState`, `InputState` | the constants and variables of `Dict`, `Env` and `Input`, and what must be true of them; a component and its proofs extend it, and so does the MC module that instantiates the component beside another one, so that the run and the theorem state the same formula |
| `Dict_proofs`, `Env_proofs`, `Signals_proofs`, `Proc_proofs`, `Input_proofs`, `Unwind_proofs`, `Fds_proofs`, `Gc_proofs` | theorems | see section 5 |

`Unwind` composes exceptions, scopes, the depth counter and the catchers'
blocking, since a throw touches all of them; `Input` composes sources, parser
state and evaluation loops; `Fds` and `Proc` divide a fork: what the child
inherits, and what the parent waits for.

Most modules state their types as `TypeOK`. The runs `store` and `text` check it
as a part of their properties; in the others it was checked with the same
instance and is where a proof of that module starts.

## 3. The runs

Each run checks what its `cfg` lists. All bounds are constants or named in the
guards. Deadlock is checked except where a behaviour may end or where a
collector that has nothing to do stops (`store`, `gc_scan`, `text`, and the
three runs of violations that share its module, which say so in their `cfg`).

| run | properties | states |
|---|---|---|
| `store` | of `Dict`: `RemainExact`, `Reachable`, `RefinesMap` (implements `DictMap`), `DictCallsEnd`; of `Gc`: `NothingLost` (and no space is overfilled), `OneSpaceUpToDate`, `CallsEnd` | 362 thousand |
| `vars` | of `Unwind`: `ListsLive`, `EvalDepthExact`, `NothingLeft`, `InnermostCatches`, `RefinesScopes` (implements `DynScope`); of `Env`: `EnvFresh`, `EntriesFresh`, `NothingLeaks` | 1.9 million |
| `reading` | of `Signals`: `ScanInBounds`, `LabelLive`, `Counted`, `Raised`; of `Input`: `OwnSource`, `ParserClean`, `RunsWhole`, `EofEnds` | 350 thousand |
| `fds` | `CommandGets`, `BuiltinGets`, `Accounted`, `NewfdFree` | 131 thousand |
| `proc` | `ListExact`, `WaitsForOwn`, `ApidsExact`, `ConstructsEnd` | 418 thousand |
| `text` | `StreamSpec` (implements `CharStream`), `ParseRight`, `MatchRight`, `ReadsBack`, `SplitRight`, `WordsRight`, `LexRight`, `RewriteRight`, `ArithRight` | 1.0 million |
| `unwind_skip` | violated: `GoesInnermost` | |
| `signals_lost` | violated: `NotedAreCounted` | |
| `gc_scan` | violated: `UpToDate` | |
| `opt_assert` | violated: `NoMessageLeft` | |
| `infix_words` | violated: `OperatorsFound` | |
| `math_double` | violated: `DoublesReturn` | |

Bounds, and why they are enough for the cases that matter:

* **store**, the table: four names whose homes are 7, 15 (the same slot in a table of 8),
  6 and 3, so that probes collide, wrap past the end and cross marks; two
  values; tables of 2, 4 and 8, so that growth happens twice, with marks in
  the old table or without.
* **vars**, scopes and exceptions: one variable besides `$0`, three setups: no settor (frames of
  height 5, `maxevaldepth` 4, so that the limit is hit); a settor that lets
  nothing out (height 5); a settor that may throw, catch and bind (height 4,
  depth 6). Three roots: a throw within a settor within a throw within
  another. Properties about which handler catches, and about roots and
  blocking, are stated where no settor fails: the other case is
  `unwind_skip` and section 6.
* **reading**, signals: two signals, three times sent, so that a catcher interrupts
  another and a third comes while one is raised; one level of `blocksignals`; all four
  builds; one fork. `Counted` and `Raised` are stated for builds in which
  `sigcount` changes in one access and lines are not read by readline, since
  in others they fail (`signals_lost`).
* **vars**, the environment: `x` and `z` have settors, are imported and may be
  removed, also by each other's settor; `z` is hidden and shown, bound by local
  and set by `setenv` too; `y` is one of `initial.es`'s, and bound by local; two
  levels of scopes and settors; two values of the lexical cell. Steps keep to
  the four rules of `Orderly`, each of which is about one step: while `varpush`,
  `varpop` or `initenv` waits for a settor, the vector is not made; what a settor
  returns to the last two has a closure's flag if it is a closure; a closure with
  a string does not come off `$noexport`; and `setenv` is called where the vector
  is to be made anyway, or for a hidden name. Without each of these `EnvFresh` or
  `EntriesFresh` fails (section 6). The settors of `initial.es` keep to the first
  two: they run no external command, and return no closure. `NothingLeaks` is
  proved without them.
* **fds**: descriptors 0 and 1 with the shell's input at 3 (`Low`), 1, 3 and 4
  with input at 0, so that user's and shell's numbers collide (`High`), and
  names of files from `<{…}` (`Names`); three commands deep. Three uses in
  which the code does not do what it says (redirections under `exec`, here
  documents in children, closes of 0, 1 and 2) are switched off by the
  constants `ExecInRedir`, `HereInChild` and `CloseStd`; other numbers are closed.
  A middle or last command of a pipeline comes after any number of others.
* **proc**: three setups: three pids, depth 2, jobs started anywhere; two
  pids, depth 2, `wait` anywhere, forks that fail and constructs that are left after
  their fork; three pids, depth 3,
  with children that were there before `exec`.
* **reading**, input: three sources deep, with one signal and one failing read; two
  deep with two signals; two deep undisturbed; four chunks of text in all.
* **store**, the collector: four objects of sizes 1, 2 and 6 with a tag of 1, initial space of
  3, so that objects need more than one space, spaces are added while
  collections are disabled and `minspace` is raised; `gc_scan` has six objects
  and four spaces, which is what the failure takes.
* **text**: sources of three characters with the two of pushback; ten option
  words, the lone dash with three things that may lie behind it among them, three
  at a time, after any earlier call; patterns of three or four
  characters over stars, `?`, ranges and quotes, and lists of two; names of
  four characters and lists of up to three words; two pieces of two
  characters; four subscripts of a list of three; words of two or three parts
  and two commands before them, with every way to return a list that somebody
  else holds; texts of three to six characters, chosen so that words touch,
  quotes, escapes and redirections end or do not, with one exception anywhere;
  a command of three redirections and words, joined in four reductions with two
  that have one at most (a process substitution in front of each kind of tree);
  expressions of four operands and three operators, groups and redirections
  among them; all longs of four bits two at a time, three at the edges, words
  that are doubles only, that both functions read as different numbers, and
  that are none. The references are recursive definitions over the same data,
  or state what makes a result right (the remainder of a quotient, the binary
  digits of *and*, *or* and *xor*). `ArithRight` leaves out the calls that end the
  shell (`Excepted`), and `RewriteRight` says of expressions only that a call that
  is made is one that was written: what is missing there are the violations
  `math_double` and `infix_words`.

Most properties are conjunctions of the parts that their comments name. Each
one has at least one mutant in `PROJECT.json`: a change of one definition, as a
plausible slip in the code would make it, for which TLC reports that property.

## 4. Fairness

Safety needs none. For the rest:

* `Dict!CallsEnd`: `WF(Loop)`; the loops are sequential code.
* `Signals!Raised`: weak fairness of the kernel's delivery, of the shell's own
  steps, of a catcher's, of leaving a read; strong fairness only of
  `Unblocksignals`, which the code reaches again and again in every catcher
  that ends. Nothing is assumed of the sender.
* `Proc!ConstructsEnd`: the shell goes on when it can (`Reap`, `EwaitFail`,
  `BodyEnd`), and a child in the foreground exits unless it is still writing
  to somebody who holds the other end. Background jobs may run for ever.
* `Gc!CallsEnd`: weak fairness of the collector's and the allocator's steps,
  which are sequential code; stated for sizes that are not within a tag of
  `minspace` (section 6).
* `Input!EofEnds`: the shell goes on, and commands end (`SF(EvalEnds)`): a
  command that throws for ever would keep any shell.

## 5. What is proved

TLAPS checks the following for every value of the constants.

`Dict_proofs`, for every set of keys, hash function and largest size, under
`HashAssumption` (hashes are naturals) and `MarkAssumption` (the two marks are
no values and differ):

* `RemainIsExact`: `remain` is the number of slots that may still be used.
* `EveryEntryReachable`: from the home of every live key to its slot there is
  no empty one, between any two steps, growing and trimming included.
* `ProbesStop`, `NoEntryLostInGrowth`, `Typing`: probes have an empty slot to
  end at; a reinsertion never grows the new table, so that what `recurseput`
  throws away is never another table.

Neither of the first two is inductive by itself. The invariant `IInv` adds
that both counters stay at 1 or more (a table always keeps a free slot beyond
those counted), `CopyInv`: while growing, the new table has exactly the
entries before the cursor; and `TrimInv`: while `rm` walks back, the slots
between cursor and removed entry are marks and the one behind them is empty.
Lemmas about sizes that are powers of two and about counting slots carry the
arithmetic; each action has its own step.

Under the same assumptions:

* `ImplementsMap`: `Dict` implements `DictMap`, the map being what `dictget`
  answers for each name. `GetHit` and `GetMiss` say what it answers in terms of
  slots, which is where `EveryEntryReachable` is needed; each step is then a
  change of one name (`Updated`), or of none. A removal is the step that sets
  the mark, a growth the one that puts the new table in place.

`Env_proofs`, for every set of variables, settors, locals, imported variables,
values and cells, and every nesting:

* `Freshness` and `StringsFresh`, of `OrderlySpec`: every command gets the
  variables as they are, and the string kept by an exported variable is right,
  or marked to be made anew. Settors of local and of imported variables are
  included, with all that they may do: assign, open scopes, bind closures, hide
  variables, remove the one that they are called for, fail.
* `Hidden`, of `Spec`: no command gets a variable that is on `$noexport`.

`OrderlySpec` has the same constants, initial states and actions as `Spec`, and
leaves out the single steps that section 6 shows to go wrong (`Orderly`, in
section 3). So a behaviour is cut off where such a step comes, and not where a
program has a settor that could take one.

Neither is inductive. The invariant `OInv` adds: a closure has its flag and an
internal variable no string (`VarsGood`); a string that is out of date is a
closure's, which `rebound` tells of or which is hidden (`StringsGood`); a frame
that is about to change its variable has been marked, or the variable is hidden,
and what it puts back is good itself (`StackGood`); and until `initenv` is done
there is no vector and no string, so that its settors need no mark (`StartGood`).
`StringsGood` alone would not do: `varpop` marks, calls the settor, and changes
the variable, and all that the settor does lies between. Steps are followed by
what they do to the variables (`OneVar`, `NoVar`) and to the stack (`Popped`,
`Pushed`, `Replaced` ...), where a frame may lose its variable at any time.

`Signals_proofs`, for every number of signals, sent any number of times, with
catchers that interrupt each other to every depth, in every build:

* `ScanStaysInBounds`: `sigchk`'s loop finds a signal in `caught` before its
  index leaves the array. `sigchk` itself does not look; it relies on the count.
* `LabelAlwaysLive`: `catcher` jumps only to a `callreadline` that has not
  returned.
* `CountIsExact`: where `++` and `--` are one access and lines are not read with
  `readline`, nothing is noted while the count is zero and the shell works.
* `Typed`: the count never falls below zero.

The invariant `IInv` has three parts besides types. `Behind`: the count, the
catchers that have noted their signal and not yet counted it, and the one whose
count `sigchk` has taken, are together at most the number of signals noted; the
same with what a catcher, or `--sigcount`, has loaded and not yet stored instead
of the count, so lost updates only lower it. `Found`: what `sigchk` looks for is
at its index or above. `Exact`: with one access and without the jump the two
sides of `Behind` are equal. `Advances` says what each step of the innermost
catcher does to the number of those that count.

`Proc_proofs`, for every set of pids, every depth and
every kind of program:

* `ListIsExact`: `proclist` has the kernel's children, each once, so that the
  assertion of `reap` holds; where a shell was started by `exec` over children
  of its process, it still has no process twice and none that is not there.
* `WaitsAreOwn`: a construct waits for the child that it forked, where commands
  do not use `wait` while a construct around them has a child.
* `ApidsAreExact`: unless a shell was started so, the entries of the list that
  are in the background are the jobs that were started there and not waited
  for, wherever commands wait; and when no construct runs, and none was left
  after its fork and before its wait, there are no others.

The second needs to know that no two constructs have the same pid and that
`$&wait` has none of theirs (`Owned`). That it waits for a background job only
is a condition of the program; that a construct's child is in the list as a
foreground one, so that this condition excludes it, is a part of the invariant
(`Forked`), and is why `ListIsExact` comes first. `Shape` says that only the
innermost construct waits.

The third needs jobs that stay apart (`Apart`): what a model of identities must
not do is to run out of them, and that it does not is a counting argument
(`FreshJobs`, from how many a child holds, `Small`, and a construct remembers,
`Bounded`). And every child in the foreground has a construct that waits for its
pid (`Covered`), the one that forked it or, after a `wait` inside and a second
fork, a later one. A construct that does not find its child gives up, and could
leave another one behind; only a pipeline has two, and `Kept` says that both are
there as long as it waits.

`Input_proofs`, for every number of chunks, sources on each other, signals and
failing reads:

* `SourcesAreOwn`: the global `input` is the innermost source, and the open
  descriptors are those of the sources not yet at their end, each with its own.
* `NoStaleError`: where no read fails, `parse` finds no message of an earlier
  parse, as it asserts.
* `CommandsRunWhole`: what is executed was read to its end without an error,
  here documents included.
* `EndsAreSeen`: where no signal comes and no read fails, an end of file is
  taken for none only while a here document is being read.
* `Typing`: `TypeOK`.

The invariant `IInv` is `OwnSource` with what it needs of the stack (`Sources`:
every source but the innermost is in its evaluation, so that no other can be at
its end), the queue of here documents (`Queue`: each waits once), and when the
flags may be set: `ErrorInside`, the message of `error` only between the first
character of a parse and its end, and `HereOpen`, no reading of here documents
without one. A source gets the lowest free descriptor; that there is one is a
counting argument (`LowestIsFree`). Every step does one of four things to the
stack of sources (`Keeps`, `Changes`, `Leaves`, `Enters`), and what each of them
preserves is a lemma.

`Unwind_proofs`, for every set of variables, settors, values and exceptions,
every height of the stack and every `maxevaldepth`, under `NameAssumption`,
`ValueAssumption` and `SetupAssumption` (the constants have the types that their
comments give them):

* `NothingDangles`: the handlers and the pushes are those of frames still
  there, what a handler saved of `pushlist` is there when `throw` comes to it,
  and a frame that ends normally ends its own handler, as `pophandler` asserts.
  Settors that fail, and take handlers away from the frames below, are included.
* `ImplementsScopes`: `Unwind` implements `DynScope`.

`throw` takes `tophandler` off before it runs settors, and a settor may throw
again, past the handler just taken. So the invariant `IInv` does not say that
each armed frame has its handler, but that it has it or that a throw above is on
its way to it (`Arms`), and the same of local scopes and their pushes
(`Locals`); that throws above each other are nested, the later one ending above
the earlier one or going past its target (`Throws`); that what a handler, on the
list or taken by a throw, saved of `pushlist` is the last push below it, as long
as no throw is going to discard it (`Doomed`); and that `varpop` is above the
scope or the throw whose push it takes off (`Pops`). The predicates are of the
stack, the handlers and the pushes as values, so that a move (`Grow`, `Arm`,
`Push`, `RaiseKeeps`, `JumpKeeps` ...) is one lemma for all the actions that make
it.

For the refinement, `ValueIn` is `ScopeValue` as a function of `pushlist` and
the variables. `PushValue` and `AssignValue` say what a push, a pop and an
assignment do to it, and `Pushing`, `Assigning`, `Popping` and `Giving` which
step of `DynScope` each is. What remains of an action is then what it does to
`pushlist` and the variables (`Move`); for `varpop` that needs to know that what
it puts back is what the last push saved, unless the variable has a settor
(`Back`), that a settor's frame is there only for a variable with a settor
(`Fits`), and that a frame that is no scope has pushed nothing but `0`
(`Zeros`).

In its second half, on top of this:

* `DepthExact`: `evaldepth` is the number of evals entered and not left.
* `NothingIsLeft`, `ReachesInnermost`: where no settor fails, roots and blocked
  signals are those of the throws and catchers in progress, and a throw passes
  over no frame that waits, and finds a handler.

For the first, the depth that a handler saved is the number of evals up to its
frame; `$&catch` enters its second eval after its handler, and has one less when
it is jumped to. For the others, `Above` says what may be above a throw or above
an operation that waits for its settor, no armed frame is between a throw and
its handler, and an exception other than `return` has a catch to go to before it
would leave a settor. A new throw then finds the innermost handler, since the
topmost armed frame has its own: a throw on its way to it would be below a
`varpop`, which is armed itself.

`Gc_proofs`, for every set of objects, sizes, and bounds on nesting, spaces and
pointers, under `SizeAssumption` (a size includes the tag, which has one),
`ObjectAssumption` (objects are finitely many numbers) and `BoundAssumption`:

* `ReachableIsKept`: between collections, what the program can reach is in a
  space and in one place only, and no space holds more than there is room for,
  as long as no copy has been left unscanned (`gc_scan` shows that one can be).
* `OneSpaceIsScanned`: a collection for which one space is enough leaves no
  pointer into the space that it frees, although the space grows while
  `scanspace` goes through it.
* `GrownIsEnough`: the space that `gcalloc` adds has room for the object, unless
  `minspace` is within a tag of its size (`GrowsEnough`, which no run lists).

`NothingLost` speaks of phase `run` only and is not inductive: what is reachable
after a collection depends on all that happened in it. The invariant `IInv` says
that outside of a missed copy the heap is closed under reference (`Closed`) and,
phase by phase (`Collecting`), that the roots above the one that `scanroots` is
at have been copied, that `scanspace` is at a place that exists, that what it has
gone through (`done`) has all of its pointers copied (`Forwarded`), and, while
there is one space, that this is all that lies before the place (`Behind`). At
the end of `gc` the scanned objects are then closed under reference and have the
roots: `Reach`, the least such set, is in them. In `Types`, `Filled` says of the
sums of sizes that they fit; sums and lists of pointers are recursive functions,
and the lemmas about them (`TotalMore`, `CopiesDo`) go by the least number for
which they fail. The attempt found an error of the model: `forward` put an
object that is within a tag of `minspace` into a new space too small for it,
where `gcalloc` goes on adding spaces for ever (section 6). Such objects are now
`stuck`, and the collection does not go on.

`Fds_proofs`, for every depth and every set of setups, under `SetupAssumption`,
`UseAssumption` and `BoundAssumption`, if the program is `Careful`:

* `CommandHasIt`: an external command started in any state gets the descriptors
  that the program asked for, and no other that is open.
* `BuiltinHasIt`: a builtin finds them through `fdmap`, where no redirection
  names a number that the shell holds for another one.
* `NothingLeaks`: the numbers that the shell holds are open and different, what
  else is open was asked for or is named by a deferred operation, and there are
  as many of these as commands that wait to undo one.
* `NewIsFree`: `newfd` gives a number that no command will look at.
* `TypesOK` and `Invariance`: `TypeOK`, and the invariant itself.

`Careful` leaves out what section 6 shows to go wrong, or what could: the three
constants are `FALSE` (no `exec` inside of a redirection, no here document in a child,
no command that closes 0, 1 or 2), and a setup is either `Standard`
(redirections and pipes name 0, 1 and 2, and at most two names of `<{...}` are
open) or `Wider` (redirections name 0 to 4, without copies, names and pipes' right
ends, and pipes' left ends are 0, 1 and 2). All three setups of the run are.

That the table is right *after* `remapfds` is nothing that a step preserves,
because redirections change the table only when somebody has to give way.
`IInv` says instead what the noted operations amount to, without performing
them (`Means`): a number gets the file of the last operation on it, or without
one what the table has there, less the numbers that the shell holds for itself.
In every state that is `view`. `DodeferredKeeps` shows that performing one
operation, with the `releasefd` that moves whoever holds the number, leaves the
meaning of the others alone; `remapfds`, a recursive function over the
operations, is then followed from the first to the last (`MeansNext`), and
`closefds` and the children of forks come after it. Besides types, `IInv`
has: the numbers held are open, different, and none of 0, 1 and 2 is ever closed
(`Sound`); commands and operations nest alike, and a command knows what its
number had before it (`Tied`), which is what makes `undefer` right; a child
notes nothing (`Direct`); the number that `<{...}` names is open and nobody
else's (`Named`); and few descriptors are open (`Few`). The last one is why the
table of the model ends at `9 + MaxDepth`: with at most two new numbers for a
step, a free one is always left (`RoomNow`), and the choice of the lowest
one is never made from none.

Only checked by TLC, because the prover cannot express it: everything under
fairness (`CallsEnd`, `Raised`, `ConstructsEnd`, `EofEnds`), and what recursive
definitions compute for all inputs (`Subscript`, `Glom`, `Lexer`, `Syntax`,
`Infix`, `Arith` and `MCText` have `RECURSIVE` operators). Not proved yet: the
other sequential modules of `text` (section 8).

## 6. Disagreements of code and documents

Six are runs, since a single property says what the document says:

* `unwind_skip`: a settor that throws while `varpop` unwinds takes its
  exception to the handler *outside* of the one that was to catch
  (`var.c:297`, against `doc/es.1:1963-1967`).
* `signals_lost`: where `--sigcount` is a load and a store, a signal in between
  is noted and never counted (`signal.c:306`, against `doc/es.1:1541-1543`).
* `gc_scan`: with several new spaces, copies made in a round after their space
  was scanned keep pointers into the old one (`gc.c:339`, against `gc.c:334`).
* `opt_assert`: a missing argument leaves `usage_message` set, and the next call
  of `esoptbegin` aborts (`opt.c:118`, against the assertion at `opt.c:38`).
* `infix_words`: every argument that is no number becomes a variable before
  `classifyinfix` looks for operators, so that `1 plus 2` is no expression
  (`parse.y:120`, against `test/run-math-bitwise-primitives.sh:178-300`). Only
  `abs`, `count` and `~not` of operands without an operator are rewritten, and
  `initial.es` does not load with this grammar.
* `math_double`: the primitives of doubles print with `%g`, which
  `print.c:174-198` has not: `printfmt` panics, and the shell ends
  (`prim-math.c:27`, against `test/run-math-bitwise-primitives.sh:65`).

Further ones met while modelling. The properties of the passing runs are
stated so that they hold beside them (a constant, a setup or a precondition
leaves the case out, and says so); those marked * were also seen in the shell.

| where | what happens | against |
|---|---|---|
| `prim-ctl.c:81` | the throw of a settor skips the handler that unblocks signals: they stay blocked for good | `CHANGES:419` |
| `except.c:35` | such a throw leaves its exception root, a dead frame, on the list | `gc.c:260` |
| `except.c:25` * | each settor that throws uses up a handler, and `throw` may run out of them | the assertion there |
| `input.c:156` | a signal after the last check and before the read does not end it | `signal.c:15-19` |
| `signal.c:300` * | a child inherits `sigcount`, and exits of a signal that it never got | `doc/es.1:1760` |
| `var.c:231` * | `varpush` and `varpop` mark the environment before the settor runs, which may clear the mark | `doc/es.1:1339` |
| `var.c:282` * | `varpop` keeps the saved flags with a closure that a settor put in the value's place, whose string is then not made anew | `doc/es.1:1339` |
| `var.c:326` * | `rebound` is reset although a hidden closure was not visited | `doc/es.1:1386` |
| `var.c:590` * | `initenv` stores a settor's result without a mark | `doc/es.1:1666` |
| `var.c:588` | a settor that `initenv` calls may remove a variable whose settor is still to be called: it is read through NULL | the tests after other lookups (`var.c:148`) |
| `prim-io.c:22` * | under `exec`, a redirection is overridden by those around it | `doc/es.1:2315` |
| `prim-io.c:195` * | `%here` defers in a child too, and overrides redirections inside of it | `doc/es.1:2315` |
| `prim-io.c:242` * | `%pipe` with a descriptor that is the number of an end of the pipe loses it | `doc/es.1:2524` |
| `prim-io.c:237` * | the last command of a pipeline may have its input closed by a deferred operation | `doc/es.1:2524` |
| `prim-io.c:300` * | the file that `<{…}` names may be replaced by a redirection of its number | `doc/es.1:2543` |
| `prim-io.c:259` | `getnumber` throws after the fork: the left command and both ends of the pipe are left, and nobody waits | `doc/es.1:2524` |
| `prim-io.c:300` | the settor of `%readfrom`'s variable throws before there is a handler: `p[0]` and the child are left | `prim-io.c:304-307` |
| `prim-io.c:391` * | a backquote with descriptor 1 closed closes its own pipe | `doc/es.1:2289` |
| `fd.c:98` * | `fdmap` goes on with the shell's number as if it were the user's | `doc/es.1:2315` |
| `proc.c:125` * | a shell that was `exec`ed with children aborts in `reap` | the assertion there |
| `proc.c:139` * | `wait` without argument takes the child of a construct around it | `doc/es.1:2543` |
| `opt.c:92` * | a lone `-` is an option word whose letter is its terminator, which `strchr` finds: what lies behind the word is read as more letters | `opt.c:106` |
| `main.c:148` * | `-sv` gives `-sv` as first argument | `doc/es.1:187` |
| `input.c:211` * | a failing read within error recovery leaves `error` set for the next parse | `input.c:228` |
| `heredoc.c:138` * | here documents of one line are read last first | `doc/es.1:1066` |
| `heredoc.c:46` * | an exception in a here document leaves `ignoreeof` set: no end of input any more | `doc/es.1:1513` |
| `gc.c:577` * | `minspace` is compared without the tag: within a tag of it, allocation never ends | `gc.c:562` |
| `match.c:36` * | `-` after a leading `]` is no ordinary character | `match.c:10` |
| `match.c:209` * | a bracket without its end counts as a part | `doc/es.1:869` |
| `match.c:199` * | extraction of stars in a row aborts | the assertion there |
| `match.c:183` * | a pattern that matches without wildcards counts as one that does not | `doc/es.1:868` |
| `var.c:411` * | two escapes in a word are not both undone | `conv.c:362` |
| `conv.c:350` * | `__` at the end of a name reads on after it | `conv.c:342` |
| `glom.c:131` * | a subscript beyond an `int` wraps around | `doc/es.1:535` |
| `prim-math.c:605` * | the smallest long divided by -1 ends the shell by a signal | the failures around it |
| `prim-math.c:513` * | `$&isfloat` without argument reads through NULL, before the check | `prim-math.c:516` |
| `syntax.c:599` * | a process substitution before a command that is not a list of words goes to what it does not belong to (`<{a} cat > f`), or trips the assertion of `treeappend` (`<{a} x = y`) | `syntax.c:25` |
| `token.c:146` | an exception after a dollar sign leaves `dollar` set: the next parse begins with a variable's name | `input.c:229` |
| `token.c:82` * | `scanerror` eats a newline without counting it: line numbers are wrong after it | `input.c:40` |
| `token.c:289` * | `\x100` is the empty string: the number is checked, not the character | `doc/es.1:312` |

Smaller ones that no module has yet: `exitstatus` and `istrue` disagree about `00` (`status.c:49`);
a failing read within a backquote throws while collections are blocked
(`prim-io.c:374`, against the assertion at `except.c:23`); `gcalloc` with too
small a space after a collection relies on the next one (`gc.c:582`).

## 7. What is not modelled

* **The rest of the grammar**: the words of a command (variables,
  concatenations, lambdas, closures, backquotes), bindings, what yacc does with
  precedence and errors. `Syntax` takes reductions in any order in which their
  operands are there, which is more than the grammar allows.
* **What doubles compute**: nobody gets to see it (`math_double`). Longs have the
  width of a constant; overflow wraps, as the build does.
* **status** (`status.c`): pure functions.
* **Globbing against directories** (`glob1`, `dirmatch`): `Glom` takes the
  files of a pattern from a constant operator. The call of `%home` for a tilde
  is left out.
* **Closures** in words and variables of `Glom`; `Env` has one, over one cell.
* **pspace** with `palloc` and `pseal`, `gcreserve`, string buffers: `Gc` has
  new space, and all roots are one list.
* **Process groups** and the terminal; `writeto`, which mirrors `readfrom`.
* **History, vectors, formats, dump, start-up, utilities**: sequential, or
  wrappers of system calls.
* The **typing of long inputs**: counters are bounded in each instance.

`PROJECT.json` lists each component with its status and reason.

## 8. Plan

Order of the modules so far: `Dict` (everything is looked up in it) and its
proofs; `Unwind`, `Signals`, `Env`, `Fds`, `Proc`, `Input`, `Gc` by how much
depends on them; then the sequential parts. To come:

1. The words of the grammar; `glob1` over a small tree of directories; the
   hooks of `initial.es`; signals in `Inbuf`, which lose what a read has
   delivered (`input.c:200`).
2. Types and main invariants of `Inbuf`, `Split` and the other sequential
   modules without `RECURSIVE` operators.
3. The refinement of `CharStream` by `Inbuf`; its mapping goes over a sequence
   of buffers, so that lemmas about `SelectSeq` and `Reverse` by induction
   would be needed first, which the prover does not have.
