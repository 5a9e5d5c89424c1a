------------------------------- MODULE Syntax -------------------------------
(***************************************************************************)
(* The trees that the parser of es makes of commands (syntax.c, tree.c):   *)
(* the reductions of parse.y build them bottom up and change them in       *)
(* place.  Redirections wait in the prefix of a command until redirect     *)
(* puts the command into their placeholders; sequences and pipelines grow  *)
(* into one list; process substitutions become arguments.                  *)
(*                                                                         *)
(* A tree is a record, NULL is Nil.  What is changed in place is reached   *)
(* from one place only, so that trees are values here.                     *)
(***************************************************************************)
EXTENDS Integers, Sequences, SequencesExt

CONSTANTS Firsts,        \* what may follow the first word of the first command
          Others,        \* ... and of those after it
          MaxReductions, \* bound: reductions of commands
          MaxCommands    \* bound: commands that are not joined yet

SyntaxAssumption == MaxReductions \in Nat /\ MaxCommands \in Nat \ {0}

VARIABLES cmds,       \* the commands so far, each with what it means
          id,         \* the number of the next process substitution
          ended,      \* "no", or how the parse has ended: "error" or "abort"
          reductions  \* what the bound leaves

vars == <<cmds, id, ended, reductions>>

-----------------------------------------------------------------------------
(* Trees.                                                                  *)

Nil == [kind |-> "nil"]
Cell(kind, car, cdr) == [kind |-> kind, car |-> car, cdr |-> cdr]
Word(s) == [kind |-> "word", s |-> s]
Of(kind, t) == [kind |-> kind, of |-> t]
Placeholder == [kind |-> "placeholder"]
Devfd(k) == [kind |-> "devfd", id |-> k]     \* the variable _devfd<k>

Treecons(car, cdr) ==
    IF car = Nil THEN cdr
    ELSE IF cdr = Nil /\ car.kind = "list" THEN car
    ELSE Cell("list", car, cdr)

RECURSIVE Treeappend(_, _), IsChain(_), Inner(_)
Treeappend(head, tail) ==
    IF head = Nil THEN tail ELSE [head EXCEPT !.cdr = Treeappend(@, tail)]

\* What treeappend asserts of the nodes that it passes.
IsChain(t) == t = Nil \/ (t.kind \in {"list", "redir"} /\ IsChain(t.cdr))

Treeconsend(head, tail) ==
    IF tail = Nil THEN head ELSE Treeappend(head, Treecons(tail, Nil))

Prefix(s, t) == Treecons(Word(s), t)

Inner(t) == IF t.kind = "list" /\ t.cdr = Nil THEN Inner(t.car) ELSE t
Thunkify(t) == IF Inner(t).kind = "thunk" THEN t ELSE Of("thunk", t)

Firstis(t, s) == t.kind = "list" /\ t.car = Word(s)

-----------------------------------------------------------------------------
(* Sequences and pipelines.                                                *)

\* What is added to a list of commands by one of the same kind, or by another.
Joined(op, same, t1, tail) ==
    IF Firstis(t1, op) THEN Treeappend(t1, tail)
    ELSE IF same # Nil THEN [same EXCEPT !.cdr = Treecons(Thunkify(t1), tail)]
    ELSE Prefix(op, Treecons(Thunkify(t1), tail))

Same(op, t) == IF Firstis(t, op) THEN t ELSE Nil

TailOf(op, t) == IF Firstis(t, op) THEN t.cdr ELSE Treecons(Thunkify(t), Nil)

Mkseq(op, t1, t2) ==
    IF op = "%seq" /\ t1 = Nil THEN t2
    ELSE IF op = "%seq" /\ t2 = Nil THEN t1
    ELSE Joined(op, Same(op, t2), t1, TailOf(op, t2))

Mkpipe(t1, outfd, infd, t2) ==
    Joined("%pipe", Same("%pipe", t2), t1, Prefix(outfd, Prefix(infd, TailOf("%pipe", t2))))

-----------------------------------------------------------------------------
(* Redirections: how they are written is an item, how they wait a tree.    *)
(* An item [kind, s] is a word, or the redirection of a file, a process    *)
(* substitution or a duplication, with its operator.                       *)

Mkdup(s) == Prefix("%dup", Prefix(s, Treecons(Placeholder, Nil)))

Process == [s \in {"%open", "%create"} |-> IF s = "%open" THEN "%readfrom" ELSE "%writeto"]

Mkredir(cmd, file, k) ==
    IF file.kind = "thunk"
    THEN Cell("redir", Treecons(Of("var", Devfd(k)), Nil),
              Treeappend(Treecons(Word(IF cmd.car.s \in DOMAIN Process THEN Process[cmd.car.s] ELSE ""),
                                  Treecons(Devfd(k), Nil)),
                         Treecons(file, Treecons(Placeholder, Nil))))
    ELSE Treeappend(cmd, Treecons(IF Firstis(cmd, "%heredoc") THEN file
                                  ELSE Of("call", Prefix("%one", Treecons(file, Nil))),
                                  Treecons(Placeholder, Nil)))

RECURSIVE AfterRedirs(_), WithAfterRedirs(_, _), Fill(_, _), Redirect(_)

\* What is after the redirections at the beginning of a chain, and x in its place.
AfterRedirs(t) == IF t.kind = "redir" THEN AfterRedirs(t.cdr) ELSE t
WithAfterRedirs(t, x) ==
    IF t.kind = "redir" THEN [t EXCEPT !.cdr = WithAfterRedirs(@, x)] ELSE x

\* redirappend: the word of a process substitution is one more argument.
Redirection(r) == IF r.kind = "redir" THEN r.cdr ELSE r
WithWord(args, r) == IF r.kind = "redir" THEN Treeappend(args, r.car) ELSE args

Redirappend_First(tree, r) == Cell("redir", Redirection(r), WithWord(tree, r))

Redirappend(tree, r) ==
    LET args == WithWord(tree, r)
    IN  WithAfterRedirs(args, Cell("redir", Redirection(r), AfterRedirs(args)))

Firstprepend(first, args) == WithAfterRedirs(args, Treecons(first, AfterRedirs(args)))

Fill(r, body) ==
    IF r.car = Placeholder THEN [r EXCEPT !.car = body] ELSE [r EXCEPT !.cdr = Fill(@, body)]

\* queueheredoc, whose queue is in Input.
Queued(r) == IF Firstis(r, "%heredoc") THEN [r EXCEPT !.car = Word("%here")] ELSE r

Redirect(t) ==
    IF t.kind # "redir" THEN t
    ELSE Fill(Queued(Redirection(t.car)), Thunkify(Redirect(WithWord(t.cdr, t.car))))

\* The assertion of treeappend in redirect.
Asserts(t) == t.kind = "redir" /\ t.car.kind = "redir" => IsChain(t.cdr)

-----------------------------------------------------------------------------
(* Items, and what a command with them means.                              *)

\* The tree of a redirection (redir in parse.y); k numbers a process substitution.
RedirTree(item, k) ==
    CASE item.kind = "dup" -> Mkdup(item.s)
      [] item.kind = "file" -> Mkredir(Prefix(item.s, Prefix("fd", Nil)), Word("file"), k)
      [] item.kind = "process" -> Mkredir(Prefix(item.s, Prefix("fd", Nil)),
                                          Of("thunk", Treecons(Word("p"), Nil)), k)

\* Operators that take no process, of which yyerror is told.
Bad(item) == item.kind = "process" /\ item.s \notin DOMAIN Process

\* args in parse.y: the items one after another.
RECURSIVE Args(_, _, _)
Args(tree, items, k) ==
    IF items = <<>> THEN tree
    ELSE LET i == Head(items)
         IN  Args(IF i.kind = "word" THEN Treeconsend(tree, Word(i.s))
                  ELSE Redirappend(tree, RedirTree(i, k)),
                  Tail(items), IF i.kind = "process" THEN k + 1 ELSE k)

Processes(items) == SelectSeq(items, LAMBDA i : i.kind = "process")

\* simple in parse.y, where nothing is infix.
Simple(items, k) ==
    IF items = <<>> THEN Treecons(Word("a"), Nil)
    ELSE Firstprepend(Word("a"), Args(Nil, items, k))

Means(op, args) == [op |-> op, args |-> args]
Nothing == Means("nothing", <<>>)

\* The arguments of a redirection, before the command that it is for.
Operands(item, k) ==
    CASE item.kind = "dup" -> <<Word(item.s)>>
      [] item.kind = "file" -> <<Word("fd"), IF item.s = "%heredoc" THEN Word("file")
                                             ELSE Of("call", Prefix("%one", Treecons(Word("file"), Nil)))>>
      [] item.kind = "process" -> <<Devfd(k), Means("run", <<Word("p")>>)>>

RedirName(item) ==
    IF item.kind = "dup" THEN "%dup"
    ELSE IF item.kind = "process" THEN Process[item.s]
    ELSE IF item.s = "%heredoc" THEN "%here" ELSE item.s

\* The number of the process substitution at the place j of items.
Number(items, j, k) == k + Len(Processes(SubSeq(items, 1, j))) - 1

\* The redirections apply from the first one on, the others within it, to the words.
RECURSIVE Nested(_, _, _, _)
Nested(items, j, k, body) ==
    IF j > Len(items) THEN body
    ELSE IF items[j].kind = "word" THEN Nested(items, j + 1, k, body)
    ELSE Means(RedirName(items[j]),
               Append(Operands(items[j], Number(items, j, k)), Nested(items, j + 1, k, body)))

WordsOf(items, k) ==
    FlattenSeq([j \in DOMAIN items |->
        CASE items[j].kind = "word" -> <<Word(items[j].s)>>
          [] items[j].kind = "process" -> <<Of("var", Devfd(Number(items, j, k)))>>
          [] OTHER -> <<>>])

\* Commands that follow each other, with those that are themselves such a list.
Flat(op, m) == IF m.op = op THEN m.args ELSE <<m>>

\* What a tree means: lists that begin with one of es's own functions, which run
\* commands, are told from others.
RECURSIVE Items(_), Norm(_)
Items(t) == IF t = Nil THEN <<>> ELSE <<t.car>> \o Items(t.cdr)
Norm(t) ==
    LET Commands(op, ts) == FlattenSeq([j \in DOMAIN ts |-> Flat(op, Norm(ts[j]))])
        items == Items(t)
        rest  == Tail(items)
        name  == IF t.car.kind = "word" THEN t.car.s ELSE "none"
    IN  CASE t = Nil -> Nothing
          [] t.kind = "thunk" -> Norm(t.of)
          [] t.kind = "assign" -> Means("assign", <<t.car, t.cdr>>)
          [] t.kind = "match" -> Means("~", <<t.car, Items(t.cdr)>>)
          [] t.kind \in {"let", "local"} -> Means(t.kind, <<t.car, Norm(t.cdr)>>)
          [] t.kind = "list" ->
               CASE t.cdr = Nil /\ Inner(t).kind = "thunk" -> Norm(t.car)
                 [] name \in {"%seq", "%and", "%or", "%not", "%background"} ->
                      Means(name, Commands(name, rest))
                 [] name = "%pipe" ->
                      Means(name, FlattenSeq([j \in DOMAIN rest |->
                                      IF rest[j].kind = "word" THEN <<rest[j]>>
                                      ELSE Flat(name, Norm(rest[j]))]))
                 [] name \in {"if", "%dup", "%open", "%create", "%append", "%here", "%readfrom", "%writeto"} ->
                      Means(name, [j \in DOMAIN rest |->
                                      IF Inner(rest[j]).kind = "thunk" THEN Norm(rest[j]) ELSE rest[j]])
                 [] OTHER -> Means("run", items)
          [] OTHER -> Means("wrong", <<t>>)

-----------------------------------------------------------------------------
(* The reductions of parse.y.                                              *)

\* match in parse.y, and each of its cases.
Case(pattern, cmd) == Cell("match", pattern, Thunkify(cmd))

Expr == Word("matchexpr")
RECURSIVE Matches(_)
Matches(cases) ==
    IF cases = Nil THEN Nil
    ELSE LET c == cases.car
             patterns == IF c.car.kind = "list" THEN c.car ELSE Treecons(c.car, Nil)
         IN  Treeappend(Treecons(Thunkify(Cell("match", Of("var", Expr), patterns)),
                                 Treecons(c.cdr, Nil)),
                        Matches(cases.cdr))

Mkmatch(subject, cases) ==
    IF cases = Nil THEN Thunkify(Nil)
    ELSE Cell("local", Treecons(Cell("assign", Expr, subject), Nil),
              Thunkify(Prefix("if", Matches(cases))))

Init == cmds = <<>> /\ id = 0 /\ ended = "no" /\ reductions = MaxReductions

Top == cmds[Len(cmds)]
Under == cmds[Len(cmds) - 1]

\* The n newest commands become one, unless the parse ends.
Reduce(n, tree, means, sound) ==
    /\ reductions > 0 /\ reductions' = reductions - 1
    /\ ended = "no"
    /\ Len(cmds) >= n /\ Len(cmds) - n < MaxCommands
    /\ cmds' = Append(SubSeq(cmds, 1, Len(cmds) - n), [tree |-> tree, means |-> means, sound |-> sound])

Stop(how) ==
    /\ reductions > 0 /\ ended = "no"
    /\ ended' = how
    /\ UNCHANGED <<cmds, id, reductions>>

Stay == UNCHANGED <<id, ended>>

\* The empty command, an assignment, and match without a case.
Leaf ==
    /\ Stay
    /\ \/ Reduce(0, Nil, Nothing, TRUE)
       \/ Reduce(0, Cell("assign", Word("x"), Treecons(Word("a"), Nil)),
                 Means("assign", <<Word("x"), Treecons(Word("a"), Nil)>>), TRUE)
       \/ Reduce(0, Mkmatch(Word("a"), Nil), Nothing, TRUE)

\* A command of words and redirections.
Command(items) ==
    \/ /\ ~\E j \in DOMAIN items : Bad(items[j])
       /\ Reduce(0, Redirect(Simple(items, id)),
                 Nested(items, 1, id, Means("run", <<Word("a")>> \o WordsOf(items, id))), TRUE)
       /\ id' = id + Len(Processes(items)) /\ UNCHANGED ended
    \/ /\ \E j \in DOMAIN items : Bad(items[j])
       /\ Stop("error")

\* A redirection before a command.  That of a process gives its word to the command
\* in place, where it is an argument if the command is words and no more.
IsWords(cmd) == cmd.means.op \in {"run", "nothing"} /\ (cmd.tree # Nil => cmd.tree.car = Word("a"))

Redir(item) ==
    /\ cmds # <<>> /\ ~Bad(item)
    /\ LET t == Cell("redir", RedirTree(item, id), Top.tree)
           process == item.kind = "process"
       IN  IF Asserts(t)
           THEN /\ Reduce(1, Redirect(t),
                          Nested(<<item>>, 1, id,
                                 IF process THEN Means("run", Top.means.args \o WordsOf(<<item>>, id))
                                 ELSE Top.means),
                          Top.sound /\ (process => IsWords(Top)))
                /\ id' = (IF process THEN id + 1 ELSE id) /\ UNCHANGED ended
           ELSE Stop("abort")

Join(op) ==
    /\ Len(cmds) > 1 /\ Stay
    /\ Reduce(2, Mkseq(op, Under.tree, Top.tree),
              IF op = "%seq" /\ Under.tree = Nil THEN Top.means
              ELSE IF op = "%seq" /\ Top.tree = Nil THEN Under.means
              ELSE Means(op, Flat(op, Under.means) \o Flat(op, Top.means)),
              Under.sound /\ Top.sound)

Pipe(outfd, infd) ==
    /\ Len(cmds) > 1 /\ Stay
    /\ Reduce(2, Mkpipe(Under.tree, outfd, infd, Top.tree),
              Means("%pipe", Flat("%pipe", Under.means) \o <<Word(outfd), Word(infd)>>
                             \o Flat("%pipe", Top.means)),
              Under.sound /\ Top.sound)

\* ! and &.
Wrap(op) ==
    /\ cmds # <<>> /\ Stay
    /\ Reduce(1, Prefix(op, Treecons(Thunkify(Top.tree), Nil)),
              Means(op, Flat(op, Top.means)), Top.sound)

Brace ==
    /\ cmds # <<>> /\ Stay
    /\ Reduce(1, Treecons(Thunkify(Top.tree), Nil), Top.means, Top.sound)

Binder ==
    /\ cmds # <<>> /\ Stay
    /\ Reduce(1, Cell("let", Word("x"), Top.tree), Means("let", <<Word("x"), Top.means>>), Top.sound)

\* match, with one command or two.
Match(n) ==
    /\ Len(cmds) >= n /\ Stay
    /\ LET of == SubSeq(cmds, Len(cmds) - n + 1, Len(cmds))
           patterns == <<Treecons(Word("q"), Treecons(Word("r"), Nil)), Word("p")>>
           cases == FoldLeft(LAMBDA t, j : Treeconsend(t, Case(patterns[j], of[j].tree)), Nil,
                             [j \in 1 .. n |-> j])
       IN  Reduce(n, Mkmatch(Word("a"), cases),
                  Means("local", <<Treecons(Cell("assign", Expr, Word("a")), Nil),
                      Means("if", FlattenSeq([j \in 1 .. n |->
                          <<Means("~", <<Of("var", Expr), IF j = 1 THEN <<Word("q"), Word("r")>> ELSE <<Word("p")>>>>), of[j].means>>]))>>),
                  \A j \in 1 .. n : of[j].sound)

Next ==
    \/ Leaf \/ Brace \/ Binder
    \/ \E items \in IF reductions = MaxReductions THEN Firsts ELSE Others : Command(items)
    \/ \E items \in Firsts : Len(items) = 1 /\ items[1].kind # "word" /\ Redir(items[1])
    \/ \E op \in {"%seq", "%and", "%or"} : Join(op)
    \/ \E fd \in {"1", "2"} : Pipe(fd, "0")
    \/ \E op \in {"%not", "%background"} : Wrap(op)
    \/ \E n \in {1, 2} : Match(n)

Spec == Init /\ [][Next]_vars

-----------------------------------------------------------------------------
\* A command's tree runs what the command says: its redirections in their order,
\* around the words that are left, each placeholder filled once; sequences and
\* pipelines as lists of all their commands, in order; but a process substitution
\* in front of something else than words is an argument of what it does not belong
\* to (redirect, redirappend, firstprepend, mkredir, mkseq, mkpipe, mkmatch).
RewriteRight ==
    \A j \in DOMAIN cmds : cmds[j].sound => Norm(cmds[j].tree) = cmds[j].means

\* treeappend's assertion fails there only.
AbortsOnly ==
    ended = "abort" => cmds # <<>> /\ Top.tree.kind \in {"assign", "let", "local", "thunk"}
=============================================================================
