-------------------------------- MODULE Glom --------------------------------
(***************************************************************************)
(* Words to lists: glom1 and glom2 of glom.c, which glue the results of    *)
(* the parts of a list together in place, and the places of eval.c that    *)
(* bind lists to names without a copy: assign, letbindings, forloop and    *)
(* bindargs.  What one of them changes in place the other may still hold.  *)
(*                                                                         *)
(* heap[i] is a List: its term and its next, 0 for NULL.  A term is the    *)
(* sequence of its characters; a quote is QUOTED, UNQUOTED or a string of  *)
(* q and r.  Evaluation goes from a machine m, that is heap, variables and *)
(* bindings, to a machine and a list.                                      *)
(***************************************************************************)
EXTENDS Integers, Sequences, FiniteSets, SequencesExt

CONSTANTS Names,         \* of variables, each a word
          Trees,         \* words and lists
          Commands,      \* assignments, lets, loops and calls of functions
          Files(_),      \* what glob1 finds for a pattern, in order
          MaxCommands    \* bound: commands in a behaviour

GlomAssumption == MaxCommands \in Nat /\ \A w \in Names : w \in Seq(STRING)

VARIABLES heap, store,   \* the lists, and the one of each variable
          bound,         \* every list that was bound to a name, and its value then
          done,          \* commands so far
          outcome        \* of the last one

vars == <<heap, store, bound, done, outcome>>

QUOTED   == [all |-> "q"]
UNQUOTED == [all |-> "r"]
Nil      == [kind |-> "nil"]
ltrue    == 1              \* a list of the shell's own, which commands return

-----------------------------------------------------------------------------
(* Lists on the heap. *)

\* The cells of list l; a list that has no end has too many.
RECURSIVE CellsUpTo(_, _, _)
CellsUpTo(h, l, k) == IF l = 0 \/ k = 0 THEN <<>> ELSE <<l>> \o CellsUpTo(h, h[l].next, k - 1)

Cells(h, l) == CellsUpTo(h, l, Len(h) + 1)

Terms(h, l) == LET c == Cells(h, l) IN [i \in DOMAIN c |-> h[c[i]].term]

\* mklist, once for each term.
Made(m, terms) ==
  LET n == Len(m.heap) IN
  [m    |-> [m EXCEPT !.heap = @ \o [i \in DOMAIN terms |->
               [term |-> terms[i], next |-> IF i = Len(terms) THEN 0 ELSE n + i + 1]]],
   list |-> IF terms = <<>> THEN 0 ELSE n + 1]

Listcopy(m, l) == Made(m, Terms(m.heap, l))

\* tail->next = list, where there is a result to which it is added.
Glued(m, result, l) ==
  IF result = 0 \/ l = 0
  THEN [m |-> m, list |-> IF result = 0 THEN l ELSE result]
  ELSE [m |-> [m EXCEPT !.heap[Last(Cells(m.heap, result))].next = l], list |-> result]

Failed(m) == [m |-> [m EXCEPT !.failed = TRUE], list |-> 0]

-----------------------------------------------------------------------------
(* Names.  A binding is a cell too, so that assignment changes it for all   *)
(* that have it; env is the list of bindings, the innermost first.          *)

Seen(m, env, name) == SelectInSeq(env, LAMBDA b : m.binds[b].name = name)

Varlookup(m, env, name) ==
  LET i == Seen(m, env, name) IN
  IF i > 0 THEN m.binds[env[i]].defn ELSE IF name \in Names THEN m.store[name] ELSE 0

Noted(m, l) == [m EXCEPT !.bound = @ \cup {[list |-> l, value |-> Terms(m.heap, l)]}]

\* vardef, of a variable without a settor.
Vardef(m, env, name, l) ==
  LET i == Seen(m, env, name) IN
  IF i > 0 THEN [Noted(m, l) EXCEPT !.binds[env[i]].defn = l]
  ELSE [Noted(m, l) EXCEPT !.store[name] = l]

\* mkbinding, of which the result is the new environment.
Mkbinding(r, name, l) ==
  [m   |-> [Noted(r.m, l) EXCEPT !.binds = Append(@, [name |-> name, defn |-> l])],
   env |-> <<Len(r.m.binds) + 1>> \o r.env]

\* Each name but the last takes one value, the last takes those that are left.
\* What is left is the same list, not a copy of it.
Paired(m, names, values) ==
  LET Step(r, i) ==
        IF r.values = 0 THEN [r EXCEPT !.lists = Append(@, 0)]
        ELSE IF i = Len(names) \/ r.m.heap[r.values].next = 0
        THEN [r EXCEPT !.lists = Append(@, r.values), !.values = 0]
        ELSE LET one == Made(r.m, <<r.m.heap[r.values].term>>) IN
             [m |-> one.m, lists |-> Append(r.lists, one.list),
              values |-> r.m.heap[r.values].next]
  IN  FoldLeft(Step, [m |-> m, lists |-> <<>>, values |-> values], [i \in DOMAIN names |-> i])

\* assign, from where names and values are known.
Assigned(m, env, names, values) ==
  LET p == Paired(m, names, values) IN
  FoldLeft(LAMBDA n, i : Vardef(n, env, names[i], p.lists[i]), p.m, [i \in DOMAIN names |-> i])

\* letbindings, of the names and values of one assignment.
Letbindings(m, env, names, values) ==
  LET p == Paired(m, names, values) IN
  FoldLeft(LAMBDA r, i : Mkbinding(r, names[i], p.lists[i]), [m |-> p.m, env |-> env],
           [i \in DOMAIN names |-> i])

\* bindargs pairs in the same way; the function has no bindings of its own.
Bindargs(m, params, args) == Letbindings(m, <<>>, params, args)

-----------------------------------------------------------------------------
(* Concatenation and quotes. *)

Pairs(s, t) == [k \in 1 .. Len(s) * Len(t) |->
                  <<((k - 1) \div Len(t)) + 1, ((k - 1) % Len(t)) + 1>>]

Concat(m, left, right) ==
  LET l == Terms(m.heap, left)
      r == Terms(m.heap, right)
      p == Pairs(l, r)
  IN  Made(m, [k \in DOMAIN p |-> l[p[k][1]] \o r[p[k][2]]])

Flags(quote, term) == IF "all" \in DOMAIN quote THEN [i \in DOMAIN term |-> quote.all] ELSE quote.each

Qcat_Second(quote1, quote2, term1, term2) ==      \* mutant: one length for both
  IF "all" \in DOMAIN quote1 /\ quote1 = quote2 THEN quote1
  ELSE [each |-> Flags(quote1, term1) \o Flags(quote2, term1)]

\* qcat
Qcat(quote1, quote2, term1, term2) ==
  IF "all" \in DOMAIN quote1 /\ quote1 = quote2 THEN quote1
  ELSE [each |-> Flags(quote1, term1) \o Flags(quote2, term2)]

Qconcat(l, r, quotes1, quotes2) ==
  LET p == Pairs(l, r) IN
  [k \in DOMAIN p |-> Qcat(quotes1[p[k][1]], quotes2[p[k][2]], l[p[k][1]], r[p[k][2]])]

\* subscript, with subscripts that are ascending or not but no ranges: Subscript
\* has it whole.  Its result is new.
Index(word) == IF word = <<"1">> THEN 1 ELSE IF word = <<"2">> THEN 2 ELSE 0

Subscript(m, l, subs) ==
  LET terms == Terms(m.heap, l)
      given == Terms(m.heap, subs)
  IN  IF \E i \in DOMAIN given : Index(given[i]) = 0 THEN Failed(m)
      ELSE LET there == SelectSeq(given, LAMBDA s : Index(s) <= Len(terms))
           IN  Made(m, [i \in DOMAIN there |-> terms[Index(there[i])]])

-----------------------------------------------------------------------------
(* Globbing. *)

Wild(quote, term) == \E i \in DOMAIN term : term[i] = "*" /\ Flags(quote, term)[i] = "r"

Linked(m, cells) ==
  [m EXCEPT !.heap = FoldLeft(LAMBDA h, k : [h EXCEPT ![cells[k]].next = cells[k + 1]], @,
                              [k \in 1 .. Len(cells) - 1 |-> k])]

\* glob0: the words without wildcards and those that match no file stay, in their
\* own cells, and the others' files come between them.
Glob0(m, l, quotes) ==
  LET cells == Cells(m.heap, l)
      Step(r, i) ==
        LET term  == m.heap[cells[i]].term
            found == IF Wild(quotes[i], term) THEN Files(term) ELSE <<>>
            new   == Made(r.m, found)
        IN  IF found = <<>> THEN [r EXCEPT !.cells = Append(@, cells[i])]
            ELSE [m |-> new.m, cells |-> r.cells \o Cells(new.m.heap, new.list)]
      all == FoldLeft(Step, [m |-> m, cells |-> <<>>], [i \in DOMAIN cells |-> i])
  IN  [m |-> Linked(all.m, all.cells), list |-> all.cells[1]]

\* glob
Glob(m, l, quotes) ==
  LET terms == Terms(m.heap, l) IN
  IF \E i \in DOMAIN terms : Wild(quotes[i], terms[i]) THEN Glob0(m, l, quotes)
  ELSE [m |-> m, list |-> l]

-----------------------------------------------------------------------------
(* Evaluation.  Each of the functions calls the others through Evaluated,   *)
(* whose first argument says which.                                         *)

RECURSIVE Evaluated(_, _, _, _)

\* case nVar: the variables one after the other, each as a copy.
Variables(m, env, names) ==
  FoldLeft(LAMBDA r, name : LET copy == Listcopy(r.m, Varlookup(r.m, env, name))
                            IN  Glued(copy.m, r.list, copy.list),
           [m |-> m, list |-> 0], Terms(m.heap, names))

\* case nVarsub
VarSub(m, env, names, subs) ==
  IF Len(Terms(m.heap, names)) # 1 THEN Failed(m)
  ELSE LET l == Varlookup(m, env, Terms(m.heap, names)[1])
           s == Evaluated("glom1", subs, env, m)
       IN  IF s.m.failed THEN s ELSE Subscript(s.m, l, s.list)

\* case nCall: what the command returns may be the list of a variable.
Call_Shared(r) == r                               \* mutant: without the copy

Call(r) == Listcopy(r.m, r.list)

\* glom1; the loop is over the parts of an nList.
Glom1(tree, env, m) ==
  CASE tree.kind \in {"word", "qword"} -> Made(m, <<tree.word>>)
    [] tree.kind = "var"    -> LET r == Evaluated("glom1", tree.of, env, m) IN Variables(r.m, env, r.list)
    [] tree.kind = "varsub" -> LET r == Evaluated("glom1", tree.of, env, m)
                               IN  VarSub(r.m, env, r.list, tree.subs)
    [] tree.kind = "call"   -> Call(Evaluated("walk", tree.body, env, m))
    [] tree.kind = "list"   -> LET head == Evaluated("glom1", tree.head, env, m)
                                   rest == Evaluated("glom1", tree.rest, env, head.m)
                               IN  Glued(rest.m, head.list, rest.list)
    [] tree.kind = "concat" -> LET left  == Evaluated("glom1", tree.left, env, m)
                                   right == Evaluated("glom1", tree.right, env, left.m)
                               IN  Concat(right.m, left.list, right.list)

\* glom2: the same, with a quote for each word; what is not a word is quoted.
Glom2(tree, env, m) ==
  LET With(r, quotes) == [m |-> r.m, list |-> r.list, quotes |-> quotes] IN
  CASE tree.kind = "word"   -> With(Made(m, <<tree.word>>), <<UNQUOTED>>)
    [] tree.kind = "list"   -> LET head == Evaluated("glom2", tree.head, env, m)
                                   rest == Evaluated("glom2", tree.rest, env, head.m)
                               IN  With(Glued(rest.m, head.list, rest.list), head.quotes \o rest.quotes)
    [] tree.kind = "concat" -> LET left  == Evaluated("glom2", tree.left, env, m)
                                   right == Evaluated("glom2", tree.right, env, left.m)
                                   h     == right.m.heap
                               IN  With(Concat(right.m, left.list, right.list),
                                        Qconcat(Terms(h, left.list), Terms(h, right.list),
                                                left.quotes, right.quotes))
    [] OTHER                -> LET r == Evaluated("glom1", tree, env, m)
                               IN  With(r, [i \in DOMAIN Terms(r.m.heap, r.list) |-> QUOTED])

\* forloop: in each turn each name takes the next value, the names after the first
\* from the same list, until there are none.
Forloop(body, env, m, names, values) ==
  LET Take(r, i) ==
        IF r.values = 0
        THEN LET b == Mkbinding(r, names[i], 0) IN [m |-> b.m, env |-> b.env, values |-> 0]
        ELSE LET one == Made(r.m, <<r.m.heap[r.values].term>>)
                 b   == Mkbinding([m |-> one.m, env |-> r.env], names[i], one.list)
             IN  [m |-> b.m, env |-> b.env, values |-> r.m.heap[r.values].next]
      Turn(r, k) ==
        LET taken == FoldLeft(Take, [m |-> r.m, env |-> env, values |-> r.values], [i \in DOMAIN names |-> i])
            ran   == Evaluated("walk", body, taken.env, taken.m)
        IN  IF r.values = 0 \/ r.m.failed THEN r
            ELSE [m |-> ran.m, list |-> ran.list, values |-> taken.values]
      end == FoldLeft(Turn, [m |-> m, list |-> ltrue, values |-> values],
                      [k \in DOMAIN Cells(m.heap, values) |-> k])
  IN  [m |-> end.m, list |-> end.list]

\* The commands of walk that bind, with the list that they return; a call is that of
\* a function, and any other command is the one of $&result.
Walk(command, env, m) ==
  LET names  == Evaluated("glom1", command.names, env, m)
      words  == Terms(names.m.heap, names.list)
      glom   == Evaluated("glom2", command.values, env, names.m)
      values == Glob(glom.m, glom.list, glom.quotes)
      Body(r) == Evaluated("walk", command.body, r.env, r.m)
  IN  CASE names.m.failed -> names
        [] command.kind = "assign" /\ names.list = 0 -> Failed(names.m)
        [] OTHER -> CASE values.m.failed -> values
                      [] command.kind = "result" -> values
                      [] names.list = 0          -> Failed(values.m)
                      [] command.kind = "assign" -> [m    |-> Assigned(values.m, env, words, values.list),
                                                     list |-> values.list]
                      [] command.kind = "let"    -> Body(Letbindings(values.m, env, words, values.list))
                      [] command.kind = "call"   -> Body(Bindargs(values.m, words, values.list))
                      [] command.kind = "for"    -> Forloop(command.body, env, values.m, words, values.list)

Evaluated(how, tree, env, m) ==
  CASE m.failed \/ tree = Nil -> [m |-> m, list |-> 0, quotes |-> <<>>]
    [] how = "glom1" -> Glom1(tree, env, m)
    [] how = "glom2" -> Glom2(tree, env, m)
    [] how = "walk"  -> Walk(tree, env, m)

-----------------------------------------------------------------------------
Machine == [heap |-> heap, store |-> store, binds |-> <<>>, bound |-> bound, failed |-> FALSE]

Becomes(m) == heap' = m.heap /\ store' = m.store /\ bound' = m.bound

Init ==
  /\ heap = <<[term |-> <<"0">>, next |-> 0]>> /\ store = [v \in Names |-> 0]
  /\ bound = {[list |-> ltrue, value |-> <<<<"0">>>>]} /\ done = 0 /\ outcome = [kind |-> "none"]

\* A command of the script.
Run ==
  /\ done < MaxCommands
  /\ \E c \in Commands : \E r \in {Evaluated("walk", c, <<>>, Machine)} :
       /\ Becomes(r.m)
       /\ outcome' = [kind |-> "command", failed |-> r.m.failed]
  /\ done' = done + 1

\* The words of a command, before and after globbing.
Words ==
  /\ done < MaxCommands
  /\ \E t \in Trees : \E r \in {Evaluated("glom2", t, <<>>, Machine)} :
     \E g \in {Glob(r.m, r.list, r.quotes)} :
       /\ Becomes(g.m)
       /\ outcome' = [kind |-> "words", tree |-> t, failed |-> r.m.failed,
                      terms |-> Terms(r.m.heap, r.list), quotes |-> r.quotes,
                      globbed |-> Terms(g.m.heap, g.list)]
  /\ done' = MaxCommands

Next == Run \/ Words

Spec == Init /\ [][Next]_vars

-----------------------------------------------------------------------------
TypeOK ==
  /\ \A i \in DOMAIN heap : heap[i].next \in 0 .. Len(heap)
  /\ \A v \in Names : store[v] \in 0 .. Len(heap)
  /\ done \in 0 .. MaxCommands

\* A list that was bound to a name keeps its elements, whatever is glued together
\* afterwards and whoever else holds the list: only assignment changes a variable.
ListsKeep == \A b \in bound : Terms(heap, b.list) = b.value

\* Every word has a quote that says r or q of each of its characters (glob asserts
\* their lengths).
QuotesFit ==
  outcome.kind = "words" /\ ~outcome.failed =>
    /\ Len(outcome.terms) = Len(outcome.quotes)
    /\ \A i \in DOMAIN outcome.terms : Len(Flags(outcome.quotes[i], outcome.terms[i])) = Len(outcome.terms[i])

-----------------------------------------------------------------------------
(* What words stand for, by their characters: each is raw or quoted. *)

Spelled(w) == [i \in DOMAIN w |-> w[i].c]

Marked(words, q) == [k \in DOMAIN words |-> [i \in DOMAIN words[k] |-> [c |-> words[k][i], q |-> q]]]

RECURSIVE Value(_)
Value(tree) ==
  LET Stored(w) == IF Spelled(w) \in Names THEN Marked(Terms(heap, store[Spelled(w)]), "q") ELSE <<>> IN
  CASE tree = Nil            -> <<>>
    [] tree.kind = "word"    -> Marked(<<tree.word>>, "r")
    [] tree.kind = "qword"   -> Marked(<<tree.word>>, "q")
    [] tree.kind = "list"    -> Value(tree.head) \o Value(tree.rest)
    [] tree.kind = "var"     -> FlattenSeq([i \in DOMAIN Value(tree.of) |-> Stored(Value(tree.of)[i])])
    [] tree.kind = "varsub"  -> LET l == Stored(Value(tree.of)[1])
                                    n == [i \in DOMAIN Value(tree.subs) |-> Index(Spelled(Value(tree.subs)[i]))]
                                IN  FlattenSeq([i \in DOMAIN n |-> IF n[i] <= Len(l) THEN <<l[n[i]]>> ELSE <<>>])
    [] tree.kind = "concat"  -> LET l == Value(tree.left)
                                    r == Value(tree.right)
                                IN  FlattenSeq([i \in DOMAIN l |-> [j \in DOMAIN r |-> l[i] \o r[j]]])

\* A pattern becomes its files where there are some; a word stays as it is spelled.
Globbed(words) ==
  FlattenSeq([i \in DOMAIN words |->
    LET w == words[i] IN
    IF (\E k \in DOMAIN w : w[k] = [c |-> "*", q |-> "r"]) /\ Files(Spelled(w)) # <<>>
    THEN Files(Spelled(w)) ELSE <<Spelled(w)>>])

\* The words of a command are those that it is written with, each character quoted
\* or not as it was there, and only a wildcard that was not quoted finds files.
WordsRight ==
  outcome.kind = "words" /\ ~outcome.failed =>
    LET v == Value(outcome.tree) IN
    /\ outcome.terms = [i \in DOMAIN v |-> Spelled(v[i])]
    /\ \A i \in DOMAIN v : Flags(outcome.quotes[i], outcome.terms[i]) = [k \in DOMAIN v[i] |-> v[i][k].q]
    /\ outcome.globbed = Globbed(v)
=============================================================================
