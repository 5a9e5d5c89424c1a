-------------------------------- MODULE Env ---------------------------------
(***************************************************************************)
(* var.c: the environment that commands get.  mkenv keeps it in sortenv    *)
(* and makes it anew only where isdirty or rebound says that a variable or *)
(* a lexical binding changed; and every variable keeps its own encoded     *)
(* string, env, which mkenv0 makes anew only where it was dropped or holds *)
(* a closure whose bindings may have changed.  In between settors run,     *)
(* which may do all of this themselves, run commands included.             *)
(*                                                                         *)
(* A value is a list of plain words or a closure; all closures here close  *)
(* over the same lexical binding, cell.                                    *)
(***************************************************************************)
EXTENDS EnvState, Sequences, SequencesExt

all == <<table, cell, noexport, isdirty, rebound, sortenv, nested, importing>>

AllValues == Words \cup {None, Clo}

\* A Var, newly defined; the table's NULL.
MkVar(v) == [defn |-> v, binds |-> v = Clo, internal |-> FALSE, env |-> NoString]

Absent == MkVar(None)

Init ==
  /\ \E c \in Cells : cell = c
  /\ \E v \in Words :
       table = [n \in Names |-> IF n \in Imported THEN MkVar(v)
                                ELSE IF n \in Internal THEN [MkVar(v) EXCEPT !.internal = TRUE]
                                ELSE Absent]
  /\ noexport  = {}
  /\ isdirty   = TRUE
  /\ rebound   = TRUE
  /\ sortenv   = [n \in Names |-> NoString]
  /\ nested     = <<>>
  /\ importing = Imported

-----------------------------------------------------------------------------
Top == Last(nested)

TopIs(kind) == nested # <<>> /\ Top.kind = kind

\* The program runs, or a settor does.
Alive == ~TopIs("dead")

Running == Alive /\ (nested = <<>> => importing = {})

Frame(kind, n) == [kind |-> kind, name |-> n, defn |-> None, binds |-> FALSE, internal |-> FALSE]

\* initenv holds the Var whose settor it calls: when the table drops that one, what
\* the settor returns is not seen again.
Dropped(n, s) ==
  IF s # <<>> /\ s[1].kind = "import" /\ s[1].name = n THEN [s EXCEPT ![1].kind = "lost"] ELSE s

Kept(n, v, s) == IF v = None THEN Dropped(n, s) ELSE s

\* isdirty = TRUE, if the variable is exported.
Dirty(n) == isdirty' = (isdirty \/ Isexported(n))

\* The end of vardef0.
Define(n, v) == table' = [table EXCEPT ![n] = IF v = None THEN Absent ELSE MkVar(v)]

\* name = value, of a variable with no settor.
Assign(n, v) ==
  /\ Running /\ n \notin Settable
  /\ Dirty(n)
  /\ Define(n, v)
  /\ nested' = Kept(n, v, nested)
  /\ UNCHANGED <<cell, noexport, rebound, sortenv, importing>>

\* name = value calls the settor, and stores what it returns.
CallSettor(n) ==
  /\ Running /\ n \in Settable
  /\ Len(nested) < MaxNested
  /\ nested' = Append(nested, Frame("assign", n))
  /\ UNCHANGED <<table, cell, noexport, isdirty, rebound, sortenv, importing>>

AssignEnd(v) ==
  /\ TopIs("assign")
  /\ Dirty(Top.name)
  /\ Define(Top.name, v)
  /\ nested' = Kept(Top.name, v, Front(nested))
  /\ UNCHANGED <<cell, noexport, rebound, sortenv, importing>>

\* An assignment to the lexical variable.
Rebind_Quiet(c) ==                               \* mutant: rebound is not set
  /\ Running
  /\ cell' = c
  /\ UNCHANGED <<table, noexport, isdirty, rebound, sortenv, nested, importing>>

Rebind(c) ==
  /\ Running
  /\ cell' = c
  /\ rebound' = TRUE
  /\ UNCHANGED <<table, noexport, isdirty, sortenv, nested, importing>>

\* The middle of varpush: what the variable was is saved in the Push.
Saved(n) == [kind |-> "scope", name |-> n, defn |-> table[n].defn,
             binds |-> table[n].binds, internal |-> table[n].internal]

\* varpush, of a variable with no settor.
Varpush(n, v) ==
  /\ Running /\ n \in Locals \ Settable
  /\ Len(nested) < MaxNested
  /\ Dirty(n)
  /\ table' = [table EXCEPT ![n] = MkVar(v)]
  /\ nested' = Append(nested, Saved(n))
  /\ UNCHANGED <<cell, noexport, rebound, sortenv, importing>>

\* varpush of a variable with a settor, up to the settor's call, and after it.
VarpushSettor(n) ==
  /\ Running /\ n \in Locals \cap Settable
  /\ Len(nested) < MaxNested
  /\ Dirty(n)
  /\ nested' = Append(nested, Frame("bind", n))
  /\ UNCHANGED <<table, cell, noexport, rebound, sortenv, importing>>

VarpushEnd(v) ==
  /\ TopIs("bind")
  /\ table' = [table EXCEPT ![Top.name] = MkVar(v)]
  /\ nested' = Append(Front(nested), Saved(Top.name))
  /\ UNCHANGED <<cell, noexport, isdirty, rebound, sortenv, importing>>

\* The end of varpop: the flags are those of the Push, whatever the value.
Restore_KeepEnv(push, v) ==                      \* mutant: the string stays
  table' = [table EXCEPT ![push.name] =
    IF v = None THEN Absent
    ELSE [defn |-> v, binds |-> push.binds, internal |-> push.internal, env |-> @.env]]

Restore(push, v) ==
  table' = [table EXCEPT ![push.name] =
    IF v = None THEN Absent
    ELSE [defn |-> v, binds |-> push.binds, internal |-> push.internal, env |-> NoString]]

\* varpop, of a variable with no settor.
Varpop ==
  /\ TopIs("scope") /\ Top.name \notin Settable
  /\ Dirty(Top.name)
  /\ Restore(Top, Top.defn)
  /\ nested' = Kept(Top.name, Top.defn, Front(nested))
  /\ UNCHANGED <<cell, noexport, rebound, sortenv, importing>>

\* varpop of a variable with a settor, up to the settor's call, and after it.
VarpopSettor ==
  /\ TopIs("scope") /\ Top.name \in Settable
  /\ Dirty(Top.name)
  /\ nested' = [nested EXCEPT ![Len(nested)].kind = "restore"]
  /\ UNCHANGED <<table, cell, noexport, rebound, sortenv, importing>>

VarpopEnd(v) ==
  /\ TopIs("restore")
  /\ Restore(Top, v)
  /\ nested' = Kept(Top.name, v, Front(nested))
  /\ UNCHANGED <<cell, noexport, isdirty, rebound, sortenv, importing>>

\* The settor throws: the assignment or the scope is given up, while varpop
\* goes on with the saved value.  (From initenv it ends the shell.)
SettorFail ==
  /\ \/ /\ TopIs("assign") \/ TopIs("bind")
        /\ table' = table
        /\ nested' = Front(nested)
     \/ /\ TopIs("restore")
        /\ Restore(Top, Top.defn)
        /\ nested' = Kept(Top.name, Top.defn, Front(nested))
  /\ UNCHANGED <<cell, noexport, isdirty, rebound, sortenv, importing>>

Setnoexport_Clean(list) ==                       \* mutant: isdirty is not set
  /\ Running
  /\ noexport' = list
  /\ UNCHANGED <<table, cell, isdirty, rebound, sortenv, nested, importing>>

\* $noexport is assigned.
Setnoexport(list) ==
  /\ Running
  /\ noexport' = list
  /\ isdirty' = TRUE
  /\ UNCHANGED <<table, cell, rebound, sortenv, nested, importing>>

\* setenv, as libraries call it: vardef0 with startup set.
Setenv(n, v) ==
  /\ Running
  /\ Define(n, v)
  /\ UNCHANGED <<cell, noexport, isdirty, rebound, sortenv, nested, importing>>

\* initenv, when the variables are in the table: the settors, if any.  It reads the
\* defn of a Var that is not there any more if another settor has removed it.
Import(n) ==
  /\ nested = <<>> /\ n \in importing
  /\ \/ /\ n \in Settable
        /\ nested' = <<Frame(IF table[n].defn = None THEN "dead" ELSE "import", n)>>
     \/ /\ n \notin Settable
        /\ nested' = nested
  /\ importing' = importing \ {n}
  /\ UNCHANGED <<table, cell, noexport, isdirty, rebound, sortenv>>

ImportEnd_ByName(v) ==                           \* mutant: the variable is looked up again
  /\ TopIs("import") \/ TopIs("lost")
  /\ table' = [table EXCEPT ![Top.name].defn = v]
  /\ nested' = Front(nested)
  /\ UNCHANGED <<cell, noexport, isdirty, rebound, sortenv, importing>>

ImportEnd(v) ==
  /\ \/ TopIs("import") /\ table' = [table EXCEPT ![Top.name].defn = v]
     \/ TopIs("lost") /\ table' = table
  /\ nested' = Front(nested)
  /\ UNCHANGED <<cell, noexport, isdirty, rebound, sortenv, importing>>

-----------------------------------------------------------------------------
Env0(n) == IF Goes(n) /\ Remade(n) THEN Encode(table[n].defn, cell) ELSE table[n].env

\* VarScan, of a collection.
Scanned(n, env) == IF table[n].binds /\ rebound THEN NoString ELSE env

\* mkenv, for a command; gcenable may collect before rebound is reset.
Mkenv ==
  /\ Running
  /\ IF isdirty \/ rebound
     THEN /\ sortenv' = [n \in Names |-> IF Goes(n) THEN Env0(n) ELSE NoString]
          /\ \/ table' = [n \in Names |-> [table[n] EXCEPT !.env = Env0(n)]]
             \/ table' = [n \in Names |-> [table[n] EXCEPT !.env = Scanned(n, Env0(n))]]
          /\ isdirty' = FALSE
          /\ rebound' = FALSE
     ELSE UNCHANGED <<table, isdirty, rebound, sortenv>>
  /\ UNCHANGED <<cell, noexport, nested, importing>>

\* A collection at any other time.
Collect ==
  /\ Alive
  /\ table' = [n \in Names |-> [table[n] EXCEPT !.env = Scanned(n, @)]]
  /\ UNCHANGED <<cell, noexport, isdirty, rebound, sortenv, nested, importing>>

Next ==
  \/ \E n \in Names : CallSettor(n) \/ VarpushSettor(n) \/ Import(n)
  \/ \E n \in Names : \E v \in Values[n] : Assign(n, v) \/ Varpush(n, v)
  \/ \E n \in Preset : \E v \in Words : Setenv(n, v)
  \/ nested # <<>> /\ \E v \in Values[Top.name] :
       AssignEnd(v) \/ VarpushEnd(v) \/ VarpopEnd(v) \/ ImportEnd(v)
  \/ Varpop \/ VarpopSettor \/ SettorFail
  \/ \E c \in Cells : Rebind(c)
  \/ \E list \in SUBSET Hideable : Setnoexport(list)
  \/ Mkenv \/ Collect

Spec == Init /\ [][Next]_all

\* varpush, varpop and initenv mark the environment before they call a settor, and
\* change the variable after it.
Changes == \E i \in DOMAIN nested : nested[i].kind \notin {"scope", "assign"}

\* A step of a program that keeps to four rules.  The settors of initial.es keep to
\* the first two: while varpush, varpop or initenv waits for a settor, the vector is
\* not made; and what a settor returns to the last two has the flag of a closure if
\* it is one.  The others are for the rest of the program: a closure with a string
\* does not come off $noexport; and setenv is called where the vector is to be made
\* anyway, or for a name that is not exported.
Orderly ==
  /\ Changes => (isdirty => isdirty')
  /\ TopIs("restore") \/ TopIs("import") =>
       \A n \in Names : table'[n].defn = Clo => table'[n].binds
  /\ \A n \in noexport \ noexport' : table[n].defn = Clo => table[n].env = NoString
  /\ \A n \in Preset, v \in Words : Setenv(n, v) => isdirty \/ rebound \/ ~Isexported(n)

OrderlySpec == Init /\ [][Next /\ Orderly]_all

-----------------------------------------------------------------------------
Strings == {NoString} \cup {<<v>> : v \in Words} \cup {<<Clo, c>> : c \in Cells}

Frames == [kind : {"scope", "assign", "bind", "restore", "import", "lost", "dead"}, name : Names,
           defn : AllValues, binds : BOOLEAN, internal : BOOLEAN]

Vars == [defn : AllValues, binds : BOOLEAN, internal : BOOLEAN, env : Strings]

TypeOK ==
  /\ table \in [Names -> Vars]
  /\ cell \in Cells
  /\ noexport \subseteq Hideable
  /\ isdirty \in BOOLEAN /\ rebound \in BOOLEAN
  /\ sortenv \in [Names -> Strings]
  /\ nested \in Seq(Frames)
  /\ importing \subseteq Imported

=============================================================================
