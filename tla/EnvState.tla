------------------------------ MODULE EnvState ------------------------------
(***************************************************************************)
(* The state of Env, and what a command gets of it.                        *)
(***************************************************************************)
EXTENDS Integers

CONSTANTS
  Names,       \* names of variables
  Settable,    \* those that have a settor, set-name
  Locals,      \* those that the program binds with local
  Hideable,    \* those that it puts on $noexport
  Internal,    \* those of initial.es, which hidevariables marked
  Imported,    \* those the shell is started with
  Preset,      \* those setenv sets
  Words,       \* values that are words
  Values,      \* the values a variable is given
  Cells,       \* what cell is bound to
  None, Clo,   \* the empty list, which removes the variable; a closure
  MaxNested    \* bound: scopes and settors that run

ASSUME NamesAssumption ==
  /\ Settable \subseteq Names /\ Locals \subseteq Names /\ Hideable \subseteq Names
  /\ Internal \subseteq Names /\ Imported \subseteq Names /\ Preset \subseteq Names
ASSUME ValuesAssumption ==
  /\ None \notin Words /\ Clo \notin Words /\ None # Clo
  /\ Words # {} /\ Cells # {}
  /\ Values \in [Names -> SUBSET (Words \cup {None, Clo})]
ASSUME DepthAssumption == MaxNested \in Nat

VARIABLES
  table,           \* name -> the Var of the table
  cell,            \* defn of the lexical binding
  noexport,        \* the names on the list
  isdirty, rebound,
  sortenv,         \* name -> its string in the vector, if any
  nested,          \* the scopes of local and the settors that run, innermost last
  importing        \* what initenv has yet to call the settor for

-----------------------------------------------------------------------------
\* str(ENV_FORMAT, ...) writes the bindings of a closure with it.
Encode(v, c) == IF v = Clo THEN <<Clo, c>> ELSE <<v>>

NoString == <<>>

Isexported(n) == n \notin noexport

\* Whether mkenv0 puts the variable in the vector, and makes its string.
Goes(n) == table[n].defn # None /\ ~table[n].internal /\ Isexported(n)

Remade(n) == table[n].env = NoString \/ (rebound /\ table[n].binds)

-----------------------------------------------------------------------------
\* What the variables say the environment is.
Fresh == [n \in Names |-> IF Goes(n) THEN Encode(table[n].defn, cell) ELSE NoString]

\* A command that starts now gets the variables as they are: mkenv makes the
\* vector anew, or the one it has is right.
EnvFresh == isdirty \/ rebound \/ sortenv = Fresh

\* The string of a variable that may go to the vector is made anew, or is right.
EntriesFresh ==
  \A n \in Names : table[n].defn # None /\ Isexported(n) =>
    Remade(n) \/ table[n].env = Encode(table[n].defn, cell)

\* A command that starts now gets no variable that is on $noexport, whatever
\* settors, collections and libraries do.
NothingLeaks == isdirty \/ rebound \/ \A n \in noexport : sortenv[n] = NoString

=============================================================================
