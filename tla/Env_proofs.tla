----------------------------- MODULE Env_proofs ------------------------------
(***************************************************************************)
(* Proofs about Env, for every set of variables, values and bindings and   *)
(* settors nested to every depth.                                          *)
(***************************************************************************)
EXTENDS Env, SequenceTheorems, TLAPS

USE DEF AllValues

-----------------------------------------------------------------------------
(* Facts about the stack and about one variable. *)

\* The innermost frame, and the others when it is left.
LEMMA Frames1 ==
  ASSUME NEW S, NEW s \in Seq(S), s # <<>>
  PROVE  /\ Last(s) \in S
         /\ Last(s) = s[Len(s)] /\ Len(s) \in 1 .. Len(s)
         /\ Front(s) \in Seq(S)
         /\ Len(Front(s)) = Len(s) - 1
         /\ \A i \in 1 .. Len(s) - 1 : Front(s)[i] = s[i]
<1>1. Len(s) \in Nat \ {0}
  BY EmptySeq, LenProperties
<1>2. \A i \in 1 .. Len(s) - 1 : s[i] \in S
  BY <1>1, ElementOfSeq
<1>3. s[Len(s)] \in S
  BY <1>1, ElementOfSeq
<1>. DEFINE m == Len(s) - 1
            f == SubSeq(s, 1, m)
<1>4. m \in Nat
  BY <1>1
<1>5. /\ f \in Seq(S)
      /\ Len(f) = IF 1 <= m THEN m - 1 + 1 ELSE 0
      /\ \A i \in 1 .. m - 1 + 1 : f[i] = s[1 + i - 1]
  <2>1. m \in Int /\ \A i \in 1 .. m : s[i] \in S
    BY <1>1, <1>2
  <2>. HIDE DEF m
  <2>2. QED
    BY <2>1, SubSeqProperties
<1>6. Front(s) = f /\ Last(s) = s[Len(s)]
  BY DEF Front, Last
<1>. HIDE DEF f
<1>7. Len(f) = m /\ \A i \in 1 .. m : f[i] = s[i]
  <2>. HIDE DEF m
  <2>1. CASE m = 0
    BY <1>5, <2>1
  <2>2. CASE m # 0
    <3>1. 1 <= m /\ m - 1 + 1 = m
      BY <1>4, <2>2
    <3>2. \A i \in 1 .. m : 1 + i - 1 = i
      BY <1>4
    <3>3. QED
      BY <1>5, <3>1, <3>2
  <2>3. QED
    BY <2>1, <2>2
<1>8. QED
  BY <1>1, <1>3, <1>5, <1>6, <1>7

LEMMA MkVarType ==
  ASSUME NEW v \in AllValues
  PROVE  /\ MkVar(v) \in Vars
         /\ MkVar(v).defn = v /\ MkVar(v).binds = (v = Clo)
         /\ MkVar(v).internal = FALSE /\ MkVar(v).env = NoString
BY DEF MkVar, Vars, Strings, NoString

LEMMA AbsentType == Absent \in Vars /\ Absent = MkVar(None)
BY MkVarType DEF Absent

LEMMA ValuesType ==
  ASSUME NEW n \in Names, NEW v \in Values[n]
  PROVE  v \in AllValues
BY ValuesAssumption

LEMMA FrameType ==
  ASSUME NEW kind \in {"assign", "bind", "import", "dead"}, NEW n \in Names
  PROVE  Frame(kind, n) \in Frames
BY DEF Frame, Frames

LEMMA SavedType ==
  ASSUME TypeOK, NEW n \in Names
  PROVE  Saved(n) \in Frames
BY DEF TypeOK, Saved, Frames, Vars

\* A frame is left.
LEMMA TopType ==
  ASSUME TypeOK, nested # <<>>
  PROVE  Top \in Frames /\ Top.name \in Names /\ Top.defn \in AllValues
         /\ Front(nested) \in Seq(Frames)
<1>1. Top \in Frames /\ Front(nested) \in Seq(Frames)
  BY Frames1 DEF TypeOK, Top
<1>2. QED
  BY <1>1 DEF Frames

LEMMA DefineType ==
  ASSUME TypeOK, NEW n \in Names, NEW v \in AllValues, Define(n, v)
  PROVE  table' \in [Names -> Vars]
BY MkVarType, AbsentType DEF TypeOK, Define

LEMMA RestoreType ==
  ASSUME TypeOK, NEW push \in Frames, NEW v \in AllValues, Restore(push, v)
  PROVE  table' \in [Names -> Vars]
<1>1. [defn |-> v, binds |-> push.binds, internal |-> push.internal, env |-> NoString] \in Vars
  BY DEF Frames, Vars, Strings, NoString
<1>2. QED
  BY <1>1, AbsentType DEF TypeOK, Restore

LEMMA EncodeType ==
  ASSUME TypeOK, NEW n \in Names
  PROVE  /\ table[n].defn # None => Encode(table[n].defn, cell) \in Strings
         /\ Env0(n) \in Strings
         /\ Scanned(n, Env0(n)) \in Strings /\ Scanned(n, table[n].env) \in Strings
<1>1. table[n].defn \in AllValues /\ table[n].env \in Strings /\ cell \in Cells
  BY DEF TypeOK, Vars
<1>2. table[n].defn # None => Encode(table[n].defn, cell) \in Strings
  BY <1>1 DEF Encode, Strings
<1>3. NoString \in Strings
  BY DEF Strings
<1>4. QED
  BY <1>1, <1>2, <1>3 DEF Env0, Goes, Scanned

\* A collection, and mkenv, only change the strings.
LEMMA StringsType ==
  ASSUME TypeOK, NEW f, \A n \in Names : f[n] \in Strings,
         table' = [n \in Names |-> [table[n] EXCEPT !.env = f[n]]]
  PROVE  /\ table' \in [Names -> Vars]
         /\ \A n \in Names : /\ table'[n].defn = table[n].defn
                            /\ table'[n].binds = table[n].binds
                            /\ table'[n].internal = table[n].internal
                            /\ table'[n].env = f[n]
<1>1. \A n \in Names : table[n] \in Vars
  BY DEF TypeOK
<1>2. \A n \in Names :
        LET w == [table[n] EXCEPT !.env = f[n]]
        IN  /\ w \in Vars /\ w.defn = table[n].defn /\ w.binds = table[n].binds
            /\ w.internal = table[n].internal /\ w.env = f[n]
  BY <1>1 DEF Vars
<1>3. QED
  BY <1>2

\* A frame whose variable is removed may be initenv's.
Same(frame, new) == new = frame \/ (frame.kind = "import" /\ new = [frame EXCEPT !.kind = "lost"])

LEMMA KeptType ==
  ASSUME NEW n \in Names, NEW v, NEW s \in Seq(Frames)
  PROVE  /\ Kept(n, v, s) \in Seq(Frames)
         /\ Len(Kept(n, v, s)) = Len(s)
         /\ \A i \in 1 .. Len(s) : Same(s[i], Kept(n, v, s)[i])
<1>1. CASE Kept(n, v, s) = s
  BY <1>1 DEF Same
<1>2. CASE Kept(n, v, s) # s
  <2>1. /\ s # <<>> /\ s[1].kind = "import"
        /\ Kept(n, v, s) = [s EXCEPT ![1] = [s[1] EXCEPT !.kind = "lost"]]
    BY <1>2 DEF Kept, Dropped
  <2>2. 1 \in 1 .. Len(s) /\ s[1] \in Frames
    <3>1. Len(s) \in Nat \ {0}
      BY <2>1, EmptySeq, LenProperties
    <3>2. 1 \in 1 .. Len(s)
      BY <3>1
    <3>3. QED
      BY <3>2, ElementOfSeq
  <2>. DEFINE e == [s[1] EXCEPT !.kind = "lost"]
  <2>3. e \in Frames
    BY <2>2 DEF Frames
  <2>4. Same(s[1], e)
    BY <2>1 DEF Same
  <2>. HIDE DEF e
  <2>5. /\ [s EXCEPT ![1] = e] \in Seq(Frames)
        /\ Len([s EXCEPT ![1] = e]) = Len(s)
        /\ \A j \in 1 .. Len(s) : [s EXCEPT ![1] = e][j] = IF j = 1 THEN e ELSE s[j]
    BY <2>2, <2>3, ExceptSeq
  <2>6. Kept(n, v, s) = [s EXCEPT ![1] = e]
    BY <2>1 DEF e
  <2>7. QED
    BY <2>4, <2>5, <2>6 DEF Same
<1>3. QED
  BY <1>1, <1>2

\* Every initial state, and every step, is well typed.
LEMMA TypingInit == Init => TypeOK
<1>. SUFFICES ASSUME Init PROVE TypeOK
  OBVIOUS
<1>1. PICK v \in Words :
        table = [n \in Names |-> IF n \in Imported THEN MkVar(v)
                                  ELSE IF n \in Internal THEN [MkVar(v) EXCEPT !.internal = TRUE]
                                  ELSE Absent]
  BY DEF Init
<1>2. MkVar(v) \in Vars /\ [MkVar(v) EXCEPT !.internal = TRUE] \in Vars /\ Absent \in Vars
  BY MkVarType, AbsentType DEF Vars
<1>3. table \in [Names -> Vars]
  BY <1>1, <1>2
<1>4. nested \in Seq(Frames) /\ sortenv \in [Names -> Strings]
  BY EmptySeq DEF Init, Strings
<1>5. QED
  BY <1>3, <1>4 DEF Init, TypeOK

LEMMA TypingStep == TypeOK /\ [Next]_all => TypeOK'
<1>. SUFFICES ASSUME TypeOK, [Next]_all PROVE TypeOK'
  OBVIOUS
<1>. USE DEF TypeOK
<1>1. ASSUME NEW n \in Names, NEW v \in Values[n], Assign(n, v) PROVE TypeOK'
  BY <1>1, ValuesType, DefineType, KeptType DEF Assign, Dirty, Isexported
<1>2. ASSUME NEW n \in Names, NEW v \in Values[n], Varpush(n, v) PROVE TypeOK'
  <2>1. table' \in [Names -> Vars]
    BY <1>2, ValuesType, MkVarType DEF Varpush
  <2>2. nested' \in Seq(Frames)
    BY <1>2, SavedType, AppendProperties DEF Varpush
  <2>3. QED
    BY <1>2, <2>1, <2>2 DEF Varpush, Dirty, Isexported
<1>3. ASSUME NEW n \in Names, CallSettor(n) PROVE TypeOK'
  BY <1>3, FrameType, AppendProperties DEF CallSettor
<1>4. ASSUME NEW n \in Names, VarpushSettor(n) PROVE TypeOK'
  <2>1. nested' \in Seq(Frames)
    BY <1>4, FrameType, AppendProperties DEF VarpushSettor
  <2>2. QED
    BY <1>4, <2>1 DEF VarpushSettor, Dirty, Isexported
<1>5. ASSUME NEW n \in Names, Import(n) PROVE TypeOK'
  <2>1. nested' = nested \/ nested' = <<Frame("import", n)>> \/ nested' = <<Frame("dead", n)>>
    BY <1>5 DEF Import
  <2>2. \A frame \in Frames : <<frame>> \in Seq(Frames)
    OBVIOUS
  <2>3. nested' \in Seq(Frames)
    BY <2>1, <2>2, FrameType
  <2>4. QED
    BY <1>5, <2>3 DEF Import
<1>6. ASSUME NEW n \in Preset, NEW v \in Words, Setenv(n, v) PROVE TypeOK'
  <2>1. table' \in [Names -> Vars]
    BY <1>6, DefineType, NamesAssumption DEF Setenv
  <2>2. QED
    BY <1>6, <2>1 DEF Setenv
<1>7. ASSUME nested # <<>>, NEW v \in Values[Top.name],
             AssignEnd(v) \/ VarpushEnd(v) \/ VarpopEnd(v) \/ ImportEnd(v)
      PROVE  TypeOK'
  <2>1. Top \in Frames /\ Top.name \in Names /\ Front(nested) \in Seq(Frames) /\ v \in AllValues
    BY <1>7, TopType, ValuesType
  <2>2. CASE AssignEnd(v)
    BY <2>1, <2>2, DefineType, KeptType DEF AssignEnd, Dirty, Isexported
  <2>3. CASE VarpushEnd(v)
    <3>1. table' \in [Names -> Vars]
      BY <2>1, <2>3, MkVarType DEF VarpushEnd
    <3>2. nested' \in Seq(Frames)
      BY <2>1, <2>3, SavedType, AppendProperties DEF VarpushEnd
    <3>3. QED
      BY <2>3, <3>1, <3>2 DEF VarpushEnd
  <2>4. CASE VarpopEnd(v)
    BY <2>1, <2>4, RestoreType, KeptType DEF VarpopEnd
  <2>5. CASE ImportEnd(v)
    <3>1. table' \in [Names -> Vars]
      BY <2>1, <2>5 DEF ImportEnd, Vars
    <3>2. QED
      BY <2>1, <2>5, <3>1 DEF ImportEnd
  <2>6. QED
    BY <1>7, <2>2, <2>3, <2>4, <2>5
<1>8. ASSUME Varpop PROVE TypeOK'
  <2>1. /\ Top \in Frames /\ Top.name \in Names /\ Top.defn \in AllValues
        /\ Front(nested) \in Seq(Frames)
    BY <1>8, TopType DEF Varpop, TopIs
  <2>2. QED
    BY <1>8, <2>1, RestoreType, KeptType DEF Varpop, Dirty, Isexported
<1>9. ASSUME VarpopSettor PROVE TypeOK'
  <2>1. Len(nested) \in 1 .. Len(nested) /\ nested[Len(nested)] \in Frames
    BY <1>9, Frames1 DEF VarpopSettor, TopIs
  <2>2. [nested[Len(nested)] EXCEPT !.kind = "restore"] \in Frames
    BY <2>1 DEF Frames
  <2>3. nested' = [nested EXCEPT ![Len(nested)] = [nested[Len(nested)] EXCEPT !.kind = "restore"]]
    BY <1>9 DEF VarpopSettor
  <2>4. nested' \in Seq(Frames)
    BY <2>1, <2>2, <2>3, ExceptSeq
  <2>5. QED
    BY <1>9, <2>4 DEF VarpopSettor, Dirty, Isexported
<1>10. ASSUME SettorFail PROVE TypeOK'
  <2>1. /\ Top \in Frames /\ Top.name \in Names /\ Top.defn \in AllValues
        /\ Front(nested) \in Seq(Frames)
    BY <1>10, TopType DEF SettorFail, TopIs
  <2>2. table' \in [Names -> Vars]
    BY <1>10, <2>1, RestoreType DEF SettorFail
  <2>3. nested' \in Seq(Frames)
    BY <1>10, <2>1, KeptType DEF SettorFail
  <2>4. QED
    BY <1>10, <2>2, <2>3 DEF SettorFail
<1>11. ASSUME NEW c \in Cells, Rebind(c) PROVE TypeOK'
  BY <1>11 DEF Rebind
<1>12. ASSUME NEW list \in SUBSET Hideable, Setnoexport(list) PROVE TypeOK'
  BY <1>12 DEF Setnoexport
<1>13. ASSUME Mkenv PROVE TypeOK'
  <2>. DEFINE f == [n \in Names |-> Env0(n)]
              g == [n \in Names |-> Scanned(n, Env0(n))]
  <2>1. \A n \in Names : f[n] \in Strings /\ g[n] \in Strings
    BY EncodeType
  <2>2. table' \in [Names -> Vars]
    <3>1. CASE table' = table
      BY <3>1
    <3>2. CASE table' = [n \in Names |-> [table[n] EXCEPT !.env = f[n]]]
      BY <2>1, <3>2, StringsType
    <3>3. CASE table' = [n \in Names |-> [table[n] EXCEPT !.env = g[n]]]
      BY <2>1, <3>3, StringsType
    <3>4. QED
      BY <1>13, <3>1, <3>2, <3>3 DEF Mkenv
  <2>3. sortenv' \in [Names -> Strings]
    <3>1. NoString \in Strings
      BY DEF Strings
    <3>2. QED
      BY <1>13, <3>1, EncodeType DEF Mkenv
  <2>4. QED
    BY <1>13, <2>2, <2>3 DEF Mkenv
<1>14. ASSUME Collect PROVE TypeOK'
  <2>. DEFINE f == [n \in Names |-> Scanned(n, table[n].env)]
  <2>1. table' = [n \in Names |-> [table[n] EXCEPT !.env = f[n]]]
    BY <1>14 DEF Collect
  <2>2. \A n \in Names : f[n] \in Strings
    BY EncodeType
  <2>3. table' \in [Names -> Vars]
    BY <2>1, <2>2, StringsType
  <2>4. QED
    BY <1>14, <2>3 DEF Collect
<1>15. CASE UNCHANGED all
  BY <1>15 DEF all
<1>16. QED
  BY <1>1, <1>2, <1>3, <1>4, <1>5, <1>6, <1>7, <1>8, <1>9, <1>10, <1>11, <1>12, <1>13,
     <1>14, <1>15 DEF Next

-----------------------------------------------------------------------------
(* The inductive invariant of an orderly program. *)

\* What waits for initenv's settor is at the bottom.
Kinds == {"import", "lost", "dead"}

VarsGood ==
  \A n \in Names : /\ table[n].defn = Clo => table[n].binds
                   /\ table[n].internal => table[n].env = NoString

\* Only a hidden closure keeps a string that is out of date and that no mark tells of.
StringsGood ==
  \A n \in Names : table[n].defn # None =>
    \/ table[n].env = NoString
    \/ table[n].env = Encode(table[n].defn, cell)
    \/ table[n].defn = Clo /\ (rebound \/ n \in noexport)

\* What varpush or varpop is about to change is marked.
Good(frame, dirty, hidden) ==
  /\ frame.defn = Clo => frame.binds
  /\ frame.kind \in {"bind", "restore"} => dirty \/ frame.name \in hidden

StackGood ==
  \A i \in 1 .. Len(nested) :
    Good(nested[i], isdirty, noexport) /\ (nested[i].kind \in Kinds => i = 1)

\* Until initenv is done there is no vector and no string.
Starting == importing # {} \/ (nested # <<>> /\ nested[1].kind \in Kinds)

Blank == isdirty /\ \A n \in Names : table[n].env = NoString

StartGood ==
  /\ Starting => Blank
  /\ importing # {} /\ nested # <<>> => nested[1].kind \in Kinds

OInv == VarsGood /\ StringsGood /\ EnvFresh /\ StackGood /\ StartGood

\* What the variables and marks of a step say.
Vary == VarsGood' /\ StringsGood' /\ EnvFresh' /\ (Starting => Blank')

LEMMA DomainStack ==
  ASSUME TypeOK
  PROVE  /\ DOMAIN nested = 1 .. Len(nested) /\ Len(nested) \in Nat
         /\ nested # <<>> => 1 \in 1 .. Len(nested)
         /\ \A i \in 1 .. Len(nested) : nested[i] \in Frames
<1>1. nested \in Seq(Frames)
  BY DEF TypeOK
<1>2. DOMAIN nested = 1 .. Len(nested) /\ Len(nested) \in Nat
  BY <1>1, LenProperties
<1>3. nested # <<>> => Len(nested) # 0
  BY <1>1, EmptySeq
<1>4. QED
  BY <1>1, <1>2, <1>3, ElementOfSeq

\* A variable is defined anew, where that is marked.
LEMMA OneVar ==
  ASSUME TypeOK, OInv,
         NEW n \in Names, NEW w \in Vars, w.env = NoString, w.defn = Clo => w.binds,
         table' = [table EXCEPT ![n] = w],
         isdirty => isdirty', isdirty' \/ rebound \/ n \in noexport,
         UNCHANGED <<cell, noexport, rebound, sortenv>>
  PROVE  Vary
<1>. USE DEF OInv
<1>1. table'[n] = w /\ \A m \in Names : m # n => table'[m] = table[m]
  BY DEF TypeOK
<1>2. VarsGood'
  BY <1>1 DEF VarsGood
<1>3. StringsGood'
  BY <1>1 DEF StringsGood
<1>4. EnvFresh'
  <2>1. CASE n \notin noexport
    BY <2>1 DEF EnvFresh
  <2>2. CASE n \in noexport
    <3>1. \A m \in Names : Goes(m)' = Goes(m) /\ (Goes(m) => table'[m] = table[m])
      BY <1>1, <2>2 DEF Goes, Isexported
    <3>2. Fresh' = Fresh
      BY <3>1 DEF Fresh
    <3>3. QED
      BY <3>2 DEF EnvFresh
  <2>3. QED
    BY <2>1, <2>2
<1>5. QED
  BY <1>1, <1>2, <1>3, <1>4 DEF Vary, StartGood, Blank

\* No variable changes.
LEMMA NoVar ==
  ASSUME OInv, UNCHANGED <<table, cell, noexport, rebound, sortenv>>, isdirty => isdirty'
  PROVE  Vary
<1>1. Fresh' = Fresh
  BY DEF Fresh, Goes, Isexported
<1>2. VarsGood' /\ StringsGood' /\ EnvFresh'
  BY <1>1 DEF OInv, VarsGood, StringsGood, EnvFresh
<1>3. QED
  BY <1>2 DEF OInv, Vary, StartGood, Blank

\* Frames stay, but for one that loses its variable; those that are new are no
\* import's.
LEMMA FramesGood ==
  ASSUME TypeOK, OInv, importing' \subseteq importing,
         Changes => (isdirty => isdirty'),
         noexport' = noexport \/ isdirty',
         \A i \in 1 .. Len(nested') :
           \/ i \in 1 .. Len(nested) /\ Same(nested[i], nested'[i])
           \/ /\ Good(nested'[i], isdirty', noexport') /\ nested'[i].kind \notin Kinds
              /\ i = 1 => IF nested = <<>> THEN importing = {} ELSE nested[1].kind \notin Kinds,
         Len(nested') \in Nat, nested' # <<>> => 1 \in 1 .. Len(nested'),
         Starting => Blank'
  PROVE  StackGood' /\ StartGood'
<1>. USE DEF OInv
<1>1. ASSUME NEW i \in 1 .. Len(nested'), i \in 1 .. Len(nested), Same(nested[i], nested'[i])
      PROVE  /\ Good(nested'[i], isdirty', noexport')
             /\ nested'[i].kind \in Kinds <=> nested[i].kind \in Kinds
  <2>1. nested[i] \in Frames /\ Good(nested[i], isdirty, noexport)
    BY <1>1, DomainStack DEF StackGood
  <2>2. /\ nested'[i].defn = nested[i].defn /\ nested'[i].binds = nested[i].binds
        /\ nested'[i].name = nested[i].name
        /\ \/ nested'[i].kind = nested[i].kind
           \/ nested[i].kind = "import" /\ nested'[i].kind = "lost"
    BY <1>1, <2>1 DEF Same, Frames
  <2>3. nested[i].kind \in {"bind", "restore"} => Changes
    BY <1>1, DomainStack DEF Changes
  <2>4. QED
    BY <2>1, <2>2, <2>3 DEF Good, Kinds
<1>2. StackGood'
  <2>1. ASSUME NEW i \in 1 .. Len(nested')
        PROVE  Good(nested'[i], isdirty', noexport') /\ (nested'[i].kind \in Kinds => i = 1)
    <3>1. CASE i \in 1 .. Len(nested) /\ Same(nested[i], nested'[i])
      BY <1>1, <3>1 DEF StackGood
    <3>2. CASE Good(nested'[i], isdirty', noexport') /\ nested'[i].kind \notin Kinds
      BY <3>2
    <3>3. QED
      BY <3>1, <3>2
  <2>2. QED
    BY <2>1 DEF StackGood, Good
<1>3. ASSUME nested' # <<>>
      PROVE  /\ nested'[1].kind \in Kinds => nested # <<>> /\ nested[1].kind \in Kinds
             /\ importing # {} => nested'[1].kind \in Kinds
  <2>1. 1 \in 1 .. Len(nested')
    BY <1>3
  <2>2. CASE 1 \in 1 .. Len(nested) /\ Same(nested[1], nested'[1])
    <3>1. nested # <<>>
      BY <2>2, EmptySeq, DomainStack DEF TypeOK
    <3>2. QED
      BY <1>1, <2>1, <2>2, <3>1 DEF StartGood
  <2>3. CASE /\ nested'[1].kind \notin Kinds
             /\ IF nested = <<>> THEN importing = {} ELSE nested[1].kind \notin Kinds
    BY <2>3 DEF StartGood
  <2>4. QED
    BY <2>1, <2>2, <2>3
<1>4. Starting' => Starting
  BY <1>3 DEF Starting
<1>5. QED
  BY <1>2, <1>3, <1>4 DEF StartGood

\* The shapes of a step's stack: a frame removed or lost, one more, or another
\* innermost one.
LEMMA Popped ==
  ASSUME TypeOK, nested # <<>>, NEW n \in Names, NEW v,
         nested' = Kept(n, v, Front(nested)) \/ nested' = Front(nested)
  PROVE  /\ Len(nested') \in Nat /\ (nested' # <<>> => 1 \in 1 .. Len(nested'))
         /\ \A i \in 1 .. Len(nested') : i \in 1 .. Len(nested) /\ Same(nested[i], nested'[i])
<1>1. nested \in Seq(Frames) /\ Len(nested) \in Nat
  BY DomainStack DEF TypeOK
<1>2. /\ Front(nested) \in Seq(Frames) /\ Len(Front(nested)) = Len(nested) - 1
      /\ \A i \in 1 .. Len(nested) - 1 : Front(nested)[i] = nested[i]
  BY <1>1, Frames1
<1>3. /\ nested' \in Seq(Frames) /\ Len(nested') = Len(nested) - 1
      /\ \A i \in 1 .. Len(nested') : Same(nested[i], nested'[i])
  <2>1. CASE nested' = Front(nested)
    BY <1>2, <2>1 DEF Same
  <2>2. CASE nested' = Kept(n, v, Front(nested))
    BY <1>2, <2>2, KeptType
  <2>3. QED
    BY <2>1, <2>2
<1>4. Len(nested') \in Nat /\ (nested' # <<>> => Len(nested') # 0)
  BY <1>3, EmptySeq, LenProperties
<1>5. QED
  BY <1>1, <1>3, <1>4

LEMMA Pushed ==
  ASSUME TypeOK, NEW frame \in Frames, nested' = Append(nested, frame)
  PROVE  /\ Len(nested') \in Nat /\ 1 \in 1 .. Len(nested')
         /\ \A i \in 1 .. Len(nested') :
              \/ i \in 1 .. Len(nested) /\ Same(nested[i], nested'[i])
              \/ nested'[i] = frame /\ (i = 1 => nested = <<>>)
<1>1. nested \in Seq(Frames) /\ Len(nested) \in Nat
  BY DomainStack DEF TypeOK
<1>2. /\ Len(nested') = Len(nested) + 1
      /\ \A i \in 1 .. Len(nested) : nested'[i] = nested[i]
      /\ nested'[Len(nested) + 1] = frame
  BY <1>1, AppendProperties
<1>3. Len(nested) = 0 => nested = <<>>
  BY <1>1, EmptySeq
<1>4. QED
  BY <1>1, <1>2, <1>3 DEF Same

LEMMA Replaced ==
  ASSUME TypeOK, nested # <<>>, NEW frame \in Frames,
         \/ nested' = Append(Front(nested), frame)
         \/ nested' = [nested EXCEPT ![Len(nested)] = frame]
  PROVE  /\ Len(nested') \in Nat /\ 1 \in 1 .. Len(nested')
         /\ \A i \in 1 .. Len(nested') :
              \/ i \in 1 .. Len(nested) /\ Same(nested[i], nested'[i])
              \/ nested'[i] = frame /\ (i = 1 => nested[1] = Top)
<1>1. nested \in Seq(Frames) /\ Len(nested) \in Nat \ {0}
  BY DomainStack DEF TypeOK
<1>2. /\ Top = nested[Len(nested)]
      /\ Front(nested) \in Seq(Frames) /\ Len(Front(nested)) = Len(nested) - 1
      /\ \A i \in 1 .. Len(nested) - 1 : Front(nested)[i] = nested[i]
  BY <1>1, Frames1 DEF Top
<1>3. /\ Len(nested') = Len(nested)
      /\ \A i \in 1 .. Len(nested) - 1 : nested'[i] = nested[i]
      /\ nested'[Len(nested)] = frame
  <2>1. CASE nested' = Append(Front(nested), frame)
    <3>1. /\ Len(nested') = Len(Front(nested)) + 1
          /\ \A i \in 1 .. Len(Front(nested)) : nested'[i] = Front(nested)[i]
          /\ nested'[Len(Front(nested)) + 1] = frame
      BY <1>2, <2>1, AppendProperties
    <3>2. QED
      BY <1>1, <1>2, <3>1
  <2>2. CASE nested' = [nested EXCEPT ![Len(nested)] = frame]
    BY <1>1, <2>2, ExceptSeq
  <2>3. QED
    BY <2>1, <2>2
<1>4. QED
  <2>1. ASSUME NEW i \in 1 .. Len(nested')
        PROVE  \/ i \in 1 .. Len(nested) /\ Same(nested[i], nested'[i])
               \/ nested'[i] = frame /\ (i = 1 => nested[1] = Top)
    <3>1. i \in 1 .. Len(nested) - 1 \/ i = Len(nested)
      BY <1>1, <1>3
    <3>2. QED
      BY <1>1, <1>2, <1>3, <3>1 DEF Same
  <2>2. QED
    BY <1>1, <1>3, <2>1

\* The innermost frame is good; while one waits there, the program has started or
\* not as the first one says.
LEMMA TopGood ==
  ASSUME TypeOK, OInv, nested # <<>>
  PROVE  /\ Top \in Frames /\ Top.name \in Names /\ Good(Top, isdirty, noexport)
         /\ Top.kind \in Kinds => nested[1].kind \in Kinds /\ Blank
<1>1. nested \in Seq(Frames)
  BY DEF TypeOK
<1>2. Top = nested[Len(nested)] /\ Len(nested) \in 1 .. Len(nested)
  BY <1>1, Frames1 DEF Top
<1>3. Top \in Frames /\ Top.name \in Names /\ Good(Top, isdirty, noexport)
  BY <1>2, TopType DEF OInv, StackGood
<1>4. Top.kind \in Kinds => nested[1].kind \in Kinds
  BY <1>2 DEF OInv, StackGood
<1>5. QED
  BY <1>3, <1>4 DEF OInv, StartGood, Starting

\* mkenv leaves every string right, and the vector.
LEMMA MkenvGood ==
  ASSUME TypeOK, OInv, Orderly, Mkenv
  PROVE  Vary
<1>. USE DEF OInv
<1>1. CASE ~(isdirty \/ rebound)
  <2>1. UNCHANGED <<table, cell, noexport, isdirty, rebound, sortenv>>
    BY <1>1 DEF Mkenv
  <2>2. QED
    BY <2>1, NoVar
<1>2. CASE isdirty \/ rebound
  <2>. DEFINE f == [n \in Names |-> Env0(n)]
              g == [n \in Names |-> Scanned(n, Env0(n))]
  <2>1. /\ sortenv' = [n \in Names |-> IF Goes(n) THEN f[n] ELSE NoString]
        /\ \/ table' = [n \in Names |-> [table[n] EXCEPT !.env = f[n]]]
           \/ table' = [n \in Names |-> [table[n] EXCEPT !.env = g[n]]]
        /\ ~isdirty' /\ ~rebound' /\ cell' = cell /\ noexport' = noexport
    BY <1>2 DEF Mkenv
  <2>2. \A n \in Names : f[n] \in Strings /\ g[n] \in Strings
    BY EncodeType
  <2>3. ASSUME NEW n \in Names
        PROVE  /\ table'[n].defn = table[n].defn /\ table'[n].binds = table[n].binds
               /\ table'[n].internal = table[n].internal
               /\ table'[n].env = f[n] \/ table'[n].env = g[n]
    BY <2>1, <2>2, StringsType
  <2>4. ASSUME NEW n \in Names PROVE g[n] = f[n] \/ g[n] = NoString
    BY DEF Scanned
  <2>5. ASSUME NEW n \in Names, Goes(n) PROVE f[n] = Encode(table[n].defn, cell)
    <3>1. CASE Remade(n)
      BY <2>5, <3>1 DEF Env0
    <3>2. CASE ~Remade(n)
      <4>1. table[n].env # NoString /\ (table[n].defn = Clo => ~rebound /\ n \notin noexport)
        BY <2>5, <3>2 DEF Remade, VarsGood, Goes, Isexported
      <4>2. table[n].env = Encode(table[n].defn, cell)
        BY <2>5, <4>1 DEF StringsGood, Goes
      <4>3. QED
        BY <3>2, <4>2 DEF Env0
    <3>3. QED
      BY <3>1, <3>2
  <2>6. ASSUME NEW n \in Names, ~Goes(n) PROVE f[n] = table[n].env
    BY <2>6 DEF Env0
  <2>. HIDE DEF f, g
  <2>7. VarsGood'
    <3>1. ASSUME NEW n \in Names, table[n].internal PROVE table'[n].env = NoString
      <4>1. f[n] = table[n].env
        BY <2>6, <3>1 DEF Goes
      <4>2. QED
        BY <2>3, <2>4, <3>1, <4>1 DEF VarsGood
    <3>2. QED
      BY <2>3, <3>1 DEF VarsGood
  <2>8. StringsGood'
    <3>1. ASSUME NEW n \in Names, table'[n].defn # None
          PROVE  \/ table'[n].env = NoString
                 \/ table'[n].env = Encode(table'[n].defn, cell')
                 \/ table'[n].defn = Clo /\ (rebound' \/ n \in noexport')
      <4>1. table[n].defn = table'[n].defn /\ cell' = cell /\ noexport' = noexport
        BY <2>1, <2>3
      <4>2. table'[n].env = f[n] \/ table'[n].env = NoString
        BY <2>3, <2>4
      <4>3. CASE Goes(n)
        BY <2>5, <4>1, <4>2, <4>3
      <4>4. CASE ~Goes(n) /\ table[n].internal
        BY <2>6, <4>2, <4>4 DEF VarsGood
      <4>5. CASE ~Goes(n) /\ ~table[n].internal
        <5>1. n \in noexport
          BY <3>1, <4>1, <4>5 DEF Goes, Isexported
        <5>2. QED
          BY <2>6, <3>1, <4>1, <4>2, <4>5, <5>1 DEF StringsGood
      <4>6. QED
        BY <4>3, <4>4, <4>5
    <3>2. QED
      BY <3>1 DEF StringsGood
  <2>9. EnvFresh'
    <3>1. \A n \in Names : Goes(n)' = Goes(n)
      BY <2>1, <2>3 DEF Goes, Isexported
    <3>2. Fresh' = [n \in Names |-> IF Goes(n) THEN Encode(table[n].defn, cell) ELSE NoString]
      BY <2>1, <2>3, <3>1 DEF Fresh
    <3>3. QED
      BY <2>1, <2>5, <3>2 DEF EnvFresh
  <2>10. ~Starting
    <3>1. Starting => Changes /\ isdirty
      BY DomainStack DEF StartGood, Starting, Blank, Mkenv, Running, Changes, Kinds
    <3>2. QED
      BY <2>1, <3>1 DEF Orderly
  <2>11. QED
    BY <2>7, <2>8, <2>9, <2>10 DEF Vary
<1>3. QED
  BY <1>1, <1>2

\* A collection drops strings that are made anew anyway.
LEMMA CollectGood ==
  ASSUME TypeOK, OInv, Collect
  PROVE  Vary
<1>. DEFINE f == [n \in Names |-> Scanned(n, table[n].env)]
<1>1. /\ table' = [n \in Names |-> [table[n] EXCEPT !.env = f[n]]]
      /\ UNCHANGED <<cell, noexport, isdirty, rebound, sortenv>>
  BY DEF Collect
<1>2. \A n \in Names : f[n] \in Strings
  BY EncodeType
<1>3. \A n \in Names : f[n] = NoString \/ f[n] = table[n].env
  BY DEF Scanned
<1>. HIDE DEF f
<1>4. \A n \in Names : /\ table'[n].defn = table[n].defn /\ table'[n].binds = table[n].binds
                       /\ table'[n].internal = table[n].internal
                       /\ table'[n].env = NoString \/ table'[n].env = table[n].env
  <2>1. PICK g : /\ table' = [n \in Names |-> [table[n] EXCEPT !.env = g[n]]]
                 /\ \A n \in Names : g[n] \in Strings /\ (g[n] = NoString \/ g[n] = table[n].env)
    BY <1>1, <1>2, <1>3
  <2>2. \A n \in Names : /\ table'[n].defn = table[n].defn /\ table'[n].binds = table[n].binds
                         /\ table'[n].internal = table[n].internal /\ table'[n].env = g[n]
    <3>1. \A n \in Names : table'[n] = [table[n] EXCEPT !.env = g[n]] /\ table[n] \in Vars
      BY <2>1 DEF TypeOK
    <3>2. QED
      BY <3>1 DEF Vars
  <2>3. QED
    BY <2>1, <2>2
<1>5. VarsGood' /\ StringsGood' /\ (Starting => Blank')
  BY <1>1, <1>4 DEF OInv, VarsGood, StringsGood, StartGood, Blank
<1>6. \A n \in Names : Goes(n)' = Goes(n)
  BY <1>1, <1>4 DEF Goes, Isexported
<1>7. Fresh' = Fresh
  BY <1>1, <1>4, <1>6 DEF Fresh
<1>8. QED
  BY <1>1, <1>5, <1>7 DEF OInv, EnvFresh, Vary

LEMMA OInvInit == Init => OInv
<1>. SUFFICES ASSUME Init PROVE OInv
  OBVIOUS
<1>1. PICK v \in Words :
        table = [n \in Names |-> IF n \in Imported THEN MkVar(v)
                                  ELSE IF n \in Internal THEN [MkVar(v) EXCEPT !.internal = TRUE]
                                  ELSE Absent]
  BY DEF Init
<1>2. /\ MkVar(v).defn = v /\ MkVar(v).env = NoString
      /\ [MkVar(v) EXCEPT !.internal = TRUE].defn = v
      /\ [MkVar(v) EXCEPT !.internal = TRUE].env = NoString
      /\ Absent.defn = None /\ Absent.env = NoString
  BY DEF MkVar, Absent
<1>3. \A n \in Names : table[n].defn # Clo /\ table[n].env = NoString
  BY <1>1, <1>2, ValuesAssumption
<1>4. VarsGood /\ StringsGood /\ EnvFresh /\ StartGood
  BY <1>3 DEF Init, VarsGood, StringsGood, EnvFresh, StartGood, Starting, Blank
<1>5. StackGood
  BY DEF Init, StackGood
<1>6. QED
  BY <1>4, <1>5 DEF OInv

\* The steps that leave the stack alone.
LEMMA SameStack ==
  ASSUME TypeOK, OInv, Orderly, Vary, UNCHANGED nested, importing' \subseteq importing,
         noexport' = noexport \/ isdirty'
  PROVE  OInv'
<1>1. /\ \A i \in 1 .. Len(nested') : i \in 1 .. Len(nested) /\ Same(nested[i], nested'[i])
      /\ Len(nested') \in Nat /\ (nested' # <<>> => 1 \in 1 .. Len(nested'))
  BY DomainStack DEF Same
<1>2. StackGood' /\ StartGood'
  BY <1>1, FramesGood DEF Orderly, Vary
<1>3. QED
  BY <1>2 DEF OInv, Vary

\* Those that leave the innermost frame.
LEMMA LeftFrame ==
  ASSUME TypeOK, OInv, Orderly, Vary, nested # <<>>, NEW n \in Names, NEW v,
         nested' = Kept(n, v, Front(nested)) \/ nested' = Front(nested),
         UNCHANGED <<importing, noexport>>
  PROVE  OInv'
<1>1. /\ Len(nested') \in Nat /\ (nested' # <<>> => 1 \in 1 .. Len(nested'))
      /\ \A i \in 1 .. Len(nested') : i \in 1 .. Len(nested) /\ Same(nested[i], nested'[i])
  BY Popped
<1>2. StackGood' /\ StartGood'
  BY <1>1, FramesGood DEF Orderly, Vary
<1>3. QED
  BY <1>2 DEF OInv, Vary

\* Those that enter one.
LEMMA EnteredFrame ==
  ASSUME TypeOK, OInv, Orderly, Vary, Running, NEW frame \in Frames,
         frame.kind \notin Kinds, Good(frame, isdirty', noexport'),
         nested' = Append(nested, frame),
         UNCHANGED <<importing, noexport>>
  PROVE  OInv'
<1>1. /\ Len(nested') \in Nat /\ 1 \in 1 .. Len(nested')
      /\ \A i \in 1 .. Len(nested') :
           \/ i \in 1 .. Len(nested) /\ Same(nested[i], nested'[i])
           \/ nested'[i] = frame /\ (i = 1 => nested = <<>>)
  BY Pushed
<1>2. nested = <<>> => importing = {}
  BY DEF Running
<1>3. StackGood' /\ StartGood'
  BY <1>1, <1>2, FramesGood DEF Orderly, Vary
<1>4. QED
  BY <1>3 DEF OInv, Vary

\* Those that put another frame in place of the innermost one.
LEMMA OtherFrame ==
  ASSUME TypeOK, OInv, Orderly, Vary, nested # <<>>, NEW frame \in Frames,
         Top.kind \notin Kinds, frame.kind \notin Kinds, Good(frame, isdirty', noexport'),
         \/ nested' = Append(Front(nested), frame)
         \/ nested' = [nested EXCEPT ![Len(nested)] = frame],
         UNCHANGED <<importing, noexport>>
  PROVE  OInv'
<1>1. /\ Len(nested') \in Nat /\ 1 \in 1 .. Len(nested')
      /\ \A i \in 1 .. Len(nested') :
           \/ i \in 1 .. Len(nested) /\ Same(nested[i], nested'[i])
           \/ nested'[i] = frame /\ (i = 1 => nested[1] = Top)
  BY Replaced
<1>2. StackGood' /\ StartGood'
  BY <1>1, FramesGood DEF Orderly, Vary
<1>3. QED
  BY <1>2 DEF OInv, Vary

\* A value given to a variable, or taken from it.
LEMMA DefineVary ==
  ASSUME TypeOK, OInv, NEW n \in Names, NEW v \in AllValues, Define(n, v),
         isdirty => isdirty', isdirty' \/ rebound \/ n \in noexport,
         UNCHANGED <<cell, noexport, rebound, sortenv>>
  PROVE  Vary
<1>. DEFINE w == IF v = None THEN Absent ELSE MkVar(v)
<1>1. w \in Vars /\ w.env = NoString /\ (w.defn = Clo => w.binds)
  BY MkVarType, AbsentType, ValuesAssumption
<1>2. table' = [table EXCEPT ![n] = w]
  BY DEF Define
<1>. HIDE DEF w
<1>3. QED
  BY <1>1, <1>2, OneVar

LEMMA RestoreVary ==
  ASSUME TypeOK, OInv, NEW push \in Frames, push.name \in Names,
         NEW v \in AllValues, Restore(push, v), table'[push.name].defn = Clo => table'[push.name].binds,
         isdirty => isdirty', isdirty' \/ push.name \in noexport,
         UNCHANGED <<cell, noexport, rebound, sortenv>>
  PROVE  Vary
<1>. DEFINE n == push.name
            w == IF v = None THEN Absent
                 ELSE [defn |-> v, binds |-> push.binds, internal |-> push.internal,
                       env |-> NoString]
<1>1. w \in Vars /\ w.env = NoString
  BY MkVarType, AbsentType DEF Frames, Vars, Strings, NoString
<1>2. table' = [table EXCEPT ![n] = w]
  BY DEF Restore
<1>. HIDE DEF w
<1>3. table'[n] = w
  BY <1>2 DEF TypeOK
<1>4. w.defn = Clo => w.binds
  BY <1>3
<1>. HIDE DEF n
<1>5. n \in Names /\ (isdirty' \/ n \in noexport)
  BY DEF n
<1>6. QED
  BY <1>1, <1>2, <1>4, <1>5, OneVar

LEMMA DirtyMarks ==
  ASSUME NEW n, Dirty(n)
  PROVE  (isdirty => isdirty') /\ (isdirty' \/ n \in noexport)
BY DEF Dirty, Isexported

LEMMA OInvStep == TypeOK /\ OInv /\ [Next /\ Orderly]_all => OInv'
<1>1. CASE UNCHANGED all
  BY <1>1 DEF all, OInv, VarsGood, StringsGood, StackGood, StartGood, Starting, Blank, Good,
              EnvFresh, Fresh, Goes, Isexported
<1>. SUFFICES ASSUME TypeOK, OInv, Next, Orderly PROVE OInv'
  BY <1>1
<1>2. ASSUME NEW n \in Names, NEW v \in Values[n], Assign(n, v) PROVE OInv'
  <2>1. Vary
    BY <1>2, ValuesType, DefineVary, DirtyMarks DEF Assign
  <2>2. nested \in Seq(Frames) /\ importing' = importing /\ noexport' = noexport
    BY <1>2 DEF Assign, TypeOK
  <2>3. /\ nested' \in Seq(Frames) /\ Len(nested') = Len(nested)
        /\ \A i \in 1 .. Len(nested) : Same(nested[i], nested'[i])
    BY <1>2, <2>2, KeptType DEF Assign
  <2>4. Len(nested') \in Nat /\ (nested' # <<>> => 1 \in 1 .. Len(nested'))
    BY <2>3, EmptySeq, LenProperties
  <2>5. StackGood' /\ StartGood'
    BY <2>1, <2>2, <2>3, <2>4, FramesGood DEF Orderly, Vary
  <2>6. QED
    BY <2>1, <2>5 DEF OInv, Vary
<1>3. ASSUME NEW n \in Names, NEW v \in Values[n], Varpush(n, v) PROVE OInv'
  <2>1. /\ MkVar(v) \in Vars /\ MkVar(v).env = NoString
        /\ MkVar(v).defn = Clo => MkVar(v).binds
    BY ValuesType, MkVarType
  <2>2. Vary
    BY <1>3, <2>1, OneVar, DirtyMarks DEF Varpush
  <2>3. Saved(n).kind \notin Kinds /\ Good(Saved(n), isdirty', noexport')
    BY DEF Good, Saved, Kinds, OInv, VarsGood
  <2>4. QED
    BY <1>3, <2>2, <2>3, SavedType, EnteredFrame DEF Varpush
<1>4. ASSUME NEW n \in Names, CallSettor(n) PROVE OInv'
  <2>1. Vary
    BY <1>4, NoVar DEF CallSettor
  <2>2. Frame("assign", n).kind \notin Kinds /\ Good(Frame("assign", n), isdirty', noexport')
    BY ValuesAssumption DEF Good, Frame, Kinds
  <2>3. QED
    BY <1>4, <2>1, <2>2, FrameType, EnteredFrame DEF CallSettor
<1>5. ASSUME NEW n \in Names, VarpushSettor(n) PROVE OInv'
  <2>1. Vary /\ (isdirty' \/ n \in noexport) /\ noexport' = noexport
    BY <1>5, NoVar, DirtyMarks DEF VarpushSettor
  <2>2. Frame("bind", n).kind \notin Kinds /\ Good(Frame("bind", n), isdirty', noexport')
    BY <2>1, ValuesAssumption DEF Good, Frame, Kinds
  <2>3. QED
    BY <1>5, <2>1, <2>2, FrameType, EnteredFrame DEF VarpushSettor
<1>6. ASSUME NEW n \in Names, Import(n) PROVE OInv'
  <2>1. /\ UNCHANGED <<table, cell, noexport, isdirty, rebound, sortenv>>
        /\ nested = <<>> /\ importing # {} /\ importing' \subseteq importing
    BY <1>6 DEF Import
  <2>2. Vary
    BY <2>1, NoVar
  <2>3. CASE nested' = nested
    BY <2>1, <2>2, <2>3, SameStack
  <2>4. CASE nested' # nested
    <3>1. PICK frame \in Frames : /\ nested' = <<frame>> /\ frame.kind \in Kinds
                                 /\ Good(frame, isdirty', noexport')
      <4>1. \/ nested' = <<Frame("import", n)>>
            \/ nested' = <<Frame("dead", n)>>
        BY <1>6, <2>4 DEF Import
      <4>2. \A kind \in {"import", "dead"} :
              /\ Frame(kind, n) \in Frames /\ Frame(kind, n).kind \in Kinds
              /\ Good(Frame(kind, n), isdirty', noexport')
        <5>1. ASSUME NEW kind \in {"import", "dead"}
              PROVE  /\ Frame(kind, n).kind = kind /\ Frame(kind, n).defn = None
                     /\ Frame(kind, n) \in Frames
          BY FrameType DEF Frame
        <5>2. QED
          BY <5>1, ValuesAssumption DEF Good, Kinds
      <4>3. QED
        BY <4>1, <4>2
    <3>2. Len(nested') = 1 /\ nested'[1] = frame /\ (\A i \in 1 .. 1 : i = 1)
      BY <3>1
    <3>3. StackGood'
      BY <3>1, <3>2 DEF StackGood, Good
    <3>4. Starting
      BY <2>1 DEF Starting
    <3>5. StartGood'
      BY <2>2, <3>1, <3>2, <3>4 DEF Vary, StartGood
    <3>6. QED
      BY <2>2, <3>3, <3>5 DEF OInv, Vary
  <2>5. QED
    BY <2>3, <2>4
<1>7. ASSUME NEW n \in Preset, NEW v \in Words, Setenv(n, v) PROVE OInv'
  <2>1. n \in Names /\ v \in AllValues
    BY NamesAssumption
  <2>2. isdirty' = isdirty /\ (isdirty \/ rebound \/ n \in noexport)
    BY <1>7 DEF Orderly, Setenv, Isexported
  <2>3. Vary
    BY <1>7, <2>1, <2>2, DefineVary DEF Setenv
  <2>4. QED
    BY <1>7, <2>3, SameStack DEF Setenv
<1>8. ASSUME nested # <<>>, NEW v \in Values[Top.name],
             AssignEnd(v) \/ VarpushEnd(v) \/ VarpopEnd(v) \/ ImportEnd(v)
      PROVE  OInv'
  <2>. DEFINE n == Top.name
  <2>1. /\ Top \in Frames /\ n \in Names /\ v \in AllValues
        /\ Good(Top, isdirty, noexport)
        /\ Top.kind \in Kinds => nested[1].kind \in Kinds /\ Blank
    BY <1>8, TopGood, ValuesType
  <2>2. CASE AssignEnd(v)
    <3>1. Vary
      BY <2>1, <2>2, DefineVary, DirtyMarks DEF AssignEnd
    <3>2. QED
      BY <1>8, <2>1, <2>2, <3>1, LeftFrame DEF AssignEnd
  <2>3. CASE VarpushEnd(v)
    <3>1. /\ MkVar(v) \in Vars /\ MkVar(v).env = NoString
          /\ MkVar(v).defn = Clo => MkVar(v).binds
      BY <2>1, MkVarType
    <3>2. /\ table' = [table EXCEPT ![n] = MkVar(v)]
          /\ nested' = Append(Front(nested), Saved(n))
          /\ Top.kind = "bind"
          /\ UNCHANGED <<cell, noexport, isdirty, rebound, sortenv, importing>>
      BY <2>3 DEF VarpushEnd, TopIs
    <3>3. isdirty \/ n \in noexport
      BY <2>1, <3>2 DEF Good
    <3>4. Saved(n).kind \notin Kinds /\ Good(Saved(n), isdirty', noexport')
      BY <2>1 DEF Good, Saved, Kinds, OInv, VarsGood
    <3>5. Saved(n) \in Frames /\ Top.kind \notin Kinds
      BY <2>1, <3>2, SavedType DEF Kinds
    <3>. HIDE DEF n
    <3>6. Vary
      BY <2>1, <3>1, <3>2, <3>3, OneVar
    <3>7. QED
      BY <1>8, <3>2, <3>4, <3>5, <3>6, OtherFrame
  <2>4. CASE VarpopEnd(v)
    <3>1. /\ Restore(Top, v) /\ Top.kind = "restore"
          /\ nested' = Kept(n, v, Front(nested))
          /\ UNCHANGED <<cell, noexport, isdirty, rebound, sortenv, importing>>
      BY <2>4 DEF VarpopEnd, TopIs
    <3>2. isdirty \/ n \in noexport
      BY <2>1, <3>1 DEF Good
    <3>3. table'[n].defn = Clo => table'[n].binds
      BY <2>1, <2>4 DEF Orderly, VarpopEnd
    <3>4. Vary
      BY <2>1, <3>1, <3>2, <3>3, RestoreVary
    <3>. HIDE DEF n
    <3>5. QED
      BY <1>8, <2>1, <3>1, <3>4, LeftFrame
  <2>5. CASE ImportEnd(v)
    <3>1. /\ nested' = Front(nested)
          /\ UNCHANGED <<cell, noexport, isdirty, rebound, sortenv, importing>>
      BY <2>5 DEF ImportEnd
    <3>2. Vary
      <4>1. CASE TopIs("lost")
        BY <2>5, <3>1, <4>1, NoVar DEF ImportEnd, TopIs
      <4>2. CASE TopIs("import")
        <5>1. Blank /\ table' = [table EXCEPT ![n].defn = v]
          BY <2>1, <2>5, <4>2 DEF ImportEnd, TopIs, Kinds
        <5>2. \A m \in Names : table'[m].env = table[m].env /\ table'[m].internal = table[m].internal
          BY <5>1 DEF TypeOK, Vars
        <5>3. \A m \in Names : table'[m].env = NoString
          BY <5>1, <5>2 DEF Blank
        <5>4. VarsGood'
          BY <4>2, <5>3 DEF Orderly, VarsGood
        <5>5. QED
          BY <3>1, <5>1, <5>3, <5>4 DEF Vary, StringsGood, EnvFresh, Blank
      <4>3. QED
        BY <2>5, <4>1, <4>2 DEF ImportEnd
    <3>3. QED
      BY <1>8, <2>1, <3>1, <3>2, LeftFrame
  <2>6. QED
    BY <1>8, <2>2, <2>3, <2>4, <2>5
<1>9. ASSUME Varpop PROVE OInv'
  <2>1. /\ nested # <<>> /\ Restore(Top, Top.defn) /\ Dirty(Top.name)
        /\ nested' = Kept(Top.name, Top.defn, Front(nested))
        /\ UNCHANGED <<cell, noexport, rebound, sortenv, importing>>
    BY <1>9 DEF Varpop, TopIs
  <2>2. Top \in Frames /\ Top.name \in Names /\ Top.defn \in AllValues
        /\ (Top.defn = Clo => Top.binds)
    BY <2>1, TopGood, TopType DEF Good
  <2>3. table'[Top.name].defn = Clo => table'[Top.name].binds
    BY <2>1, <2>2, AbsentType, MkVarType, ValuesAssumption DEF Restore, TypeOK
  <2>4. Vary
    BY <2>1, <2>2, <2>3, RestoreVary, DirtyMarks
  <2>5. QED
    BY <2>1, <2>2, <2>4, LeftFrame
<1>10. ASSUME VarpopSettor PROVE OInv'
  <2>. DEFINE frame == [Top EXCEPT !.kind = "restore"]
  <2>1. /\ nested # <<>> /\ Top.kind = "scope" /\ Dirty(Top.name)
        /\ nested' = [nested EXCEPT ![Len(nested)] = [nested[Len(nested)] EXCEPT !.kind = "restore"]]
        /\ UNCHANGED <<table, cell, noexport, rebound, sortenv, importing>>
    BY <1>10 DEF VarpopSettor, TopIs
  <2>2. Top = nested[Len(nested)]
    BY <2>1, Frames1 DEF TypeOK, Top
  <2>3. nested' = [nested EXCEPT ![Len(nested)] = frame]
    BY <2>1, <2>2
  <2>4. Vary /\ (isdirty' \/ Top.name \in noexport) /\ noexport' = noexport
    BY <2>1, NoVar, DirtyMarks
  <2>5. Top \in Frames /\ (Top.defn = Clo => Top.binds)
    BY <2>1, TopGood DEF Good
  <2>6. /\ frame \in Frames /\ frame.kind = "restore" /\ frame.name = Top.name
        /\ frame.defn = Top.defn /\ frame.binds = Top.binds
    BY <2>5 DEF Frames
  <2>. HIDE DEF frame
  <2>7. frame.kind \notin Kinds /\ Top.kind \notin Kinds /\ Good(frame, isdirty', noexport')
    BY <2>1, <2>4, <2>5, <2>6 DEF Good, Kinds
  <2>8. QED
    BY <2>1, <2>3, <2>4, <2>6, <2>7, OtherFrame
<1>11. ASSUME SettorFail PROVE OInv'
  <2>1. /\ nested # <<>>
        /\ UNCHANGED <<cell, noexport, isdirty, rebound, sortenv, importing>>
    BY <1>11 DEF SettorFail, TopIs
  <2>2. Top \in Frames /\ Top.name \in Names /\ Good(Top, isdirty, noexport)
        /\ Top.defn \in AllValues
    BY <2>1, TopGood, TopType
  <2>3. CASE table' = table /\ nested' = Front(nested)
    <3>1. Vary
      BY <2>1, <2>3, NoVar
    <3>2. QED
      BY <2>1, <2>2, <2>3, <3>1, LeftFrame
  <2>4. CASE /\ TopIs("restore") /\ Restore(Top, Top.defn)
             /\ nested' = Kept(Top.name, Top.defn, Front(nested))
    <3>1. (Top.defn = Clo => Top.binds) /\ (isdirty \/ Top.name \in noexport)
      BY <2>2, <2>4 DEF Good, TopIs
    <3>2. table'[Top.name].defn = Clo => table'[Top.name].binds
      BY <2>2, <2>4 DEF Orderly
    <3>3. Vary
      BY <2>1, <2>2, <2>4, <3>1, <3>2, RestoreVary
    <3>4. QED
      BY <2>1, <2>2, <2>4, <3>3, LeftFrame
  <2>5. QED
    BY <1>11, <2>3, <2>4 DEF SettorFail
<1>12. ASSUME NEW c \in Cells, Rebind(c) PROVE OInv'
  <2>1. UNCHANGED <<table, noexport, isdirty, sortenv, nested, importing>> /\ rebound'
    BY <1>12 DEF Rebind
  <2>2. StringsGood'
    <3>1. ASSUME NEW n \in Names, table[n].defn # None
          PROVE  \/ table[n].env = NoString
                 \/ table[n].env = Encode(table[n].defn, cell')
                 \/ table[n].defn = Clo
      BY <3>1 DEF OInv, StringsGood, Encode
    <3>2. QED
      BY <2>1, <3>1 DEF StringsGood
  <2>3. Vary
    BY <2>1, <2>2 DEF OInv, Vary, VarsGood, EnvFresh, StartGood, Blank
  <2>4. QED
    BY <2>1, <2>3, SameStack
<1>13. ASSUME NEW list \in SUBSET Hideable, Setnoexport(list) PROVE OInv'
  <2>1. UNCHANGED <<table, cell, rebound, sortenv, nested, importing>> /\ isdirty'
    BY <1>13 DEF Setnoexport
  <2>2. \A n \in noexport \ noexport' : table[n].defn = Clo => table[n].env = NoString
    BY DEF Orderly
  <2>3. StringsGood'
    BY <2>1, <2>2 DEF OInv, StringsGood
  <2>4. Vary
    BY <2>1, <2>3 DEF OInv, Vary, VarsGood, EnvFresh, StartGood, Blank
  <2>5. QED
    BY <2>1, <2>4, SameStack
<1>14. ASSUME Mkenv PROVE OInv'
  BY <1>14, MkenvGood, SameStack DEF Mkenv
<1>15. ASSUME Collect PROVE OInv'
  BY <1>15, CollectGood, SameStack DEF Collect
<1>16. QED
  BY <1>2, <1>3, <1>4, <1>5, <1>6, <1>7, <1>8, <1>9, <1>10, <1>11, <1>12, <1>13,
     <1>14, <1>15 DEF Next

-----------------------------------------------------------------------------
\* Every step of var.c leaves the variables, the marks and the stack of scopes
\* and settors well typed.
THEOREM Typing == Spec => []TypeOK
BY TypingInit, TypingStep, PTL DEF Spec

\* In an orderly program every command gets the variables as they are, however
\* assignments, scopes, settors, closures, $noexport, imports and collections follow
\* on each other.
THEOREM Freshness == OrderlySpec => []EnvFresh
<1>1. Init => TypeOK /\ OInv
  BY TypingInit, OInvInit
<1>2. TypeOK /\ OInv /\ [Next /\ Orderly]_all => (TypeOK /\ OInv)'
  BY TypingStep, OInvStep
<1>3. TypeOK /\ OInv => EnvFresh
  BY DEF OInv
<1>4. QED
  BY <1>1, <1>2, <1>3, PTL DEF OrderlySpec

\* And the string of every variable that may go to the vector is right, or is made
\* anew when it does.
THEOREM StringsFresh == OrderlySpec => []EntriesFresh
<1>1. Init => TypeOK /\ OInv
  BY TypingInit, OInvInit
<1>2. TypeOK /\ OInv /\ [Next /\ Orderly]_all => (TypeOK /\ OInv)'
  BY TypingStep, OInvStep
<1>3. TypeOK /\ OInv => EntriesFresh
  BY DEF OInv, VarsGood, StringsGood, EntriesFresh, Remade, Isexported
<1>4. QED
  BY <1>1, <1>2, <1>3, PTL DEF OrderlySpec

\* In any program, orderly or not, no command gets a variable that is on
\* $noexport when it starts.
THEOREM Hidden == Spec => []NothingLeaks
<1>1. Init => NothingLeaks
  BY DEF Init, NothingLeaks
<1>2. TypeOK /\ NothingLeaks /\ [Next]_all => NothingLeaks'
  <2>. SUFFICES ASSUME TypeOK, NothingLeaks, [Next]_all PROVE NothingLeaks'
    OBVIOUS
  <2>1. CASE Mkenv
    <3>1. CASE isdirty \/ rebound
      <4>1. \A n \in noexport : n \in Names /\ ~Goes(n)
        BY NamesAssumption DEF TypeOK, Goes, Isexported
      <4>2. QED
        BY <2>1, <3>1, <4>1 DEF Mkenv, NothingLeaks
    <3>2. QED
      BY <2>1, <3>1 DEF Mkenv, NothingLeaks
  <2>2. CASE ~Mkenv
    <3>. DEFINE Stays == /\ sortenv' = sortenv
                         /\ isdirty => isdirty'
                         /\ rebound => rebound'
                         /\ noexport' # noexport => isdirty'
    <3>0. ASSUME NEW n, Dirty(n) PROVE isdirty => isdirty'
      BY <3>0 DEF Dirty
    <3>1. ASSUME NEW n \in Names, CallSettor(n) \/ VarpushSettor(n) \/ Import(n) PROVE Stays
      BY <3>0, <3>1 DEF CallSettor, VarpushSettor, Import
    <3>2. ASSUME NEW n \in Names, NEW v, Assign(n, v) \/ Varpush(n, v) \/ Setenv(n, v) PROVE Stays
      BY <3>0, <3>2 DEF Assign, Varpush, Setenv
    <3>3. ASSUME NEW v, AssignEnd(v) \/ VarpushEnd(v) \/ VarpopEnd(v) \/ ImportEnd(v) PROVE Stays
      BY <3>0, <3>3 DEF AssignEnd, VarpushEnd, VarpopEnd, ImportEnd
    <3>4. ASSUME Varpop \/ VarpopSettor \/ SettorFail \/ Collect \/ UNCHANGED all PROVE Stays
      BY <3>0, <3>4 DEF Varpop, VarpopSettor, SettorFail, Collect, all
    <3>5. ASSUME NEW x, Rebind(x) \/ Setnoexport(x) PROVE Stays
      BY <3>5 DEF Rebind, Setnoexport
    <3>6. Stays
      <4>. HIDE DEF Stays
      <4>1. Preset \subseteq Names
        BY NamesAssumption
      <4>2. QED
        BY <2>2, <3>1, <3>2, <3>3, <3>4, <3>5, <4>1 DEF Next
    <3>7. QED
      BY <3>6 DEF NothingLeaks
  <2>3. QED
    BY <2>1, <2>2
<1>3. QED
  BY <1>1, <1>2, Typing, PTL DEF Spec

=============================================================================
