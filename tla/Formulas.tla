------------------------------ MODULE Formulas ------------------------------
(***************************************************************************)
(* Formula fields of a project (custom-fields.service.ts): what a save     *)
(* checks before it writes, and the two passes that compute the values of  *)
(* a task.  A formula names the fields it uses; a save reads the other     *)
(* formulas, looks for a cycle and then writes, with no lock in between.   *)
(***************************************************************************)
EXTENDS Naturals, FiniteSets

CONSTANTS
    MaxFields,  \* bound: fields of the project
    Names,      \* field names
    FirstName,  \* field -> the name it begins with
    MaxRefs,    \* bound: references of an expression that is saved
    Editors,    \* saves in flight at the same time
    MaxSaves    \* bound: saves and removals

Fields == 1..MaxFields  \* in the order of (position, createdAt)

ASSUME FormulasAssumption ==
    /\ {MaxFields, MaxSaves, MaxRefs} \subseteq Nat
    /\ FirstName \in [Fields -> Names]
    /\ \A f, g \in Fields : FirstName[f] = FirstName[g] => f = g

VARIABLES
    def,       \* CustomFieldDefinition rows
    save,      \* create and update calls past their checks
    saves,
    mischief   \* history: how a cycle may have come in

formulaVars == <<def, save, saves, mischief>>

Definitions == [st: {"none", "live", "archived"}, name: Names, formula: BOOLEAN, refs: SUBSET Names]
Expressions == {refs \in SUBSET Names : Cardinality(refs) <= MaxRefs}
\* The columns a save writes: a new row, or one part of an old one.
Patches == [part: {"row"}, name: Names, refs: Expressions, padded: BOOLEAN]
           \cup [part: {"name"}, name: Names]
           \cup [part: {"expression"}, refs: Expressions]
           \cup [part: {"kind"}, formula: BOOLEAN]
NoSave == [field |-> 0, stale |-> FALSE]

LiveFormula(d, f) == d[f].st = "live" /\ d[f].formula
\* f uses g.
Uses(d, f, g) == LiveFormula(d, f) /\ LiveFormula(d, g) /\ d[g].name \in d[f].refs
\* A walk along the references leads from f to g: g is in every set that has
\* what f uses and what its own members use.
Reaches(d, f, g) ==
    \A S \in SUBSET Fields :
        (\A h \in S \cup {f}, k \in Fields : Uses(d, h, k) => k \in S) => g \in S
Cyclic(d) == \E f \in Fields : Reaches(d, f, f)

\* Formulas that were saved one after the other: the last field may be new.
FormulasInit ==
    /\ \E refs \in [Fields -> SUBSET Names], last \in {"none", "live"} :
         /\ def = [f \in Fields |-> [st |-> IF f = MaxFields THEN last ELSE "live",
                                     name |-> FirstName[f], formula |-> TRUE, refs |-> refs[f]]]
         /\ last = "none" => refs[MaxFields] = {}
    /\ ~Cyclic(def)
    /\ save = [e \in Editors |-> NoSave]
    /\ saves = 0
    /\ mischief = {}

-----------------------------------------------------------------------------
\* The row a patch leads to.
Patched(row, p) ==
    CASE p.part = "row" -> [st |-> "live", name |-> p.name, formula |-> TRUE, refs |-> p.refs]
      [] p.part = "name" -> [row EXCEPT !.name = p.name]
      [] p.part = "expression" -> [row EXCEPT !.refs = p.refs]
      [] p.part = "kind" -> [row EXCEPT !.formula = p.formula]

\* MUTANT of NoFormulaCycle: only direct references are looked at.
NoFormulaCycleDirect(f, row, padded) ==
    LET known == IF padded THEN {} ELSE {row.name}
    IN  /\ known \cap row.refs = {}
        /\ \A g \in Fields \ {f} : LiveFormula(def, g) /\ def[g].name \in row.refs =>
             known \cap def[g].refs = {}

\* assertNoFormulaCycle: no walk from the row's references, through the other
\* live formulas, comes to the row's own name.  create looks for the name as
\* it was sent; a padded name is stored trimmed and found nowhere.
NoFormulaCycle(f, row, padded) ==
    padded \/ ~Reaches([def EXCEPT ![f] = [row EXCEPT !.st = "live"]], f, f)

\* create and update up to their checks.
Check(e, f) ==
    /\ save[e] = NoSave /\ saves < MaxSaves
    /\ \E p \in Patches :
         LET row == Patched(def[f], p)
             padded == p.part = "row" /\ p.padded
         IN  /\ (p.part = "row") <=> (def[f].st = "none")
             /\ row.formula => NoFormulaCycle(f, row, padded)
             /\ save' = [save EXCEPT ![e] = [field |-> f, stale |-> FALSE, patch |-> p]]
    /\ saves' = saves + 1
    /\ UNCHANGED <<def, mischief>>

\* MUTANT of Write: two fields may have one name.
WriteAnyName(e) ==
    LET s == save[e]
        row == Patched(def[s.field], s.patch)
    IN  /\ s # NoSave
        /\ def' = [def EXCEPT ![s.field] = row]
        /\ save' = [save EXCEPT ![e] = NoSave]
        /\ UNCHANGED <<saves, mischief>>

\* The write, unless the name is taken, by an archived field too.
Write(e) ==
    LET s == save[e]
        row == Patched(def[s.field], s.patch)
        taken == \E g \in Fields \ {s.field} : def[g].st # "none" /\ def[g].name = row.name
        added == (IF s.stale THEN {"stale"} ELSE {})
                 \cup (IF s.patch.part = "row" /\ s.patch.padded THEN {"padded"} ELSE {})
    IN  /\ s # NoSave
        /\ IF taken \/ (s.patch.part = "row" /\ def[s.field].st # "none")
             THEN /\ UNCHANGED <<def, mischief>>
                  /\ save' = [save EXCEPT ![e] = NoSave]
             ELSE /\ def' = [def EXCEPT ![s.field] = row]
                  /\ mischief' = mischief \cup added
                  /\ save' = [x \in Editors |-> IF x = e \/ save[x] = NoSave THEN NoSave
                                                ELSE [save[x] EXCEPT !.stale = TRUE]]
        /\ UNCHANGED saves

\* remove: the field is archived and keeps its name.
RemoveField(f) ==
    /\ def[f].st = "live" /\ saves < MaxSaves
    /\ def' = [def EXCEPT ![f].st = "archived"]
    /\ saves' = saves + 1
    /\ UNCHANGED <<save, mischief>>

FormulasNext ==
    \/ \E f \in Fields : RemoveField(f) \/ \E e \in Editors : Check(e, f)
    \/ \E e \in Editors : Write(e)

FormulasSpec == FormulasInit /\ [][FormulasNext]_formulaVars

-----------------------------------------------------------------------------
\* MUTANT of Pass: the fields are computed last to first.
PassBackwards(settled) ==
    LET after[k \in 0..MaxFields] ==
          IF k = 0 THEN settled
          ELSE LET f == MaxFields + 1 - k
               IN  IF \A g \in Fields : Uses(def, f, g) => g \in after[k - 1]
                     THEN after[k - 1] \cup {f} ELSE after[k - 1] \ {f}
    IN  after[MaxFields]

\* One pass of getValuesForTask: every field in order, a formula from what
\* its references hold so far.  A field is settled when its value is the one
\* its formula defines.
Pass(settled) ==
    LET after[k \in 0..MaxFields] ==
          IF k = 0 THEN settled
          ELSE IF \A g \in Fields : Uses(def, k, g) => g \in after[k - 1]
                 THEN after[k - 1] \cup {k} ELSE after[k - 1] \ {k}
    IN  after[MaxFields]

-----------------------------------------------------------------------------
\* Types; a live or archived field shares its name with no other.
FormulasTypeOK ==
    /\ def \in [Fields -> Definitions] /\ saves \in 0..MaxSaves
    /\ \A e \in Editors : save[e].field \in Fields \cup {0} /\ save[e].stale \in BOOLEAN
    /\ mischief \subseteq {"stale", "padded"}
    /\ \A f, g \in Fields : def[f].st # "none" /\ def[g].st # "none" /\ def[f].name = def[g].name
                              => f = g

\* Formulas never use each other in a circle, unless two saves overlapped or
\* a field was created under a name with blanks around it
\* (custom-fields.service.ts, 97-130 and 311-373).
CycleNeedsRaceOrBlanks == Cyclic(def) => mischief # {}

\* The two passes compute every formula that has no chain of references with
\* two steps to a field further down the list, and no other
\* (custom-fields.service.ts, 428-443).
TwoPassesSettle ==
    LET below == {p \in Fields \X Fields : Uses(def, p[1], p[2]) /\ p[2] > p[1]}
        To(f, g) == f = g \/ Reaches(def, f, g)
    IN  ~Cyclic(def) =>
          \A f \in Fields : LiveFormula(def, f) =>
            (f \in Pass(Pass({})) <=>
                ~\E p, q \in below : To(f, p[1]) /\ To(p[2], q[1]))

\* Formulas have no circle and are computed as far as two passes go.
FormulasSound == CycleNeedsRaceOrBlanks /\ TwoPassesSettle
=============================================================================
