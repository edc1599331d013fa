--------------------------- MODULE ImportsProofs ----------------------------
(***************************************************************************)
(* Proofs about Imports, for any number of rows, of overlapping requests,  *)
(* of failures, faults and crashes; and about Goals, for any number of key *)
(* results and linked tasks.  Both count with sums over finite sets, whose *)
(* laws come first.  At the end, the two beside the scheduler lock.        *)
(***************************************************************************)
EXTENDS MCImports, SchedulerLockProofs, FiniteSetTheorems, WellFoundedInduction, TLAPS

-----------------------------------------------------------------------------
(* Sums over finite sets.  The folds of the community modules are functions *)
(* defined by recursion over the subsets of a set; a set without a least    *)
(* counterexample has none, which takes the place of induction.             *)

\* Sets of finite sets have a least member.
LEMMA LeastSet ==
  ASSUME NEW D, IsFiniteSet(D), NEW B \in SUBSET (SUBSET D), B # {}
  PROVE  \E T \in B : \A U \in B : U \subseteq T => U = T
<1>1. IsWellFoundedOn(StrictSubsetOrdering(D), SUBSET D)
  BY FS_StrictSubsetOrderingWellFounded, FS_FiniteSubsetsOfFinite
<1>2. PICK T \in B : \A U \in B : <<U, T>> \notin StrictSubsetOrdering(D)
  BY <1>1, WFMin
<1>3. ASSUME NEW U \in B, U \subseteq T PROVE U = T
  <2>1. U # T => <<U, T>> \in StrictSubsetOrdering(D)
    BY <1>3 DEF StrictSubsetOrdering
  <2> QED
    BY <1>2, <2>1
<1> QED
  BY <1>3

\* What a sum is on s, when g has it on the smaller sets.
Chosen(s) == CHOOSE x \in s : TRUE
SumStep(g, f, s) == IF s = {} THEN 0 ELSE f[Chosen(s)] + g[s \ {Chosen(s)}]
IsSum(g, f, S) == g = [s \in SUBSET S |-> SumStep(g, f, s)]

LEMMA ChosenIsIn == \A s : s # {} => Chosen(s) \in s
  BY DEF Chosen

\* Two solutions of the recursion agree where both are defined.
LEMMA SumsAgree ==
  ASSUME NEW S, IsFiniteSet(S), NEW T, NEW f, NEW g, NEW h, IsSum(g, f, S), IsSum(h, f, T),
         NEW s \in SUBSET S, s \subseteq T
  PROVE  g[s] = h[s]
<1> DEFINE B == {u \in SUBSET S : u \subseteq T /\ g[u] # h[u]}
<1> SUFFICES ASSUME B # {} PROVE FALSE
  OBVIOUS
<1>0. B \in SUBSET (SUBSET S)
  OBVIOUS
<1>1. PICK u \in B : \A v \in B : v \subseteq u => v = u
  <2> HIDE DEF B
  <2> QED
    BY <1>0, LeastSet
<1>2. g[u] = SumStep(g, f, u) /\ h[u] = SumStep(h, f, u)
  <2>1. u \in SUBSET S /\ u \in SUBSET T
    BY <1>1
  <2> QED
    BY <2>1 DEF IsSum
<1>3. CASE u = {}
  BY <1>1, <1>2, <1>3 DEF SumStep
<1>4. CASE u # {}
  <2>1. u \ {Chosen(u)} \notin B /\ u \ {Chosen(u)} \subseteq T /\ u \ {Chosen(u)} \in SUBSET S
    BY <1>1, <1>4, ChosenIsIn
  <2> QED
    BY <1>1, <1>2, <1>4, <2>1 DEF SumStep
<1> QED
  BY <1>3, <1>4

\* The recursion has a solution.
Solved(f, S) == \E g : IsSum(g, f, S)
TheSum(f, S) == CHOOSE g : IsSum(g, f, S)

LEMMA SumExists ==
  ASSUME NEW S, IsFiniteSet(S), NEW f
  PROVE  Solved(f, S)
<1> DEFINE B == {u \in SUBSET S : ~Solved(f, u)}
<1> SUFFICES ASSUME B # {} PROVE FALSE
  OBVIOUS
<1>0. B \in SUBSET (SUBSET S)
  OBVIOUS
<1>1. PICK u \in B : \A v \in B : v \subseteq u => v = u
  <2> HIDE DEF B
  <2> QED
    BY <1>0, LeastSet
<1>2. ASSUME NEW v \in SUBSET u, v # u PROVE IsSum(TheSum(f, v), f, v) /\ IsFiniteSet(v)
  <2>1. v \in SUBSET S /\ v \notin B
    BY <1>1, <1>2
  <2> QED
    BY <2>1, FS_Subset DEF Solved, TheSum
<1> DEFINE V(v) == TheSum(f, v)[v]
           g == [v \in SUBSET u |-> IF v = {} THEN 0 ELSE f[Chosen(v)] + V(v \ {Chosen(v)})]
<1>3. ASSUME NEW v \in SUBSET u, v # u PROVE V(v) = g[v]
  <2>1. IsSum(TheSum(f, v), f, v) /\ IsFiniteSet(v)
    BY <1>2, <1>3
  <2>2. V(v) = SumStep(TheSum(f, v), f, v)
    BY <2>1 DEF IsSum
  <2>3. CASE v = {}
    BY <2>2, <2>3 DEF SumStep
  <2>4. CASE v # {}
    <3> DEFINE w == v \ {Chosen(v)}
    <3>1. w \in SUBSET v /\ w \in SUBSET u /\ w # u
      BY <1>3
    <3>2. IsSum(TheSum(f, w), f, w)
      BY <1>2, <3>1
    <3>3. TheSum(f, v)[w] = TheSum(f, w)[w]
      BY <2>1, <3>1, <3>2, SumsAgree
    <3> QED
      BY <2>2, <2>4, <3>3 DEF SumStep
  <2> QED
    BY <2>3, <2>4
<1>4. ASSUME NEW v \in SUBSET u PROVE g[v] = SumStep(g, f, v)
  <2>1. CASE v = {}
    BY <2>1 DEF SumStep
  <2>2. CASE v # {}
    <3> DEFINE w == v \ {Chosen(v)}
    <3>1. w \in SUBSET u /\ w # u
      BY <2>2, ChosenIsIn
    <3>2. V(w) = g[w]
      BY <1>3, <3>1
    <3>3. g[v] = f[Chosen(v)] + V(w)
      BY <2>2
    <3> QED
      BY <2>2, <3>2, <3>3 DEF SumStep
  <2> QED
    BY <2>1, <2>2
<1> HIDE DEF g
<1>5. g = [v \in SUBSET u |-> SumStep(g, f, v)]
  <2>1. g = [v \in SUBSET u |-> g[v]]
    BY DEF g
  <2> QED
    BY <1>4, <2>1
<1>6. Solved(f, u)
  BY <1>5 DEF Solved, IsSum
<1> QED
  BY <1>1, <1>6

\* The sum of f over S.
Sum(f, S) == SumFunctionOnSet(f, S)

LEMMA SumIsSum ==
  ASSUME NEW S, IsFiniteSet(S), NEW f
  PROVE  IsSum(TheSum(f, S), f, S) /\ Sum(f, S) = TheSum(f, S)[S]
<1>1. IsSum(TheSum(f, S), f, S)
  BY SumExists DEF Solved, TheSum
<1>2. Sum(f, S) = TheSum(f, S)[S]
  BY DEF Sum, TheSum, IsSum, SumStep, Chosen, SumFunctionOnSet, FoldFunctionOnSet, MapThenFoldSet
<1> QED
  BY <1>1, <1>2

LEMMA SumUnfolds ==
  ASSUME NEW S, IsFiniteSet(S), NEW f
  PROVE  /\ S = {} => Sum(f, S) = 0
         /\ S # {} => Sum(f, S) = f[Chosen(S)] + Sum(f, S \ {Chosen(S)})
<1>1. Sum(f, S) = SumStep(TheSum(f, S), f, S)
  <2> DEFINE g == TheSum(f, S)
  <2>1. IsSum(g, f, S) /\ Sum(f, S) = g[S]
    BY SumIsSum
  <2> HIDE DEF g
  <2>2. g[S] = SumStep(g, f, S)
    BY <2>1 DEF IsSum
  <2> QED
    BY <2>1, <2>2 DEF g
<1>2. CASE S = {}
  BY <1>1, <1>2 DEF SumStep
<1>3. CASE S # {}
  <2> DEFINE T == S \ {Chosen(S)}
  <2>1. T \in SUBSET S /\ IsFiniteSet(T)
    BY FS_Subset
  <2>2. TheSum(f, S)[T] = TheSum(f, T)[T]
    BY <2>1, SumIsSum, SumsAgree
  <2>3. Sum(f, T) = TheSum(f, T)[T]
    BY <2>1, SumIsSum
  <2> QED
    BY <1>1, <1>3, <2>2, <2>3 DEF SumStep
<1> QED
  BY <1>2, <1>3

\* A sum of integers is an integer.
LEMMA SumType ==
  ASSUME NEW S, IsFiniteSet(S), NEW f, \A x \in S : f[x] \in Int
  PROVE  Sum(f, S) \in Int
<1> DEFINE B == {u \in SUBSET S : Sum(f, u) \notin Int}
<1> SUFFICES ASSUME B # {} PROVE FALSE
  OBVIOUS
<1>0. B \in SUBSET (SUBSET S)
  OBVIOUS
<1>1. PICK u \in B : \A v \in B : v \subseteq u => v = u
  <2> HIDE DEF B
  <2> QED
    BY <1>0, LeastSet
<1>2. IsFiniteSet(u) /\ u \in SUBSET S
  BY <1>1, FS_Subset
<1>3. CASE u = {}
  <2>1. Sum(f, u) = 0
    BY <1>2, <1>3, SumUnfolds
  <2> QED
    BY <1>1, <2>1
<1>4. CASE u # {}
  <2>1. Chosen(u) \in u /\ u \ {Chosen(u)} \notin B /\ u \ {Chosen(u)} \in SUBSET S
    BY <1>1, <1>4, ChosenIsIn
  <2>2. f[Chosen(u)] \in Int /\ Sum(f, u \ {Chosen(u)}) \in Int
    BY <1>2, <2>1
  <2>3. Sum(f, u) = f[Chosen(u)] + Sum(f, u \ {Chosen(u)})
    BY <1>2, <1>4, SumUnfolds
  <2> QED
    BY <1>1, <2>2, <2>3
<1> QED
  BY <1>3, <1>4

\* Any member may be taken out.
LEMMA SumWithout ==
  ASSUME NEW S, IsFiniteSet(S), NEW f, \A x \in S : f[x] \in Int, NEW y0 \in S
  PROVE  Sum(f, S) = f[y0] + Sum(f, S \ {y0})
<1> DEFINE B == {u \in SUBSET S : \E y \in u : Sum(f, u) # f[y] + Sum(f, u \ {y})}
<1> SUFFICES ASSUME B # {} PROVE FALSE
  <2>1. S \in SUBSET S
    OBVIOUS
  <2> QED
    BY <2>1
<1>0. B \in SUBSET (SUBSET S)
  OBVIOUS
<1>1. PICK u \in B : \A v \in B : v \subseteq u => v = u
  <2> HIDE DEF B
  <2> QED
    BY <1>0, LeastSet
<1>2. PICK y \in u : Sum(f, u) # f[y] + Sum(f, u \ {y})
  BY <1>1
<1>3. IsFiniteSet(u) /\ u \in SUBSET S
  BY <1>1, FS_Subset
<1> DEFINE x == Chosen(u)
<1>4. x \in u /\ Sum(f, u) = f[x] + Sum(f, u \ {x})
  BY <1>2, <1>3, ChosenIsIn, SumUnfolds
<1> HIDE DEF x
<1>5. x # y
  BY <1>2, <1>4
<1>6. Sum(f, u \ {x}) = f[y] + Sum(f, (u \ {x}) \ {y})
  <2>1. u \ {x} \notin B /\ u \ {x} \in SUBSET S /\ y \in u \ {x}
    BY <1>1, <1>2, <1>3, <1>4, <1>5
  <2> QED
    BY <2>1
<1>7. Sum(f, u \ {y}) = f[x] + Sum(f, (u \ {y}) \ {x})
  <2>1. u \ {y} \notin B /\ u \ {y} \in SUBSET S /\ x \in u \ {y}
    BY <1>1, <1>2, <1>3, <1>4, <1>5
  <2> QED
    BY <2>1
<1>8. (u \ {x}) \ {y} = (u \ {y}) \ {x}
  OBVIOUS
<1> DEFINE k == Sum(f, (u \ {x}) \ {y})
<1>9. k \in Int
  <2>1. (u \ {x}) \ {y} \in SUBSET S
    BY <1>3
  <2>2. IsFiniteSet((u \ {x}) \ {y})
    BY <2>1, FS_Subset
  <2> QED
    BY <2>1, <2>2, SumType
<1>10. f[x] \in Int /\ f[y] \in Int
  BY <1>2, <1>3, <1>4
<1>11. Sum(f, u \ {x}) = f[y] + k /\ Sum(f, u \ {y}) = f[x] + k
  BY <1>6, <1>7, <1>8
<1> HIDE DEF k
<1>12. f[x] + (f[y] + k) = f[y] + (f[x] + k)
  BY <1>9, <1>10
<1> QED
  BY <1>2, <1>4, <1>11, <1>12

\* Sums of functions that agree on the set are equal.
LEMMA SumSame ==
  ASSUME NEW S, IsFiniteSet(S), NEW f, NEW g, \A x \in S : f[x] = g[x]
  PROVE  Sum(f, S) = Sum(g, S)
<1> DEFINE B == {u \in SUBSET S : Sum(f, u) # Sum(g, u)}
<1> SUFFICES ASSUME B # {} PROVE FALSE
  <2>1. S \in SUBSET S
    OBVIOUS
  <2> QED
    BY <2>1
<1>0. B \in SUBSET (SUBSET S)
  OBVIOUS
<1>1. PICK u \in B : \A v \in B : v \subseteq u => v = u
  <2> HIDE DEF B
  <2> QED
    BY <1>0, LeastSet
<1>2. IsFiniteSet(u) /\ u \in SUBSET S
  BY <1>1, FS_Subset
<1>3. CASE u = {}
  <2>1. Sum(f, u) = 0 /\ Sum(g, u) = 0
    BY <1>2, <1>3, SumUnfolds
  <2> QED
    BY <1>1, <2>1
<1>4. CASE u # {}
  <2>1. Chosen(u) \in u /\ u \ {Chosen(u)} \notin B /\ u \ {Chosen(u)} \in SUBSET S
    BY <1>1, <1>2, <1>4, ChosenIsIn
  <2>2. Sum(f, u) = f[Chosen(u)] + Sum(f, u \ {Chosen(u)})
    BY <1>2, <1>4, SumUnfolds
  <2>3. Sum(g, u) = g[Chosen(u)] + Sum(g, u \ {Chosen(u)})
    BY <1>2, <1>4, SumUnfolds
  <2>4. f[Chosen(u)] = g[Chosen(u)] /\ Sum(f, u \ {Chosen(u)}) = Sum(g, u \ {Chosen(u)})
    BY <1>2, <2>1
  <2> QED
    BY <1>1, <2>2, <2>3, <2>4
<1> QED
  BY <1>3, <1>4

\* A larger set or larger terms sum to no less, of natural numbers.
LEMMA SumAtMost ==
  ASSUME NEW S, IsFiniteSet(S), NEW f, NEW g,
         \A x \in S : f[x] \in Nat /\ g[x] \in Nat /\ f[x] <= g[x]
  PROVE  Sum(f, S) \in Nat /\ Sum(g, S) \in Nat /\ Sum(f, S) <= Sum(g, S)
<1> DEFINE B == {u \in SUBSET S : ~(/\ Sum(f, u) \in Nat /\ Sum(g, u) \in Nat
                                    /\ Sum(f, u) <= Sum(g, u))}
<1> SUFFICES ASSUME B # {} PROVE FALSE
  <2>1. S \in SUBSET S
    OBVIOUS
  <2> QED
    BY <2>1
<1>0. B \in SUBSET (SUBSET S)
  OBVIOUS
<1>1. PICK u \in B : \A v \in B : v \subseteq u => v = u
  <2> HIDE DEF B
  <2> QED
    BY <1>0, LeastSet
<1>2. IsFiniteSet(u) /\ u \in SUBSET S
  BY <1>1, FS_Subset
<1>3. CASE u = {}
  <2>1. Sum(f, u) = 0 /\ Sum(g, u) = 0
    BY <1>2, <1>3, SumUnfolds
  <2> QED
    BY <1>1, <2>1
<1>4. CASE u # {}
  <2>1. Chosen(u) \in u /\ u \ {Chosen(u)} \notin B /\ u \ {Chosen(u)} \in SUBSET S
    BY <1>1, <1>2, <1>4, ChosenIsIn
  <2>2. PICK a \in Nat, b \in Nat : a = f[Chosen(u)] /\ b = g[Chosen(u)] /\ a <= b
    BY <1>2, <2>1
  <2>3. PICK c \in Nat, d \in Nat :
          c = Sum(f, u \ {Chosen(u)}) /\ d = Sum(g, u \ {Chosen(u)}) /\ c <= d
    BY <2>1
  <2>4. Sum(f, u) = a + c
    BY <1>2, <1>4, <2>2, <2>3, SumUnfolds
  <2>5. Sum(g, u) = b + d
    BY <1>2, <1>4, <2>2, <2>3, SumUnfolds
  <2>6. a + c \in Nat /\ b + d \in Nat /\ a + c <= b + d
    BY <2>2, <2>3
  <2> QED
    BY <1>1, <2>4, <2>5, <2>6
<1> QED
  BY <1>3, <1>4

-----------------------------------------------------------------------------
(* The rows a resume skips. *)

\* What every request knows about the rows behind it: lastSuccessIndex never
\* covers a row that is not a task, and until a row of this request has
\* failed it is exactly the row before the current one.
Behind(q) == /\ req[q].at # "idle" => \A r \in 1..req[q].last : tasks[r] > 0
             /\ req[q].down => req[q].errors
             /\ req[q].at \in {"skip", "row"} /\ ~req[q].down => req[q].last = req[q].i - 1
             /\ req[q].at \in {"bucket", "point"} /\ ~req[q].down => req[q].last = req[q].i
             /\ req[q].at = "count" => req[q].last = req[q].i /\ ~req[q].down
             /\ req[q].at \in {"row", "count", "bucket", "point"} => req[q].i <= Rows
             /\ req[q].at = "finish" /\ ~req[q].errors => req[q].last = Rows

ReqType == [at : Point, i : 1..(Rows + 1), last : 0..Rows, errors : BOOLEAN, down : BOOLEAN]

Types == /\ run \in [status : Status, from : NoPoint..Rows, created : Nat]
         /\ tasks \in [1..Rows -> Nat]
         /\ req \in [Requests -> ReqType]

IInv == /\ Types
        /\ SkippedSucceeded
        /\ SucceededComplete
        /\ \A q \in Requests : Behind(q)

\* The invariant holds before the first request.
LEMMA InitIInv == Init => IInv
  BY RowsAssumption DEF Init, IInv, Types, ReqType, SkippedSucceeded, SucceededComplete, Behind,
     Idle, NoPoint, Status, Point

\* Every step keeps the invariant while failures last for the request.
LEMMA StepIInv == ASSUME ~RowLocal, IInv, [Next]_vars PROVE IInv'
<1> USE RowsAssumption DEF Idle, NoPoint, Status, Point
<1>1. CASE UNCHANGED vars
  BY <1>1 DEF IInv, vars, Types, ReqType, SkippedSucceeded, SucceededComplete, Behind
<1> SUFFICES ASSUME NEW q \in Requests, Commit(q) \/ ResumeLoad(q) \/ Step(q) \/ Reject(q) \/ Crash(q)
             PROVE IInv'
  BY <1>1 DEF Next
<1>2. /\ run.status \in Status /\ run.from \in -1..Rows /\ run.created \in Nat
      /\ run = [status |-> run.status, from |-> run.from, created |-> run.created]
      /\ tasks \in [1..Rows -> Nat]
      /\ req \in [Requests -> ReqType]
  BY DEF IInv, Types
<1>3. /\ req[q].at \in Point /\ req[q].i \in 1..(Rows + 1) /\ req[q].last \in 0..Rows
      /\ req[q].errors \in BOOLEAN /\ req[q].down \in BOOLEAN
  BY <1>2 DEF ReqType
<1>4. Behind(q) /\ SkippedSucceeded /\ SucceededComplete
  BY DEF IInv
<1>5. CASE Commit(q)
  <2>1. Types'
    BY <1>5, <1>2, <1>3, <1>4 DEF Types, ReqType, Behind, Commit, Begin
  <2>2. SkippedSucceeded' /\ SucceededComplete'
    BY <1>5, <1>2, <1>3, <1>4 DEF Behind, SkippedSucceeded, SucceededComplete, Commit, Begin
  <2>3. Behind(q)'
    BY <1>5, <1>2, <1>3, <1>4 DEF ReqType, Behind, SkippedSucceeded, Commit, Begin
  <2>4. ASSUME NEW p \in Requests \ {q} PROVE Behind(p)'
    BY <1>5, <1>2 DEF IInv, ReqType, Behind, Commit, Begin
  <2> QED
    BY <2>1, <2>2, <2>3, <2>4 DEF IInv
<1>6. CASE ResumeLoad(q)
  <2>1. Types'
    BY <1>6, <1>2, <1>3, <1>4 DEF Types, ReqType, Behind, ResumeLoad, At
  <2>2. SkippedSucceeded' /\ SucceededComplete'
    BY <1>6, <1>2, <1>3, <1>4 DEF Behind, SkippedSucceeded, SucceededComplete, ResumeLoad, At
  <2>3. Behind(q)'
    BY <1>6, <1>2, <1>3, <1>4 DEF ReqType, Behind, SkippedSucceeded, ResumeLoad, At
  <2>4. ASSUME NEW p \in Requests \ {q} PROVE Behind(p)'
    BY <1>6, <1>2 DEF IInv, ReqType, Behind, ResumeLoad, At
  <2> QED
    BY <2>1, <2>2, <2>3, <2>4 DEF IInv
<1>7. CASE Skip(q)
  <2>1. Types'
    BY <1>7, <1>2, <1>3, <1>4 DEF Types, ReqType, Behind, Skip, At, Goto, NextRow
  <2>2. SkippedSucceeded' /\ SucceededComplete'
    BY <1>7, <1>2, <1>3, <1>4 DEF Behind, SkippedSucceeded, SucceededComplete, Skip, At, Goto, NextRow
  <2>3. Behind(q)'
    BY <1>7, <1>2, <1>3, <1>4 DEF ReqType, Behind, SkippedSucceeded, Skip, At, Goto, NextRow
  <2>4. ASSUME NEW p \in Requests \ {q} PROVE Behind(p)'
    BY <1>7, <1>2 DEF IInv, ReqType, Behind, Skip, At, Goto, NextRow
  <2> QED
    BY <2>1, <2>2, <2>3, <2>4 DEF IInv
<1>8. CASE ResumeMark(q)
  <2>1. Types'
    <3>1. run' \in [status : Status, from : NoPoint..Rows, created : Nat]
      BY <1>8, <1>2, <1>3 DEF ResumeMark
    <3>2. req' \in [Requests -> ReqType]
      BY <1>8, <1>2, <1>3 DEF ReqType, ResumeMark, At, Begin, NextRow
    <3> QED
      BY <1>8, <1>2, <3>1, <3>2 DEF Types, ResumeMark
  <2>2. SkippedSucceeded' /\ SucceededComplete'
    BY <1>8, <1>2, <1>3, <1>4 DEF Behind, SkippedSucceeded, SucceededComplete, ResumeMark, At, Begin, NextRow
  <2>3. Behind(q)'
    BY <1>8, <1>2, <1>3, <1>4 DEF ReqType, Behind, ResumeMark, At, Begin, NextRow
  <2>4. ASSUME NEW p \in Requests \ {q} PROVE Behind(p)'
    BY <1>8, <1>2 DEF IInv, ReqType, Behind, ResumeMark, At, Begin, NextRow
  <2> QED
    BY <2>1, <2>2, <2>3, <2>4 DEF IInv
<1>9. CASE CreateOk(q)
  <2>1. Types'
    BY <1>9, <1>2, <1>3, <1>4 DEF Types, ReqType, Behind, CreateOk, At
  <2>2. SkippedSucceeded' /\ SucceededComplete'
    BY <1>9, <1>2, <1>3, <1>4 DEF Behind, SkippedSucceeded, SucceededComplete, CreateOk, At
  <2>3. Behind(q)'
    BY <1>9, <1>2, <1>3, <1>4 DEF ReqType, Behind, SkippedSucceeded, CreateOk, At
  <2>4. ASSUME NEW p \in Requests \ {q} PROVE Behind(p)'
    BY <1>9, <1>2 DEF IInv, ReqType, Behind, CreateOk, At
  <2> QED
    BY <2>1, <2>2, <2>3, <2>4 DEF IInv
<1>10. CASE CreateFails(q)
  <2>1. Types'
    <3>1. req'[q] \in ReqType
      BY <1>10, <1>2, <1>3 DEF ReqType, CreateFails, At, Point
    <3>2. req' = [req EXCEPT ![q] = req'[q]]
      BY <1>10, <1>2 DEF CreateFails
    <3>3. req' \in [Requests -> ReqType]
      BY <3>1, <3>2, <1>2
    <3> QED
      BY <1>10, <1>2, <3>3 DEF Types, CreateFails
  <2>2. SkippedSucceeded' /\ SucceededComplete'
    BY <1>10, <1>2, <1>3, <1>4 DEF Behind, SkippedSucceeded, SucceededComplete, CreateFails, At
  <2>3. Behind(q)'
    BY <1>10, <1>2, <1>3, <1>4 DEF ReqType, Behind, SkippedSucceeded, CreateFails, At
  <2>4. ASSUME NEW p \in Requests \ {q} PROVE Behind(p)'
    BY <1>10, <1>2 DEF IInv, ReqType, Behind, CreateFails, At
  <2> QED
    BY <2>1, <2>2, <2>3, <2>4 DEF IInv
<1>11. CASE CountCreated(q)
  <2>1. Types'
    BY <1>11, <1>2, <1>3, <1>4 DEF Types, ReqType, Behind, CountCreated, At, NextRow
  <2>2. SkippedSucceeded' /\ SucceededComplete'
    BY <1>11, <1>2, <1>3, <1>4 DEF Behind, SkippedSucceeded, SucceededComplete, CountCreated, At, NextRow
  <2>3. Behind(q)'
    BY <1>11, <1>2, <1>3, <1>4 DEF ReqType, Behind, SkippedSucceeded, CountCreated, At, NextRow
  <2>4. ASSUME NEW p \in Requests \ {q} PROVE Behind(p)'
    BY <1>11, <1>2 DEF IInv, ReqType, Behind, CountCreated, At, NextRow
  <2> QED
    BY <2>1, <2>2, <2>3, <2>4 DEF IInv
<1>12. CASE CountErrored(q)
  <2>1. Types'
    BY <1>12, <1>2, <1>3, <1>4 DEF Types, ReqType, Behind, CountErrored, At, Goto
  <2>2. SkippedSucceeded' /\ SucceededComplete'
    BY <1>12, <1>2, <1>3, <1>4 DEF Behind, SkippedSucceeded, SucceededComplete, CountErrored, At, Goto
  <2>3. Behind(q)'
    BY <1>12, <1>2, <1>3, <1>4 DEF ReqType, Behind, SkippedSucceeded, CountErrored, At, Goto
  <2>4. ASSUME NEW p \in Requests \ {q} PROVE Behind(p)'
    BY <1>12, <1>2 DEF IInv, ReqType, Behind, CountErrored, At, Goto
  <2> QED
    BY <2>1, <2>2, <2>3, <2>4 DEF IInv
<1>13. CASE SavePoint(q)
  <2>1. Types'
    BY <1>13, <1>2, <1>3, <1>4 DEF Types, ReqType, Behind, SavePoint, At, NextRow
  <2>2. SkippedSucceeded' /\ SucceededComplete'
    BY <1>13, <1>2, <1>3, <1>4 DEF Behind, SkippedSucceeded, SucceededComplete, SavePoint, At, NextRow
  <2>3. Behind(q)'
    BY <1>13, <1>2, <1>3, <1>4 DEF ReqType, Behind, SkippedSucceeded, SavePoint, At, NextRow
  <2>4. ASSUME NEW p \in Requests \ {q} PROVE Behind(p)'
    BY <1>13, <1>2 DEF IInv, ReqType, Behind, SavePoint, At, NextRow
  <2> QED
    BY <2>1, <2>2, <2>3, <2>4 DEF IInv
<1>14. CASE Finish(q)
  <2>1. Types'
    <3>1. run' \in [status : Status, from : NoPoint..Rows, created : Nat]
      BY <1>14, <1>2, <1>3 DEF Finish
    <3>2. req' \in [Requests -> ReqType]
      <4>1. Stop(q) \/ Goto(q, "clear")
        BY <1>14 DEF Finish
      <4>2. CASE Stop(q)
        BY <4>2, <1>2 DEF ReqType, Stop
      <4>3. CASE Goto(q, "clear")
        BY <4>3, <1>2 DEF ReqType, Goto
      <4> QED
        BY <4>1, <4>2, <4>3
    <3> QED
      BY <1>14, <1>2, <3>1, <3>2 DEF Types, Finish
  <2>2. SkippedSucceeded' /\ SucceededComplete'
    BY <1>14, <1>2, <1>3, <1>4 DEF Behind, SkippedSucceeded, SucceededComplete, Finish, At, Stop, Goto
  <2>3. Behind(q)'
    BY <1>14, <1>2, <1>3, <1>4 DEF ReqType, Behind, SkippedSucceeded, Finish, At, Stop, Goto
  <2>4. ASSUME NEW p \in Requests \ {q} PROVE Behind(p)'
    BY <1>14, <1>2 DEF IInv, ReqType, Behind, Finish, At, Stop, Goto
  <2> QED
    BY <2>1, <2>2, <2>3, <2>4 DEF IInv
<1>15. CASE ClearPoint(q)
  <2>1. Types'
    BY <1>15, <1>2, <1>3, <1>4 DEF Types, ReqType, Behind, ClearPoint, At, Stop
  <2>2. SkippedSucceeded' /\ SucceededComplete'
    BY <1>15, <1>2, <1>3, <1>4 DEF Behind, SkippedSucceeded, SucceededComplete, ClearPoint, At, Stop
  <2>3. Behind(q)'
    BY <1>15, <1>2, <1>3, <1>4 DEF ReqType, Behind, SkippedSucceeded, ClearPoint, At, Stop
  <2>4. ASSUME NEW p \in Requests \ {q} PROVE Behind(p)'
    BY <1>15, <1>2 DEF IInv, ReqType, Behind, ClearPoint, At, Stop
  <2> QED
    BY <2>1, <2>2, <2>3, <2>4 DEF IInv
<1>16. CASE Rescue(q)
  <2>1. Types'
    <3>1. run' \in [status : Status, from : NoPoint..Rows, created : Nat]
      BY <1>16, <1>2, <1>3 DEF Rescue
    <3>2. req' \in [Requests -> ReqType]
      BY <1>16, <1>2, <1>3 DEF ReqType, Rescue, At, Goto
    <3> QED
      BY <1>16, <1>2, <3>1, <3>2 DEF Types, Rescue
  <2>2. SkippedSucceeded' /\ SucceededComplete'
    BY <1>16, <1>2, <1>3, <1>4 DEF Behind, SkippedSucceeded, SucceededComplete, Rescue, At, Goto
  <2>3. Behind(q)'
    BY <1>16, <1>2, <1>3, <1>4 DEF ReqType, Behind, SkippedSucceeded, Rescue, At, Goto
  <2>4. ASSUME NEW p \in Requests \ {q} PROVE Behind(p)'
    BY <1>16, <1>2 DEF IInv, ReqType, Behind, Rescue, At, Goto
  <2> QED
    BY <2>1, <2>2, <2>3, <2>4 DEF IInv
<1>17. CASE Fail(q)
  <2>1. Types'
    <3>1. run' \in [status : Status, from : NoPoint..Rows, created : Nat]
      BY <1>17, <1>2, <1>3 DEF Fail
    <3>2. req' \in [Requests -> ReqType]
      BY <1>17, <1>2, <1>3 DEF ReqType, Fail, At, Stop
    <3> QED
      BY <1>17, <1>2, <3>1, <3>2 DEF Types, Fail
  <2>2. SkippedSucceeded' /\ SucceededComplete'
    BY <1>17, <1>2, <1>3, <1>4 DEF Behind, SkippedSucceeded, SucceededComplete, Fail, At, Stop
  <2>3. Behind(q)'
    BY <1>17, <1>2, <1>3, <1>4 DEF ReqType, Behind, SkippedSucceeded, Fail, At, Stop
  <2>4. ASSUME NEW p \in Requests \ {q} PROVE Behind(p)'
    BY <1>17, <1>2 DEF IInv, ReqType, Behind, Fail, At, Stop
  <2> QED
    BY <2>1, <2>2, <2>3, <2>4 DEF IInv
<1>18. CASE Reject(q)
  <2>1. Types'
    <3>1. run' \in [status : Status, from : NoPoint..Rows, created : Nat]
      BY <1>18, <1>2, <1>3 DEF Reject
    <3>2. req' \in [Requests -> ReqType]
      <4>1. CASE Caught(req[q].at) = "idle"
        <5>1. Stop(q)
          BY <1>18, <4>1 DEF Reject
        <5> QED
          BY <5>1, <1>2 DEF ReqType, Stop
      <4>2. CASE Caught(req[q].at) # "idle"
        <5>1. req' = [req EXCEPT ![q].at = Caught(req[q].at), ![q].errors = TRUE]
          BY <1>18, <4>2 DEF Reject
        <5>2. Caught(req[q].at) \in Point
          BY DEF Caught
        <5>3. [req[q] EXCEPT !.at = Caught(req[q].at), !.errors = TRUE] \in ReqType
          BY <5>2, <1>2 DEF ReqType
        <5>4. req' = [req EXCEPT ![q] = [req[q] EXCEPT !.at = Caught(req[q].at), !.errors = TRUE]]
          BY <5>1, <1>2
        <5> QED
          BY <5>3, <5>4, <1>2
      <4> QED
        BY <4>1, <4>2
    <3> QED
      BY <1>18, <1>2, <3>1, <3>2 DEF Types, Reject
  <2>2. SkippedSucceeded' /\ SucceededComplete'
    BY <1>18, <1>2, <1>3, <1>4 DEF Behind, SkippedSucceeded, SucceededComplete, Reject, At, Stop, Caught
  <2>3. Behind(q)'
    BY <1>18, <1>2, <1>3, <1>4 DEF ReqType, Behind, SkippedSucceeded, Reject, At, Stop, Caught
  <2>4. ASSUME NEW p \in Requests \ {q} PROVE Behind(p)'
    BY <1>18, <1>2 DEF IInv, ReqType, Behind, Reject, At, Stop, Caught
  <2> QED
    BY <2>1, <2>2, <2>3, <2>4 DEF IInv
<1>19. CASE Crash(q)
  <2>1. Types'
    BY <1>19, <1>2, <1>3, <1>4 DEF Types, ReqType, Behind, Crash, At, Stop
  <2>2. SkippedSucceeded' /\ SucceededComplete'
    BY <1>19, <1>2, <1>3, <1>4 DEF Behind, SkippedSucceeded, SucceededComplete, Crash, At, Stop
  <2>3. Behind(q)'
    BY <1>19, <1>2, <1>3, <1>4 DEF ReqType, Behind, SkippedSucceeded, Crash, At, Stop
  <2>4. ASSUME NEW p \in Requests \ {q} PROVE Behind(p)'
    BY <1>19, <1>2 DEF IInv, ReqType, Behind, Crash, At, Stop
  <2> QED
    BY <2>1, <2>2, <2>3, <2>4 DEF IInv
<1> QED
  BY <1>5, <1>6, <1>7, <1>8, <1>9, <1>10, <1>11, <1>12, <1>13, <1>14, <1>15, <1>16, <1>17, <1>18, <1>19 DEF Step

\* What ImportService.resume relies on, when failures last for the rest of a
\* request: the rows it skips are tasks.  Resumes may overlap, statements may
\* be rejected and replicas may die at any point.
THEOREM ResumeSkipsOnlyTasks == ~RowLocal /\ Spec => []SkippedSucceeded
<1> SUFFICES ASSUME ~RowLocal PROVE Spec => []SkippedSucceeded
  OBVIOUS
<1>1. IInv /\ [Next]_vars => IInv'
  BY StepIInv
<1>2. IInv => SkippedSucceeded
  BY DEF IInv
<1> QED
  BY InitIInv, <1>1, <1>2, PTL DEF Spec

\* Under the same assumption a run that reports success has imported every row.
THEOREM SuccessIsComplete == ~RowLocal /\ Spec => []SucceededComplete
<1> SUFFICES ASSUME ~RowLocal PROVE Spec => []SucceededComplete
  OBVIOUS
<1>1. IInv /\ [Next]_vars => IInv'
  BY StepIInv
<1>2. IInv => SucceededComplete
  BY DEF IInv
<1> QED
  BY InitIInv, <1>1, <1>2, PTL DEF Spec

-----------------------------------------------------------------------------
(* No row becomes two tasks. *)

\* Nothing has been rejected and no loop has begun beside another request.
Orderly == faults = 0 /\ ~raced
Loop == {"skip", "row", "count", "bucket", "point", "finish", "clear"}

\* A request in its loop is alone, the rows after its lastSuccessIndex are not
\* tasks yet, and once a row has failed the resume point is that index; a
\* request about to begin has read the point that is still there.
Alone(q) == /\ req[q].at \in Loop =>
                 /\ \A p \in Requests \ {q} : req[p].at = "idle"
                 /\ run.status = IF req[q].at = "clear" THEN "succeeded" ELSE "running"
                 /\ \A r \in 1..Rows : r > req[q].last => tasks[r] = 0
                 /\ (req[q].errors <=> req[q].down)
                 /\ req[q].at = "skip" => ~req[q].down
                 /\ req[q].at \in {"row", "finish"} /\ req[q].down => run.from = req[q].last
            /\ req[q].at = "mark" => run.status = "failed" /\ req[q].last = run.from
            /\ req[q].at \notin {"rescue", "fail"}

OnceInv == /\ \A r \in 1..Rows : tasks[r] <= 1
           /\ run.status = "none" => /\ \A r \in 1..Rows : tasks[r] = 0
                                     /\ \A q \in Requests : req[q].at = "idle"
           /\ run.status = "failed" => \A r \in 1..Rows : r > run.from => tasks[r] = 0
           /\ \A q \in Requests : Alone(q)

RowsIInv == faults \in Nat /\ (Orderly => OnceInv)

\* No row is a task before the first request.
LEMMA RowsStart == Init => RowsIInv
  BY RowsAssumption DEF Init, RowsIInv, Orderly, OnceInv, Alone, Loop, Idle, NoPoint

\* Every step keeps it: a step that is not orderly has nothing to keep.
LEMMA RowsStep ==
  ASSUME ~RowLocal, IInv, RowsIInv, [Next]_vars
  PROVE  RowsIInv'
<1> USE RowsAssumption
<1>1. CASE UNCHANGED vars
  BY <1>1 DEF RowsIInv, vars, Orderly, OnceInv, Alone
<1> SUFFICES ASSUME NEW q \in Requests, Commit(q) \/ ResumeLoad(q) \/ Step(q) \/ Reject(q) \/ Crash(q)
             PROVE RowsIInv'
  BY <1>1 DEF Next
<1>2. /\ faults' \in Nat /\ (Orderly' => Orderly)
      /\ Reject(q) => ~Orderly'
  <2>1. CASE Reject(q)
    BY <2>1 DEF RowsIInv, Orderly, Reject
  <2>2. CASE Commit(q) \/ ResumeMark(q)
    <3>1. faults' = faults /\ (raced => raced')
      BY <2>2 DEF Commit, ResumeMark, Begin
    <3>2. ~Reject(q)
      BY <3>1 DEF RowsIInv, Reject
    <3> QED
      BY <3>1, <3>2 DEF RowsIInv, Orderly
  <2>3. CASE ResumeLoad(q) \/ Crash(q) \/ Skip(q) \/ CreateOk(q) \/ CreateFails(q)
    BY <2>3 DEF RowsIInv, Orderly, ResumeLoad, Crash, Skip, CreateOk, CreateFails, Reject
  <2>4. CASE \/ CountCreated(q) \/ CountErrored(q) \/ SavePoint(q) \/ Finish(q) \/ ClearPoint(q)
             \/ Rescue(q) \/ Fail(q)
    BY <2>4 DEF RowsIInv, Orderly, CountCreated, CountErrored, SavePoint, Finish, ClearPoint, Rescue,
       Fail, Reject
  <2> QED
    BY <2>1, <2>2, <2>3, <2>4 DEF Step
<1> SUFFICES ASSUME Orderly', Orderly, OnceInv PROVE OnceInv'
  BY <1>2 DEF RowsIInv
<1>3. /\ run.status \in Status /\ run.from \in -1..Rows /\ run.created \in Nat
      /\ run = [status |-> run.status, from |-> run.from, created |-> run.created]
      /\ tasks \in [1..Rows -> Nat]
      /\ req \in [Requests -> ReqType] /\ Behind(q)
  BY DEF IInv, Types, NoPoint
<1>4. /\ req[q].at \in Point /\ req[q].i \in 1..(Rows + 1) /\ req[q].last \in 0..Rows
      /\ req[q].errors \in BOOLEAN /\ req[q].down \in BOOLEAN
  BY <1>3 DEF ReqType
<1>5. Alone(q)
  BY DEF OnceInv
<1>6. CASE Crash(q)
  BY <1>3, <1>6 DEF Crash, Stop, Idle, OnceInv, Alone, Loop
<1>7. CASE ResumeLoad(q)
  BY <1>3, <1>7 DEF ResumeLoad, At, NoPoint, OnceInv, Alone, Loop
<1>8. CASE Commit(q)
  <2>1. \A p \in Requests \ {q} : req[p].at = "idle"
    BY <1>8 DEF Commit, OnceInv
  <2> QED
    BY <1>3, <1>8, <2>1 DEF Commit, Begin, NoPoint, OnceInv, Alone, Loop
<1>9. CASE ResumeMark(q)
  <2>1. \A p \in Requests \ {q} : req[p].at = "idle"
    BY <1>9 DEF ResumeMark, Begin, Orderly, Others, At
  <2>2. run.status = "failed" /\ req[q].last = run.from
    BY <1>5, <1>9 DEF ResumeMark, At, Alone
  <2> QED
    BY <1>3, <1>4, <1>9, <2>1, <2>2 DEF ResumeMark, Begin, NextRow, OnceInv, Alone, Loop
<1>10. CASE Skip(q)
  <2>1. /\ req'[q].at = NextRow(req[q].i) /\ req'[q].last = req[q].last
        /\ (req'[q].errors <=> req[q].errors) /\ (req'[q].down <=> req[q].down)
        /\ \A p \in Requests \ {q} : req'[p] = req[p]
        /\ run' = run /\ tasks' = tasks /\ req[q].at = "skip"
    BY <1>3, <1>10 DEF Skip, At, Goto, ReqType
  <2> QED
    BY <1>5, <2>1 DEF OnceInv, Alone, Loop, NextRow
<1>11. CASE CreateOk(q)
  <2>1. req[q].last = req[q].i - 1 /\ req[q].i <= Rows
    BY <1>3, <1>4, <1>11 DEF CreateOk, At, Behind
  <2> QED
    BY <1>3, <1>4, <1>5, <1>11, <2>1 DEF CreateOk, At, OnceInv, Alone, Loop, ReqType
<1>12. CASE CreateFails(q)
  <2>1. /\ req'[q].at = "bucket" /\ req'[q].errors /\ req'[q].down /\ req'[q].last = req[q].last
        /\ \A p \in Requests \ {q} : req'[p] = req[p]
        /\ run' = run /\ tasks' = tasks /\ req[q].at = "row"
    BY <1>3, <1>12 DEF CreateFails, At, ReqType
  <2> QED
    BY <1>5, <2>1 DEF OnceInv, Alone, Loop
<1>13. CASE CountCreated(q)
  BY <1>3, <1>4, <1>5, <1>13 DEF CountCreated, At, NextRow, Behind, OnceInv, Alone, Loop, ReqType
<1>14. CASE CountErrored(q)
  BY <1>3, <1>4, <1>5, <1>14 DEF CountErrored, At, Goto, OnceInv, Alone, Loop, ReqType
<1>15. CASE SavePoint(q)
  BY <1>3, <1>4, <1>5, <1>15 DEF SavePoint, At, NextRow, OnceInv, Alone, Loop, ReqType
<1>16. CASE Finish(q)
  <2>1. /\ run'.status = IF req[q].errors THEN "failed" ELSE "succeeded"
        /\ run'.from = run.from /\ tasks' = tasks /\ req[q].at = "finish"
        /\ \A p \in Requests \ {q} : req'[p] = req[p]
    BY <1>3, <1>16 DEF Finish, At, Goto, Stop
  <2>2. /\ \A p \in Requests \ {q} : req[p].at = "idle"
        /\ \A r \in 1..Rows : r > req[q].last => tasks[r] = 0
        /\ req[q].errors => run.from = req[q].last
    BY <1>5, <2>1 DEF Alone, Loop
  <2>3. CASE req[q].errors
    <3>1. req'[q].at = "idle"
      BY <1>3, <1>16, <2>3 DEF Finish, Stop, Idle
    <3> QED
      BY <1>4, <2>1, <2>2, <2>3, <3>1 DEF OnceInv, Alone, Loop
  <2>4. CASE ~req[q].errors
    <3>1. /\ req'[q].at = "clear" /\ req'[q].last = req[q].last
          /\ (req'[q].errors <=> req[q].errors) /\ (req'[q].down <=> req[q].down)
      BY <1>3, <1>16, <2>4 DEF Finish, Goto, ReqType
    <3> QED
      BY <1>4, <1>5, <2>1, <2>2, <2>4, <3>1 DEF OnceInv, Alone, Loop
  <2> QED
    BY <2>3, <2>4
<1>17. CASE ClearPoint(q)
  BY <1>3, <1>4, <1>5, <1>17 DEF ClearPoint, At, Stop, Idle, NoPoint, OnceInv, Alone, Loop, ReqType
<1>18. CASE Rescue(q) \/ Fail(q)
  BY <1>5, <1>18 DEF Rescue, Fail, At, Alone
<1> QED
  BY <1>2, <1>6, <1>7, <1>8, <1>9, <1>10, <1>11, <1>12, <1>13, <1>14, <1>15, <1>16, <1>17, <1>18 DEF Step

\* However often a failed import is resumed, and wherever it crashed: as long
\* as the run row can be written and requests do not overlap, no row of the
\* CSV becomes two tasks.
THEOREM NoRowImportedTwice == ~RowLocal /\ Spec => []NoRowTwice
<1> SUFFICES ASSUME ~RowLocal PROVE Spec => []NoRowTwice
  OBVIOUS
<1>1. IInv /\ [Next]_vars => IInv'
  BY StepIInv
<1>2. IInv /\ RowsIInv /\ [Next]_vars => RowsIInv'
  BY RowsStep
<1>3. RowsIInv => NoRowTwice
  BY DEF RowsIInv, Orderly, OnceInv, NoRowTwice
<1> QED
  BY InitIInv, RowsStart, <1>1, <1>2, <1>3, PTL DEF Spec

-----------------------------------------------------------------------------
(* The counter of created rows. *)

\* The requests whose row is a task the counter does not have yet.
Counting == {q \in Requests : req[q].at = "count"}

\* The counter and the requests about to advance it come to no more than the
\* tasks there are.
CountInv == /\ IsFiniteSet(Counting)
            /\ run.created + Cardinality(Counting) <= Sum(tasks, 1..Rows)

\* The sum in the property, as the lemmas have it.
LEMMA TasksSum ==
  ASSUME NEW f, DOMAIN f = 1..Rows
  PROVE  FoldFunction(+, 0, f) = Sum(f, 1..Rows)
  BY DEF Sum, SumFunctionOnSet, FoldFunction

LEMMA RowsFinite == IsFiniteSet(1..Rows)
  BY RowsAssumption, FS_Interval

\* Nothing is counted before the first request.
LEMMA CountStart == Init => CountInv
<1> SUFFICES ASSUME Init PROVE CountInv
  OBVIOUS
<1>1. Counting = {}
  BY DEF Init, Idle, Counting
<1>2. IsFiniteSet(Counting) /\ Cardinality(Counting) = 0
  BY <1>1, FS_EmptySet
<1>3. \A r \in 1..Rows : tasks[r] \in Nat /\ tasks[r] <= tasks[r]
  BY DEF Init
<1>4. Sum(tasks, 1..Rows) \in Nat
  BY <1>3, RowsFinite, SumAtMost
<1>5. run.created = 0
  BY DEF Init
<1> QED
  BY <1>2, <1>4, <1>5 DEF CountInv

\* Every step keeps the counter covered, whatever fails.
LEMMA CountStep ==
  ASSUME Types, \A q \in Requests : Behind(q), CountInv, [Next]_vars
  PROVE  CountInv'
<1> USE RowsAssumption
<1>1. CASE UNCHANGED vars
  BY <1>1 DEF CountInv, Counting, vars
<1> SUFFICES ASSUME NEW q \in Requests,
                    Commit(q) \/ ResumeLoad(q) \/ Step(q) \/ Reject(q) \/ Crash(q)
             PROVE  CountInv'
  BY <1>1 DEF Next
<1>2. tasks \in [1..Rows -> Nat] /\ req \in [Requests -> ReqType] /\ run.created \in Nat
  BY DEF Types
<1>3. PICK c \in Nat : c = Cardinality(Counting)
  BY FS_CardinalityType DEF CountInv
<1>4. PICK t \in Nat : t = Sum(tasks, 1..Rows)
  <2>1. \A r \in 1..Rows : tasks[r] \in Nat /\ tasks[r] <= tasks[r]
    BY <1>2
  <2> QED
    BY <2>1, RowsFinite, SumAtMost
<1>5. PICK n \in Nat : n = run.created /\ n + c <= t
  BY <1>2, <1>3, <1>4 DEF CountInv
<1>6. ASSUME \A p \in Requests \ {q} : req'[p] = req[p], req'[q].at # "count",
             tasks' = tasks, run'.created \in {0, n}
      PROVE  CountInv'
  <2>1. Counting' \subseteq Counting
    BY <1>6 DEF Counting
  <2>2. IsFiniteSet(Counting') /\ Cardinality(Counting') <= c /\ Cardinality(Counting') \in Nat
    BY <1>3, <2>1, FS_Subset, FS_CardinalityType DEF CountInv
  <2>3. run'.created + Cardinality(Counting') <= t
    BY <1>5, <1>6, <2>2
  <2> QED
    BY <1>4, <1>6, <2>2, <2>3 DEF CountInv
<1>7. CASE CreateOk(q)
  <2>1. q \notin Counting /\ Counting' = Counting \cup {q} /\ run' = run
    BY <1>2, <1>7 DEF CreateOk, At, Counting, ReqType
  <2>2. IsFiniteSet(Counting') /\ Cardinality(Counting') = c + 1
    BY <1>3, <2>1, FS_AddElement DEF CountInv
  <2> DEFINE i == req[q].i
  <2>3. i \in 1..Rows
    BY <1>2, <1>7 DEF CreateOk, At, Behind, ReqType
  <2>4. /\ tasks'[i] = tasks[i] + 1 /\ \A r \in (1..Rows) \ {i} : tasks'[r] = tasks[r]
        /\ tasks' \in [1..Rows -> Nat]
    BY <1>2, <1>7, <2>3 DEF CreateOk
  <2> HIDE DEF i
  <2>5. Sum(tasks, 1..Rows) = tasks[i] + Sum(tasks, (1..Rows) \ {i})
    BY <1>2, <2>3, RowsFinite, SumWithout
  <2>6. Sum(tasks', 1..Rows) = tasks'[i] + Sum(tasks', (1..Rows) \ {i})
    BY <2>3, <2>4, RowsFinite, SumWithout
  <2>7. IsFiniteSet((1..Rows) \ {i})
    BY RowsFinite, FS_Subset
  <2>8. Sum(tasks', (1..Rows) \ {i}) = Sum(tasks, (1..Rows) \ {i})
    BY <2>4, <2>7, SumSame
  <2>9. Sum(tasks, (1..Rows) \ {i}) \in Int
    BY <1>2, <2>7, SumType
  <2>10. Sum(tasks', 1..Rows) = t + 1
    BY <1>2, <1>4, <2>3, <2>4, <2>5, <2>6, <2>8, <2>9
  <2>11. n + (c + 1) <= t + 1
    BY <1>5
  <2> QED
    BY <1>5, <2>1, <2>2, <2>10, <2>11 DEF CountInv
<1>8. CASE CountCreated(q)
  <2>1. q \in Counting /\ Counting' = Counting \ {q} /\ tasks' = tasks /\ run'.created = n + 1
    BY <1>2, <1>5, <1>8 DEF CountCreated, At, NextRow, Counting, ReqType, Types
  <2>2. IsFiniteSet(Counting') /\ Cardinality(Counting') = c - 1
    BY <1>3, <2>1, FS_RemoveElement DEF CountInv
  <2>3. (n + 1) + (c - 1) <= t
    BY <1>5
  <2> QED
    BY <1>4, <2>1, <2>2, <2>3 DEF CountInv
<1>9. CASE Commit(q)
  <2>1. \A p \in Requests \ {q} : req'[p] = req[p]
    BY <1>2, <1>9 DEF Commit, Begin
  <2>2. req'[q].at # "count"
    BY <1>2, <1>9 DEF Commit, Begin
  <2>3. tasks' = tasks /\ run'.created \in {0, n}
    BY <1>2, <1>5, <1>9 DEF Types, Commit, Begin
  <2> QED
    BY <1>6, <2>1, <2>2, <2>3
<1>10. CASE ResumeLoad(q)
  <2>1. \A p \in Requests \ {q} : req'[p] = req[p]
    BY <1>2, <1>10 DEF ResumeLoad
  <2>2. req'[q].at # "count"
    BY <1>2, <1>10 DEF ResumeLoad
  <2>3. tasks' = tasks /\ run'.created \in {0, n}
    BY <1>2, <1>5, <1>10 DEF Types, ResumeLoad
  <2> QED
    BY <1>6, <2>1, <2>2, <2>3
<1>11. CASE ResumeMark(q)
  <2>1. \A p \in Requests \ {q} : req'[p] = req[p]
    BY <1>2, <1>11 DEF ResumeMark, Begin, NextRow
  <2>2. req'[q].at # "count"
    BY <1>2, <1>11 DEF ResumeMark, Begin, NextRow
  <2>3. tasks' = tasks /\ run'.created \in {0, n}
    BY <1>2, <1>5, <1>11 DEF Types, ResumeMark, Begin, NextRow
  <2> QED
    BY <1>6, <2>1, <2>2, <2>3
<1>12. CASE Skip(q)
  <2>1. \A p \in Requests \ {q} : req'[p] = req[p]
    BY <1>2, <1>12 DEF Skip, Goto, NextRow
  <2>2. req'[q].at # "count"
    BY <1>2, <1>12 DEF Skip, Goto, NextRow
  <2>3. tasks' = tasks /\ run'.created \in {0, n}
    BY <1>2, <1>5, <1>12 DEF Types, Skip, Goto, NextRow
  <2> QED
    BY <1>6, <2>1, <2>2, <2>3
<1>13. CASE CreateFails(q)
  <2>1. \A p \in Requests \ {q} : req'[p] = req[p]
    BY <1>2, <1>13 DEF CreateFails
  <2>2. req'[q].at # "count"
    BY <1>2, <1>13 DEF CreateFails
  <2>3. tasks' = tasks /\ run'.created \in {0, n}
    BY <1>2, <1>5, <1>13 DEF Types, CreateFails
  <2> QED
    BY <1>6, <2>1, <2>2, <2>3
<1>14. CASE CountErrored(q)
  <2>1. \A p \in Requests \ {q} : req'[p] = req[p]
    BY <1>2, <1>14 DEF CountErrored, Goto
  <2>2. req'[q].at # "count"
    BY <1>2, <1>14 DEF CountErrored, Goto
  <2>3. tasks' = tasks /\ run'.created \in {0, n}
    BY <1>2, <1>5, <1>14 DEF Types, CountErrored, Goto
  <2> QED
    BY <1>6, <2>1, <2>2, <2>3
<1>15. CASE SavePoint(q)
  <2>1. \A p \in Requests \ {q} : req'[p] = req[p]
    BY <1>2, <1>15 DEF SavePoint, NextRow
  <2>2. req'[q].at # "count"
    BY <1>2, <1>15 DEF SavePoint, NextRow
  <2>3. tasks' = tasks /\ run'.created \in {0, n}
    BY <1>2, <1>5, <1>15 DEF Types, SavePoint, NextRow
  <2> QED
    BY <1>6, <2>1, <2>2, <2>3
<1>16. CASE Finish(q)
  <2>1. \A p \in Requests \ {q} : req'[p] = req[p]
    BY <1>2, <1>16 DEF Finish, Stop, Idle, Goto
  <2>2. req'[q].at # "count"
    <3>1. CASE req[q].errors
      BY <1>2, <1>16, <3>1 DEF Finish, Stop, Idle
    <3>2. CASE ~req[q].errors
      BY <1>2, <1>16, <3>2 DEF Finish, Goto, ReqType
    <3> QED
      BY <3>1, <3>2
  <2>3. tasks' = tasks /\ run'.created \in {0, n}
    BY <1>2, <1>5, <1>16 DEF Types, Finish, Stop, Idle, Goto
  <2> QED
    BY <1>6, <2>1, <2>2, <2>3
<1>17. CASE ClearPoint(q)
  <2>1. \A p \in Requests \ {q} : req'[p] = req[p]
    BY <1>2, <1>17 DEF ClearPoint, Stop, Idle
  <2>2. req'[q].at # "count"
    BY <1>2, <1>17 DEF ClearPoint, Stop, Idle
  <2>3. tasks' = tasks /\ run'.created \in {0, n}
    BY <1>2, <1>5, <1>17 DEF Types, ClearPoint, Stop, Idle
  <2> QED
    BY <1>6, <2>1, <2>2, <2>3
<1>18. CASE Rescue(q)
  <2>1. \A p \in Requests \ {q} : req'[p] = req[p]
    BY <1>2, <1>18 DEF Rescue, Goto
  <2>2. req'[q].at # "count"
    BY <1>2, <1>18 DEF Rescue, Goto
  <2>3. tasks' = tasks /\ run'.created \in {0, n}
    BY <1>2, <1>5, <1>18 DEF Types, Rescue, Goto
  <2> QED
    BY <1>6, <2>1, <2>2, <2>3
<1>19. CASE Fail(q)
  <2>1. \A p \in Requests \ {q} : req'[p] = req[p]
    BY <1>2, <1>19 DEF Fail, Stop, Idle
  <2>2. req'[q].at # "count"
    BY <1>2, <1>19 DEF Fail, Stop, Idle
  <2>3. tasks' = tasks /\ run'.created \in {0, n}
    BY <1>2, <1>5, <1>19 DEF Types, Fail, Stop, Idle
  <2> QED
    BY <1>6, <2>1, <2>2, <2>3
<1>20. CASE Reject(q)
  <2>1. \A p \in Requests \ {q} : req'[p] = req[p]
    BY <1>2, <1>20 DEF Reject, Caught, Stop, Idle, Point
  <2>2. req'[q].at # "count"
    <3> DEFINE p == Caught(req[q].at)
    <3>1. p # "count"
      BY DEF Caught
    <3>2. req' = [req EXCEPT ![q] = Idle]
          \/ req' = [req EXCEPT ![q].at = p, ![q].errors = TRUE]
      BY <1>20 DEF Reject, Stop
    <3> HIDE DEF p
    <3>3. CASE req' = [req EXCEPT ![q] = Idle]
      BY <1>2, <3>3 DEF Idle
    <3>4. CASE req' = [req EXCEPT ![q].at = p, ![q].errors = TRUE]
      BY <1>2, <3>1, <3>4 DEF ReqType
    <3> QED
      BY <3>2, <3>3, <3>4
  <2>3. tasks' = tasks /\ run'.created \in {0, n}
    BY <1>2, <1>5, <1>20 DEF Types, Reject, Caught, Stop, Idle, Point
  <2> QED
    BY <1>6, <2>1, <2>2, <2>3
<1>21. CASE Crash(q)
  <2>1. \A p \in Requests \ {q} : req'[p] = req[p]
    BY <1>2, <1>21 DEF Crash, Stop, Idle
  <2>2. req'[q].at # "count"
    BY <1>2, <1>21 DEF Crash, Stop, Idle
  <2>3. tasks' = tasks /\ run'.created \in {0, n}
    BY <1>2, <1>5, <1>21 DEF Types, Crash, Stop, Idle
  <2> QED
    BY <1>6, <2>1, <2>2, <2>3
<1> QED
  BY <1>7, <1>8, <1>9, <1>10, <1>11, <1>12, <1>13, <1>14, <1>15, <1>16, <1>17, <1>18, <1>19, <1>20, <1>21 DEF Step

\* However often a failed import is resumed, and wherever it crashed: as long
\* as the run row can be written and requests do not overlap, no row of the
\* CSV becomes two tasks; and the progress bar never counts a task that is
\* not there.
THEOREM RowsAreCounted == ~RowLocal /\ Spec => []RowsCounted
<1> SUFFICES ASSUME ~RowLocal PROVE Spec => []RowsCounted
  OBVIOUS
<1>1. IInv /\ [Next]_vars => IInv'
  BY StepIInv
<1>2. IInv /\ RowsIInv /\ [Next]_vars => RowsIInv'
  BY RowsStep
<1>3. IInv /\ CountInv /\ [Next]_vars => CountInv'
  BY CountStep DEF IInv
<1>4. IInv /\ RowsIInv /\ CountInv => RowsCounted
  <2> SUFFICES ASSUME IInv, RowsIInv, CountInv PROVE RowsCounted
    OBVIOUS
  <2>1. NoRowTwice
    BY DEF RowsIInv, Orderly, OnceInv, NoRowTwice
  <2>2. FoldFunction(+, 0, tasks) = Sum(tasks, 1..Rows)
    BY TasksSum DEF IInv, Types
  <2>3. PICK c \in Nat : c = Cardinality(Counting)
    BY FS_CardinalityType DEF CountInv
  <2>4. \A r \in 1..Rows : tasks[r] \in Int
    BY DEF IInv, Types
  <2>5. PICK t \in Int : t = Sum(tasks, 1..Rows)
    BY <2>4, RowsFinite, SumType
  <2>6. PICK n \in Nat : n = run.created
    BY DEF IInv, Types
  <2>7. n <= t
    BY <2>3, <2>5, <2>6 DEF CountInv
  <2> QED
    BY <2>1, <2>2, <2>5, <2>6, <2>7 DEF RowsCounted, CreatedCovered
<1> QED
  BY InitIInv, RowsStart, CountStart, <1>1, <1>2, <1>3, <1>4, PTL DEF Spec

-----------------------------------------------------------------------------
(* The weights of a goal's key results. *)

\* No two transactions that redistribute the weights overlap.
TransactionsApart == \A v, w \in Writers : tx[v] # NoTx /\ tx[w] # NoTx => v = w

\* A function without arguments is the empty one.
LEMMA EmptyFunction ==
  ASSUME NEW f, f = [k \in DOMAIN f |-> f[k]]
  PROVE  f = << >> <=> DOMAIN f = {}
  OBVIOUS

\* A finite set of integers that is not empty has a highest member.
LEMMA MaxIsMax ==
  ASSUME NEW S, \A x \in S : x \in Int, IsFiniteSet(S), S # {}
  PROVE  Max(S) \in S /\ \A y \in S : y <= Max(S)
<1> DEFINE B == {u \in SUBSET S : u # {} /\ \A x \in u : \E y \in u : ~(y <= x)}
<1>1. B = {}
  <2> SUFFICES ASSUME B # {} PROVE FALSE
    OBVIOUS
  <2>1. B \in SUBSET (SUBSET S)
    OBVIOUS
  <2>2. PICK u \in B : \A v \in B : v \subseteq u => v = u
    <3> DEFINE C == B
    <3>1. C \in SUBSET (SUBSET S) /\ C # {}
      BY <2>1
    <3> HIDE DEF C, B
    <3>2. \E u \in C : \A v \in C : v \subseteq u => v = u
      BY <3>1, LeastSet
    <3> QED
      BY <3>2 DEF C
  <2>3. PICK x \in u : TRUE
    BY <2>2
  <2>4. u \ {x} \notin B /\ u \ {x} \in SUBSET S /\ u \in SUBSET S
    BY <2>2, <2>3
  <2>5. CASE u \ {x} = {}
    <3>1. \A y \in u : y <= x
      BY <2>3, <2>4, <2>5
    <3> QED
      BY <2>2, <2>3, <3>1
  <2>6. CASE u \ {x} # {}
    <3>1. PICK m \in u \ {x} : \A y \in u \ {x} : y <= m
      BY <2>4, <2>6
    <3>2. PICK z \in {m, x} : m <= z /\ x <= z
      BY <2>3, <2>4, <3>1
    <3>3. \A y \in u : y <= z
      BY <2>3, <2>4, <3>1, <3>2
    <3> QED
      BY <2>2, <2>3, <3>1, <3>2, <3>3
  <2> QED
    BY <2>5, <2>6
<1>2. S \in SUBSET S
  OBVIOUS
<1>3. \E x \in S : \A y \in S : y <= x
  BY <1>1, <1>2
<1>4. \E x \in S : \A y \in S : x >= y
  BY <1>3
<1> QED
  BY <1>4 DEF Max

Smaller == {p \in Nat \X Nat : p[1] < p[2]}

\* Numbers have a least one.
LEMMA LeastNumber ==
  ASSUME NEW S \in SUBSET Nat, S # {}
  PROVE  \E x \in S : \A y \in S : x <= y
<1>1. IsWellFoundedOn(Smaller, Nat)
  BY NatLessThanWellFounded DEF OpToRel, Smaller
<1>2. PICK x \in S : \A y \in S : <<y, x>> \notin Smaller
  BY <1>1, WFMin
<1>3. ASSUME NEW y \in S PROVE x <= y
  <2>1. y < x => <<y, x>> \in Smaller
    BY DEF Smaller
  <2> QED
    BY <1>2, <2>1
<1> QED
  BY <1>3

WeightOf(rows) == [k \in DOMAIN rows |-> rows[k].weight]

\* What is known of the rows a transaction read.
RowsOK(rows) == /\ rows = [k \in DOMAIN rows |-> rows[k]]
                /\ IsFiniteSet(DOMAIN rows)
                /\ \A k \in DOMAIN rows : rows[k] \in RowType

\* The weights a transaction has computed: integers that sum to 100.
NextOK(rows, next) == /\ \A k \in DOMAIN rows : next[k] \in Int
                      /\ DOMAIN rows # {} => Sum(next, DOMAIN rows) = 100

\* What is under way starts from the rows as they are, one created or removed.
TxOK(t, now) == \/ t = NoTx
           \/ /\ t.op \in {"create", "remove"}
              /\ RowsOK(t.rows)
              /\ NextOK(t.rows, t.next)
              /\ t.id \in KeyResultIds
              /\ t.op = "create" => t.id \notin DOMAIN now /\ DOMAIN t.rows = DOMAIN now \cup {t.id}
              /\ t.op = "remove" => t.id \in DOMAIN now /\ DOMAIN t.rows = DOMAIN now \ {t.id}
              /\ \A k \in DOMAIN t.rows \cap DOMAIN now : t.rows[k].weight = now[k].weight

\* What is under way, whatever has happened since to the rows it started from.
TxTyped(t) == \/ t = NoTx
              \/ /\ t.op \in {"create", "remove"}
                 /\ RowsOK(t.rows)
                 /\ NextOK(t.rows, t.next)
                 /\ t.id \in KeyResultIds
                 /\ t.op = "create" => t.id \in DOMAIN t.rows

GoalsTInv == /\ GoalsTypeOK
             /\ RowsOK(kr)
             /\ tx = [w \in Writers |-> tx[w]]
             /\ \A w \in Writers : TxTyped(tx[w]) /\ (~goalLive => tx[w] = NoTx)

GoalsIInv == /\ GoalsTypeOK
             /\ RowsOK(kr) /\ IsFiniteSet(linked)
             /\ DOMAIN kr # {} => Sum(WeightOf(kr), DOMAIN kr) = 100
             /\ tx = [w \in Writers |-> tx[w]]
             /\ \A w \in Writers : TxOK(tx[w], kr) /\ (~goalLive => tx[w] = NoTx)

\* The shares are integers.
LEMMA ShareType ==
  ASSUME NEW n \in Int, NEW d \in Int, d # 0
  PROVE  RoundUp(n, d) \in Int
  BY DEF RoundUp

LEMMA SumWeightsType ==
  ASSUME NEW rows, RowsOK(rows)
  PROVE  SumWeights(rows) = Sum(WeightOf(rows), DOMAIN rows) /\ SumWeights(rows) \in Int
<1>1. SumWeights(rows) = Sum(WeightOf(rows), DOMAIN rows)
  BY DEF SumWeights, Sum, WeightOf
<1>2. \A k \in DOMAIN rows : WeightOf(rows)[k] \in Int
  BY DEF RowsOK, RowType, WeightOf
<1> QED
  BY <1>1, <1>2, SumType DEF RowsOK

\* However the shares are rounded, the last row makes the weights sum to 100.
LEMMA RedistributedTo100 ==
  ASSUME NEW rows, RowsOK(rows), NEW next \in Redistributions(rows)
  PROVE  NextOK(rows, next)
<1>1. CASE rows = << >>
  <2>1. DOMAIN rows = {}
    BY <1>1
  <2> QED
    BY <2>1 DEF NextOK
<1>2. CASE rows # << >>
  <2> DEFINE D == DOMAIN rows
             sum == SumWeights(rows)
  <2>1. PICK last \in D, down \in SUBSET D : next = [k \in D |-> NextWeight(rows, last, down, k)]
    BY <1>2 DEF Redistributions
  <2> DEFINE others == D \ {last}
             share(j) == IF sum = 0 THEN 100 \div Cardinality(D)
                         ELSE RoundUp(rows[j].weight, sum) - IF j \in down THEN 1 ELSE 0
             shares == [j \in others |-> share(j)]
  <2>2. IsFiniteSet(D) /\ IsFiniteSet(others)
    BY FS_Subset DEF RowsOK
  <2>3. sum \in Int
    BY SumWeightsType
  <2>4. ASSUME NEW j \in D PROVE share(j) \in Int
    <3>1. Cardinality(D) \in Nat /\ Cardinality(D) # 0
      BY <2>1, <2>2, FS_CardinalityType, FS_EmptySet
    <3>2. rows[j].weight \in Int
      BY DEF RowsOK, RowType
    <3>3. CASE sum = 0
      <4>1. 100 \div Cardinality(D) \in Int
        BY <3>1
      <4> QED
        BY <3>3, <4>1
    <3>4. CASE sum # 0
      <4>1. RoundUp(rows[j].weight, sum) \in Int
        BY <2>3, <3>2, <3>4, ShareType
      <4> QED
        BY <3>4, <4>1
    <3> QED
      BY <3>3, <3>4
  <2>5. next[last] = 100 - Sum(shares, others)
    BY <2>1 DEF NextWeight, Sum
  <2>6. \A j \in others : next[j] = share(j)
    BY <2>1 DEF NextWeight
  <2> HIDE DEF share, sum, D
  <2>7. \A j \in others : next[j] = shares[j] /\ next[j] \in Int
    BY <2>4, <2>6 DEF D
  <2>8. Sum(shares, others) = Sum(next, others)
    BY <2>2, <2>7, SumSame
  <2>9. Sum(next, others) \in Int
    BY <2>2, <2>7, SumType
  <2>10. \A j \in D : next[j] \in Int
    BY <2>5, <2>7, <2>8, <2>9
  <2>11. Sum(next, D) = next[last] + Sum(next, others)
    BY <2>1, <2>2, <2>10, SumWithout
  <2>12. Sum(next, D) = 100
    BY <2>5, <2>8, <2>9, <2>11
  <2> QED
    BY <2>10, <2>12 DEF D, NextOK
<1> QED
  BY <1>1, <1>2

\* A goal starts without key results.
LEMMA GoalsStart == GoalsInit => GoalsIInv
<1> SUFFICES ASSUME GoalsInit PROVE GoalsIInv
  OBVIOUS
<1>1. kr = << >> /\ DOMAIN kr = {} /\ linked = {}
  BY DEF GoalsInit
<1>2. RowsOK(kr) /\ IsFiniteSet(linked)
  BY <1>1, FS_EmptySet DEF RowsOK
<1> QED
  BY <1>1, <1>2 DEF GoalsInit, GoalsIInv, GoalsTypeOK, TxOK

\* What a transaction starts from: the rows as they are.
LEMMA CreateReads ==
  ASSUME RowsOK(kr), NEW w \in Writers, CreateKeyResult(w)
  PROVE  \E t : tx' = [tx EXCEPT ![w] = t] /\ TxOK(t, kr)
<1> USE GoalsAssumption
<1> DEFINE new == Min(FreeIds)
           pos == Max({kr[k].pos : k \in DOMAIN kr} \cup {-1}) + 1
           rows == [k \in DOMAIN kr \cup {new} |->
                       IF k = new THEN [pos |-> pos, weight |-> 0, pct |-> 0] ELSE kr[k]]
<1>1. PICK next \in Redistributions(rows) :
        tx' = [tx EXCEPT ![w] = [op |-> "create", id |-> new, rows |-> rows, next |-> next]]
  BY DEF CreateKeyResult
<1>2. pos <= MaxPosition /\ goalLive /\ FreeIds # {}
      /\ UNCHANGED <<goalLive, override, kr, linked, taskDone>>
  BY DEF CreateKeyResult
<1>3. new \in FreeIds
  <2>1. \A x \in FreeIds : x \in Nat
    BY DEF FreeIds
  <2>2. \E x \in FreeIds : \A y \in FreeIds : x <= y
    BY <1>2, <2>1, LeastNumber
  <2> QED
    BY <2>2 DEF Min
<1>4. new \in KeyResultIds /\ new \notin DOMAIN kr
  BY <1>3 DEF FreeIds
<1>5. pos \in 0..MaxPosition
  <2> DEFINE S == {kr[k].pos : k \in DOMAIN kr} \cup {-1}
  <2>1. \A x \in S : x \in Int
    BY DEF RowsOK, RowType
  <2>2. IsFiniteSet({kr[k].pos : k \in DOMAIN kr})
    <3> DEFINE T == {kr[k].pos : k \in DOMAIN kr}
               f == [k \in DOMAIN kr |-> kr[k].pos]
    <3>1. f \in Surjection(DOMAIN kr, T)
      BY DEF Surjection
    <3> HIDE DEF f, T
    <3>2. IsFiniteSet(T)
      BY <3>1, FS_Surjection DEF RowsOK
    <3> QED
      BY <3>2 DEF T
  <2>3. IsFiniteSet(S) /\ S # {} /\ -1 \in S
    BY <2>2, FS_AddElement
  <2> HIDE DEF S
  <2>4. Max(S) \in Int /\ -1 <= Max(S)
    BY <2>1, <2>3, MaxIsMax
  <2>5. pos = Max(S) + 1
    BY DEF S
  <2> QED
    BY <1>2, <2>4, <2>5
<1> DEFINE row == [pos |-> pos, weight |-> 0, pct |-> 0]
<1>6. row \in RowType
  BY <1>5 DEF RowType
<1> HIDE DEF new, pos
<1>7. RowsOK(rows) /\ DOMAIN rows = DOMAIN kr \cup {new}
  <2>1. IsFiniteSet(DOMAIN kr \cup {new})
    BY FS_AddElement DEF RowsOK
  <2> QED
    BY <1>6, <2>1 DEF RowsOK
<1>8. \A k \in DOMAIN kr : rows[k].weight = kr[k].weight
  BY <1>4
<1> HIDE DEF rows
<1>9. NextOK(rows, next)
  BY <1>1, <1>7, RedistributedTo100
<1> DEFINE t == [op |-> "create", id |-> new, rows |-> rows, next |-> next]
<1>10. t.op = "create" /\ t.id = new /\ t.rows = rows /\ t.next = next
  OBVIOUS
<1> HIDE DEF t
<1>11. TxOK(t, kr)
  BY <1>4, <1>7, <1>8, <1>9, <1>10 DEF TxOK
<1> QED
  BY <1>1, <1>11 DEF t

LEMMA RemoveReads ==
  ASSUME RowsOK(kr), NEW w \in Writers, NEW k \in KeyResultIds, RemoveKeyResult(w, k)
  PROVE  \E t : tx' = [tx EXCEPT ![w] = t] /\ TxOK(t, kr)
<1> DEFINE rows == [j \in DOMAIN kr \ {k} |-> kr[j]]
<1>1. PICK next \in Redistributions(rows) :
        tx' = [tx EXCEPT ![w] = [op |-> "remove", id |-> k, rows |-> rows, next |-> next]]
  BY DEF RemoveKeyResult
<1>2. k \in DOMAIN kr /\ UNCHANGED <<goalLive, override, kr, linked, taskDone>>
  BY DEF RemoveKeyResult
<1>3. RowsOK(rows) /\ DOMAIN rows = DOMAIN kr \ {k}
  <2>1. IsFiniteSet(DOMAIN kr \ {k})
    BY FS_Subset DEF RowsOK
  <2> QED
    BY <2>1 DEF RowsOK
<1>4. \A j \in DOMAIN rows : rows[j].weight = kr[j].weight
  OBVIOUS
<1> HIDE DEF rows
<1>5. NextOK(rows, next)
  BY <1>1, <1>3, RedistributedTo100
<1> DEFINE t == [op |-> "remove", id |-> k, rows |-> rows, next |-> next]
<1>6. t.op = "remove" /\ t.id = k /\ t.rows = rows /\ t.next = next
  OBVIOUS
<1> HIDE DEF t
<1>7. TxOK(t, kr)
  BY <1>2, <1>3, <1>4, <1>5, <1>6 DEF TxOK
<1> QED
  BY <1>1, <1>7 DEF t

\* No step disturbs the types, whatever transactions overlap.
LEMMA GoalsTypeStep ==
  ASSUME GoalsTInv, [GoalsNext]_goalVars
  PROVE  GoalsTInv'
<1> USE GoalsAssumption
<1>1. /\ goalLive \in BOOLEAN /\ override \in Overrides \cup {NoOverride}
      /\ DOMAIN kr \subseteq KeyResultIds /\ linked \subseteq LinkedTasks /\ taskDone \subseteq LinkedTasks
      /\ (~goalLive => kr = << >> /\ linked = {})
  BY DEF GoalsTInv, GoalsTypeOK
<1>2. RowsOK(kr)
  BY DEF GoalsTInv
<1>3. tx = [w \in Writers |-> tx[w]] /\ \A w \in Writers : TxTyped(tx[w]) /\ (~goalLive => tx[w] = NoTx)
  BY DEF GoalsTInv
<1>4. ASSUME kr' = kr, tx' = tx, GoalsTypeOK', goalLive' = goalLive PROVE GoalsTInv'
  BY <1>2, <1>3, <1>4 DEF GoalsTInv
<1>5. CASE UNCHANGED goalVars
  <2>1. GoalsTypeOK'
    BY <1>5 DEF GoalsTInv, GoalsTypeOK, goalVars
  <2> QED
    BY <1>4, <1>5, <2>1 DEF goalVars
<1>6. CASE UpdateGoal
  <2>1. GoalsTypeOK'
    BY <1>6 DEF GoalsTInv, GoalsTypeOK, UpdateGoal
  <2> QED
    BY <1>4, <1>6, <2>1 DEF UpdateGoal
<1>7. CASE RemoveGoal
  <2>1. kr' = << >> /\ DOMAIN kr' = {} /\ linked' = {} /\ tx' = tx
    BY <1>7 DEF RemoveGoal
  <2>2. RowsOK(kr')
    BY <2>1, FS_EmptySet DEF RowsOK
  <2>3. \A w \in Writers : tx'[w] = NoTx
    BY <1>7, <2>1 DEF RemoveGoal
  <2>4. GoalsTypeOK'
    BY <1>1, <1>7, <2>1 DEF RemoveGoal, GoalsTypeOK
  <2> QED
    BY <1>3, <2>1, <2>2, <2>3, <2>4 DEF GoalsTInv, TxTyped
<1>8. ASSUME NEW t \in LinkedTasks, LinkTask(t) \/ UnlinkTask(t) \/ TaskMoves(t) PROVE GoalsTInv'
  <2>1. kr' = kr /\ tx' = tx /\ goalLive' = goalLive /\ override' = override
    BY <1>8 DEF LinkTask, UnlinkTask, TaskMoves
  <2>2. linked' \in {linked, linked \cup {t}, linked \ {t}} /\ (~goalLive => linked' = {})
    BY <1>1, <1>8 DEF LinkTask, UnlinkTask, TaskMoves
  <2>3. taskDone' \in {taskDone, taskDone \cup {t}, taskDone \ {t}}
    BY <1>8 DEF LinkTask, UnlinkTask, TaskMoves
  <2>4. GoalsTypeOK'
    BY <1>1, <1>2, <2>1, <2>2, <2>3 DEF GoalsTypeOK, RowsOK
  <2> QED
    BY <1>4, <2>1, <2>4
<1>9. ASSUME NEW w \in Writers, NEW t, tx' = [tx EXCEPT ![w] = t], TxOK(t, kr), kr' = kr,
             linked' = linked, taskDone' = taskDone, override' = override,
             goalLive' = goalLive, goalLive
      PROVE  GoalsTInv'
  <2>1. GoalsTypeOK'
    BY <1>9 DEF GoalsTInv, GoalsTypeOK
  <2>2. TxTyped(t)
    BY <1>9 DEF TxOK, TxTyped
  <2>3. \A v \in Writers : TxTyped(tx'[v])
    BY <1>3, <1>9, <2>2
  <2>4. tx' = [v \in Writers |-> tx'[v]]
    BY <1>3, <1>9
  <2> QED
    BY <1>2, <1>9, <2>1, <2>3, <2>4 DEF GoalsTInv
<1>10. ASSUME NEW w \in Writers, CreateKeyResult(w) PROVE GoalsTInv'
  <2>1. PICK t : tx' = [tx EXCEPT ![w] = t] /\ TxOK(t, kr)
    BY <1>2, <1>10, CreateReads
  <2>2. goalLive /\ UNCHANGED <<goalLive, override, kr, linked, taskDone>>
    BY <1>10 DEF CreateKeyResult
  <2> QED
    BY <1>9, <2>1, <2>2
<1>11. ASSUME NEW w \in Writers, NEW k \in KeyResultIds, RemoveKeyResult(w, k) PROVE GoalsTInv'
  <2>1. PICK t : tx' = [tx EXCEPT ![w] = t] /\ TxOK(t, kr)
    BY <1>2, <1>11, RemoveReads
  <2>2. k \in DOMAIN kr /\ UNCHANGED <<goalLive, override, kr, linked, taskDone>>
    BY <1>11 DEF RemoveKeyResult
  <2>3. goalLive
    BY <1>1, <2>2
  <2> QED
    BY <1>9, <2>1, <2>2, <2>3
<1>12. ASSUME NEW w \in Writers, CommitWeights(w) PROVE GoalsTInv'
  <2> DEFINE t == tx[w]
             own == IF t.op = "create" THEN {t.id} ELSE {}
             D == (DOMAIN kr \cup own) \ ({t.id} \ own)
  <2>1. t # NoTx /\ tx' = [tx EXCEPT ![w] = NoTx] /\ UNCHANGED <<goalLive, override, linked, taskDone>>
    BY <1>12 DEF CommitWeights
  <2>2. /\ RowsOK(t.rows) /\ NextOK(t.rows, t.next) /\ t.id \in KeyResultIds
        /\ t.op = "create" => t.id \in DOMAIN t.rows
    BY <1>3, <2>1 DEF TxTyped
  <2>3. goalLive
    BY <1>3, <2>1
  <2>4. \/ kr' = kr
        \/ kr' = [k \in D |-> IF k \in own THEN [t.rows[k] EXCEPT !.weight = t.next[k]]
                              ELSE IF k \in Written(t) THEN [kr[k] EXCEPT !.weight = t.next[k]]
                              ELSE kr[k]]
    BY <1>12 DEF CommitWeights
  <2>5. D \subseteq KeyResultIds /\ D \subseteq DOMAIN kr \cup own
    BY <1>1, <2>2
  <2>6. IsFiniteSet(D)
    <3>1. IsFiniteSet(DOMAIN kr \cup {t.id})
      BY <1>2, FS_AddElement DEF RowsOK
    <3>2. D \subseteq DOMAIN kr \cup {t.id}
      OBVIOUS
    <3> HIDE DEF D
    <3> QED
      BY <3>1, <3>2, FS_Subset
  <2>7. CASE kr' = kr
    <3>1. GoalsTypeOK'
      BY <1>1, <1>2, <2>1, <2>7 DEF GoalsTypeOK, RowsOK
    <3>2. RowsOK(kr') /\ goalLive'
      BY <1>2, <2>1, <2>3, <2>7
    <3> QED
      BY <1>3, <2>1, <3>1, <3>2 DEF GoalsTInv, TxTyped
  <2>8. CASE kr' = [k \in D |-> IF k \in own THEN [t.rows[k] EXCEPT !.weight = t.next[k]]
                               ELSE IF k \in Written(t) THEN [kr[k] EXCEPT !.weight = t.next[k]]
                               ELSE kr[k]]
    <3>1. ASSUME NEW k \in D PROVE kr'[k] \in RowType
      <4>1. CASE k \in own
        <5>1. t.rows[k] \in RowType /\ t.next[k] \in Int
          BY <2>2, <4>1 DEF RowsOK, NextOK
        <5> QED
          BY <2>8, <4>1, <5>1 DEF RowType
      <4>2. CASE k \notin own
        <5>1. kr[k] \in RowType
          BY <1>2, <2>5, <4>2 DEF RowsOK
        <5>2. k \in Written(t) => t.next[k] \in Int
          BY <2>2 DEF Written, NextOK
        <5> QED
          BY <2>8, <4>2, <5>1, <5>2 DEF RowType
      <4> QED
        BY <4>1, <4>2
    <3>2. DOMAIN kr' = D /\ kr' = [k \in D |-> kr'[k]]
      BY <2>8
    <3> HIDE DEF D, t
    <3>3. RowsOK(kr')
      BY <2>6, <3>1, <3>2 DEF RowsOK
    <3>4. GoalsTypeOK'
      BY <1>1, <2>1, <2>3, <2>5, <3>1, <3>2 DEF GoalsTypeOK
    <3> QED
      BY <1>3, <2>1, <2>3, <3>3, <3>4 DEF GoalsTInv, TxTyped
  <2> QED
    BY <2>4, <2>7, <2>8
<1>13. ASSUME NEW k \in KeyResultIds, UpdateKeyResult(k) PROVE GoalsTInv'
  <2>1. k \in DOMAIN kr /\ UNCHANGED <<goalLive, override, linked, taskDone, tx>>
    BY <1>13 DEF UpdateKeyResult
  <2>2. goalLive
    BY <1>1, <2>1
  <2>3. DOMAIN kr' = DOMAIN kr /\ kr' = [j \in DOMAIN kr |-> kr'[j]]
    BY <1>2, <1>13 DEF UpdateKeyResult, RowsOK
  <2>4. \A j \in DOMAIN kr : kr'[j] \in RowType
    BY <1>2, <1>13 DEF UpdateKeyResult, RowsOK, RowType
  <2>5. RowsOK(kr')
    BY <1>2, <2>3, <2>4 DEF RowsOK
  <2>6. GoalsTypeOK'
    BY <1>1, <2>1, <2>2, <2>3, <2>4 DEF GoalsTypeOK
  <2> QED
    BY <1>3, <2>1, <2>2, <2>5, <2>6 DEF GoalsTInv
<1> QED
  BY <1>5, <1>6, <1>7, <1>8, <1>10, <1>11, <1>12, <1>13 DEF GoalsNext

\* A step of one transaction at a time keeps the weights at 100.
LEMMA GoalsStep ==
  ASSUME TransactionsApart, GoalsIInv, [GoalsNext]_goalVars
  PROVE  GoalsIInv'
<1> USE GoalsAssumption
<1>1. /\ goalLive \in BOOLEAN /\ override \in Overrides \cup {NoOverride}
      /\ DOMAIN kr \subseteq KeyResultIds /\ linked \subseteq LinkedTasks /\ taskDone \subseteq LinkedTasks
      /\ (~goalLive => kr = << >> /\ linked = {})
  BY DEF GoalsIInv, GoalsTypeOK
<1>2. RowsOK(kr) /\ IsFiniteSet(linked) /\ (DOMAIN kr # {} => Sum(WeightOf(kr), DOMAIN kr) = 100)
  BY DEF GoalsIInv
<1>3. tx = [w \in Writers |-> tx[w]] /\ \A w \in Writers : TxOK(tx[w], kr) /\ (~goalLive => tx[w] = NoTx)
  BY DEF GoalsIInv
<1>5. ASSUME kr' = kr, tx' = tx, IsFiniteSet(linked'), GoalsTypeOK', goalLive' = goalLive
      PROVE  GoalsIInv'
  <2>1. tx' = [w \in Writers |-> tx'[w]] /\ \A w \in Writers : TxOK(tx'[w], kr') /\ (~goalLive' => tx'[w] = NoTx)
    BY <1>3, <1>5
  <2>2. RowsOK(kr') /\ (DOMAIN kr' # {} => Sum(WeightOf(kr'), DOMAIN kr') = 100)
    BY <1>2, <1>5
  <2> QED
    BY <1>5, <2>1, <2>2 DEF GoalsIInv
<1>6. CASE UNCHANGED goalVars
  <2>1. GoalsTypeOK'
    BY <1>6 DEF GoalsIInv, GoalsTypeOK, goalVars
  <2> QED
    BY <1>2, <1>5, <1>6, <2>1 DEF goalVars
<1>7. CASE UpdateGoal
  <2>1. GoalsTypeOK'
    BY <1>7 DEF GoalsIInv, GoalsTypeOK, UpdateGoal
  <2> QED
    BY <1>2, <1>5, <1>7, <2>1 DEF UpdateGoal
<1>8. CASE RemoveGoal
  <2>1. kr' = << >> /\ DOMAIN kr' = {} /\ linked' = {} /\ tx' = tx
    BY <1>8 DEF RemoveGoal
  <2>2. RowsOK(kr') /\ IsFiniteSet(linked')
    BY <2>1, FS_EmptySet DEF RowsOK
  <2>3. \A w \in Writers : tx'[w] = NoTx
    BY <1>8, <2>1 DEF RemoveGoal
  <2>4. GoalsTypeOK'
    BY <1>1, <1>8, <2>1 DEF RemoveGoal, GoalsTypeOK
  <2> QED
    BY <1>3, <2>1, <2>2, <2>3, <2>4 DEF GoalsIInv, TxOK
<1>9. ASSUME NEW t \in LinkedTasks, LinkTask(t) \/ UnlinkTask(t) \/ TaskMoves(t) PROVE GoalsIInv'
  <2>1. kr' = kr /\ tx' = tx /\ goalLive' = goalLive /\ override' = override
    BY <1>9 DEF LinkTask, UnlinkTask, TaskMoves
  <2>2. linked' \in {linked, linked \cup {t}, linked \ {t}} /\ (~goalLive => linked' = {})
    BY <1>1, <1>9 DEF LinkTask, UnlinkTask, TaskMoves
  <2>3. IsFiniteSet(linked')
    BY <1>2, <2>2, FS_AddElement, FS_Subset
  <2>4. taskDone' \in {taskDone, taskDone \cup {t}, taskDone \ {t}}
    BY <1>9 DEF LinkTask, UnlinkTask, TaskMoves
  <2>5. GoalsTypeOK'
    BY <1>1, <1>2, <2>1, <2>2, <2>4 DEF GoalsTypeOK, RowsOK
  <2> QED
    BY <1>5, <2>1, <2>3, <2>5
<1>10. ASSUME NEW w \in Writers, NEW t, tx' = [tx EXCEPT ![w] = t], TxOK(t, kr), kr' = kr,
              linked' = linked, taskDone' = taskDone, override' = override,
              goalLive' = goalLive, goalLive
       PROVE  GoalsIInv'
  <2>1. GoalsTypeOK'
    BY <1>10 DEF GoalsIInv, GoalsTypeOK
  <2>2. \A v \in Writers : TxOK(tx'[v], kr)
    BY <1>3, <1>10
  <2>3. \A v \in Writers : TxOK(tx'[v], kr') /\ (~goalLive' => tx'[v] = NoTx)
    BY <1>10, <2>2
  <2>4. tx' = [v \in Writers |-> tx'[v]]
    BY <1>3, <1>10
  <2>5. RowsOK(kr') /\ IsFiniteSet(linked') /\ (DOMAIN kr' # {} => Sum(WeightOf(kr'), DOMAIN kr') = 100)
    BY <1>2, <1>10
  <2> QED
    BY <1>10, <2>1, <2>3, <2>4, <2>5 DEF GoalsIInv
<1>11. ASSUME NEW w \in Writers, CreateKeyResult(w) PROVE GoalsIInv'
  <2>1. PICK t : tx' = [tx EXCEPT ![w] = t] /\ TxOK(t, kr)
    BY <1>2, <1>11, CreateReads
  <2>2. goalLive /\ UNCHANGED <<goalLive, override, kr, linked, taskDone>>
    BY <1>11 DEF CreateKeyResult
  <2> QED
    BY <1>10, <2>1, <2>2
<1>12. ASSUME NEW w \in Writers, NEW k \in KeyResultIds, RemoveKeyResult(w, k) PROVE GoalsIInv'
  <2>1. PICK t : tx' = [tx EXCEPT ![w] = t] /\ TxOK(t, kr)
    BY <1>2, <1>12, RemoveReads
  <2>2. k \in DOMAIN kr /\ UNCHANGED <<goalLive, override, kr, linked, taskDone>>
    BY <1>12 DEF RemoveKeyResult
  <2>3. goalLive
    BY <1>1, <2>2
  <2> QED
    BY <1>10, <2>1, <2>2, <2>3
<1>13. ASSUME NEW w \in Writers, CommitWeights(w) PROVE GoalsIInv'
  <2> DEFINE t == tx[w]
             own == IF t.op = "create" THEN {t.id} ELSE {}
             D == DOMAIN t.rows
  <2>1. t # NoTx /\ tx' = [tx EXCEPT ![w] = NoTx] /\ UNCHANGED <<goalLive, override, linked, taskDone>>
    BY <1>13 DEF CommitWeights
  <2>2. /\ t.op \in {"create", "remove"} /\ RowsOK(t.rows) /\ NextOK(t.rows, t.next)
        /\ t.id \in KeyResultIds
        /\ t.op = "create" => t.id \notin DOMAIN kr /\ D = DOMAIN kr \cup {t.id}
        /\ t.op = "remove" => t.id \in DOMAIN kr /\ D = DOMAIN kr \ {t.id}
        /\ \A k \in D \cap DOMAIN kr : t.rows[k].weight = kr[k].weight
    BY <1>3, <2>1 DEF TxOK
  <2>3. goalLive
    BY <1>3, <2>1
  <2>4. Written(t) \ own \subseteq DOMAIN kr /\ (t.op = "remove" => t.id \in DOMAIN kr)
    BY <2>2 DEF Written
  <2>5. (DOMAIN kr \cup own) \ ({t.id} \ own) = D
    BY <2>2
  <2>6. kr' = [k \in D |->
                  IF k \in own THEN [t.rows[k] EXCEPT !.weight = t.next[k]]
                  ELSE IF k \in Written(t) THEN [kr[k] EXCEPT !.weight = t.next[k]]
                  ELSE kr[k]]
    BY <1>13, <2>4, <2>5 DEF CommitWeights
  <2>7. ASSUME NEW k \in D PROVE kr'[k] \in RowType /\ kr'[k].weight = t.next[k]
    <3>1. t.rows[k] \in RowType /\ t.next[k] \in Int
      BY <2>2 DEF RowsOK, NextOK
    <3>2. CASE k \in own
      BY <2>6, <3>1, <3>2 DEF RowType
    <3>3. CASE k \notin own
      <4>1. k \in DOMAIN kr /\ kr[k] \in RowType /\ t.rows[k].weight = kr[k].weight
        BY <1>2, <2>2, <3>3 DEF RowsOK
      <4>2. CASE k \in Written(t)
        BY <2>6, <3>1, <3>3, <4>1, <4>2 DEF RowType
      <4>3. CASE k \notin Written(t)
        BY <2>6, <3>1, <3>3, <4>1, <4>3 DEF Written
      <4> QED
        BY <4>2, <4>3
    <3> QED
      BY <3>2, <3>3
  <2>8. DOMAIN kr' = D /\ kr' = [k \in D |-> kr'[k]]
    BY <2>6
  <2>9. IsFiniteSet(D)
    BY <2>2 DEF RowsOK
  <2>10. RowsOK(kr')
    BY <2>7, <2>8, <2>9 DEF RowsOK
  <2>11. ASSUME D # {} PROVE Sum(WeightOf(kr'), DOMAIN kr') = 100
    <3> DEFINE weights == WeightOf(kr')
               next == t.next
    <3>1. \A k \in D : weights[k] = next[k]
      BY <2>7, <2>8 DEF WeightOf
    <3> HIDE DEF weights
    <3>2. Sum(weights, D) = Sum(next, D)
      BY <2>9, <3>1, SumSame
    <3> QED
      BY <2>2, <2>8, <2>11, <3>2 DEF NextOK, weights
  <2>12. \A v \in Writers : tx'[v] = NoTx
    BY <1>3, <2>1 DEF TransactionsApart
  <2>13. tx' = [v \in Writers |-> tx'[v]]
    BY <1>3, <2>1
  <2>14. D \subseteq KeyResultIds
    BY <1>1, <2>2
  <2>15. GoalsTypeOK'
    BY <1>1, <2>1, <2>3, <2>7, <2>8, <2>14 DEF GoalsTypeOK
  <2> HIDE DEF D, t
  <2> QED
    BY <1>2, <2>1, <2>8, <2>10, <2>11, <2>12, <2>13, <2>15 DEF GoalsIInv, TxOK
<1>14. ASSUME NEW k \in KeyResultIds, UpdateKeyResult(k) PROVE GoalsIInv'
  <2>1. k \in DOMAIN kr /\ UNCHANGED <<goalLive, override, linked, taskDone, tx>>
    BY <1>14 DEF UpdateKeyResult
  <2>2. goalLive
    BY <1>1, <2>1
  <2>3. DOMAIN kr' = DOMAIN kr /\ kr' = [j \in DOMAIN kr |-> kr'[j]]
    BY <1>2, <1>14 DEF UpdateKeyResult, RowsOK
  <2>4. \A j \in DOMAIN kr : kr'[j] \in RowType /\ kr'[j].weight = kr[j].weight
    BY <1>2, <1>14 DEF UpdateKeyResult, RowsOK, RowType
  <2>5. RowsOK(kr')
    BY <1>2, <2>3, <2>4 DEF RowsOK
  <2>6. WeightOf(kr') = WeightOf(kr)
    BY <2>3, <2>4 DEF WeightOf
  <2>7. DOMAIN kr' # {} => Sum(WeightOf(kr'), DOMAIN kr') = 100
    BY <1>2, <2>3, <2>6
  <2>8. \A w \in Writers : TxOK(tx[w], kr')
    BY <1>3, <2>1, <2>3, <2>4 DEF TxOK, RowsOK, NextOK
  <2>9. GoalsTypeOK'
    BY <1>1, <2>1, <2>2, <2>3, <2>4 DEF GoalsTypeOK
  <2> QED
    BY <1>2, <1>3, <2>1, <2>2, <2>5, <2>7, <2>8, <2>9 DEF GoalsIInv
<1> QED
  BY <1>6, <1>7, <1>8, <1>9, <1>11, <1>12, <1>13, <1>14 DEF GoalsNext

\* The goals' state is well typed, however the transactions overlap.
THEOREM GoalsTyped == GoalsSpec => []GoalsTypeOK
<1>1. GoalsInit => GoalsTInv
  BY GoalsStart DEF GoalsIInv, GoalsTInv, TxOK, TxTyped
<1>2. GoalsTInv /\ [GoalsNext]_goalVars => GoalsTInv'
  BY GoalsTypeStep
<1>3. GoalsTInv => GoalsTypeOK
  BY DEF GoalsTInv
<1> QED
  BY <1>1, <1>2, <1>3, PTL DEF GoalsSpec

\* Sums of a constant function: percents of 0 and of 100 over weights of 100.
LEMMA WeightedAll ==
  ASSUME NEW rows, RowsOK(rows), NEW p \in {0, 100}, \A k \in DOMAIN rows : rows[k].pct = p
  PROVE  Sum([k \in DOMAIN rows |-> rows[k].pct * rows[k].weight], DOMAIN rows)
             = p * Sum(WeightOf(rows), DOMAIN rows)
<1> DEFINE D == DOMAIN rows
           total == [k \in D |-> rows[k].pct * rows[k].weight]
           weights == WeightOf(rows)
           B == {u \in SUBSET D : Sum(total, u) # p * Sum(weights, u)}
<1>1. IsFiniteSet(D)
  BY DEF RowsOK
<1>2. \A k \in D : total[k] = p * weights[k] /\ weights[k] \in Int
  BY DEF RowsOK, RowType, WeightOf
<1> HIDE DEF total, weights, D
<1> SUFFICES ASSUME B # {} PROVE FALSE
  <2>1. D \in SUBSET D
    OBVIOUS
  <2> QED
    BY <2>1 DEF D, total, weights
<1>3. B \in SUBSET (SUBSET D)
  OBVIOUS
<1>4. PICK u \in B : \A v \in B : v \subseteq u => v = u
  <2> HIDE DEF B
  <2> QED
    BY <1>1, <1>3, LeastSet
<1>5. IsFiniteSet(u) /\ u \in SUBSET D
  BY <1>1, <1>4, FS_Subset
<1>6. CASE u = {}
  <2>1. Sum(total, u) = 0 /\ Sum(weights, u) = 0
    BY <1>5, <1>6, SumUnfolds
  <2> QED
    BY <1>4, <2>1
<1>7. CASE u # {}
  <2> DEFINE x == Chosen(u)
             r == u \ {x}
  <2>1. x \in u /\ r \notin B /\ r \in SUBSET D
    BY <1>4, <1>7, ChosenIsIn
  <2>2. PICK a \in Int : a = weights[x] /\ total[x] = p * a
    BY <1>2, <1>5, <2>1
  <2>3. IsFiniteSet(r)
    BY <1>1, <2>1, FS_Subset
  <2>4. \A k \in r : weights[k] \in Int
    BY <1>2, <2>1
  <2>5. PICK c \in Int : c = Sum(weights, r)
    BY <2>3, <2>4, SumType
  <2>6. Sum(total, r) = p * c
    BY <2>1, <2>5
  <2>7. Sum(total, u) = p * a + p * c
    BY <1>5, <1>7, <2>2, <2>6, SumUnfolds
  <2>8. Sum(weights, u) = a + c
    BY <1>5, <1>7, <2>2, <2>5, SumUnfolds
  <2>9. p * a + p * c = p * (a + c)
    OBVIOUS
  <2> QED
    BY <1>4, <2>7, <2>8, <2>9
<1> QED
  BY <1>6, <1>7

\* A whole and nothing of a number, in percent.
LEMMA WholeAndNothing ==
  ASSUME NEW d \in Nat, d # 0
  PROVE  RoundUp(d, d) = 100 /\ RoundUp(0, d) = 0
  BY DEF RoundUp

\* The weights always sum to 100, and progress is 100 when all parts are done
\* and 0 when none is, of any number of key results and linked tasks, if no two
\* transactions that redistribute the weights overlap.
THEOREM GoalsAreSound == GoalsSpec /\ []TransactionsApart => []GoalsSound
<1>1. TransactionsApart /\ GoalsIInv /\ [GoalsNext]_goalVars => GoalsIInv'
  BY GoalsStep
<1>2. GoalsIInv => GoalsSound
  <2> SUFFICES ASSUME GoalsIInv PROVE GoalsSound
    OBVIOUS
  <2>1. RowsOK(kr) /\ IsFiniteSet(linked) /\ (DOMAIN kr # {} => Sum(WeightOf(kr), DOMAIN kr) = 100)
    BY DEF GoalsIInv
  <2>2. kr # << >> <=> DOMAIN kr # {}
    BY <2>1, EmptyFunction DEF RowsOK
  <2>3. kr # << >> => SumWeights(kr) = 100
    BY <2>1, <2>2, SumWeightsType
  <2> DEFINE total == SumFunctionOnSet([k \in DOMAIN kr |-> kr[k].pct * kr[k].weight], DOMAIN kr)
  <2>4. ASSUME NEW p \in {0, 100}, \A k \in DOMAIN kr : kr[k].pct = p, kr # << >> PROVE total = p * 100
    <3>1. total = p * Sum(WeightOf(kr), DOMAIN kr)
      BY <2>1, <2>4, WeightedAll DEF Sum
    <3> QED
      BY <2>1, <2>2, <2>4, <3>1
  <2>5. ASSUME override = NoOverride, kr # << >> PROVE ComputeProgress = RoundUp(total, 10000)
    BY <2>3, <2>5 DEF ComputeProgress
  <2>6. ASSUME override = NoOverride, kr # << >>, \A k \in DOMAIN kr : kr[k].pct = 100
        PROVE  ComputeProgress = 100
    <3>1. total = 10000
      BY <2>4, <2>6
    <3> HIDE DEF total
    <3>2. RoundUp(10000, 10000) = 100
      BY WholeAndNothing
    <3> QED
      BY <2>5, <2>6, <3>1, <3>2
  <2>7. ASSUME override = NoOverride, kr # << >>, \A k \in DOMAIN kr : kr[k].pct = 0
        PROVE  ComputeProgress = 0
    <3>1. total = 0
      BY <2>4, <2>7
    <3> HIDE DEF total
    <3>2. RoundUp(0, 10000) = 0
      BY WholeAndNothing
    <3> QED
      BY <2>5, <2>7, <3>1, <3>2
  <2>8. Cardinality(linked) \in Nat /\ (linked # {} => Cardinality(linked) # 0)
    BY <2>1, FS_CardinalityType, FS_EmptySet
  <2>9. ASSUME override = NoOverride, kr = << >>, linked # {}, linked \subseteq taskDone
        PROVE  ComputeProgress = 100
    <3>1. linked \cap taskDone = linked
      BY <2>9
    <3>2. ComputeProgress = RoundUp(Cardinality(linked), Cardinality(linked))
      BY <2>9, <3>1 DEF ComputeProgress
    <3> QED
      BY <2>8, <2>9, <3>2, WholeAndNothing
  <2>10. ASSUME override = NoOverride, kr = << >>, linked \cap taskDone = {} PROVE ComputeProgress = 0
    <3>1. CASE linked = {}
      BY <2>10, <3>1 DEF ComputeProgress
    <3>2. CASE linked # {}
      <4>1. ComputeProgress = RoundUp(0, Cardinality(linked))
        BY <2>10, <3>2, FS_EmptySet DEF ComputeProgress
      <4> QED
        BY <2>8, <3>2, <4>1, WholeAndNothing
    <3> QED
      BY <3>1, <3>2
  <2>11. ProgressHonest
    BY <2>6, <2>7, <2>9, <2>10 DEF ProgressHonest
  <2> QED
    BY <2>3, <2>11 DEF GoalsSound, WeightsSumTo100
<1> QED
  BY GoalsStart, <1>1, <1>2, PTL DEF GoalsSpec

\* One writer is a special case.
LEMMA OneWriterIsApart == (\A v, w \in Writers : v = w) => TransactionsApart
  BY DEF TransactionsApart

-----------------------------------------------------------------------------
(* Imports, the goals and the scheduler lock side by side *)

\* Each behaviour of the three together is one of each of them.
LEMMA ImportsSideBySide == MCSpec => Spec /\ LockSpec /\ GoalsSpec
<1>1. MCInit => Init /\ LockInit /\ GoalsInit
  BY DEF MCInit
<1>2. [MCNext]_mcVars => [Next]_vars /\ [LockNext]_lockVars /\ [GoalsNext]_goalVars
  BY DEF MCNext, mcVars
<1> QED
  BY <1>1, <1>2, PTL DEF MCSpec, Spec, LockSpec, GoalsSpec

\* The lock and the goals stay well typed, for any number of calls, replicas
\* and transactions that overlap.
THEOREM LockAndGoalsTyped == MCSpec => []MCTypeOK
<1>1. LockTypeOK /\ GoalsTypeOK => MCTypeOK
  BY DEF MCTypeOK
<1> QED
  BY ImportsSideBySide, <1>1, TypeCorrect, GoalsTyped, PTL
=============================================================================
