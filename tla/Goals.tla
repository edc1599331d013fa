-------------------------------- MODULE Goals --------------------------------
(***************************************************************************)
(* One goal with its key results and linked tasks: GoalsService.  A key    *)
(* result has a position, a weight and how far it is (krProgressPct, in    *)
(* percent).  Creating and removing a key result redistributes the         *)
(* weights, in a transaction (READ COMMITTED) that reads the rows once and *)
(* writes the weights that change.  No operation of the service gives a    *)
(* goal a parent, so the children of computeProgress are left out.         *)
(***************************************************************************)
EXTENDS Integers, FiniteSets, FiniteSetsExt, Functions

CONSTANTS
    KeyResultIds,  \* bound: key results at one time
    Percents,      \* how far a key result may be
    Positions,     \* positions a request may set
    Overrides,     \* manual progress a request may set
    LinkedTasks,   \* tasks that may be linked
    Writers,       \* slots for transactions under way
    MaxPosition    \* bound: the highest position

ASSUME GoalsAssumption ==
    /\ KeyResultIds \subseteq Nat /\ MaxPosition \in Nat /\ Positions \subseteq 0..MaxPosition
    /\ Percents \subseteq 0..100 /\ Overrides \subseteq 0..100

VARIABLES
    goalLive,  \* the goal's row exists
    override,  \* Goal.progress, NoOverride for null
    kr,        \* the key results: [id -> row]
    linked,    \* GoalTask: the linked tasks
    taskDone,  \* the tasks in Done or Approved
    tx         \* the transactions under way

goalVars == <<goalLive, override, kr, linked, taskDone, tx>>

NoOverride == -1
NoTx == [op |-> "none"]

RowType == [pos : 0..MaxPosition, weight : Int, pct : 0..100]

SumWeights(rows) == SumFunctionOnSet([k \in DOMAIN rows |-> rows[k].weight], DOMAIN rows)

\* Math.round of n / d * 100, and whether it is an exact half, where the
\* floating-point quotient may lie on either side.  A last row below 0 can
\* leave a sum d < 0 behind.
RoundUp(n, d) == IF d > 0 THEN (200 * n + d) \div (2 * d) ELSE (-(200 * n) - d) \div (-(2 * d))
ExactHalf(n, d) == IF d > 0 THEN (200 * n + d) % (2 * d) = 0
                   ELSE (-(200 * n) - d) % (-(2 * d)) = 0

\* MUTANT of NextWeight: the last entry is rounded like the others.
NextWeightAllRounded(rows, last, down, k) ==
    IF SumWeights(rows) = 0 THEN 100 \div Cardinality(DOMAIN rows)
    ELSE RoundUp(rows[k].weight, SumWeights(rows)) - IF k \in down THEN 1 ELSE 0

\* redistributeWeights: an even split of new weights, or the old weights
\* scaled; the last row (in order of position) takes what the rounding of
\* the others leaves of 100.  down: the exact halves that round down.
NextWeight(rows, last, down, k) ==
    LET sum == SumWeights(rows)
        share(j) == IF sum = 0 THEN 100 \div Cardinality(DOMAIN rows)
                    ELSE RoundUp(rows[j].weight, sum) - IF j \in down THEN 1 ELSE 0
        others == DOMAIN rows \ {last}
    IN  IF k = last THEN 100 - SumFunctionOnSet([j \in others |-> share(j)], others) ELSE share(k)

\* The weights a transaction computes from the rows it reads: rows of one
\* position come in any order.
Redistributions(rows) ==
    LET sum  == SumWeights(rows)
        half == {k \in DOMAIN rows : sum # 0 /\ ExactHalf(rows[k].weight, sum)}
        lasts == {k \in DOMAIN rows : \A j \in DOMAIN rows : rows[j].pos <= rows[k].pos}
    IN  IF rows = << >> THEN {<< >>}
        ELSE {[k \in DOMAIN rows |-> NextWeight(rows, last, down, k)] :
                 last \in lasts, down \in SUBSET half}

-----------------------------------------------------------------------------
GoalsInit ==
    /\ goalLive = TRUE /\ override = NoOverride /\ kr = << >>
    /\ linked = {} /\ taskDone = {}
    /\ tx = [w \in Writers |-> NoTx]

GoalsTypeOK ==
    /\ goalLive \in BOOLEAN
    /\ override \in Overrides \cup {NoOverride}
    /\ DOMAIN kr \subseteq KeyResultIds
    /\ \A k \in DOMAIN kr : kr[k] \in RowType
    /\ linked \subseteq LinkedTasks /\ taskDone \subseteq LinkedTasks
    /\ ~goalLive => kr = << >> /\ linked = {}

UpdateGoal ==
    /\ goalLive
    /\ override' \in Overrides \cup {NoOverride}
    /\ UNCHANGED <<goalLive, kr, linked, taskDone, tx>>

\* Key results and links are deleted with the goal; the delete waits for the
\* transactions that hold rows of the goal.
RemoveGoal ==
    /\ goalLive /\ goalLive' = FALSE
    /\ \A w \in Writers : tx[w] = NoTx
    /\ kr' = << >> /\ linked' = {}
    /\ UNCHANGED <<override, taskDone, tx>>

LinkTask(t) ==
    /\ goalLive /\ linked' = linked \cup {t}
    /\ UNCHANGED <<goalLive, override, kr, taskDone, tx>>

\* Idempotent: a link that is not there is no error.
UnlinkTask(t) ==
    /\ linked' = linked \ {t}
    /\ UNCHANGED <<goalLive, override, kr, taskDone, tx>>

\* The task changes its status elsewhere.
TaskMoves(t) ==
    /\ taskDone' = IF t \in taskDone THEN taskDone \ {t} ELSE taskDone \cup {t}
    /\ UNCHANGED <<goalLive, override, kr, linked, tx>>

\* Ids of no row, committed or not.
FreeIds == KeyResultIds \ (DOMAIN kr \cup {tx[w].id : w \in {v \in Writers : tx[v].op = "create"}})

\* The insert, after the highest position, and the read of the rows.
CreateKeyResult(w) ==
    /\ tx[w] = NoTx /\ goalLive
    /\ FreeIds # {}
    /\ LET new  == Min(FreeIds)
           pos  == Max({kr[k].pos : k \in DOMAIN kr} \cup {-1}) + 1
           rows == [k \in DOMAIN kr \cup {new} |->
                       IF k = new THEN [pos |-> pos, weight |-> 0, pct |-> 0] ELSE kr[k]]
       IN  /\ pos <= MaxPosition
           /\ \E next \in Redistributions(rows) :
                 tx' = [tx EXCEPT ![w] = [op |-> "create", id |-> new, rows |-> rows, next |-> next]]
    /\ UNCHANGED <<goalLive, override, kr, linked, taskDone>>

\* The delete and the read of the rows that are left.
RemoveKeyResult(w, k) ==
    /\ tx[w] = NoTx /\ k \in DOMAIN kr
    /\ LET rows == [j \in DOMAIN kr \ {k} |-> kr[j]]
       IN  \E next \in Redistributions(rows) :
              tx' = [tx EXCEPT ![w] = [op |-> "remove", id |-> k, rows |-> rows, next |-> next]]
    /\ UNCHANGED <<goalLive, override, kr, linked, taskDone>>

\* The rows whose weight changes.
Written(t) == {k \in DOMAIN t.rows : t.next[k] # t.rows[k].weight}

\* MUTANT of CommitWeights: the weights of a removal are not redistributed.
CommitWeightsRemoveOnly(w) ==
    LET t == tx[w]
        own == IF t.op = "create" THEN {t.id} ELSE {}
    IN  /\ t # NoTx
        /\ tx' = [tx EXCEPT ![w] = NoTx]
        /\ kr' = IF Written(t) \ own \subseteq DOMAIN kr /\ (t.op = "remove" => t.id \in DOMAIN kr)
                 THEN [k \in (DOMAIN kr \cup own) \ ({t.id} \ own) |->
                          IF k \in own THEN [t.rows[k] EXCEPT !.weight = t.next[k]]
                          ELSE IF t.op = "create" /\ k \in Written(t) THEN [kr[k] EXCEPT !.weight = t.next[k]]
                          ELSE kr[k]]
                 ELSE kr
        /\ UNCHANGED <<goalLive, override, linked, taskDone>>

\* The updates of the weights, and the commit; a row that is gone by then
\* rolls the transaction back.
CommitWeights(w) ==
    LET t == tx[w]
        own == IF t.op = "create" THEN {t.id} ELSE {}
    IN  /\ t # NoTx
        /\ tx' = [tx EXCEPT ![w] = NoTx]
        /\ kr' = IF Written(t) \ own \subseteq DOMAIN kr /\ (t.op = "remove" => t.id \in DOMAIN kr)
                 THEN [k \in (DOMAIN kr \cup own) \ ({t.id} \ own) |->
                          IF k \in own THEN [t.rows[k] EXCEPT !.weight = t.next[k]]
                          ELSE IF k \in Written(t) THEN [kr[k] EXCEPT !.weight = t.next[k]]
                          ELSE kr[k]]
                 ELSE kr
        /\ UNCHANGED <<goalLive, override, linked, taskDone>>

UpdateKeyResult(k) ==
    /\ k \in DOMAIN kr
    /\ \/ \E p \in Percents : kr' = [kr EXCEPT ![k].pct = p]
       \/ \E p \in Positions : kr' = [kr EXCEPT ![k].pos = p]
    /\ UNCHANGED <<goalLive, override, linked, taskDone, tx>>

GoalsNext ==
    \/ UpdateGoal \/ RemoveGoal
    \/ \E t \in LinkedTasks : LinkTask(t) \/ UnlinkTask(t) \/ TaskMoves(t)
    \/ \E w \in Writers : CreateKeyResult(w) \/ CommitWeights(w) \/ \E k \in KeyResultIds : RemoveKeyResult(w, k)
    \/ \E k \in KeyResultIds : UpdateKeyResult(k)

GoalsSpec == GoalsInit /\ [][GoalsNext]_goalVars

-----------------------------------------------------------------------------
\* MUTANT of ComputeProgress: key results are averaged without their weights.
ComputeProgressUnweighted ==
    IF override # NoOverride THEN override
    ELSE IF kr # << >>
         THEN SumFunctionOnSet([k \in DOMAIN kr |-> kr[k].pct], DOMAIN kr) \div 100
    ELSE IF linked # {} THEN RoundUp(Cardinality(linked \cap taskDone), Cardinality(linked))
    ELSE 0

\* computeProgress of a goal without children.
ComputeProgress ==
    LET total == SumFunctionOnSet([k \in DOMAIN kr |-> kr[k].pct * kr[k].weight], DOMAIN kr)
    IN  IF override # NoOverride THEN override
        ELSE IF kr # << >>
             THEN IF SumWeights(kr) > 0 THEN RoundUp(total, 100 * SumWeights(kr)) ELSE 0
        ELSE IF linked # {} THEN RoundUp(Cardinality(linked \cap taskDone), Cardinality(linked))
        ELSE 0

\* Whatever was created, removed and moved, and however it was rounded, the
\* weights of a goal's key results sum to exactly 100 (redistributeWeights,
\* by one transaction at a time).
WeightsSumTo100 == kr # << >> => SumWeights(kr) = 100

\* A goal whose parts are all done is done, and one of whose parts nothing is
\* done is at 0 (computeProgress over key results or tasks).
ProgressHonest ==
    override = NoOverride =>
        /\ kr # << >> /\ (\A k \in DOMAIN kr : kr[k].pct = 100) => ComputeProgress = 100
        /\ (\A k \in DOMAIN kr : kr[k].pct = 0) /\ (kr # << >> \/ linked \cap taskDone = {})
              => ComputeProgress = 0
        /\ kr = << >> /\ linked # {} /\ linked \subseteq taskDone => ComputeProgress = 100

\* Weights and progress of a goal (goals.service.ts).
GoalsSound == WeightsSumTo100 /\ ProgressHonest

\* "Contribution weight 0..100" (schema.prisma:967).
WeightInRange == \A k \in DOMAIN kr : kr[k].weight \in 0..100
=============================================================================
