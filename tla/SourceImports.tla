---------------------------- MODULE SourceImports ----------------------------
(***************************************************************************)
(* Imports from Jira, Linear and GitHub (apps/api/src/modules/import):     *)
(* runImport answers at once and leaves executeRun running in the process, *)
(* with no queue behind it.  Runs overlap; all of them are of one name and *)
(* key at the source, so the runs look for the same project here.          *)
(***************************************************************************)
EXTENDS Naturals, FiniteSets, FiniteSetsExt

CONSTANTS
    ImportIds,   \* ImportRun rows
    Mixes,       \* which sources the runs are from: a set of functions
    MaxProjects, \* bound: keys a project can have, the source's own first
    MaxIssues,   \* bound: issues at the source
    ErrorCap     \* length at which the list of errors stops

ASSUME SourceImportsAssumption ==
    /\ Mixes \subseteq [ImportIds -> {"jira", "linear", "github"}]
    /\ MaxProjects \in Nat \ {0} /\ MaxIssues \in Nat /\ ErrorCap \in Nat

VARIABLES
    imp,            \* ImportRun rows and what executeRun knows of them
    nextTaskNumber  \* project key -> Project.nextTaskNumber, 0 for no project

sourceImportVars == <<imp, nextTaskNumber>>

ProjectKeys == 1..MaxProjects
Existing == {k \in ProjectKeys : nextTaskNumber[k] > 0}

NewImport(source) ==
    [pc |-> "none", source |-> source, dry |-> FALSE, project |-> 0, total |-> 0, done |-> 0,
     number |-> 0, errors |-> 0, noted |-> FALSE, created |-> 0, errored |-> 0, skipped |-> 0,
     tasks |-> {}, status |-> "running"]

SourceImportsInit ==
    /\ \E sources \in Mixes : imp = [r \in ImportIds |-> NewImport(sources[r])]
    /\ \E n \in {0, 1} : nextTaskNumber = [k \in ProjectKeys |-> IF k = 1 THEN n ELSE 0]

At(r, pc) == imp[r].pc = pc
Go(r, pc) == imp' = [imp EXCEPT ![r].pc = pc]

-----------------------------------------------------------------------------
\* runImport: the row is there; a run from GitHub has been given its project.
StartImport(r) ==
    /\ At(r, "none")
    /\ \E dry \in BOOLEAN :
         \/ /\ imp[r].source # "github"
            /\ imp' = [imp EXCEPT ![r].pc = "find", ![r].dry = dry]
         \/ /\ imp[r].source = "github"
            /\ \E k \in Existing :
                 imp' = [imp EXCEPT ![r].pc = "fetch", ![r].project = k, ![r].dry = dry]
    /\ UNCHANGED nextTaskNumber

\* A project of that name is used again; a dry run makes none.
FindProject(r) ==
    /\ At(r, "find")
    /\ \/ \E k \in Existing : imp' = [imp EXCEPT ![r].pc = "fetch", ![r].project = k]
       \/ /\ Existing = {} /\ imp[r].dry
          /\ imp' = [imp EXCEPT ![r].pc = "over", ![r].status = "succeeded"]
       \/ /\ Existing = {} /\ ~imp[r].dry
          /\ imp' = [imp EXCEPT ![r].pc = IF imp[r].source = "jira" THEN "pick" ELSE "create",
                                ![r].project = 1]
    /\ UNCHANGED nextTaskNumber

\* pickUniqueKey.
PickKey(r) ==
    /\ At(r, "pick")
    /\ ProjectKeys \ Existing # {}
    /\ imp' = [imp EXCEPT ![r].pc = "create", ![r].project = Min(ProjectKeys \ Existing)]
    /\ UNCHANGED nextTaskNumber

\* The key is unique: a run that comes second is refused, and throws.
CreateProject(r) ==
    LET k == imp[r].project
    IN  /\ At(r, "create")
        /\ IF k \in Existing THEN Go(r, "throw") /\ UNCHANGED nextTaskNumber
           ELSE /\ nextTaskNumber' = [nextTaskNumber EXCEPT ![k] = 1]
                /\ Go(r, "fetch")

\* All issues are read and setTotal written; a dry run counts them skipped.
FetchIssues(r) ==
    /\ At(r, "fetch")
    /\ \E n \in 0..MaxIssues :
         imp' = [imp EXCEPT ![r].total = n,
                            ![r].skipped = IF imp[r].dry THEN n ELSE 0,
                            ![r].status = IF imp[r].dry THEN "succeeded" ELSE "running",
                            ![r].pc = IF imp[r].dry THEN "over"
                                      ELSE IF imp[r].source = "jira" THEN "issue" ELSE "reserve"]
    /\ UNCHANGED nextTaskNumber

\* MUTANT of Reserve: the block begins at the number the update returned.
ReserveAfter(r) ==
    LET k == imp[r].project
    IN  /\ At(r, "reserve")
        /\ nextTaskNumber' = [nextTaskNumber EXCEPT ![k] = @ + imp[r].total]
        /\ imp' = [imp EXCEPT ![r].pc = "issue", ![r].number = nextTaskNumber[k] + imp[r].total]

\* Linear and GitHub reserve a block of numbers.
Reserve(r) ==
    LET k == imp[r].project
    IN  /\ At(r, "reserve")
        /\ nextTaskNumber' = [nextTaskNumber EXCEPT ![k] = @ + imp[r].total]
        /\ imp' = [imp EXCEPT ![r].pc = "issue", ![r].number = nextTaskNumber[k]]

More(r) == imp[r].done < imp[r].total

\* Jira takes one number for each issue, before its task.
TakeNumber(r) ==
    LET k == imp[r].project
    IN  /\ At(r, "issue") /\ imp[r].source = "jira" /\ More(r)
        /\ nextTaskNumber' = [nextTaskNumber EXCEPT ![k] = @ + 1]
        /\ imp' = [imp EXCEPT ![r].pc = "task", ![r].number = nextTaskNumber[k]]

Capped(n) == Min({n, ErrorCap})
NumberOf(r) == imp[r].number + IF imp[r].source = "jira" THEN 0 ELSE imp[r].done
ReadyForTask(r) == At(r, "task") \/ (At(r, "issue") /\ imp[r].source # "jira" /\ More(r))

\* MUTANT of IssueDone: an issue that failed after its task is counted twice.
IssueDoneTwice(r, made, failed, notes) ==
    imp' = [imp EXCEPT
        ![r].pc = "issue", ![r].done = @ + 1,
        ![r].tasks = IF made THEN @ \cup {<<imp[r].project, NumberOf(r)>>} ELSE @,
        ![r].noted = @ \/ notes > 0,
        ![r].errors = Capped(@ + notes + (IF failed THEN 1 ELSE 0)),
        ![r].created = @ + (IF made THEN 1 ELSE 0),
        ![r].errored = @ + (IF failed THEN 1 ELSE 0)]

\* The counters and the errors after an issue whose task was made or not, and
\* which failed or not; comments and worklogs that fail are only noted.
IssueDone(r, made, failed, notes) ==
    imp' = [imp EXCEPT
        ![r].pc = "issue", ![r].done = @ + 1,
        ![r].tasks = IF made THEN @ \cup {<<imp[r].project, NumberOf(r)>>} ELSE @,
        ![r].noted = @ \/ notes > 0,
        ![r].errors = Capped(@ + notes + (IF failed THEN 1 ELSE 0)),
        ![r].created = @ + (IF failed THEN 0 ELSE 1),
        ![r].errored = @ + (IF failed THEN 1 ELSE 0)]

\* An issue: its number at Jira's, its task, then labels, comments and
\* worklogs, then the counter.  What rejects fails the issue, but for Jira's
\* comments and worklogs, of which any number may fail before the issue does or
\* does not: those past the cap are not noted.
ImportIssue(r) ==
    /\ \/ At(r, "issue") /\ More(r) /\ IssueDone(r, FALSE, TRUE, 0)
       \/ /\ ReadyForTask(r)
          /\ \/ IssueDone(r, FALSE, TRUE, 0)
             \/ \E failed \in BOOLEAN, notes \in 0..ErrorCap :
                  (notes > 0 => imp[r].source = "jira") /\ IssueDone(r, TRUE, failed, notes)
    /\ UNCHANGED nextTaskNumber

\* MUTANT of Verdict: one error fails the run.
VerdictStrict(i) == IF i.errors > 0 THEN "failed" ELSE "succeeded"

\* Linear counts its errors, the others take the length of the capped list.
Verdict(i) ==
    LET bad == IF i.source = "linear" THEN i.errored ELSE i.errors
    IN  IF i.total > 0 /\ bad = i.total THEN "failed" ELSE "succeeded"

FinishImport(r) ==
    /\ At(r, "issue") /\ ~More(r)
    /\ imp' = [imp EXCEPT ![r].pc = "over", ![r].status = Verdict(imp[r])]
    /\ UNCHANGED nextTaskNumber

\* runImport's catch.
CatchImport(r) ==
    /\ At(r, "throw")
    /\ imp' = [imp EXCEPT ![r].pc = "thrown", ![r].status = "failed"]
    /\ UNCHANGED nextTaskNumber

\* A statement rejects outside an issue's try block, the count of a failed
\* issue among them; so may the one in runImport's catch, and then nobody
\* writes the row again.
RejectImport(r) ==
    /\ imp[r].pc \in {"find", "pick", "create", "fetch", "reserve", "issue", "task", "throw"}
    /\ \E made \in BOOLEAN :
         /\ made => ReadyForTask(r)
         /\ imp' = [imp EXCEPT
              ![r].pc = IF @ = "throw" THEN "lost" ELSE "throw",
              ![r].tasks = IF made THEN @ \cup {<<imp[r].project, NumberOf(r)>>} ELSE @]
    /\ UNCHANGED nextTaskNumber

\* The process dies with every run in it.
ImportsDie ==
    /\ imp' = [r \in ImportIds |-> IF imp[r].pc \in {"none", "over", "thrown"} THEN imp[r]
                                   ELSE [imp[r] EXCEPT !.pc = "lost"]]
    /\ UNCHANGED nextTaskNumber

ImportStep(r) ==
    \/ FindProject(r) \/ PickKey(r) \/ CreateProject(r) \/ FetchIssues(r) \/ Reserve(r)
    \/ TakeNumber(r) \/ ImportIssue(r) \/ FinishImport(r) \/ CatchImport(r)

SourceImportsNext ==
    \/ ImportsDie
    \/ \E r \in ImportIds : StartImport(r) \/ ImportStep(r) \/ RejectImport(r)

SourceImportsSpec == SourceImportsInit /\ [][SourceImportsNext]_sourceImportVars

-----------------------------------------------------------------------------
\* Types; no issue is counted more than once.
SourceImportsTypeOK ==
    /\ \A r \in ImportIds :
         /\ imp[r].pc \in {"none", "find", "pick", "create", "fetch", "reserve", "issue", "task",
                           "over", "throw", "thrown", "lost"}
         /\ imp[r].status \in {"running", "succeeded", "failed"}
         /\ imp[r].project \in 0..MaxProjects /\ imp[r].number \in Nat
         /\ imp[r].total \in 0..MaxIssues /\ imp[r].errors \in 0..ErrorCap
         /\ imp[r].created + imp[r].errored = imp[r].done
         /\ imp[r].tasks \subseteq ProjectKeys \X Nat
    /\ nextTaskNumber \in [ProjectKeys -> Nat]

\* Overlapping runs into one project, whichever way they take their numbers,
\* never give two tasks one key, nor one that a later task will be given
\* (jira-import.service.ts:381, linear-import.service.ts:322).
ImportKeysUnique ==
    /\ \A r, q \in ImportIds : r # q => imp[r].tasks \cap imp[q].tasks = {}
    /\ \A r \in ImportIds :
         /\ Cardinality(imp[r].tasks) >= imp[r].created
         /\ \A t \in imp[r].tasks : t[2] < nextTaskNumber[t[1]]

\* A run that came to its end is called failed exactly when every issue of it
\* failed, unless it has more issues than its list has room for, or failed
\* comments and worklogs filled that list (jira-import.service.ts:541,
\* github-issues-import.service.ts:351).
VerdictMatchesCounts ==
    \A r \in ImportIds : LET i == imp[r] IN
        i.pc = "over" /\ ~i.dry =>
            \/ i.status = "failed" <=> i.total > 0 /\ i.errored = i.total
            \/ i.source # "linear" /\ i.total > ErrorCap
            \/ i.noted

\* Imports that overlap take different keys, and each says truly how it went.
ImportsSound == ImportKeysUnique /\ VerdictMatchesCounts
=============================================================================
