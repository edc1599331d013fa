# Nockta Flow: TLA+ models and proofs

This directory models the parts of Nockta Flow (the project-management API under
`apps/api`) in which several requests, replicas, queue workers or clocks share state, and
the few algorithms with boundaries worth exploring. TLC checks the models on small
instances; TLAPS proves the most important results for every size. Paths below are
relative to `src/apps/api/src`.

## 1. The system

The API is a NestJS application that runs as several replicas over one Postgres
database (through Prisma, READ COMMITTED), one Redis (scheduler locks, BullMQ queues,
Socket.IO) and an object store. Nothing is shared in memory between replicas. Three
kinds of activity interleave:

- **HTTP requests**: a handler reads rows, checks them, and writes in a later statement
  or transaction. Between two awaits any other request may run, and any await may reject.
- **Schedulers**: every replica runs the same `setInterval`s and wraps each tick in
  `SchedulerLockService.withLock`, a Redis key with a time to live.
- **Queue workers**: BullMQ jobs with attempts and backoff; the job of a worker that
  dies stalls and is handed out again.

| Component | State | Operations | What is hard | What makes it correct |
|---|---|---|---|---|
| Scheduler lock (`common/scheduling`) | the Redis key and its TTL | acquire, run the body, release | lost answers, late releases, dead replicas | one tick within its TTL at a time; no key for ever |
| Project workflow and tasks (`modules/projects`, `modules/tasks`) | columns, statuses, transitions, tasks | create, rename, move, delete, reset; create, move and remove tasks | check-then-act over several tables linked by status *name* | every task has a status; one initial status; completion dates and parents honest |
| Sprints (`modules/sprints`) | sprint states, `Task.sprintId`, membership history | create, start, complete, delete, add, remove | two records of one fact; starts that race | history and tasks agree; one active sprint; completed sprints sealed |
| Outbound webhooks (`modules/outbound-webhooks`) | hook, deliveries, jobs | enqueue, deliver, retry, disable, edit, remove | retries, stalled jobs, a shared failure counter | bounded posts, every delivery settles, one notice per disablement |
| CSV imports (`modules/import`) | run row with its resume point, tasks | commit, resume | row failures, rejected bookkeeping, overlapping resumes | a resume skips only what is there; green means complete |
| Scheduled exports (`modules/exports`) | schedule, runs, queue | ticks, run by hand, edit, delete | the same minute on several replicas | a due minute exports once |
| Export runs (`modules/exports`) | run row, job | the processor's steps | retries, dead workers, failing mail | every run settles; completed stays |
| Accounts (`modules/auth`, `modules/users`) | users, refresh tokens, magic links, Redis revocations | sign in, refresh, log out, invite, archive | copies of one token or link used at once; archive during a sign-in | one live token per sign-in; links used once; no session for an archived account |
| Project access (`modules/permissions`, `modules/teams`, `modules/users`) | kinds, roles, teams, grants, visibility | change role, kind, address, teams; grant, revoke, invite; list, search, show | writes on what an earlier read allowed; one rule written six times | every list shows what the permission check would allow |
| Goals (`modules/goals`) | key results with weights, links | create, move, remove, update; progress | rounding; two redistributions at once | weights sum to 100, progress honest |
| Notifications (`modules/notifications`) | digest buckets, queue jobs, rows | dispatch, batch, flush, deliver | an append racing a flush; stalled jobs | each note delivered, once |
| Snooze (`modules/notifications`) | rules | create, patch, remove, check | windows across midnight and week | silent in the window and only there |
| Recurring tasks (`modules/recurrence`) | rules, tasks, key counter | edit, claim, spawn, next run | two ticks, edits in between; calendar | one task per due run, of the current rule |
| Archive and purge (`modules/projects`) | project | archive, restore, sweep | a restore during the sweep | nothing deleted before its grace is over |
| Automations (`modules/automations`) | automations, run records, due-soon markers | listen, match, act, record; due-soon tick | rules that undo each other; steps that fail | no cascade, honest records, one reminder |
| Attachments (`modules/attachments`) | row, object, scan and thumbnail jobs | upload, scan, quarantine, delete, purge | storage that fails half way | no row without its object, no object without its row |
| Jira, Linear, GitHub imports (`modules/import`) | run row, projects, key counter | fetch, create, count, finish | overlapping imports, issues that fail | distinct keys, a true verdict |
| Code events (`modules/github`, `modules/deployments`) | delivery claims, links, task status | deliver, link, transition | repeated, failed and reordered deliveries | one dispatch, one link, the right status |
| AI triage and standups (`modules/ai`) | priority and reason, spend | ask, look again, write; gate, record | answers that take long | the user's choice stands; bounded overspend |
| Custom fields (`modules/custom-fields`) | definitions | save, remove, evaluate | two saves past one check; order of evaluation | no circles; what two passes compute |
| Worklog (`modules/worklog`) | timers | start, stop, log, delete | two tabs | one running timer, no spurious refusal |
| Pomodoro (`apps/web`) | phase, cycle, start, pause | start, pause, resume, skip, reset, interval | late intervals | the time shown is the time left |

Components interact through calls (imports create tasks through `TasksService.create`;
the export scheduler calls `withLock`), through rows another service writes (a task's
`sprintId` and `status` name), and through queues. Section 7 lists what is not modelled.

## 2. How the code is modelled

- **A step is an awaited statement.** A handler that reads, checks and writes becomes one
  action per await, named after the handler (`DeleteStatusLoad`, `DeleteStatusCount`,
  `DeleteStatusCommit`). Synchronous code between two awaits belongs to the action before
  or after it. What a handler has read travels in the request's record (`req`).
- **A transaction** is one step when its outcome depends on nothing another transaction can
  change under it; `createStatus` and `updateStatus`, which demote the other initial
  statuses first and write later, are two (`TxBegin`, `...Commit`), because READ COMMITTED
  lets another transaction commit in between. The demotion a transaction has seen is in
  the request's record and becomes visible with the commit.
- **Failure.** `Abort`, `Reject`, `DbFault`, `FireFault`, `ProcFault`: a statement rejects
  and control goes where the `catch` blocks send it. `Crash` and `TickCrash`: the replica
  or worker dies.
- **Data** are abstracted to what the properties tell apart. A CSV row succeeds or fails; a
  cron expression is the set of minutes it matches; an HTTP answer is a success, rejected
  or retryable. Outside `Access` roles are an input: a handler whose permission check fails
  changes nothing.
- **External parts** (Redis expiry, BullMQ, the clock, users losing access) are modelled
  from how the code uses them and marked `external` in the map.
- **History variables** (`patched`, `raced`, `overran`, `lost`, `once.time`, `flips`,
  `notices`, `posts`, `out`, `root`, `touched`, `rung`, `outside`, `complete`, `piecemeal`,
  `orderly`, `unnamed`, `lateEdit`, `looksNew`, `ungated`) record what a property needs and influence no action.
- **Several components in one run.** Components that share no state are checked together:
  the `focus` of a behaviour picks the one that moves, so that TLC explores the sum of the
  state spaces, and each keeps the next-state relation of its own module.

Bounds are constants named `Max...`; each module says what they bound.

## 3. Modules

**`SchedulerLock`** is `withLock`. A call is identified with the token it generates. The
key, its remaining life (`ttl`) and the time since each call's `SET` (`age`) are the state.
`AcquireError` covers both a `SET` that was lost and one that was executed with its answer
lost. **`Lease`** is the abstract promise: at most one holder, handed over only through a
moment without one. `ImplementsLease` is the refinement, with the calls within their TTL as
the holders.

**`Workflow`** is one project: columns, status rows, transitions, tasks, and requests for
every operation on them, from `seedDefaults` to `resetToDefaults`. Tasks and transitions
refer to statuses by name, as in the schema. The uniqueness of names and the cascading
foreign key of the column are part of the commits. `renameColumn` and `reorderColumns`
change only names and positions nobody refers to, and are left out.

**`Sprints`** keeps both records of where a task is: `sprint` (the column of the task) and
`open` (open membership rows). `IndexAllows` is the partial unique index of
`companion.sql`. The task endpoint's `sprintId` writes no membership row; the tasks it has
moved are in `patched`, and the membership properties are about the others.

**`Webhooks`** is one hook, with any number of deliveries: creation of the row, the job, every
statement of the processor with its position inside or outside the `try` block, the counter
and its threshold, a full-row edit in two steps, and removal.

**`Imports`** is one import run. `runPlans` is the program counter of each request;
`resumableFromRow`, 0-based in the code, is counted from 1 here. `RowLocal` says whether a
row may fail and a later one of the same request succeed. It is FALSE for failures whose
cause lasts for the request (an archived project, a lost role, an outage) and TRUE for
failures of one row. That a rejected `tasks.create` may have created its task all the same
(its answer was lost) is not modelled.

**`ExportSchedules`** composes one schedule with the scheduler lock: `Lock` is an instance of
`SchedulerLock` whose calls are the ticks, and each tick action takes the lock's own action
and the scheduler's together. Time advances in half minutes, so a tick may start in either
half and the lock's 90 s are three steps. **`ExportRuns`** is the processor of what the
schedules and users put on the queue.

**`Accounts`** numbers the refresh tokens and magic links in order of creation. A handler
occupies a slot of `req` from its first statement to its last, so that a refresh, a
verification, a logout and an archive interleave statement by statement, and any of them may
die half way. An access token carries the number of the refresh token issued with it, and
Redis keeps until when its revocation is remembered.

**`Access`** is one project and everything that decides who sees it. The requests of the
members page and `inviteGuest` are two steps, what they read and what they write; the other
requests are one statement after the actor's check. `EffectiveRole` is
`PermissionsService`; `ListForUser`, `Gallery`, `Search` (with `MetricsScope` and
`ReportsScope`, copies of the same query), `ClientPortal` and `MembersPage` are the other
places that answer the question, each translated from its own query.

**`Goals`** is one goal. A creation or removal of a key result is a transaction in two steps,
the read of the rows with the computed weights and the writes. `NextWeight` keeps JavaScript's
rounding: an exact half may go either way, because the quotient is a floating-point number.

**`Notifications`** follows a note from `dispatch` (mute, digest or queue) to its row:
`enqueueOrBatch` reads, appends under a condition and falls back to a fresh bucket;
`flushOne` claims by a conditional update whether it is called inline or by the tick; queue
jobs have attempts and may stall after they wrote their row. **`SnoozeRules`** holds the
rules that mute the dispatcher, with a week of `DaysPerWeek` days of `HoursPerDay` hours.

**`Recurrence`** has the rules, the ticks of `spawnDueRecurrences` (read, claim by
compare-and-set, take a number, create, write back) and, over the same project, archive,
restore and the nightly purge. **`NextRun`** is `computeNextRun` over a
calendar whose `LeapYears` are a parameter, with the JavaScript `Date` roll-over of a day the
month does not have.

**`Automations`** has one task, the listener with its `viaAutomation` guard, handlers that
run the automations they have read step by step, the webhook step with its second try, the
records of their runs, each of whose inserts may be rejected and is then swallowed, the
counter, whose rejected update ends in the catch block, and the due-soon tick that marks
before it emits. **`Attachments`** keeps row, object,
thumbnails and jobs of each file and the daily purge.

**`SourceImports`** is the three importers: Jira takes a number per issue, Linear and GitHub
reserve a block; an issue may fail with its task made, and at Jira's any number of its
comments and worklogs may fail before. **`CodeEvents`** takes the push, opening, merge and
deployment of one branch in any order and any number of times, with a delivery id or without.
**`AiTriage`** has the prioritize jobs of one task, whose users may choose any priority, the
default included, and the two standup endpoints, of which one looks at the month's budget and
both spend from it. It, **`Formulas`**, **`Worklog`** and **`Pomodoro`** are each the control of one service; a formula is the set of names it
mentions, an answer of the model is a priority or no signal, and takes some cents.

The `MC...` modules give the instances; the `...Proofs` modules hold the proofs.

## 4. Runs

| Run | Bounds | What it shows |
|---|---|---|
| `workflow_serial` | 1 request in flight, 2 tasks, 3 status ids, 4 names | `TasksHaveStatus`, `WorkflowSound`, `ParentGate`, `NoNewGhostEdge` through every operation and every way it can abort |
| `workflow_delete_race` (violation) | 2 requests, 1 task | a task enters a status between `deleteStatus`'s count and delete |
| `sprints_serial` | 1 request, 3 sprints, 2 tasks, design preset | `MembershipHistory`, `OneActive`, `CompletedSealed` |
| `sprints_approved` (violation) | generic preset | `complete` moves the membership of an Approved task and not the task |
| `webhooks_race` | 2 deliveries, 2 workers, 2 attempts, threshold 1, 1 fault, 1 crash | `NoticePerDisable`, `PostsBounded`, `DeliverySettles` |
| `webhooks_stale_flip` (violation) | 3 deliveries, threshold 2 | a hook is disabled on a count a success has reset |
| `imports_lock_goals` | imports: 3 rows, 2 requests, 2 failures, 2 faults, 1 crash; lock: 3 calls, TTL 2; goals: 4 key results, 1 task, 1 transaction at a time | `SkippedSucceeded`, `SucceededComplete`, `RowsCounted`, `RunSettles`; `ImplementsLease`: a late release never opens the door to a third call; `LockReaped`: the TTL ends every key; `GoalsSound` |
| `imports_row_local` (violation) | 3 rows, 1 request, no faults | a failed row before a later success is never replayed |
| `accounts_schedules` | accounts: 2 addresses, 2 handlers, 3 tokens, 2 links, 3 moments, 4 calls; schedules: 2 replicas, 2 due minutes, 1 run by hand, 1 edit, 1 fault, 1 crash; access: 2 users, 1 team, 3 requests, 2 of them under way | `AccountsSound`, `ScheduleHonoured`, `AccessSound` |
| `goals_weights` (violation) | 8 key results | a key result is left with the weight -2 |
| `background` | notifications: 2 dispatchers, 1 tick, 4 events, buckets of 2, 1 fault, 1 stall; recurrence: 2 rules, 2 ticks, 3 days; attachments: 2 files, 2 attempts, 1 mishap | `NotesOnce`, `NoteSettles`, `RecurrenceSound`, `FilesSound`, `FilesSettle` |
| `services` | 2 export runs; 2 imports of 2 issues; 2 receivers, 1 repetition, 1 event without its id; 2 triage jobs, 2 priorities chosen; 2 standups at a time, 4 in all; 3 fields, 2 editors; 2 timers, 2 tabs; 430 days; a Pomodoro set; 1 snooze rule; 3 automations, 2 handlers | `ExportsEndOnce`, and one invariant per service, below |

A property named `...Sound` is the conjunction of the named parts beside it in its module,
each with its comment; the parts are:

- `WorkflowSound`: `OneInitial`, `CompletedIsDone`. `MembershipHistory`: `MembershipMatches`,
  `OneOpenRow`. `CompletedSealed`: `Lifecycle`, `IncompleteMovedOut`, `NobodyEnters`.
  `RowsCounted`: `NoRowTwice`, `CreatedCovered`.
- `AccountsSound`: `ChainOneLive` (one live refresh token per sign-in), `RotatedIsRevoked`,
  `SessionWasAllowed` (no session for an account archived throughout the request),
  `LoggedOutStaysOut`, `LinkSignsInOnce`, `InvitesStackOnlyWhenConcurrent`.
- `AccessSound`: `ListsAgree`, `PageComplete` (the members page shows at least the access there
  is). `GoalsSound`: `WeightsSumTo100`, `ProgressHonest`.
- `ScheduleHonoured`: `OneExportPerMinute`, `SkipJustified`, `BlipKeepsSchedule`.
- `NotesOnce`: `BatchedOnce`, `RowsBounded`, `BucketBounded`. `RecurrenceSound`:
  `OneTaskPerDueRun`, `KeyNumbersUnique`, and of every step `ClaimsCurrentRule` and
  `PurgeHonoursGrace`. `FilesSound`: `ServedHasObject`, `RowOutlivesObjects`. `FilesSettle`:
  `ScanSettles`, `StalePurged`.
- `ImportsSound`: `ImportKeysUnique`, `VerdictMatchesCounts`. `CodeEventsSound`:
  `DispatchedOnce`, `LinkedOnce`, `StatusFollowsEvents`. `TriageSound`: `UserChoiceStands`,
  `ReasonFitsPriority`, `OverspentByRequestsInFlight`. `FormulasSound`:
  `CycleNeedsRaceOrBlanks`, `TwoPassesSettle`. `NextRunFitsRule`: `WeeklyIsFirstListedDay`,
  `MonthlyKeepsDay`. `PomodoroSound`: `RemainingIsTimeLeft`, `BreaksFollowTheSet`.
  `SnoozeSound`: `SnoozedExactlyInWindow`, `EmptyWindowIsPiecemeal`. `AutomationsSound`:
  `NoCascade`, `SuccessIsComplete`, `RunCountTracksSuccess`, `EveryRunRecorded`,
  `RingsOncePerMark`.
  `RefusedOnlyWhenOverlapped` is the worklog's own.

*Why the bounds are enough to be interesting.* Three calls let a late release meet a second
holder and a third candidate. Four key results are the least whose even split has a rest. Three rows are the least with a failure between two successes.
Two requests make every check-then-act interleave. Two minutes let a tick meet the stamp of
the minute before, and half-minute steps put a run by hand on either side of the comparison
with 60 s. Attempts of 2 have a first and a last; one stalled job is what BullMQ allows
before it fails a job by itself. A status table of three ids with four names reaches
creation, renaming to and from a custom name, and resets. Three tokens are a sign-in, its
rotation and a rival; two handlers make every pair of account operations overlap. A bucket
of two with four events is appended to, flushed, over its cap and re-opened. Two ticks with
one administrator meet every stale read of a rule or project. Three formula fields are the
least with a chain of two references, 430 days pass a common and a leap February, and a
week of three short days has every kind of window. Two automations that undo each other are
the least that could cascade. Two choices of a user are the least that lead from another
priority back to the default.

*Deadlock* is checked in the workflow and sprint runs. The other systems may
stop: an import is over, the clock's bound is reached, every delivery has settled.

*Serial runs.* `workflow_serial` and `sprints_serial` keep one request in flight: with two,
the code itself violates most of these properties, and one of each kind is a run of its own.
With the same modules, two requests and a few operations TLC also finds: two transactions
that demote each other's initial status leave two (`OneInitial`); a status moved into a
column while the column is being deleted goes with it (`TasksHaveStatus`); a parent is
completed on stale subtasks (`ParentGate`); two changes of one task's status leave a
completion date on an open task (`CompletedIsDone`); a start that read the sprint before it
was started and completed re-activates it (`Lifecycle`); `addTasks` enters a sprint
completed meanwhile (`CompletedSealed`). With one request: a patch with `isInitialStatus:
false` leaves no initial status (`OneInitial`), which is why the serial run's patches rename,
move or make initial; changing `isDoneStatus` re-labels tasks without touching their dates,
and is left out for the same reason; and with `Readd`, adding a task that is already in this
or in another sprint stacks open rows (`OneOpenRow`, `MembershipMatches`). A stale webhook
edit that enables a hook again happens in `webhooks_race` and no property forbids it. What
of all this is due to races on the same thing only, and holds for requests that race about
different ones, is proved (section 6).

### Fairness

- `SchedulerLock`: only time is fair (`WF(Tick)`). A call may be slow, die or never come.
- `Webhooks`, `ExportRuns`: a job's steps are weakly fair, since workers keep taking jobs and
  a statement is answered or rejected. Nobody has to create a delivery or enqueue a run, and
  faults and crashes are never forced.
- `Imports`: the steps of a request in flight are weakly fair; nobody has to resume.
- `Notifications`: each dispatcher and flusher goes on with what it has begun, ticks come,
  buckets age, and the sink and the queue deliver what they were given; the tick is an
  interval and the queue's workers keep running.
- `Attachments`: the scan jobs of a file and the daily purge go on; nobody has to upload.
- All the others state safety only, without fairness.

`RunSettles` of `Imports` excuses crashes (a crashed import stays `running`; the code has no
recovery) and a second fault: one rejected statement is handled by the row's catch or the
outer one, a rejection inside the outer catch is not. `ExportsEndOnce` excuses a
run whose attempts are used and one of whose statements rejected: when that was the catch
block's own update, the row stays `running`.

## 5. Findings

Five runs are expected to violate their property. Each shows the code at odds with a comment
beside it; `PROJECT.json` quotes the lines.

- `workflow_delete_race`: "A status cannot be deleted while any task is still in it".
- `sprints_approved`: "Close every open membership for tasks that just left this sprint"; the
  task and membership filters differ outside the design preset.
- `webhooks_stale_flip`: the update is said to be gated on the failure count and is not.
- `imports_row_local`: rows up to `resumableFromRow` are said to have "succeeded the first
  time around"; the point is rewritten at every failure from the last success so far.
- `goals_weights`: "Contribution weight 0..100". Every share but the last is rounded, so six
  equal ones take 102 of 100 and the last gets the rest.

### Behaviour worth knowing that no run forbids

Met while modelling. Where the behaviour is one a model has, the properties are stated so as
to excuse it.

- *Accounts.* A rotated token is always revoked as well, so `refresh` answers "revoked" and
  its reuse branch (`auth.service.ts:297`) never runs. An archive that dies between its two
  writes leaves live refresh tokens, and a sign-in that checked before the archive issues
  one after it; both end at the next refresh, which looks at the account. Two overlapping
  invitations of one address both stay valid. Revoking an expired invitation drops the grant
  that a newer one relies on (`users.service.ts:261`).
- *Access.* `search.service.ts:284`, its copies and the client portal count only a guest's
  grants with the role Client; the comment at `projects.service.ts:128` calls that a legacy
  assumption which broke contributor and viewer guests, and there the filter is gone.
  `addMember` lets a client into a team, and a late `setTeams` or `changeRole` leaves a client
  in one or with a company role; `AccessSound` shows that no list widens because of it, and
  the members page then shows a role the user does not have.
- *Goals.* A key result created beside others keeps the weight 0. Two transactions at once
  both redistribute what they have read, and the weights no longer sum to 100, which is why
  the run keeps one at a time. A removal in a goal whose others have weight 0 splits evenly.
- *Recurrence.* A project restored between the sweep's read and its delete is deleted. The
  write-back after a spawn overwrites an edit made meanwhile (`recurrence.service.ts:204`).
  A spawn that outlives the provisional ten minutes is spawned again. A monthly rule counted
  from the 31st passes over short months even when its own day exists there, and a late run
  shifts the ones after it.
- *Attachments.* A replica that dies between the row and `scanQueue.add` leaves the file
  pending. A scanner's reply that is neither OK nor FOUND counts as infected. Thumbnails and
  quarantined copies are not purged.
- *Automations.* Markers are cleared only by ticks that found something newly due
  (`due-soon.scheduler.ts:57`, against the comment at 74). An automation disabled or deleted
  while it runs goes on. `recordRun` swallows whatever rejects (574), so `runCount` can run
  ahead of the recorded successes, and a rejected update of `runCount` writes a failed record
  after the one of the success (223-229): `RunCountTracksSuccess` and `EveryRunRecorded` allow
  one such difference for every write that was rejected or replica that died, and no other.
- *Imports from other trackers.* Running one again duplicates its tasks; two Jira imports at
  once create two projects of one name; the verdict compares with a list of errors that is
  capped, so a large import that failed throughout is called succeeded. A Jira issue's failed
  comments and worklogs are on that list too (`jira-import.service.ts:460`, `485`), so an import
  may be called failed although its tasks were made, which `VerdictMatchesCounts` excuses.
- *Code events.* The claim outlives a failed dispatch, so the repetition is dropped. A delivery
  without `x-github-delivery` is dispatched every time it comes
  (`github-webhook.controller.ts:79`); what `DispatchedOnce` and `LinkedOnce` say of claims is
  about deliveries that have their id. The first link of a pull request is never recognised as
  such (`github-events.service.ts:172`). A task moved to Done by an event gets no completion date.
- *AI.* A Medium that a user chose on a task without a reason cannot be told from the
  default: a job takes the task for one nobody has prioritised and overwrites the choice, well
  before its last look (`ai.processors.ts:401`, `468`). `UserChoiceStands` excuses just that
  choice (`looksNew`) and the one made after the last look (`lateEdit`).
  `ai-cost-tracking.service.ts:126` speaks of a budget gate in the processors; only
  `AiStandupService.synthesize` has one. `POST /ai/users/:id/standup` asks the model and records
  the same kind `standup` without it (`ai-sync.service.ts:457-468`), so the month's sum can pass
  the budget without limit: `OverspentByRequestsInFlight` bounds what goes through the gate,
  `spent - ungated`, and not the sum. A budget of 0 means no cap
  (`ai-standup.service.ts:350`). The change of the month and the other kinds of cost are left
  out. Without a signal the triage writes its reason without a second look.
- *Others.* A field created under a padded name escapes the cycle check. Starting a timer
  ends the running one with 0 seconds. After the long break the Pomodoro timer starts the
  next set, where its comment (25-27) says idle. A patch of one snooze hour can make a window
  empty.

## 6. Proofs

All theorems hold for every value of the constants, from the `ASSUME`s of the modules and the
hypotheses they state. Each safety theorem rests on an inductive invariant; most of the
properties these imply are also checked by a run on a small instance. The recurring hypotheses:

- *A finite set* of standups, handlers or dispatchers, where the property counts the ones
  under way. A bigger cardinality of an infinite set is not a number.
- Requests that race but are *apart*: they are not about the same thing. With two about the
  same thing the property is false, and the violation runs show how. One request at a time is a
  special case (`SerialIsApart`, `OneByOneIsApart`).
  - `NamesApart`: no request takes away a status name that another under way relies on, none puts
    a status into a column being deleted, and a reset is alone.
  - `FlagsApart`: no two requests under way name another initial status.
  - `FamiliesApart`: while a task's status is being changed nobody edits the statuses, adds a
    subtask to it, or changes its status or a subtask's.
  - `Apart` (sprints): no two requests under way move the same task, and while a sprint is being
    completed no other is about it.
- `Plain` (sprints): clients add tasks of the backlog, and the two filters for done tasks mean the
  same statuses, which `sprints_approved` is about.
- `KeepsInitial`: no patch withdraws the initial flag; `KeepsDone`: no patch changes the done
  flag of a status or gives it a preset's name, and a new status under such a name has the
  preset's flag. The code allows a client all of it, and then there is no initial status, or
  tasks with a completion date stand in a status that is not done. The inputs of
  `workflow_serial` keep to both. `FiniteGraphs`: the graphs clients send are finite.
- `TransactionsApart`: no two transactions that redistribute a goal's weights overlap. Two at once
  both read the weights as they were (the database's READ COMMITTED), and what they write need
  not sum to 100.
- `OneWorker`: webhooks are delivered by one worker, and owners do not switch the hook off
  themselves.
- `~RowLocal`: a row's failure lasts for the rest of the request. `imports_row_local` refutes
  the results without it.

**`SchedulerLockProofs`**: `TypeCorrect`, `MutualExclusion`, `LeaseRefinement`. Mutual
exclusion of calls within their TTL is not inductive: nothing in it ties a call to the key.
`OwnerInv` adds that such a call owns the key and that the key's remaining life and the
call's age add up to the TTL, so the key cannot expire before the call's time is over and a
`SET NX` of another call fails. The refinement follows: every step of the lock leaves the
set of holders alone, grants it when empty, or ends it.

**`WorkflowProofs`**
- `WorkflowTyped`, for any number of racing requests: types, foreign keys and what requests
  carry. `TypeOK` is inductive once the initial rows are counted, which is what `EnoughIds`
  assumes: the ids of a preset's rows and of a graph's transitions are there.
- `GrowingWorkflowKeepsTasks`: with any number of racing requests `TasksHaveStatus` holds as
  long as no operation takes a status name out of the table (`KeepsNames`). The strengthening
  says that the names a request has read, and the ones it has validated, are still there. It
  delimits `workflow_delete_race`: only the name-removing operations are to blame.
- `ApartKeepsTasks`: `TasksHaveStatus` under every operation, for racing requests with
  `NamesApart`. `NamesInv` says that names are unique and, for each request, that what it has read
  of the status table and relies on is still so: the count a deletion has made, the target it has
  chosen, the ids it is about to write. `StatusesInv` adds that each task is in a status.
- `ApartIsSound`: `WorkflowSound`, for requests that are also `FlagsApart` and `FamiliesApart`.
  `FlagsInv` says that one row is initial and that a transaction about to name another has found
  it; `SoundInv` that a name of the preset keeps the preset's meaning, without which a
  reset would make dated tasks undone, and that dated tasks stand in done rows.
- `ParentsWait` needs `FamilyInv`: what a status change has read of the task and of its subtasks
  is still so. `GhostsOnlyFromReset` needs `NamesInv` and that the set of transitions stays
  finite, as it compares numbers of transitions.

**`SprintsProofs`**: `OneActiveAlways`, for racing requests: pairwise equality of active
sprints is inductive given the types, `StartWrite` being the only activating step and
guarded by the index; the cardinality follows. `SprintsTyped` adds the foreign keys.
`HistoryIsKept` and `CompletedStaysSealed` are for racing requests that are `Apart`; starts,
deletions, the task endpoints, and any number of additions to one sprint may race. Their
invariant has, besides the property, what each request in flight has read of its tasks and its
sprint that nobody else can have changed, and that a sprint yet to be created has no state.

**`ImportsProofs`**: `ResumeSkipsOnlyTasks`, `SuccessIsComplete`, for any number of rows and
overlapping requests, faults and crashes. The invariant says that the rows up to a request's
`lastSuccessIndex` are tasks, and that until one of its rows has failed the index is the row
before the current one. `NoRowImportedTwice`, as long as requests do not overlap
and the run row can be written: a request in its loop is alone, and no row behind its
`lastSuccessIndex`, or behind the point a failed run is resumed from, is a task yet.
`RowsAreCounted` has the other part of `RowsCounted`, whatever overlaps: the counter and the
requests about to advance it come to no more than the sum of the tasks (`CountInv`).

The module also proves the laws of sums over finite sets it needs (a sum exists, unfolds at any
element, and depends on the values only): a set that breaks one has a least cardinality, and
the law holds for what is left of it without an element. With them come `GoalsTyped`, for
any transactions, and `GoalsAreSound`, for those that are `TransactionsApart`. However the shares
were rounded, the last row takes what is left of 100; the
invariant says that a transaction under way starts from the rows as they are and has weights
that sum to 100 (`TxOK`). The progress is a sum of products; when
all parts stand at 0, or all at 100, that number comes out of it because the weights sum to 100.

**`WebhooksProofs`**: `PostsWithinBudget` accounts for each delivery's posts: attempts used,
the current one once it has posted, and one per dead worker. `OneNoticePerDisable`: the
notices sent and the workers about to send one are together no more than the flips.
`OneWorkerDisablesRightly` delimits `webhooks_stale_flip`: with `OneWorker` a hook is disabled only
by failures that still count. There is one job in hand (`SoleJob`), so no success comes between the
count and the update; an edit that resets the count has read the hook as off, and nobody but the
worker switches it off, so none is under way while the worker is about to (`FlipInv`).

**`AccountsProofs`**
- `AccessTyped`, `ReadingsAgree`: a team that is gone has no members and no grants, because
  the deletion cascades; given that, each list's query and `PermissionsService` compute the
  same roles, which lemmas about `Highest` show for any sets of grants.
- `AccountsTyped`, `AccountsAreSound`: the conditional updates. Between two statements of a
  refresh the whole chain of its token is revoked and no second handler rotates it
  (`ChainInv`); a link that a handler has claimed is used, has signed in nobody and is claimed
  by no other (`LinkInv`); an invitation is live only if it is later than the last sweep of
  its address (`InviteInv`). Any handler may die between any two statements.
- `SchedulesTyped`, `SchedulesAreHonoured`: the scheduled exports. The module instantiates
  `SchedulerLockProofs` for the ticks, so the lock's invariant is a conjunct of this one and
  its steps are not proved again. While no tick has outlived the lock and nobody has stamped
  by hand, `lastRunAt` only grows, is what the running tick has read, and covers the minute
  of every tick that has exported (`LastRunInv`).

**`ServicesProofs`**
- `TimerShowsTimeLeft`: the phase's clock and the seconds worked differ by the pauses only.
- `TriageIsSound`: a task that looks untouched, or that a job is about to write, has no choice
  of a user, unless that came after the last look or left the task looking new (`Unbound`); what
  went through the gate and the cost of every request behind it that is still in flight stay
  within the bound (`BudgetInv`), whatever the other endpoint spends.
- `WorklogTyped`, `TimersStartOver`: one row at most runs, and a stop in flight holds a row
  that began before it read the clock.
- `EventsAreSound`: until the claims expire one handler has the push, if it came with its id
  (`ClaimsInv`, `CommitInv`); without an overlap what a handler has found of the pull request is so
  (`PrInv`); in order, the status is the last event's or the one before it (`OrderInv`).
- `AutomationsTyped`, `AutomationsAreSound`: an event from outside is in the inbox, or an
  automation can still be run for it by one handler, or has been (`CascadeInv`). The account of
  an automation (`AccountInv`) relates the runs begun, recorded, completed and counted to the
  handlers that have one in hand and to the rejections and deaths so far; each step of a
  handler is one of seven entries in it (`AccountStep`).
- `SourceImportsTyped`, `ImportsAreSound`: the reserved blocks of keys are disjoint and below
  the counter; every issue behind a run's position is in one of its counters.
- `SnoozeTyped`, `SnoozeIsHonest`, for a week and a day of any length: a rule that no partial
  patch has written has hours that differ; the rest is arithmetic on the hours of the week, of
  windows within a day, over midnight, and over the end of the week.
- `FormulasTyped`, `FormulasAreSound`, for any fields and racing saves: a save in flight whose
  check is not stale closes no circle (`SaveInv`), and a new circle goes through the field just
  written. What the first and the second pass settle is described field by field, from the least
  one that would differ: two passes settle just the formulas whose chains turn to a later field
  once at most.
- `ExportsTyped`, `CompletedExportsStay`: as long as no worker has died, the job of a completed
  run is done or at its mail, which cannot reject (`ExportGood`).
- `NextRunTyped`, `NextRunsFit`: for any interval, weekdays, day of the month and leap years.
  That `firstOf`, a recursive function over the months, has the values its definition says is
  itself proved, by the least month that would break it; then months follow each other without
  gaps, so that every day is in one month, which `MonthOf` finds.
- `TimerTyped`, `TriageTyped`, `EventsTyped`: the types of the other parts.

**`BackgroundProofs`**
- `AttachmentsTyped`, `FilesStaySound`: `FileInv` orders the confirm, scan and thumbnail jobs
  of a file and says that a stale row is final; `PurgeInv` that what the purge has read is so.
- `RecurrenceTyped`, `RecurrencesAreSound`: a due run is claimed by one tick or has become one
  task, and the rule is past it (`RunsInv`, `SpawnedInv`); numbers that were handed out are
  below the counter (`NumbersInv`).
- `NotificationsTyped`, `NotesDeliveredOnce`: a note is in one place (`PlaceInv`); a bucket has
  one owner from its claim to its delivery, and its items have no row until then (`FlushInv`);
  a job's rows exceed its stalls by one at most (`JobInv`); the items of a bucket and the
  dispatchers about to append to it are within the bound (`SizeInv`).

**Runs of several components**: `LockAndGoalsTyped`, `AccountsAndSchedulesTyped`,
`BackgroundTyped` and `ServicesTyped` are the type invariants of the composed runs as they are
checked. A lemma per composition (`...SideBySide`) shows that a behaviour of it is one of each of
its parts, those that do not move stuttering, so that the parts' theorems apply.

*Only model-checked*: liveness (`LockReaped`, `DeliverySettles`, `RunSettles`, `NoteSettles`,
`FilesSettle` and the part `ExportsSettle` of `ExportsEndOnce`, whose other part is proved),
which is out of the proof system's reach.

## 7. Plan

Done: the lock with its abstract lease, workflow, sprints, webhooks, imports, exports,
accounts, project access, goals, notifications, snooze, recurrence, purge, automations,
attachments, the other importers, code events, triage, formulas, worklog, Pomodoro, and the
proofs of section 6.

Every safety property of the passing runs is proved, and each violation run is delimited by what
makes its property true: `GrowingWorkflowKeepsTasks` and `ApartKeepsTasks` for
`workflow_delete_race`, `OneWorkerDisablesRightly` for `webhooks_stale_flip`, `Plain` for
`sprints_approved`, `~RowLocal` for `imports_row_local`. `goals_weights` needs no race: it
is arithmetic, and a bound on the number of key results that excludes it is not proved. Weaker
hypotheses than being apart are the next thing to look for; and the front end and the
data transformations listed below have no model.

### Not modelled

- *Comments, labels, task templates, saved views, dashboards*, and the profiles of users:
  single-row writes without a protocol.
- *Search, analytics, client portal, import dry run*: queries (which projects they look at is
  in `Access`). *Chat, storage, docs*:
  formatting and input or output. *Realtime*: a broadcast of what was committed. *Snapshots
  and the daily digest mail*: idempotent upserts and mails under the scheduler lock.
- *Within modelled parts*: developer logins, e-mail and chat channels, the transition tables
  of the design and generic presets in `auto-status.service.ts`, the parsing and arithmetic of
  formulas, the mapping of foreign fields.
- *The web application* apart from the Pomodoro timer, and the packages: components, layout,
  types and a generated client. They, the data transfer objects, the queries and the adapters
  are most of the repository's lines; a state machine of them would restate their layout, so
  the models cover the control of the services and a small share of the lines.
