--------------------------- MODULE Notifications ---------------------------
(***************************************************************************)
(* From a domain event to the rows in a user's bell                        *)
(* (apps/api/src/modules/notifications): NotificationDispatcherService,    *)
(* NotificationProcessor, NotificationDigestService and DigestSinkService. *)
(* Mutes and do-not-disturb windows (SnoozeRules) enter as `quiet`.        *)
(*                                                                         *)
(* A note is one event for one recipient.  The dispatcher walks the        *)
(* recipients of an event one after the other; several events are          *)
(* dispatched at the same time and a digest tick may run beside them, or   *)
(* beside another tick whose lock has run out.  Each awaited statement is  *)
(* one action.  Digest items, events in memory and handlers die with the   *)
(* replica; queued jobs do not.                                            *)
(***************************************************************************)
EXTENDS Naturals, FiniteSets

CONSTANTS
    Users,
    MaxEvents,    \* bound: events, numbered in the order they arrive
    Workloads,    \* assignments of recipients to events to be checked
    MaxBuckets,   \* bound: digest rows, no fewer than the notes of a workload
    Dispatchers,  \* dispatch calls that can run at the same time
    Flushers,     \* digest ticks that can run at the same time
    FlushAt,      \* MAX_ITEMS_BEFORE_FLUSH
    Cap,          \* MAX_ITEMS_CAP
    Attempts,     \* attempts of a delivery job
    Stalls,       \* bound BullMQ puts on how often a job may stall
    MaxFaults     \* bound: crashes, failed statements and changed settings

Events == 1..MaxEvents

ASSUME WorkloadsAssumption == Workloads \subseteq [Events -> SUBSET Users]
ASSUME LimitsAssumption ==
    /\ FlushAt \in Nat \ {0} /\ Cap \in Nat /\ FlushAt <= Cap
    /\ Attempts \in Nat \ {0} /\ Stalls \in Nat
    /\ MaxBuckets \in Nat /\ MaxFaults \in Nat /\ MaxEvents \in Nat
ASSUME DispatchersAssumption == IsFiniteSet(Dispatchers)

Notes == Events \X Users
Workers == Dispatchers \cup Flushers
BucketIds == 1..MaxBuckets

VARIABLES
    audience, \* what RecipientResolverService returns for each event
    digestOn, \* User.digestEnabled
    quiet,    \* the user has muted the entity, or is inside a DND window
    slot,     \* what each dispatch or tick is doing
    route,    \* history: what became of each note
    nextB,    \* the number of the next NotificationDigest row
    bucket,   \* NotificationDigest rows
    ready,    \* digest_ready events the sink has not handled
    job,      \* BullMQ delivery jobs
    rows,     \* Notification rows per note
    faults

vars == <<audience, digestOn, quiet, slot, route, nextB, bucket, ready, job, rows,
          faults>>

Routes == {"none", "dropped", "batched", "queued", "lost"}

Slot == [pc: {"idle", "next", "digest", "find", "append", "create",
              "claim", "emit", "enqueue"},
         event: {0} \cup Events,
         todo: SUBSET Users,           \* recipients still to be handled
         user: Users \cup {"none"},
         b: {0} \cup BucketIds,        \* the bucket read, appended to or flushed
         len: Nat,                     \* its length when it was read
         then: {"next", "create"},     \* what follows an inline flush
         due: SUBSET BucketIds]        \* the rows a tick has still to flush

Idle == [pc |-> "idle", event |-> 0, todo |-> {}, user |-> "none",
         b |-> 0, len |-> 0, then |-> "next", due |-> {}]

Bucket == [user: Users \cup {"none"}, items: SUBSET Notes, sent: BOOLEAN,
           aged: BOOLEAN]

Job == [st: {"none", "waiting", "written", "done", "failed"},
        tries: 0..Attempts, stalls: Nat]

TypeOK ==
    /\ audience \in Workloads
    /\ digestOn \in [Users -> BOOLEAN] /\ quiet \in [Users -> BOOLEAN]
    /\ slot \in [Workers -> Slot]
    /\ route \in [Notes -> Routes]
    /\ nextB \in 1..(MaxBuckets + 1)
    /\ bucket \in [BucketIds -> Bucket]
    /\ ready \subseteq BucketIds
    /\ job \in [Notes -> Job]
    /\ rows \in [Notes -> Nat]
    /\ faults \in 0..MaxFaults

\* The settings of the other users do not matter and stay as they are.
Addressed == {u \in Users : \E e \in Events : u \in audience[e]}

Init ==
    /\ audience \in Workloads
    /\ digestOn \in [Users -> BOOLEAN]
    /\ \A u \in Users : digestOn[u] => u \in Addressed
    /\ quiet = [u \in Users |-> FALSE]
    /\ slot = [w \in Workers |-> Idle]
    /\ route = [n \in Notes |-> "none"]
    /\ nextB = 1
    /\ bucket = [b \in BucketIds |->
                   [user |-> "none", items |-> {}, sent |-> FALSE, aged |-> FALSE]]
    /\ ready = {}
    /\ job = [n \in Notes |-> [st |-> "none", tries |-> 0, stalls |-> 0]]
    /\ rows = [n \in Notes |-> 0]
    /\ faults = 0

Goto(w, step) == slot' = [slot EXCEPT ![w].pc = step]

\* A worker between two recipients or two buckets; with none left it is idle.
Rest(w, todo) ==
    IF todo = {} /\ slot[w].due = {} THEN Idle
    ELSE [Idle EXCEPT !.pc = "next", !.event = slot[w].event, !.todo = todo,
                      !.due = slot[w].due]
Proceed(w) == slot' = [slot EXCEPT ![w] = Rest(w, slot[w].todo)]

\* After flushOne: the hard-cap branch creates a bucket, everyone else moves on.
AfterFlush(w) == IF slot[w].then = "create" THEN Goto(w, "create") ELSE Proceed(w)
NoteOf(w) == <<slot[w].event, slot[w].user>>
Routed(n, r) == route' = [route EXCEPT ![n] = r]
InStep(w, step) == slot[w].pc = step

\* The oldest NotificationDigest row of u that is not sent.
Open(u) == {b \in 1..(nextB - 1) : bucket[b].user = u /\ ~bucket[b].sent}
Oldest(S) == CHOOSE b \in S : \A c \in S : b <= c

----------------------------------------------------------------------------
(* Dispatch *)

Taken(e) ==
    \/ \E w \in Workers : slot[w].event = e
    \/ \E u \in audience[e] : route[<<e, u>>] # "none"

\* An event reaches the dispatcher, which resolves the recipients.
Dispatch(d, e) ==
    /\ slot[d] = Idle
    /\ audience[e] # {} /\ ~Taken(e)
    /\ \A f \in 1..(e - 1) : audience[f] # {} => Taken(f)
    /\ slot' = [slot EXCEPT ![d] = [Idle EXCEPT !.pc = "next", !.event = e,
                                                !.todo = audience[e]]]
    /\ UNCHANGED <<audience, digestOn, quiet, route, nextB, bucket, ready, job, rows,
                   faults>>

\* The next recipient of the event; a muted entity or an active DND window
\* drops the note.
MuteCheck(d, u) ==
    /\ InStep(d, "next") /\ u \in slot[d].todo
    /\ IF quiet[u]
       THEN /\ slot' = [slot EXCEPT ![d] = Rest(d, slot[d].todo \ {u})]
            /\ Routed(<<slot[d].event, u>>, "dropped")
       ELSE /\ slot' = [slot EXCEPT ![d].pc = "digest", ![d].user = u,
                                    ![d].todo = @ \ {u}]
            /\ UNCHANGED route
    /\ UNCHANGED <<audience, digestOn, quiet, nextB, bucket, ready, job, rows, faults>>

\* enqueueOrBatch reads digestEnabled; without it the note goes to the queue.
ReadDigestMode(d) ==
    /\ InStep(d, "digest")
    /\ Goto(d, IF digestOn[slot[d].user] THEN "find" ELSE "enqueue")
    /\ UNCHANGED <<audience, digestOn, quiet, route, nextB, bucket, ready, job, rows,
                   faults>>

Enqueue(d) ==
    /\ InStep(d, "enqueue")
    /\ job' = [job EXCEPT ![NoteOf(d)].st = "waiting"]
    /\ Routed(NoteOf(d), "queued")
    /\ Proceed(d)
    /\ UNCHANGED <<audience, digestOn, quiet, nextB, bucket, ready, rows, faults>>

----------------------------------------------------------------------------
(* The digest bucket *)

\* Mutant: without the hard cap.
FindOpenUncapped(d) ==
    LET open == Open(slot[d].user) IN
    /\ InStep(d, "find")
    /\ slot' = [slot EXCEPT ![d] =
         IF open = {} THEN [@ EXCEPT !.pc = "create"]
         ELSE LET b == Oldest(open) IN
              [@ EXCEPT !.pc = "append", !.b = b,
                        !.len = Cardinality(bucket[b].items)]]
    /\ UNCHANGED <<audience, digestOn, quiet, route, nextB, bucket, ready, job, rows,
                   faults>>

\* findFirst: the oldest open bucket and the items it holds now.
FindOpen(d) ==
    LET open == Open(slot[d].user) IN
    /\ InStep(d, "find")
    /\ slot' = [slot EXCEPT ![d] =
         IF open = {} THEN [@ EXCEPT !.pc = "create"]
         ELSE LET b == Oldest(open)  len == Cardinality(bucket[b].items) IN
              IF len >= Cap
              THEN [@ EXCEPT !.pc = "claim", !.b = b, !.len = len, !.then = "create"]
              ELSE [@ EXCEPT !.pc = "append", !.b = b, !.len = len]]
    /\ UNCHANGED <<audience, digestOn, quiet, route, nextB, bucket, ready, job, rows,
                   faults>>

\* Mutant: the number of rows the append changed is not looked at.
AppendIgnoresCount(d) ==
    LET b == slot[d].b IN
    /\ InStep(d, "append")
    /\ bucket' = IF bucket[b].sent THEN bucket
                 ELSE [bucket EXCEPT ![b].items = @ \cup {NoteOf(d)}]
    /\ Routed(NoteOf(d), "batched")
    /\ IF slot[d].len + 1 >= FlushAt THEN Goto(d, "claim") ELSE Proceed(d)
    /\ UNCHANGED <<audience, digestOn, quiet, nextB, ready, job, rows, faults>>

\* The JSONB append, conditional on the bucket being unsent.  The length it
\* goes by is the one that was read.
Append(d) ==
    LET b == slot[d].b IN
    /\ InStep(d, "append")
    /\ IF bucket[b].sent
       THEN Goto(d, "create") /\ UNCHANGED <<bucket, route>>
       ELSE /\ bucket' = [bucket EXCEPT ![b].items = @ \cup {NoteOf(d)}]
            /\ Routed(NoteOf(d), "batched")
            /\ IF slot[d].len + 1 >= FlushAt THEN Goto(d, "claim") ELSE Proceed(d)
    /\ UNCHANGED <<audience, digestOn, quiet, nextB, ready, job, rows, faults>>

\* A fresh bucket with this one item.  Only the hard-cap branch returns without
\* looking at the trip-wire.
Create(d) ==
    /\ InStep(d, "create")
    /\ nextB \in BucketIds
    /\ bucket' = [bucket EXCEPT ![nextB] =
                    [user |-> slot[d].user, items |-> {NoteOf(d)},
                     sent |-> FALSE, aged |-> FALSE]]
    /\ nextB' = nextB + 1
    /\ Routed(NoteOf(d), "batched")
    /\ IF slot[d].then = "next" /\ 1 >= FlushAt
       THEN slot' = [slot EXCEPT ![d].b = nextB, ![d].pc = "claim"]
       ELSE Proceed(d)
    /\ UNCHANGED <<audience, digestOn, quiet, ready, job, rows, faults>>

\* The cutoff of five minutes passes for a bucket.
Age(b) ==
    /\ b < nextB /\ ~bucket[b].aged /\ ~bucket[b].sent
    /\ bucket' = [bucket EXCEPT ![b].aged = TRUE]
    /\ UNCHANGED <<audience, digestOn, quiet, slot, route, nextB, ready, job, rows,
                   faults>>

\* Mutant: the tick takes full buckets only.
TickFullOnly(f) ==
    LET due == {b \in 1..(nextB - 1) : /\ ~bucket[b].sent /\ bucket[b].aged
                                       /\ Cardinality(bucket[b].items) >= FlushAt} IN
    /\ slot[f] = Idle /\ due # {}
    /\ slot' = [slot EXCEPT ![f] = [Idle EXCEPT !.pc = "next", !.due = due]]
    /\ UNCHANGED <<audience, digestOn, quiet, route, nextB, bucket, ready, job, rows,
                   faults>>

\* tick: the unsent buckets past the cutoff, then flushOne for each.
Tick(f) ==
    LET due == {b \in 1..(nextB - 1) : ~bucket[b].sent /\ bucket[b].aged} IN
    /\ slot[f] = Idle /\ due # {}
    /\ slot' = [slot EXCEPT ![f] = [Idle EXCEPT !.pc = "next", !.due = due]]
    /\ UNCHANGED <<audience, digestOn, quiet, route, nextB, bucket, ready, job, rows,
                   faults>>

TickRow(f, b) ==
    /\ InStep(f, "next") /\ b \in slot[f].due
    /\ slot' = [slot EXCEPT ![f].pc = "claim", ![f].b = b, ![f].due = @ \ {b}]
    /\ UNCHANGED <<audience, digestOn, quiet, route, nextB, bucket, ready, job, rows,
                   faults>>

\* Mutant: sentAt is stamped by id alone.
FlushUnconditional(w) ==
    /\ InStep(w, "claim")
    /\ bucket' = [bucket EXCEPT ![slot[w].b].sent = TRUE]
    /\ Goto(w, "emit")
    /\ UNCHANGED <<audience, digestOn, quiet, route, nextB, ready, job, rows, faults>>

\* flushOne: the conditional update that makes one flusher the owner ...
FlushClaim(w) ==
    LET b == slot[w].b IN
    /\ InStep(w, "claim")
    /\ IF bucket[b].sent
       THEN AfterFlush(w) /\ UNCHANGED bucket
       ELSE /\ bucket' = [bucket EXCEPT ![b].sent = TRUE]
            /\ Goto(w, "emit")
    /\ UNCHANGED <<audience, digestOn, quiet, route, nextB, ready, job, rows, faults>>

\* ... which reads the row again and emits digest_ready.
FlushEmit(w) ==
    /\ InStep(w, "emit")
    /\ ready' = ready \cup {slot[w].b}
    /\ AfterFlush(w)
    /\ UNCHANGED <<audience, digestOn, quiet, route, nextB, bucket, job, rows, faults>>

\* DigestSinkService.deliver: one row per item.
Deliver(b) ==
    /\ b \in ready
    /\ rows' = [n \in Notes |-> IF n \in bucket[b].items THEN rows[n] + 1
                                                         ELSE rows[n]]
    /\ ready' = ready \ {b}
    /\ UNCHANGED <<audience, digestOn, quiet, slot, route, nextB, bucket, job, faults>>

----------------------------------------------------------------------------
(* The delivery queue *)

\* NotificationProcessor.process: the in-app channel is always on.
JobWrite(n) ==
    /\ job[n].st = "waiting"
    /\ rows' = [rows EXCEPT ![n] = @ + 1]
    /\ job' = [job EXCEPT ![n].st = "written"]
    /\ UNCHANGED <<audience, digestOn, quiet, slot, route, nextB, bucket, ready, faults>>

JobAck(n) ==
    /\ job[n].st = "written"
    /\ job' = [job EXCEPT ![n].st = "done"]
    /\ UNCHANGED <<audience, digestOn, quiet, slot, route, nextB, bucket, ready, rows,
                   faults>>

----------------------------------------------------------------------------
(* Faults and settings *)

Lose(gone) == route' = [n \in Notes |-> IF n \in gone THEN "lost" ELSE route[n]]

Fault == faults < MaxFaults /\ faults' = faults + 1

\* The insert fails: BullMQ tries again until the attempts are used up.
JobFail(n) ==
    /\ Fault /\ job[n].st = "waiting"
    /\ job' = [job EXCEPT ![n].tries = @ + 1,
                 ![n].st = IF job[n].tries + 1 = Attempts THEN "failed"
                                                          ELSE "waiting"]
    /\ UNCHANGED <<audience, digestOn, quiet, slot, route, nextB, bucket, ready, rows>>

\* Mutant: a stalled job is parked where no worker looks.
JobStallParks(n) ==
    /\ Fault /\ job[n].st \in {"waiting", "written"}
    /\ job' = [job EXCEPT ![n].stalls = @ + 1, ![n].st = "stalled"]
    /\ UNCHANGED <<audience, digestOn, quiet, slot, route, nextB, bucket, ready, rows>>

\* The worker dies with the job: it is stalled and handed out again.
JobStall(n) ==
    /\ Fault /\ job[n].st \in {"waiting", "written"}
    /\ job' = [job EXCEPT ![n].stalls = @ + 1,
                 ![n].st = IF job[n].stalls = Stalls THEN "failed" ELSE "waiting"]
    /\ UNCHANGED <<audience, digestOn, quiet, slot, route, nextB, bucket, ready, rows>>

\* The claim of an inline or a tick flush fails, or the read after it, which
\* leaves the claimed items undelivered; both callers log and go on.
FlushError(w) ==
    /\ Fault /\ slot[w].pc \in {"claim", "emit"}
    /\ AfterFlush(w)
    /\ IF InStep(w, "emit") THEN Lose(bucket[slot[w].b].items) ELSE UNCHANGED route
    /\ UNCHANGED <<audience, digestOn, quiet, nextB, bucket, ready, job, rows>>

\* A dispatch or a tick ends early: the replica dies, or a statement outside
\* the flush throws.  The notes it has not routed are lost, and so are the
\* items of a bucket it had claimed and not yet emitted.
Die(w) ==
    LET s == slot[w]
        gone == {<<s.event, u>> : u \in s.todo}
                  \cup (IF s.pc \in {"digest", "find", "append", "create",
                                     "enqueue"}
                           \/ (s.pc \in {"claim", "emit"} /\ s.then = "create")
                        THEN {NoteOf(w)} ELSE {})
                  \cup (IF s.pc = "emit" THEN bucket[s.b].items ELSE {})
    IN
    /\ Fault /\ s.pc # "idle"
    /\ Lose(gone)
    /\ slot' = [slot EXCEPT ![w] = Idle]
    /\ UNCHANGED <<audience, digestOn, quiet, nextB, bucket, ready, job, rows>>

\* The insert of the sink fails and is only logged, or its replica dies.
DeliverFails(b) ==
    /\ Fault /\ b \in ready
    /\ ready' = ready \ {b}
    /\ Lose(bucket[b].items)
    /\ UNCHANGED <<audience, digestOn, quiet, slot, nextB, bucket, job, rows>>

Toggle(u) ==
    /\ Fault
    /\ \/ digestOn' = [digestOn EXCEPT ![u] = ~@] /\ UNCHANGED quiet
       \/ quiet' = [quiet EXCEPT ![u] = ~@] /\ UNCHANGED digestOn
    /\ UNCHANGED <<audience, slot, route, nextB, bucket, ready, job, rows>>

----------------------------------------------------------------------------

DispatchStep(d) ==
    \/ \E u \in Users : MuteCheck(d, u)
    \/ ReadDigestMode(d) \/ Enqueue(d)
    \/ FindOpen(d) \/ Append(d) \/ Create(d)

FlushStep(w) == FlushClaim(w) \/ FlushEmit(w)

TickStep(f) == Tick(f) \/ \E b \in BucketIds : TickRow(f, b)

Next ==
    \/ \E d \in Dispatchers : DispatchStep(d) \/ \E e \in Events : Dispatch(d, e)
    \/ \E f \in Flushers : TickStep(f)
    \/ \E w \in Workers : FlushStep(w) \/ FlushError(w) \/ Die(w)
    \/ \E b \in BucketIds : Age(b) \/ Deliver(b) \/ DeliverFails(b)
    \/ \E n \in Notes : JobWrite(n) \/ JobAck(n) \/ JobFail(n) \/ JobStall(n)
    \/ \E u \in Addressed : Toggle(u)

\* Handlers run on, the timer fires every minute, the cutoff passes, the sink
\* and the queue's workers take what is there.
Fairness ==
    /\ \A d \in Dispatchers : WF_vars(DispatchStep(d) \/ FlushStep(d))
    /\ \A f \in Flushers : WF_vars(TickStep(f) \/ FlushStep(f))
    /\ WF_vars(\E b \in BucketIds : Age(b))
    /\ WF_vars(\E b \in BucketIds : Deliver(b))
    /\ WF_vars(\E n \in Notes : JobWrite(n) \/ JobAck(n))

Spec == Init /\ [][Next]_vars /\ Fairness

----------------------------------------------------------------------------
(* Properties *)

\* A batched note is in exactly one bucket, whichever dispatches and flushes
\* raced for it: an append that lost to a flush starts a new bucket.
BatchedOnce ==
    \A n \in Notes : route[n] = "batched" =>
        Cardinality({b \in BucketIds : n \in bucket[b].items}) = 1

\* A note gets at most one row, and one more for each time its delivery job
\* stalled: a digest bucket is delivered once even when an inline flush and a
\* tick, or two ticks, take it at the same moment.
RowsBounded == \A n \in Notes : rows[n] <= 1 + job[n].stalls

\* A bucket outgrows the hard cap by no more than the dispatches that read it
\* before it was full, even when the inline flushes fail.
BucketBounded ==
    \A b \in BucketIds :
        Cardinality(bucket[b].items) <= Cap + Cardinality(Dispatchers) - 1

Unsettled(n) ==
    /\ route[n] \in {"batched", "queued"}
    /\ rows[n] = 0 /\ job[n].st # "failed"

\* Every note handed to a digest or to the queue gets its row, is lost with a
\* replica or a failed insert, or is given up by the queue: no bucket stays
\* open for ever, whichever flush failed or lost its race.
NoteSettles == []<>(\A n \in Notes : ~Unsettled(n))

\* A note is in one bucket, in one row, and in a bucket of bounded size.
NotesOnce == BatchedOnce /\ RowsBounded /\ BucketBounded
=============================================================================
