----------------------------- MODULE Attachments -----------------------------
(***************************************************************************)
(* The life of an uploaded file: confirm, virus scan, thumbnails, soft     *)
(* delete and the hourly purge (apps/api/src/modules/attachments,          *)
(* maintenance/maintenance.scheduler.ts, storage/storage.service.ts).      *)
(*                                                                         *)
(* A row in the database, objects in the bucket and jobs in two queues are *)
(* written by separate statements, any of which may fail or be the last of *)
(* its process.                                                            *)
(***************************************************************************)
EXTENDS Naturals

CONSTANTS
    Files,
    ScanAttempts,  \* attempts of a scan or thumbnail job
    MaxMishaps     \* bound: failed statements and dead processes

ASSUME AttachmentsAssumption ==
    ScanAttempts \in Nat \ {0} /\ MaxMishaps \in Nat

VARIABLES
    file,      \* what the scanner answers, and whether the file has a preview
    row,       \* Attachment rows
    object,    \* file -> the object is in the bucket
    quarantine,\* file -> a copy is in the quarantine bucket
    thumbs,    \* file -> its two thumbnail objects are in the bucket
    confirm,   \* confirm calls
    scan,      \* scan jobs
    thumb,     \* thumbnail jobs
    purge,     \* purgeStaleAttachments
    mishaps

attachmentVars == <<file, row, object, quarantine, thumbs, confirm, scan, thumb,
                    purge, mishaps>>

\* A reply that neither ends in OK nor names a signature counts as infected.
Replies == {"OK", "FOUND", "other"}

Jobs == [st: {"none", "waiting", "read", "marked", "put", "done", "failed"},
         tries: 0..ScanAttempts]
NoJob == [st |-> "none", tries |-> 0]
Ended(j) == j.st \in {"none", "done", "failed"}

AttachmentsTypeOK ==
    /\ file \in [Files -> [reply: Replies, media: BOOLEAN]]
    /\ row \in [Files -> [there: BOOLEAN, status: {"pending", "clean", "infected"},
                          deleted: {"no", "yes", "stale"}, thumbKeys: BOOLEAN]]
    /\ object \in [Files -> BOOLEAN] /\ quarantine \in [Files -> BOOLEAN]
    /\ thumbs \in [Files -> BOOLEAN]
    /\ confirm \in [Files -> {"none", "create", "scan", "thumb", "done", "died"}]
    /\ scan \in [Files -> Jobs] /\ thumb \in [Files -> Jobs]
    /\ purge \in [pc: {"idle", "loop", "row"}, todo: SUBSET Files,
                  keys: SUBSET Files, cur: Files \cup {"none"}]
    /\ mishaps \in 0..MaxMishaps

NoPurge == [pc |-> "idle", todo |-> {}, keys |-> {}, cur |-> "none"]

AttachmentsInit ==
    /\ file \in [Files -> [reply: Replies, media: BOOLEAN]]
    /\ row = [f \in Files |-> [there |-> FALSE, status |-> "pending",
                               deleted |-> "no", thumbKeys |-> FALSE]]
    /\ object = [f \in Files |-> FALSE] /\ quarantine = [f \in Files |-> FALSE]
    /\ thumbs = [f \in Files |-> FALSE]
    /\ confirm = [f \in Files |-> "none"]
    /\ scan = [f \in Files |-> NoJob] /\ thumb = [f \in Files |-> NoJob]
    /\ purge = NoPurge /\ mishaps = 0

Mishap == mishaps < MaxMishaps /\ mishaps' = mishaps + 1

----------------------------------------------------------------------------
(* Upload *)

\* The client puts the file under the signed URL, then calls confirm, which
\* checks that the object exists.
Upload(f) ==
    /\ confirm[f] = "none" /\ ~object[f]
    /\ object' = [object EXCEPT ![f] = TRUE]
    /\ confirm' = [confirm EXCEPT ![f] = "create"]
    /\ UNCHANGED <<file, row, quarantine, thumbs, scan, thumb, purge, mishaps>>

ConfirmCreate(f) ==
    /\ confirm[f] = "create"
    /\ row' = [row EXCEPT ![f].there = TRUE]
    /\ confirm' = [confirm EXCEPT ![f] = "scan"]
    /\ UNCHANGED <<file, object, quarantine, thumbs, scan, thumb, purge, mishaps>>

ConfirmScan(f) ==
    /\ confirm[f] = "scan"
    /\ scan' = [scan EXCEPT ![f].st = "waiting"]
    /\ confirm' = [confirm EXCEPT ![f] = IF file[f].media THEN "thumb" ELSE "done"]
    /\ UNCHANGED <<file, row, object, quarantine, thumbs, thumb, purge, mishaps>>

ConfirmThumb(f) ==
    /\ confirm[f] = "thumb"
    /\ thumb' = [thumb EXCEPT ![f].st = "waiting"]
    /\ confirm' = [confirm EXCEPT ![f] = "done"]
    /\ UNCHANGED <<file, row, object, quarantine, thumbs, scan, purge, mishaps>>

\* A statement of confirm throws or its replica dies.  The id of the upload is
\* the key of the row, so a second call cannot take over.
ConfirmDies(f) ==
    /\ confirm[f] \in {"create", "scan", "thumb"} /\ Mishap
    /\ confirm' = [confirm EXCEPT ![f] = "died"]
    /\ UNCHANGED <<file, row, object, quarantine, thumbs, scan, thumb, purge>>

----------------------------------------------------------------------------
(* The scan and thumbnail queues *)

\* Mutant: one attempt too many.
RetryOnceMore(j) == [tries |-> j.tries + 1,
                     st |-> IF j.tries = ScanAttempts THEN "failed" ELSE "waiting"]

\* A job that threw is queued again until its attempts are used up.
Retry(j) == [tries |-> j.tries + 1,
             st |-> IF j.tries + 1 = ScanAttempts THEN "failed" ELSE "waiting"]

\* Mutant: a job that threw is not queued again.
ScanReadOnce(f) ==
    /\ scan[f].st = "waiting"
    /\ scan' = [scan EXCEPT ![f] = IF ~row[f].there THEN [@ EXCEPT !.st = "done"]
                                   ELSE IF object[f] THEN [@ EXCEPT !.st = "read"]
                                   ELSE @]
    /\ UNCHANGED <<file, row, object, quarantine, thumbs, confirm, thumb, purge, mishaps>>

\* The row and the object are read; a missing object throws.
ScanRead(f) ==
    /\ scan[f].st = "waiting"
    /\ scan' = [scan EXCEPT ![f] = IF ~row[f].there THEN [@ EXCEPT !.st = "done"]
                                   ELSE IF object[f] THEN [@ EXCEPT !.st = "read"]
                                   ELSE Retry(@)]
    /\ UNCHANGED <<file, row, object, quarantine, thumbs, confirm, thumb, purge, mishaps>>

\* Mutant: the object is moved before the row says so.
ScanMarkLate(f) ==
    /\ scan[f].st = "read"
    /\ IF file[f].reply = "OK"
       THEN /\ row' = [row EXCEPT ![f].status = "clean"]
            /\ scan' = [scan EXCEPT ![f].st = "done"] /\ UNCHANGED <<object, quarantine>>
       ELSE /\ object' = [object EXCEPT ![f] = FALSE]
            /\ quarantine' = [quarantine EXCEPT ![f] = TRUE]
            /\ scan' = [scan EXCEPT ![f].st = "marked"] /\ UNCHANGED row
    /\ UNCHANGED <<file, thumbs, confirm, thumb, purge, mishaps>>

\* The scanner's reply is written to the row; an infected file is then moved.
ScanMark(f) ==
    /\ scan[f].st = "read"
    /\ IF file[f].reply = "OK"
       THEN /\ row' = [row EXCEPT ![f].status = "clean"]
            /\ scan' = [scan EXCEPT ![f].st = "done"]
       ELSE /\ row' = [row EXCEPT ![f].status = "infected"]
            /\ scan' = [scan EXCEPT ![f].st = "marked"]
    /\ UNCHANGED <<file, object, quarantine, thumbs, confirm, thumb, purge, mishaps>>

\* moveToQuarantine copies, then deletes; either may fail, which is logged.
ScanMove(f, copied, removed) ==
    /\ scan[f].st = "marked" /\ (removed => copied)
    /\ IF removed THEN UNCHANGED mishaps ELSE Mishap
    /\ quarantine' = [quarantine EXCEPT ![f] = @ \/ copied]
    /\ object' = [object EXCEPT ![f] = @ /\ ~removed]
    /\ scan' = [scan EXCEPT ![f].st = "done"]
    /\ UNCHANGED <<file, row, thumbs, confirm, thumb, purge>>

\* The fetch, the scanner or the update throws, or the worker dies.
ScanFails(f) ==
    /\ scan[f].st \in {"waiting", "read", "marked"} /\ Mishap
    /\ scan' = [scan EXCEPT ![f] = Retry(@)]
    /\ UNCHANGED <<file, row, object, quarantine, thumbs, confirm, thumb, purge>>

\* The worker dies once the object is moved: the next attempt finds none.
ScanDiesMoved(f) ==
    /\ scan[f].st = "marked" /\ Mishap
    /\ quarantine' = [quarantine EXCEPT ![f] = TRUE]
    /\ object' = [object EXCEPT ![f] = FALSE]
    /\ scan' = [scan EXCEPT ![f] = Retry(@)]
    /\ UNCHANGED <<file, row, thumbs, confirm, thumb, purge>>

\* Both thumbnails are written to the bucket; an object that cannot be read, or
\* rendered, ends the job without them.
ThumbPut(f) ==
    /\ thumb[f].st = "waiting"
    /\ \/ /\ object[f] /\ row[f].there
          /\ thumbs' = [thumbs EXCEPT ![f] = TRUE]
          /\ thumb' = [thumb EXCEPT ![f].st = "put"]
       \/ /\ thumb' = [thumb EXCEPT ![f].st = "done"]
          /\ UNCHANGED thumbs
    /\ UNCHANGED <<file, row, object, quarantine, confirm, scan, purge, mishaps>>

ThumbRecord(f) ==
    /\ thumb[f].st = "put"
    /\ row' = [row EXCEPT ![f].thumbKeys = TRUE]
    /\ thumb' = [thumb EXCEPT ![f].st = "done"]
    /\ UNCHANGED <<file, object, quarantine, thumbs, confirm, scan, purge, mishaps>>

ThumbFails(f) ==
    /\ thumb[f].st \in {"waiting", "put"} /\ Mishap
    /\ thumb' = [thumb EXCEPT ![f] = Retry(@)]
    /\ UNCHANGED <<file, row, object, quarantine, thumbs, confirm, scan, purge>>

----------------------------------------------------------------------------
(* Deletion *)

SoftDelete(f) ==
    /\ row[f].there /\ row[f].deleted = "no"
    /\ row' = [row EXCEPT ![f].deleted = "yes"]
    /\ UNCHANGED <<file, object, quarantine, thumbs, confirm, scan, thumb, purge, mishaps>>

\* Thirty days pass, by when the jobs of the file have ended.
GoStale(f) ==
    /\ row[f].there /\ row[f].deleted = "yes"
    /\ Ended(scan[f]) /\ Ended(thumb[f]) /\ confirm[f] \in {"done", "died"}
    /\ row' = [row EXCEPT ![f].deleted = "stale"]
    /\ UNCHANGED <<file, object, quarantine, thumbs, confirm, scan, thumb, purge, mishaps>>

Stale == {f \in Files : row[f].there /\ row[f].deleted = "stale"}

PurgeScan ==
    /\ purge.pc = "idle" /\ Stale # {}
    /\ purge' = [NoPurge EXCEPT !.pc = "loop", !.todo = Stale,
                                !.keys = {f \in Stale : row[f].thumbKeys}]
    /\ UNCHANGED <<file, row, object, quarantine, thumbs, confirm, scan, thumb, mishaps>>

AfterRow(f) == IF purge.todo \ {f} = {} THEN NoPurge
               ELSE [purge EXCEPT !.pc = "loop", !.todo = @ \ {f}, !.cur = "none"]

\* Mutant: an object that is not there is an error.
PurgeObjectsStrict(f) ==
    /\ purge.pc = "loop" /\ f \in purge.todo
    /\ IF object[f]
       THEN /\ object' = [object EXCEPT ![f] = FALSE]
            /\ thumbs' = [thumbs EXCEPT ![f] = @ /\ f \notin purge.keys]
            /\ purge' = [purge EXCEPT !.pc = "row", !.cur = f]
       ELSE purge' = AfterRow(f) /\ UNCHANGED <<object, thumbs>>
    /\ UNCHANGED <<file, row, quarantine, confirm, scan, thumb, mishaps>>

\* The object and the thumbnails the row names; deleting what is not there
\* succeeds.
PurgeObjects(f) ==
    /\ purge.pc = "loop" /\ f \in purge.todo
    /\ object' = [object EXCEPT ![f] = FALSE]
    /\ thumbs' = [thumbs EXCEPT ![f] = @ /\ f \notin purge.keys]
    /\ purge' = [purge EXCEPT !.pc = "row", !.cur = f]
    /\ UNCHANGED <<file, row, quarantine, confirm, scan, thumb, mishaps>>

\* Mutant: the row is dropped although storage has failed.
PurgeObjectsFailOnward(f) ==
    /\ purge.pc = "loop" /\ f \in purge.todo /\ Mishap
    /\ purge' = [purge EXCEPT !.pc = "row", !.cur = f]
    /\ UNCHANGED <<file, row, object, quarantine, thumbs, confirm, scan, thumb>>

\* One of the deletes fails: the others may have happened, the row stays.
PurgeObjectsFail(f) ==
    /\ purge.pc = "loop" /\ f \in purge.todo /\ Mishap
    /\ \E gone \in BOOLEAN :
         /\ object' = [object EXCEPT ![f] = @ /\ ~gone]
         /\ thumbs' = [thumbs EXCEPT ![f] = @ /\ (gone \/ f \notin purge.keys)]
    /\ purge' = AfterRow(f)
    /\ UNCHANGED <<file, row, quarantine, confirm, scan, thumb>>

PurgeRow ==
    LET f == purge.cur IN
    /\ purge.pc = "row"
    /\ row' = [row EXCEPT ![f].there = FALSE]
    /\ purge' = AfterRow(f)
    /\ UNCHANGED <<file, object, quarantine, thumbs, confirm, scan, thumb, mishaps>>

\* The delete of the row throws, or the replica dies.
PurgeFails ==
    /\ purge.pc # "idle" /\ Mishap
    /\ purge' = IF purge.pc = "row" THEN AfterRow(purge.cur) ELSE NoPurge
    /\ UNCHANGED <<file, row, object, quarantine, thumbs, confirm, scan, thumb>>

ScanStep(f) == ScanRead(f) \/ ScanMark(f) \/ ScanMove(f, TRUE, TRUE)
PurgeStep == PurgeScan \/ PurgeRow \/ \E f \in Files : PurgeObjects(f)

AttachmentsNext ==
    \/ \E f \in Files :
         \/ Upload(f) \/ ConfirmCreate(f) \/ ConfirmScan(f) \/ ConfirmThumb(f)
         \/ ConfirmDies(f)
         \/ ScanStep(f) \/ ScanFails(f) \/ ScanDiesMoved(f)
         \/ \E copied \in BOOLEAN : ScanMove(f, copied, FALSE)
         \/ ThumbPut(f) \/ ThumbRecord(f) \/ ThumbFails(f)
         \/ SoftDelete(f) \/ GoStale(f) \/ PurgeObjectsFail(f)
    \/ PurgeStep \/ PurgeFails

AttachmentsSpec == AttachmentsInit /\ [][AttachmentsNext]_attachmentVars

\* Workers take waiting jobs and the hourly tick runs.
AttachmentsFairness ==
    /\ \A f \in Files : WF_attachmentVars(ScanStep(f))
    /\ WF_attachmentVars(PurgeStep)

----------------------------------------------------------------------------
(* Properties *)

\* getDownloadUrl hands out a URL for any row that is neither deleted nor
\* infected, and there is an object behind it.
ServedHasObject ==
    \A f \in Files :
        row[f].there /\ row[f].deleted = "no" /\ row[f].status # "infected"
            => object[f]

\* The row outlives the objects it names: a purge that fails half-way, or dies,
\* leaves the row to find them by.
RowOutlivesObjects ==
    \A f \in Files :
        confirm[f] \in {"done", "died"} /\ ~row[f].there /\ row[f].deleted = "stale"
            => ~object[f] /\ (thumbs[f] => ~row[f].thumbKeys)

\* Every queued scan ends with a verdict or with its attempts used up.
ScanSettles == \A f \in Files : []<>Ended(scan[f])

\* Every stale attachment is purged in the end, whether its object is still in
\* the bucket, quarantined or already gone.
StalePurged == []<>(Stale = {})

\* Rows and objects stay together: no download without its object, and no
\* object without the row to find it by.
FilesSound == ServedHasObject /\ RowOutlivesObjects

\* The two background jobs get done: every scan ends, and every stale
\* attachment goes.
FilesSettle == ScanSettles /\ StalePurged
=============================================================================
