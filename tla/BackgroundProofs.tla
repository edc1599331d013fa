-------------------------- MODULE BackgroundProofs --------------------------
(***************************************************************************)
(* Proofs about the work that goes on behind the requests: attachments and *)
(* their scan and purge, recurring tasks, the purge of archived projects,  *)
(* notifications and their digest; and about the three side by side.       *)
(***************************************************************************)
EXTENDS MCBackground, Integers, FiniteSetTheorems, WellFoundedInduction, TLAPS

LowerNumber == {p \in Nat \X Nat : p[1] < p[2]}

\* Numbers have a least one.
LEMMA LeastNumber ==
  ASSUME NEW S \in SUBSET Nat, S # {}
  PROVE  \E x \in S : \A y \in S : x <= y
<1>1. IsWellFoundedOn(LowerNumber, Nat)
  BY NatLessThanWellFounded DEF OpToRel, LowerNumber
<1>2. PICK x \in S : \A y \in S : <<y, x>> \notin LowerNumber
  BY <1>1, WFMin
<1>3. ASSUME NEW y \in S PROVE x <= y
  <2>1. y < x => <<y, x>> \in LowerNumber
    BY DEF LowerNumber
  <2> QED
    BY <1>2, <2>1
<1> QED
  BY <1>3

-----------------------------------------------------------------------------
(* Attachments *)

AttRow == [there: BOOLEAN, status: {"pending", "clean", "infected"},
           deleted: {"no", "yes", "stale"}, thumbKeys: BOOLEAN]

\* A job that may still be tried has attempts left.
TriesLeft(j) == j.st # "failed" => j.tries < ScanAttempts

\* What the row, the objects and the jobs of one file have to do with each
\* other.  A stale row is final: nothing that could touch the objects is left
\* but the purge.
FileInv(f) ==
    /\ confirm[f] \in {"none", "create"} => ~row[f].there /\ row[f].deleted = "no"
    /\ confirm[f] \in {"none", "create", "scan"} => scan[f].st = "none"
    /\ confirm[f] \in {"none", "create", "scan", "thumb"} => thumb[f].st = "none"
    /\ confirm[f] = "create" => object[f]
    /\ row[f].status = "infected" => file[f].reply # "OK"
    /\ scan[f].st = "marked" => row[f].status = "infected"
    /\ row[f].deleted = "stale" =>
          Ended(scan[f]) /\ Ended(thumb[f]) /\ confirm[f] \in {"done", "died"}
    /\ row[f].deleted # "stale" /\ confirm[f] \notin {"none", "create", "died"} => row[f].there
    /\ row[f].there /\ row[f].deleted = "no" /\ row[f].status # "infected" => object[f]
    /\ ~row[f].there /\ row[f].deleted = "stale" => ~object[f] /\ (thumbs[f] => ~row[f].thumbKeys)
    /\ TriesLeft(scan[f]) /\ TriesLeft(thumb[f])

\* What a running purge goes by is still so: its files are stale, it knows the
\* thumbnails they name, and it deletes a row when the objects are gone.
PurgeInv ==
    /\ purge.pc \in {"loop", "row"} =>
          \A f \in purge.todo : /\ row[f].deleted = "stale"
                                /\ (row[f].thumbKeys => f \in purge.keys)
    /\ purge.pc = "row" =>
          /\ purge.cur \in purge.todo
          /\ ~object[purge.cur] /\ (thumbs[purge.cur] => purge.cur \notin purge.keys)

AttachmentsIInv == AttachmentsTypeOK /\ (\A f \in Files : FileInv(f)) /\ PurgeInv

\* A job that failed is tried again or given up.
LEMMA RetryTyped ==
  ASSUME NEW j \in Jobs, TriesLeft(j), j.st # "failed"
  PROVE  Retry(j) \in Jobs /\ TriesLeft(Retry(j)) /\ Retry(j).st \in {"failed", "waiting"}
  BY AttachmentsAssumption DEF Jobs, Retry, TriesLeft

\* A job goes on to its next step.
LEMMA JobMoved ==
  ASSUME NEW j \in Jobs, NEW s \in {"none", "waiting", "read", "marked", "put", "done"}, TriesLeft(j),
         j.st # "failed"
  PROVE  [j EXCEPT !.st = s] \in Jobs /\ TriesLeft([j EXCEPT !.st = s]) /\ [j EXCEPT !.st = s].st = s
  BY DEF Jobs, TriesLeft

\* A row keeps its type when one field changes.
LEMMA RowChanged ==
  ASSUME NEW r \in AttRow
  PROVE  /\ \A b \in BOOLEAN : [r EXCEPT !.there = b] \in AttRow /\ [r EXCEPT !.thumbKeys = b] \in AttRow
         /\ \A s \in {"pending", "clean", "infected"} : [r EXCEPT !.status = s] \in AttRow
         /\ \A d \in {"no", "yes", "stale"} : [r EXCEPT !.deleted = d] \in AttRow
  BY DEF AttRow

\* All that is recorded of a file stays as it is.
FileSame(f) ==
    /\ file'[f] = file[f] /\ row'[f] = row[f] /\ object'[f] = object[f] /\ thumbs'[f] = thumbs[f]
    /\ confirm'[f] = confirm[f] /\ scan'[f] = scan[f] /\ thumb'[f] = thumb[f]

\* A file no step touches keeps its invariant.
LEMMA FileKept ==
  ASSUME NEW f \in Files, FileInv(f), FileSame(f)
  PROVE  FileInv(f)'
  BY DEF FileInv, FileSame, Ended, TriesLeft

\* A purge is not disturbed by what happens to files that are not stale, or to
\* the status of those that are.
PurgeUnmoved(f) ==
    /\ purge' = purge
    /\ row'[f].deleted = row[f].deleted \/ row[f].deleted # "stale"
    /\ row[f].deleted = "stale" =>
          row'[f].thumbKeys = row[f].thumbKeys /\ object'[f] = object[f] /\ thumbs'[f] = thumbs[f]

\* The purge is as it was when another file moves.
LEMMA PurgeKept ==
  ASSUME AttachmentsIInv, NEW f \in Files, PurgeUnmoved(f),
         \A g \in Files : g # f => FileSame(g)
  PROVE  PurgeInv'
<1>1. purge.todo \subseteq Files
  BY DEF AttachmentsIInv, AttachmentsTypeOK
<1>2. \A g \in Files : row[g].deleted = "stale" =>
          /\ row'[g].deleted = "stale" /\ row'[g].thumbKeys = row[g].thumbKeys
          /\ object'[g] = object[g] /\ thumbs'[g] = thumbs[g]
  BY DEF PurgeUnmoved, FileSame
<1> QED
  BY <1>1, <1>2 DEF PurgeInv, AttachmentsIInv, PurgeUnmoved

\* A step of one file, which leaves the purge alone.
LEMMA OneFileStep ==
  ASSUME AttachmentsIInv, NEW f \in Files, AttachmentsTypeOK',
         \A g \in Files : g # f => FileSame(g), FileInv(f)', PurgeUnmoved(f)
  PROVE  AttachmentsIInv'
<1>1. \A g \in Files : FileInv(g)'
  BY FileKept DEF AttachmentsIInv
<1>2. PurgeInv'
  BY PurgeKept
<1> QED
  BY <1>1, <1>2 DEF AttachmentsIInv

\* The rows as the invariant types them.
LEMMA AttachmentsTypes ==
  ASSUME AttachmentsIInv
  PROVE  /\ file \in [Files -> [reply: Replies, media: BOOLEAN]]
         /\ row \in [Files -> AttRow]
         /\ object \in [Files -> BOOLEAN] /\ quarantine \in [Files -> BOOLEAN]
         /\ thumbs \in [Files -> BOOLEAN]
         /\ confirm \in [Files -> {"none", "create", "scan", "thumb", "done", "died"}]
         /\ scan \in [Files -> Jobs] /\ thumb \in [Files -> Jobs]
         /\ purge \in [pc: {"idle", "loop", "row"}, todo: SUBSET Files,
                       keys: SUBSET Files, cur: Files \cup {"none"}]
         /\ mishaps \in 0..MaxMishaps /\ MaxMishaps \in Nat
         /\ \A f \in Files : FileInv(f)
         /\ PurgeInv
  BY AttachmentsAssumption DEF AttachmentsIInv, AttachmentsTypeOK, AttRow

\* The count of mishaps stays within its bound.
LEMMA MishapTyped ==
  ASSUME mishaps \in 0..MaxMishaps, MaxMishaps \in Nat, Mishap
  PROVE  mishaps' \in 0..MaxMishaps
  BY DEF Mishap

\* Steps of the upload.
LEMMA UploadSteps ==
  ASSUME AttachmentsIInv, NEW f \in Files,
         \/ Upload(f) \/ ConfirmCreate(f) \/ ConfirmScan(f) \/ ConfirmThumb(f) \/ ConfirmDies(f)
  PROVE  AttachmentsIInv'
<1> USE AttachmentsTypes
<1>1. CASE Upload(f)
  <2>1. AttachmentsTypeOK'
    BY <1>1 DEF Upload, AttachmentsTypeOK, AttRow
  <2>2. \A g \in Files : g # f => FileSame(g)
    BY <1>1 DEF Upload, FileSame
  <2>3. FileInv(f)'
    BY <1>1 DEF Upload, FileInv, Ended, TriesLeft
  <2>4. PurgeUnmoved(f)
    BY <1>1 DEF Upload, FileInv, PurgeUnmoved
  <2> QED
    BY <2>1, <2>2, <2>3, <2>4, OneFileStep
<1>2. CASE ConfirmCreate(f)
  <2>0. row'[f] = [row[f] EXCEPT !.there = TRUE] /\ row' \in [Files -> AttRow]
    BY <1>2, RowChanged DEF ConfirmCreate
  <2>1. AttachmentsTypeOK'
    BY <1>2, <2>0 DEF ConfirmCreate, AttachmentsTypeOK, AttRow
  <2>2. \A g \in Files : g # f => FileSame(g)
    BY <1>2 DEF ConfirmCreate, FileSame
  <2>3. FileInv(f)'
    BY <1>2, <2>0 DEF ConfirmCreate, FileInv, Ended, TriesLeft, AttRow
  <2>4. PurgeUnmoved(f)
    BY <1>2, <2>0 DEF ConfirmCreate, FileInv, PurgeUnmoved, AttRow
  <2> QED
    BY <2>1, <2>2, <2>3, <2>4, OneFileStep
<1>3. CASE ConfirmScan(f)
  <2>0. /\ scan'[f] = [scan[f] EXCEPT !.st = "waiting"] /\ scan[f] \in Jobs
        /\ FileInv(f) /\ scan[f].st = "none" /\ TriesLeft(scan[f])
    BY <1>3 DEF ConfirmScan, FileInv
  <2>1. AttachmentsTypeOK'
    <3>1. scan' \in [Files -> Jobs]
      BY <1>3, <2>0, JobMoved DEF ConfirmScan
    <3>2. confirm' \in [Files -> {"none", "create", "scan", "thumb", "done", "died"}]
      BY <1>3 DEF ConfirmScan
    <3> QED
      BY <1>3, <3>1, <3>2 DEF ConfirmScan, AttachmentsTypeOK, AttRow
  <2>2. \A g \in Files : g # f => FileSame(g)
    BY <1>3 DEF ConfirmScan, FileSame
  <2>3. FileInv(f)'
    <3>1. TriesLeft(scan'[f]) /\ scan'[f].st = "waiting"
      BY <2>0 DEF TriesLeft, Jobs
    <3>2. confirm'[f] \in {"thumb", "done"} /\ row[f].deleted # "stale" /\ confirm[f] = "scan"
      BY <1>3, <2>0 DEF ConfirmScan, FileInv
    <3> QED
      BY <1>3, <2>0, <3>1, <3>2 DEF ConfirmScan, FileInv, Ended, TriesLeft
  <2>4. PurgeUnmoved(f)
    BY <1>3 DEF ConfirmScan, FileInv, PurgeUnmoved
  <2> QED
    BY <2>1, <2>2, <2>3, <2>4, OneFileStep
<1>4. CASE ConfirmThumb(f)
  <2>0. /\ thumb'[f] = [thumb[f] EXCEPT !.st = "waiting"] /\ thumb[f] \in Jobs
        /\ FileInv(f) /\ thumb[f].st = "none" /\ TriesLeft(thumb[f])
    BY <1>4 DEF ConfirmThumb, FileInv
  <2>1. AttachmentsTypeOK'
    <3>1. thumb' \in [Files -> Jobs]
      BY <1>4, <2>0, JobMoved DEF ConfirmThumb
    <3> QED
      BY <1>4, <3>1 DEF ConfirmThumb, AttachmentsTypeOK, AttRow
  <2>2. \A g \in Files : g # f => FileSame(g)
    BY <1>4 DEF ConfirmThumb, FileSame
  <2>3. FileInv(f)'
    <3>1. TriesLeft(thumb'[f]) /\ thumb'[f].st = "waiting"
      BY <2>0 DEF TriesLeft, Jobs
    <3>2. confirm'[f] = "done" /\ row[f].deleted # "stale" /\ confirm[f] = "thumb"
      BY <1>4, <2>0 DEF ConfirmThumb, FileInv
    <3> QED
      BY <1>4, <2>0, <3>1, <3>2 DEF ConfirmThumb, FileInv, Ended, TriesLeft
  <2>4. PurgeUnmoved(f)
    BY <1>4 DEF ConfirmThumb, FileInv, PurgeUnmoved
  <2> QED
    BY <2>1, <2>2, <2>3, <2>4, OneFileStep
<1>5. CASE ConfirmDies(f)
  <2>1. AttachmentsTypeOK'
    BY <1>5, MishapTyped DEF ConfirmDies, AttachmentsTypeOK, AttRow
  <2>2. \A g \in Files : g # f => FileSame(g)
    BY <1>5 DEF ConfirmDies, FileSame
  <2>3. FileInv(f)'
    BY <1>5 DEF ConfirmDies, FileInv, Ended, TriesLeft
  <2>4. PurgeUnmoved(f)
    BY <1>5 DEF ConfirmDies, FileInv, PurgeUnmoved
  <2> QED
    BY <2>1, <2>2, <2>3, <2>4, OneFileStep
<1> QED
  BY <1>1, <1>2, <1>3, <1>4, <1>5

\* A scan job that has not ended is that of a file that is not stale, so that
\* an infected file may be moved and any other be marked.
LEMMA ScanMoves ==
  ASSUME AttachmentsIInv, NEW f \in Files, ~Ended(scan[f]),
         scan'[f] \in Jobs, TriesLeft(scan'[f]), scan'[f].st # "none",
         \A g \in Files : g # f => scan'[g] = scan[g] /\ row'[g] = row[g] /\ object'[g] = object[g],
         scan' = [scan EXCEPT ![f] = scan'[f]], row' \in [Files -> AttRow],
         object' \in [Files -> BOOLEAN], quarantine' \in [Files -> BOOLEAN],
         row'[f].there = row[f].there, row'[f].deleted = row[f].deleted,
         row'[f].thumbKeys = row[f].thumbKeys,
         row'[f].status = "infected" => file[f].reply # "OK",
         row[f].status = "infected" => row'[f].status = "infected",
         scan'[f].st = "marked" => row'[f].status = "infected",
         object'[f] = object[f] \/ row[f].status = "infected",
         mishaps' = mishaps \/ Mishap,
         UNCHANGED <<file, thumbs, confirm, thumb, purge>>
  PROVE  AttachmentsIInv'
<1> USE AttachmentsTypes
<1>0. FileInv(f) /\ row[f].deleted # "stale" /\ confirm[f] \notin {"none", "create", "scan"}
  BY DEF FileInv, Ended
<1>1. AttachmentsTypeOK'
  <2>1. scan' \in [Files -> Jobs]
    OBVIOUS
  <2>2. mishaps' \in 0..MaxMishaps
    BY MishapTyped
  <2> QED
    BY <2>1, <2>2 DEF AttachmentsTypeOK, AttRow
<1>2. \A g \in Files : g # f => FileSame(g)
  BY DEF FileSame
<1>3. FileInv(f)'
  BY <1>0 DEF FileInv, Ended, TriesLeft
<1>4. PurgeUnmoved(f)
  BY <1>0 DEF PurgeUnmoved
<1> QED
  BY <1>1, <1>2, <1>3, <1>4, OneFileStep

\* Steps of the scan job.
LEMMA ScanSteps ==
  ASSUME AttachmentsIInv, NEW f \in Files,
         \/ ScanRead(f) \/ ScanMark(f) \/ ScanFails(f) \/ ScanDiesMoved(f)
         \/ \E copied, removed \in BOOLEAN : ScanMove(f, copied, removed)
  PROVE  AttachmentsIInv'
<1> USE AttachmentsTypes
<1>0. scan[f].st \in {"waiting", "read", "marked"} /\ scan[f] \in Jobs /\ FileInv(f)
  BY DEF ScanRead, ScanMark, ScanFails, ScanDiesMoved, ScanMove
<1>1. ~Ended(scan[f]) /\ TriesLeft(scan[f]) /\ scan[f].st # "failed" /\ row[f] \in AttRow
  BY <1>0 DEF Ended, FileInv
<1> DEFINE S == {[scan[f] EXCEPT !.st = s] : s \in {"read", "marked", "done"}} \cup {Retry(scan[f])}
<1>2. \A j \in S : j \in Jobs /\ TriesLeft(j) /\ j.st # "none"
  <2>1. \A s \in {"read", "marked", "done"} :
           [scan[f] EXCEPT !.st = s] \in Jobs /\ TriesLeft([scan[f] EXCEPT !.st = s])
             /\ [scan[f] EXCEPT !.st = s].st = s
    BY <1>0, <1>1 DEF Jobs, TriesLeft
  <2>2. Retry(scan[f]) \in Jobs /\ TriesLeft(Retry(scan[f])) /\ Retry(scan[f]).st # "none"
    BY <1>0, <1>1, RetryTyped
  <2> QED
    BY <2>1, <2>2
<1>3. CASE ScanRead(f) \/ ScanFails(f)
  <2>1. /\ scan'[f] \in S /\ scan'[f].st # "marked" /\ scan' = [scan EXCEPT ![f] = scan'[f]]
        /\ UNCHANGED <<row, object, quarantine, file, thumbs, confirm, thumb, purge>>
        /\ (mishaps' = mishaps \/ Mishap)
    <3>1. CASE ScanRead(f)
      <4>1. scan' = [scan EXCEPT ![f] = IF ~row[f].there THEN [scan[f] EXCEPT !.st = "done"]
                                   ELSE IF object[f] THEN [scan[f] EXCEPT !.st = "read"]
                                   ELSE Retry(scan[f])]
        BY <3>1 DEF ScanRead
      <4>2. scan'[f] \in {[scan[f] EXCEPT !.st = "done"], [scan[f] EXCEPT !.st = "read"], Retry(scan[f])}
        BY <4>1
      <4>3. [scan[f] EXCEPT !.st = "done"].st = "done" /\ [scan[f] EXCEPT !.st = "read"].st = "read"
        BY <1>0 DEF Jobs
      <4>4. Retry(scan[f]).st # "marked"
        BY <1>0, <1>1, RetryTyped
      <4>5. scan'[f] \in S
        BY <4>2
      <4>6. scan' = [scan EXCEPT ![f] = scan'[f]]
        BY <4>1
      <4> QED
        BY <3>1, <4>2, <4>3, <4>4, <4>5, <4>6 DEF ScanRead
    <3>2. CASE ScanFails(f)
      <4>1. scan' = [scan EXCEPT ![f] = Retry(scan[f])] /\ scan'[f] = Retry(scan[f])
        BY <3>2 DEF ScanFails
      <4>2. Retry(scan[f]).st # "marked"
        BY <1>0, <1>1, RetryTyped
      <4> QED
        BY <3>2, <4>1, <4>2 DEF ScanFails
    <3> QED
      BY <1>3, <3>1, <3>2
  <2>2. scan'[f] \in Jobs /\ TriesLeft(scan'[f]) /\ scan'[f].st # "none"
    BY <1>2, <2>1
  <2>3. row[f].status = "infected" => file[f].reply # "OK"
    BY <1>0 DEF FileInv
  <2> QED
    BY <1>1, <2>1, <2>2, <2>3, ScanMoves
<1>4. CASE ScanMark(f)
  <2> DEFINE clean == file[f].reply = "OK"
  <2>1. /\ row' = [row EXCEPT ![f] = [row[f] EXCEPT !.status = IF clean THEN "clean" ELSE "infected"]]
        /\ scan' = [scan EXCEPT ![f] = [scan[f] EXCEPT !.st = IF clean THEN "done" ELSE "marked"]]
        /\ UNCHANGED <<object, quarantine, file, thumbs, confirm, thumb, purge, mishaps>>
    BY <1>4 DEF ScanMark
  <2>2. /\ scan'[f] \in S /\ scan'[f].st = (IF clean THEN "done" ELSE "marked")
        /\ scan' = [scan EXCEPT ![f] = scan'[f]]
    BY <1>0, <2>1 DEF Jobs
  <2>3. /\ row'[f] \in AttRow /\ row' \in [Files -> AttRow] /\ row'[f].there = row[f].there
        /\ row'[f].deleted = row[f].deleted /\ row'[f].thumbKeys = row[f].thumbKeys
        /\ row'[f].status = IF clean THEN "clean" ELSE "infected"
    BY <1>1, <2>1 DEF AttRow
  <2>4. row[f].status = "infected" => ~clean
    BY <1>0 DEF FileInv
  <2>5. scan'[f] \in Jobs /\ TriesLeft(scan'[f]) /\ scan'[f].st # "none"
    BY <1>2, <2>2
  <2>6. \A g \in Files : g # f => scan'[g] = scan[g] /\ row'[g] = row[g] /\ object'[g] = object[g]
    BY <2>1
  <2>7. /\ row'[f].status = "infected" => file[f].reply # "OK"
        /\ row[f].status = "infected" => row'[f].status = "infected"
        /\ scan'[f].st = "marked" => row'[f].status = "infected"
    BY <2>2, <2>3, <2>4
  <2>8. object' = object /\ quarantine' = quarantine /\ mishaps' = mishaps
        /\ UNCHANGED <<file, thumbs, confirm, thumb, purge>>
    BY <2>1
  <2> HIDE DEF clean, S
  <2> QED
    BY <1>1, <2>2, <2>3, <2>5, <2>6, <2>7, <2>8, ScanMoves
<1>5. CASE ScanDiesMoved(f) \/ \E copied, removed \in BOOLEAN : ScanMove(f, copied, removed)
  <2>1. /\ scan' = [scan EXCEPT ![f] = scan'[f]] /\ scan'[f] \in S /\ scan'[f].st # "marked"
        /\ scan[f].st = "marked" /\ UNCHANGED <<row, file, thumbs, confirm, thumb, purge>>
        /\ (mishaps' = mishaps \/ Mishap)
        /\ \A g \in Files : g # f => object'[g] = object[g]
        /\ object' \in [Files -> BOOLEAN] /\ quarantine' \in [Files -> BOOLEAN]
    <3>1. CASE ScanDiesMoved(f)
      <4>1. scan' = [scan EXCEPT ![f] = Retry(scan[f])] /\ scan'[f] = Retry(scan[f])
        BY <3>1 DEF ScanDiesMoved
      <4>2. Retry(scan[f]).st # "marked"
        BY <1>0, <1>1, RetryTyped
      <4> QED
        BY <3>1, <4>1, <4>2 DEF ScanDiesMoved
    <3>2. ASSUME NEW copied \in BOOLEAN, NEW removed \in BOOLEAN, ScanMove(f, copied, removed)
          PROVE  /\ scan' = [scan EXCEPT ![f] = scan'[f]] /\ scan'[f] \in S /\ scan'[f].st # "marked"
                 /\ scan[f].st = "marked" /\ UNCHANGED <<row, file, thumbs, confirm, thumb, purge>>
                 /\ (mishaps' = mishaps \/ Mishap)
                 /\ \A g \in Files : g # f => object'[g] = object[g]
                 /\ object' \in [Files -> BOOLEAN] /\ quarantine' \in [Files -> BOOLEAN]
      <4>1. scan' = [scan EXCEPT ![f] = [scan[f] EXCEPT !.st = "done"]]
        BY <3>2 DEF ScanMove
      <4>2. scan'[f] \in S /\ scan'[f].st = "done" /\ scan' = [scan EXCEPT ![f] = scan'[f]]
        BY <1>0, <4>1 DEF Jobs
      <4> QED
        BY <3>2, <4>2 DEF ScanMove
    <3> QED
      BY <1>5, <3>1, <3>2
  <2>2. scan'[f] \in Jobs /\ TriesLeft(scan'[f]) /\ scan'[f].st # "none"
    BY <1>2, <2>1
  <2>3. row[f].status = "infected" /\ file[f].reply # "OK"
    BY <1>0, <2>1 DEF FileInv
  <2> QED
    BY <1>1, <2>1, <2>2, <2>3, ScanMoves
<1> QED
  BY <1>3, <1>4, <1>5

\* Steps of the thumbnail job, which has not ended before or during them.
LEMMA ThumbSteps ==
  ASSUME AttachmentsIInv, NEW f \in Files, ThumbPut(f) \/ ThumbRecord(f) \/ ThumbFails(f)
  PROVE  AttachmentsIInv'
<1> USE AttachmentsTypes
<1>0. /\ thumb[f].st \in {"waiting", "put"} /\ thumb[f] \in Jobs /\ FileInv(f) /\ row[f] \in AttRow
  BY DEF ThumbPut, ThumbRecord, ThumbFails
<1>1. /\ TriesLeft(thumb[f]) /\ thumb[f].st # "failed" /\ row[f].deleted # "stale"
      /\ confirm[f] \notin {"none", "create", "scan", "thumb"}
  BY <1>0 DEF Ended, FileInv
<1>2. /\ \A s \in {"put", "done"} :
            [thumb[f] EXCEPT !.st = s] \in Jobs /\ TriesLeft([thumb[f] EXCEPT !.st = s])
      /\ Retry(thumb[f]) \in Jobs /\ TriesLeft(Retry(thumb[f]))
  <2>1. \A s \in {"put", "done"} :
           [thumb[f] EXCEPT !.st = s] \in Jobs /\ TriesLeft([thumb[f] EXCEPT !.st = s])
    BY <1>0, <1>1 DEF Jobs, TriesLeft
  <2> QED
    BY <1>0, <1>1, <2>1, RetryTyped
<1>3. /\ thumb'[f] \in Jobs /\ TriesLeft(thumb'[f]) /\ thumb' \in [Files -> Jobs]
      /\ \A g \in Files : g # f => thumb'[g] = thumb[g]
  <2>1. CASE ThumbPut(f)
    <3>1. \/ thumb' = [thumb EXCEPT ![f] = [thumb[f] EXCEPT !.st = "put"]]
          \/ thumb' = [thumb EXCEPT ![f] = [thumb[f] EXCEPT !.st = "done"]]
      BY <2>1 DEF ThumbPut
    <3>2. CASE thumb' = [thumb EXCEPT ![f] = [thumb[f] EXCEPT !.st = "put"]]
      BY <1>2, <3>2
    <3>3. CASE thumb' = [thumb EXCEPT ![f] = [thumb[f] EXCEPT !.st = "done"]]
      BY <1>2, <3>3
    <3> QED
      BY <3>1, <3>2, <3>3
  <2>2. CASE ThumbRecord(f)
    <3>1. thumb' = [thumb EXCEPT ![f] = [thumb[f] EXCEPT !.st = "done"]]
      BY <2>2 DEF ThumbRecord
    <3> QED
      BY <1>2, <3>1
  <2>3. CASE ThumbFails(f)
    <3>1. thumb' = [thumb EXCEPT ![f] = Retry(thumb[f])]
      BY <2>3 DEF ThumbFails
    <3> QED
      BY <1>2, <3>1
  <2> QED
    BY <2>1, <2>2, <2>3
<1>4. /\ row'[f].there = row[f].there /\ row'[f].deleted = row[f].deleted
      /\ row'[f].status = row[f].status
      /\ row' \in [Files -> AttRow] /\ \A g \in Files : g # f => row'[g] = row[g]
  <2>1. CASE row' = row
    BY <2>1
  <2>2. CASE row' = [row EXCEPT ![f] = [row[f] EXCEPT !.thumbKeys = TRUE]]
    BY <1>0, <2>2 DEF AttRow
  <2> QED
    BY <2>1, <2>2 DEF ThumbPut, ThumbRecord, ThumbFails
<1>5. /\ thumbs' \in [Files -> BOOLEAN] /\ \A g \in Files : g # f => thumbs'[g] = thumbs[g]
      /\ UNCHANGED <<file, object, quarantine, confirm, scan, purge>>
      /\ mishaps' \in 0..MaxMishaps
  BY MishapTyped DEF ThumbPut, ThumbRecord, ThumbFails
<1>6. AttachmentsTypeOK'
  BY <1>3, <1>4, <1>5 DEF AttachmentsTypeOK, AttRow
<1>7. \A g \in Files : g # f => FileSame(g)
  BY <1>3, <1>4, <1>5 DEF FileSame
<1>8. FileInv(f)'
  BY <1>0, <1>1, <1>3, <1>4, <1>5 DEF FileInv, Ended, TriesLeft
<1>9. PurgeUnmoved(f)
  BY <1>1, <1>5 DEF PurgeUnmoved
<1> QED
  BY <1>6, <1>7, <1>8, <1>9, OneFileStep

\* A soft delete, and the thirty days after it.
LEMMA DeleteSteps ==
  ASSUME AttachmentsIInv, NEW f \in Files, SoftDelete(f) \/ GoStale(f)
  PROVE  AttachmentsIInv'
<1> USE AttachmentsTypes
<1>0. row[f] \in AttRow /\ FileInv(f) /\ row[f].there /\ row[f].deleted # "stale"
  BY DEF SoftDelete, GoStale
<1>1. PICK d \in {"yes", "stale"} : row' = [row EXCEPT ![f] = [row[f] EXCEPT !.deleted = d]]
  BY DEF SoftDelete, GoStale
<1>2. /\ row' \in [Files -> AttRow] /\ \A g \in Files : g # f => row'[g] = row[g]
      /\ row'[f].there = row[f].there /\ row'[f].status = row[f].status /\ row'[f].deleted = d
      /\ row'[f].thumbKeys = row[f].thumbKeys
  BY <1>0, <1>1 DEF AttRow
<1>3. UNCHANGED <<file, object, quarantine, thumbs, confirm, scan, thumb, purge, mishaps>>
  BY DEF SoftDelete, GoStale
<1>4. d = "stale" => Ended(scan[f]) /\ Ended(thumb[f]) /\ confirm[f] \in {"done", "died"}
  <2>1. CASE SoftDelete(f)
    BY <1>0, <1>2, <2>1 DEF SoftDelete, AttRow
  <2>2. CASE GoStale(f)
    BY <2>2 DEF GoStale
  <2> QED
    BY <2>1, <2>2
<1>5. AttachmentsTypeOK'
  BY <1>2, <1>3 DEF AttachmentsTypeOK, AttRow
<1>6. \A g \in Files : g # f => FileSame(g)
  BY <1>2, <1>3 DEF FileSame
<1>7. FileInv(f)'
  BY <1>0, <1>2, <1>3, <1>4 DEF FileInv, Ended, TriesLeft
<1>8. PurgeUnmoved(f)
  BY <1>0, <1>3 DEF PurgeUnmoved
<1> QED
  BY <1>5, <1>6, <1>7, <1>8, OneFileStep

\* The purge goes on after a row, or stops.
LEMMA PurgeGoesOn ==
  ASSUME AttachmentsIInv, NEW f \in Files, purge.pc \in {"loop", "row"},
         purge' = AfterRow(f) \/ purge' = NoPurge,
         \A g \in Files : row'[g].deleted = row[g].deleted /\ row'[g].thumbKeys = row[g].thumbKeys
  PROVE  /\ PurgeInv'
         /\ purge' \in [pc: {"idle", "loop", "row"}, todo: SUBSET Files,
                        keys: SUBSET Files, cur: Files \cup {"none"}]
<1> USE AttachmentsTypes
<1>1. CASE purge' = NoPurge
  BY <1>1 DEF NoPurge, PurgeInv
<1>2. CASE purge' = [purge EXCEPT !.pc = "loop", !.todo = @ \ {f}, !.cur = "none"]
  <2>1. /\ purge'.pc = "loop" /\ purge'.todo = purge.todo \ {f} /\ purge'.keys = purge.keys
        /\ purge' \in [pc: {"idle", "loop", "row"}, todo: SUBSET Files,
                       keys: SUBSET Files, cur: Files \cup {"none"}]
    BY <1>2
  <2>2. purge.todo \subseteq Files
    OBVIOUS
  <2> QED
    BY <2>1, <2>2 DEF PurgeInv
<1> QED
  BY <1>1, <1>2 DEF AfterRow

\* Steps of the purge.
LEMMA PurgeSteps ==
  ASSUME AttachmentsIInv,
         PurgeStep \/ PurgeFails \/ \E f \in Files : PurgeObjectsFail(f)
  PROVE  AttachmentsIInv'
<1> USE AttachmentsTypes
<1>1. CASE PurgeScan
  <2>1. /\ UNCHANGED <<file, row, object, quarantine, thumbs, confirm, scan, thumb, mishaps>>
        /\ purge'.pc = "loop" /\ purge'.todo = Stale
        /\ purge'.keys = {f \in Stale : row[f].thumbKeys} /\ purge'.cur = "none"
        /\ purge' \in [pc: {"idle", "loop", "row"}, todo: SUBSET Files,
                       keys: SUBSET Files, cur: Files \cup {"none"}]
    BY <1>1 DEF PurgeScan, NoPurge, Stale
  <2>2. PurgeInv'
    BY <2>1 DEF PurgeInv, Stale
  <2>3. \A f \in Files : FileInv(f)'
    BY <2>1, FileKept DEF FileSame
  <2>4. AttachmentsTypeOK'
    BY <2>1 DEF AttachmentsTypeOK, AttRow
  <2> QED
    BY <2>2, <2>3, <2>4 DEF AttachmentsIInv
<1>2. ASSUME NEW f \in Files, PurgeObjects(f) PROVE AttachmentsIInv'
  <2>1. /\ UNCHANGED <<file, row, quarantine, confirm, scan, thumb, mishaps>>
        /\ object' = [object EXCEPT ![f] = FALSE] /\ ~object'[f]
        /\ object' \in [Files -> BOOLEAN] /\ thumbs' \in [Files -> BOOLEAN]
        /\ \A g \in Files : g # f => object'[g] = object[g] /\ thumbs'[g] = thumbs[g]
        /\ thumbs'[f] => thumbs[f] /\ f \notin purge.keys
        /\ purge.pc = "loop" /\ f \in purge.todo
    BY <1>2 DEF PurgeObjects
  <2>2. /\ purge'.pc = "row" /\ purge'.cur = f /\ purge'.todo = purge.todo /\ purge'.keys = purge.keys
        /\ purge' \in [pc: {"idle", "loop", "row"}, todo: SUBSET Files,
                       keys: SUBSET Files, cur: Files \cup {"none"}]
    BY <1>2 DEF PurgeObjects
  <2>3. row[f].deleted = "stale" /\ (row[f].thumbKeys => f \in purge.keys) /\ FileInv(f)
    BY <2>1 DEF PurgeInv
  <2>4. PurgeInv'
    BY <2>1, <2>2 DEF PurgeInv
  <2>5. FileInv(f)'
    BY <2>1, <2>3 DEF FileInv, Ended, TriesLeft
  <2>6. \A g \in Files : FileInv(g)'
    BY <2>1, <2>5, FileKept DEF FileSame
  <2>7. AttachmentsTypeOK'
    BY <2>1, <2>2 DEF AttachmentsTypeOK, AttRow
  <2> QED
    BY <2>4, <2>6, <2>7 DEF AttachmentsIInv
<1>3. ASSUME NEW f \in Files, PurgeObjectsFail(f) PROVE AttachmentsIInv'
  <2>1. /\ UNCHANGED <<file, row, quarantine, confirm, scan, thumb>>
        /\ object' \in [Files -> BOOLEAN] /\ thumbs' \in [Files -> BOOLEAN]
        /\ \A g \in Files : g # f => object'[g] = object[g] /\ thumbs'[g] = thumbs[g]
        /\ object'[f] => object[f]
        /\ thumbs'[f] => thumbs[f]
        /\ purge.pc = "loop" /\ f \in purge.todo /\ purge' = AfterRow(f) /\ Mishap
    BY <1>3 DEF PurgeObjectsFail
  <2>2. row[f].deleted = "stale" /\ FileInv(f)
    BY <2>1 DEF PurgeInv
  <2>3. /\ PurgeInv'
        /\ purge' \in [pc: {"idle", "loop", "row"}, todo: SUBSET Files,
                       keys: SUBSET Files, cur: Files \cup {"none"}]
    BY <2>1, PurgeGoesOn
  <2>4. FileInv(f)'
    BY <2>1, <2>2 DEF FileInv, Ended, TriesLeft
  <2>5. \A g \in Files : FileInv(g)'
    BY <2>1, <2>4, FileKept DEF FileSame
  <2>6. AttachmentsTypeOK'
    BY <2>1, <2>3, MishapTyped DEF AttachmentsTypeOK, AttRow
  <2> QED
    BY <2>3, <2>5, <2>6 DEF AttachmentsIInv
<1>4. CASE PurgeRow
  <2>0. PICK f \in Files : f = purge.cur
    BY <1>4 DEF PurgeRow, PurgeInv
  <2>1. /\ UNCHANGED <<file, object, quarantine, thumbs, confirm, scan, thumb, mishaps>>
        /\ purge.pc = "row" /\ f \in purge.todo
        /\ row' = [row EXCEPT ![f] = [row[f] EXCEPT !.there = FALSE]]
        /\ purge' = AfterRow(f)
    BY <1>4, <2>0 DEF PurgeRow, PurgeInv
  <2>2. /\ row[f].deleted = "stale" /\ ~object[f] /\ (thumbs[f] => ~row[f].thumbKeys)
        /\ FileInv(f) /\ row[f] \in AttRow
    BY <2>0, <2>1 DEF PurgeInv
  <2>3. /\ row' \in [Files -> AttRow] /\ \A g \in Files : g # f => row'[g] = row[g]
        /\ ~row'[f].there /\ row'[f].status = row[f].status
        /\ row'[f].deleted = row[f].deleted /\ row'[f].thumbKeys = row[f].thumbKeys
    BY <2>1, <2>2 DEF AttRow
  <2>4. \A g \in Files : row'[g].deleted = row[g].deleted /\ row'[g].thumbKeys = row[g].thumbKeys
    BY <2>3
  <2>5. /\ PurgeInv'
        /\ purge' \in [pc: {"idle", "loop", "row"}, todo: SUBSET Files,
                       keys: SUBSET Files, cur: Files \cup {"none"}]
    BY <2>1, <2>4, PurgeGoesOn
  <2>6. FileInv(f)'
    BY <2>1, <2>2, <2>3 DEF FileInv, Ended, TriesLeft
  <2>7. \A g \in Files : FileInv(g)'
    BY <2>1, <2>3, <2>6, FileKept DEF FileSame
  <2>8. AttachmentsTypeOK'
    BY <2>1, <2>3, <2>5 DEF AttachmentsTypeOK, AttRow
  <2> QED
    BY <2>5, <2>7, <2>8 DEF AttachmentsIInv
<1>5. CASE PurgeFails
  <2>1. /\ UNCHANGED <<file, row, object, quarantine, thumbs, confirm, scan, thumb>> /\ Mishap
        /\ purge.pc \in {"loop", "row"}
        /\ purge' = IF purge.pc = "row" THEN AfterRow(purge.cur) ELSE NoPurge
    BY <1>5 DEF PurgeFails
  <2>2. PurgeInv' /\ purge' \in [pc: {"idle", "loop", "row"}, todo: SUBSET Files,
                                 keys: SUBSET Files, cur: Files \cup {"none"}]
    <3>1. CASE purge.pc = "row"
      <4>1. purge.cur \in Files
        BY <3>1 DEF PurgeInv
      <4> QED
        BY <2>1, <3>1, <4>1, PurgeGoesOn
    <3>2. CASE purge.pc = "loop"
      BY <2>1, <3>2 DEF NoPurge, PurgeInv
    <3> QED
      BY <2>1, <3>1, <3>2
  <2>3. \A f \in Files : FileInv(f)'
    BY <2>1, FileKept DEF FileSame
  <2>4. AttachmentsTypeOK'
    BY <2>1, <2>2, MishapTyped DEF AttachmentsTypeOK, AttRow
  <2> QED
    BY <2>2, <2>3, <2>4 DEF AttachmentsIInv
<1> QED
  BY <1>1, <1>2, <1>3, <1>4, <1>5 DEF PurgeStep

\* The invariant holds before the first upload.
LEMMA AttachmentsStart == AttachmentsInit => AttachmentsIInv
<1> SUFFICES ASSUME AttachmentsInit PROVE AttachmentsIInv
  OBVIOUS
<1>1. \A f \in Files : /\ scan[f] = NoJob /\ thumb[f] = NoJob /\ NoJob \in Jobs /\ TriesLeft(NoJob)
                       /\ NoJob.st = "none"
  BY AttachmentsAssumption DEF AttachmentsInit, NoJob, Jobs, TriesLeft
<1>2. scan \in [Files -> Jobs] /\ thumb \in [Files -> Jobs]
  BY AttachmentsAssumption DEF AttachmentsInit, NoJob, Jobs
<1>3. /\ purge \in [pc: {"idle", "loop", "row"}, todo: SUBSET Files,
                    keys: SUBSET Files, cur: Files \cup {"none"}]
      /\ mishaps \in 0..MaxMishaps /\ PurgeInv
  BY AttachmentsAssumption DEF AttachmentsInit, NoPurge, PurgeInv
<1>4. AttachmentsTypeOK
  BY <1>2, <1>3 DEF AttachmentsInit, AttachmentsTypeOK
<1>5. \A f \in Files : FileInv(f)
  BY <1>1 DEF AttachmentsInit, FileInv, Ended
<1> QED
  BY <1>3, <1>4, <1>5 DEF AttachmentsIInv

\* Every step keeps the invariant of the attachments.
LEMMA AttachmentsStep == AttachmentsIInv /\ [AttachmentsNext]_attachmentVars => AttachmentsIInv'
<1> SUFFICES ASSUME AttachmentsIInv, [AttachmentsNext]_attachmentVars PROVE AttachmentsIInv'
  OBVIOUS
<1>1. CASE UNCHANGED attachmentVars
  BY <1>1 DEF attachmentVars, AttachmentsIInv, AttachmentsTypeOK, FileInv, Ended, TriesLeft, PurgeInv
<1>2. CASE AttachmentsNext
  BY <1>2, UploadSteps, ScanSteps, ThumbSteps, DeleteSteps, PurgeSteps
     DEF AttachmentsNext, ScanStep
<1> QED
  BY <1>1, <1>2

\* Every reachable state of the attachments is well typed: no job is tried more
\* often than its attempts, whatever fails or dies (attachments, maintenance).
THEOREM AttachmentsTyped == AttachmentsSpec => []AttachmentsTypeOK
<1>1. AttachmentsIInv => AttachmentsTypeOK
  BY DEF AttachmentsIInv
<1> QED
  BY <1>1, AttachmentsStart, AttachmentsStep, PTL DEF AttachmentsSpec

\* For any number of files, attempts and mishaps: a download that is handed out
\* has its object, and a purge that fails or dies half-way leaves the row until
\* the objects it names are gone (attachments.service.ts, the purge).
THEOREM FilesStaySound == AttachmentsSpec => []FilesSound
<1>1. AttachmentsIInv => FilesSound
  BY DEF AttachmentsIInv, FilesSound, ServedHasObject, RowOutlivesObjects, FileInv
<1> QED
  BY <1>1, AttachmentsStart, AttachmentsStep, PTL DEF AttachmentsSpec

-----------------------------------------------------------------------------
(* Recurring tasks and the purge of archived projects *)

RuleRow == [there: BOOLEAN, id: Nat, edit: Nat, enabled: BOOLEAN, nextRunAt: Runs]

TickRec == [pc: {"idle", "loop", "number", "create", "finish"}, now: Days,
            due: SUBSET DueRow, cur: DueRow \cup {NoRow}, num: Nat]

\* What a tick has read of a rule is out of date by now only if the rule is due
\* later than it was.
DueRead(x) ==
    /\ x.edit <= rule[x.rule].edit
    /\ x.edit = rule[x.rule].edit => rule[x.rule].enabled
    /\ x.edit < rule[x.rule].edit => x.at < rule[x.rule].nextRunAt

\* A tick that has won a claim, and one that has yet to create its task.
Busy(t) == tick[t].pc \in {"number", "create", "finish"}
Claimed(t) == tick[t].pc \in {"number", "create"}

\* What a tick works from was due when it was read; the run it has claimed is
\* behind the rule.
TickGood(t) ==
    /\ tick[t].now <= day
    /\ \A x \in tick[t].due : x.at <= tick[t].now /\ DueRead(x)
    /\ Busy(t) => /\ tick[t].cur \in DueRow /\ tick[t].cur.at <= day
                  /\ tick[t].cur.at < rule[tick[t].cur.rule].nextRunAt

\* So are the runs that have become tasks.
SpawnedInv ==
    \A x \in spawned : /\ x.rule \in Rules /\ x.num \in Nat /\ x.due \in Runs
                       /\ x.due <= day /\ x.due < rule[x.rule].nextRunAt
                       /\ x.num < project.nextTaskNumber

SameRun(c, x) == c.rule = x.rule /\ c.at = x.due

\* A run is claimed by one tick or has become one task.
RunsInv ==
    /\ \A t \in Ticks : Claimed(t) => \A x \in spawned : ~SameRun(tick[t].cur, x)
    /\ \A t, u \in Ticks : t # u /\ Claimed(t) /\ Claimed(u) =>
          ~(tick[t].cur.rule = tick[u].cur.rule /\ tick[t].cur.at = tick[u].cur.at)
    /\ \A x, y \in spawned : x.rule = y.rule /\ x.due = y.due => x = y

\* The numbers ticks hold are taken, and by nobody else.
NumbersInv ==
    /\ \A t \in Ticks : tick[t].pc = "create" =>
          tick[t].num < project.nextTaskNumber /\ \A x \in spawned : x.num # tick[t].num
    /\ \A t, u \in Ticks : t # u /\ tick[t].pc = "create" /\ tick[u].pc = "create" =>
          tick[t].num # tick[u].num
    /\ KeyNumbersUnique

\* What the sweep has read is still so, or the project has been touched.
SweepInv == sweep.on /\ ~touched =>
                project.archivedAt # 0 /\ day - project.archivedAt > Grace

RecurrenceIInv ==
    RecurrenceTypeOK /\ (\A t \in Ticks : TickGood(t)) /\ SpawnedInv /\ RunsInv
        /\ NumbersInv /\ SweepInv

\* The types, one by one.
LEMMA RecurrenceTypes ==
  ASSUME RecurrenceTypeOK
  PROVE  /\ day \in 1..MaxDay /\ MaxDay \in Nat \ {0} /\ Period \in Nat \ {0}
         /\ Provisional \in Nat \ {0} /\ Grace \in Nat
         /\ project \in [there: BOOLEAN, archivedAt: Days, nextTaskNumber: Nat]
         /\ rule \in [Rules -> RuleRow] /\ tick \in [Ticks -> TickRec]
         /\ sweep \in [on: BOOLEAN, at: Days, archivedAt: Days] /\ touched \in BOOLEAN
         /\ admin \in [Admins -> {"idle", "archive", "restore"}]
         /\ upsets \in 0..MaxUpsets /\ MaxUpsets \in Nat
  BY RecurrenceAssumption DEF RecurrenceTypeOK, RuleRow, TickRec

\* How a step may change a rule: an edit puts its next run in the future, and
\* nothing else moves the next run back to a day that has come.
RuleGrows(r) ==
    /\ rule'[r].edit >= rule[r].edit
    /\ rule'[r].edit = rule[r].edit => rule'[r].enabled = rule[r].enabled
    /\ rule'[r].edit > rule[r].edit => rule'[r].nextRunAt > day
    /\ rule'[r].nextRunAt >= rule[r].nextRunAt \/ rule'[r].nextRunAt > day

\* A rule that only grows leaves the past runs behind it.
LEMMA RulesAdvance ==
  ASSUME RecurrenceTypeOK, RecurrenceTypeOK', NEW r \in Rules, RuleGrows(r),
         NEW at \in Nat, at <= day
  PROVE  /\ at < rule[r].nextRunAt => at < rule'[r].nextRunAt
         /\ \A edit \in Nat :
              /\ edit <= rule[r].edit
              /\ edit = rule[r].edit => rule[r].enabled
              /\ edit < rule[r].edit => at < rule[r].nextRunAt
              => /\ edit <= rule'[r].edit
                 /\ edit = rule'[r].edit => rule'[r].enabled
                 /\ edit < rule'[r].edit => at < rule'[r].nextRunAt
<1>1. /\ rule[r].edit \in Nat /\ rule[r].nextRunAt \in Nat /\ day \in Nat
      /\ rule'[r].edit \in Nat /\ rule'[r].nextRunAt \in Nat
  BY RecurrenceAssumption DEF RecurrenceTypeOK, Runs
<1> QED
  BY <1>1 DEF RuleGrows

\* A tick that a step leaves alone.
LEMMA TickKept ==
  ASSUME RecurrenceTypeOK, RecurrenceTypeOK', \A r \in Rules : RuleGrows(r), day <= day',
         NEW t \in Ticks, TickGood(t), tick'[t] = tick[t]
  PROVE  TickGood(t)'
<1>0. /\ day \in Nat /\ day' \in Nat /\ tick[t] \in TickRec /\ tick[t].now \in Nat
      /\ \A x \in DueRow : x.rule \in Rules /\ x.edit \in Nat /\ x.at \in Nat
  BY RecurrenceTypes, RecurrenceAssumption DEF RecurrenceTypeOK, TickRec, DueRow, Days, Runs
<1>1. tick'[t].now <= day'
  BY <1>0 DEF TickGood
<1>2. ASSUME NEW x \in tick'[t].due PROVE x.at <= tick'[t].now /\ DueRead(x)'
  <2>1. x \in DueRow /\ x.at <= tick[t].now /\ x.at <= day /\ DueRead(x)
    BY <1>0, <1>2 DEF TickGood, TickRec
  <2> QED
    BY <1>0, <2>1, RulesAdvance DEF DueRead
<1>3. ASSUME Busy(t)'
      PROVE  /\ tick'[t].cur \in DueRow /\ tick'[t].cur.at <= day'
             /\ tick'[t].cur.at < rule'[tick'[t].cur.rule].nextRunAt
  <2>1. /\ tick[t].cur \in DueRow /\ tick[t].cur.at <= day
        /\ tick[t].cur.at < rule[tick[t].cur.rule].nextRunAt
    BY <1>3 DEF TickGood, Busy
  <2> QED
    BY <1>0, <2>1, RulesAdvance
<1> QED
  BY <1>1, <1>2, <1>3 DEF TickGood

\* A step that claims, numbers and creates nothing: every tick stays as it is or
\* is through with its claim, and tasks may go.
LEMMA QuietStep ==
  ASSUME RecurrenceIInv, RecurrenceTypeOK', \A r \in Rules : RuleGrows(r), day <= day',
         \A t \in Ticks : tick'[t] = tick[t] \/ (TickGood(t)' /\ ~Claimed(t)'),
         spawned' \subseteq spawned, project'.nextTaskNumber = project.nextTaskNumber,
         SweepInv'
  PROVE  RecurrenceIInv'
<1> USE DEF RecurrenceIInv
<1>0. /\ day \in Nat /\ day' \in Nat /\ \A n \in Runs : n \in Nat
  BY RecurrenceTypes, RecurrenceAssumption DEF Runs, RecurrenceTypeOK
<1>1. \A t \in Ticks : TickGood(t)'
  BY TickKept
<1>2. SpawnedInv'
  <2>1. ASSUME NEW x \in spawned' PROVE x.due <= day' /\ x.due < rule'[x.rule].nextRunAt
    <3>1. x \in spawned /\ x.rule \in Rules /\ x.due \in Runs /\ x.due <= day
            /\ x.due < rule[x.rule].nextRunAt
      BY <2>1 DEF SpawnedInv
    <3> QED
      BY <1>0, <3>1, RulesAdvance
  <2> QED
    BY <2>1 DEF SpawnedInv
<1>3. \A t \in Ticks : /\ Claimed(t)' => tick'[t] = tick[t] /\ Claimed(t)
                       /\ tick'[t].pc = "create" => tick'[t] = tick[t]
  BY DEF Claimed
<1>4. RunsInv'
  BY <1>3 DEF RunsInv, SameRun
<1>5. NumbersInv'
  BY <1>3 DEF NumbersInv, KeyNumbersUnique
<1> QED
  BY <1>1, <1>2, <1>4, <1>5

\* The rules of a step that changes none.
LEMMA RulesKept ==
  ASSUME RecurrenceTypeOK, rule' = rule
  PROVE  \A r \in Rules : RuleGrows(r)
<1>1. \A r \in Rules : rule[r].edit \in Nat /\ rule[r].nextRunAt \in Nat
  BY RecurrenceTypes, RecurrenceAssumption DEF RuleRow, Runs
<1> QED
  BY <1>1 DEF RuleGrows

\* The count of upsets stays within its bound.
LEMMA UpsetTyped ==
  ASSUME RecurrenceTypeOK, Upset
  PROVE  upsets' \in 0..MaxUpsets
  BY RecurrenceTypes DEF Upset

\* Steps of administrators and of the sweep, and the passing of a day.
LEMMA ProjectSteps ==
  ASSUME RecurrenceIInv,
         \/ \E a \in Admins : ArchiveRead(a) \/ RestoreRead(a) \/ AdminWrite(a)
         \/ SweepScan \/ SweepDelete \/ SweepFails \/ DayPasses
  PROVE  RecurrenceIInv'
<1>0. RecurrenceTypeOK /\ SweepInv
  BY DEF RecurrenceIInv
<1> USE RecurrenceTypes
<1>1. /\ \A t \in Ticks : tick'[t] = tick[t]
      /\ spawned' \subseteq spawned
      /\ day' = day \/ (DayPasses /\ day' = day + 1 /\ day < MaxDay)
      /\ rule' = rule \/ (SweepDelete /\ rule' = [r \in Rules |-> [rule[r] EXCEPT !.there = FALSE]])
      /\ tick' = tick
  BY DEF ArchiveRead, RestoreRead, AdminWrite, SweepScan, SweepDelete, SweepFails, DayPasses
<1>2. rule' \in [Rules -> RuleRow] /\ \A r \in Rules : RuleGrows(r)
  <2>1. CASE rule' = rule
    BY <1>0, <2>1, RulesKept
  <2>2. CASE rule' = [r \in Rules |-> [rule[r] EXCEPT !.there = FALSE]]
    <3>1. \A r \in Rules : rule[r] \in RuleRow /\ rule[r].edit \in Nat /\ rule[r].nextRunAt \in Nat
      BY <1>0, RecurrenceAssumption DEF RuleRow, Runs
    <3>2. \A x \in RuleRow : /\ [x EXCEPT !.there = FALSE] \in RuleRow
                             /\ [x EXCEPT !.there = FALSE].edit = x.edit
                             /\ [x EXCEPT !.there = FALSE].enabled = x.enabled
                             /\ [x EXCEPT !.there = FALSE].nextRunAt = x.nextRunAt
      BY DEF RuleRow
    <3>3. \A r \in Rules : rule'[r] = [rule[r] EXCEPT !.there = FALSE]
      BY <2>2
    <3>4. \A r \in Rules : /\ rule'[r] \in RuleRow /\ rule'[r].edit = rule[r].edit
                           /\ rule'[r].enabled = rule[r].enabled
                           /\ rule'[r].nextRunAt = rule[r].nextRunAt
      <4> SUFFICES ASSUME NEW r \in Rules
                   PROVE  /\ rule'[r] \in RuleRow /\ rule'[r].edit = rule[r].edit
                          /\ rule'[r].enabled = rule[r].enabled
                          /\ rule'[r].nextRunAt = rule[r].nextRunAt
        OBVIOUS
      <4>1. PICK x \in RuleRow : x = rule[r]
        BY <3>1
      <4>2. rule'[r] = [x EXCEPT !.there = FALSE]
        BY <3>3, <4>1
      <4> QED
        BY <3>2, <4>1, <4>2
    <3>5. rule' \in [Rules -> RuleRow]
      BY <2>2, <3>1, <3>2
    <3> QED
      BY <3>1, <3>4, <3>5 DEF RuleGrows
  <2> QED
    BY <1>1, <2>1, <2>2
<1>3. /\ project' \in [there: BOOLEAN, archivedAt: Days, nextTaskNumber: Nat]
      /\ project'.nextTaskNumber = project.nextTaskNumber
  <2>1. ASSUME NEW a \in Admins, AdminWrite(a) PROVE <1>3
    <3>1. CASE project.there
      <4>1. PICK d \in Days : project' = [project EXCEPT !.archivedAt = d]
        BY <1>0, <2>1, <3>1 DEF AdminWrite, Days
      <4> QED
        BY <1>0, <4>1
    <3>2. CASE ~project.there
      BY <1>0, <2>1, <3>2 DEF AdminWrite
    <3> QED
      BY <3>1, <3>2
  <2>2. CASE SweepDelete
    BY <1>0, <2>2 DEF SweepDelete
  <2>3. CASE \E a \in Admins : ArchiveRead(a) \/ RestoreRead(a)
    BY <1>0, <2>3 DEF ArchiveRead, RestoreRead
  <2>4. CASE SweepScan \/ SweepFails \/ DayPasses
    BY <1>0, <2>4 DEF SweepScan, SweepFails, DayPasses
  <2> QED
    BY <2>1, <2>2, <2>3, <2>4
<1>4. RecurrenceTypeOK'
  <2>1. day' \in 1..MaxDay
    BY <1>0, <1>1
  <2>2. upsets' \in 0..MaxUpsets
    BY <1>0, UpsetTyped
       DEF ArchiveRead, RestoreRead, AdminWrite, SweepScan, SweepDelete, SweepFails, DayPasses
  <2>3. sweep' \in [on: BOOLEAN, at: Days, archivedAt: Days]
    <3>1. CASE SweepScan
      BY <1>0, <3>1 DEF SweepScan, Days
    <3>2. CASE sweep' = NoSweep
      BY <1>0, <3>2 DEF NoSweep, Days
    <3>3. CASE sweep' = sweep
      BY <1>0, <3>3
    <3> QED
      BY <3>1, <3>2, <3>3
         DEF ArchiveRead, RestoreRead, AdminWrite, SweepDelete, SweepFails, DayPasses
  <2>4. touched' \in BOOLEAN /\ admin' \in [Admins -> {"idle", "archive", "restore"}]
    <3>1. touched' \in {touched, sweep.on, FALSE}
      BY DEF ArchiveRead, RestoreRead, AdminWrite, SweepScan, SweepDelete, SweepFails, DayPasses
    <3>2. \/ admin' = admin
          \/ \E a \in Admins, s \in {"idle", "archive", "restore"} : admin' = [admin EXCEPT ![a] = s]
      BY DEF ArchiveRead, RestoreRead, AdminWrite, SweepScan, SweepDelete, SweepFails, DayPasses
    <3> QED
      BY <1>0, <3>1, <3>2
  <2>5. \A x \in spawned' : x.rule \in Rules /\ x.num \in Nat
    BY <1>0, <1>1 DEF RecurrenceTypeOK
  <2> QED
    BY <1>0, <1>1, <1>2, <1>3, <2>1, <2>2, <2>3, <2>4, <2>5
       DEF RecurrenceTypeOK, RuleRow, TickRec
<1>5. SweepInv'
  <2>1. CASE SweepScan
    BY <1>0, <2>1 DEF SweepScan, SweepInv
  <2>2. CASE SweepDelete \/ SweepFails
    BY <2>2 DEF SweepDelete, SweepFails, NoSweep, SweepInv
  <2>3. CASE DayPasses
    BY <2>3 DEF DayPasses, SweepInv
  <2>4. CASE \E a \in Admins : ArchiveRead(a) \/ RestoreRead(a)
    BY <1>0, <2>4 DEF ArchiveRead, RestoreRead, SweepInv
  <2>5. ASSUME NEW a \in Admins, AdminWrite(a) PROVE SweepInv'
    BY <1>0, <2>5 DEF AdminWrite, SweepInv
  <2> QED
    BY <2>1, <2>2, <2>3, <2>4, <2>5
<1>6. day <= day'
  BY <1>0, <1>1
<1> QED
  BY <1>1, <1>2, <1>3, <1>4, <1>5, <1>6, QuietStep

\* Steps of users.
LEMMA RuleSteps ==
  ASSUME RecurrenceIInv, NEW r \in Rules, RuleRemove(r) \/ \E on \in BOOLEAN : RuleUpsert(r, on)
  PROVE  RecurrenceIInv'
<1>0. RecurrenceTypeOK /\ SweepInv
  BY DEF RecurrenceIInv
<1> USE RecurrenceTypes
<1>1. /\ UNCHANGED <<day, project, tick, spawned, admin, sweep, touched>> /\ Upset
      /\ \A s \in Rules : s # r => rule'[s] = rule[s]
      /\ rule[r] \in RuleRow /\ \A s \in Rules : rule[s].edit \in Nat /\ rule[s].nextRunAt \in Nat
  BY <1>0, RecurrenceAssumption DEF RuleRemove, RuleUpsert, RuleRow, Runs
<1>2. rule'[r] \in RuleRow /\ rule' \in [Rules -> RuleRow] /\ RuleGrows(r)
  <2>1. CASE RuleRemove(r)
    <3>1. rule' = [rule EXCEPT ![r] = [rule[r] EXCEPT !.there = FALSE]]
      BY <2>1 DEF RuleRemove
    <3>2. rule'[r] = [rule[r] EXCEPT !.there = FALSE]
      BY <1>0, <3>1
    <3>3. /\ rule'[r] \in RuleRow /\ rule'[r].edit = rule[r].edit
          /\ rule'[r].enabled = rule[r].enabled /\ rule'[r].nextRunAt = rule[r].nextRunAt
      BY <1>1, <3>2 DEF RuleRow
    <3> QED
      BY <1>0, <1>1, <3>1, <3>3 DEF RuleGrows
  <2>2. ASSUME NEW on \in BOOLEAN, RuleUpsert(r, on)
        PROVE  rule'[r] \in RuleRow /\ rule' \in [Rules -> RuleRow] /\ RuleGrows(r)
    <3> DEFINE i == IF rule[r].there THEN rule[r].id ELSE rule[r].edit + 1
    <3>0. i \in Nat
      BY <1>1 DEF RuleRow
    <3>1. rule' = [rule EXCEPT ![r] = [there |-> TRUE, id |-> i, edit |-> rule[r].edit + 1,
                                       enabled |-> on, nextRunAt |-> day + Period]]
      BY <2>2 DEF RuleUpsert
    <3> HIDE DEF i
    <3>2. day + Period \in Runs /\ day + Period > day
      BY <1>0 DEF Runs
    <3>3. /\ rule'[r] = [there |-> TRUE, id |-> i, edit |-> rule[r].edit + 1,
                         enabled |-> on, nextRunAt |-> day + Period]
      BY <1>0, <3>1
    <3>4. rule'[r] \in RuleRow /\ rule'[r].edit = rule[r].edit + 1 /\ rule'[r].nextRunAt = day + Period
      BY <1>1, <3>0, <3>2, <3>3 DEF RuleRow
    <3> QED
      BY <1>0, <1>1, <3>1, <3>2, <3>4 DEF RuleGrows
  <2> QED
    BY <2>1, <2>2
<1>3. \A s \in Rules : RuleGrows(s)
  BY <1>1, <1>2 DEF RuleGrows
<1>4. RecurrenceTypeOK'
  BY <1>0, <1>1, <1>2, UpsetTyped DEF RecurrenceTypeOK, RuleRow
<1>5. SweepInv'
  BY <1>0, <1>1 DEF SweepInv
<1>6. day <= day' /\ spawned' \subseteq spawned /\ \A t \in Ticks : tick'[t] = tick[t]
  BY <1>0, <1>1
<1>7. project'.nextTaskNumber = project.nextTaskNumber
  BY <1>1
<1> QED
  BY <1>3, <1>4, <1>5, <1>6, <1>7, QuietStep

\* A tick that begins, or goes on to its next rule.
LEMMA TickMovesOn ==
  ASSUME RecurrenceIInv, NEW t \in Ticks, NEW s \in TickRec, s.pc \in {"idle", "loop"},
         s.now <= day, \A x \in s.due : x.at <= s.now /\ DueRead(x)',
         tick' = [tick EXCEPT ![t] = s],
         rule' \in [Rules -> RuleRow], \A r \in Rules : RuleGrows(r),
         upsets' = upsets \/ Upset,
         UNCHANGED <<day, project, spawned, admin, sweep, touched>>
  PROVE  RecurrenceIInv'
<1>0. RecurrenceTypeOK /\ SweepInv
  BY DEF RecurrenceIInv
<1> USE RecurrenceTypes
<1>1. tick' \in [Ticks -> TickRec] /\ tick'[t] = s /\ \A u \in Ticks : u # t => tick'[u] = tick[u]
  BY <1>0
<1>2. RecurrenceTypeOK'
  BY <1>0, <1>1, UpsetTyped DEF RecurrenceTypeOK, RuleRow, TickRec
<1>3. TickGood(t)' /\ ~Claimed(t)'
  BY <1>0, <1>1 DEF TickGood, Busy, Claimed
<1>4. SweepInv'
  BY <1>0 DEF SweepInv
<1>5. day <= day' /\ spawned' \subseteq spawned
  BY <1>0
<1>6. \A u \in Ticks : tick'[u] = tick[u] \/ (TickGood(u)' /\ ~Claimed(u)')
  BY <1>1, <1>3
<1> QED
  BY <1>2, <1>4, <1>5, <1>6, QuietStep

\* The record of a tick that is not under way.
LEMMA NoTickTyped == NoTick \in TickRec /\ NoTick.pc = "idle" /\ NoTick.now = 0 /\ NoTick.due = {}
<1>1. 0 \in Days
  BY RecurrenceAssumption DEF Days
<1> QED
  BY <1>1 DEF NoTick, TickRec

\* What follows the end of a rule's turn leaves the rest of the tick's rules.
LEMMA NextRowEffect ==
  ASSUME RecurrenceTypeOK, NEW t \in Ticks, NextRow(t)
  PROVE  \E s \in TickRec : /\ tick' = [tick EXCEPT ![t] = s] /\ s.pc \in {"idle", "loop"}
                            /\ s = NoTick \/ (s.now = tick[t].now /\ s.due = tick[t].due)
<1>0. tick[t] \in TickRec /\ tick \in [Ticks -> TickRec]
  BY RecurrenceTypes
<1>1. CASE tick[t].due = {}
  BY <1>1, NoTickTyped DEF NextRow
<1>2. CASE tick[t].due # {}
  <2> DEFINE s == [tick[t] EXCEPT !.pc = "loop", !.cur = NoRow, !.num = 0]
  <2>1. tick' = [tick EXCEPT ![t] = s]
    BY <1>2 DEF NextRow
  <2>2. s \in TickRec /\ s.pc = "loop" /\ s.now = tick[t].now /\ s.due = tick[t].due
    BY <1>0 DEF TickRec
  <2> HIDE DEF s
  <2> QED
    BY <2>1, <2>2
<1> QED
  BY <1>1, <1>2

\* A tick reads the due rules.
LEMMA ScanStepGood ==
  ASSUME RecurrenceIInv, NEW t \in Ticks, SpawnScan(t)
  PROVE  RecurrenceIInv'
<1>0. RecurrenceTypeOK
  BY DEF RecurrenceIInv
<1> USE RecurrenceTypes
<1> DEFINE Due == {r \in Rules : rule[r].there /\ rule[r].enabled /\ rule[r].nextRunAt <= day}
           Read == {[rule |-> r, id |-> rule[r].id, edit |-> rule[r].edit,
                     at |-> rule[r].nextRunAt] : r \in Due}
           s == [NoTick EXCEPT !.pc = "loop", !.now = day, !.due = Read]
<1>1. tick' = [tick EXCEPT ![t] = s]
      /\ UNCHANGED <<day, project, rule, spawned, admin, sweep, touched, upsets>>
  BY DEF SpawnScan
<1>2. ASSUME NEW x \in Read PROVE x \in DueRow /\ x.at <= day /\ DueRead(x)'
  <2>1. PICK r \in Due : x = [rule |-> r, id |-> rule[r].id, edit |-> rule[r].edit,
                              at |-> rule[r].nextRunAt]
    OBVIOUS
  <2>2. rule[r] \in RuleRow /\ r \in Rules /\ rule[r].enabled /\ rule[r].nextRunAt <= day
    BY <1>0
  <2>3. x \in DueRow /\ x.rule = r /\ x.edit = rule[r].edit /\ x.at = rule[r].nextRunAt
          /\ x.edit \in Nat
    BY <2>1, <2>2 DEF DueRow, RuleRow
  <2> QED
    BY <1>1, <2>2, <2>3 DEF DueRead
<1>3. Read \subseteq DueRow
  BY <1>2
<1> HIDE DEF Read
<1>4. s \in TickRec /\ s.pc = "loop" /\ s.now = day /\ s.due = Read
  <2>1. PICK q \in TickRec : q = NoTick
    BY NoTickTyped
  <2>2. s = [q EXCEPT !.pc = "loop", !.now = day, !.due = Read]
    BY <2>1
  <2>3. day \in Days
    BY <1>0 DEF Days
  <2> HIDE DEF s
  <2> QED
    BY <1>3, <2>2, <2>3 DEF TickRec
<1> HIDE DEF s
<1>5. s.now <= day /\ \A x \in s.due : x.at <= s.now /\ DueRead(x)'
  BY <1>0, <1>2, <1>4
<1>6. rule' \in [Rules -> RuleRow] /\ \A r \in Rules : RuleGrows(r)
  BY <1>0, <1>1, RulesKept
<1> QED
  BY <1>1, <1>4, <1>5, <1>6, TickMovesOn

\* A tick goes on to its next rule, or ends.
LEMMA LeavesRow ==
  ASSUME RecurrenceIInv, NEW t \in Ticks, NEW s \in TickRec, s.pc \in {"idle", "loop"},
         s = NoTick \/ (s.now = tick[t].now /\ s.due \subseteq tick[t].due),
         tick' = [tick EXCEPT ![t] = s],
         rule' \in [Rules -> RuleRow], \A r \in Rules : RuleGrows(r),
         upsets' = upsets \/ Upset,
         UNCHANGED <<day, project, spawned, admin, sweep, touched>>
  PROVE  RecurrenceIInv'
<1>0. RecurrenceTypeOK /\ TickGood(t) /\ day \in Nat /\ tick[t] \in TickRec /\ tick[t].now \in Nat
  BY RecurrenceTypes DEF RecurrenceIInv, TickRec, Days
<1>1. CASE s = NoTick
  <2>1. s.now = 0 /\ s.due = {}
    BY <1>1, NoTickTyped
  <2>2. s.now <= day /\ \A x \in s.due : x.at <= s.now /\ DueRead(x)'
    BY <1>0, <2>1
  <2> QED
    BY <2>2, TickMovesOn
<1>2. CASE s.now = tick[t].now /\ s.due \subseteq tick[t].due
  <2>1. ASSUME NEW x \in s.due PROVE x.at <= s.now /\ DueRead(x)'
    <3>1. x \in DueRow /\ x.at <= tick[t].now /\ DueRead(x)
      BY <1>0, <1>2 DEF TickGood, TickRec
    <3>2. x.rule \in Rules /\ x.edit \in Nat /\ x.at \in Nat /\ x.at <= day
      BY <1>0, <3>1, RecurrenceAssumption DEF DueRow, Runs, TickGood
    <3>3. /\ rule[x.rule].edit \in Nat /\ rule[x.rule].nextRunAt \in Nat
          /\ rule'[x.rule].edit \in Nat /\ rule'[x.rule].nextRunAt \in Nat
      BY <1>0, <3>2, RecurrenceTypes, RecurrenceAssumption DEF RuleRow, Runs
    <3>4. RuleGrows(x.rule)
      BY <3>2
    <3> QED
      BY <1>0, <1>2, <3>1, <3>2, <3>3, <3>4 DEF DueRead, RuleGrows
  <2> QED
    BY <1>0, <1>2, <2>1, TickMovesOn DEF TickGood
<1> QED
  BY <1>1, <1>2

\* The real nextRunAt is written, a statement throws, or the tick dies.
LEMMA EndSteps ==
  ASSUME RecurrenceIInv, NEW t \in Ticks, SpawnFinish(t) \/ SpawnFault(t)
  PROVE  RecurrenceIInv'
<1>0. RecurrenceTypeOK /\ TickGood(t)
  BY DEF RecurrenceIInv
<1> USE RecurrenceTypes
<1>1. CASE SpawnFinish(t)
  <2> DEFINE x == tick[t].cur
  <2>1. PICK s \in TickRec : /\ tick' = [tick EXCEPT ![t] = s] /\ s.pc \in {"idle", "loop"}
                             /\ s = NoTick \/ (s.now = tick[t].now /\ s.due = tick[t].due)
    BY <1>0, <1>1, NextRowEffect DEF SpawnFinish
  <2>2. x \in DueRow /\ x.rule \in Rules
    BY <1>0, <1>1 DEF SpawnFinish, TickGood, Busy, DueRow
  <2> DEFINE r == x.rule
             n == IF rule[r].there /\ rule[r].id = x.id THEN day + Period ELSE rule[r].nextRunAt
  <2>3. rule' = [rule EXCEPT ![r] = [rule[r] EXCEPT !.nextRunAt = n]]
    BY <1>1 DEF SpawnFinish
  <2>4. /\ rule[r] \in RuleRow /\ n \in Runs /\ (n = rule[r].nextRunAt \/ n > day)
        /\ \A q \in Rules : rule[q].edit \in Nat /\ rule[q].nextRunAt \in Nat
    BY <1>0, <2>2, RecurrenceAssumption DEF RuleRow, Runs
  <2> HIDE DEF n, r
  <2>5. r \in Rules
    BY <2>2 DEF r
  <2>6. /\ rule'[r] \in RuleRow /\ rule'[r].edit = rule[r].edit
        /\ rule'[r].enabled = rule[r].enabled /\ rule'[r].nextRunAt = n
    BY <1>0, <2>3, <2>4, <2>5 DEF RuleRow
  <2>7. rule' \in [Rules -> RuleRow] /\ \A q \in Rules : q # r => rule'[q] = rule[q]
    BY <1>0, <2>3, <2>5, <2>6
  <2>8. \A q \in Rules : RuleGrows(q)
    BY <2>4, <2>5, <2>6, <2>7 DEF RuleGrows
  <2>9. UNCHANGED <<day, project, spawned, admin, sweep, touched, upsets>>
    BY <1>1 DEF SpawnFinish
  <2> QED
    BY <2>1, <2>7, <2>8, <2>9, LeavesRow
<1>2. CASE SpawnFault(t)
  <2>1. UNCHANGED <<day, project, rule, spawned, admin, sweep, touched>> /\ Upset
    BY <1>2 DEF SpawnFault
  <2>2. \E s \in TickRec : /\ tick' = [tick EXCEPT ![t] = s] /\ s.pc \in {"idle", "loop"}
                           /\ s = NoTick \/ (s.now = tick[t].now /\ s.due = tick[t].due)
    BY <1>0, <1>2, NextRowEffect, NoTickTyped DEF SpawnFault
  <2>3. rule' \in [Rules -> RuleRow] /\ \A r \in Rules : RuleGrows(r)
    BY <1>0, <2>1, RulesKept
  <2> QED
    BY <2>1, <2>2, <2>3, LeavesRow
<1> QED
  BY <1>1, <1>2

\* The tasks there are stay behind their rules.
LEMMA TasksKept ==
  ASSUME RecurrenceIInv, RecurrenceTypeOK', \A r \in Rules : RuleGrows(r), day' = day,
         project'.nextTaskNumber >= project.nextTaskNumber, spawned' = spawned
  PROVE  SpawnedInv'
<1>0. /\ RecurrenceTypeOK /\ SpawnedInv /\ day \in Nat /\ \A n \in Runs : n \in Nat
      /\ project.nextTaskNumber \in Nat /\ project'.nextTaskNumber \in Nat
  BY RecurrenceTypes, RecurrenceAssumption DEF Runs, RecurrenceTypeOK, RecurrenceIInv
<1>1. ASSUME NEW x \in spawned
      PROVE  /\ x.rule \in Rules /\ x.num \in Nat /\ x.due \in Runs
             /\ x.due <= day /\ x.due < rule'[x.rule].nextRunAt
             /\ x.num < project'.nextTaskNumber
  <2>1. /\ x.rule \in Rules /\ x.due \in Runs /\ x.due <= day /\ x.due < rule[x.rule].nextRunAt
        /\ x.num \in Nat /\ x.num < project.nextTaskNumber
    BY <1>0, <1>1 DEF SpawnedInv
  <2>2. x.due < rule'[x.rule].nextRunAt
    BY <1>0, <2>1, RulesAdvance
  <2> QED
    BY <1>0, <2>1, <2>2
<1> QED
  BY <1>1 DEF SpawnedInv

\* A claim is for a run that is ahead of everything claimed so far, and puts the
\* rule ahead of it.
LEMMA ClaimStep ==
  ASSUME RecurrenceIInv, NEW t \in Ticks, NEW x \in tick[t].due, SpawnClaim(t, x)
  PROVE  RecurrenceIInv'
<1>0. /\ RecurrenceTypeOK /\ TickGood(t) /\ tick[t].pc = "loop" /\ SpawnedInv /\ RunsInv
      /\ NumbersInv /\ SweepInv
  BY DEF RecurrenceIInv, SpawnClaim
<1> USE RecurrenceTypes
<1>1. /\ tick[t] \in TickRec /\ x \in DueRow /\ tick[t].now \in Nat /\ tick[t].now \in 0..MaxDay
      /\ UNCHANGED <<day, project, spawned, admin, sweep, touched, upsets>>
  BY <1>0 DEF TickRec, Days, SpawnClaim
<1>2. x.rule \in Rules /\ x.at \in Nat /\ x.edit \in Nat /\ x.at <= tick[t].now /\ tick[t].now <= day
  BY <1>0, <1>1, RecurrenceAssumption DEF DueRow, Runs, TickGood
<1>3. CASE rule[x.rule].there /\ rule[x.rule].id = x.id /\ rule[x.rule].nextRunAt = x.at
  <2> DEFINE r == x.rule
             n == tick[t].now + Provisional
             s == [tick[t] EXCEPT !.pc = "number", !.cur = x, !.due = tick[t].due \ {x}]
  <2>1. rule' = [rule EXCEPT ![r] = [rule[r] EXCEPT !.nextRunAt = n]]
    BY <1>3 DEF SpawnClaim
  <2>2. tick' = [tick EXCEPT ![t] = s]
    BY <1>0, <1>3 DEF SpawnClaim
  <2>3. n \in Runs /\ n > x.at /\ rule[r].nextRunAt = x.at /\ rule[r] \in RuleRow
    BY <1>0, <1>1, <1>2, <1>3 DEF Runs
  <2>4. /\ s \in TickRec /\ s.pc = "number" /\ s.cur = x /\ s.due = tick[t].due \ {x}
        /\ s.now = tick[t].now
    BY <1>1 DEF TickRec
  <2> HIDE DEF n, s
  <2>5. \A q \in Rules : rule[q].edit \in Nat /\ rule[q].nextRunAt \in Nat
    BY <1>0, RecurrenceAssumption DEF RuleRow, Runs
  <2>6. /\ rule'[r] \in RuleRow /\ rule'[r].edit = rule[r].edit
        /\ rule'[r].enabled = rule[r].enabled /\ rule'[r].nextRunAt = n
    BY <1>0, <1>2, <2>1, <2>3 DEF RuleRow
  <2>7. rule' \in [Rules -> RuleRow] /\ \A q \in Rules : q # r => rule'[q] = rule[q]
    BY <1>0, <1>2, <2>1, <2>6
  <2>8. \A q \in Rules : RuleGrows(q)
    BY <1>2, <2>3, <2>5, <2>6, <2>7 DEF RuleGrows, Runs
  <2>9. tick'[t] = s /\ tick' \in [Ticks -> TickRec] /\ \A u \in Ticks : u # t => tick'[u] = tick[u]
    BY <1>0, <2>2, <2>4
  <2>10. RecurrenceTypeOK'
    BY <1>0, <1>1, <2>7, <2>9 DEF RecurrenceTypeOK, RuleRow, TickRec
  <2>11. SpawnedInv'
    <3>1. project'.nextTaskNumber >= project.nextTaskNumber
      BY <1>0, <1>1
    <3> QED
      BY <1>1, <2>8, <2>10, <3>1, TasksKept
  <2>12. TickGood(t)'
    <3>1. \A y \in s.due : y.at <= s.now /\ DueRead(y)'
      <4> SUFFICES ASSUME NEW y \in s.due PROVE y.at <= s.now /\ DueRead(y)'
        OBVIOUS
      <4>1. y \in DueRow /\ y.at <= tick[t].now /\ DueRead(y)
        BY <1>0, <1>1, <2>4 DEF TickGood, TickRec
      <4>2. y.rule \in Rules /\ y.edit \in Nat /\ y.at \in Nat /\ y.at <= day
        BY <1>0, <1>1, <4>1, RecurrenceAssumption DEF DueRow, Runs, TickGood
      <4> QED
        BY <1>0, <1>1, <2>4, <2>8, <2>10, <4>1, <4>2, RulesAdvance DEF DueRead
    <3>2. x.at <= day' /\ x.at < rule'[x.rule].nextRunAt /\ tick'[t].now <= day'
      BY <1>0, <1>1, <1>2, <2>3, <2>4, <2>6, <2>9
    <3> QED
      BY <1>1, <2>4, <2>9, <3>1, <3>2 DEF TickGood
  <2>13. \A u \in Ticks : TickGood(u)'
    BY <1>0, <1>1, <2>8, <2>9, <2>10, <2>12, TickKept DEF RecurrenceIInv
  <2>14. \A y \in spawned : ~SameRun(x, y)
    BY <1>0, <1>2, <2>3, RecurrenceAssumption DEF SpawnedInv, SameRun, Runs
  <2>15. \A u \in Ticks : Claimed(u) => ~(tick[u].cur.rule = x.rule /\ tick[u].cur.at = x.at)
    <3>1. \A u \in Ticks : Claimed(u) => /\ tick[u].cur \in DueRow /\ tick[u].cur.at \in Nat
                                         /\ tick[u].cur.at < rule[tick[u].cur.rule].nextRunAt
      BY RecurrenceAssumption DEF RecurrenceIInv, TickGood, Busy, Claimed, DueRow, Runs
    <3> QED
      BY <1>2, <2>3, <3>1
  <2>16. \A u \in Ticks : u # t => (Claimed(u)' <=> Claimed(u))
    BY <2>9 DEF Claimed
  <2>17. RunsInv'
    BY <1>0, <1>1, <2>4, <2>9, <2>14, <2>15, <2>16 DEF RunsInv, SameRun
  <2>18. NumbersInv'
    BY <1>0, <1>1, <2>4, <2>9 DEF NumbersInv, KeyNumbersUnique
  <2>19. SweepInv'
    BY <1>0, <1>1 DEF SweepInv
  <2> QED
    BY <2>10, <2>11, <2>13, <2>17, <2>18, <2>19 DEF RecurrenceIInv
<1>4. CASE ~(rule[x.rule].there /\ rule[x.rule].id = x.id /\ rule[x.rule].nextRunAt = x.at)
  <2>1. /\ tick' = [tick EXCEPT ![t] = IF tick[t].due = {x} THEN NoTick
                                   ELSE [tick[t] EXCEPT !.due = tick[t].due \ {x}]]
        /\ rule' = rule
    BY <1>4 DEF SpawnClaim
  <2>2. rule' \in [Rules -> RuleRow] /\ \A r \in Rules : RuleGrows(r)
    BY <1>0, <2>1, RulesKept
  <2>3. CASE tick[t].due = {x}
    <3>1. tick' = [tick EXCEPT ![t] = NoTick]
      BY <2>1, <2>3
    <3>2. PICK s \in TickRec : s = NoTick /\ s.pc = "idle"
      BY NoTickTyped
    <3>3. tick' = [tick EXCEPT ![t] = s]
      BY <3>1, <3>2
    <3> QED
      BY <1>1, <2>2, <3>2, <3>3, LeavesRow
  <2>4. CASE tick[t].due # {x}
    <3> DEFINE s == [tick[t] EXCEPT !.due = tick[t].due \ {x}]
    <3>1. tick' = [tick EXCEPT ![t] = s]
      BY <2>1, <2>4
    <3>2. s \in TickRec /\ s.pc = "loop" /\ s.now = tick[t].now /\ s.due \subseteq tick[t].due
      BY <1>0, <1>1 DEF TickRec
    <3> HIDE DEF s
    <3> QED
      BY <1>1, <2>2, <3>1, <3>2, LeavesRow
  <2> QED
    BY <2>3, <2>4
<1> QED
  BY <1>3, <1>4

\* The number a tick takes is the project's next one, which nobody holds.
LEMMA NumberStep ==
  ASSUME RecurrenceIInv, NEW t \in Ticks, SpawnNumber(t)
  PROVE  RecurrenceIInv'
<1>0. /\ RecurrenceTypeOK /\ TickGood(t) /\ tick[t].pc = "number" /\ SpawnedInv /\ RunsInv
      /\ NumbersInv /\ SweepInv
      /\ UNCHANGED <<day, rule, spawned, admin, sweep, touched, upsets>>
  BY DEF RecurrenceIInv, SpawnNumber
<1> USE RecurrenceTypes
<1>1. rule' \in [Rules -> RuleRow] /\ \A r \in Rules : RuleGrows(r)
  BY <1>0, RulesKept
<1>2. CASE project.there
  <2> DEFINE n == project.nextTaskNumber
             s == [tick[t] EXCEPT !.pc = "create", !.num = n]
  <2>1. tick' = [tick EXCEPT ![t] = s] /\ project' = [project EXCEPT !.nextTaskNumber = n + 1]
    BY <1>0, <1>2 DEF SpawnNumber
  <2>2. n \in Nat /\ tick[t] \in TickRec
    BY <1>0
  <2>3. /\ s \in TickRec /\ s.pc = "create" /\ s.num = n /\ s.cur = tick[t].cur
        /\ s.due = tick[t].due /\ s.now = tick[t].now
    BY <2>2 DEF TickRec
  <2>4. /\ project' \in [there: BOOLEAN, archivedAt: Days, nextTaskNumber: Nat]
        /\ project'.nextTaskNumber = n + 1 /\ project'.archivedAt = project.archivedAt
    BY <1>0, <2>1, <2>2
  <2> HIDE DEF s, n
  <2>5. tick'[t] = s /\ tick' \in [Ticks -> TickRec] /\ \A u \in Ticks : u # t => tick'[u] = tick[u]
    BY <1>0, <2>1, <2>3
  <2>6. RecurrenceTypeOK'
    BY <1>0, <2>4, <2>5 DEF RecurrenceTypeOK, TickRec
  <2>7. project'.nextTaskNumber >= project.nextTaskNumber /\ n = project.nextTaskNumber
    BY <2>2, <2>4 DEF n
  <2>8. SpawnedInv'
    BY <1>0, <1>1, <2>6, <2>7, TasksKept
  <2>9. TickGood(t)'
    BY <1>0, <2>3, <2>5 DEF TickGood, Busy, DueRead
  <2>10. \A u \in Ticks : TickGood(u)'
    BY <1>0, <1>1, <2>5, <2>6, <2>9, TickKept DEF RecurrenceIInv
  <2>11. \A u \in Ticks : (Claimed(u)' <=> Claimed(u)) /\ tick'[u].cur = tick[u].cur
    BY <1>0, <2>3, <2>5 DEF Claimed
  <2>12. RunsInv'
    BY <1>0, <2>11 DEF RunsInv, SameRun
  <2>13. \A y \in spawned : y.num \in Nat /\ y.num < n
    BY <1>0, <2>7 DEF SpawnedInv
  <2>14. \A u \in Ticks : tick[u].num \in Nat /\ (tick[u].pc = "create" => tick[u].num < n)
    BY <1>0, <2>7 DEF NumbersInv, TickRec
  <2>15. NumbersInv'
    BY <1>0, <2>2, <2>3, <2>4, <2>5, <2>13, <2>14 DEF NumbersInv, KeyNumbersUnique
  <2>16. SweepInv'
    BY <1>0, <2>4 DEF SweepInv
  <2> QED
    BY <2>6, <2>8, <2>10, <2>12, <2>15, <2>16 DEF RecurrenceIInv
<1>3. CASE ~project.there
  <2>1. NextRow(t) /\ project' = project
    BY <1>3 DEF SpawnNumber
  <2>2. PICK s \in TickRec : /\ tick' = [tick EXCEPT ![t] = s] /\ s.pc \in {"idle", "loop"}
                             /\ s = NoTick \/ (s.now = tick[t].now /\ s.due = tick[t].due)
    BY <1>0, <2>1, NextRowEffect
  <2> QED
    BY <1>0, <1>1, <2>1, <2>2, LeavesRow
<1> QED
  BY <1>2, <1>3

\* The claimed run becomes a task, under the number taken.
LEMMA CreateStep ==
  ASSUME RecurrenceIInv, NEW t \in Ticks, SpawnCreate(t)
  PROVE  RecurrenceIInv'
<1>0. /\ RecurrenceTypeOK /\ TickGood(t) /\ tick[t].pc = "create" /\ SpawnedInv /\ RunsInv
      /\ NumbersInv /\ SweepInv
      /\ UNCHANGED <<day, project, rule, admin, sweep, touched, upsets>>
  BY DEF RecurrenceIInv, SpawnCreate
<1> USE RecurrenceTypes
<1>1. rule' \in [Rules -> RuleRow] /\ \A r \in Rules : RuleGrows(r)
  BY <1>0, RulesKept
<1>2. CASE project.there
  <2> DEFINE c == tick[t].cur
             z == [rule |-> c.rule, id |-> c.id, due |-> c.at, num |-> tick[t].num]
             s == [tick[t] EXCEPT !.pc = "finish"]
  <2>1. tick' = [tick EXCEPT ![t] = s] /\ spawned' = spawned \cup {z}
    BY <1>0, <1>2 DEF SpawnCreate
  <2>2. /\ tick[t] \in TickRec /\ c \in DueRow /\ c.rule \in Rules /\ c.at \in Runs /\ c.at <= day
        /\ c.at < rule[c.rule].nextRunAt /\ tick[t].num \in Nat
    BY <1>0 DEF TickGood, Busy, DueRow, TickRec
  <2>3. /\ s \in TickRec /\ s.pc = "finish" /\ s.cur = tick[t].cur
        /\ s.due = tick[t].due /\ s.now = tick[t].now
    BY <2>2 DEF TickRec
  <2>4. /\ z.rule = c.rule /\ z.due = c.at /\ z.num = tick[t].num
    OBVIOUS
  <2> HIDE DEF s, z, c
  <2>5. tick'[t] = s /\ tick' \in [Ticks -> TickRec] /\ \A u \in Ticks : u # t => tick'[u] = tick[u]
    BY <1>0, <2>1, <2>3
  <2>6. \A x \in spawned' : x \in spawned \/ x = z
    BY <2>1
  <2>7. RecurrenceTypeOK'
    BY <1>0, <2>2, <2>4, <2>5, <2>6 DEF RecurrenceTypeOK, TickRec
  <2>8. tick[t].num < project.nextTaskNumber /\ \A x \in spawned : x.num # z.num
    BY <1>0, <2>4 DEF NumbersInv
  <2>9. SpawnedInv'
    BY <1>0, <2>2, <2>4, <2>6, <2>8 DEF SpawnedInv
  <2>10. TickGood(t)'
    BY <1>0, <2>3, <2>5 DEF TickGood, Busy, DueRead
  <2>11. \A u \in Ticks : TickGood(u)'
    BY <1>0, <1>1, <2>5, <2>7, <2>10, TickKept DEF RecurrenceIInv
  <2>12. \A x \in spawned : ~(x.rule = z.rule /\ x.due = z.due)
    BY <1>0, <2>4 DEF RunsInv, SameRun, Claimed, c
  <2>13. \A u \in Ticks : u # t /\ Claimed(u) => ~SameRun(tick[u].cur, z)
    BY <1>0, <2>4 DEF RunsInv, SameRun, Claimed, c
  <2>14. \A u \in Ticks : Claimed(u)' => u # t /\ Claimed(u) /\ tick'[u] = tick[u]
    BY <2>3, <2>5 DEF Claimed
  <2>15. RunsInv'
    <3>1. \A u \in Ticks : Claimed(u)' => \A x \in spawned' : ~SameRun(tick'[u].cur, x)
      BY <1>0, <2>6, <2>13, <2>14 DEF RunsInv
    <3>2. \A u, v \in Ticks : u # v /\ Claimed(u)' /\ Claimed(v)' =>
             ~(tick'[u].cur.rule = tick'[v].cur.rule /\ tick'[u].cur.at = tick'[v].cur.at)
      BY <1>0, <2>14 DEF RunsInv
    <3>3. \A x, y \in spawned' : x.rule = y.rule /\ x.due = y.due => x = y
      BY <1>0, <2>6, <2>12 DEF RunsInv
    <3> QED
      BY <3>1, <3>2, <3>3 DEF RunsInv, SameRun
  <2>16. \A u \in Ticks : tick'[u].pc = "create" => u # t /\ tick'[u] = tick[u]
    BY <2>3, <2>5
  <2>17. NumbersInv'
    <3>1. \A u \in Ticks : tick'[u].pc = "create" =>
             tick'[u].num < project'.nextTaskNumber /\ \A x \in spawned' : x.num # tick'[u].num
      BY <1>0, <2>4, <2>6, <2>16 DEF NumbersInv
    <3>2. \A u, v \in Ticks : u # v /\ tick'[u].pc = "create" /\ tick'[v].pc = "create" =>
             tick'[u].num # tick'[v].num
      BY <1>0, <2>16 DEF NumbersInv
    <3>3. KeyNumbersUnique'
      BY <1>0, <2>6, <2>8 DEF NumbersInv, KeyNumbersUnique
    <3> QED
      BY <3>1, <3>2, <3>3 DEF NumbersInv
  <2>18. SweepInv'
    BY <1>0 DEF SweepInv
  <2> QED
    BY <2>7, <2>9, <2>11, <2>15, <2>17, <2>18 DEF RecurrenceIInv
<1>3. CASE ~project.there
  <2>1. NextRow(t) /\ spawned' = spawned
    BY <1>3 DEF SpawnCreate
  <2>2. PICK s \in TickRec : /\ tick' = [tick EXCEPT ![t] = s] /\ s.pc \in {"idle", "loop"}
                             /\ s = NoTick \/ (s.now = tick[t].now /\ s.due = tick[t].due)
    BY <1>0, <2>1, NextRowEffect
  <2> QED
    BY <1>0, <1>1, <2>1, <2>2, LeavesRow
<1> QED
  BY <1>2, <1>3

\* The invariant holds before the first tick.
LEMMA RecurrenceStart == RecurrenceInit => RecurrenceIInv
<1> SUFFICES ASSUME RecurrenceInit PROVE RecurrenceIInv
  OBVIOUS
<1>0. 0 \in Days /\ 1 \in Days /\ 0 \in Runs /\ 1 \in Runs /\ MaxUpsets \in Nat /\ MaxDay \in Nat \ {0}
  BY RecurrenceAssumption DEF Days, Runs
<1>1. rule \in [Rules -> RuleRow]
  BY <1>0 DEF RecurrenceInit, RuleRow
<1>2. tick \in [Ticks -> TickRec] /\ \A t \in Ticks : tick[t] = NoTick
  BY NoTickTyped DEF RecurrenceInit
<1>3. project \in [there: BOOLEAN, archivedAt: Days, nextTaskNumber: Nat]
  BY <1>0 DEF RecurrenceInit
<1>4. sweep \in [on: BOOLEAN, at: Days, archivedAt: Days] /\ ~sweep.on /\ touched \in BOOLEAN
  BY <1>0 DEF RecurrenceInit, NoSweep
<1>5. admin \in [Admins -> {"idle", "archive", "restore"}] /\ upsets \in 0..MaxUpsets
      /\ day \in 1..MaxDay /\ day = 1 /\ spawned = {}
  BY <1>0 DEF RecurrenceInit
<1>6. RecurrenceTypeOK
  BY <1>1, <1>2, <1>3, <1>4, <1>5 DEF RecurrenceTypeOK, RuleRow, TickRec
<1>7. \A t \in Ticks : TickGood(t) /\ ~Claimed(t) /\ tick[t].pc # "create"
  BY <1>2, <1>5, NoTickTyped DEF TickGood, Busy, Claimed
<1>8. SpawnedInv /\ RunsInv /\ NumbersInv /\ SweepInv
  BY <1>4, <1>5, <1>7 DEF SpawnedInv, RunsInv, NumbersInv, KeyNumbersUnique, SweepInv
<1> QED
  BY <1>6, <1>7, <1>8 DEF RecurrenceIInv

\* Every step keeps the invariant of the rules.
LEMMA RecurrenceStep == RecurrenceIInv /\ [RecurrenceNext]_recurrenceVars => RecurrenceIInv'
<1> SUFFICES ASSUME RecurrenceIInv, [RecurrenceNext]_recurrenceVars PROVE RecurrenceIInv'
  OBVIOUS
<1>1. CASE UNCHANGED recurrenceVars
  <2>1. UNCHANGED <<day, project, rule, tick, spawned, admin, sweep, touched, upsets>>
    BY <1>1 DEF recurrenceVars
  <2>2. RecurrenceTypeOK /\ SweepInv /\ day \in Nat
    BY RecurrenceTypes DEF RecurrenceIInv
  <2>3. RecurrenceTypeOK' /\ SweepInv'
    BY <2>1, <2>2 DEF RecurrenceTypeOK, SweepInv
  <2>4. day <= day' /\ spawned' \subseteq spawned /\ \A t \in Ticks : tick'[t] = tick[t]
    BY <2>1, <2>2
  <2>5. project'.nextTaskNumber = project.nextTaskNumber /\ \A r \in Rules : RuleGrows(r)
    BY <2>1, <2>2, RulesKept
  <2> QED
    BY <2>3, <2>4, <2>5, QuietStep
<1>2. CASE RecurrenceNext
  BY <1>2, ScanStepGood, NumberStep, CreateStep, EndSteps, ClaimStep, RuleSteps, ProjectSteps
     DEF RecurrenceNext
<1> QED
  BY <1>1, <1>2

\* A claim that is won is for the rule as it stands, and a purge finds the
\* project archived for longer than the grace window.
LEMMA RecurrenceActs ==
  RecurrenceIInv /\ [RecurrenceNext]_recurrenceVars
      => [ClaimsCurrentRule /\ PurgeHonoursGrace]_recurrenceVars
<1> SUFFICES ASSUME RecurrenceIInv, RecurrenceNext PROVE ClaimsCurrentRule /\ PurgeHonoursGrace
  OBVIOUS
<1>0. RecurrenceTypeOK /\ SweepInv
  BY DEF RecurrenceIInv
<1> USE RecurrenceTypes
<1>1. PurgeHonoursGrace
  <2>1. CASE SweepDelete
    BY <1>0, <2>1 DEF SweepDelete, SweepInv, PurgeHonoursGrace
  <2>2. CASE project'.there = project.there
    BY <1>0, <2>2 DEF PurgeHonoursGrace
  <2>3. ASSUME NEW a \in Admins, AdminWrite(a) PROVE project'.there = project.there
    BY <1>0, <2>3 DEF AdminWrite
  <2>4. ASSUME NEW t \in Ticks, SpawnNumber(t) PROVE project'.there = project.there
    BY <1>0, <2>4 DEF SpawnNumber
  <2>5. \/ SweepDelete \/ UNCHANGED project
        \/ \E a \in Admins : AdminWrite(a)
        \/ \E t \in Ticks : SpawnNumber(t)
    BY DEF RecurrenceNext, SpawnScan, SpawnCreate, SpawnFinish, SpawnFault, SpawnClaim, RuleRemove,
           RuleUpsert, ArchiveRead, RestoreRead, SweepScan, SweepFails, DayPasses
  <2> QED
    BY <2>1, <2>2, <2>3, <2>4, <2>5
<1>2. ClaimsCurrentRule
  <2> SUFFICES ASSUME NEW t \in Ticks, tick[t].pc = "loop", tick'[t].pc = "number"
               PROVE  LET x == tick'[t].cur IN
                      rule[x.rule].there /\ rule[x.rule].enabled /\ rule[x.rule].edit = x.edit
    BY DEF ClaimsCurrentRule
  <2>1. tick'[t] # tick[t] /\ tick' # tick /\ TickGood(t) /\ tick[t] \in TickRec
    BY <1>0 DEF RecurrenceIInv
  <2>2. \A u \in Ticks : NextRow(u) => tick'[t].pc # "number"
    BY <1>0, <2>1, NextRowEffect
  <2>3. ASSUME NEW u \in Ticks
        PROVE  ~(SpawnScan(u) \/ SpawnNumber(u) \/ SpawnCreate(u) \/ SpawnFinish(u) \/ SpawnFault(u))
    <3>1. CASE u = t
      <4>1. ~(SpawnNumber(u) \/ SpawnCreate(u) \/ SpawnFinish(u) \/ SpawnScan(u))
        BY <3>1 DEF SpawnNumber, SpawnCreate, SpawnFinish, SpawnScan
      <4>2. tick' = [tick EXCEPT ![t] = NoTick] => tick'[t].pc = "idle"
        BY <1>0, NoTickTyped
      <4>3. ~SpawnFault(u)
        BY <2>2, <3>1, <4>2 DEF SpawnFault
      <4> QED
        BY <4>1, <4>3
    <3>2. CASE u # t
      <4>1. \A z : tick' = [tick EXCEPT ![u] = z] => tick'[t] = tick[t]
        BY <1>0, <3>2
      <4>2. NextRow(u) => tick'[t] = tick[t]
        BY <1>0, <3>2 DEF NextRow
      <4>3. SpawnNumber(u) \/ SpawnCreate(u) => tick'[t] = tick[t]
        BY <1>0, <3>2, <4>2 DEF SpawnNumber, SpawnCreate
      <4>4. SpawnScan(u) => tick'[t] = tick[t]
        BY <1>0, <3>2 DEF SpawnScan
      <4>5. SpawnFinish(u) \/ SpawnFault(u) => tick'[t] = tick[t]
        BY <4>1, <4>2 DEF SpawnFinish, SpawnFault
      <4> QED
        BY <2>1, <4>3, <4>4, <4>5
    <3> QED
      BY <3>1, <3>2
  <2>4. PICK u \in Ticks : \E x \in tick[u].due : SpawnClaim(u, x)
    BY <2>1, <2>3 DEF RecurrenceNext, RuleRemove, RuleUpsert, ArchiveRead, RestoreRead, AdminWrite,
                      SweepScan, SweepDelete, SweepFails, DayPasses
  <2>5. PICK x \in tick[u].due : SpawnClaim(u, x)
    BY <2>4
  <2>6. u = t
    BY <1>0, <2>1, <2>5 DEF SpawnClaim
  <2>7. /\ rule[x.rule].there /\ rule[x.rule].nextRunAt = x.at /\ tick'[t].cur = x
    <3>1. CASE rule[x.rule].there /\ rule[x.rule].id = x.id /\ rule[x.rule].nextRunAt = x.at
      BY <1>0, <2>1, <2>5, <2>6, <3>1 DEF SpawnClaim, TickRec
    <3>2. CASE ~(rule[x.rule].there /\ rule[x.rule].id = x.id /\ rule[x.rule].nextRunAt = x.at)
      <4>1. tick' = [tick EXCEPT ![t] = IF tick[t].due = {x} THEN NoTick
                                   ELSE [tick[t] EXCEPT !.due = tick[t].due \ {x}]]
        BY <2>5, <2>6, <3>2 DEF SpawnClaim
      <4>2. CASE tick[t].due = {x}
        BY <1>0, <2>1, <4>1, <4>2, NoTickTyped
      <4>3. CASE tick[t].due # {x}
        <5>1. tick'[t] = [tick[t] EXCEPT !.due = tick[t].due \ {x}]
          BY <1>0, <4>1, <4>3
        <5>2. tick'[t].pc = tick[t].pc
          BY <2>1, <5>1 DEF TickRec
        <5> QED
          BY <5>2
      <4> QED
        BY <4>2, <4>3
    <3> QED
      BY <3>1, <3>2
  <2>8. x \in DueRow /\ x.rule \in Rules /\ x.edit \in Nat /\ x.at \in Nat /\ DueRead(x)
    BY <2>1, <2>5, <2>6, RecurrenceAssumption DEF TickGood, TickRec, DueRow, Runs
  <2>9. rule[x.rule].edit \in Nat
    BY <1>0, <2>8 DEF RuleRow
  <2> QED
    BY <2>7, <2>8, <2>9 DEF DueRead
<1> QED
  BY <1>1, <1>2

\* Every reachable state of the recurrences and their project is well typed.
THEOREM RecurrenceTyped == RecurrenceSpec => []RecurrenceTypeOK
<1>1. RecurrenceIInv => RecurrenceTypeOK
  BY DEF RecurrenceIInv
<1> QED
  BY <1>1, RecurrenceStart, RecurrenceStep, PTL DEF RecurrenceSpec

\* For any rules, ticks and administrators: a due run becomes one task however
\* many overlapping ticks have read it, no two tasks share a key number, a claim
\* is won for the rule as it stands, and a project is deleted when it has been
\* archived for longer than the grace window or was touched during the sweep
\* (recurrence.service.ts, projects-purge.processor.ts).
THEOREM RecurrencesAreSound == RecurrenceSpec => RecurrenceSound
<1>1. RecurrenceIInv => OneTaskPerDueRun /\ KeyNumbersUnique
  BY DEF RecurrenceIInv, RunsInv, NumbersInv, OneTaskPerDueRun
<1> QED
  BY <1>1, RecurrenceStart, RecurrenceStep, RecurrenceActs, PTL
     DEF RecurrenceSpec, RecurrenceSound

-----------------------------------------------------------------------------
(* Notifications *)

\* The recipient a worker has in hand and has not routed yet.
Pending(s) == \/ s.pc \in {"digest", "find", "append", "create", "enqueue"}
              \/ s.pc \in {"claim", "emit"} /\ s.then = "create"

\* The notes that are lost when a worker in state s dies.
HeldBy(s, n) == /\ s.event = n[1]
                /\ n[2] \in s.todo \/ (Pending(s) /\ s.user = n[2])

\* What a worker in state s knows, nb being the number of the next bucket.
SlotInv(w, s, nb) ==
    /\ s.todo # {} => s.event \in Events
    /\ Pending(s) => /\ w \in Dispatchers
                     /\ s.event \in Events /\ s.user \in Users /\ s.user \notin s.todo
    /\ s.pc \in {"next", "digest", "find", "append", "enqueue"} => s.then = "next"
    /\ s.pc \in {"append", "claim", "emit"} => s.b \in BucketIds /\ s.b < nb
    /\ \A b \in s.due : b < nb

\* A job that waits has attempts left, and the note one row k more than its
\* stalls only when a worker has written it.
JobInv(j, k) ==
    /\ j.st \in {"none", "waiting", "written"} => j.tries < Attempts
    /\ j.st = "none" => j.stalls = 0
    /\ j.st = "waiting" => k <= j.stalls
    /\ k <= 1 + j.stalls

ItemsInv(b) ==
    /\ IsFiniteSet(bucket[b].items)
    /\ b >= nextB => bucket[b].items = {} /\ ~bucket[b].sent
    /\ b \in ready => bucket[b].sent

NotesTypes == /\ TypeOK
              /\ \A w \in Workers : SlotInv(w, slot[w], nextB)
              /\ \A n \in Notes : JobInv(job[n], rows[n])
              /\ \A b \in BucketIds : ItemsInv(b)

\* No two workers have one event, and what a worker holds is not routed.
OwnInv ==
    /\ \A w, v \in Workers : w # v /\ slot[w].event = slot[v].event => slot[w].event = 0
    /\ \A w \in Workers, n \in Notes : HeldBy(slot[w], n) => route[n] = "none"

\* A note that is not routed is nowhere, a batched one in a bucket, and no
\* note is in two.
PlaceInv ==
    /\ \A n \in Notes : route[n] = "none" =>
          /\ job[n].st = "none" /\ rows[n] = 0
          /\ \A b \in BucketIds : n \notin bucket[b].items
    /\ \A n \in Notes : route[n] = "batched" => \E b \in BucketIds : n \in bucket[b].items
    /\ \A b, c \in BucketIds : \A n \in bucket[b].items : n \in bucket[c].items => b = c

Emits(w, b) == slot[w].pc = "emit" /\ slot[w].b = b

\* A bucket has one owner from its claim to its delivery, and until then its
\* items have no row.
FlushInv ==
    /\ \A w \in Workers, b \in BucketIds : Emits(w, b) => bucket[b].sent /\ b \notin ready
    /\ \A w, v \in Workers, b \in BucketIds : Emits(w, b) /\ Emits(v, b) => w = v
    /\ \A b \in BucketIds : \A n \in bucket[b].items :
          /\ job[n].st = "none"
          /\ (~bucket[b].sent \/ b \in ready \/ \E w \in Workers : Emits(w, b)) => rows[n] = 0

Appenders(b) == {d \in Dispatchers : slot[d].pc = "append" /\ slot[d].b = b}

\* The items of a bucket and those on their way to it.
SizeInv(b) ==
    Cardinality(bucket[b].items) + Cardinality(Appenders(b)) <= Cap - 1 + Cardinality(Dispatchers)

NotesIInv == NotesTypes /\ OwnInv /\ PlaceInv /\ FlushInv /\ \A b \in BucketIds : SizeInv(b)

Moved(w, s) == slot' = [slot EXCEPT ![w] = s]

\* What every step of a worker does to its own state: it stays well formed, and
\* holds nothing it did not hold before.
Shape(w, s) ==
    /\ s \in Slot /\ SlotInv(w, s, nextB')
    /\ s.event \in {0, slot[w].event}
    /\ \A n \in Notes : HeldBy(s, n) => HeldBy(slot[w], n)

\* A worker that only goes to another step.
Stepped(s, p) == [s EXCEPT !.pc = p]

\* A worker that goes on to its next statement.
LEMMA SlotStepped ==
  ASSUME NEW s \in Slot,
         NEW p \in {"digest", "find", "append", "create", "claim", "emit", "enqueue"}
  PROVE  /\ Stepped(s, p) \in Slot /\ Stepped(s, p).pc = p
         /\ Stepped(s, p).event = s.event /\ Stepped(s, p).todo = s.todo
         /\ Stepped(s, p).user = s.user /\ Stepped(s, p).b = s.b
         /\ Stepped(s, p).then = s.then /\ Stepped(s, p).due = s.due
  BY DEF Slot, Stepped

\* A worker at rest.
LEMMA IdleSlot ==
  /\ Idle \in Slot /\ Idle.pc = "idle" /\ Idle.event = 0 /\ Idle.todo = {} /\ Idle.then = "next"
  /\ Idle.due = {}
  /\ \A w, nb : SlotInv(w, Idle, nb)
  /\ \A n : ~HeldBy(Idle, n)
<1>1. /\ Idle \in Slot /\ Idle.pc = "idle" /\ Idle.event = 0 /\ Idle.todo = {} /\ Idle.then = "next"
      /\ Idle.due = {}
  BY DEF Idle, Slot
<1> QED
  BY <1>1 DEF SlotInv, Pending, HeldBy

\* A worker with recipients or buckets before it.
Waiting(e, todo, due) == [Idle EXCEPT !.pc = "next", !.event = e, !.todo = todo, !.due = due]

\* A worker before its next user or bucket.
LEMMA SlotWaiting ==
  ASSUME NEW e \in {0} \cup Events, NEW todo \in SUBSET Users, NEW due \in SUBSET BucketIds
  PROVE  /\ Waiting(e, todo, due) \in Slot /\ Waiting(e, todo, due).pc = "next"
         /\ Waiting(e, todo, due).event = e /\ Waiting(e, todo, due).todo = todo
         /\ Waiting(e, todo, due).then = "next" /\ Waiting(e, todo, due).due = due
  BY DEF Idle, Slot, Waiting

\* The state of a worker between two recipients or two buckets.
LEMMA RestFacts ==
  ASSUME NotesTypes, NEW w \in Workers, NEW todo \in SUBSET Users, todo \subseteq slot[w].todo
  PROVE  LET s == Rest(w, todo) IN
         /\ s \in Slot /\ SlotInv(w, s, nextB) /\ s.pc \in {"idle", "next"}
         /\ s.event \in {0, slot[w].event}
         /\ \A n : HeldBy(s, n) => slot[w].event = n[1] /\ n[2] \in todo
<1> DEFINE s == Rest(w, todo)
<1>1. slot[w] \in Slot /\ SlotInv(w, slot[w], nextB)
  BY DEF NotesTypes, TypeOK
<1>2. CASE todo = {} /\ slot[w].due = {}
  <2>1. s = Idle
    BY <1>2 DEF Rest
  <2> QED
    BY <2>1, IdleSlot
<1>3. CASE ~(todo = {} /\ slot[w].due = {})
  <2>1. s = Waiting(slot[w].event, todo, slot[w].due)
    BY <1>3 DEF Rest, Waiting
  <2>2. slot[w].event \in {0} \cup Events /\ slot[w].due \in SUBSET BucketIds
    BY <1>1 DEF Slot
  <2>3. /\ s \in Slot /\ s.pc = "next" /\ s.event = slot[w].event /\ s.todo = todo
        /\ s.then = "next" /\ s.due = slot[w].due
    <3>1. PICK e \in {0} \cup Events, due \in SUBSET BucketIds : e = slot[w].event /\ due = slot[w].due
      BY <2>2, Zenon
    <3>2. s = Waiting(e, todo, due)
      BY <2>1, <3>1, Zenon
    <3>3. /\ Waiting(e, todo, due) \in Slot /\ Waiting(e, todo, due).pc = "next"
          /\ Waiting(e, todo, due).event = e /\ Waiting(e, todo, due).todo = todo
          /\ Waiting(e, todo, due).then = "next" /\ Waiting(e, todo, due).due = due
      BY SlotWaiting
    <3> HIDE DEF s
    <3> QED
      BY <3>1, <3>2, <3>3
  <2>4. SlotInv(w, s, nextB)
    BY <1>1, <2>3 DEF SlotInv, Pending
  <2>5. \A n : HeldBy(s, n) => slot[w].event = n[1] /\ n[2] \in todo
    BY <2>3 DEF HeldBy, Pending
  <2> QED
    BY <2>3, <2>4, <2>5
<1> QED
  BY <1>2, <1>3

\* After flushOne.
LEMMA AfterFlushFacts ==
  ASSUME NotesTypes, NEW w \in Workers, slot[w].pc \in {"claim", "emit"}, AfterFlush(w)
  PROVE  \E s \in Slot : /\ Moved(w, s) /\ SlotInv(w, s, nextB) /\ s.pc \in {"idle", "next", "create"}
                         /\ s.event \in {0, slot[w].event}
                         /\ \A n : HeldBy(s, n) => HeldBy(slot[w], n)
<1>1. slot[w] \in Slot /\ SlotInv(w, slot[w], nextB) /\ slot \in [Workers -> Slot]
  BY DEF NotesTypes, TypeOK
<1>2. CASE slot[w].then = "create"
  <2> DEFINE s == Stepped(slot[w], "create")
  <2>1. Moved(w, s)
    BY <1>1, <1>2 DEF AfterFlush, Goto, Moved, Stepped
  <2>2. /\ s \in Slot /\ s.pc = "create" /\ s.event = slot[w].event /\ s.todo = slot[w].todo
        /\ s.user = slot[w].user /\ s.b = slot[w].b /\ s.then = slot[w].then /\ s.due = slot[w].due
    BY <1>1, SlotStepped
  <2> HIDE DEF s
  <2>3. Pending(slot[w]) /\ Pending(s)
    BY <1>2, <2>2 DEF Pending
  <2>4. SlotInv(w, s, nextB)
    BY <1>1, <2>2, <2>3 DEF SlotInv
  <2>5. \A n : HeldBy(s, n) => HeldBy(slot[w], n)
    BY <2>2, <2>3 DEF HeldBy
  <2> QED
    BY <2>1, <2>2, <2>4, <2>5
<1>3. CASE slot[w].then # "create"
  <2>1. Moved(w, Rest(w, slot[w].todo))
    BY <1>3 DEF AfterFlush, Proceed, Moved
  <2>2. slot[w].todo \in SUBSET Users
    BY <1>1 DEF Slot
  <2>3. \A n : slot[w].event = n[1] /\ n[2] \in slot[w].todo => HeldBy(slot[w], n)
    BY DEF HeldBy
  <2> QED
    BY <2>1, <2>2, <2>3, RestFacts
<1> QED
  BY <1>2, <1>3

\* Ownership survives a step of one worker that routes notes nobody else holds.
LEMMA OwnStep ==
  ASSUME NotesTypes, OwnInv, NEW w \in Workers, NEW s, Moved(w, s), Shape(w, s),
         \A n \in Notes : HeldBy(s, n) => route'[n] = route[n],
         \A n \in Notes : route'[n] = route[n] \/ HeldBy(slot[w], n) \/ route[n] # "none"
  PROVE  OwnInv'
<1>1. slot'[w] = s /\ \A v \in Workers : v # w => slot'[v] = slot[v]
  BY DEF Moved, NotesTypes, TypeOK
<1>2. \A v, x \in Workers : v # x /\ slot'[v].event = slot'[x].event => slot'[v].event = 0
  BY <1>1 DEF OwnInv, Shape
<1>3. ASSUME NEW v \in Workers, NEW n \in Notes, HeldBy(slot'[v], n) PROVE route'[n] = "none"
  <2>1. CASE v = w
    BY <1>1, <1>3, <2>1 DEF OwnInv, Shape
  <2>2. CASE v # w
    <3>1. HeldBy(slot[v], n) /\ route[n] = "none"
      BY <1>1, <1>3, <2>2 DEF OwnInv
    <3>2. n[1] \in Events /\ 0 \notin Events
      BY DEF Notes, Events
    <3>3. ~HeldBy(slot[w], n)
      BY <2>2, <3>1, <3>2 DEF HeldBy, OwnInv
    <3> QED
      BY <3>1, <3>3
  <2> QED
    BY <2>1, <2>2
<1> QED
  BY <1>2, <1>3 DEF OwnInv

\* Nothing that places a note changed.
LEMMA PlaceSame ==
  ASSUME PlaceInv, UNCHANGED <<route, job, rows>>,
         \A b \in BucketIds : bucket'[b].items = bucket[b].items
  PROVE  PlaceInv'
  BY DEF PlaceInv

\* Only the route of notes changed, to an end.
LEMMA PlaceDrops ==
  ASSUME PlaceInv, UNCHANGED <<job, rows, bucket>>,
         \A n \in Notes : route'[n] = route[n] \/ route'[n] \in {"dropped", "lost"}
  PROVE  PlaceInv'
  BY DEF PlaceInv

\* The flushes are left alone by a step that neither starts nor ends one.
LEMMA FlushSame ==
  ASSUME FlushInv, UNCHANGED <<job, rows, ready>>,
         \A b \in BucketIds : bucket'[b].items = bucket[b].items /\ bucket'[b].sent = bucket[b].sent,
         \A w \in Workers, b \in BucketIds : Emits(w, b)' => Emits(w, b)
  PROVE  FlushInv'
  BY DEF FlushInv

\* A bucket whose items stay does not outgrow its bound when no append begins.
LEMMA SizeKept ==
  ASSUME NEW b \in BucketIds, SizeInv(b), bucket'[b].items = bucket[b].items,
         IsFiniteSet(bucket[b].items),
         \A d \in Dispatchers : slot'[d].pc = "append" /\ slot'[d].b = b
                                   => slot[d].pc = "append" /\ slot[d].b = b
  PROVE  SizeInv(b)'
<1>1. Appenders(b)' \subseteq Appenders(b) /\ Appenders(b) \subseteq Dispatchers
  BY DEF Appenders
<1>2. /\ IsFiniteSet(Appenders(b)) /\ Cardinality(Appenders(b)') <= Cardinality(Appenders(b))
      /\ IsFiniteSet(Appenders(b)')
  BY <1>1, DispatchersAssumption, FS_Subset
<1>3. PICK i \in Nat, a \in Nat, c \in Nat, k \in Nat :
          /\ i = Cardinality(bucket[b].items) /\ a = Cardinality(Appenders(b))
          /\ c = Cardinality(Appenders(b)') /\ k = Cardinality(Dispatchers)
  BY <1>2, DispatchersAssumption, FS_CardinalityType
<1>4. i + a <= Cap - 1 + k /\ c <= a
  BY <1>2, <1>3 DEF SizeInv
<1>5. i + c <= Cap - 1 + k
  BY <1>3, <1>4, LimitsAssumption
<1> QED
  BY <1>3, <1>5 DEF SizeInv

\* Buckets are only added.
LEMMA SlotLater ==
  ASSUME NEW w, NEW x \in Slot, NEW m \in Nat, NEW k \in Nat, m <= k, SlotInv(w, x, m)
  PROVE  SlotInv(w, x, k)
<1>1. x.due \subseteq Nat /\ (x.b \in BucketIds => x.b \in Nat)
  BY LimitsAssumption DEF Slot, BucketIds
<1>2. \A b \in Nat : b < m => b < k
  OBVIOUS
<1> QED
  BY <1>1, <1>2 DEF SlotInv

\* The other workers' knowledge outlives a step.
LEMMA SlotsAfter ==
  ASSUME NotesTypes, NEW w \in Workers, NEW s, Moved(w, s), Shape(w, s),
         nextB' \in Nat, nextB <= nextB'
  PROVE  slot' \in [Workers -> Slot] /\ \A v \in Workers : SlotInv(v, slot'[v], nextB')
<1>1. slot \in [Workers -> Slot] /\ nextB \in Nat /\ \A v \in Workers : SlotInv(v, slot[v], nextB)
  BY LimitsAssumption DEF NotesTypes, TypeOK
<1>2. slot' \in [Workers -> Slot] /\ slot'[w] = s /\ \A v \in Workers : v # w => slot'[v] = slot[v]
  BY <1>1 DEF Moved, Shape
<1>3. ASSUME NEW v \in Workers PROVE SlotInv(v, slot[v], nextB')
  <2>1. PICK x \in Slot, m \in Nat, k \in Nat : x = slot[v] /\ m = nextB /\ k = nextB'
    BY <1>1
  <2>2. SlotInv(v, x, k)
    BY <1>1, <2>1, SlotLater
  <2> QED
    BY <2>1, <2>2
<1> QED
  BY <1>2, <1>3 DEF Shape

\* A step of one worker that touches no table keeps all that is not its own.
LEMMA WorkerOnly ==
  ASSUME NotesIInv, NEW w \in Workers, NEW s, Moved(w, s), Shape(w, s),
         s.pc = "emit" => Emits(w, s.b), s.pc # "append",
         UNCHANGED <<audience, digestOn, quiet, route, nextB, bucket, ready, job, rows>>,
         faults' \in 0..MaxFaults
  PROVE  NotesIInv'
<1>0. NotesTypes /\ OwnInv /\ PlaceInv /\ FlushInv /\ (\A b \in BucketIds : SizeInv(b))
      /\ slot \in [Workers -> Slot] /\ nextB \in Nat
  BY LimitsAssumption DEF NotesIInv, NotesTypes, TypeOK
<1>1. slot' \in [Workers -> Slot] /\ \A v \in Workers : SlotInv(v, slot'[v], nextB')
  BY <1>0, SlotsAfter
<1>2. NotesTypes'
  BY <1>0, <1>1 DEF NotesTypes, TypeOK, JobInv, ItemsInv
<1>3. OwnInv'
  BY <1>0, OwnStep
<1>4. slot'[w] = s /\ \A v \in Workers : v # w => slot'[v] = slot[v]
  BY <1>0 DEF Moved
<1>5. FlushInv'
  BY <1>0, <1>4, FlushSame DEF Emits
<1>6. \A b \in BucketIds : SizeInv(b)'
  <2>1. \A b \in BucketIds : IsFiniteSet(bucket[b].items)
    BY <1>0 DEF NotesTypes, ItemsInv
  <2> QED
    BY <1>0, <1>4, <2>1, SizeKept DEF Workers
<1> QED
  BY <1>0, <1>2, <1>3, <1>5, <1>6, PlaceSame DEF NotesIInv

\* The dispatcher's steps up to the one that routes the note.
LEMMA ReadDigestStep ==
  ASSUME NotesIInv, NEW d \in Dispatchers, ReadDigestMode(d)
  PROVE  NotesIInv'
<1>0. slot[d] \in Slot /\ SlotInv(d, slot[d], nextB) /\ slot \in [Workers -> Slot] /\ d \in Workers
      /\ slot[d].pc = "digest" /\ faults \in 0..MaxFaults
  BY DEF NotesIInv, NotesTypes, TypeOK, ReadDigestMode, InStep, Workers
<1>1. PICK p \in {"find", "enqueue"} : Goto(d, p)
  BY DEF ReadDigestMode
<1> DEFINE s == Stepped(slot[d], p)
<1>2. Moved(d, s)
  BY <1>0, <1>1 DEF Goto, Moved, Stepped
<1>3. /\ s \in Slot /\ s.pc = p /\ s.event = slot[d].event /\ s.todo = slot[d].todo
      /\ s.user = slot[d].user /\ s.b = slot[d].b /\ s.then = slot[d].then /\ s.due = slot[d].due
  BY <1>0, <1>1, SlotStepped
<1> HIDE DEF s
<1>4. Pending(slot[d]) /\ Pending(s)
  BY <1>0, <1>3 DEF Pending
<1>5. Shape(d, s)
  BY <1>0, <1>3, <1>4 DEF Shape, SlotInv, HeldBy, ReadDigestMode
<1> QED
  BY <1>0, <1>2, <1>3, <1>5, WorkerOnly DEF ReadDigestMode

\* An event goes to one dispatcher only.
LEMMA DispatchKeeps ==
  ASSUME NotesIInv, NEW d \in Dispatchers, NEW e \in Events, Dispatch(d, e)
  PROVE  NotesIInv'
<1> DEFINE s == [Idle EXCEPT !.pc = "next", !.event = e, !.todo = audience[e]]
<1>0. /\ NotesTypes /\ OwnInv /\ PlaceInv /\ FlushInv /\ (\A b \in BucketIds : SizeInv(b))
      /\ slot \in [Workers -> Slot] /\ d \in Workers /\ audience[e] \in SUBSET Users
      /\ \A v \in Workers : SlotInv(v, slot[v], nextB)
  BY WorkloadsAssumption DEF NotesIInv, NotesTypes, TypeOK, Workers
<1>1. /\ s \in Slot /\ s.pc = "next" /\ s.event = e /\ s.todo = audience[e] /\ s.then = "next"
      /\ s.due = {}
  BY <1>0 DEF Idle, Slot
<1>2. slot' = [slot EXCEPT ![d] = s]
  BY DEF Dispatch
<1> HIDE DEF s
<1>3. slot'[d] = s /\ (\A v \in Workers : v # d => slot'[v] = slot[v]) /\ slot' \in [Workers -> Slot]
  BY <1>0, <1>1, <1>2
<1>4. SlotInv(d, s, nextB)
  BY <1>1 DEF SlotInv, Pending
<1>5. NotesTypes'
  BY <1>0, <1>3, <1>4 DEF Dispatch, NotesTypes, TypeOK, JobInv, ItemsInv
<1>6. /\ \A v \in Workers : slot[v].event # e
      /\ \A u \in audience[e] : route[<<e, u>>] = "none"
  BY DEF Dispatch, Taken
<1>7. OwnInv'
  <2>1. \A v, x \in Workers : v # x /\ slot'[v].event = slot'[x].event => slot'[v].event = 0
    BY <1>0, <1>1, <1>3, <1>6 DEF OwnInv
  <2>2. ASSUME NEW v \in Workers, NEW n \in Notes, HeldBy(slot'[v], n) PROVE route[n] = "none"
    <3>1. CASE v = d
      <4>1. n[1] = e /\ n[2] \in audience[e]
        BY <1>1, <1>3, <2>2, <3>1 DEF HeldBy, Pending
      <4>2. n = <<e, n[2]>>
        BY <4>1 DEF Notes
      <4> QED
        BY <1>6, <4>1, <4>2
    <3>2. CASE v # d
      BY <1>0, <1>3, <2>2, <3>2 DEF OwnInv
    <3> QED
      BY <3>1, <3>2
  <2> QED
    BY <2>1, <2>2 DEF OwnInv, Dispatch
<1>8. FlushInv'
  BY <1>0, <1>1, <1>3, FlushSame DEF Dispatch, Emits
<1>9. \A b \in BucketIds : SizeInv(b)'
  <2>1. \A b \in BucketIds : IsFiniteSet(bucket[b].items)
    BY <1>0 DEF NotesTypes, ItemsInv
  <2> QED
    BY <1>0, <1>1, <1>3, <2>1, SizeKept DEF Workers, Dispatch
<1> QED
  BY <1>0, <1>5, <1>7, <1>8, <1>9, PlaceSame DEF NotesIInv, Dispatch

\* A recipient is dropped or taken in hand.
LEMMA MuteCheckKeeps ==
  ASSUME NotesIInv, NEW d \in Dispatchers, NEW u \in Users, MuteCheck(d, u)
  PROVE  NotesIInv'
<1>0. /\ slot[d] \in Slot /\ SlotInv(d, slot[d], nextB) /\ slot \in [Workers -> Slot] /\ d \in Workers
      /\ slot[d].pc = "next" /\ u \in slot[d].todo /\ slot[d].todo \in SUBSET Users
      /\ faults \in 0..MaxFaults /\ nextB \in Nat /\ nextB' = nextB
  BY LimitsAssumption DEF NotesIInv, NotesTypes, TypeOK, MuteCheck, InStep, Workers, Slot
<1>1. CASE ~quiet[u]
  <2> DEFINE s == [slot[d] EXCEPT !.pc = "digest", !.user = u, !.todo = @ \ {u}]
  <2>1. slot' = [slot EXCEPT ![d].pc = "digest", ![d].user = u, ![d].todo = @ \ {u}] /\ UNCHANGED route
    BY <1>1 DEF MuteCheck
  <2>2. Moved(d, s)
    BY <1>0, <2>1 DEF Moved
  <2>3. /\ s \in Slot /\ s.pc = "digest" /\ s.event = slot[d].event /\ s.todo = slot[d].todo \ {u}
        /\ s.user = u /\ s.b = slot[d].b /\ s.then = slot[d].then /\ s.due = slot[d].due
    BY <1>0 DEF Slot
  <2> HIDE DEF s
  <2>4. SlotInv(d, s, nextB) /\ \A n \in Notes : HeldBy(s, n) => HeldBy(slot[d], n)
    BY <1>0, <2>3 DEF SlotInv, Pending, HeldBy
  <2>5. Shape(d, s)
    BY <1>0, <2>3, <2>4 DEF Shape
  <2> QED
    BY <1>0, <2>1, <2>2, <2>3, <2>5, WorkerOnly DEF MuteCheck
<1>2. CASE quiet[u]
  <2> DEFINE s == Rest(d, slot[d].todo \ {u})
             n0 == <<slot[d].event, u>>
  <2>1. Moved(d, s) /\ route' = [route EXCEPT ![n0] = "dropped"]
    BY <1>2 DEF MuteCheck, Moved, Routed
  <2>2. /\ s \in Slot /\ SlotInv(d, s, nextB) /\ s.pc \in {"idle", "next"}
        /\ s.event \in {0, slot[d].event}
        /\ \A n : HeldBy(s, n) => slot[d].event = n[1] /\ n[2] \in slot[d].todo \ {u}
    BY <1>0, RestFacts DEF NotesIInv
  <2> HIDE DEF s
  <2>3. n0 \in Notes
    BY <1>0 DEF SlotInv, Notes
  <2>4. Shape(d, s) /\ HeldBy(slot[d], n0) /\ \A n \in Notes : HeldBy(s, n) => n # n0
    BY <1>0, <2>2 DEF Shape, HeldBy
  <2>5. NotesTypes /\ OwnInv /\ PlaceInv /\ FlushInv /\ (\A b \in BucketIds : SizeInv(b))
        /\ route \in [Notes -> Routes]
    BY DEF NotesIInv, NotesTypes, TypeOK
  <2> HIDE DEF n0
  <2>6. route' \in [Notes -> Routes] /\ \A n \in Notes : n # n0 => route'[n] = route[n]
    BY <2>1, <2>3, <2>5 DEF Routes
  <2>7. OwnInv'
    <3>1. /\ \A n \in Notes : HeldBy(s, n) => route'[n] = route[n]
          /\ \A n \in Notes : route'[n] = route[n] \/ HeldBy(slot[d], n) \/ route[n] # "none"
      BY <2>4, <2>6
    <3> QED
      BY <1>0, <2>1, <2>4, <2>5, <3>1, OwnStep
  <2>8. slot' \in [Workers -> Slot] /\ \A v \in Workers : SlotInv(v, slot'[v], nextB')
    BY <1>0, <2>1, <2>4, <2>5, SlotsAfter
  <2>9. NotesTypes'
    BY <2>5, <2>6, <2>8 DEF MuteCheck, NotesTypes, TypeOK, JobInv, ItemsInv
  <2>10. slot'[d] = s /\ \A v \in Workers : v # d => slot'[v] = slot[v]
    BY <1>0, <2>1 DEF Moved
  <2>11. FlushInv'
    BY <2>2, <2>5, <2>10, FlushSame DEF Emits, MuteCheck
  <2>12. \A b \in BucketIds : SizeInv(b)'
    <3>1. \A b \in BucketIds : IsFiniteSet(bucket[b].items)
      BY <2>5 DEF NotesTypes, ItemsInv
    <3> QED
      BY <2>2, <2>5, <2>10, <3>1, SizeKept DEF Workers, MuteCheck
  <2>13. \A n \in Notes : route'[n] = route[n] \/ route'[n] \in {"dropped", "lost"}
    BY <2>1, <2>3, <2>5, <2>6
  <2>14. PlaceInv'
    BY <2>5, <2>13, PlaceDrops DEF MuteCheck
  <2> QED
    BY <2>7, <2>9, <2>11, <2>12, <2>14 DEF NotesIInv
<1> QED
  BY <1>1, <1>2

\* The parts of the invariant, and the types of the tables.
LEMMA Parts ==
  ASSUME NotesIInv
  PROVE  /\ NotesTypes /\ OwnInv /\ PlaceInv /\ FlushInv /\ (\A b \in BucketIds : SizeInv(b))
         /\ slot \in [Workers -> Slot] /\ route \in [Notes -> Routes] /\ job \in [Notes -> Job]
         /\ bucket \in [BucketIds -> Bucket] /\ rows \in [Notes -> Nat] /\ faults \in 0..MaxFaults
         /\ nextB \in Nat /\ nextB \in 1..(MaxBuckets + 1) /\ ready \subseteq BucketIds
         /\ (\A w \in Workers : SlotInv(w, slot[w], nextB))
         /\ (\A n \in Notes : JobInv(job[n], rows[n]))
         /\ (\A b \in BucketIds : ItemsInv(b))
         /\ Dispatchers \subseteq Workers /\ Flushers \subseteq Workers
  BY LimitsAssumption DEF NotesIInv, NotesTypes, TypeOK, Workers

\* A step of the queue on a job that exists.
LEMMA QueueStep ==
  ASSUME NotesIInv, NEW n \in Notes, NEW j \in Job, NEW k \in Nat,
         job[n].st # "none", j.st # "none", JobInv(j, k),
         job' = [job EXCEPT ![n] = j], rows' = [rows EXCEPT ![n] = k],
         UNCHANGED <<audience, digestOn, quiet, slot, route, nextB, bucket, ready>>,
         faults' \in 0..MaxFaults
  PROVE  NotesIInv'
<1>0. NotesTypes /\ OwnInv /\ PlaceInv /\ FlushInv /\ (\A b \in BucketIds : SizeInv(b))
  BY Parts
<1>1. /\ job' \in [Notes -> Job] /\ rows' \in [Notes -> Nat]
      /\ job'[n] = j /\ rows'[n] = k
      /\ \A m \in Notes : m # n => job'[m] = job[m] /\ rows'[m] = rows[m]
  BY Parts
<1>2. NotesTypes'
  BY <1>0, <1>1 DEF NotesTypes, TypeOK, ItemsInv
<1>3. OwnInv'
  BY <1>0 DEF OwnInv
<1>4. PlaceInv'
  BY <1>0, <1>1 DEF PlaceInv
<1>5. FlushInv'
  <2>1. \A b \in BucketIds : \A m \in bucket[b].items : m \in Notes /\ m # n
    BY <1>0, Parts DEF Bucket, FlushInv
  <2> QED
    BY <1>0, <1>1, <2>1 DEF FlushInv, Emits
<1>6. \A b \in BucketIds : SizeInv(b)'
  BY <1>0 DEF SizeInv, Appenders
<1> QED
  BY <1>2, <1>3, <1>4, <1>5, <1>6 DEF NotesIInv

\* JobWrite, JobAck, JobFail and JobStall.
LEMMA JobsKeep ==
  ASSUME NotesIInv, NEW n \in Notes, JobWrite(n) \/ JobAck(n) \/ JobFail(n) \/ JobStall(n)
  PROVE  NotesIInv'
<1>0. /\ job \in [Notes -> Job] /\ rows \in [Notes -> Nat] /\ faults \in 0..MaxFaults
      /\ JobInv(job[n], rows[n]) /\ MaxFaults \in Nat /\ Attempts \in Nat /\ Stalls \in Nat
  BY Parts, LimitsAssumption
<1>1. job[n] \in Job /\ rows[n] \in Nat /\ rows = [rows EXCEPT ![n] = rows[n]]
  BY <1>0
<1>2. PICK k \in Nat : k = rows[n]
  BY <1>1
<1>3. /\ job[n].tries \in Nat /\ job[n].tries <= Attempts /\ job[n].stalls \in Nat
  BY <1>0, <1>1 DEF Job
<1>4. CASE JobWrite(n)
  <2> DEFINE j == [job[n] EXCEPT !.st = "written"]
  <2>1. job' = [job EXCEPT ![n] = j] /\ rows' = [rows EXCEPT ![n] = k + 1] /\ job[n].st = "waiting"
    BY <1>0, <1>2, <1>4 DEF JobWrite
  <2>2. j \in Job /\ j.st = "written" /\ j.tries = job[n].tries /\ j.stalls = job[n].stalls
    BY <1>1 DEF Job
  <2> HIDE DEF j
  <2>3. JobInv(j, k + 1)
    BY <1>0, <1>2, <1>3, <2>1, <2>2 DEF JobInv
  <2>4. k + 1 \in Nat
    BY <1>2
  <2> QED
    BY <1>0, <1>4, <2>1, <2>2, <2>3, <2>4, QueueStep DEF JobWrite
<1>5. CASE JobAck(n)
  <2> DEFINE j == [job[n] EXCEPT !.st = "done"]
  <2>1. job' = [job EXCEPT ![n] = j] /\ rows' = [rows EXCEPT ![n] = k] /\ job[n].st = "written"
    BY <1>0, <1>1, <1>2, <1>5 DEF JobAck
  <2>2. j \in Job /\ j.st = "done" /\ j.tries = job[n].tries /\ j.stalls = job[n].stalls
    BY <1>1 DEF Job
  <2> HIDE DEF j
  <2>3. JobInv(j, k)
    BY <1>0, <1>2, <1>3, <2>1, <2>2 DEF JobInv
  <2> QED
    BY <1>0, <1>5, <2>1, <2>2, <2>3, QueueStep DEF JobAck
<1>6. faults < MaxFaults => faults + 1 \in 0..MaxFaults
  BY <1>0
<1>7. CASE JobFail(n)
  <2>1. PICK st \in {"failed", "waiting"} :
           /\ st = IF job[n].tries + 1 = Attempts THEN "failed" ELSE "waiting"
           /\ job' = [job EXCEPT ![n].tries = @ + 1, ![n].st = st]
    BY <1>7 DEF JobFail
  <2> DEFINE j == [job[n] EXCEPT !.tries = job[n].tries + 1, !.st = st]
  <2>2. job' = [job EXCEPT ![n] = j] /\ rows' = [rows EXCEPT ![n] = k] /\ job[n].st = "waiting"
    BY <1>0, <1>1, <1>2, <1>7, <2>1 DEF JobFail
  <2>3. job[n].tries < Attempts
    BY <1>0, <2>2 DEF JobInv
  <2>4. job[n].tries + 1 \in 0..Attempts
    BY <1>0, <1>3, <2>3
  <2>5. j \in Job /\ j.st = st /\ j.tries = job[n].tries + 1 /\ j.stalls = job[n].stalls
    BY <1>1, <2>1, <2>4 DEF Job
  <2> HIDE DEF j
  <2>6. JobInv(j, k)
    BY <1>0, <1>2, <1>3, <2>1, <2>2, <2>3, <2>5 DEF JobInv
  <2> QED
    BY <1>0, <1>6, <1>7, <2>1, <2>2, <2>5, <2>6, QueueStep DEF JobFail, Fault
<1>8. CASE JobStall(n)
  <2>1. PICK st \in {"failed", "waiting"} : job' = [job EXCEPT ![n].stalls = @ + 1, ![n].st = st]
    BY <1>8 DEF JobStall
  <2> DEFINE j == [job[n] EXCEPT !.stalls = job[n].stalls + 1, !.st = st]
  <2>2. /\ job' = [job EXCEPT ![n] = j] /\ rows' = [rows EXCEPT ![n] = k]
        /\ job[n].st \in {"waiting", "written"}
    BY <1>0, <1>1, <1>2, <1>8, <2>1 DEF JobStall
  <2>3. j \in Job /\ j.st = st /\ j.tries = job[n].tries /\ j.stalls = job[n].stalls + 1
    <3>1. job[n].stalls + 1 \in Nat
      BY <1>3
    <3>2. \A x \in Job, m \in Nat :
             LET y == [x EXCEPT !.stalls = m, !.st = st]
             IN  y \in Job /\ y.st = st /\ y.tries = x.tries /\ y.stalls = m
      BY <2>1 DEF Job
    <3> QED
      BY <1>1, <3>1, <3>2
  <2> HIDE DEF j
  <2>4. JobInv(j, k)
    BY <1>0, <1>2, <1>3, <2>1, <2>2, <2>3 DEF JobInv
  <2> QED
    BY <1>0, <1>6, <1>8, <2>1, <2>2, <2>3, <2>4, QueueStep DEF JobStall, Fault
<1> QED
  BY <1>4, <1>5, <1>7, <1>8

\* Enqueue: the note in hand becomes a job.
LEMMA EnqueueKeeps ==
  ASSUME NotesIInv, NEW d \in Dispatchers, Enqueue(d)
  PROVE  NotesIInv'
<1> DEFINE n0 == NoteOf(d)
           s == Rest(d, slot[d].todo)
<1>0. /\ NotesTypes /\ OwnInv /\ PlaceInv /\ FlushInv /\ (\A b \in BucketIds : SizeInv(b))
      /\ d \in Workers /\ slot[d] \in Slot /\ SlotInv(d, slot[d], nextB) /\ slot[d].pc = "enqueue"
      /\ nextB' = nextB /\ nextB \in Nat
  BY Parts DEF Enqueue, InStep
<1>1. Pending(slot[d]) /\ slot[d].todo \in SUBSET Users
  BY <1>0 DEF Pending, Slot
<1>2. n0 \in Notes /\ HeldBy(slot[d], n0) /\ slot[d].user \notin slot[d].todo /\ n0[2] = slot[d].user
  BY <1>0, <1>1 DEF SlotInv, Notes, NoteOf, HeldBy
<1>3. /\ s \in Slot /\ SlotInv(d, s, nextB) /\ s.pc \in {"idle", "next"}
      /\ s.event \in {0, slot[d].event}
      /\ \A n : HeldBy(s, n) => slot[d].event = n[1] /\ n[2] \in slot[d].todo
  BY <1>0, <1>1, RestFacts
<1>4. Moved(d, s) /\ job' = [job EXCEPT ![n0].st = "waiting"] /\ route' = [route EXCEPT ![n0] = "queued"]
  BY DEF Enqueue, Proceed, Moved, Routed
<1> HIDE DEF s, n0
<1>5. Shape(d, s) /\ \A n \in Notes : HeldBy(s, n) => n # n0
  BY <1>0, <1>2, <1>3 DEF Shape, HeldBy
<1>6. route[n0] = "none" /\ job[n0].st = "none" /\ rows[n0] = 0 /\ \A b \in BucketIds : n0 \notin bucket[b].items
  BY <1>0, <1>2 DEF OwnInv, PlaceInv
<1>7. /\ route' \in [Notes -> Routes] /\ route'[n0] = "queued"
      /\ \A n \in Notes : n # n0 => route'[n] = route[n]
  BY <1>2, <1>4, Parts DEF Routes
<1>8. OwnInv'
  <2>1. /\ \A n \in Notes : HeldBy(s, n) => route'[n] = route[n]
        /\ \A n \in Notes : route'[n] = route[n] \/ HeldBy(slot[d], n) \/ route[n] # "none"
    BY <1>2, <1>5, <1>7
  <2> QED
    BY <1>0, <1>4, <1>5, <2>1, OwnStep
<1>9. /\ job' \in [Notes -> Job] /\ job'[n0].st = "waiting" /\ job'[n0].stalls = job[n0].stalls
      /\ job'[n0].tries = job[n0].tries
      /\ \A n \in Notes : n # n0 => job'[n] = job[n]
  <2>1. \A j \in Job : /\ [j EXCEPT !.st = "waiting"] \in Job /\ [j EXCEPT !.st = "waiting"].st = "waiting"
                       /\ [j EXCEPT !.st = "waiting"].stalls = j.stalls
                       /\ [j EXCEPT !.st = "waiting"].tries = j.tries
    BY DEF Job
  <2>2. job[n0] \in Job /\ job \in [Notes -> Job]
    BY <1>2, Parts
  <2>3. job' = [job EXCEPT ![n0] = [job[n0] EXCEPT !.st = "waiting"]]
    BY <1>2, <1>4, <2>2
  <2> QED
    BY <1>2, <2>1, <2>2, <2>3
<1>10. \A n \in Notes : JobInv(job'[n], rows'[n])
  <2>1. \A n \in Notes : JobInv(job[n], rows[n]) /\ rows' = rows
    BY Parts DEF Enqueue
  <2>2. JobInv(job'[n0], rows[n0])
    <3>1. job[n0].stalls = 0 /\ job[n0].tries < Attempts
      BY <1>2, <1>6, <2>1 DEF JobInv
    <3> QED
      BY <1>6, <1>9, <3>1 DEF JobInv
  <2> QED
    BY <1>9, <2>1, <2>2
<1>11. slot' \in [Workers -> Slot] /\ \A v \in Workers : SlotInv(v, slot'[v], nextB')
  BY <1>0, <1>4, <1>5, SlotsAfter
<1>12. NotesTypes'
  BY <1>0, <1>7, <1>9, <1>10, <1>11 DEF Enqueue, NotesTypes, TypeOK, ItemsInv
<1>13. slot'[d] = s /\ \A v \in Workers : v # d => slot'[v] = slot[v]
  BY <1>0, <1>4, Parts DEF Moved
<1>14. PlaceInv'
  BY <1>0, <1>6, <1>7, <1>9 DEF PlaceInv, Enqueue
<1>15. FlushInv'
  <2>1. \A w \in Workers, b \in BucketIds : Emits(w, b)' => Emits(w, b)
    BY <1>3, <1>13 DEF Emits
  <2>2. \A b \in BucketIds : \A n \in bucket[b].items : n \in Notes /\ job'[n] = job[n]
    BY <1>6, <1>9, Parts DEF Bucket
  <2> QED
    BY <1>0, <2>1, <2>2 DEF FlushInv, Enqueue
<1>16. \A b \in BucketIds : SizeInv(b)'
  <2>1. \A b \in BucketIds : IsFiniteSet(bucket[b].items)
    BY <1>0 DEF NotesTypes, ItemsInv
  <2> QED
    BY <1>0, <1>3, <1>13, <2>1, SizeKept, Parts DEF Enqueue
<1> QED
  BY <1>8, <1>12, <1>14, <1>15, <1>16 DEF NotesIInv

\* The oldest of some buckets is one of them.
LEMMA OldestIn ==
  ASSUME NEW S \in SUBSET Nat, S # {}
  PROVE  Oldest(S) \in S
  BY LeastNumber DEF Oldest

\* A worker that takes a bucket in hand, with the length it read.
Reading(s, p, b, len, then) == [s EXCEPT !.pc = p, !.b = b, !.len = len, !.then = then]

\* A worker that has read a bucket.
LEMMA SlotReading ==
  ASSUME NEW s \in Slot, NEW p \in {"append", "claim"}, NEW b \in BucketIds, NEW len \in Nat,
         NEW then \in {"next", "create"}
  PROVE  /\ Reading(s, p, b, len, then) \in Slot /\ Reading(s, p, b, len, then).pc = p
         /\ Reading(s, p, b, len, then).event = s.event /\ Reading(s, p, b, len, then).todo = s.todo
         /\ Reading(s, p, b, len, then).user = s.user /\ Reading(s, p, b, len, then).b = b
         /\ Reading(s, p, b, len, then).then = then /\ Reading(s, p, b, len, then).due = s.due
  BY DEF Slot, Reading

\* The open bucket of a user is found, or none is.
LEMMA FindOpenKeeps ==
  ASSUME NotesIInv, NEW d \in Dispatchers, FindOpen(d)
  PROVE  NotesIInv'
<1> DEFINE open == Open(slot[d].user)
<1>0. /\ NotesTypes /\ OwnInv /\ PlaceInv /\ FlushInv /\ (\A c \in BucketIds : SizeInv(c))
      /\ d \in Workers /\ slot[d] \in Slot /\ SlotInv(d, slot[d], nextB) /\ slot[d].pc = "find"
      /\ nextB' = nextB /\ nextB \in Nat /\ faults' \in 0..MaxFaults /\ slot \in [Workers -> Slot]
      /\ Pending(slot[d]) /\ slot[d].then = "next"
  BY Parts DEF FindOpen, InStep, SlotInv, Pending
<1>1. CASE open = {}
  <2> DEFINE s == Stepped(slot[d], "create")
  <2>1. Moved(d, s)
    BY <1>0, <1>1 DEF FindOpen, Moved, Stepped
  <2>2. /\ s \in Slot /\ s.pc = "create" /\ s.event = slot[d].event /\ s.todo = slot[d].todo
        /\ s.user = slot[d].user /\ s.b = slot[d].b /\ s.then = slot[d].then /\ s.due = slot[d].due
    BY <1>0, SlotStepped
  <2> HIDE DEF s
  <2>3. Shape(d, s)
    BY <1>0, <2>2 DEF Shape, SlotInv, HeldBy, Pending
  <2> QED
    BY <1>0, <2>1, <2>2, <2>3, WorkerOnly DEF FindOpen
<1>2. CASE open # {}
  <2>1. open \in SUBSET Nat
    BY DEF Open
  <2>2. PICK b \in open : b = Oldest(open)
    BY <1>2, <2>1, OldestIn
  <2>3. b \in BucketIds /\ b < nextB
    BY <1>0, <2>2, Parts, LimitsAssumption DEF Open, BucketIds
  <2>4. PICK len \in Nat : len = Cardinality(bucket[b].items)
    BY <2>3, Parts, FS_CardinalityType DEF ItemsInv
  <2>0. PICK x \in Slot : x = slot[d]
    BY <1>0
  <2>5. CASE len >= Cap
    <3> DEFINE s == Reading(slot[d], "claim", b, len, "create")
    <3>1. Moved(d, s)
      BY <1>0, <1>2, <2>2, <2>4, <2>5 DEF FindOpen, Moved, Reading
    <3>2. /\ s \in Slot /\ s.pc = "claim" /\ s.event = slot[d].event /\ s.todo = slot[d].todo
          /\ s.user = slot[d].user /\ s.b = b /\ s.then = "create" /\ s.due = slot[d].due
      <4>1. LET y == Reading(x, "claim", b, len, "create") IN
            /\ y \in Slot /\ y.pc = "claim" /\ y.event = x.event /\ y.todo = x.todo
            /\ y.user = x.user /\ y.b = b /\ y.then = "create" /\ y.due = x.due
        BY <2>3, SlotReading
      <4> QED
        BY <2>0, <4>1
    <3> HIDE DEF s
    <3>3. Shape(d, s)
      BY <1>0, <2>3, <3>2 DEF Shape, SlotInv, HeldBy, Pending
    <3> QED
      BY <1>0, <3>1, <3>2, <3>3, WorkerOnly DEF FindOpen
  <2>6. CASE ~(len >= Cap)
    <3> DEFINE s == Reading(slot[d], "append", b, len, "next")
    <3>1. Moved(d, s)
      <4>1. slot' = [slot EXCEPT ![d] = [slot[d] EXCEPT !.pc = "append", !.b = b, !.len = len]]
        BY <1>0, <1>2, <2>2, <2>4, <2>6 DEF FindOpen
      <4>2. [slot[d] EXCEPT !.pc = "append", !.b = b, !.len = len] = s
        BY <1>0 DEF Reading, Slot
      <4> QED
        BY <4>1, <4>2 DEF Moved
    <3>2. /\ s \in Slot /\ s.pc = "append" /\ s.event = slot[d].event /\ s.todo = slot[d].todo
          /\ s.user = slot[d].user /\ s.b = b /\ s.then = "next" /\ s.due = slot[d].due
      <4>1. LET y == Reading(x, "append", b, len, "next") IN
            /\ y \in Slot /\ y.pc = "append" /\ y.event = x.event /\ y.todo = x.todo
            /\ y.user = x.user /\ y.b = b /\ y.then = "next" /\ y.due = x.due
        BY <2>3, SlotReading
      <4> QED
        BY <2>0, <4>1
    <3> HIDE DEF s
    <3>3. Shape(d, s)
      BY <1>0, <2>3, <3>2 DEF Shape, SlotInv, HeldBy, Pending
    <3>4. slot' \in [Workers -> Slot] /\ \A v \in Workers : SlotInv(v, slot'[v], nextB')
      BY <1>0, <3>1, <3>3, SlotsAfter
    <3>5. NotesTypes'
      BY <1>0, <3>4 DEF FindOpen, NotesTypes, TypeOK, ItemsInv
    <3>6. OwnInv'
      <4>1. UNCHANGED route
        BY DEF FindOpen
      <4> QED
        BY <1>0, <3>1, <3>3, <4>1, OwnStep
    <3>7. slot'[d] = s /\ \A v \in Workers : v # d => slot'[v] = slot[v]
      BY <1>0, <3>1 DEF Moved
    <3>8. FlushInv'
      BY <1>0, <3>2, <3>7, FlushSame DEF FindOpen, Emits
    <3>9. ASSUME NEW c \in BucketIds PROVE SizeInv(c)'
      <4>1. IsFiniteSet(bucket[c].items) /\ bucket' = bucket
        BY Parts DEF ItemsInv, FindOpen
      <4>2. CASE c # b
        BY <1>0, <3>2, <3>7, <4>1, <4>2, SizeKept, Parts
      <4>3. CASE c = b
        <5>1. Appenders(b)' \subseteq Dispatchers
          BY DEF Appenders
        <5>2. Cardinality(Appenders(b)') <= Cardinality(Dispatchers) /\ IsFiniteSet(Appenders(b)')
          BY <5>1, DispatchersAssumption, FS_Subset
        <5>3. PICK a \in Nat, k \in Nat : a = Cardinality(Appenders(b)') /\ k = Cardinality(Dispatchers)
          BY <5>2, DispatchersAssumption, FS_CardinalityType
        <5>4. len + a <= Cap - 1 + k
          BY <2>4, <2>6, <5>2, <5>3, LimitsAssumption
        <5> QED
          BY <2>4, <4>1, <4>3, <5>3, <5>4 DEF SizeInv
      <4> QED
        BY <4>2, <4>3
    <3> QED
      BY <1>0, <3>5, <3>6, <3>8, <3>9, PlaceSame DEF NotesIInv, FindOpen
  <2> QED
    BY <2>5, <2>6
<1> QED
  BY <1>1, <1>2

\* The JSONB append to an open bucket.
LEMMA AppendKeeps ==
  ASSUME NotesIInv, NEW d \in Dispatchers, Append(d)
  PROVE  NotesIInv'
<1>0. /\ NotesTypes /\ OwnInv /\ PlaceInv /\ FlushInv /\ (\A c \in BucketIds : SizeInv(c))
      /\ d \in Workers /\ slot[d] \in Slot /\ SlotInv(d, slot[d], nextB) /\ slot[d].pc = "append"
      /\ nextB' = nextB /\ nextB \in Nat /\ faults' \in 0..MaxFaults /\ slot \in [Workers -> Slot]
  BY Parts DEF Append, InStep
<1>1. PICK x \in Slot, b \in BucketIds, n0 \in Notes :
           /\ x = slot[d] /\ b = slot[d].b /\ n0 = NoteOf(d) /\ b < nextB
           /\ Pending(x) /\ x.then = "next" /\ x.user \notin x.todo /\ n0 = <<x.event, x.user>>
           /\ x.todo \in SUBSET Users /\ x.pc = "append"
  <2>1. Pending(slot[d]) /\ slot[d].todo \in SUBSET Users
    BY <1>0 DEF Pending, Slot
  <2>2. NoteOf(d) \in Notes
    BY <1>0, <2>1 DEF SlotInv, NoteOf, Notes
  <2> QED
    BY <1>0, <2>1, <2>2 DEF SlotInv, NoteOf
<1>2. HeldBy(slot[d], n0)
  BY <1>1 DEF HeldBy
<1>3. CASE bucket[b].sent
  <2> DEFINE s == Stepped(x, "create")
  <2>1. Moved(d, s) /\ UNCHANGED <<bucket, route>>
    BY <1>0, <1>1, <1>3 DEF Append, Goto, Moved, Stepped
  <2>2. /\ s \in Slot /\ s.pc = "create" /\ s.event = x.event /\ s.todo = x.todo
        /\ s.user = x.user /\ s.b = x.b /\ s.then = x.then /\ s.due = x.due
    BY SlotStepped
  <2> HIDE DEF s
  <2>3. Shape(d, s)
    BY <1>0, <1>1, <2>2 DEF Shape, SlotInv, HeldBy, Pending
  <2> QED
    BY <1>0, <2>1, <2>2, <2>3, WorkerOnly DEF Append
<1>4. CASE ~bucket[b].sent
  <2>1. PICK s \in Slot : /\ Moved(d, s) /\ Shape(d, s) /\ s.pc \in {"claim", "idle", "next"}
                          /\ \A n \in Notes : HeldBy(s, n) => n # n0
    <3>1. CASE slot[d].len + 1 >= FlushAt
      <4> DEFINE s == Stepped(x, "claim")
      <4>1. Moved(d, s)
        BY <1>0, <1>1, <1>4, <3>1 DEF Append, Goto, Moved, Stepped
      <4>2. /\ s \in Slot /\ s.pc = "claim" /\ s.event = x.event /\ s.todo = x.todo
            /\ s.user = x.user /\ s.b = x.b /\ s.then = x.then /\ s.due = x.due
        BY SlotStepped
      <4> HIDE DEF s
      <4>3. ~Pending(s) /\ SlotInv(d, s, nextB)
        BY <1>0, <1>1, <4>2 DEF SlotInv, Pending
      <4>4. \A n \in Notes : HeldBy(s, n) => HeldBy(x, n) /\ n # n0
        BY <1>1, <4>2, <4>3 DEF HeldBy
      <4> QED
        BY <1>0, <1>1, <4>1, <4>2, <4>3, <4>4 DEF Shape
    <3>2. CASE ~(slot[d].len + 1 >= FlushAt)
      <4> DEFINE s == Rest(d, x.todo)
      <4>1. Moved(d, s)
        BY <1>0, <1>1, <1>4, <3>2 DEF Append, Proceed, Moved
      <4>2. /\ s \in Slot /\ SlotInv(d, s, nextB) /\ s.pc \in {"idle", "next"}
            /\ s.event \in {0, slot[d].event}
            /\ \A n : HeldBy(s, n) => slot[d].event = n[1] /\ n[2] \in x.todo
        BY <1>0, <1>1, RestFacts
      <4> HIDE DEF s
      <4>3. \A n \in Notes : HeldBy(s, n) => HeldBy(x, n) /\ n # n0
        BY <1>1, <4>2 DEF HeldBy
      <4> QED
        BY <1>0, <1>1, <4>1, <4>2, <4>3 DEF Shape
    <3> QED
      BY <3>1, <3>2
  <2>2. /\ bucket' = [bucket EXCEPT ![b].items = @ \cup {n0}]
        /\ route' = [route EXCEPT ![n0] = "batched"]
    BY <1>1, <1>4 DEF Append, Routed
  <2>3. /\ bucket' \in [BucketIds -> Bucket] /\ bucket'[b].items = bucket[b].items \cup {n0}
        /\ bucket'[b].sent = bucket[b].sent
        /\ \A c \in BucketIds : c # b => bucket'[c] = bucket[c]
    <3>1. \A y \in Bucket, T \in SUBSET Notes :
            /\ [y EXCEPT !.items = T] \in Bucket /\ [y EXCEPT !.items = T].items = T
            /\ [y EXCEPT !.items = T].sent = y.sent
      BY DEF Bucket
    <3>2. PICK y \in Bucket, T \in SUBSET Notes : y = bucket[b] /\ T = bucket[b].items \cup {n0}
      BY Parts DEF Bucket
    <3>3. bucket' = [bucket EXCEPT ![b] = [y EXCEPT !.items = T]]
      BY <2>2, <3>2, Parts
    <3>4. [y EXCEPT !.items = T] \in Bucket /\ [y EXCEPT !.items = T].items = T
          /\ [y EXCEPT !.items = T].sent = y.sent
      BY <3>1
    <3> QED
      BY <3>2, <3>3, <3>4, Parts
  <2>4. /\ route' \in [Notes -> Routes] /\ route'[n0] = "batched"
        /\ \A n \in Notes : n # n0 => route'[n] = route[n]
    BY <2>2, Parts DEF Routes
  <2>5. route[n0] = "none" /\ job[n0].st = "none" /\ rows[n0] = 0
        /\ \A c \in BucketIds : n0 \notin bucket[c].items
    BY <1>0, <1>2 DEF OwnInv, PlaceInv
  <2>6. OwnInv'
    <3>1. /\ \A n \in Notes : HeldBy(s, n) => route'[n] = route[n]
          /\ \A n \in Notes : route'[n] = route[n] \/ HeldBy(slot[d], n) \/ route[n] # "none"
      BY <1>2, <2>1, <2>4
    <3> QED
      BY <1>0, <2>1, <3>1, OwnStep
  <2>7. slot' \in [Workers -> Slot] /\ \A v \in Workers : SlotInv(v, slot'[v], nextB')
    BY <1>0, <2>1, SlotsAfter
  <2>8. \A c \in BucketIds : ItemsInv(c)'
    <3>1. \A c \in BucketIds : ItemsInv(c) /\ ready' = ready
      BY Parts DEF Append
    <3>2. IsFiniteSet(bucket[b].items \cup {n0})
      BY <3>1, FS_AddElement DEF ItemsInv
    <3>3. ~(b >= nextB)
      BY <1>0, <1>1, LimitsAssumption DEF BucketIds
    <3> QED
      BY <1>0, <2>3, <3>1, <3>2, <3>3 DEF ItemsInv
  <2>9. NotesTypes'
    BY <1>0, <2>3, <2>4, <2>7, <2>8 DEF Append, NotesTypes, TypeOK
  <2>10. slot'[d] = s /\ \A v \in Workers : v # d => slot'[v] = slot[v]
    BY <1>0, <2>1 DEF Moved
  <2>11. PlaceInv'
    BY <1>0, <2>3, <2>4, <2>5 DEF PlaceInv, Append
  <2>12. FlushInv'
    <3>1. \A w \in Workers, c \in BucketIds : Emits(w, c)' => Emits(w, c)
      BY <2>1, <2>10 DEF Emits
    <3>2. \A c \in BucketIds : /\ bucket'[c].sent = bucket[c].sent
                               /\ \A n \in bucket'[c].items : n \in bucket[c].items \/ n = n0
      BY <2>3
    <3> QED
      BY <1>0, <2>5, <3>1, <3>2 DEF FlushInv, Append
  <2>13. ASSUME NEW c \in BucketIds PROVE SizeInv(c)'
    <3>1. IsFiniteSet(bucket[c].items) /\ SizeInv(c)
      BY Parts DEF ItemsInv
    <3>2. CASE c # b
      BY <1>0, <2>1, <2>3, <2>10, <3>1, <3>2, SizeKept, Parts
    <3>3. CASE c = b
      <4>1. Appenders(b)' = Appenders(b) \ {d} /\ d \in Appenders(b)
        BY <1>0, <1>1, <2>1, <2>10, Parts DEF Appenders
      <4>2. IsFiniteSet(Appenders(b))
        <5>1. Appenders(b) \subseteq Dispatchers
          BY DEF Appenders
        <5> QED
          BY <5>1, DispatchersAssumption, FS_Subset
      <4>3. Cardinality(Appenders(b)') = Cardinality(Appenders(b)) - 1
        BY <4>1, <4>2, FS_RemoveElement
      <4>4. Cardinality(bucket[b].items \cup {n0}) = Cardinality(bucket[b].items) + 1
        BY <2>5, <3>1, <3>3, FS_AddElement
      <4>5. PICK i \in Nat, a \in Nat, k \in Nat :
              i = Cardinality(bucket[b].items) /\ a = Cardinality(Appenders(b)) /\ k = Cardinality(Dispatchers)
        BY <3>1, <3>3, <4>2, DispatchersAssumption, FS_CardinalityType
      <4>6. i + a <= Cap - 1 + k
        BY <3>1, <3>3, <4>5 DEF SizeInv
      <4>7. (i + 1) + (a - 1) <= Cap - 1 + k
        BY <4>5, <4>6, LimitsAssumption
      <4> QED
        BY <2>3, <3>3, <4>3, <4>4, <4>5, <4>7 DEF SizeInv
    <3> QED
      BY <3>2, <3>3
  <2> QED
    BY <2>6, <2>9, <2>11, <2>12, <2>13 DEF NotesIInv
<1> QED
  BY <1>3, <1>4

\* A bucket of one's own.
LEMMA CreateKeeps ==
  ASSUME NotesIInv, NEW d \in Dispatchers, Create(d)
  PROVE  NotesIInv'
<1>0. /\ NotesTypes /\ OwnInv /\ PlaceInv /\ FlushInv /\ (\A c \in BucketIds : SizeInv(c))
      /\ d \in Workers /\ slot[d] \in Slot /\ SlotInv(d, slot[d], nextB) /\ slot[d].pc = "create"
      /\ nextB' = nextB + 1 /\ nextB \in Nat /\ nextB + 1 \in Nat /\ nextB \in BucketIds
      /\ faults' \in 0..MaxFaults /\ slot \in [Workers -> Slot]
  BY Parts DEF Create, InStep
<1>1. PICK x \in Slot, b \in BucketIds, n0 \in Notes :
           /\ x = slot[d] /\ b = nextB /\ n0 = NoteOf(d) /\ b \in Nat
           /\ Pending(x) /\ x.user \in Users /\ x.user \notin x.todo /\ n0 = <<x.event, x.user>>
           /\ x.todo \in SUBSET Users /\ x.pc = "create"
  <2>1. Pending(slot[d]) /\ slot[d].todo \in SUBSET Users
    BY <1>0 DEF Pending, Slot
  <2>2. NoteOf(d) \in Notes
    BY <1>0, <2>1 DEF SlotInv, NoteOf, Notes
  <2> QED
    BY <1>0, <2>1, <2>2 DEF SlotInv, NoteOf
<1>2. HeldBy(slot[d], n0)
  BY <1>1 DEF HeldBy
<1>3. PICK s \in Slot : /\ Moved(d, s) /\ Shape(d, s) /\ s.pc \in {"claim", "idle", "next"}
                        /\ \A n \in Notes : HeldBy(s, n) => n # n0
  <2>1. CASE slot[d].then = "next" /\ 1 >= FlushAt
    <3> DEFINE s == [x EXCEPT !.b = b, !.pc = "claim"]
    <3>1. Moved(d, s)
      BY <1>0, <1>1, <2>1 DEF Create, Moved
    <3>2. /\ s \in Slot /\ s.pc = "claim" /\ s.event = x.event /\ s.todo = x.todo
          /\ s.user = x.user /\ s.b = b /\ s.then = x.then /\ s.due = x.due
      BY <1>1 DEF Slot
    <3> HIDE DEF s
    <3>3. ~Pending(s)
      BY <1>1, <2>1, <3>2 DEF Pending
    <3>4. SlotInv(d, x, nextB + 1) /\ b < nextB + 1
      BY <1>0, <1>1, SlotLater
    <3>5. SlotInv(d, s, nextB + 1)
      BY <1>1, <2>1, <3>2, <3>3, <3>4 DEF SlotInv
    <3>6. \A n \in Notes : HeldBy(s, n) => HeldBy(x, n) /\ n # n0
      BY <1>1, <3>2, <3>3 DEF HeldBy
    <3> QED
      BY <1>0, <1>1, <3>1, <3>2, <3>5, <3>6 DEF Shape
  <2>2. CASE ~(slot[d].then = "next" /\ 1 >= FlushAt)
    <3> DEFINE s == Rest(d, x.todo)
    <3>1. Moved(d, s)
      BY <1>0, <1>1, <2>2 DEF Create, Proceed, Moved
    <3>2. /\ s \in Slot /\ SlotInv(d, s, nextB) /\ s.pc \in {"idle", "next"}
          /\ s.event \in {0, slot[d].event}
          /\ \A n : HeldBy(s, n) => slot[d].event = n[1] /\ n[2] \in x.todo
      BY <1>0, <1>1, RestFacts
    <3> HIDE DEF s
    <3>3. \A n \in Notes : HeldBy(s, n) => HeldBy(x, n) /\ n # n0
      BY <1>1, <3>2 DEF HeldBy
    <3>4. SlotInv(d, s, nextB + 1)
      <4>1. nextB <= nextB + 1
        BY <1>0
      <4>2. PICK y \in Slot : y = s
        BY <3>2
      <4> QED
        BY <1>0, <3>2, <4>1, <4>2, SlotLater
    <3> QED
      BY <1>0, <1>1, <3>1, <3>2, <3>3, <3>4 DEF Shape
  <2> QED
    BY <2>1, <2>2
<1>4. /\ bucket' = [bucket EXCEPT ![b] = [user |-> x.user, items |-> {n0}, sent |-> FALSE, aged |-> FALSE]]
      /\ route' = [route EXCEPT ![n0] = "batched"]
  BY <1>1 DEF Create, Routed
<1>5. /\ bucket' \in [BucketIds -> Bucket] /\ bucket'[b].items = {n0} /\ ~bucket'[b].sent
      /\ \A c \in BucketIds : c # b => bucket'[c] = bucket[c]
  <2>1. [user |-> x.user, items |-> {n0}, sent |-> FALSE, aged |-> FALSE] \in Bucket
    BY <1>1 DEF Bucket
  <2> QED
    BY <1>4, <2>1, Parts
<1>6. /\ route' \in [Notes -> Routes] /\ route'[n0] = "batched"
      /\ \A n \in Notes : n # n0 => route'[n] = route[n]
  BY <1>4, Parts DEF Routes
<1>7. /\ route[n0] = "none" /\ job[n0].st = "none" /\ rows[n0] = 0
      /\ \A c \in BucketIds : n0 \notin bucket[c].items
  BY <1>0, <1>2 DEF OwnInv, PlaceInv
<1>8. OwnInv'
  <2>1. /\ \A n \in Notes : HeldBy(s, n) => route'[n] = route[n]
        /\ \A n \in Notes : route'[n] = route[n] \/ HeldBy(slot[d], n) \/ route[n] # "none"
    BY <1>2, <1>3, <1>6
  <2> QED
    BY <1>0, <1>3, <2>1, OwnStep
<1>9. slot' \in [Workers -> Slot] /\ \A v \in Workers : SlotInv(v, slot'[v], nextB')
  <2>1. nextB' \in Nat /\ nextB <= nextB'
    BY <1>0
  <2> QED
    BY <1>0, <1>3, <2>1, SlotsAfter
<1>10. bucket[b].items = {} /\ ~bucket[b].sent /\ b \notin ready
  BY <1>0, <1>1, Parts DEF ItemsInv
<1>11. \A c \in BucketIds : ItemsInv(c)'
  <2>1. \A c \in BucketIds : ItemsInv(c) /\ ready' = ready /\ c \in Nat
    BY Parts, LimitsAssumption DEF Create, BucketIds
  <2>2. IsFiniteSet({n0})
    BY FS_Singleton
  <2>3. ASSUME NEW c \in BucketIds PROVE ItemsInv(c)'
    <3>1. CASE c = b
      <4>1. ~(b >= nextB + 1)
        BY <1>0, <1>1
      <4> QED
        BY <1>0, <1>5, <1>10, <2>1, <2>2, <3>1, <4>1 DEF ItemsInv
    <3>2. CASE c # b
      <4>1. c >= nextB + 1 => c >= nextB
        BY <1>0, <2>1
      <4> QED
        BY <1>0, <1>5, <2>1, <3>2, <4>1 DEF ItemsInv
    <3> QED
      BY <3>1, <3>2
  <2> QED
    BY <2>3
<1>12. NotesTypes'
  <2>1. nextB' \in 1..(MaxBuckets + 1)
    BY <1>0, LimitsAssumption DEF BucketIds
  <2> QED
    BY <1>0, <1>5, <1>6, <1>9, <1>11, <2>1 DEF Create, NotesTypes, TypeOK
<1>13. slot'[d] = s /\ \A v \in Workers : v # d => slot'[v] = slot[v]
  BY <1>0, <1>3 DEF Moved
<1>14. PlaceInv'
  <2>1. /\ \A c \in BucketIds, n \in Notes : n # n0 => (n \in bucket'[c].items <=> n \in bucket[c].items)
        /\ \A c \in BucketIds : n0 \in bucket'[c].items <=> c = b
    BY <1>5, <1>7, <1>10
  <2>2. \A c \in BucketIds : bucket'[c].items \subseteq Notes
    BY <1>5 DEF Bucket
  <2> QED
    BY <1>0, <1>6, <1>7, <2>1, <2>2 DEF PlaceInv, Create
<1>15. FlushInv'
  <2>1. \A w \in Workers, c \in BucketIds : Emits(w, c)' => Emits(w, c)
    BY <1>3, <1>13 DEF Emits
  <2>2. \A w \in Workers : ~Emits(w, b)
    BY <1>0, <1>10 DEF FlushInv
  <2>3. job' = job /\ rows' = rows /\ ready' = ready
    BY DEF Create
  <2> QED
    BY <1>0, <1>5, <1>7, <1>10, <2>1, <2>2, <2>3 DEF FlushInv
<1>16. ASSUME NEW c \in BucketIds PROVE SizeInv(c)'
  <2>1. IsFiniteSet(bucket[c].items) /\ SizeInv(c)
    BY Parts DEF ItemsInv
  <2>2. CASE c # b
    BY <1>0, <1>3, <1>5, <1>13, <2>1, <2>2, SizeKept, Parts
  <2>3. CASE c = b
    <3>1. ASSUME NEW v \in Dispatchers, slot'[v].pc = "append", slot'[v].b = b PROVE FALSE
      <4>1. slot[v].pc = "append" /\ slot[v].b = b /\ v \in Workers
        BY <1>3, <1>13, <3>1, Parts
      <4>2. b < nextB
        BY <4>1, Parts DEF SlotInv
      <4> QED
        BY <1>1, <4>2
    <3>2. Appenders(b)' = {}
      BY <3>1 DEF Appenders
    <3>3. Cardinality(Appenders(b)') = 0 /\ Cardinality({n0}) = 1
      BY <3>2, FS_EmptySet, FS_Singleton
    <3>4. PICK k \in Nat : k = Cardinality(Dispatchers)
      BY DispatchersAssumption, FS_CardinalityType
    <3>5. k # 0
      BY <3>4, DispatchersAssumption, FS_EmptySet
    <3>6. 1 + 0 <= Cap - 1 + k
      BY <3>4, <3>5, LimitsAssumption
    <3> QED
      BY <1>5, <2>3, <3>3, <3>4, <3>6 DEF SizeInv
  <2> QED
    BY <2>2, <2>3
<1> QED
  BY <1>8, <1>12, <1>14, <1>15, <1>16 DEF NotesIInv

\* A tick takes buckets there are, one after the other.
LEMMA TickKeeps ==
  ASSUME NotesIInv, NEW f \in Flushers, Tick(f)
  PROVE  NotesIInv'
<1>0. /\ NotesTypes /\ OwnInv /\ f \in Workers /\ nextB' = nextB /\ nextB \in Nat
      /\ faults' \in 0..MaxFaults /\ slot \in [Workers -> Slot] /\ nextB \in 1..(MaxBuckets + 1)
  BY Parts DEF Tick
<1>1. PICK due \in SUBSET BucketIds : /\ \A b \in due : b < nextB
                                      /\ slot' = [slot EXCEPT ![f] = [Idle EXCEPT !.pc = "next", !.due = due]]
  <2> DEFINE T == {b \in 1..(nextB - 1) : ~bucket[b].sent /\ bucket[b].aged}
  <2>1. \A b \in T : b \in BucketIds /\ b < nextB
    BY <1>0, LimitsAssumption DEF BucketIds
  <2>2. slot' = [slot EXCEPT ![f] = [Idle EXCEPT !.pc = "next", !.due = T]]
    BY DEF Tick
  <2> HIDE DEF T
  <2>3. T \in SUBSET BucketIds
    BY <2>1
  <2> QED
    BY <2>1, <2>2, <2>3
<1> DEFINE s == [Idle EXCEPT !.pc = "next", !.due = due]
<1>2. /\ s \in Slot /\ s.pc = "next" /\ s.event = 0 /\ s.todo = {} /\ s.then = "next" /\ s.due = due
  BY DEF Idle, Slot
<1>3. Moved(f, s)
  BY <1>1 DEF Moved
<1> HIDE DEF s
<1>4. Shape(f, s)
  BY <1>0, <1>1, <1>2 DEF Shape, SlotInv, HeldBy, Pending
<1> QED
  BY <1>0, <1>2, <1>3, <1>4, WorkerOnly DEF Tick

\* The tick takes up a bucket that is due.
LEMMA TickRowKeeps ==
  ASSUME NotesIInv, NEW f \in Flushers, NEW b \in BucketIds, TickRow(f, b)
  PROVE  NotesIInv'
<1>0. /\ NotesTypes /\ OwnInv /\ f \in Workers /\ nextB' = nextB /\ nextB \in Nat
      /\ faults' \in 0..MaxFaults /\ slot \in [Workers -> Slot] /\ SlotInv(f, slot[f], nextB)
      /\ slot[f].pc = "next" /\ b \in slot[f].due /\ slot[f] \in Slot
  BY Parts DEF TickRow, InStep
<1> DEFINE s == [slot[f] EXCEPT !.pc = "claim", !.b = b, !.due = @ \ {b}]
<1>2. /\ s \in Slot /\ s.pc = "claim" /\ s.event = slot[f].event /\ s.todo = slot[f].todo
      /\ s.b = b /\ s.then = slot[f].then /\ s.due = slot[f].due \ {b}
  <2>1. PICK x \in Slot : x = slot[f]
    BY <1>0
  <2>2. LET y == [x EXCEPT !.pc = "claim", !.b = b, !.due = @ \ {b}] IN
        /\ y \in Slot /\ y.pc = "claim" /\ y.event = x.event /\ y.todo = x.todo
        /\ y.b = b /\ y.then = x.then /\ y.due = x.due \ {b}
    BY DEF Slot
  <2> QED
    BY <2>1, <2>2
<1>3. Moved(f, s)
  <2>1. slot' = [slot EXCEPT ![f].pc = "claim", ![f].b = b, ![f].due = @ \ {b}]
    BY DEF TickRow
  <2> QED
    BY <1>0, <2>1 DEF Moved
<1> HIDE DEF s
<1>4. Shape(f, s)
  BY <1>0, <1>2 DEF Shape, SlotInv, HeldBy, Pending
<1> QED
  BY <1>0, <1>2, <1>3, <1>4, WorkerOnly DEF TickRow

\* flushOne's claim: of all that try, one becomes the owner.
LEMMA FlushClaimKeeps ==
  ASSUME NotesIInv, NEW w \in Workers, FlushClaim(w)
  PROVE  NotesIInv'
<1>0. /\ NotesTypes /\ OwnInv /\ PlaceInv /\ FlushInv /\ (\A c \in BucketIds : SizeInv(c))
      /\ slot[w] \in Slot /\ SlotInv(w, slot[w], nextB) /\ slot[w].pc = "claim"
      /\ nextB' = nextB /\ nextB \in Nat /\ faults' \in 0..MaxFaults /\ slot \in [Workers -> Slot]
  BY Parts DEF FlushClaim, InStep
<1>1. PICK x \in Slot, b \in BucketIds : x = slot[w] /\ b = slot[w].b /\ b < nextB /\ x.b = b
  BY <1>0 DEF SlotInv
<1>2. CASE bucket[b].sent
  <2>1. AfterFlush(w) /\ UNCHANGED bucket
    BY <1>1, <1>2 DEF FlushClaim
  <2>2. PICK s \in Slot : /\ Moved(w, s) /\ SlotInv(w, s, nextB) /\ s.pc \in {"idle", "next", "create"}
                          /\ s.event \in {0, slot[w].event}
                          /\ \A n : HeldBy(s, n) => HeldBy(slot[w], n)
    BY <1>0, <2>1, AfterFlushFacts
  <2>3. Shape(w, s)
    BY <1>0, <2>2 DEF Shape
  <2> QED
    BY <1>0, <2>1, <2>2, <2>3, WorkerOnly DEF FlushClaim
<1>3. CASE ~bucket[b].sent
  <2> DEFINE s == Stepped(x, "emit")
  <2>1. Moved(w, s) /\ bucket' = [bucket EXCEPT ![b].sent = TRUE]
    BY <1>0, <1>1, <1>3 DEF FlushClaim, Goto, Moved, Stepped
  <2>2. /\ s \in Slot /\ s.pc = "emit" /\ s.event = x.event /\ s.todo = x.todo
        /\ s.user = x.user /\ s.b = x.b /\ s.then = x.then /\ s.due = x.due
    BY SlotStepped
  <2> HIDE DEF s
  <2>3. Shape(w, s)
    BY <1>0, <1>1, <2>2 DEF Shape, SlotInv, HeldBy, Pending
  <2>4. /\ bucket' \in [BucketIds -> Bucket] /\ bucket'[b].items = bucket[b].items /\ bucket'[b].sent
        /\ \A c \in BucketIds : c # b => bucket'[c] = bucket[c]
    <3>1. PICK y \in Bucket : y = bucket[b]
      BY Parts
    <3>2. [y EXCEPT !.sent = TRUE] \in Bucket /\ [y EXCEPT !.sent = TRUE].items = y.items
          /\ [y EXCEPT !.sent = TRUE].sent
      BY DEF Bucket
    <3>3. bucket' = [bucket EXCEPT ![b] = [y EXCEPT !.sent = TRUE]]
      BY <2>1, <3>1, Parts
    <3> QED
      BY <3>1, <3>2, <3>3, Parts
  <2>5. UNCHANGED <<route, job, rows, ready>>
    BY DEF FlushClaim
  <2>6. OwnInv'
    BY <1>0, <2>1, <2>3, <2>5, OwnStep
  <2>7. slot' \in [Workers -> Slot] /\ \A v \in Workers : SlotInv(v, slot'[v], nextB')
    BY <1>0, <2>1, <2>3, SlotsAfter
  <2>8. \A c \in BucketIds : ItemsInv(c)'
    <3>1. ~(b >= nextB) /\ \A c \in BucketIds : ItemsInv(c)
      BY <1>0, <1>1, Parts, LimitsAssumption DEF BucketIds
    <3> QED
      BY <1>0, <2>4, <2>5, <3>1 DEF ItemsInv
  <2>9. NotesTypes'
    BY <1>0, <2>4, <2>7, <2>8 DEF FlushClaim, NotesTypes, TypeOK
  <2>10. slot'[w] = s /\ \A v \in Workers : v # w => slot'[v] = slot[v]
    BY <1>0, <2>1 DEF Moved
  <2>11. PlaceInv'
    BY <1>0, <2>4, <2>5, PlaceSame
  <2>12. FlushInv'
    <3>1. \A v \in Workers, c \in BucketIds : Emits(v, c)' <=> (v = w /\ c = b) \/ (v # w /\ Emits(v, c))
      BY <1>1, <2>2, <2>10 DEF Emits
    <3>2. b \notin ready /\ \A v \in Workers : ~Emits(v, b)
      BY <1>0, <1>3, Parts DEF FlushInv, ItemsInv
    <3>3. \A v \in Workers, c \in BucketIds : Emits(v, c)' => bucket'[c].sent /\ c \notin ready'
      BY <1>0, <2>4, <2>5, <3>1, <3>2 DEF FlushInv
    <3>4. \A v, u \in Workers, c \in BucketIds : Emits(v, c)' /\ Emits(u, c)' => v = u
      BY <1>0, <3>1, <3>2 DEF FlushInv
    <3>5. ASSUME NEW c \in BucketIds, NEW n \in bucket'[c].items
          PROVE  /\ job'[n].st = "none"
                 /\ (~bucket'[c].sent \/ c \in ready' \/ \E v \in Workers : Emits(v, c)') => rows'[n] = 0
      <4>1. n \in bucket[c].items
        BY <2>4, <3>5
      <4>2. CASE c = b
        BY <1>0, <1>3, <2>5, <4>1, <4>2 DEF FlushInv
      <4>3. CASE c # b
        BY <1>0, <2>4, <2>5, <3>1, <4>1, <4>3 DEF FlushInv
      <4> QED
        BY <4>2, <4>3
    <3> QED
      BY <3>3, <3>4, <3>5 DEF FlushInv
  <2>13. \A c \in BucketIds : SizeInv(c)'
    <3>1. \A c \in BucketIds : IsFiniteSet(bucket[c].items) /\ bucket'[c].items = bucket[c].items
      BY <2>4, Parts DEF ItemsInv
    <3> QED
      BY <1>0, <2>2, <2>10, <3>1, SizeKept, Parts
  <2> QED
    BY <2>6, <2>9, <2>11, <2>12, <2>13 DEF NotesIInv
<1> QED
  BY <1>2, <1>3

\* The owner hands the bucket to the sink.
LEMMA FlushEmitKeeps ==
  ASSUME NotesIInv, NEW w \in Workers, FlushEmit(w)
  PROVE  NotesIInv'
<1>0. /\ NotesTypes /\ OwnInv /\ PlaceInv /\ FlushInv /\ (\A c \in BucketIds : SizeInv(c))
      /\ slot[w] \in Slot /\ SlotInv(w, slot[w], nextB) /\ slot[w].pc = "emit" /\ AfterFlush(w)
      /\ nextB' = nextB /\ nextB \in Nat /\ faults' \in 0..MaxFaults /\ slot \in [Workers -> Slot]
  BY Parts DEF FlushEmit, InStep
<1>1. PICK b \in BucketIds : b = slot[w].b /\ Emits(w, b) /\ ready' = ready \cup {b} /\ bucket[b].sent
  BY <1>0 DEF SlotInv, Emits, FlushEmit, FlushInv
<1>2. PICK s \in Slot : /\ Moved(w, s) /\ SlotInv(w, s, nextB) /\ s.pc \in {"idle", "next", "create"}
                        /\ s.event \in {0, slot[w].event}
                        /\ \A n : HeldBy(s, n) => HeldBy(slot[w], n)
  BY <1>0, AfterFlushFacts
<1>3. Shape(w, s)
  BY <1>0, <1>2 DEF Shape
<1>4. UNCHANGED <<route, job, rows, bucket>>
  BY DEF FlushEmit
<1>5. OwnInv'
  BY <1>0, <1>2, <1>3, <1>4, OwnStep
<1>6. slot' \in [Workers -> Slot] /\ \A v \in Workers : SlotInv(v, slot'[v], nextB')
  BY <1>0, <1>2, <1>3, SlotsAfter
<1>7. NotesTypes'
  BY <1>0, <1>1, <1>6 DEF FlushEmit, NotesTypes, TypeOK, ItemsInv
<1>8. slot'[w] = s /\ \A v \in Workers : v # w => slot'[v] = slot[v]
  BY <1>0, <1>2 DEF Moved
<1>9. FlushInv'
  <2>1. \A v \in Workers, c \in BucketIds : Emits(v, c)' => v # w /\ Emits(v, c) /\ c # b
    BY <1>0, <1>1, <1>2, <1>8 DEF Emits, FlushInv
  <2> QED
    BY <1>0, <1>1, <1>4, <2>1 DEF FlushInv
<1>10. \A c \in BucketIds : SizeInv(c)'
  <2>1. \A c \in BucketIds : IsFiniteSet(bucket[c].items)
    BY Parts DEF ItemsInv
  <2> QED
    BY <1>0, <1>2, <1>4, <1>8, <2>1, SizeKept, Parts
<1> QED
  BY <1>0, <1>4, <1>5, <1>7, <1>9, <1>10, PlaceSame DEF NotesIInv

\* A note that is in a bucket has been routed.
LEMMA InBucket ==
  ASSUME NotesIInv, NEW b \in BucketIds
  PROVE  /\ bucket[b].items \subseteq Notes
         /\ \A n \in bucket[b].items : route[n] # "none" /\ \A w \in Workers : ~HeldBy(slot[w], n)
<1>1. bucket[b].items \subseteq Notes
  BY Parts DEF Bucket
<1>2. \A n \in bucket[b].items : route[n] # "none"
  BY <1>1, Parts DEF PlaceInv
<1> QED
  BY <1>1, <1>2, Parts DEF OwnInv

\* A step of one worker that loses notes: its own, or those of a bucket.
LEMMA LosingStep ==
  ASSUME NotesIInv, NEW w \in Workers, NEW s, Moved(w, s), Shape(w, s),
         s.pc \notin {"emit", "append"}, NEW gone, Lose(gone),
         \A n \in Notes : HeldBy(s, n) => n \notin gone,
         \A n \in Notes : n \in gone => HeldBy(slot[w], n) \/ route[n] # "none",
         UNCHANGED <<audience, digestOn, quiet, nextB, bucket, ready, job, rows>>,
         faults' \in 0..MaxFaults
  PROVE  NotesIInv'
<1>0. /\ NotesTypes /\ OwnInv /\ PlaceInv /\ FlushInv /\ (\A c \in BucketIds : SizeInv(c))
      /\ slot \in [Workers -> Slot] /\ nextB' = nextB /\ nextB \in Nat
  BY Parts
<1>1. /\ route' \in [Notes -> Routes]
      /\ \A n \in Notes : route'[n] = IF n \in gone THEN "lost" ELSE route[n]
  BY Parts DEF Lose, Routes
<1>2. OwnInv'
  <2>1. /\ \A n \in Notes : HeldBy(s, n) => route'[n] = route[n]
        /\ \A n \in Notes : route'[n] = route[n] \/ HeldBy(slot[w], n) \/ route[n] # "none"
    BY <1>1
  <2> QED
    BY <1>0, <2>1, OwnStep
<1>3. slot' \in [Workers -> Slot] /\ \A v \in Workers : SlotInv(v, slot'[v], nextB')
  BY <1>0, SlotsAfter
<1>4. NotesTypes'
  BY <1>0, <1>1, <1>3 DEF NotesTypes, TypeOK, ItemsInv
<1>5. slot'[w] = s /\ \A v \in Workers : v # w => slot'[v] = slot[v]
  BY <1>0 DEF Moved
<1>6. FlushInv'
  BY <1>0, <1>5, FlushSame DEF Emits
<1>7. \A b \in BucketIds : SizeInv(b)'
  <2>1. \A b \in BucketIds : IsFiniteSet(bucket[b].items)
    BY Parts DEF ItemsInv
  <2> QED
    BY <1>0, <1>5, <2>1, SizeKept, Parts
<1>8. \A n \in Notes : route'[n] = route[n] \/ route'[n] \in {"dropped", "lost"}
  BY <1>1
<1> QED
  BY <1>0, <1>2, <1>4, <1>6, <1>7, <1>8, PlaceDrops DEF NotesIInv

\* One more fault.
LEMMA FaultTyped == NotesIInv /\ Fault => faults' \in 0..MaxFaults
  BY LimitsAssumption DEF NotesIInv, NotesTypes, TypeOK, Fault

\* A statement of a flush rejects.
LEMMA FlushErrorKeeps ==
  ASSUME NotesIInv, NEW w \in Workers, FlushError(w)
  PROVE  NotesIInv'
<1>0. /\ NotesTypes /\ OwnInv /\ slot[w].pc \in {"claim", "emit"} /\ AfterFlush(w)
      /\ SlotInv(w, slot[w], nextB)
      /\ nextB' = nextB /\ nextB \in Nat /\ faults' \in 0..MaxFaults
  BY Parts, FaultTyped DEF FlushError
<1>1. PICK b \in BucketIds : b = slot[w].b
  BY <1>0 DEF SlotInv
<1>2. PICK s \in Slot : /\ Moved(w, s) /\ SlotInv(w, s, nextB) /\ s.pc \in {"idle", "next", "create"}
                        /\ s.event \in {0, slot[w].event}
                        /\ \A n : HeldBy(s, n) => HeldBy(slot[w], n)
  BY <1>0, AfterFlushFacts
<1>3. Shape(w, s)
  BY <1>0, <1>2 DEF Shape
<1>4. CASE slot[w].pc = "emit"
  <2>1. Lose(bucket[b].items)
    BY <1>1, <1>4 DEF FlushError, InStep
  <2>2. /\ \A n \in Notes : HeldBy(s, n) => n \notin bucket[b].items
        /\ \A n \in Notes : n \in bucket[b].items => HeldBy(slot[w], n) \/ route[n] # "none"
    BY <1>2, InBucket
  <2> QED
    BY <1>0, <1>2, <1>3, <2>1, <2>2, LosingStep DEF FlushError
<1>5. CASE slot[w].pc # "emit"
  BY <1>0, <1>2, <1>3, <1>5, WorkerOnly DEF FlushError, InStep
<1> QED
  BY <1>4, <1>5

\* What dies with a worker is what it held, and the bucket it had claimed.
LEMMA DieKeeps ==
  ASSUME NotesIInv, NEW w \in Workers, Die(w)
  PROVE  NotesIInv'
<1> DEFINE x == slot[w]
           own == {<<x.event, u>> : u \in x.todo} \cup (IF Pending(x) THEN {NoteOf(w)} ELSE {})
           items == IF x.pc = "emit" THEN bucket[x.b].items ELSE {}
<1>0. /\ NotesTypes /\ OwnInv /\ SlotInv(w, slot[w], nextB)
      /\ nextB' = nextB /\ nextB \in Nat /\ faults' \in 0..MaxFaults
  BY Parts, FaultTyped DEF Die
<1>1. Lose(own \cup items) /\ Moved(w, Idle)
  BY DEF Die, Moved, Pending
<1>2. Shape(w, Idle) /\ Idle.pc = "idle" /\ \A n : ~HeldBy(Idle, n)
  BY IdleSlot DEF Shape
<1>3. \A n \in Notes : n \in own => HeldBy(slot[w], n)
  BY DEF HeldBy, NoteOf
<1>4. \A n \in Notes : n \in items => route[n] # "none"
  <2>1. x.pc = "emit" => x.b \in BucketIds
    BY <1>0 DEF SlotInv
  <2> QED
    BY <2>1, InBucket
<1> HIDE DEF own, items
<1> QED
  BY <1>0, <1>1, <1>2, <1>3, <1>4, LosingStep DEF Die

\* The sink writes one row for each item, once for each bucket.
LEMMA DeliverKeeps ==
  ASSUME NotesIInv, NEW b \in BucketIds, Deliver(b)
  PROVE  NotesIInv'
<1>0. /\ NotesTypes /\ OwnInv /\ PlaceInv /\ FlushInv /\ (\A c \in BucketIds : SizeInv(c))
      /\ b \in ready /\ ready' = ready \ {b}
      /\ UNCHANGED <<audience, digestOn, quiet, slot, route, nextB, bucket, job, faults>>
  BY Parts DEF Deliver
<1>1. /\ rows' \in [Notes -> Nat]
      /\ \A n \in Notes : rows'[n] = IF n \in bucket[b].items THEN rows[n] + 1 ELSE rows[n]
  BY Parts DEF Deliver
<1>2. \A n \in bucket[b].items : n \in Notes /\ rows[n] = 0 /\ job[n].st = "none" /\ job[n].stalls = 0
  <2>1. \A n \in bucket[b].items : n \in Notes /\ rows[n] = 0 /\ job[n].st = "none"
    BY <1>0, InBucket DEF FlushInv
  <2> QED
    BY <2>1, Parts DEF JobInv
<1>3. \A n \in Notes : JobInv(job'[n], rows'[n])
  <2>1. ASSUME NEW n \in bucket[b].items PROVE JobInv(job[n], 1)
    <3>1. JobInv(job[n], rows[n])
      BY <1>2, Parts
    <3> QED
      BY <1>2, <3>1 DEF JobInv
  <2>2. \A n \in Notes : JobInv(job[n], rows[n])
    BY Parts
  <2>3. \A n \in bucket[b].items : rows'[n] = 1
    BY <1>1, <1>2
  <2> QED
    BY <1>0, <1>1, <2>1, <2>2, <2>3
<1>4. NotesTypes'
  BY <1>0, <1>1, <1>3 DEF NotesTypes, TypeOK, ItemsInv
<1>5. OwnInv'
  BY <1>0 DEF OwnInv
<1>6. PlaceInv'
  BY <1>0, <1>1 DEF PlaceInv
<1>7. FlushInv'
  <2>1. \A w \in Workers, c \in BucketIds : Emits(w, c)' <=> Emits(w, c)
    BY <1>0 DEF Emits
  <2>2. ASSUME NEW c \in BucketIds, NEW n \in bucket[c].items
        PROVE  /\ job[n].st = "none"
               /\ (~bucket[c].sent \/ c \in ready' \/ \E w \in Workers : Emits(w, c)) => rows'[n] = 0
    <3>1. CASE c = b
      BY <1>0, <3>1, Parts DEF FlushInv, ItemsInv
    <3>2. CASE c # b
      <4>1. n \notin bucket[b].items /\ n \in Notes
        BY <1>0, <3>2, InBucket DEF PlaceInv
      <4> QED
        BY <1>0, <1>1, <4>1 DEF FlushInv
    <3> QED
      BY <3>1, <3>2
  <2> QED
    BY <1>0, <2>1, <2>2 DEF FlushInv
<1>8. \A c \in BucketIds : SizeInv(c)'
  BY <1>0 DEF SizeInv, Appenders
<1> QED
  BY <1>4, <1>5, <1>6, <1>7, <1>8 DEF NotesIInv

\* The delivery of a digest fails.
LEMMA DeliverFailsKeeps ==
  ASSUME NotesIInv, NEW b \in BucketIds, DeliverFails(b)
  PROVE  NotesIInv'
<1>0. /\ NotesTypes /\ OwnInv /\ PlaceInv /\ FlushInv /\ (\A c \in BucketIds : SizeInv(c))
      /\ ready' = ready \ {b} /\ faults' \in 0..MaxFaults
      /\ UNCHANGED <<audience, digestOn, quiet, slot, nextB, bucket, job, rows>>
  BY Parts, FaultTyped DEF DeliverFails
<1>1. /\ route' \in [Notes -> Routes]
      /\ \A n \in Notes : route'[n] = IF n \in bucket[b].items THEN "lost" ELSE route[n]
  BY Parts DEF DeliverFails, Lose, Routes
<1>2. NotesTypes'
  BY <1>0, <1>1 DEF NotesTypes, TypeOK, ItemsInv
<1>3. OwnInv'
  BY <1>0, <1>1, InBucket DEF OwnInv
<1>4. \A n \in Notes : route'[n] = route[n] \/ route'[n] \in {"dropped", "lost"}
  BY <1>1
<1>5. FlushInv'
  BY <1>0 DEF FlushInv, Emits
<1>6. \A c \in BucketIds : SizeInv(c)'
  BY <1>0 DEF SizeInv, Appenders
<1> QED
  BY <1>0, <1>2, <1>3, <1>4, <1>5, <1>6, PlaceDrops DEF NotesIInv

\* The cutoff passes, or a setting changes.
LEMMA OutsideKeeps ==
  ASSUME NotesIInv, (\E b \in BucketIds : Age(b)) \/ (\E u \in Addressed : Toggle(u)) \/ UNCHANGED vars
  PROVE  NotesIInv'
<1>0. /\ NotesTypes /\ OwnInv /\ PlaceInv /\ FlushInv /\ (\A c \in BucketIds : SizeInv(c))
  BY Parts
<1>1. UNCHANGED <<audience, slot, route, nextB, ready, job, rows>>
  BY DEF Age, Toggle, vars
<1>2. /\ bucket' \in [BucketIds -> Bucket]
      /\ \A c \in BucketIds : bucket'[c].items = bucket[c].items /\ bucket'[c].sent = bucket[c].sent
  <2>1. CASE UNCHANGED bucket
    BY <2>1, Parts
  <2>2. CASE \E b \in BucketIds : Age(b)
    <3>1. PICK b \in BucketIds : bucket' = [bucket EXCEPT ![b].aged = TRUE]
      BY <2>2 DEF Age
    <3>2. PICK y \in Bucket : y = bucket[b]
      BY Parts
    <3>3. [y EXCEPT !.aged = TRUE] \in Bucket /\ [y EXCEPT !.aged = TRUE].items = y.items
          /\ [y EXCEPT !.aged = TRUE].sent = y.sent
      BY DEF Bucket
    <3>4. bucket' = [bucket EXCEPT ![b] = [y EXCEPT !.aged = TRUE]]
      BY <3>1, <3>2, Parts
    <3> QED
      BY <3>2, <3>3, <3>4, Parts
  <2> QED
    BY <2>1, <2>2 DEF Toggle, vars
<1>3. digestOn' \in [Users -> BOOLEAN] /\ quiet' \in [Users -> BOOLEAN] /\ faults' \in 0..MaxFaults
  <2>0. digestOn \in [Users -> BOOLEAN] /\ quiet \in [Users -> BOOLEAN] /\ faults \in 0..MaxFaults
    BY DEF NotesIInv, NotesTypes, TypeOK
  <2>1. CASE \E b \in BucketIds : Age(b)
    BY <2>0, <2>1 DEF Age
  <2>2. CASE UNCHANGED vars
    BY <2>0, <2>2 DEF vars
  <2>3. CASE \E u \in Addressed : Toggle(u)
    <3>1. faults' \in 0..MaxFaults
      BY <2>3, FaultTyped DEF Toggle
    <3>2. digestOn' \in [Users -> BOOLEAN] /\ quiet' \in [Users -> BOOLEAN]
      BY <2>0, <2>3 DEF Toggle
    <3> QED
      BY <3>1, <3>2
  <2> QED
    BY <2>1, <2>2, <2>3
<1>4. NotesTypes'
  BY <1>0, <1>1, <1>2, <1>3 DEF NotesTypes, TypeOK, ItemsInv
<1>5. OwnInv'
  BY <1>0, <1>1 DEF OwnInv
<1>6. FlushInv'
  BY <1>0, <1>1, <1>2, FlushSame DEF Emits
<1>7. \A c \in BucketIds : SizeInv(c)'
  BY <1>0, <1>1, <1>2 DEF SizeInv, Appenders
<1> QED
  BY <1>0, <1>1, <1>2, <1>4, <1>5, <1>6, <1>7, PlaceSame DEF NotesIInv

\* The invariant holds before the first event.
LEMMA NotesStart == Init => NotesIInv
<1> SUFFICES ASSUME Init PROVE NotesIInv
  OBVIOUS
<1>1. TypeOK
  <2>1. [user |-> "none", items |-> {}, sent |-> FALSE, aged |-> FALSE] \in Bucket
    BY DEF Bucket
  <2>2. [st |-> "none", tries |-> 0, stalls |-> 0] \in Job
    BY LimitsAssumption DEF Job
  <2> QED
    BY <2>1, <2>2, IdleSlot, LimitsAssumption DEF Init, TypeOK, Routes
<1>2. /\ \A w \in Workers : slot[w] = Idle
      /\ \A n \in Notes : route[n] = "none" /\ rows[n] = 0 /\ job[n].st = "none" /\ job[n].stalls = 0
                          /\ job[n].tries = 0
      /\ \A b \in BucketIds : bucket[b].items = {} /\ ~bucket[b].sent
      /\ ready = {}
  BY DEF Init
<1>3. \A n \in Notes : JobInv(job[n], rows[n])
  BY <1>2, LimitsAssumption DEF JobInv
<1>4. NotesTypes
  BY <1>1, <1>2, <1>3, IdleSlot, FS_EmptySet DEF NotesTypes, ItemsInv
<1>5. OwnInv /\ PlaceInv
  BY <1>2, IdleSlot DEF OwnInv, PlaceInv
<1>6. FlushInv
  BY <1>2, IdleSlot DEF FlushInv, Emits
<1>7. \A b \in BucketIds : SizeInv(b)
  <2>1. \A b \in BucketIds : Appenders(b) = {}
    BY <1>2, IdleSlot DEF Appenders, Workers
  <2>2. PICK k \in Nat : k = Cardinality(Dispatchers)
    BY DispatchersAssumption, FS_CardinalityType
  <2>3. 0 + 0 <= Cap - 1 + k
    BY <2>2, LimitsAssumption
  <2> QED
    BY <1>2, <2>1, <2>2, <2>3, FS_EmptySet DEF SizeInv
<1> QED
  BY <1>4, <1>5, <1>6, <1>7 DEF NotesIInv

\* Every step of every worker, of the queue and of the sink.
LEMMA NotesStep == NotesIInv /\ [Next]_vars => NotesIInv'
<1> SUFFICES ASSUME NotesIInv, [Next]_vars PROVE NotesIInv'
  OBVIOUS
<1>1. ASSUME NEW d \in Dispatchers, DispatchStep(d) \/ \E e \in Events : Dispatch(d, e) PROVE NotesIInv'
  BY <1>1, MuteCheckKeeps, ReadDigestStep, EnqueueKeeps, FindOpenKeeps, AppendKeeps, CreateKeeps,
     DispatchKeeps DEF DispatchStep
<1>2. ASSUME NEW f \in Flushers, TickStep(f) PROVE NotesIInv'
  BY <1>2, TickKeeps, TickRowKeeps DEF TickStep
<1>3. ASSUME NEW w \in Workers, FlushStep(w) \/ FlushError(w) \/ Die(w) PROVE NotesIInv'
  BY <1>3, FlushClaimKeeps, FlushEmitKeeps, FlushErrorKeeps, DieKeeps DEF FlushStep
<1>4. ASSUME NEW b \in BucketIds, Deliver(b) \/ DeliverFails(b) PROVE NotesIInv'
  BY <1>4, DeliverKeeps, DeliverFailsKeeps
<1>5. ASSUME NEW n \in Notes, JobWrite(n) \/ JobAck(n) \/ JobFail(n) \/ JobStall(n) PROVE NotesIInv'
  BY <1>5, JobsKeep
<1> QED
  BY <1>1, <1>2, <1>3, <1>4, <1>5, OutsideKeeps DEF Next

\* A note that is batched is in one bucket and no other.
LEMMA NotesFollow == NotesIInv => NotesOnce
<1> SUFFICES ASSUME NotesIInv PROVE NotesOnce
  OBVIOUS
<1>1. BatchedOnce
  <2>1. ASSUME NEW n \in Notes, route[n] = "batched"
        PROVE  Cardinality({b \in BucketIds : n \in bucket[b].items}) = 1
    <3>1. PICK b \in BucketIds : n \in bucket[b].items
      BY <2>1, Parts DEF PlaceInv
    <3>2. {c \in BucketIds : n \in bucket[c].items} = {b}
      BY <3>1, Parts DEF PlaceInv
    <3> QED
      BY <3>2, FS_Singleton
  <2> QED
    BY <2>1 DEF BatchedOnce
<1>2. RowsBounded
  BY Parts DEF RowsBounded, JobInv
<1>3. BucketBounded
  <2>1. ASSUME NEW b \in BucketIds
        PROVE  Cardinality(bucket[b].items) <= Cap + Cardinality(Dispatchers) - 1
    <3>1. Appenders(b) \subseteq Dispatchers /\ IsFiniteSet(bucket[b].items)
      BY Parts DEF Appenders, ItemsInv
    <3>2. IsFiniteSet(Appenders(b))
      BY <3>1, DispatchersAssumption, FS_Subset
    <3>3. PICK i \in Nat, a \in Nat, k \in Nat :
            i = Cardinality(bucket[b].items) /\ a = Cardinality(Appenders(b)) /\ k = Cardinality(Dispatchers)
      BY <3>1, <3>2, DispatchersAssumption, FS_CardinalityType
    <3>4. i + a <= Cap - 1 + k
      BY <3>3, Parts DEF SizeInv
    <3>5. i <= Cap + k - 1
      BY <3>3, <3>4, LimitsAssumption
    <3> QED
      BY <3>3, <3>5
  <2> QED
    BY <2>1 DEF BucketBounded
<1> QED
  BY <1>1, <1>2, <1>3 DEF NotesOnce

\* Dispatches, buckets, jobs and rows have their types, for any number of
\* users, events, dispatches and ticks.
THEOREM NotificationsTyped == Spec => []TypeOK
<1>1. NotesIInv => TypeOK
  BY DEF NotesIInv, NotesTypes
<1> QED
  BY <1>1, NotesStart, NotesStep, PTL DEF Spec

\* A note is in one bucket, gets one row and one more for each stall of its
\* job, and no bucket outgrows the hard cap by as many items as there are
\* dispatches, whichever appends, flushes, ticks, crashes and failures race.
THEOREM NotesDeliveredOnce == Spec => []NotesOnce
<1> QED
  BY NotesStart, NotesStep, NotesFollow, PTL DEF Spec

-----------------------------------------------------------------------------
(* The three side by side *)

\* Each behaviour of the three together is one of each of them.
LEMMA BackgroundSideBySide == MCSpec => Spec /\ RecurrenceSpec /\ AttachmentsSpec
<1>1. MCInit => Init /\ RecurrenceInit /\ AttachmentsInit
  BY DEF MCInit
<1>2. [MCNext]_mcVars => /\ [Next]_vars /\ [RecurrenceNext]_recurrenceVars
                         /\ [AttachmentsNext]_attachmentVars
  BY DEF MCNext, mcVars
<1> QED
  BY <1>1, <1>2, PTL DEF MCSpec, Spec, RecurrenceSpec, AttachmentsSpec

\* The state of all three stays well typed, whichever of them moves.
THEOREM BackgroundTyped == MCSpec => []MCTypeOK
<1>1. TypeOK /\ RecurrenceTypeOK /\ AttachmentsTypeOK => MCTypeOK
  BY DEF MCTypeOK
<1> QED
  BY BackgroundSideBySide, <1>1, NotificationsTyped, RecurrenceTyped, AttachmentsTyped, PTL
=============================================================================
