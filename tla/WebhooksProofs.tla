--------------------------- MODULE WebhooksProofs ---------------------------
(***************************************************************************)
(* Proof that a delivery is never posted more often than its retry budget  *)
(* and the dead workers account for, for any number of deliveries, of      *)
(* parallel workers, attempts, faults and crashes; that the owner gets no  *)
(* more notices than the hook was disabled times; and that a single worker *)
(* disables the hook only by failures that still count, as long as nobody  *)
(* switches the hook off by hand.                                          *)
(***************************************************************************)
EXTENDS Webhooks, FiniteSetTheorems, TLAPS

JobType == [state : JobState, made : 0..RetryAttempts]
PcType == [at : Point, inTry : BOOLEAN, resp : {"none", "ok", "rejected", "retryable"}]

Types == /\ job \in [Deliveries -> JobType]
         /\ pc \in [Deliveries -> PcType]
         /\ posts \in [Deliveries -> Nat]
         /\ crashes \in Nat

\* The posts of a delivery are covered by the attempts it has used up, the
\* one it is in once that has posted, and the workers that died.
Budget(d) == /\ job[d].state \in {"none", "adding"} => job[d].made = 0
             /\ job[d].state \in {"none", "adding", "waiting", "active"} => job[d].made < RetryAttempts
             /\ job[d].state \in {"none", "adding", "waiting"} => posts[d] <= job[d].made + crashes
             /\ job[d].state = "active" => posts[d] <= job[d].made + 1 + crashes
             /\ pc[d].at \in {"read", "drop", "fetch"} => posts[d] <= job[d].made + crashes
             /\ posts[d] <= RetryAttempts + crashes
             /\ pc[d].at # "none" => job[d].state = "active"

IInv == Types /\ \A d \in Deliveries : Budget(d)

\* The account is right before the first delivery.
LEMMA InitIInv == Init => IInv
  BY BoundAssumption DEF Init, IInv, Types, JobType, PcType, Budget, Out, JobState, Point

\* Every step keeps the account of the posts.
LEMMA StepIInv == ASSUME IInv, [Next]_vars PROVE IInv'
<1> USE BoundAssumption DEF JobState, Point, Out
<1>1. CASE UNCHANGED vars
  BY <1>1 DEF IInv, vars, Types, Budget
<1>2. CASE UpdateLoad \/ UpdateWrite \/ Remove
  BY <1>2 DEF IInv, UpdateLoad, UpdateWrite, Remove, Types, Budget
<1> SUFFICES ASSUME NEW d \in Deliveries,
                    \/ CreateDelivery(d) \/ AddJob(d) \/ AddDuplicate(d) \/ AddFails(d)
                    \/ Step(d) \/ DbFault(d) \/ Crash(d)
             PROVE IInv'
  BY <1>1, <1>2 DEF Next
<1>3. /\ job \in [Deliveries -> JobType] /\ pc \in [Deliveries -> PcType]
      /\ posts \in [Deliveries -> Nat] /\ crashes \in Nat
  BY DEF IInv, Types
<1>4. /\ job[d].state \in JobState /\ job[d].made \in 0..RetryAttempts
      /\ pc[d].at \in Point /\ pc[d].inTry \in BOOLEAN
      /\ posts[d] \in Nat
  BY <1>3 DEF JobType, PcType
<1>5. Budget(d)
  BY DEF IInv
<1> DEFINE Typed == job \in [Deliveries -> JobType] /\ pc \in [Deliveries -> PcType]
<1>6. Complete(d) => Typed'
  BY <1>3, <1>4 DEF JobType, PcType, Complete, SetJob
<1>7. Throw(d) /\ job[d].made < RetryAttempts => Typed'
  <2> SUFFICES ASSUME Throw(d), job[d].made < RetryAttempts PROVE Typed'
    OBVIOUS
  <2>1. pc' \in [Deliveries -> PcType]
    BY <1>3 DEF PcType, Throw
  <2>2. job' \in [Deliveries -> JobType]
    BY <1>3, <1>4 DEF JobType, Throw, SetJob
  <2> QED
    BY <2>1, <2>2
<1>8. Reject(d) /\ job[d].made < RetryAttempts => Typed'
  <2>1. CASE pc[d].inTry
    BY <2>1, <1>3 DEF PcType, Reject
  <2>2. CASE ~pc[d].inTry
    BY <2>2, <1>7 DEF Reject
  <2> QED
    BY <2>1, <2>2
<1>9. ASSUME NEW p \in Point, Goto(d, p), UNCHANGED job PROVE Typed'
  BY <1>3, <1>9 DEF PcType, Goto
<1>10. pc[d].at # "none" => job[d].made < RetryAttempts
  BY <1>5 DEF Budget
<1>11. CASE CreateDelivery(d)
  <2>1. Types'
    BY <1>11, <1>3, <1>4, <1>5 DEF Types, JobType, PcType, Budget, CreateDelivery, SetJob
  <2>2. Budget(d)'
    BY <1>11, <1>3, <1>4, <1>5 DEF JobType, PcType, Budget, CreateDelivery, SetJob
  <2>3. ASSUME NEW e \in Deliveries \ {d} PROVE Budget(e)'
    BY <1>11, <1>3 DEF IInv, JobType, PcType, Budget, CreateDelivery, SetJob
  <2> QED
    BY <2>1, <2>2, <2>3 DEF IInv
<1>12. CASE AddJob(d)
  <2>1. Types'
    BY <1>12, <1>3, <1>4, <1>5 DEF Types, JobType, PcType, Budget, AddJob, SetJob
  <2>2. Budget(d)'
    BY <1>12, <1>3, <1>4, <1>5 DEF JobType, PcType, Budget, AddJob, SetJob
  <2>3. ASSUME NEW e \in Deliveries \ {d} PROVE Budget(e)'
    BY <1>12, <1>3 DEF IInv, JobType, PcType, Budget, AddJob, SetJob
  <2> QED
    BY <2>1, <2>2, <2>3 DEF IInv
<1>13. CASE AddDuplicate(d)
  <2>1. Types'
    BY <1>13, <1>3, <1>4, <1>5 DEF Types, JobType, PcType, Budget, AddDuplicate, SetJob
  <2>2. Budget(d)'
    BY <1>13, <1>3, <1>4, <1>5 DEF JobType, PcType, Budget, AddDuplicate, SetJob
  <2>3. ASSUME NEW e \in Deliveries \ {d} PROVE Budget(e)'
    BY <1>13, <1>3 DEF IInv, JobType, PcType, Budget, AddDuplicate, SetJob
  <2> QED
    BY <2>1, <2>2, <2>3 DEF IInv
<1>14. CASE AddFails(d)
  <2>1. Types'
    BY <1>14, <1>3, <1>4, <1>5 DEF Types, JobType, PcType, Budget, AddFails, SetJob
  <2>2. Budget(d)'
    BY <1>14, <1>3, <1>4, <1>5 DEF JobType, PcType, Budget, AddFails, SetJob
  <2>3. ASSUME NEW e \in Deliveries \ {d} PROVE Budget(e)'
    BY <1>14, <1>3 DEF IInv, JobType, PcType, Budget, AddFails, SetJob
  <2> QED
    BY <2>1, <2>2, <2>3 DEF IInv
<1>15. CASE Start(d)
  <2>1. Types'
    BY <1>15, <1>3, <1>4, <1>5 DEF Types, JobType, PcType, Budget, Start, SetJob, Goto
  <2>2. Budget(d)'
    BY <1>15, <1>3, <1>4, <1>5 DEF JobType, PcType, Budget, Start, SetJob, Goto
  <2>3. ASSUME NEW e \in Deliveries \ {d} PROVE Budget(e)'
    BY <1>15, <1>3 DEF IInv, JobType, PcType, Budget, Start, SetJob, Goto
  <2> QED
    BY <2>1, <2>2, <2>3 DEF IInv
<1>16. CASE ReadHook(d)
  <2>1. Types'
    BY <1>16, <1>3, <1>4, <1>5 DEF Types, JobType, PcType, Budget, ReadHook, SetJob, At, Goto
  <2>2. Budget(d)'
    BY <1>16, <1>3, <1>4, <1>5 DEF JobType, PcType, Budget, ReadHook, SetJob, At, Goto
  <2>3. ASSUME NEW e \in Deliveries \ {d} PROVE Budget(e)'
    BY <1>16, <1>3 DEF IInv, JobType, PcType, Budget, ReadHook, SetJob, At, Goto
  <2> QED
    BY <2>1, <2>2, <2>3 DEF IInv
<1>17. CASE Drop(d)
  <2>1. Types'
    <3>1. Typed'
      BY <1>17, <1>6, <1>8, <1>10 DEF Drop, At
    <3> QED
      BY <1>17, <3>1, <1>3 DEF Types, Drop
  <2>2. Budget(d)'
    BY <1>17, <1>3, <1>4, <1>5 DEF JobType, PcType, Budget, Drop, SetJob, At, Reject, Throw, Complete
  <2>3. ASSUME NEW e \in Deliveries \ {d} PROVE Budget(e)'
    BY <1>17, <1>3 DEF IInv, JobType, PcType, Budget, Drop, SetJob, At, Reject, Throw, Complete
  <2> QED
    BY <2>1, <2>2, <2>3 DEF IInv
<1>18. CASE Fetch(d)
  <2>1. Types'
    BY <1>18, <1>3, <1>4, <1>5 DEF Types, JobType, PcType, Budget, Fetch, SetJob, At
  <2>2. Budget(d)'
    BY <1>18, <1>3, <1>4, <1>5 DEF JobType, PcType, Budget, Fetch, SetJob, At
  <2>3. ASSUME NEW e \in Deliveries \ {d} PROVE Budget(e)'
    BY <1>18, <1>3 DEF IInv, JobType, PcType, Budget, Fetch, SetJob, At
  <2> QED
    BY <2>1, <2>2, <2>3 DEF IInv
<1>19. CASE RowOk(d)
  <2>1. Types'
    <3>1. Typed'
      BY <1>19, <1>8, <1>9, <1>10 DEF RowOk, At
    <3> QED
      BY <1>19, <3>1, <1>3 DEF Types, RowOk
  <2>2. Budget(d)'
    BY <1>19, <1>3, <1>4, <1>5 DEF JobType, PcType, Budget, RowOk, SetJob, At, Reject, Throw, Goto
  <2>3. ASSUME NEW e \in Deliveries \ {d} PROVE Budget(e)'
    BY <1>19, <1>3 DEF IInv, JobType, PcType, Budget, RowOk, SetJob, At, Reject, Throw, Goto
  <2> QED
    BY <2>1, <2>2, <2>3 DEF IInv
<1>20. CASE HookOk(d)
  <2>1. Types'
    <3>1. Typed'
      BY <1>20, <1>6, <1>8, <1>10 DEF HookOk, At
    <3> QED
      BY <1>20, <3>1, <1>3 DEF Types, HookOk
  <2>2. Budget(d)'
    BY <1>20, <1>3, <1>4, <1>5 DEF JobType, PcType, Budget, HookOk, SetJob, At, Reject, Throw, Complete
  <2>3. ASSUME NEW e \in Deliveries \ {d} PROVE Budget(e)'
    BY <1>20, <1>3 DEF IInv, JobType, PcType, Budget, HookOk, SetJob, At, Reject, Throw, Complete
  <2> QED
    BY <2>1, <2>2, <2>3 DEF IInv
<1>21. CASE RowRejected(d)
  <2>1. Types'
    <3>1. Typed'
      BY <1>21, <1>8, <1>9, <1>10 DEF RowRejected, At
    <3> QED
      BY <1>21, <3>1, <1>3 DEF Types, RowRejected
  <2>2. Budget(d)'
    BY <1>21, <1>3, <1>4, <1>5 DEF JobType, PcType, Budget, RowRejected, SetJob, At, Reject, Throw, Goto
  <2>3. ASSUME NEW e \in Deliveries \ {d} PROVE Budget(e)'
    BY <1>21, <1>3 DEF IInv, JobType, PcType, Budget, RowRejected, SetJob, At, Reject, Throw, Goto
  <2> QED
    BY <2>1, <2>2, <2>3 DEF IInv
<1>22. CASE Retry(d)
  <2>1. Types'
    <3>1. Throw(d) \/ (UNCHANGED job /\ pc' = [pc EXCEPT ![d].at = "count", ![d].inTry = FALSE])
      BY <1>22 DEF Retry
    <3>2. CASE Throw(d)
      BY <1>22, <3>2, <1>3, <1>7, <1>10 DEF Types, Retry, At
    <3>3. CASE UNCHANGED job /\ pc' = [pc EXCEPT ![d].at = "count", ![d].inTry = FALSE]
      <4>1. pc' \in [Deliveries -> PcType]
        BY <3>3, <1>3 DEF PcType
      <4>2. UNCHANGED <<posts, crashes>>
        BY <1>22 DEF Retry
      <4> QED
        BY <1>3, <3>3, <4>1, <4>2 DEF Types
    <3> QED
      BY <3>1, <3>2, <3>3
  <2>2. Budget(d)'
    BY <1>22, <1>3, <1>4, <1>5 DEF JobType, PcType, Budget, Retry, SetJob, At, Throw
  <2>3. ASSUME NEW e \in Deliveries \ {d} PROVE Budget(e)'
    BY <1>22, <1>3 DEF IInv, JobType, PcType, Budget, Retry, SetJob, At, Throw
  <2> QED
    BY <2>1, <2>2, <2>3 DEF IInv
<1>23. CASE Count(d)
  <2>1. Types'
    <3>1. Typed'
      BY <1>23, <1>6, <1>8, <1>9, <1>10 DEF Count, At
    <3> QED
      BY <1>23, <3>1, <1>3 DEF Types, Count
  <2>2. Budget(d)'
    BY <1>23, <1>3, <1>4, <1>5 DEF JobType, PcType, Budget, Count, SetJob, At, Reject, Throw, Goto, Complete
  <2>3. ASSUME NEW e \in Deliveries \ {d} PROVE Budget(e)'
    BY <1>23, <1>3 DEF IInv, JobType, PcType, Budget, Count, SetJob, At, Reject, Throw, Goto, Complete
  <2> QED
    BY <2>1, <2>2, <2>3 DEF IInv
<1>24. CASE Flip(d)
  <2>1. Types'
    <3>1. Typed'
      BY <1>24, <1>6, <1>9, <1>10 DEF Flip, At
    <3> QED
      BY <1>24, <3>1, <1>3 DEF Types, Flip
  <2>2. Budget(d)'
    BY <1>24, <1>3, <1>4, <1>5 DEF JobType, PcType, Budget, Flip, SetJob, At, Goto, Complete
  <2>3. ASSUME NEW e \in Deliveries \ {d} PROVE Budget(e)'
    BY <1>24, <1>3 DEF IInv, JobType, PcType, Budget, Flip, SetJob, At, Goto, Complete
  <2> QED
    BY <2>1, <2>2, <2>3 DEF IInv
<1>25. CASE Notify(d)
  <2>1. Types'
    BY <1>25, <1>3, <1>4, <1>5 DEF Types, JobType, PcType, Budget, Notify, SetJob, At, Complete
  <2>2. Budget(d)'
    BY <1>25, <1>3, <1>4, <1>5 DEF JobType, PcType, Budget, Notify, SetJob, At, Complete
  <2>3. ASSUME NEW e \in Deliveries \ {d} PROVE Budget(e)'
    BY <1>25, <1>3 DEF IInv, JobType, PcType, Budget, Notify, SetJob, At, Complete
  <2> QED
    BY <2>1, <2>2, <2>3 DEF IInv
<1>26. CASE DbFault(d)
  <2>1. Types'
    <3>1. Typed'
      BY <1>26, <1>8, <1>10 DEF DbFault, At
    <3> QED
      BY <1>26, <3>1, <1>3 DEF Types, DbFault
  <2>2. Budget(d)'
    BY <1>26, <1>3, <1>4, <1>5 DEF JobType, PcType, Budget, DbFault, SetJob, Reject, Throw
  <2>3. ASSUME NEW e \in Deliveries \ {d} PROVE Budget(e)'
    BY <1>26, <1>3 DEF IInv, JobType, PcType, Budget, DbFault, SetJob, Reject, Throw
  <2> QED
    BY <2>1, <2>2, <2>3 DEF IInv
<1>27. CASE Crash(d)
  <2>1. Types'
    BY <1>27, <1>3, <1>4, <1>5 DEF Types, JobType, PcType, Budget, Crash, SetJob
  <2>2. Budget(d)'
    BY <1>27, <1>3, <1>4, <1>5 DEF JobType, PcType, Budget, Crash, SetJob
  <2>3. ASSUME NEW e \in Deliveries \ {d} PROVE Budget(e)'
    BY <1>27, <1>3 DEF IInv, JobType, PcType, Budget, Crash, SetJob
  <2> QED
    BY <2>1, <2>2, <2>3 DEF IInv
<1> QED
  BY <1>11, <1>12, <1>13, <1>14, <1>15, <1>16, <1>17, <1>18, <1>19, <1>20, <1>21, <1>22, <1>23, <1>24, <1>25, <1>26, <1>27 DEF Step

\* The receiver's promise: at most RETRY_ATTEMPTS posts of a delivery, and one
\* more for each worker that died, whatever statements reject on the way.
THEOREM PostsWithinBudget == Spec => []PostsBounded
<1>1. IInv /\ [Next]_vars => IInv'
  BY StepIInv
<1>2. IInv => PostsBounded
  BY DEF IInv, Budget, PostsBounded
<1> QED
  BY InitIInv, <1>1, <1>2, PTL DEF Spec

-----------------------------------------------------------------------------
(* One notification for one disablement. *)

\* The workers that have flipped the hook and not yet told its creator.
Notifying == {d \in Deliveries : pc[d].at = "notify"}

\* Every one of them stands for a flip of its own, not notified so far.  The
\* set is finite because it grows by one worker at a time.
NoticeInv == /\ flips \in Nat /\ notices \in Nat
             /\ IsFiniteSet(Notifying)
             /\ notices + Cardinality(Notifying) <= flips

\* The step of d takes d out of the set, into it, or leaves it as it is.
LEMMA NotifyingMoves ==
  ASSUME NEW d \in Deliveries, pc \in [Deliveries -> PcType], pc' \in [Deliveries -> PcType],
         \A e \in Deliveries \ {d} : pc'[e] = pc[e]
  PROVE  /\ pc'[d].at = "notify" => Notifying' = Notifying \cup {d}
         /\ pc'[d].at # "notify" => Notifying' = Notifying \ {d}
  BY DEF Notifying

\* Every step keeps the account of the notices.
LEMMA StepNotice == ASSUME IInv, NoticeInv, [Next]_vars PROVE NoticeInv'
<1> USE DEF Point, Out
<1>1. CASE UNCHANGED <<pc, flips, notices>>
  BY <1>1 DEF NoticeInv, Notifying
<1>2. CASE UNCHANGED vars \/ UpdateLoad \/ UpdateWrite \/ Remove
  BY <1>1, <1>2 DEF vars, UpdateLoad, UpdateWrite, Remove
<1> SUFFICES ASSUME NEW d \in Deliveries,
                    \/ CreateDelivery(d) \/ AddJob(d) \/ AddDuplicate(d) \/ AddFails(d)
                    \/ Step(d) \/ DbFault(d) \/ Crash(d)
             PROVE NoticeInv'
  BY <1>2 DEF Next
<1>3. CASE CreateDelivery(d) \/ AddJob(d) \/ AddDuplicate(d) \/ AddFails(d)
  BY <1>1, <1>3 DEF CreateDelivery, AddJob, AddDuplicate, AddFails
<1>4. pc \in [Deliveries -> PcType] /\ pc' \in [Deliveries -> PcType]
  BY StepIInv DEF IInv, Types
<1>5. /\ IsFiniteSet(Notifying) /\ Cardinality(Notifying) \in Nat
      /\ flips \in Nat /\ notices \in Nat /\ notices + Cardinality(Notifying) <= flips
  BY FS_CardinalityType DEF NoticeInv
<1>6. d \in Notifying <=> pc[d].at = "notify"
  BY DEF Notifying
\* Leaving the set pays for at most one notice.
<1>7. ASSUME Notifying' = Notifying \ {d}, flips' = flips,
             notices' = notices \/ (d \in Notifying /\ notices' = notices + 1)
      PROVE  NoticeInv'
  <2>1. /\ IsFiniteSet(Notifying \ {d})
        /\ Cardinality(Notifying \ {d}) =
             IF d \in Notifying THEN Cardinality(Notifying) - 1 ELSE Cardinality(Notifying)
    BY <1>5, FS_RemoveElement
  <2> QED
    BY <1>5, <1>7, <2>1 DEF NoticeInv
\* Entering it takes a flip.
<1>8. ASSUME Notifying' = Notifying \cup {d}, flips' = flips + 1, notices' = notices
      PROVE  NoticeInv'
  <2>1. /\ IsFiniteSet(Notifying \cup {d})
        /\ Cardinality(Notifying \cup {d}) =
             IF d \in Notifying THEN Cardinality(Notifying) ELSE Cardinality(Notifying) + 1
    BY <1>5, FS_AddElement
  <2> QED
    BY <1>5, <1>8, <2>1 DEF NoticeInv
<1>9. ASSUME \A e \in Deliveries \ {d} : pc'[e] = pc[e], pc'[d].at # "notify",
             UNCHANGED flips, notices' = notices \/ (d \in Notifying /\ notices' = notices + 1)
      PROVE  NoticeInv'
  BY <1>4, <1>7, <1>9, NotifyingMoves
<1>10. ASSUME Complete(d) \/ Throw(d) \/ Reject(d)
       PROVE  pc'[d].at # "notify" /\ \A e \in Deliveries \ {d} : pc'[e] = pc[e]
  BY <1>4, <1>10 DEF PcType, Complete, Throw, Reject
<1>11. ASSUME NEW p \in Point \ {"notify"}, Goto(d, p)
       PROVE  pc'[d].at # "notify" /\ \A e \in Deliveries \ {d} : pc'[e] = pc[e]
  BY <1>4, <1>11 DEF PcType, Goto
<1>12. CASE Start(d) \/ ReadHook(d)
  BY <1>9, <1>11, <1>12 DEF Start, ReadHook
<1>13. CASE Drop(d) \/ RowOk(d) \/ HookOk(d) \/ RowRejected(d) \/ Count(d)
  BY <1>9, <1>10, <1>11, <1>13 DEF Drop, RowOk, HookOk, RowRejected, Count
<1>14. CASE Fetch(d)
  <2>1. pc'[d].at # "notify" /\ \A e \in Deliveries \ {d} : pc'[e] = pc[e]
    BY <1>4, <1>14 DEF PcType, Fetch
  <2> QED
    BY <1>9, <1>14, <2>1 DEF Fetch
<1>15. CASE Retry(d)
  <2>1. CASE Throw(d)
    BY <1>9, <1>10, <1>15, <2>1 DEF Retry
  <2>2. CASE pc' = [pc EXCEPT ![d].at = "count", ![d].inTry = FALSE]
    <3>1. pc'[d].at # "notify" /\ \A e \in Deliveries \ {d} : pc'[e] = pc[e]
      BY <1>4, <2>2 DEF PcType
    <3> QED
      BY <1>9, <1>15, <3>1 DEF Retry
  <2> QED
    BY <1>15, <2>1, <2>2 DEF Retry
<1>16. CASE Flip(d)
  <2>1. CASE hook.exists /\ hook.enabled
    <3>1. pc'[d].at = "notify" /\ \A e \in Deliveries \ {d} : pc'[e] = pc[e]
      BY <1>4, <1>16, <2>1 DEF PcType, Flip, Goto
    <3> QED
      BY <1>4, <1>8, <1>16, <2>1, <3>1, NotifyingMoves DEF Flip
  <2>2. CASE ~(hook.exists /\ hook.enabled)
    BY <1>9, <1>10, <1>16, <2>2 DEF Flip
  <2> QED
    BY <2>1, <2>2
<1>17. CASE Notify(d)
  BY <1>6, <1>9, <1>10, <1>17 DEF Notify, At
<1>18. CASE DbFault(d)
  BY <1>9, <1>10, <1>18 DEF DbFault
<1>19. CASE Crash(d)
  <2>1. pc'[d].at # "notify" /\ \A e \in Deliveries \ {d} : pc'[e] = pc[e]
    BY <1>4, <1>19 DEF PcType, Crash
  <2> QED
    BY <1>9, <1>19, <2>1 DEF Crash
<1> QED
  BY <1>3, <1>12, <1>13, <1>14, <1>15, <1>16, <1>17, <1>18, <1>19 DEF Step

\* However many failures race past the threshold, in however many workers:
\* every notification of OutboundWebhooksService has a disablement of its own.
THEOREM OneNoticePerDisable == Spec => []NoticePerDisable
<1>1. Init => NoticeInv
  <2>1. ASSUME Init PROVE Notifying = {}
    BY <2>1 DEF Init, Notifying, Out
  <2> QED
    BY <2>1, FS_EmptySet DEF Init, NoticeInv
<1>2. IInv /\ NoticeInv /\ [Next]_vars => NoticeInv'
  BY StepNotice
<1>3. IInv /\ [Next]_vars => IInv'
  BY StepIInv
<1>4. NoticeInv => NoticePerDisable
  BY FS_CardinalityType DEF NoticeInv, NoticePerDisable
<1> QED
  BY InitIInv, <1>1, <1>2, <1>3, <1>4, PTL DEF Spec
-----------------------------------------------------------------------------
(* One worker disables the hook only by failures that still count. *)

\* A single worker, and owners who never switch the hook off themselves.
OneWorker == Concurrency = 1 /\ "off" \notin Edits

\* No two jobs are in hand.
SoleJob == \A d, e \in Deliveries : job[d].state = "active" /\ job[e].state = "active" => d = e

\* An update that is to reset the count or to keep the hook off has found it
\* off; so while a worker is about to switch it off no such update is under
\* way, and nobody else resets the count.
FlipInv == /\ hook \in [exists : BOOLEAN, enabled : BOOLEAN, failures : Nat]
           /\ edit \in [enabled : BOOLEAN, reset : BOOLEAN, busy : BOOLEAN]
           /\ SoleJob
           /\ edit.busy /\ (edit.reset \/ ~edit.enabled) => ~hook.enabled
           /\ \A d \in Deliveries :
                pc[d].at = "flip" => hook.failures >= Threshold /\ (hook.exists => hook.enabled)

\* What a step of the processor of d does to the workers.
LEMMA WorkerMoves ==
  ASSUME IInv, NEW d \in Deliveries,
         \/ CreateDelivery(d) \/ AddJob(d) \/ AddDuplicate(d) \/ AddFails(d)
         \/ Step(d) \/ DbFault(d) \/ Crash(d)
  PROVE  /\ \A e \in Deliveries \ {d} : pc'[e] = pc[e] /\ job'[e] = job[e]
         /\ job'[d].state = "active" => job[d].state = "active" \/ Start(d)
         /\ pc'[d].at = "flip" => \/ pc[d].at = "flip" /\ UNCHANGED hook
                                  \/ Count(d) /\ Goto(d, "flip")
<1>1. /\ job \in [Deliveries -> JobType] /\ pc \in [Deliveries -> PcType]
      /\ job[d].state \in JobState /\ pc[d].at \in Point /\ Budget(d)
  BY DEF IInv, Types, JobType, PcType
<1> DEFINE Moves == /\ \A e \in Deliveries \ {d} : pc'[e] = pc[e] /\ job'[e] = job[e]
                    /\ job'[d].state = "active" => job[d].state = "active" \/ Start(d)
                    /\ pc'[d].at = "flip" => \/ pc[d].at = "flip" /\ UNCHANGED hook
                                             \/ Count(d) /\ Goto(d, "flip")
<1>2. Complete(d) => Moves
  BY <1>1 DEF Complete, SetJob, JobType, PcType, Out
<1>3. Throw(d) => Moves
  BY <1>1 DEF Throw, SetJob, JobType, PcType, Out
<1>4. Reject(d) => Moves
  BY <1>1, <1>3 DEF Reject, PcType
<1>5. ASSUME NEW p, Goto(d, p), p # "flip", UNCHANGED job PROVE Moves
  BY <1>1, <1>5 DEF Goto, PcType
<1>6. CASE CreateDelivery(d) \/ AddJob(d) \/ AddDuplicate(d) \/ AddFails(d)
  BY <1>1, <1>6 DEF CreateDelivery, AddJob, AddDuplicate, AddFails, SetJob, JobType
<1>7. CASE Start(d)
  BY <1>1, <1>7 DEF Start, SetJob, Goto, JobType, PcType
<1>8. CASE ReadHook(d)
  BY <1>5, <1>8 DEF ReadHook
<1>9. CASE Drop(d) \/ RowOk(d) \/ HookOk(d) \/ RowRejected(d)
  BY <1>2, <1>4, <1>5, <1>9 DEF Drop, RowOk, HookOk, RowRejected
<1>10. CASE Fetch(d)
  BY <1>1, <1>10 DEF Fetch, PcType
<1>11. CASE Retry(d)
  <2>1. CASE Throw(d)
    BY <1>3, <2>1
  <2>2. CASE pc' = [pc EXCEPT ![d].at = "count", ![d].inTry = FALSE] /\ UNCHANGED job
    BY <1>1, <2>2 DEF PcType
  <2> QED
    BY <1>11, <2>1, <2>2 DEF Retry
<1>12. CASE Count(d)
  <2>1. CASE Goto(d, "flip") /\ UNCHANGED job
    BY <1>1, <1>12, <2>1 DEF Goto, PcType
  <2> QED
    BY <1>2, <1>4, <1>12, <2>1 DEF Count
<1>13. CASE Flip(d)
  BY <1>2, <1>5, <1>13 DEF Flip
<1>14. CASE Notify(d)
  BY <1>2, <1>14 DEF Notify
<1>15. CASE DbFault(d)
  BY <1>4, <1>15 DEF DbFault
<1>16. CASE Crash(d)
  BY <1>1, <1>16 DEF Crash, SetJob, JobType, PcType, Out
<1> QED
  BY <1>6, <1>7, <1>8, <1>9, <1>10, <1>11, <1>12, <1>13, <1>14, <1>15, <1>16 DEF Step

\* A worker takes a job only when it has none.
LEMMA StartsAlone ==
  ASSUME OneWorker, SoleJob, NEW d \in Deliveries, Start(d)
  PROVE  \A e \in Deliveries : job[e].state # "active"
<1> DEFINE Active == {e \in Deliveries : job[e].state = "active"}
<1> SUFFICES ASSUME NEW e \in Deliveries, job[e].state = "active" PROVE FALSE
  OBVIOUS
<1>1. Active = {e}
  BY DEF SoleJob
<1>2. Cardinality(Active) < 1
  BY DEF Start, OneWorker
<1>3. Cardinality({e}) = 1
  BY FS_Singleton
<1>4. Cardinality(Active) = 1
  BY <1>1, <1>3
<1> HIDE DEF Active
<1> QED
  BY <1>2, <1>4

\* What the steps of the processor do to the hook.
LEMMA HookMoves ==
  ASSUME FlipInv, NEW d \in Deliveries,
         \/ CreateDelivery(d) \/ AddJob(d) \/ AddDuplicate(d) \/ AddFails(d)
         \/ Step(d) \/ DbFault(d) \/ Crash(d)
  PROVE  /\ hook' \in [exists : BOOLEAN, enabled : BOOLEAN, failures : Nat] /\ UNCHANGED edit
         /\ hook'.exists = hook.exists /\ (hook'.enabled => hook.enabled)
         /\ UNCHANGED hook \/ HookOk(d) \/ Count(d) \/ Flip(d)
         /\ Count(d) => hook'.enabled = hook.enabled /\ hook'.failures >= hook.failures
<1>1. CASE CreateDelivery(d) \/ AddJob(d) \/ AddDuplicate(d) \/ AddFails(d) \/ DbFault(d) \/ Crash(d)
  BY <1>1 DEF FlipInv, CreateDelivery, AddJob, AddDuplicate, AddFails, DbFault, Crash, Count
<1>2. CASE Start(d) \/ ReadHook(d) \/ Drop(d) \/ Fetch(d) \/ RowOk(d) \/ RowRejected(d) \/ Retry(d)
           \/ Notify(d)
  BY <1>2 DEF FlipInv, Start, ReadHook, Drop, Fetch, RowOk, RowRejected, Retry, Notify, Count
<1>3. CASE HookOk(d)
  BY <1>3 DEF FlipInv, HookOk, Count, At
<1>4. CASE Count(d)
  <2>1. hook \in [exists : BOOLEAN, enabled : BOOLEAN, failures : Nat]
    BY DEF FlipInv
  <2>2. UNCHANGED edit /\ (hook' = hook \/ hook' = [hook EXCEPT !.failures = @ + 1])
    BY <1>4 DEF Count
  <2> QED
    BY <1>4, <2>1, <2>2
<1>5. CASE Flip(d)
  BY <1>5 DEF FlipInv, Flip, Count, At
<1> QED
  BY <1>1, <1>2, <1>3, <1>4, <1>5 DEF Step

\* Every step keeps the flip justified.
LEMMA StepFlip == ASSUME OneWorker, IInv, FlipInv, [Next]_vars PROVE FlipInv'
<1>0. /\ hook \in [exists : BOOLEAN, enabled : BOOLEAN, failures : Nat]
      /\ edit \in [enabled : BOOLEAN, reset : BOOLEAN, busy : BOOLEAN] /\ SoleJob
  BY DEF FlipInv
<1>1. CASE UNCHANGED vars
  BY <1>1 DEF FlipInv, SoleJob, vars
<1>2. CASE UpdateLoad
  <2>1. PICK p \in Edits :
          edit' = [enabled |-> IF p = "absent" THEN hook.enabled ELSE p = "on",
                   reset |-> ~hook.enabled /\ (IF p = "absent" THEN hook.enabled ELSE p = "on"),
                   busy |-> TRUE]
    BY <1>2 DEF UpdateLoad
  <2>2. p \in {"on", "absent"} /\ hook.enabled \in BOOLEAN
    BY <1>0, EditAssumption DEF OneWorker
  <2>3. PICK m \in BOOLEAN : m = IF p = "absent" THEN hook.enabled ELSE p = "on"
    BY <2>2
  <2>4. edit' = [enabled |-> m, reset |-> ~hook.enabled /\ m, busy |-> TRUE]
    BY <2>1, <2>3
  <2>5. ~m => ~hook.enabled
    BY <2>2, <2>3
  <2>6. /\ edit' \in [enabled : BOOLEAN, reset : BOOLEAN, busy : BOOLEAN]
        /\ edit'.reset \/ ~edit'.enabled => ~hook.enabled
    BY <2>4, <2>5
  <2> QED
    BY <1>0, <1>2, <2>6 DEF FlipInv, SoleJob, UpdateLoad
<1>3. CASE UpdateWrite
  <2>1. /\ edit' = NoEdit /\ UNCHANGED <<job, pc>> /\ edit.busy
        /\ hook' = IF hook.exists
                     THEN [hook EXCEPT !.enabled = edit.enabled, !.failures = IF edit.reset THEN 0 ELSE @]
                     ELSE hook
    BY <1>3 DEF UpdateWrite
  <2>2. hook' \in [exists : BOOLEAN, enabled : BOOLEAN, failures : Nat]
    BY <1>0, <2>1
  <2>3. edit' \in [enabled : BOOLEAN, reset : BOOLEAN, busy : BOOLEAN] /\ ~edit'.busy
    BY <2>1 DEF NoEdit
  <2>4. ASSUME NEW d \in Deliveries, pc'[d].at = "flip"
        PROVE  hook'.failures >= Threshold /\ (hook'.exists => hook'.enabled)
    <3>1. hook.failures >= Threshold /\ (hook.exists => hook.enabled)
      BY <2>1, <2>4 DEF FlipInv
    <3>2. hook.exists => edit.enabled /\ ~edit.reset
      BY <2>1, <3>1 DEF FlipInv
    <3> QED
      BY <1>0, <2>1, <3>1, <3>2
  <2> QED
    BY <1>0, <2>1, <2>2, <2>3, <2>4 DEF FlipInv, SoleJob
<1>4. CASE Remove
  BY <1>0, <1>4 DEF FlipInv, SoleJob, Remove
<1>5. ASSUME NEW d \in Deliveries,
             \/ CreateDelivery(d) \/ AddJob(d) \/ AddDuplicate(d) \/ AddFails(d)
             \/ Step(d) \/ DbFault(d) \/ Crash(d)
      PROVE  FlipInv'
  <2>1. SoleJob'
    <3>1. CASE Start(d)
      BY <1>0, <1>5, <3>1, StartsAlone, WorkerMoves DEF SoleJob
    <3>2. CASE ~Start(d)
      BY <1>0, <1>5, <3>2, WorkerMoves DEF SoleJob
    <3> QED
      BY <3>1, <3>2
  <2>2. edit'.busy /\ (edit'.reset \/ ~edit'.enabled) => ~hook'.enabled
    BY <1>5, HookMoves DEF FlipInv
  <2>3. ASSUME NEW e \in Deliveries, pc'[e].at = "flip"
        PROVE  hook'.failures >= Threshold /\ (hook'.exists => hook'.enabled)
    <3>1. CASE e = d /\ Count(d) /\ Goto(d, "flip")
      <4>1. pc[d].at = "count" /\ pc \in [Deliveries -> PcType]
        BY <3>1 DEF Count, At, IInv, Types
      <4>2. pc'[d].at = "flip"
        BY <2>3, <3>1
      <4>3. ~Complete(d) /\ ~Reject(d)
        BY <4>1, <4>2 DEF Complete, Reject, Throw, Out, PcType
      <4>4. /\ hook.failures + 1 >= Threshold /\ hook.enabled
            /\ hook' = [hook EXCEPT !.failures = @ + 1]
        BY <3>1, <4>3 DEF Count
      <4> QED
        BY <1>0, <4>4
    <3>2. CASE e = d /\ pc[d].at = "flip" /\ UNCHANGED hook
      BY <3>2 DEF FlipInv
    <3>3. CASE e # d
      <4>1. pc[e].at = "flip" /\ job[e].state = "active"
        BY <1>5, <2>3, <3>3, WorkerMoves DEF IInv, Budget
      <4>2. ~(HookOk(d) \/ Count(d) \/ Flip(d))
        <5>1. job[d].state # "active"
          BY <1>0, <3>3, <4>1 DEF SoleJob
        <5>2. pc[d].at = "none"
          BY <5>1 DEF IInv, Budget
        <5> QED
          BY <5>2 DEF HookOk, Count, Flip, At
      <4>3. UNCHANGED hook
        BY <1>5, <4>2, HookMoves
      <4> QED
        BY <4>1, <4>3 DEF FlipInv
    <3> QED
      BY <1>5, <2>3, <3>1, <3>2, <3>3, WorkerMoves
  <2> QED
    BY <1>0, <1>5, <2>1, <2>2, <2>3, HookMoves DEF FlipInv
<1> QED
  BY <1>1, <1>2, <1>3, <1>4, <1>5 DEF Next

\* With one worker and no owner switching the hook off, failures that a later
\* success or a reactivation has wiped out never disable the hook.
THEOREM OneWorkerDisablesRightly == OneWorker => (Spec => AutoDisableJustified)
<1> SUFFICES ASSUME OneWorker PROVE Spec => AutoDisableJustified
  OBVIOUS
<1>1. Init => FlipInv
  BY DEF Init, FlipInv, SoleJob, NoEdit, Out
<1>2. IInv /\ FlipInv /\ [Next]_vars => FlipInv'
  BY StepFlip
<1>3. IInv /\ [Next]_vars => IInv'
  BY StepIInv
<1>4. NoticeInv /\ FlipInv /\ [Next]_vars => [flips' > flips => hook.failures >= Threshold]_vars
  <2> SUFFICES ASSUME NoticeInv, FlipInv, Next, flips' > flips PROVE hook.failures >= Threshold
    OBVIOUS
  <2>1. flips \in Nat /\ ~UNCHANGED flips
    BY DEF NoticeInv
  <2>2. PICK d \in Deliveries : Flip(d)
    BY <2>1 DEF Next, Step, CreateDelivery, AddJob, AddDuplicate, AddFails, Start, ReadHook, Drop, Fetch,
                RowOk, HookOk, RowRejected, Retry, Count, Notify, DbFault, Crash, UpdateLoad, UpdateWrite,
                Remove
  <2> QED
    BY <2>2 DEF Flip, At, FlipInv
<1>5. Init => NoticeInv
  <2>1. ASSUME Init PROVE Notifying = {}
    BY <2>1 DEF Init, Notifying, Out
  <2> QED
    BY <2>1, FS_EmptySet DEF Init, NoticeInv
<1>6. IInv /\ NoticeInv /\ [Next]_vars => NoticeInv'
  BY StepNotice
<1> QED
  BY InitIInv, <1>1, <1>2, <1>3, <1>4, <1>5, <1>6, PTL DEF Spec, AutoDisableJustified
=============================================================================
