------------------------ MODULE SchedulerLockProofs ------------------------
(***************************************************************************)
(* For every set of calls and every TTL: the types, mutual exclusion of    *)
(* the calls that are within their TTL, and the refinement of Lease.       *)
(***************************************************************************)
EXTENDS SchedulerLock, TLAPS

LockIInv == LockTypeOK /\ OwnerInv

\* Before the first call nobody holds the lock.
LEMMA LockStart == LockInit => LockIInv
BY TtlAssumption, TokenAssumption DEF LockInit, LockIInv, LockTypeOK, OwnerInv, InTime, CallState

\* Each step of withLock, of a crash and of the clock keeps the invariant.
LEMMA LockKeeps == LockIInv /\ [LockNext]_lockVars => LockIInv'
<1> SUFFICES ASSUME LockIInv, [LockNext]_lockVars PROVE LockIInv'
  OBVIOUS
<1> USE TtlAssumption, TokenAssumption DEF LockIInv, LockTypeOK, OwnerInv, InTime, CallState
<1>1. ASSUME NEW c \in Calls, Acquire(c) PROVE LockIInv'
  BY <1>1 DEF Acquire, SetKey
<1>2. ASSUME NEW c \in Calls, Busy(c) PROVE LockIInv'
  BY <1>2 DEF Busy
<1>3. ASSUME NEW c \in Calls, AcquireError(c) PROVE LockIInv'
  BY <1>3 DEF AcquireError, SetKey
<1>4. ASSUME NEW c \in Calls, BodyEnds(c) PROVE LockIInv'
  BY <1>4 DEF BodyEnds
<1>5. ASSUME NEW c \in Calls, Release(c) PROVE LockIInv'
  <2>1. CASE lock = c
    BY <1>5, <2>1 DEF Release
  <2>2. CASE lock # c
    BY <1>5, <2>2 DEF Release
  <2> QED
    BY <2>1, <2>2
<1>6. ASSUME NEW c \in Calls, ReleaseError(c) PROVE LockIInv'
  BY <1>6 DEF ReleaseError
<1>7. ASSUME NEW c \in Calls, CallDies(c) PROVE LockIInv'
  BY <1>7 DEF CallDies
<1>8. ASSUME Tick PROVE LockIInv'
  <2>1. CASE ttl = 0
    BY <1>8, <2>1 DEF Tick
  <2>2. CASE ttl # 0
    BY <1>8, <2>2 DEF Tick
  <2> QED
    BY <2>1, <2>2
<1>9. CASE UNCHANGED lockVars
  BY <1>9 DEF lockVars
<1> QED
  BY <1>1, <1>2, <1>3, <1>4, <1>5, <1>6, <1>7, <1>8, <1>9 DEF LockNext

\* Every variable of the lock keeps its type, whatever fails or crashes.
THEOREM TypeCorrect == LockSpec => []LockTypeOK
<1>1. LockIInv => LockTypeOK
  BY DEF LockIInv
<1> QED
  BY LockStart, LockKeeps, <1>1, PTL DEF LockSpec

\* Two ticks overlap only when one of them has outlived its TTL: withLock's
\* SET NX PX and its compare-and-delete release give mutual exclusion for any
\* number of replicas and calls and any TTL.
THEOREM MutualExclusion == LockSpec => []MutexWithinTtl
<1>1. LockIInv => MutexWithinTtl
  BY DEF LockIInv, OwnerInv, MutexWithinTtl
<1> QED
  BY LockStart, LockKeeps, <1>1, PTL DEF LockSpec

\* One step of withLock is a step of the lease or leaves it alone.
LEMMA NextLease == LockIInv /\ LockIInv' /\ [LockNext]_lockVars => [AbstractLease!Next]_{c \in Calls : InTime(c)}
<1> SUFFICES ASSUME LockIInv, LockIInv', [LockNext]_lockVars
             PROVE [AbstractLease!Next]_{c \in Calls : InTime(c)}
  OBVIOUS
<1> DEFINE holders == {c \in Calls : InTime(c)}
<1> USE DEF LockIInv, OwnerInv
<1>1. \A c \in holders : holders = {c}
  BY DEF OwnerInv
<1>2. \A c \in holders' : holders' = {c}
  BY DEF OwnerInv
<1>3. ASSUME NEW c \in Calls, Acquire(c) PROVE AbstractLease!Grant(c)
  <2>1. lock = NoToken /\ pc' = [pc EXCEPT ![c] = "body"] /\ age' = [age EXCEPT ![c] = 0]
    BY <1>3 DEF Acquire, SetKey
  <2>2. holders = {}
    BY <2>1, TokenAssumption
  <2>3. c \in holders'
    BY <2>1, TtlAssumption DEF InTime, LockTypeOK
  <2> QED
    BY <1>2, <2>2, <2>3 DEF AbstractLease!Grant
<1>4. CASE holders' \subseteq holders
  <2>1. CASE holders = {}
    BY <1>4, <2>1
  <2>2. CASE holders # {}
    BY <1>1, <1>4, <2>2 DEF AbstractLease!Next, AbstractLease!End
  <2> QED
    BY <2>1, <2>2
<1>5. ASSUME NEW c \in Calls,
             \/ Busy(c) \/ AcquireError(c) \/ BodyEnds(c) \/ Release(c) \/ ReleaseError(c) \/ CallDies(c)
      PROVE holders' \subseteq holders
  BY <1>5 DEF Busy, AcquireError, BodyEnds, Release, ReleaseError, CallDies, InTime, LockTypeOK, CallState
<1>6. ASSUME Tick PROVE holders' \subseteq holders
  BY <1>6, TtlAssumption DEF Tick, InTime, LockTypeOK
<1>7. CASE UNCHANGED lockVars
  BY <1>7 DEF lockVars, InTime
<1> QED
  BY <1>3, <1>4, <1>5, <1>6, <1>7 DEF LockNext, AbstractLease!Next

\* withLock implements the lease the schedulers are written against, for any
\* number of calls and any TTL: crashes, lost answers, failed releases and
\* ticks that outlive their TTL only ever end a lease.
THEOREM LeaseRefinement == LockSpec => ImplementsLease
<1>1. LockInit => AbstractLease!Init
  BY DEF LockInit, AbstractLease!Init, InTime
<1> QED
  BY LockStart, LockKeeps, NextLease, <1>1, PTL DEF LockSpec, ImplementsLease, AbstractLease!Spec

=============================================================================
