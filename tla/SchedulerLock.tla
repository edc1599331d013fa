--------------------------- MODULE SchedulerLock ---------------------------
(***************************************************************************)
(* SchedulerLockService.withLock: the Redis lock every in-process          *)
(* scheduler (digest, maintenance, due-soon, recurrence, ai-cron, project  *)
(* purge) wraps its tick in, so that of the replicas that fire the same    *)
(* tick only one runs the body.                                            *)
(*                                                                         *)
(* One lock key is modelled: keys are independent.  A call of withLock is  *)
(* identified with the token it generates, which the code makes unique per *)
(* call, so Calls is both the set of calls (made by any replica, at any    *)
(* moment) and the set of values the Redis key can hold.                   *)
(***************************************************************************)
EXTENDS Naturals

CONSTANTS Calls,     \* the calls of withLock on this key, by any replica
          NoToken,   \* the Redis key does not exist
          Ttl        \* ttlMs, in clock steps

ASSUME TtlAssumption == Ttl \in Nat \ {0}
ASSUME TokenAssumption == NoToken \notin Calls

VARIABLES pc,     \* where each call is
          lock,   \* value of the Redis key, or NoToken
          ttl,    \* remaining life of the key; 0 when there is no key
          age     \* clock steps since the call's SET was executed, up to Ttl

lockVars == <<pc, lock, ttl, age>>

\* "new": withLock not called yet; "body": fn() is running; "release": the
\* finally block is about to run the Lua script; "busy": SET NX answered null,
\* fn skipped; "failed": SET threw; "done": returned; "crashed": process died.
CallState == {"new", "body", "release", "busy", "failed", "done", "crashed"}

\* Types; the key never outlives its TTL.
LockTypeOK == /\ pc \in [Calls -> CallState]
              /\ lock \in Calls \cup {NoToken}
              /\ ttl \in 0..Ttl
              /\ age \in [Calls -> 0..Ttl]

LockInit == /\ pc = [c \in Calls |-> "new"]
            /\ lock = NoToken
            /\ ttl = 0
            /\ age = [c \in Calls |-> 0]

-----------------------------------------------------------------------------

\* MUTANT of SetKey: the time to live is given in the wrong unit.
SetKeyLongTtl(c) == /\ lock = NoToken
                    /\ lock' = c
                    /\ ttl' = 2 * Ttl

\* The effect of SET key token PX ttl NX when the key does not exist.
SetKey(c) == /\ lock = NoToken
             /\ lock' = c
             /\ ttl' = Ttl

\* SET answered OK: the body starts.
Acquire(c) == /\ pc[c] = "new"
              /\ SetKey(c)
              /\ pc' = [pc EXCEPT ![c] = "body"]
              /\ age' = [age EXCEPT ![c] = 0]

\* SET answered null: withLock returns false without running the body.
Busy(c) == /\ pc[c] = "new"
           /\ lock # NoToken
           /\ pc' = [pc EXCEPT ![c] = "busy"]
           /\ UNCHANGED <<lock, ttl, age>>

\* The SET call rejects and withLock rethrows.  The command may have been
\* lost, or executed with its answer lost: then nobody will release the key.
AcquireError(c) == /\ pc[c] = "new"
                   /\ pc' = [pc EXCEPT ![c] = "failed"]
                   /\ \/ SetKey(c)
                      \/ UNCHANGED <<lock, ttl>>
                   /\ UNCHANGED age

\* fn() resolves or rejects; either way the finally block is next.
BodyEnds(c) == /\ pc[c] = "body"
               /\ pc' = [pc EXCEPT ![c] = "release"]
               /\ UNCHANGED <<lock, ttl, age>>

\* MUTANT of Release: a plain DEL instead of the compare-and-delete script.
ReleaseUnchecked(c) == /\ pc[c] = "release"
                       /\ pc' = [pc EXCEPT ![c] = "done"]
                       /\ lock' = NoToken /\ ttl' = 0
                       /\ UNCHANGED age

\* RELEASE_LUA: delete the key if it still holds this call's token.
Release(c) == /\ pc[c] = "release"
              /\ pc' = [pc EXCEPT ![c] = "done"]
              /\ IF lock = c
                   THEN lock' = NoToken /\ ttl' = 0
                   ELSE UNCHANGED <<lock, ttl>>
              /\ UNCHANGED age

\* The script never reached Redis; the warning is logged and swallowed.
ReleaseError(c) == /\ pc[c] = "release"
                   /\ pc' = [pc EXCEPT ![c] = "done"]
                   /\ UNCHANGED <<lock, ttl, age>>

\* The replica dies while it runs the body or before it has released.
CallDies(c) == /\ pc[c] \in {"body", "release"}
               /\ pc' = [pc EXCEPT ![c] = "crashed"]
               /\ UNCHANGED <<lock, ttl, age>>

\* MUTANT of Tick: SET without PX, the key never expires.
TickNoExpiry == /\ age' = [c \in Calls |-> IF pc[c] \in {"body", "release"} /\ age[c] < Ttl
                                            THEN age[c] + 1 ELSE age[c]]
                /\ UNCHANGED <<pc, lock, ttl>>

\* Time passes; Redis drops the key when its time to live is over.
Tick == /\ ttl' = IF ttl = 0 THEN 0 ELSE ttl - 1
        /\ lock' = IF ttl' = 0 THEN NoToken ELSE lock
        /\ age' = [c \in Calls |-> IF pc[c] \in {"body", "release"} /\ age[c] < Ttl
                                     THEN age[c] + 1 ELSE age[c]]
        /\ UNCHANGED pc

LockNext == \/ \E c \in Calls : \/ Acquire(c)
                                \/ Busy(c)
                                \/ AcquireError(c)
                                \/ BodyEnds(c)
                                \/ Release(c)
                                \/ ReleaseError(c)
                                \/ CallDies(c)
            \/ Tick

\* Only time is fair: a call may be slow, crash or never come.
LockSpec == LockInit /\ [][LockNext]_lockVars /\ WF_lockVars(Tick)

-----------------------------------------------------------------------------

\* c runs the tick's body (or is about to release) and is within its TTL.
InTime(c) == pc[c] \in {"body", "release"} /\ age[c] < Ttl

\* Two ticks overlap only if one of them has run over its TTL, whatever
\* crashed, failed to release or released late.  In particular a slow tick
\* that outlived its TTL does not open the door to a third replica by
\* releasing the lock the second one holds.
MutexWithinTtl ==
  \A c, d \in Calls : InTime(c) /\ InTime(d) => c = d

\* withLock provides the lease of module Lease, the calls within their TTL
\* being its holders: a body never starts while another can count on being
\* alone, and the lease never jumps from one call to the next.
AbstractLease == INSTANCE Lease WITH Clients <- Calls, holders <- {c \in Calls : InTime(c)}
ImplementsLease == AbstractLease!Spec

\* A key whose owner crashed, lost the answer to its SET or failed to release
\* it does not stay for ever: the TTL reaps it.
LockReaped == \A c \in Calls : (lock = c) ~> (lock # c)

\* Inductive strengthening of MutexWithinTtl: a call still within its TTL owns
\* the key, and the key's remaining life is what the call has not used up.
OwnerInv == /\ (lock = NoToken) <=> (ttl = 0)
            /\ \A c \in Calls : InTime(c) => lock = c /\ ttl + age[c] = Ttl

=============================================================================
