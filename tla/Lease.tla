------------------------------- MODULE Lease -------------------------------
(***************************************************************************)
(* What a scheduler relies on when it wraps its tick in withLock, without  *)
(* Redis, tokens or time: at most one client holds the lease, and it       *)
(* passes from one to the next only through a moment when nobody does.     *)
(***************************************************************************)
CONSTANT Clients

VARIABLE holders     \* the clients that may count on being alone

Init == holders = {}

Grant(c) == holders = {} /\ holders' = {c}

\* The holder is done, has died, or has been in its tick for too long.
End == holders # {} /\ holders' = {}

Next == End \/ \E c \in Clients : Grant(c)

Spec == Init /\ [][Next]_holders
=============================================================================
