----------------------------- MODULE CodeEvents -----------------------------
(***************************************************************************)
(* What GitHub and the deployment services tell a task of the engineering  *)
(* preset: a push, a pull request opened and merged, a production          *)
(* deployment that succeeded (apps/api/src/modules/github and              *)
(* deployments).  Deliveries come in any order, again, and two at a time.  *)
(***************************************************************************)
EXTENDS Naturals, FiniteSets

CONSTANTS
    Receivers,    \* deliveries handled at the same time
    MaxRepeats,   \* bound: deliveries that are repeated
    MaxUnnamed    \* bound: events that are delivered without a delivery id

ASSUME CodeEventsAssumption ==
    MaxRepeats \in Nat /\ MaxUnnamed \in Nat

CodeStatuses == {"Todo", "In Progress", "In Review", "Testing", "Done"}

\* The events, in the order in which they happened.
Push == 1
Opened == 2
Merged == 3
Deployed == 4
CodeEvent == 1..4
FromGithub == {Push, Opened, Merged}

VARIABLES
    taskStatus,
    claims,       \* delivery ids in Redis
    commitLinks, prLinks,  \* TaskGithubLink rows of the commit and of the PR
    receiver,     \* handlers in flight
    deliveries, dispatches,  \* event -> times delivered, times past the claim
    repeats, expired,
    unnamed,      \* history: events delivered without a delivery id
    overlapped,   \* history: two deliveries about the PR were handled at once
    orderly       \* history: the last event, 9 once deliveries were disorderly

codeEventVars == <<taskStatus, claims, commitLinks, prLinks, receiver,
                   deliveries, dispatches, repeats, expired, unnamed, overlapped, orderly>>

Disorderly == 9
NoDelivery == [pc |-> "idle", event |-> 0, found |-> FALSE]
Quiet == \A h \in Receivers : receiver[h] = NoDelivery

CodeEventsInit ==
    /\ taskStatus = "Todo" /\ claims = {} /\ commitLinks = 0 /\ prLinks = 0
    /\ receiver = [h \in Receivers |-> NoDelivery]
    /\ deliveries = [e \in CodeEvent |-> 0] /\ dispatches = [e \in CodeEvent |-> 0]
    /\ repeats = 0 /\ expired = FALSE /\ unnamed = {} /\ overlapped = FALSE /\ orderly = 0

GoTo(h, pc) == receiver' = [receiver EXCEPT ![h].pc = pc]
Rest(h) == receiver' = [receiver EXCEPT ![h] = NoDelivery]

-----------------------------------------------------------------------------
\* The deployment hooks claim nothing, and GitHub's only what has a delivery id.
Claiming(e, named) == named /\ e \in FromGithub

\* MUTANT of Claimable: the answer of the SET is not looked at.
ClaimableAlways(e, named) == TRUE

\* SET NX of the delivery id.
Claimable(e, named) == Claiming(e, named) => e \notin claims

\* MUTANT of FirstStep: a deployment is looked for among the links.
FirstStepFind(e) == "find"

\* dispatch, or record.
FirstStep(e) == IF e \in FromGithub THEN "find" ELSE "record"

\* A delivery arrives, with its delivery id or without, and is given to a free
\* handler.  It keeps the order if those before it are handled and it is the
\* next event, or one of theirs.
Deliver(h, e, named) ==
    /\ receiver[h] = NoDelivery /\ h = CHOOSE g \in Receivers : receiver[g] = NoDelivery
    /\ \/ deliveries[e] = 0 /\ UNCHANGED repeats
       \/ deliveries[e] > 0 /\ repeats < MaxRepeats /\ repeats' = repeats + 1
    /\ deliveries' = [deliveries EXCEPT ![e] = @ + 1]
    /\ unnamed' = IF named THEN unnamed ELSE unnamed \cup {e}
    /\ Cardinality(unnamed') <= MaxUnnamed
    /\ IF Claimable(e, named)
         THEN /\ claims' = IF Claiming(e, named) THEN claims \cup {e} ELSE claims
              /\ dispatches' = [dispatches EXCEPT ![e] = @ + 1]
              /\ receiver' = [receiver EXCEPT ![h].event = e, ![h].pc = FirstStep(e)]
              /\ orderly' = IF ~Quiet \/ e > orderly + 1 THEN Disorderly
                            ELSE IF e > orderly THEN e ELSE orderly
              /\ overlapped' = (overlapped \/ (e \in {Opened, Merged} /\
                                  \E g \in Receivers : receiver[g].event \in {Opened, Merged}))
         ELSE UNCHANGED <<claims, dispatches, receiver, orderly, overlapped>>
    /\ UNCHANGED <<taskStatus, commitLinks, prLinks, expired>>

\* DELIVERY_DEDUPE_TTL_SECONDS are over.
ExpireClaims == /\ claims # {} /\ ~expired /\ expired' = TRUE /\ claims' = {}
                /\ UNCHANGED <<taskStatus, commitLinks, prLinks, receiver,
                               deliveries, dispatches, repeats, unnamed, overlapped, orderly>>

\* onPush and onPullRequest look for the link; a known commit is passed over.
FindLink(h) ==
    LET e == receiver[h].event
        known == IF e = Push THEN commitLinks > 0 ELSE prLinks > 0
    IN  /\ receiver[h].pc = "find"
        /\ IF e = Push /\ known THEN Rest(h)
           ELSE receiver' = [receiver EXCEPT ![h].pc = "link", ![h].found = known]
        /\ UNCHANGED <<taskStatus, claims, commitLinks, prLinks,
                       deliveries, dispatches, repeats, expired, unnamed, overlapped, orderly>>

\* MUTANT of WriteLink: the row that was found is created again.
WriteLinkAlways(h) ==
    /\ receiver[h].pc = "link"
    /\ GoTo(h, "read")
    /\ IF receiver[h].event = Push THEN commitLinks' = commitLinks + 1 /\ UNCHANGED prLinks
       ELSE prLinks' = prLinks + 1 /\ UNCHANGED commitLinks
    /\ UNCHANGED <<taskStatus, claims, deliveries, dispatches, repeats,
                   expired, unnamed, overlapped, orderly>>

\* The link is created, or the one found is updated; no index keeps it single.
WriteLink(h) ==
    /\ receiver[h].pc = "link"
    /\ GoTo(h, "read")
    /\ IF receiver[h].event = Push THEN commitLinks' = commitLinks + 1 /\ UNCHANGED prLinks
       ELSE prLinks' = prLinks + (IF receiver[h].found THEN 0 ELSE 1) /\ UNCHANGED commitLinks
    /\ UNCHANGED <<taskStatus, claims, deliveries, dispatches, repeats,
                   expired, unnamed, overlapped, orderly>>

\* record: the Deployment row is written and its tasks are found by the commit
\* of the push.  (A deployment in another state only writes the row.)
FindDeployed(h) ==
    /\ receiver[h].pc = "record"
    /\ IF commitLinks > 0 THEN GoTo(h, "read") ELSE Rest(h)
    /\ UNCHANGED <<taskStatus, claims, commitLinks, prLinks, deliveries, dispatches, repeats,
                   expired, unnamed, overlapped, orderly>>

\* MUTANT of FromStatuses: a merged pull request has been reviewed.
FromStatusesReviewed(e) == CASE e = Push -> {"Todo"}
                             [] e = Opened -> {"Todo", "In Progress"}
                             [] e = Merged -> {"In Progress"}
                             [] e = Deployed -> {"Testing"}

\* TRANSITIONS_BY_PRESET of the engineering preset, and record's own.
FromStatuses(e) == CASE e = Push -> {"Todo"}
                     [] e = Opened -> {"Todo", "In Progress"}
                     [] e = Merged -> {"In Review", "In Progress"}
                     [] e = Deployed -> {"Testing"}
ToStatus(e) == CASE e = Push -> "In Progress"
                 [] e = Opened -> "In Review"
                 [] e = Merged -> "Testing"
                 [] e = Deployed -> "Done"

\* applyTransition and record read the task ...
ReadStatus(h) ==
    /\ receiver[h].pc = "read"
    /\ IF taskStatus \in FromStatuses(receiver[h].event) THEN GoTo(h, "move") ELSE Rest(h)
    /\ UNCHANGED <<taskStatus, claims, commitLinks, prLinks, deliveries,
                   dispatches, repeats, expired, unnamed, overlapped, orderly>>

\* ... and move it, by its id alone.
MoveTask(h) ==
    /\ receiver[h].pc = "move"
    /\ taskStatus' = ToStatus(receiver[h].event)
    /\ Rest(h)
    /\ UNCHANGED <<claims, commitLinks, prLinks, deliveries, dispatches,
                   repeats, expired, unnamed, overlapped, orderly>>

\* A statement rejects: the sender is told, the claim stays.
ReceiverFails(h) ==
    /\ receiver[h] # NoDelivery
    /\ Rest(h) /\ orderly' = Disorderly
    /\ UNCHANGED <<taskStatus, claims, commitLinks, prLinks, deliveries,
                   dispatches, repeats, expired, unnamed, overlapped>>

Handle(h) == \/ FindLink(h) \/ WriteLink(h) \/ FindDeployed(h)
             \/ ReadStatus(h) \/ MoveTask(h)

\* Test clients and proxies leave the delivery id out.
Arrival(h) == \/ \E e \in CodeEvent : Deliver(h, e, TRUE)
              \/ \E e \in FromGithub : Deliver(h, e, FALSE)

CodeEventsNext ==
    \/ ExpireClaims
    \/ \E h \in Receivers : Handle(h) \/ ReceiverFails(h) \/ Arrival(h)

CodeEventsSpec == CodeEventsInit /\ [][CodeEventsNext]_codeEventVars

-----------------------------------------------------------------------------
\* Types; only a delivery from GitHub looks for a link.
CodeEventsTypeOK ==
    /\ taskStatus \in CodeStatuses /\ claims \subseteq FromGithub
    /\ commitLinks \in Nat /\ prLinks \in Nat
    /\ \A h \in Receivers :
         /\ receiver[h].pc \in {"idle", "find", "link", "record", "read", "move"}
         /\ receiver[h].event \in 0..4
         /\ receiver[h].pc \in {"find", "link"} => receiver[h].event \in FromGithub
    /\ deliveries \in [CodeEvent -> 0..(MaxRepeats + 1)]
    /\ \A e \in CodeEvent : dispatches[e] \in 0..deliveries[e]
    /\ repeats \in 0..MaxRepeats /\ overlapped \in BOOLEAN
    /\ expired \in BOOLEAN /\ unnamed \subseteq FromGithub /\ orderly \in 0..4 \cup {Disorderly}

\* A delivery from GitHub that is repeated is dispatched once, whether its
\* handler is still at work, done or failed, until its claim expires, if it
\* always has its delivery id (github-webhook.controller.ts, 66-85).
DispatchedOnce == \A e \in FromGithub : dispatches[e] <= 1 \/ expired \/ e \in unnamed

\* Although no index says so, one row links the task to a commit until the
\* claim of its push expires, if that has an id, and one row links it to a pull request unless
\* two deliveries about that request are handled at once
\* (github-events.service.ts, 79-114 and 145-170).
LinkedOnce == /\ commitLinks <= 1 \/ expired \/ Push \in unnamed
              /\ prLinks <= 1 \/ overlapped

\* Handled in order, and repeated as often as it may be, the last event
\* decides the task's status, and a deployed task is Done
\* (auto-status.service.ts, 33-41, deployments.service.ts, 117-146).
StatusFollowsEvents ==
    orderly # Disorderly /\ Quiet =>
        taskStatus = CASE orderly = 0 -> "Todo"
                       [] OTHER -> ToStatus(orderly)

\* Repeated, failed and reordered deliveries are told apart from new ones.
CodeEventsSound == DispatchedOnce /\ LinkedOnce /\ StatusFollowsEvents
=============================================================================
