---------------------------- MODULE SprintsProofs ----------------------------
(***************************************************************************)
(* Proof that a project never has two active sprints, for any number of    *)
(* sprints and tasks and of requests that race: start reads the sprint in  *)
(* one statement and writes it in another, and only the partial unique     *)
(* index stands between two starts in flight.  And, for requests that may  *)
(* race but do not move the same tasks, nor touch a sprint while it is     *)
(* being completed, that the two records of where a task is agree and that *)
(* completed sprints stay sealed.                                          *)
(***************************************************************************)
EXTENDS Sprints, FiniteSetTheorems, WellFoundedInduction, TLAPS

States == {"none", "planned", "active", "completed"}
Active == {s \in SprintIds : state[s] = "active"}

\* Inductive: the states are states, and two active sprints are one.
IInv == /\ state \in [SprintIds -> States]
        /\ created \in Nat
        /\ \A s, u \in SprintIds : state[s] = "active" /\ state[u] = "active" => s = u

\* No sprint is active before the first request.
LEMMA InitIInv == Init => IInv
  BY DEF Init, IInv, States

\* A step that makes nothing active keeps the invariant.
LEMMA NothingActivated ==
  ASSUME IInv,
         state' \in [SprintIds -> States], created' \in Nat,
         \A s \in SprintIds : state'[s] = "active" => state[s] = "active"
  PROVE  IInv'
  BY DEF IInv

\* Every step keeps the active sprints equal.
LEMMA NextIInv == IInv /\ [Next]_vars => IInv'
<1> SUFFICES ASSUME IInv, [Next]_vars PROVE IInv'
  OBVIOUS
<1>1. CASE UNCHANGED vars
  BY <1>1 DEF vars, IInv
<1>2. CASE Next
  <2> PICK r \in Requests :
        \/ Create(r) \/ StartLoad(r) \/ StartWrite(r) \/ CompleteLoad(r) \/ CompleteCommit(r)
        \/ DeleteSprint(r) \/ AddLoad(r) \/ AddCommit(r) \/ RemoveLoad(r) \/ RemoveCommit(r)
        \/ UpdateSprintId(r) \/ ChangeStatus(r) \/ Abort(r)
    BY <1>2 DEF Next
  <2>1. CASE Create(r)
    <3> DEFINE n == created + 1
    <3>1. state' = [state EXCEPT ![n] = "planned"] /\ created' = n
      BY <2>1 DEF Create
    <3>2. created' \in Nat
      BY <3>1 DEF IInv
    <3> HIDE DEF n
    <3>3. state' \in [SprintIds -> States]
      BY <3>1 DEF IInv, States
    <3>4. \A s \in SprintIds : state'[s] = "active" => state[s] = "active"
      BY <3>1 DEF IInv
    <3> QED BY <3>2, <3>3, <3>4, NothingActivated
  <2>2. CASE StartWrite(r)
    <3> DEFINE s == req[r].s
    <3>1. /\ state' = IF Exists(s) /\ IndexAllows(s) THEN [state EXCEPT ![s] = "active"] ELSE state
          /\ created' = created
      BY <2>2 DEF StartWrite
    <3>2. CASE Exists(s) /\ IndexAllows(s)
      <4> HIDE DEF s
      <4>1. state' = [state EXCEPT ![s] = "active"]
        BY <3>1, <3>2
      <4>2. \A u \in SprintIds \ {s} : state'[u] # "active"
        BY <4>1, <3>2 DEF IndexAllows, IInv
      <4> QED BY <4>1, <4>2, <3>1 DEF IInv, States
    <3>3. CASE ~(Exists(s) /\ IndexAllows(s))
      BY <3>1, <3>3 DEF IInv
    <3> QED BY <3>2, <3>3
  <2>3. CASE CompleteCommit(r)
    <3> DEFINE s == req[r].s
    <3>1. /\ state' = state \/ state' = [state EXCEPT ![s] = "completed"]
          /\ created' = created
      BY <2>3, Zenon DEF CompleteCommit
    <3> HIDE DEF s
    <3>2. state' \in [SprintIds -> States] /\ created' \in Nat
      BY <3>1 DEF IInv, States
    <3>3. \A u \in SprintIds : state'[u] = "active" => state[u] = "active"
      BY <3>1 DEF IInv
    <3> QED BY <3>2, <3>3, NothingActivated
  <2>4. CASE DeleteSprint(r)
    <3>1. PICK s \in SprintIds : state' = [state EXCEPT ![s] = "none"] /\ created' = created
      BY <2>4 DEF DeleteSprint
    <3>2. state' \in [SprintIds -> States] /\ created' \in Nat
      BY <3>1 DEF IInv, States
    <3>3. \A u \in SprintIds : state'[u] = "active" => state[u] = "active"
      BY <3>1 DEF IInv
    <3> QED BY <3>2, <3>3, NothingActivated
  <2>5. CASE \/ StartLoad(r) \/ CompleteLoad(r) \/ AddLoad(r) \/ AddCommit(r) \/ RemoveLoad(r)
             \/ RemoveCommit(r) \/ UpdateSprintId(r) \/ ChangeStatus(r) \/ Abort(r)
    <3>1. UNCHANGED <<state, created>>
      BY <2>5 DEF StartLoad, CompleteLoad, AddLoad, AddCommit, RemoveLoad, RemoveCommit,
                  UpdateSprintId, ChangeStatus, Abort
    <3> QED BY <3>1 DEF IInv
  <2> QED BY <2>1, <2>2, <2>3, <2>4, <2>5
<1> QED BY <1>1, <1>2

\* Pairwise equality bounds the cardinality.
LEMMA AtMostOne == IInv => OneActive
<1> SUFFICES ASSUME IInv PROVE Cardinality(Active) <= 1
  BY DEF OneActive, Active
<1>1. CASE Active = {}
  <2>1. Cardinality(Active) = 0
    BY <1>1, FS_EmptySet, Zenon
  <2> QED BY <2>1
<1>2. CASE Active # {}
  <2>1. PICK s : s \in Active
    BY <1>2
  <2>2. Active = {s}
    BY <2>1 DEF Active, IInv
  <2>3. Cardinality(Active) = 1
    BY <2>2, FS_Singleton, Zenon
  <2> QED BY <2>3
<1> QED BY <1>1, <1>2

\* "Another sprint is already active in this project": however many starts,
\* completions and deletions of any number of requests race, a project has at
\* most one active sprint.
THEOREM OneActiveAlways == Spec => []OneActive
<1>1. Init => IInv
  BY InitIInv
<1>2. IInv /\ [Next]_vars => IInv'
  BY NextIInv
<1>3. IInv => OneActive
  BY AtMostOne
<1> QED BY <1>1, <1>2, <1>3, PTL DEF Spec

-----------------------------------------------------------------------------
(* The types, for requests that race. *)

Before == {p \in Nat \X Nat : p[1] < p[2]}

\* A set of numbers that is not empty has a least one.
LEMMA MinIsLeast ==
  ASSUME NEW S \in SUBSET Nat, S # {}
  PROVE  Min(S) \in S
<1>1. IsWellFoundedOn(Before, Nat)
  BY NatLessThanWellFounded DEF OpToRel, Before
<1>2. PICK x \in S : \A y \in S : <<y, x>> \notin Before
  BY <1>1, WFMin
<1>3. ASSUME NEW y \in S PROVE x =< y
  <2>1. y < x => <<y, x>> \in Before
    BY DEF Before
  <2> QED
    BY <1>2, <2>1
<1> QED
  BY <1>3 DEF Min

\* The next sprint is a planned one.
LEMMA NextIsPlanned == NextPlanned # Backlog => NextPlanned \in Planned
<1>1. Planned \in SUBSET Nat
  BY SprintBounds DEF Planned, SprintIds
<1> QED
  BY <1>1, MinIsLeast DEF NextPlanned

ReqType == {Idle}
             \cup [op : {"start"}, s : SprintIds]
             \cup [op : {"complete"}, s : SprintIds, dest : {"backlog", "next"}]
             \cup [op : {"add"}, s : SprintIds, ids : SUBSET Tasks]
             \cup [op : {"remove"}, s : SprintIds, t : Tasks]

\* What a request of each kind carries.
LEMMA ReqFields ==
  ASSUME NEW q \in ReqType
  PROVE  /\ q.op \in {"idle", "start", "complete", "add", "remove"}
         /\ q.op = "idle" <=> q = Idle
         /\ q.op # "idle" => q.s \in SprintIds
         /\ q.op = "complete" => q.dest \in {"backlog", "next"}
         /\ q.op = "add" => q.ids \subseteq Tasks
         /\ q.op = "remove" => q.t \in Tasks
  BY DEF ReqType, Idle

\* What a step writes when it returns or goes on to its write.
LEMMA ReqWritten ==
  ASSUME req \in [Requests -> ReqType], NEW r \in Requests, NEW q \in ReqType, Continue(r, q)
  PROVE  /\ req' \in [Requests -> ReqType] /\ req'[r] = q
  BY DEF Continue

\* The types, one by one.
LEMMA SprintTypes ==
  ASSUME TypeOK
  PROVE  /\ state \in [SprintIds -> States] /\ created \in 0..MaxSprints /\ MaxSprints \in Nat
         /\ sprint \in [Tasks -> 0..MaxSprints] /\ status \in [Tasks -> Statuses]
         /\ \A t \in Tasks : sprint[t] # Backlog => Exists(sprint[t])
         /\ open \in [SprintIds -> [Tasks -> 0..MaxOpen]] /\ MaxOpen \in Nat \ {0}
         /\ patched \subseteq Tasks /\ req \in [Requests -> ReqType]
         /\ Idle \in ReqType /\ 0 \in 0..MaxOpen
  BY SprintBounds DEF TypeOK, States, ReqType

\* Steps that read, and touch only the request.
LEMMA LoadStep ==
  ASSUME TypeOK, NEW r \in Requests, NEW q \in ReqType, Continue(r, q),
         UNCHANGED <<state, created, sprint, status, open, patched>>
  PROVE  TypeOK'
  BY ReqWritten, SprintTypes DEF TypeOK, ReqType, Exists

\* Every step keeps the types.
LEMMA SprintTypeStep == TypeOK /\ [Next]_vars => TypeOK'
<1> SUFFICES ASSUME TypeOK, [Next]_vars PROVE TypeOK'
  OBVIOUS
<1> USE SprintTypes
<1>1. CASE UNCHANGED vars
  BY <1>1 DEF vars, TypeOK, Exists
<1>2. CASE Next
  <2> PICK r \in Requests :
        \/ Create(r) \/ StartLoad(r) \/ StartWrite(r) \/ CompleteLoad(r) \/ CompleteCommit(r)
        \/ DeleteSprint(r) \/ AddLoad(r) \/ AddCommit(r) \/ RemoveLoad(r) \/ RemoveCommit(r)
        \/ UpdateSprintId(r) \/ ChangeStatus(r) \/ Abort(r)
    BY <1>2 DEF Next
  <2>1. CASE Create(r)
    <3> DEFINE n == created + 1
    <3>1. n \in SprintIds /\ n \in 0..MaxSprints
      BY <2>1 DEF Create, SprintIds
    <3>2. state' = [state EXCEPT ![n] = "planned"] /\ created' = n
          /\ UNCHANGED <<sprint, status, open, patched, req>>
      BY <2>1 DEF Create
    <3> HIDE DEF n
    <3>3. state' \in [SprintIds -> States]
      BY <3>1, <3>2 DEF States
    <3>4. \A u \in SprintIds : state[u] # "none" => state'[u] # "none"
      BY <3>1, <3>2
    <3>5. \A t \in Tasks : sprint[t] # Backlog => Exists(sprint[t])'
      BY <3>2, <3>4 DEF Exists
    <3> QED
      BY <3>1, <3>2, <3>3, <3>5 DEF TypeOK, States, ReqType
  <2>2. CASE \/ StartLoad(r) \/ CompleteLoad(r) \/ AddLoad(r) \/ RemoveLoad(r) \/ Abort(r)
    <3>1. \E q \in ReqType : Continue(r, q)
      <4>1. CASE StartLoad(r)
        BY <4>1 DEF StartLoad, ReqType
      <4>2. CASE CompleteLoad(r)
        BY <4>2 DEF CompleteLoad, ReqType
      <4>3. CASE AddLoad(r)
        BY <4>3 DEF AddLoad, ReqType
      <4>4. CASE RemoveLoad(r)
        BY <4>4 DEF RemoveLoad, ReqType, Exists
      <4>5. CASE Abort(r)
        BY <4>5 DEF Abort, Return
      <4> QED
        BY <2>2, <4>1, <4>2, <4>3, <4>4, <4>5
    <3>2. UNCHANGED <<state, created, sprint, status, open, patched>>
      BY <2>2 DEF StartLoad, CompleteLoad, AddLoad, RemoveLoad, Abort
    <3> QED
      BY <3>1, <3>2, LoadStep
  <2>3. CASE StartWrite(r)
    <3>1. UNCHANGED <<created, sprint, status, open, patched>> /\ Continue(r, Idle)
      BY <2>3 DEF StartWrite, Return
    <3>2. state' = state \/ \E s \in SprintIds : Exists(s) /\ state' = [state EXCEPT ![s] = "active"]
      BY <2>3 DEF StartWrite, Exists
    <3>3. state' \in [SprintIds -> States] /\ \A u \in SprintIds : state[u] # "none" => state'[u] # "none"
      BY <3>2 DEF States
    <3>4. \A t \in Tasks : sprint'[t] # Backlog => Exists(sprint[t])'
      BY <3>1, <3>3 DEF Exists
    <3> QED
      BY <3>1, <3>3, <3>4, ReqWritten DEF TypeOK, States, ReqType
  <2>4. CASE CompleteCommit(r)
    <3> DEFINE s == req[r].s
               moving == Leaving(s, DoneFilter)
               next == IF req[r].dest = "backlog" THEN Backlog ELSE NextPlanned
               leaving == IF req[r].dest = "backlog" THEN moving ELSE Leaving(s, NextFilter)
    <3>1. UNCHANGED <<created, status, patched>> /\ Continue(r, Idle) /\ s \in SprintIds
      BY <2>4, ReqFields DEF CompleteCommit, Return
    <3>2. CASE ~Exists(s)
      <4>1. UNCHANGED <<state, sprint, open>>
        BY <2>4, <3>2 DEF CompleteCommit
      <4> QED
        BY <3>1, <4>1, LoadStep
    <3>3. CASE Exists(s)
      <4>1. /\ \A t \in moving : next # Backlog => open[next][t] < MaxOpen
            /\ sprint' = [t \in Tasks |-> IF t \in leaving THEN next ELSE sprint[t]]
            /\ open' = [u \in SprintIds |-> [t \in Tasks |->
                          IF t \notin moving THEN open[u][t]
                          ELSE IF u = s THEN 0
                          ELSE IF u = next THEN open[u][t] + 1 ELSE open[u][t]]]
            /\ state' = [state EXCEPT ![s] = "completed"]
        BY <2>4, <3>3 DEF CompleteCommit
      <4>2. next \in 0..MaxSprints /\ (next # Backlog => Exists(next))
        BY NextIsPlanned DEF Planned, Exists, SprintIds, Backlog
      <4> HIDE DEF s, moving, next, leaving
      <4>3. state' \in [SprintIds -> States]
            /\ \A u \in SprintIds : state[u] # "none" => state'[u] # "none"
        BY <4>1 DEF States
      <4>4. sprint' \in [Tasks -> 0..MaxSprints]
        BY <4>1, <4>2
      <4>5. \A t \in Tasks : sprint'[t] # Backlog => Exists(sprint[t])'
        BY <4>1, <4>2, <4>3 DEF Exists
      <4>6. \A u \in SprintIds, t \in Tasks :
               (IF t \notin moving THEN open[u][t]
                ELSE IF u = s THEN 0
                ELSE IF u = next THEN open[u][t] + 1 ELSE open[u][t]) \in 0..MaxOpen
        <5>1. \A u \in SprintIds, t \in Tasks : open[u][t] \in 0..MaxOpen
          OBVIOUS
        <5>2. \A u \in SprintIds, t \in moving : u = next => open[u][t] < MaxOpen
          BY <4>1 DEF SprintIds, Backlog
        <5> QED
          BY <5>1, <5>2, SprintBounds
      <4>7. open' \in [SprintIds -> [Tasks -> 0..MaxOpen]]
        BY <4>1, <4>6
      <4> QED
        BY <3>1, <4>3, <4>4, <4>5, <4>7, ReqWritten DEF TypeOK, States, ReqType
    <3> QED
      BY <3>2, <3>3
  <2>5. CASE DeleteSprint(r)
    <3>1. PICK s \in SprintIds :
            /\ state' = [state EXCEPT ![s] = "none"]
            /\ sprint' = [t \in Tasks |-> IF sprint[t] = s THEN Backlog ELSE sprint[t]]
            /\ open' = [open EXCEPT ![s] = [t \in Tasks |-> 0]]
      BY <2>5 DEF DeleteSprint
    <3>2. UNCHANGED <<created, status, patched, req>>
      BY <2>5 DEF DeleteSprint
    <3>3. state' \in [SprintIds -> States] /\ sprint' \in [Tasks -> 0..MaxSprints]
          /\ open' \in [SprintIds -> [Tasks -> 0..MaxOpen]]
      BY <3>1 DEF States, Backlog
    <3>4. \A t \in Tasks : sprint'[t] # Backlog => Exists(sprint[t])'
      BY <3>1 DEF Exists
    <3> QED
      BY <3>2, <3>3, <3>4 DEF TypeOK, States, ReqType
  <2>6. CASE AddCommit(r)
    <3> DEFINE s == req[r].s
    <3>1. UNCHANGED <<state, created, status, patched>> /\ Continue(r, Idle) /\ s \in SprintIds
      BY <2>6, ReqFields DEF AddCommit, Return
    <3>2. CASE ~Exists(s)
      <4>1. UNCHANGED <<sprint, open>>
        BY <2>6, <3>2 DEF AddCommit
      <4> QED
        BY <3>1, <4>1, LoadStep
    <3>3. CASE Exists(s)
      <4>1. /\ \A t \in req[r].ids : open[s][t] < MaxOpen
            /\ sprint' = [t \in Tasks |-> IF t \in req[r].ids THEN s ELSE sprint[t]]
            /\ open' = [open EXCEPT ![s] = [t \in Tasks |->
                          IF t \in req[r].ids THEN open[s][t] + 1 ELSE open[s][t]]]
        BY <2>6, <3>3 DEF AddCommit
      <4>2. \A t \in Tasks : (IF t \in req[r].ids THEN open[s][t] + 1 ELSE open[s][t]) \in 0..MaxOpen
        BY <3>1, <4>1, SprintBounds
      <4>3. s \in 0..MaxSprints
        BY <3>1 DEF SprintIds
      <4> HIDE DEF s
      <4>4. sprint' \in [Tasks -> 0..MaxSprints] /\ open' \in [SprintIds -> [Tasks -> 0..MaxOpen]]
        BY <4>1, <4>2, <4>3
      <4>5. \A t \in Tasks : sprint'[t] # Backlog => Exists(sprint[t])'
        BY <3>1, <3>3, <4>1 DEF Exists
      <4> QED
        BY <3>1, <4>4, <4>5, ReqWritten DEF TypeOK, ReqType, States
    <3> QED
      BY <3>2, <3>3
  <2>7. CASE RemoveCommit(r)
    <3>1. /\ UNCHANGED <<state, created, status, patched>> /\ Continue(r, Idle)
          /\ req[r].s \in SprintIds /\ req[r].t \in Tasks
      BY <2>7, ReqFields DEF RemoveCommit, Return
    <3>2. /\ sprint' = [sprint EXCEPT ![req[r].t] = Backlog]
          /\ open' = [open EXCEPT ![req[r].s] = [open[req[r].s] EXCEPT ![req[r].t] = 0]]
      BY <2>7 DEF RemoveCommit
    <3>3. sprint' \in [Tasks -> 0..MaxSprints] /\ open' \in [SprintIds -> [Tasks -> 0..MaxOpen]]
      BY <3>1, <3>2 DEF Backlog
    <3>4. \A t \in Tasks : sprint'[t] # Backlog => Exists(sprint[t])'
      BY <3>1, <3>2 DEF Exists
    <3> QED
      BY <3>1, <3>3, <3>4, ReqWritten DEF TypeOK, ReqType, States
  <2>8. CASE UpdateSprintId(r)
    <3>1. PICK t \in Tasks, s \in SprintIds \cup {Backlog} :
            /\ s = Backlog \/ Exists(s)
            /\ sprint' = [sprint EXCEPT ![t] = s] /\ patched' = patched \cup {t}
      BY <2>8 DEF UpdateSprintId
    <3>2. UNCHANGED <<state, created, status, open, req>>
      BY <2>8 DEF UpdateSprintId
    <3>3. sprint' \in [Tasks -> 0..MaxSprints] /\ patched' \subseteq Tasks
      BY <3>1 DEF SprintIds, Backlog
    <3>4. \A u \in Tasks : sprint'[u] # Backlog => Exists(sprint[u])'
      BY <3>1, <3>2 DEF Exists
    <3> QED
      BY <3>2, <3>3, <3>4 DEF TypeOK, ReqType, States
  <2>9. CASE ChangeStatus(r)
    <3>1. status' \in [Tasks -> Statuses]
      BY <2>9 DEF ChangeStatus
    <3> QED
      BY <2>9, <3>1 DEF ChangeStatus, TypeOK, ReqType, States, Exists
  <2> QED
    BY <2>1, <2>2, <2>3, <2>4, <2>5, <2>6, <2>7, <2>8, <2>9
<1> QED
  BY <1>1, <1>2

\* Every reachable state is well typed, and every task is in a sprint that
\* exists, however many requests race: a delete takes the tasks out first.
THEOREM SprintsTyped == Spec => []TypeOK
<1>1. Init => TypeOK
  BY SprintBounds DEF Init, TypeOK, Backlog, SprintIds
<1> QED
  BY <1>1, SprintTypeStep, PTL DEF Spec

-----------------------------------------------------------------------------
(* The membership history.  The checks of a handler and its writes are      *)
(* separate statements, so the code does not promise it for all requests    *)
(* that race; it does for those that are not about the same things.         *)

\* Clients add tasks of the backlog, and the two filters for done tasks mean
\* the same statuses.
Plain == /\ ~Readd
         /\ Design \/ "Approved" \notin Statuses

\* The tasks that a request is to move by name.
Subjects(q) == IF q.op = "add" THEN q.ids ELSE IF q.op = "remove" THEN {q.t} ELSE {}

\* No two requests under way move the same task, and while a sprint is being
\* completed no other request under way is about it.  Nothing is asked of
\* requests on different sprints, of several additions to one sprint, of
\* starts that race, or of deletions and the task endpoints.
Apart ==
  \A r, q \in Requests : r # q =>
    /\ Subjects(req[r]) \cap Subjects(req[q]) = {}
    /\ req[r].op = "complete" /\ req[q] # Idle => req[r].s # req[q].s

\* Requests that come one by one are apart.
LEMMA OneByOneIsApart == (\A r, q \in Requests : r = q) => Apart
  BY DEF Apart

\* What a request in flight has read is still so, or its write will not
\* happen, or the task has been moved by the task endpoint.
Pending(r) ==
  /\ req[r] # Idle => req[r].s <= created
  /\ req[r].op = "start" => state[req[r].s] \in {"planned", "active", "none"}
  /\ req[r].op = "complete" => state[req[r].s] \in {"active", "completed", "none"}
  /\ req[r].op = "add" => /\ state[req[r].s] \in {"planned", "active", "none"}
                          /\ \A t \in req[r].ids \ patched : sprint[t] = Backlog
  /\ req[r].op = "remove" => req[r].t \in patched \/ sprint[req[r].t] \in {Backlog, req[r].s}

NotYetCreated == \A s \in SprintIds : s > created => state[s] = "none"

HistoryInv == /\ TypeOK /\ MembershipMatches /\ OneOpenRow /\ NotYetCreated
              /\ \A r \in Requests : Pending(r)

Sealed == \A s \in SprintIds : Lifecycle(s) /\ IncompleteMovedOut(s) /\ NobodyEnters(s)

\* What is left of a request does not change when sprints that it is not about
\* are completed and tasks that it does not move are moved.
LEMMA StillPending ==
  ASSUME TypeOK, NEW q \in Requests, Pending(q), req'[q] = req[q],
         created' \in Nat, created <= created', patched \subseteq patched',
         \A s \in SprintIds : s <= created =>
            \/ state'[s] \in {state[s], "none"}
            \/ state[s] = "planned" /\ state'[s] = "active"
            \/ /\ state[s] \in {"active", "completed"} /\ state'[s] = "completed"
               /\ req[q] # Idle => req[q].s # s,
         \A t \in Tasks \ patched' : t \in Subjects(req[q]) => sprint'[t] \in {sprint[t], Backlog}
  PROVE  Pending(q)'
<1>1. CASE req[q] = Idle
  BY <1>1 DEF Pending, Idle
<1>2. CASE req[q] # Idle
  <2> DEFINE s == req[q].s
  <2>1. s \in SprintIds /\ s <= created /\ created \in Nat /\ s \in Nat
    BY <1>2, SprintTypes, ReqFields DEF Pending, SprintIds
  <2>2. /\ s <= created'
        /\ \/ state'[s] \in {state[s], "none"}
           \/ state[s] = "planned" /\ state'[s] = "active"
    BY <1>2, <2>1
  <2> HIDE DEF s
  <2>3. CASE req[q].op = "start"
    BY <2>2, <2>3 DEF Pending, s
  <2>4. CASE req[q].op = "complete"
    BY <2>2, <2>4 DEF Pending, s
  <2>5. CASE req[q].op = "add"
    <3>1. req[q].ids \subseteq Tasks
      BY <1>2, <2>5, SprintTypes, ReqFields
    <3>2. \A t \in req[q].ids \ patched' : sprint'[t] = Backlog
      BY <2>5, <3>1 DEF Pending, Subjects
    <3> QED
      BY <2>2, <2>5, <3>2 DEF Pending, s
  <2>6. CASE req[q].op = "remove"
    <3>1. req[q].t \in Tasks
      BY <1>2, <2>6, SprintTypes, ReqFields
    <3> QED
      BY <2>2, <2>6, <3>1 DEF Pending, Subjects, s
  <2>7. req[q].op \in {"start", "complete", "add", "remove"}
    BY <1>2, SprintTypes, ReqFields
  <2> QED
    BY <2>3, <2>4, <2>5, <2>6, <2>7
<1> QED
  BY <1>1, <1>2

\* A request that is over waits for nothing.
LEMMA OverIsPending ==
  ASSUME NEW q \in Requests, req'[q] = Idle
  PROVE  Pending(q)'
  BY DEF Pending, Idle

\* A step that changes no sprint and no task.
LEMMA NothingMoves ==
  ASSUME HistoryInv, UNCHANGED <<state, created, sprint, status, open, patched>>
  PROVE  MembershipMatches' /\ OneOpenRow' /\ NotYetCreated' /\ Sealed
<1>1. MembershipMatches' /\ OneOpenRow' /\ NotYetCreated'
  BY DEF HistoryInv, MembershipMatches, OneOpenRow, NotYetCreated
<1> QED
  BY <1>1 DEF Sealed, Lifecycle, IncompleteMovedOut, NobodyEnters

\* The two filters pick the same tasks.
LEMMA FiltersAgree ==
  ASSUME Plain, TypeOK, NEW s
  PROVE  Leaving(s, NextFilter) = Leaving(s, DoneFilter)
<1>1. \A t \in Tasks : status[t] \in Statuses
  BY SprintTypes
<1>2. \A v \in Statuses : v \in NextFilter <=> v \in DoneFilter
  BY DEF Plain, NextFilter, DoneFilter
<1> QED
  BY <1>1, <1>2 DEF Leaving

\* The requests that a step does not advance.
LEMMA OthersWait ==
  ASSUME TypeOK, NEW r \in Requests, NEW v, Continue(r, v), NEW q \in Requests, q # r
  PROVE  req'[q] = req[q]
  BY SprintTypes DEF Continue

\* Handlers that read.
LEMMA HistoryLoads ==
  ASSUME Plain, HistoryInv, NEW r \in Requests,
         StartLoad(r) \/ CompleteLoad(r) \/ AddLoad(r) \/ RemoveLoad(r) \/ Abort(r)
  PROVE  MembershipMatches' /\ OneOpenRow' /\ NotYetCreated' /\ (\A q \in Requests : Pending(q)')
           /\ Sealed
<1>0. TypeOK /\ NotYetCreated /\ \A q \in Requests : Pending(q)
  BY DEF HistoryInv
<1> USE SprintTypes
<1>1. UNCHANGED <<state, created, sprint, status, open, patched>>
  BY DEF StartLoad, CompleteLoad, AddLoad, RemoveLoad, Abort
<1>2. \A s \in SprintIds : state[s] # "none" => s <= created
  BY <1>0 DEF NotYetCreated, SprintIds
<1>3. Pending(r)'
  <2>1. CASE StartLoad(r)
    <3>1. PICK s \in SprintIds : state[s] = "planned" /\ Continue(r, [op |-> "start", s |-> s])
      BY <2>1 DEF StartLoad
    <3>2. req'[r] = [op |-> "start", s |-> s]
      BY <1>0, <3>1 DEF Continue
    <3> QED
      BY <1>1, <1>2, <3>1, <3>2 DEF Pending
  <2>2. CASE CompleteLoad(r)
    <3>1. PICK s \in SprintIds, dest \in {"backlog", "next"} :
             state[s] = "active" /\ Continue(r, [op |-> "complete", s |-> s, dest |-> dest])
      BY <2>2 DEF CompleteLoad
    <3>2. req'[r] = [op |-> "complete", s |-> s, dest |-> dest]
      BY <1>0, <3>1 DEF Continue
    <3> QED
      BY <1>1, <1>2, <3>1, <3>2 DEF Pending
  <2>3. CASE AddLoad(r)
    <3>1. PICK s \in SprintIds, ids \in (SUBSET Tasks) \ {{}} :
             /\ state[s] \in {"planned", "active"}
             /\ Readd \/ \A t \in ids : sprint[t] = Backlog
             /\ Continue(r, [op |-> "add", s |-> s, ids |-> ids])
      BY <2>3 DEF AddLoad
    <3>2. req'[r] = [op |-> "add", s |-> s, ids |-> ids]
      BY <1>0, <3>1 DEF Continue
    <3>3. \A t \in ids : sprint[t] = Backlog
      BY <3>1 DEF Plain
    <3> QED
      BY <1>1, <1>2, <3>1, <3>2, <3>3 DEF Pending
  <2>4. CASE RemoveLoad(r)
    <3>1. PICK t \in Tasks : /\ Exists(sprint[t])
                             /\ Continue(r, [op |-> "remove", s |-> sprint[t], t |-> t])
      BY <2>4 DEF RemoveLoad
    <3>2. req'[r] = [op |-> "remove", s |-> sprint[t], t |-> t]
      BY <1>0, <3>1 DEF Continue
    <3> QED
      BY <1>1, <1>2, <3>1, <3>2 DEF Pending, Exists
  <2>5. CASE Abort(r)
    <3>1. req'[r] = Idle
      BY <1>0, <2>5 DEF Abort, Return, Continue
    <3> QED
      BY <3>1, OverIsPending
  <2> QED
    BY <2>1, <2>2, <2>3, <2>4, <2>5
<1>4. ASSUME NEW q \in Requests, q # r PROVE Pending(q)'
  <2>1. PICK v : Continue(r, v)
    BY DEF StartLoad, CompleteLoad, AddLoad, RemoveLoad, Abort, Return
  <2>2. req'[q] = req[q] /\ Pending(q)
    BY <1>0, <1>4, <2>1, OthersWait
  <2> QED
    BY <1>1, <2>2 DEF Pending
<1> QED
  BY <1>1, <1>3, <1>4, NothingMoves

\* Handlers that write the sprint alone: create and start.
LEMMA HistorySprints ==
  ASSUME HistoryInv, NEW r \in Requests, Create(r) \/ StartWrite(r)
  PROVE  MembershipMatches' /\ OneOpenRow' /\ NotYetCreated' /\ (\A q \in Requests : Pending(q)')
           /\ Sealed
<1>0. TypeOK /\ NotYetCreated /\ \A q \in Requests : Pending(q)
  BY DEF HistoryInv
<1> USE SprintTypes
<1>1. /\ UNCHANGED <<sprint, status, open, patched>>
      /\ req'[r] = Idle /\ \A q \in Requests \ {r} : req'[q] = req[q]
  BY <1>0 DEF Create, StartWrite, Free, Return, Continue
<1>2. /\ \A s \in SprintIds :
            \/ state'[s] = state[s]
            \/ state[s] = "none" /\ state'[s] = "planned" /\ s > created
            \/ state[s] \in {"planned", "active"} /\ state'[s] = "active"
      /\ created' \in Nat /\ created <= created' /\ NotYetCreated'
  <2>1. CASE Create(r)
    <3> DEFINE n == created + 1
    <3>1. n \in SprintIds /\ state' = [state EXCEPT ![n] = "planned"] /\ created' = n
      BY <1>0, <2>1 DEF Create, SprintIds
    <3>2. state[n] = "none" /\ n > created /\ created \in Nat /\ n \in Nat
      BY <1>0, <3>1 DEF NotYetCreated
    <3>3. \A s \in SprintIds : s > n => s > created /\ s # n
      BY <1>0 DEF SprintIds
    <3> HIDE DEF n
    <3> QED
      BY <1>0, <3>1, <3>2, <3>3 DEF NotYetCreated
  <2>2. CASE StartWrite(r)
    <3> DEFINE s == req[r].s
    <3>1. /\ req[r] # Idle /\ s \in SprintIds /\ created' = created
          /\ state[s] \in {"planned", "active", "none"}
          /\ state' = state \/ (state' = [state EXCEPT ![s] = "active"] /\ state[s] # "none")
      BY <1>0, <2>2, ReqFields DEF StartWrite, Pending, Exists, Idle
    <3>2. s <= created
      BY <1>0, <3>1 DEF Pending
    <3> HIDE DEF s
    <3>3. \A u \in SprintIds : u > created => u # s
      BY <1>0, <3>1, <3>2 DEF SprintIds
    <3> QED
      BY <1>0, <3>1, <3>3 DEF NotYetCreated
  <2> QED
    BY <2>1, <2>2
<1>3. MembershipMatches' /\ OneOpenRow'
  BY <1>1 DEF HistoryInv, MembershipMatches, OneOpenRow
<1>4. Sealed
  BY <1>1, <1>2 DEF Sealed, Lifecycle, IncompleteMovedOut, NobodyEnters
<1>5. ASSUME NEW q \in Requests PROVE Pending(q)'
  <2>1. CASE q = r
    BY <1>1, <2>1, OverIsPending
  <2>2. CASE q # r
    <3>1. \A s \in SprintIds : s <= created =>
            \/ state'[s] \in {state[s], "none"}
            \/ state[s] = "planned" /\ state'[s] = "active"
      BY <1>0, <1>2 DEF SprintIds
    <3>2. req'[q] = req[q] /\ Pending(q) /\ patched \subseteq patched' /\ sprint' = sprint
      BY <1>0, <1>1, <2>2
    <3> QED
      BY <1>0, <1>2, <3>1, <3>2, StillPending
  <2> QED
    BY <2>1, <2>2
<1> QED
  BY <1>2, <1>3, <1>4, <1>5

\* Handlers that move tasks and keep their memberships: the transactions of
\* addTasks and removeTask, the deletion of a sprint; and the task endpoint.
LEMMA HistoryMoves ==
  ASSUME Apart, HistoryInv, NEW r \in Requests,
         AddCommit(r) \/ RemoveCommit(r) \/ DeleteSprint(r) \/ UpdateSprintId(r) \/ ChangeStatus(r)
  PROVE  MembershipMatches' /\ OneOpenRow' /\ NotYetCreated' /\ (\A q \in Requests : Pending(q)')
           /\ Sealed
<1>0. TypeOK /\ NotYetCreated /\ MembershipMatches /\ OneOpenRow /\ \A q \in Requests : Pending(q)
  BY DEF HistoryInv
<1> USE SprintTypes
<1>1. /\ req'[r] = Idle /\ created' = created /\ created \in Nat
      /\ \A q \in Requests \ {r} : req'[q] = req[q]
  BY <1>0 DEF AddCommit, RemoveCommit, DeleteSprint, UpdateSprintId, ChangeStatus, Free, Return, Continue
<1>2. ASSUME patched \subseteq patched',
             \A s \in SprintIds : state'[s] \in {state[s], "none"},
             \A q \in Requests \ {r} : \A t \in Tasks \ patched' :
                t \in Subjects(req[q]) => sprint'[t] \in {sprint[t], Backlog}
      PROVE  \A q \in Requests : Pending(q)'
  <2>1. ASSUME NEW q \in Requests PROVE Pending(q)'
    <3>1. CASE q = r
      BY <1>1, <3>1, OverIsPending
    <3>2. CASE q # r
      <4>1. req'[q] = req[q] /\ Pending(q) /\ created' \in Nat /\ created <= created'
        BY <1>0, <1>1, <3>2
      <4> QED
        BY <1>0, <1>2, <3>2, <4>1, StillPending
    <3> QED
      BY <3>1, <3>2
  <2> QED
    BY <2>1
<1>3. \A s \in SprintIds, t \in Tasks : open[s][t] \in Nat
  BY <1>0
<1>4. CASE AddCommit(r)
  <2> DEFINE s == req[r].s
  <2>1. /\ req[r].op = "add" /\ s \in SprintIds /\ s # Backlog
        /\ state[s] \in {"planned", "active", "none"}
        /\ \A t \in req[r].ids \ patched : sprint[t] = Backlog
        /\ req[r].ids \subseteq Tasks
    BY <1>0, <1>4, ReqFields DEF AddCommit, Pending, SprintIds, Backlog
  <2> SUFFICES ASSUME Exists(s)
               PROVE  MembershipMatches' /\ OneOpenRow' /\ NotYetCreated'
                        /\ (\A q \in Requests : Pending(q)') /\ Sealed
    <3>1. ASSUME ~Exists(s)
          PROVE  UNCHANGED <<state, created, sprint, status, open, patched>>
      BY <1>4, <3>1 DEF AddCommit
    <3>2. ASSUME ~Exists(s) PROVE \A q \in Requests : Pending(q)'
      BY <1>2, <3>1, <3>2
    <3> QED
      BY <3>1, <3>2, NothingMoves
  <2>2. /\ sprint' = [t \in Tasks |-> IF t \in req[r].ids THEN s ELSE sprint[t]]
        /\ open' = [open EXCEPT ![s] = [t \in Tasks |->
                      IF t \in req[r].ids THEN open[s][t] + 1 ELSE open[s][t]]]
        /\ UNCHANGED <<state, status, patched>>
    BY <1>4, <2>1 DEF AddCommit
  <2> HIDE DEF s
  <2>3. \A u \in SprintIds, t \in Tasks :
          open'[u][t] = IF u = s /\ t \in req[r].ids THEN open[u][t] + 1 ELSE open[u][t]
    BY <1>0, <2>1, <2>2
  <2>4. \A t \in Tasks : sprint'[t] = IF t \in req[r].ids THEN s ELSE sprint[t]
    BY <2>2
  <2>5. \A u \in SprintIds, t \in Tasks \ patched : t \in req[r].ids => open[u][t] = 0
    <3> SUFFICES ASSUME NEW u \in SprintIds, NEW t \in Tasks \ patched, t \in req[r].ids
                 PROVE  open[u][t] = 0
      OBVIOUS
    <3>1. sprint[t] # u /\ open[u][t] \in Nat
      BY <1>3, <2>1 DEF SprintIds, Backlog
    <3> QED
      BY <1>0, <3>1 DEF MembershipMatches
  <2>6. MembershipMatches' /\ OneOpenRow'
    <3> SUFFICES ASSUME NEW u \in SprintIds, NEW t \in Tasks \ patched
                 PROVE  ((open'[u][t] > 0) <=> (sprint'[t] = u)) /\ open'[u][t] <= 1
      BY <2>2 DEF MembershipMatches, OneOpenRow
    <3>1. CASE t \in req[r].ids
      BY <2>3, <2>4, <2>5, <3>1
    <3>2. CASE t \notin req[r].ids
      BY <1>0, <2>3, <2>4, <3>2 DEF MembershipMatches, OneOpenRow
    <3> QED
      BY <3>1, <3>2
  <2>7. Sealed
    <3>1. state[s] # "completed"
      BY <2>1
    <3> QED
      BY <2>2, <2>4, <3>1 DEF Sealed, Lifecycle, IncompleteMovedOut, NobodyEnters
  <2>8. NotYetCreated'
    BY <1>0, <1>1, <2>2 DEF NotYetCreated
  <2>9. \A q \in Requests : Pending(q)'
    <3>1. Subjects(req[r]) = req[r].ids
      BY <2>1 DEF Subjects
    <3>2. \A q \in Requests \ {r} : \A t \in Tasks : t \in Subjects(req[q]) => t \notin req[r].ids
      BY <3>1 DEF Apart
    <3> QED
      BY <1>2, <2>2, <2>4, <3>2
  <2> QED
    BY <2>6, <2>7, <2>8, <2>9
<1>5. CASE RemoveCommit(r)
  <2> DEFINE s == req[r].s
             x == req[r].t
  <2>1. /\ s \in SprintIds /\ x \in Tasks /\ s # Backlog
        /\ x \in patched \/ sprint[x] \in {Backlog, s}
    BY <1>0, <1>5, ReqFields DEF RemoveCommit, Pending, SprintIds, Backlog
  <2>2. /\ sprint' = [sprint EXCEPT ![x] = Backlog]
        /\ open' = [open EXCEPT ![s] = [open[s] EXCEPT ![x] = 0]]
        /\ UNCHANGED <<state, status, patched>>
    BY <1>5 DEF RemoveCommit
  <2> HIDE DEF s, x
  <2>3. \A u \in SprintIds, t \in Tasks :
          open'[u][t] = IF u = s /\ t = x THEN 0 ELSE open[u][t]
    BY <1>0, <2>1, <2>2
  <2>4. \A t \in Tasks : sprint'[t] = IF t = x THEN Backlog ELSE sprint[t]
    BY <1>0, <2>1, <2>2
  <2>5. MembershipMatches' /\ OneOpenRow'
    <3> SUFFICES ASSUME NEW u \in SprintIds, NEW t \in Tasks \ patched
                 PROVE  ((open'[u][t] > 0) <=> (sprint'[t] = u)) /\ open'[u][t] <= 1
      BY <2>2 DEF MembershipMatches, OneOpenRow
    <3>1. u # Backlog
      BY DEF SprintIds, Backlog
    <3> QED
      BY <1>0, <1>3, <2>1, <2>3, <2>4, <3>1 DEF MembershipMatches, OneOpenRow
  <2>6. Sealed
    <3>1. \A u \in SprintIds : u # Backlog
      BY DEF SprintIds, Backlog
    <3> QED
      BY <2>2, <2>4, <3>1 DEF Sealed, Lifecycle, IncompleteMovedOut, NobodyEnters
  <2>7. NotYetCreated'
    BY <1>0, <1>1, <2>2 DEF NotYetCreated
  <2>8. \A q \in Requests : Pending(q)'
    BY <1>2, <2>2, <2>4
  <2> QED
    BY <2>5, <2>6, <2>7, <2>8
<1>6. CASE DeleteSprint(r)
  <2>1. PICK s \in SprintIds :
          /\ state' = [state EXCEPT ![s] = "none"]
          /\ sprint' = [t \in Tasks |-> IF sprint[t] = s THEN Backlog ELSE sprint[t]]
          /\ open' = [open EXCEPT ![s] = [t \in Tasks |-> 0]]
    BY <1>6 DEF DeleteSprint
  <2>2. UNCHANGED <<status, patched>>
    BY <1>6 DEF DeleteSprint
  <2>3. \A u \in SprintIds, t \in Tasks : open'[u][t] = IF u = s THEN 0 ELSE open[u][t]
    BY <1>0, <2>1
  <2>4. \A u \in SprintIds : u # Backlog
    BY DEF SprintIds, Backlog
  <2>5. MembershipMatches' /\ OneOpenRow'
    <3> SUFFICES ASSUME NEW u \in SprintIds, NEW t \in Tasks \ patched
                 PROVE  ((open'[u][t] > 0) <=> (sprint'[t] = u)) /\ open'[u][t] <= 1
      BY <2>2 DEF MembershipMatches, OneOpenRow
    <3> QED
      BY <1>0, <2>1, <2>3, <2>4 DEF MembershipMatches, OneOpenRow
  <2>6. \A u \in SprintIds : state'[u] = state[u] \/ state'[u] = "none"
    BY <1>0, <2>1
  <2>7. Sealed
    BY <2>1, <2>4, <2>6 DEF Sealed, Lifecycle, IncompleteMovedOut, NobodyEnters
  <2>8. NotYetCreated'
    BY <1>0, <1>1, <2>6 DEF NotYetCreated
  <2>9. \A q \in Requests : Pending(q)'
    BY <1>2, <2>1, <2>2, <2>6
  <2> QED
    BY <2>5, <2>7, <2>8, <2>9
<1>7. CASE UpdateSprintId(r)
  <2>1. PICK t \in Tasks, s \in SprintIds \cup {Backlog} :
          sprint' = [sprint EXCEPT ![t] = s] /\ patched' = patched \cup {t}
    BY <1>7 DEF UpdateSprintId
  <2>2. UNCHANGED <<state, status, open>>
    BY <1>7 DEF UpdateSprintId
  <2>3. \A u \in Tasks \ patched' : u \in Tasks \ patched /\ sprint'[u] = sprint[u]
    BY <1>0, <2>1
  <2>4. MembershipMatches' /\ OneOpenRow'
    BY <1>0, <2>2, <2>3 DEF MembershipMatches, OneOpenRow
  <2>5. Sealed
    BY <2>2, <2>3 DEF Sealed, Lifecycle, IncompleteMovedOut, NobodyEnters
  <2>6. NotYetCreated'
    BY <1>0, <1>1, <2>2 DEF NotYetCreated
  <2>7. \A q \in Requests : Pending(q)'
    <3>1. patched \subseteq patched'
      BY <2>1
    <3> QED
      BY <1>2, <2>2, <2>3, <3>1
  <2> QED
    BY <2>4, <2>5, <2>6, <2>7
<1>8. CASE ChangeStatus(r)
  <2>1. UNCHANGED <<state, created, sprint, open, patched>>
    BY <1>8 DEF ChangeStatus
  <2>2. MembershipMatches' /\ OneOpenRow' /\ NotYetCreated'
    BY <1>0, <2>1 DEF MembershipMatches, OneOpenRow, NotYetCreated
  <2>3. Sealed
    BY <2>1 DEF Sealed, Lifecycle, IncompleteMovedOut, NobodyEnters
  <2>4. \A q \in Requests : Pending(q)'
    BY <1>2, <2>1
  <2> QED
    BY <2>2, <2>3, <2>4
<1> QED
  BY <1>4, <1>5, <1>6, <1>7, <1>8

\* The transaction of complete: the tasks that leave take their memberships to
\* the next planned sprint, or close them.
LEMMA HistoryCompletes ==
  ASSUME Plain, Apart, HistoryInv, NEW r \in Requests, CompleteCommit(r)
  PROVE  MembershipMatches' /\ OneOpenRow' /\ NotYetCreated' /\ (\A q \in Requests : Pending(q)')
           /\ Sealed
<1>0. TypeOK /\ NotYetCreated /\ MembershipMatches /\ OneOpenRow /\ \A q \in Requests : Pending(q)
  BY DEF HistoryInv
<1> USE SprintTypes
<1> DEFINE s == req[r].s
           moving == Leaving(s, DoneFilter)
           next == IF req[r].dest = "backlog" THEN Backlog ELSE NextPlanned
           leaving == IF req[r].dest = "backlog" THEN moving ELSE Leaving(s, NextFilter)
<1>1. /\ req'[r] = Idle /\ \A q \in Requests \ {r} : req'[q] = req[q]
      /\ UNCHANGED <<created, status, patched>>
  BY <1>0 DEF CompleteCommit, Return, Continue
<1>2. /\ s \in SprintIds /\ state[s] \in {"active", "completed", "none"}
      /\ req[r].op = "complete" /\ s <= created /\ created \in Nat
  BY <1>0, ReqFields DEF CompleteCommit, Pending, Idle
<1>3. \A u \in SprintIds :
          \/ state'[u] = state[u]
          \/ u = s /\ state[s] \in {"active", "completed"} /\ state'[s] = "completed"
  <2>1. state' = state \/ (Exists(s) /\ state' = [state EXCEPT ![s] = "completed"])
    BY DEF CompleteCommit
  <2>2. Exists(s) => state[s] \in {"active", "completed"}
    BY <1>2 DEF Exists
  <2> HIDE DEF s
  <2> QED
    BY <1>0, <1>2, <2>1, <2>2
<1>4. \A t \in Tasks : sprint[t] = s \/ sprint'[t] = sprint[t]
  <2>1. sprint' = sprint \/ sprint' = [t \in Tasks |-> IF t \in leaving THEN next ELSE sprint[t]]
    BY DEF CompleteCommit
  <2>2. \A t \in leaving : sprint[t] = s
    BY DEF Leaving
  <2> HIDE DEF s, moving, next, leaving
  <2> QED
    BY <2>1, <2>2
<1>5. \A q \in Requests : Pending(q)'
  <2>1. ASSUME NEW q \in Requests, q # r PROVE Pending(q)'
    <3>1. /\ req'[q] = req[q] /\ Pending(q) /\ created' \in Nat /\ created <= created'
          /\ patched \subseteq patched'
          /\ req[q] # Idle => req[q].s # s
      BY <1>0, <1>1, <1>2, <2>1 DEF Apart
    <3> HIDE DEF s
    <3>2. \A t \in Tasks \ patched' : t \in Subjects(req[q]) => sprint'[t] \in {sprint[t], Backlog}
      <4> SUFFICES ASSUME NEW t \in Tasks \ patched, t \in Subjects(req[q]) PROVE sprint[t] # s
        BY <1>1, <1>4
      <4>1. /\ req[q] # Idle
            /\ sprint[t] \in {Backlog, req[q].s}
        BY <3>1 DEF Pending, Subjects, Idle
      <4>2. s # Backlog
        BY <1>2 DEF SprintIds, Backlog
      <4> QED
        BY <3>1, <4>1, <4>2
    <3>3. \A u \in SprintIds : u <= created =>
            \/ state'[u] \in {state[u], "none"}
            \/ state[u] = "planned" /\ state'[u] = "active"
            \/ /\ state[u] \in {"active", "completed"} /\ state'[u] = "completed"
               /\ req[q] # Idle => req[q].s # u
      BY <1>3, <3>1
    <3> QED
      BY <1>0, <3>1, <3>2, <3>3, StillPending
  <2> QED
    BY <1>1, <2>1, OverIsPending
<1> SUFFICES ASSUME Exists(s)
             PROVE  MembershipMatches' /\ OneOpenRow' /\ NotYetCreated' /\ Sealed
  <2>1. ASSUME ~Exists(s)
        PROVE  UNCHANGED <<state, created, sprint, status, open, patched>>
    BY <2>1, <1>1 DEF CompleteCommit
  <2> QED
    BY <2>1, <1>5, NothingMoves
<1>6. state[s] \in {"active", "completed"}
  BY <1>2 DEF Exists
<1>7. /\ sprint' = [t \in Tasks |-> IF t \in leaving THEN next ELSE sprint[t]]
      /\ open' = [u \in SprintIds |-> [t \in Tasks |->
                    IF t \notin moving THEN open[u][t]
                    ELSE IF u = s THEN 0
                    ELSE IF u = next THEN open[u][t] + 1 ELSE open[u][t]]]
      /\ state' = [state EXCEPT ![s] = "completed"]
  BY DEF CompleteCommit
<1>8. leaving = moving
  BY <1>0, FiltersAgree
<1>9. next = Backlog \/ (next \in SprintIds /\ state[next] = "planned")
  BY NextIsPlanned DEF Planned
<1>10. next # s /\ s # Backlog
  BY <1>2, <1>6, <1>9 DEF SprintIds, Backlog
<1>11. \A t \in Tasks : t \in moving <=> sprint[t] = s /\ status[t] \notin DoneFilter
  BY DEF Leaving
<1> HIDE DEF s, moving, next, leaving
<1>12. \A t \in Tasks : sprint'[t] = IF t \in moving THEN next ELSE sprint[t]
  BY <1>7, <1>8
<1>13. \A u \in SprintIds, t \in Tasks :
          open'[u][t] = IF t \notin moving THEN open[u][t]
                        ELSE IF u = s THEN 0
                        ELSE IF u = next THEN open[u][t] + 1 ELSE open[u][t]
  BY <1>7
<1>14. MembershipMatches' /\ OneOpenRow'
  <2> SUFFICES ASSUME NEW u \in SprintIds, NEW t \in Tasks \ patched
               PROVE  ((open'[u][t] > 0) <=> (sprint'[t] = u)) /\ open'[u][t] <= 1
    BY <1>1 DEF MembershipMatches, OneOpenRow
  <2>1. u # Backlog /\ open[u][t] \in Nat /\ ((open[u][t] > 0) <=> (sprint[t] = u)) /\ open[u][t] <= 1
    <3>1. u # Backlog /\ open[u][t] \in Nat
      BY <1>0 DEF SprintIds, Backlog
    <3> QED
      BY <1>0, <3>1 DEF MembershipMatches, OneOpenRow
  <2>2. CASE t \notin moving
    BY <1>12, <1>13, <2>1, <2>2
  <2>3. CASE t \in moving
    <3>1. sprint[t] = s /\ sprint'[t] = next
      BY <1>11, <1>12, <2>3
    <3>2. CASE u = s
      BY <1>10, <1>13, <2>3, <3>1, <3>2
    <3>3. CASE u # s
      <4>1. open[u][t] = 0
        BY <2>1, <3>1, <3>3
      <4>2. open'[u][t] = IF u = next THEN 1 ELSE 0
        BY <1>13, <2>3, <3>3, <4>1
      <4> QED
        BY <3>1, <4>2
    <3> QED
      BY <3>2, <3>3
  <2> QED
    BY <2>2, <2>3
<1>15. \A u \in SprintIds : state'[u] = IF u = s THEN "completed" ELSE state[u]
  BY <1>0, <1>2, <1>7
<1>16. Sealed
  <2>1. \A u \in SprintIds : Lifecycle(u)
    BY <1>6, <1>15 DEF Lifecycle
  <2>2. \A u \in SprintIds : IncompleteMovedOut(u)
    BY <1>10, <1>11, <1>12, <1>15 DEF IncompleteMovedOut
  <2>3. \A u \in SprintIds : NobodyEnters(u)
    <3>1. \A u \in SprintIds : state[u] = "completed" => u # next
      BY <1>9 DEF SprintIds, Backlog
    <3> QED
      BY <1>1, <1>12, <3>1 DEF NobodyEnters
  <2> QED
    BY <2>1, <2>2, <2>3 DEF Sealed
<1>17. NotYetCreated'
  BY <1>0, <1>1, <1>6, <1>15 DEF NotYetCreated
<1> QED
  BY <1>14, <1>16, <1>17

\* A step that starts with requests that are apart keeps the two records
\* equal, and completed sprints sealed.
LEMMA HistoryStep ==
  ASSUME Plain
  PROVE  HistoryInv /\ Apart /\ [Next]_vars => HistoryInv' /\ [Sealed]_vars
<1> SUFFICES ASSUME HistoryInv, Apart, [Next]_vars PROVE HistoryInv' /\ [Sealed]_vars
  OBVIOUS
<1>1. TypeOK'
  BY SprintTypeStep DEF HistoryInv
<1>2. CASE UNCHANGED vars
  BY <1>1, <1>2, NothingMoves DEF HistoryInv, vars, Pending
<1>3. CASE Next
  <2>1. PICK r \in Requests :
        \/ Create(r) \/ StartLoad(r) \/ StartWrite(r) \/ CompleteLoad(r) \/ CompleteCommit(r)
        \/ DeleteSprint(r) \/ AddLoad(r) \/ AddCommit(r) \/ RemoveLoad(r) \/ RemoveCommit(r)
        \/ UpdateSprintId(r) \/ ChangeStatus(r) \/ Abort(r)
    BY <1>3 DEF Next
  <2> QED
    BY <1>1, <2>1, HistoryLoads, HistorySprints, HistoryMoves, HistoryCompletes DEF HistoryInv
<1> QED
  BY <1>2, <1>3

\* The two records are equal before the first request.
LEMMA HistoryStart == Init => HistoryInv
<1> SUFFICES ASSUME Init PROVE HistoryInv
  OBVIOUS
<1>1. TypeOK
  BY SprintBounds DEF Init, TypeOK, Backlog, SprintIds
<1>2. \A r \in Requests : req[r].op = "idle"
  BY DEF Init, Idle
<1>3. \A s \in SprintIds : s # Backlog
  BY DEF SprintIds, Backlog
<1> QED
  BY <1>1, <1>2, <1>3 DEF Init, HistoryInv, MembershipMatches, OneOpenRow, NotYetCreated, Pending

\* For any number of sprints and tasks, and any requests that are apart: the
\* open membership rows say which sprint each task is in, one row each, for the
\* tasks that were moved only through the sprint endpoints.
THEOREM HistoryIsKept ==
  ASSUME Plain
  PROVE  Spec /\ []Apart => []MembershipHistory
<1>1. HistoryInv => MembershipHistory
  BY DEF HistoryInv, MembershipHistory
<1>2. HistoryInv /\ Apart /\ [Next]_vars => HistoryInv'
  BY HistoryStep
<1> QED
  BY <1>1, <1>2, HistoryStart, PTL DEF Spec

\* Under the same hypotheses a completed sprint is history: each sprint follows
\* its lifecycle, a completion leaves only done tasks behind, and no task joins
\* a completed sprint afterwards, except through the task endpoint.
THEOREM CompletedStaysSealed ==
  ASSUME Plain
  PROVE  Spec /\ []Apart => CompletedSealed
<1>1. HistoryInv /\ Apart /\ [Next]_vars => HistoryInv' /\ [Sealed]_vars
  BY HistoryStep
<1>2. HistoryInv /\ Apart /\ [Next]_vars =>
        [\A s \in SprintIds : Lifecycle(s) /\ IncompleteMovedOut(s) /\ NobodyEnters(s)]_vars
  BY <1>1 DEF Sealed
<1>3. HistoryInv /\ Apart /\ [Next]_vars => HistoryInv'
  BY <1>1
<1> QED
  BY <1>2, <1>3, HistoryStart, PTL DEF Spec, CompletedSealed
=============================================================================
