--------------------------- MODULE AccountsProofs ---------------------------
(***************************************************************************)
(* Proofs about who is let in: the readings of a project's access          *)
(* (module Access) and the sessions, magic links and invitations (module   *)
(* Accounts), for any number of users, teams, tokens and racing handlers;  *)
(* and about the scheduled exports (module ExportSchedules), for any       *)
(* number of replicas, minutes and runs by hand, from what                 *)
(* SchedulerLockProofs shows of the lock they take.                        *)
(***************************************************************************)
EXTENDS MCAccounts, TLAPS

AnyRole == Roles \cup {NoRole}

-----------------------------------------------------------------------------
(* The order of the roles. *)

\* A rank is a number from 0 to 4.
LEMMA RankType == \A r \in AnyRole : Rank(r) \in 0..4
  BY DEF AnyRole, Roles, NoRole, Rank

\* A set of roles that is not empty has a highest one, and Highest is it.
LEMMA HighestIsHighest ==
  ASSUME NEW S \in SUBSET AnyRole, S # {}
  PROVE  Highest(S) \in S /\ \A s \in S : Rank(s) <= Rank(Highest(S))
<1> DEFINE Top(r) == \A s \in S : Rank(s) <= Rank(r)
<1>1. \E r \in S : Top(r)
  <2>1. CASE "Manager" \in S
    BY <2>1 DEF AnyRole, Roles, NoRole, Rank
  <2>2. CASE "Manager" \notin S /\ "Contributor" \in S
    BY <2>2 DEF AnyRole, Roles, NoRole, Rank
  <2>3. CASE S \cap {"Manager", "Contributor"} = {} /\ "Viewer" \in S
    BY <2>3 DEF AnyRole, Roles, NoRole, Rank
  <2>4. CASE S \cap {"Manager", "Contributor", "Viewer"} = {} /\ "Client" \in S
    BY <2>4 DEF AnyRole, Roles, NoRole, Rank
  <2>5. CASE S \cap Roles = {}
    BY <2>5 DEF AnyRole, Roles, NoRole, Rank
  <2> QED
    BY <2>1, <2>2, <2>3, <2>4, <2>5 DEF Roles
<1> QED
  BY <1>1 DEF Highest

-----------------------------------------------------------------------------
(* The readings agree, whatever the rows say. *)

\* What the answers rely on: kinds and grants are what the schema allows.
RowsOK == /\ \A u \in Members : user[u].kind \in {"internal", "client"}
          /\ \A s \in Subjects : granted[s] \in AnyRole
          /\ project.public \in BOOLEAN

\* The grants PermissionsService counts for u, and those of the members page.
Counted(u) == {granted[s] : s \in {u} \cup IF user[u].kind = "internal" THEN TeamsOf(u) ELSE {}}
Shown(u) == {granted[s] : s \in {u} \cup TeamsOf(u)}

\* A user is let in exactly by being an admin, by a grant that counts, or by
\* being internal where the project is public.
LEMMA LetIn ==
  ASSUME RowsOK, NEW u \in Members
  PROVE  EffectiveRole(u) # NoRole
           <=> \/ IsAdmin(u) \/ HasGrant(u)
               \/ /\ user[u].kind = "internal"
                  /\ project.public \/ \E t \in TeamsOf(u) : HasGrant(t)
<1> DEFINE best == Highest(Counted(u) \cup {NoRole})
<1>1. Counted(u) \cup {NoRole} \in SUBSET AnyRole
  BY DEF RowsOK, Counted, Subjects, TeamsOf, AnyRole
<1>2. /\ best \in Counted(u) \cup {NoRole}
      /\ \A s \in Counted(u) : Rank(s) <= Rank(best)
  BY <1>1, HighestIsHighest
<1>3. best = NoRole <=> Counted(u) \subseteq {NoRole}
  <2>1. ASSUME NEW s \in Counted(u), s # NoRole PROVE Rank(s) > Rank(NoRole)
    BY <1>1, <2>1 DEF AnyRole, Roles, NoRole, Rank
  <2> QED
    BY <1>1, <1>2, <2>1, RankType
<1>4. Counted(u) \subseteq {NoRole}
        <=> ~(HasGrant(u) \/ (user[u].kind = "internal" /\ \E t \in TeamsOf(u) : HasGrant(t)))
  BY DEF Counted, HasGrant
<1>5. EffectiveRole(u) = IF IsAdmin(u) THEN "Manager"
                         ELSE IF best = NoRole /\ project.public /\ user[u].kind = "internal"
                              THEN "Viewer" ELSE best
  BY DEF EffectiveRole, Counted
<1> HIDE DEF best
<1> QED
  BY <1>3, <1>4, <1>5 DEF NoRole

\* Over sound rows each list shows what effectiveRole allows.
LEMMA RowsAgree == RowsOK => ListsAgree
<1> SUFFICES ASSUME RowsOK, ~project.archived, NEW u \in Members
             PROVE  /\ ListForUser(u) = (EffectiveRole(u) # NoRole)
                    /\ Gallery(u) = (EffectiveRole(u) # NoRole)
                    /\ Search(u) \/ MetricsScope(u) \/ ReportsScope(u) \/ ClientPortal(u)
                         => EffectiveRole(u) # NoRole
  BY DEF ListsAgree
<1>1. user[u].kind \in {"internal", "client"}
  BY DEF RowsOK
<1>2. EffectiveRole(u) # NoRole
        <=> \/ IsAdmin(u) \/ HasGrant(u)
            \/ /\ user[u].kind = "internal"
               /\ project.public \/ \E t \in TeamsOf(u) : HasGrant(t)
  BY LetIn
<1>3. ListForUser(u) <=> EffectiveRole(u) # NoRole
  BY <1>1, <1>2 DEF ListForUser, IsAdmin
<1>4. Gallery(u) <=> EffectiveRole(u) # NoRole
  BY <1>1, <1>2 DEF Gallery
<1>5. Search(u) \/ ClientPortal(u) => EffectiveRole(u) # NoRole
  BY <1>1, <1>2 DEF Search, ClientPortal, HasGrant, NoRole
<1> QED
  BY <1>3, <1>4, <1>5, Zenon DEF ListForUser, Gallery, Search, MetricsScope, ReportsScope

\* Over sound rows the members page shows all the access there is.
LEMMA PageShowsAll == RowsOK => PageComplete
<1> SUFFICES ASSUME RowsOK, ~project.archived, NEW u \in Members
             PROVE  Rank(EffectiveRole(u)) <= Rank(MembersPage(u))
  BY DEF PageComplete
<1> DEFINE least == IF user[u].kind = "client" THEN "Client" ELSE "Viewer"
           best == Highest(Counted(u) \cup {NoRole})
           top == Highest(Shown(u) \cup {least})
           nothing == Shown(u) \subseteq {NoRole} /\ ~(user[u].kind = "internal" /\ project.public)
<1>1. EffectiveRole(u) = IF IsAdmin(u) THEN "Manager"
                         ELSE IF best = NoRole /\ project.public /\ user[u].kind = "internal"
                              THEN "Viewer" ELSE best
  BY DEF EffectiveRole, Counted
<1>2. MembersPage(u) = IF IsAdmin(u) THEN "Manager" ELSE IF nothing THEN NoRole ELSE top
  BY DEF MembersPage, Shown
<1>3. /\ Counted(u) \subseteq Shown(u) /\ Shown(u) \subseteq AnyRole
      /\ least \in AnyRole /\ NoRole \in AnyRole
  BY DEF RowsOK, Counted, Shown, Subjects, TeamsOf, AnyRole, Roles
<1>4. best \in Counted(u) \cup {NoRole}
  BY <1>3, HighestIsHighest
<1>5. top \in AnyRole /\ \A s \in Shown(u) \cup {least} : Rank(s) <= Rank(top)
  BY <1>3, HighestIsHighest
<1>6. Rank(NoRole) = 0 /\ Rank(top) \in 0..4
  BY <1>5, RankType DEF Rank, NoRole
<1>7. user[u].kind = "internal" => least = "Viewer"
  OBVIOUS
<1> HIDE DEF best, top, least
<1>8. CASE IsAdmin(u)
  BY <1>1, <1>2, <1>8 DEF Rank, NoRole
<1>9. CASE ~IsAdmin(u) /\ nothing
  BY <1>1, <1>2, <1>3, <1>4, <1>6, <1>9
<1>10. CASE ~IsAdmin(u) /\ ~nothing
  BY <1>1, <1>2, <1>3, <1>4, <1>5, <1>6, <1>7, <1>10
<1> QED
  BY <1>8, <1>9, <1>10

-----------------------------------------------------------------------------
(* The rows keep their types, whatever requests race. *)

UserType == [kind : {"internal", "client"}, role : {"Admin", "Member", NoRole}, company : BOOLEAN]

\* What a request under way will write is of the right type; whether it still
\* fits the rows is for its write to find out.
Askable(q) ==
  \/ q = Nothing
  \/ q \in [op : {"role"}, u : Members, role : {"Admin", "Member"}, promote : BOOLEAN]
  \/ q \in [op : {"kind"}, u : Members, kind : {"internal", "client"}]
  \/ q \in [op : {"email"}, u : Members, company : BOOLEAN]
  \/ q \in [op : {"teams"}, u : Members, teams : SUBSET Groups]
  \/ q \in [op : {"invite"}, u : Members, role : GrantRoles]

AccessIInv == /\ AccessTypeOK
              /\ team \subseteq Groups
              /\ asked = [c \in Callers |-> asked[c]]
              /\ \A c \in Callers : Askable(asked[c])

\* A request starts: nothing but its own slot changes.
LEMMA AskStep ==
  ASSUME AccessIInv, NEW c \in Callers, NEW q, Ask(c, q), Askable(q)
  PROVE  AccessIInv'
<1>1. AccessTypeOK'
  BY AccessAssumption DEF AccessIInv, AccessTypeOK, Ask
<1> QED
  BY <1>1 DEF AccessIInv, Ask

\* A request ends.
LEMMA AnswerSlot ==
  ASSUME AccessIInv, NEW c \in Callers, NEW op, Answer(c, op)
  PROVE  /\ asked' = [d \in Callers |-> asked'[d]]
         /\ \A d \in Callers : Askable(asked'[d])
         /\ accessCalls' \in 0..MaxAccessCalls
  BY DEF AccessIInv, AccessTypeOK, Answer, Askable

\* A request of the members page is read and its actor checked.
LEMMA AccessStart ==
  ASSUME AccessIInv, NEW c \in Callers, NEW u \in Members,
         \/ \E role \in {"Admin", "Member"} : ChangeRole(c, u, role)
         \/ \E kind \in {"internal", "client"} : ChangeKind(c, u, kind)
         \/ \E company \in BOOLEAN : UpdateEmail(c, u, company)
         \/ \E teams \in SUBSET Groups : SetTeams(c, u, teams)
         \/ \E role \in GrantRoles : InviteKnownGuest(c, u, role)
  PROVE  AccessIInv'
<1>1. CASE \E role \in {"Admin", "Member"} : ChangeRole(c, u, role)
  <2> PICK role \in {"Admin", "Member"} : ChangeRole(c, u, role)
    BY <1>1
  <2>1. Askable([op |-> "role", u |-> u, role |-> role, promote |-> user[u].kind = "client"])
    BY DEF Askable
  <2> QED
    BY <2>1, AskStep DEF ChangeRole
<1>2. CASE \E kind \in {"internal", "client"} : ChangeKind(c, u, kind)
  <2> PICK kind \in {"internal", "client"} : ChangeKind(c, u, kind)
    BY <1>2
  <2>1. Askable([op |-> "kind", u |-> u, kind |-> kind])
    BY DEF Askable
  <2> QED
    BY <2>1, AskStep DEF ChangeKind
<1>3. CASE \E company \in BOOLEAN : UpdateEmail(c, u, company)
  <2> PICK company \in BOOLEAN : UpdateEmail(c, u, company)
    BY <1>3
  <2>1. Askable([op |-> "email", u |-> u, company |-> company])
    BY DEF Askable
  <2> QED
    BY <2>1, AskStep DEF UpdateEmail
<1>4. CASE \E teams \in SUBSET Groups : SetTeams(c, u, teams)
  <2> PICK teams \in SUBSET Groups : SetTeams(c, u, teams)
    BY <1>4
  <2>1. Askable([op |-> "teams", u |-> u, teams |-> teams])
    BY DEF Askable
  <2> QED
    BY <2>1, AskStep DEF SetTeams
<1>5. CASE \E role \in GrantRoles : InviteKnownGuest(c, u, role)
  <2> PICK role \in GrantRoles : InviteKnownGuest(c, u, role)
    BY <1>5
  <2>1. Askable([op |-> "invite", u |-> u, role |-> role])
    BY DEF Askable
  <2> QED
    BY <2>1, AskStep DEF InviteKnownGuest
<1> QED
  BY <1>1, <1>2, <1>3, <1>4, <1>5

\* The writes of the requests, against whatever the rows have become.
LEMMA AccessWrite ==
  ASSUME AccessIInv, NEW c \in Callers,
         WriteRole(c) \/ WriteKind(c) \/ WriteEmail(c) \/ WriteTeams(c) \/ WriteInvite(c)
  PROVE  AccessIInv'
<1> USE AccessAssumption
<1>0. /\ user \in [Members -> UserType] /\ memberOf \subseteq team \X Members /\ team \subseteq Groups
      /\ granted \in [Subjects -> GrantRoles \cup {NoRole}]
      /\ \A t \in Groups \ team : granted[t] = NoRole
      /\ project \in [public : BOOLEAN, archived : BOOLEAN]
  BY DEF AccessIInv, AccessTypeOK, UserType
<1>1. CASE WriteRole(c)
  <2>1. asked[c].op = "role" /\ Askable(asked[c])
    BY <1>1 DEF WriteRole, Answer, AccessIInv
  <2>2. asked[c].u \in Members /\ asked[c].role \in {"Admin", "Member"}
    BY <2>1 DEF Askable, Nothing
  <2>3. user' \in [Members -> UserType]
    BY <1>0, <1>1, <2>2 DEF WriteRole, UserType
  <2> QED
    BY <1>0, <1>1, <2>3, AnswerSlot DEF WriteRole, AccessIInv, AccessTypeOK, UserType
<1>2. CASE WriteKind(c)
  <2>1. asked[c].op = "kind" /\ Askable(asked[c])
    BY <1>2 DEF WriteKind, Answer, AccessIInv
  <2>2. asked[c].u \in Members /\ asked[c].kind \in {"internal", "client"}
    BY <2>1 DEF Askable, Nothing
  <2>3. user' \in [Members -> UserType]
    BY <1>0, <1>2, <2>2 DEF WriteKind, UserType
  <2>4. memberOf' \subseteq team \X Members
    BY <1>0, <1>2 DEF WriteKind
  <2> QED
    BY <1>0, <1>2, <2>3, <2>4, AnswerSlot DEF WriteKind, AccessIInv, AccessTypeOK, UserType
<1>3. CASE WriteEmail(c)
  <2>1. asked[c].op = "email" /\ Askable(asked[c])
    BY <1>3 DEF WriteEmail, Answer, AccessIInv
  <2>2. asked[c].u \in Members /\ asked[c].company \in BOOLEAN
    BY <2>1 DEF Askable, Nothing
  <2>3. user' \in [Members -> UserType]
    BY <1>0, <1>3, <2>2 DEF WriteEmail, UserType
  <2> QED
    BY <1>0, <1>3, <2>3, AnswerSlot DEF WriteEmail, AccessIInv, AccessTypeOK, UserType
<1>4. CASE WriteTeams(c)
  <2>1. asked[c].op = "teams" /\ Askable(asked[c])
    BY <1>4 DEF WriteTeams, Answer, AccessIInv
  <2>2. asked[c].u \in Members
    BY <2>1 DEF Askable, Nothing
  <2>3. memberOf' \subseteq team \X Members
    BY <1>0, <1>4, <2>2 DEF WriteTeams
  <2> QED
    BY <1>0, <1>4, <2>3, AnswerSlot DEF WriteTeams, AccessIInv, AccessTypeOK, UserType
<1>5. CASE WriteInvite(c)
  <2>1. asked[c].op = "invite" /\ Askable(asked[c])
    BY <1>5 DEF WriteInvite, Answer, AccessIInv
  <2>2. asked[c].u \in Members /\ asked[c].role \in GrantRoles
    BY <2>1 DEF Askable, Nothing
  <2>3. /\ granted' \in [Subjects -> GrantRoles \cup {NoRole}]
        /\ \A t \in Groups : granted'[t] = granted[t]
    BY <1>0, <1>5, <2>2 DEF WriteInvite, Subjects
  <2> QED
    BY <1>0, <1>5, <2>3, AnswerSlot DEF WriteInvite, AccessIInv, AccessTypeOK, UserType
<1> QED
  BY <1>1, <1>2, <1>3, <1>4, <1>5

\* The requests of one statement.
LEMMA AccessStatement ==
  ASSUME AccessIInv,
         \/ \E t \in Groups : \/ \E u \in Members : AddMember(t, u) \/ RemoveMember(t, u)
                              \/ CreateTeam(t) \/ DeleteTeam(t)
         \/ \E s \in Subjects : RevokeProjectAccess(s) \/ \E role \in GrantRoles : GrantAccess(s, role)
         \/ EditProject
  PROVE  AccessIInv'
<1> USE AccessAssumption
<1>0. /\ user \in [Members -> UserType] /\ memberOf \subseteq team \X Members /\ team \subseteq Groups
      /\ granted \in [Subjects -> GrantRoles \cup {NoRole}]
      /\ \A t \in Groups \ team : granted[t] = NoRole
      /\ project \in [public : BOOLEAN, archived : BOOLEAN]
      /\ asked = [d \in Callers |-> asked[d]] /\ \A d \in Callers : Askable(asked[d])
  BY DEF AccessIInv, AccessTypeOK, UserType
<1>1. Statement => accessCalls' \in 0..MaxAccessCalls /\ asked' = asked
  BY DEF Statement, AccessIInv, AccessTypeOK
<1> DEFINE Rows == /\ memberOf \subseteq team \X Members /\ team \subseteq Groups
                   /\ granted \in [Subjects -> GrantRoles \cup {NoRole}]
                   /\ \A t \in Groups \ team : granted[t] = NoRole
<1>2. ASSUME Statement, UNCHANGED <<user, project>>, Rows' PROVE AccessIInv'
  BY <1>0, <1>1, <1>2 DEF AccessIInv, AccessTypeOK, UserType
<1>3. ASSUME NEW t \in Groups, NEW u \in Members, AddMember(t, u) \/ RemoveMember(t, u)
      PROVE  AccessIInv'
  <2>1. memberOf' \subseteq team \X Members
    BY <1>0, <1>3 DEF AddMember, RemoveMember
  <2> QED
    BY <1>0, <1>2, <1>3, <2>1 DEF AddMember, RemoveMember
<1>4. ASSUME NEW t \in Groups, CreateTeam(t) PROVE AccessIInv'
  BY <1>0, <1>2, <1>4 DEF CreateTeam
<1>5. ASSUME NEW t \in Groups, DeleteTeam(t) PROVE AccessIInv'
  <2>1. memberOf' \subseteq team' \X Members
    BY <1>0, <1>5 DEF DeleteTeam
  <2>2. /\ granted' \in [Subjects -> GrantRoles \cup {NoRole}]
        /\ \A g \in Groups \ team' : granted'[g] = NoRole
    BY <1>0, <1>5 DEF DeleteTeam, Subjects
  <2> QED
    BY <1>0, <1>2, <1>5, <2>1, <2>2 DEF DeleteTeam
<1>6. ASSUME NEW s \in Subjects, NEW role \in GrantRoles, GrantAccess(s, role) PROVE AccessIInv'
  <2>1. /\ granted' \in [Subjects -> GrantRoles \cup {NoRole}]
        /\ \A g \in Groups \ team : granted'[g] = NoRole
    BY <1>0, <1>6 DEF GrantAccess, Subjects
  <2> QED
    BY <1>0, <1>2, <1>6, <2>1 DEF GrantAccess
<1>7. ASSUME NEW s \in Subjects, RevokeProjectAccess(s) PROVE AccessIInv'
  <2>1. /\ granted' \in [Subjects -> GrantRoles \cup {NoRole}]
        /\ \A g \in Groups \ team : granted'[g] = NoRole
    BY <1>0, <1>7 DEF RevokeProjectAccess, Subjects
  <2> QED
    BY <1>0, <1>2, <1>7, <2>1 DEF RevokeProjectAccess
<1>8. ASSUME EditProject PROVE AccessIInv'
  <2>1. project' \in [public : BOOLEAN, archived : BOOLEAN]
    BY <1>0, <1>8 DEF EditProject
  <2> QED
    BY <1>0, <1>1, <1>8, <2>1 DEF EditProject, AccessIInv, AccessTypeOK, UserType
<1> QED
  BY <1>3, <1>4, <1>5, <1>6, <1>7, <1>8, Zenon

\* Every step keeps the invariant of the access rows.
LEMMA AccessStep == ASSUME AccessIInv, [AccessNext]_accessVars PROVE AccessIInv'
<1>1. CASE UNCHANGED accessVars
  BY <1>1 DEF accessVars, AccessIInv, AccessTypeOK, Askable
<1>2. CASE AccessNext
  BY <1>2, AccessStart, AccessWrite, AccessStatement DEF AccessNext
<1> QED
  BY <1>1, <1>2

\* The invariant holds before the first request.
LEMMA AccessStarts == AccessInit => AccessIInv
<1> SUFFICES ASSUME AccessInit PROVE AccessIInv
  OBVIOUS
<1> DEFINE First == {[kind |-> "internal", role |-> "Admin", company |-> TRUE],
                     [kind |-> "internal", role |-> "Member", company |-> FALSE],
                     [kind |-> "client", role |-> NoRole, company |-> FALSE]}
<1>1. user \in [Members -> UserType]
  <2>1. user \in [Members -> First]
    BY DEF AccessInit
  <2>2. First \subseteq UserType
    BY DEF UserType
  <2> HIDE DEF First
  <2> QED
    BY <2>1, <2>2
<1>2. project \in [public : BOOLEAN, archived : BOOLEAN]
  BY DEF AccessInit
<1> QED
  BY <1>1, <1>2, AccessAssumption DEF AccessInit, AccessIInv, AccessTypeOK, UserType, Askable

\* The invariant has what the lists rely on.
LEMMA AccessRows == AccessIInv => RowsOK
  BY AccessAssumption DEF AccessIInv, AccessTypeOK, RowsOK, AnyRole

\* The rows of users, teams, grants and the project stay well typed, and a
\* team that is gone has neither members nor grants.
THEOREM AccessTyped == AccessSpec => []AccessTypeOK
<1>1. AccessIInv /\ [AccessNext]_accessVars => AccessIInv'
  BY AccessStep
<1>2. AccessIInv => AccessTypeOK
  BY DEF AccessIInv
<1> QED
  BY AccessStarts, <1>1, <1>2, PTL DEF AccessSpec

\* For any number of users, teams and racing requests, the lists, the gallery,
\* the search and the client portal show a project to nobody whom
\* PermissionsService would refuse, the first two to everybody it would let
\* in, and the members page shows every access.
THEOREM ReadingsAgree == AccessSpec => []AccessSound
<1>1. AccessIInv /\ [AccessNext]_accessVars => AccessIInv'
  BY AccessStep
<1>2. AccessIInv => AccessSound
  BY AccessRows, RowsAgree, PageShowsAll DEF AccessSound
<1> QED
  BY AccessStarts, <1>1, <1>2, PTL DEF AccessSpec

-----------------------------------------------------------------------------
(* Accounts: types. *)

\* The updates the handlers make to a row or to their slot keep its type.
LEMMA LinkEdits ==
  ASSUME NEW x \in Link
  PROVE  /\ [x EXCEPT !.expires = 0] \in Link
         /\ [x EXCEPT !.used = TRUE] \in Link
         /\ [x EXCEPT !.minted = @ + 1] \in Link
<1>1. 0 \in 0..(MaxTime + LinkTTL + InviteTTL)
  BY BoundsAssumption
<1>2. \A m \in 0..(MaxTime + LinkTTL + InviteTTL) : [x EXCEPT !.expires = m] \in Link
  BY DEF Link
<1>3. [x EXCEPT !.used = TRUE] \in Link
  BY DEF Link
<1>4. x.minted + 1 \in Nat
  BY DEF Link
<1>5. \A m \in Nat : [x EXCEPT !.minted = m] \in Link
  BY DEF Link
<1> QED
  BY <1>1, <1>2, <1>3, <1>4, <1>5

\* A token that is revoked or replaced is a token.
LEMMA TokenEdits ==
  ASSUME NEW x \in Token, NEW n \in 0..MaxToken
  PROVE  [x EXCEPT !.revoked = TRUE] \in Token /\ [x EXCEPT !.rotatedTo = n] \in Token
  BY DEF Token

\* A handler that goes on keeps its type.
LEMMA SlotEdits ==
  ASSUME NEW x \in Slot, NEW step \in Steps, NEW n \in 0..MaxToken, NEW k \in 0..(MaxLink + 1)
  PROVE  /\ [x EXCEPT !.pc = step] \in Slot
         /\ [x EXCEPT !.pc = step, !.n = n] \in Slot
         /\ [x EXCEPT !.pc = step, !.swept = k] \in Slot
         /\ [x EXCEPT !.seen = TRUE] \in Slot
  BY DEF Slot

\* The slots a request begins with.
LEMMA IdleTyped == Idle \in Slot
  BY BoundsAssumption DEF Idle, Slot, Steps

\* The record of a handler after its first statement.
LEMMA FirstSlots ==
  ASSUME NEW step \in Steps, NEW e \in Emails \cup {NoEmail}, NEW t \in 0..MaxToken,
         NEW l \in 0..MaxLink, NEW seen \in BOOLEAN
  PROVE  /\ [Idle EXCEPT !.pc = step, !.email = e] \in Slot
         /\ [Idle EXCEPT !.pc = step, !.email = e, !.seen = seen] \in Slot
         /\ [Idle EXCEPT !.pc = step, !.l = l, !.email = e] \in Slot
         /\ [Idle EXCEPT !.pc = step, !.l = l, !.email = e, !.seen = seen] \in Slot
         /\ [Idle EXCEPT !.pc = step, !.t = t, !.email = e] \in Slot
         /\ [Idle EXCEPT !.pc = step, !.t = t, !.email = e, !.seen = seen] \in Slot
  BY IdleTyped DEF Slot

\* The operators the actions are built from keep the types.
LEMMA BeginTyped ==
  ASSUME req \in [Requests -> Slot], NEW r \in Requests, NEW q \in Slot, Begin(r, q)
  PROVE  req' \in [Requests -> Slot]
  BY DEF Begin

\* A handler that ends keeps the types.
LEMMA EndTyped ==
  ASSUME req \in [Requests -> Slot], NEW r \in Requests, End(r)
  PROVE  req' \in [Requests -> Slot]
  BY IdleTyped DEF End

\* A handler that goes to its next step keeps the types.
LEMMA GotoTyped ==
  ASSUME req \in [Requests -> Slot], NEW r \in Requests, NEW step \in Steps, Goto(r, step)
  PROVE  req' \in [Requests -> Slot]
  BY DEF Goto, Slot

\* The upsert of a user keeps the types.
LEMMA UpsertTyped ==
  ASSUME account \in [Emails -> {"none", "active", "archived"}], NEW e
  PROVE  Upserted(e) \in [Emails -> {"none", "active", "archived"}]
  BY DEF Upserted

\* A new link keeps the types.
LEMMA NewLinkTyped ==
  ASSUME AccountsTypeOK, NEW e \in Emails \cup {NoEmail}, NEW intent \in {"login", "project_invite"},
         NEW life \in {LinkTTL, InviteTTL}, NEW swept \in 0..(MaxLink + 1),
         NewLink(e, intent, life, swept)
  PROVE  link' \in [LinkIds -> Link] /\ nextLink' \in 1..(MaxLink + 1)
<1> DEFINE new == [email |-> e, intent |-> intent, used |-> FALSE,
                   expires |-> time + life, swept |-> swept, minted |-> 0]
<1>1. time + life \in 0..(MaxTime + LinkTTL + InviteTTL)
  BY BoundsAssumption DEF AccountsTypeOK
<1>2. new \in Link
  BY <1>1 DEF Link
<1>3. link' = [link EXCEPT ![nextLink] = new] /\ nextLink' = nextLink + 1 /\ nextLink \in LinkIds
  BY DEF NewLink
<1> HIDE DEF new
<1>4. link' \in [LinkIds -> Link]
  BY <1>2, <1>3 DEF AccountsTypeOK
<1>5. nextLink' \in 1..(MaxLink + 1)
  BY <1>3, BoundsAssumption DEF LinkIds
<1> QED
  BY <1>4, <1>5

\* Revoking a token, and an account that comes back, change one field.
LEMMA OneField ==
  /\ \A x \in Token : [x EXCEPT !.revoked = TRUE] \in Token
  /\ \A x \in Slot : /\ [x EXCEPT !.seen = TRUE].pc = x.pc /\ [x EXCEPT !.seen = TRUE].t = x.t
                     /\ [x EXCEPT !.seen = TRUE].l = x.l
                     /\ [x EXCEPT !.seen = TRUE].swept = x.swept
                     /\ [x EXCEPT !.seen = TRUE].email = x.email
<1>1. \A x \in Token : [x EXCEPT !.revoked = TRUE] \in Token
  BY DEF Token
<1>2. \A x \in Slot : /\ [x EXCEPT !.seen = TRUE].pc = x.pc /\ [x EXCEPT !.seen = TRUE].t = x.t
                      /\ [x EXCEPT !.seen = TRUE].l = x.l
                      /\ [x EXCEPT !.seen = TRUE].swept = x.swept
                      /\ [x EXCEPT !.seen = TRUE].email = x.email
  BY DEF Slot
<1> QED
  BY <1>1, <1>2

\* Tokens that are only revoked stay tokens.
LEMMA RevokeTyped ==
  ASSUME tok \in [TokenIds -> Token],
         \A t \in TokenIds : tok'[t] = tok[t] \/ tok'[t] = [tok[t] EXCEPT !.revoked = TRUE],
         tok' = [t \in TokenIds |-> tok'[t]]
  PROVE  tok' \in [TokenIds -> Token]
<1>1. ASSUME NEW t \in TokenIds PROVE tok'[t] \in Token
  BY <1>1 DEF Token
<1> QED
  BY <1>1

\* Every statement of a handler keeps the types.
LEMMA HandlerTyped ==
  ASSUME AccountsTypeOK, NEW r \in Requests, Handler(r), UNCHANGED calls
  PROVE  AccountsTypeOK'
<1> USE BoundsAssumption
<1>0. /\ time \in 1..MaxTime /\ account \in [Emails -> {"none", "active", "archived"}]
      /\ grant \subseteq Emails /\ nextTok \in 1..(MaxToken + 1) /\ tok \in [TokenIds -> Token]
      /\ jti \in [TokenIds -> Nat] /\ out \subseteq TokenIds /\ nextLink \in 1..(MaxLink + 1)
      /\ link \in [LinkIds -> Link] /\ req \in [Requests -> Slot] /\ calls \in 0..MaxCalls
  BY DEF AccountsTypeOK
<1>1. /\ req[r].email \in Emails \cup {NoEmail} /\ req[r].t \in 0..MaxToken
      /\ req[r].n \in 0..MaxToken /\ req[r].l \in 0..MaxLink /\ req[r].seen \in BOOLEAN
      /\ req[r].swept \in 0..(MaxLink + 1)
  BY <1>0 DEF Slot
<1>2. CASE IssueTokens(r)
  <2> DEFINE new == [owner |-> req[r].email,
                     root |-> IF req[r].t = 0 THEN nextTok ELSE tok[req[r].t].root,
                     revoked |-> FALSE, rotatedTo |-> 0, born |-> time, earned |-> req[r].seen]
             slot == IF req[r].t = 0 THEN Idle
                     ELSE [req[r] EXCEPT !.pc = "backfill", !.n = nextTok]
  <2>1. /\ nextTok \in TokenIds /\ tok' = [tok EXCEPT ![nextTok] = new]
        /\ req' = [req EXCEPT ![r] = slot] /\ nextTok' = nextTok + 1
        /\ link' = [l \in LinkIds |-> IF l = req[r].l THEN [link[l] EXCEPT !.minted = @ + 1]
                                                     ELSE link[l]]
    BY <1>2 DEF IssueTokens
  <2>2. new \in Token
    <3>1. req[r].t # 0 => tok[req[r].t].root \in 0..MaxToken
      <4>1. \A t \in TokenIds : tok[t].root \in 0..MaxToken
        BY <1>0 DEF Token
      <4>2. req[r].t # 0 => req[r].t \in TokenIds
        BY <1>1, BoundsAssumption DEF TokenIds
      <4> QED
        BY <4>1, <4>2
    <3>2. nextTok \in 0..MaxToken /\ 0 \in 0..MaxToken /\ time \in 0..MaxTime
      BY <1>0, <2>1, BoundsAssumption DEF TokenIds
    <3>3. (IF req[r].t = 0 THEN nextTok ELSE tok[req[r].t].root) \in 0..MaxToken
      BY <3>1, <3>2
    <3> QED
      BY <1>1, <3>2, <3>3 DEF Token
  <2>3. slot \in Slot
    <3>1. nextTok \in 0..MaxToken
      BY <1>0, <2>1, BoundsAssumption DEF TokenIds
    <3>2. "backfill" \in Steps /\ 0 \in 0..(MaxLink + 1)
      BY BoundsAssumption DEF Steps
    <3> QED
      BY <1>0, <3>1, <3>2, IdleTyped, SlotEdits
  <2>4. \A l \in LinkIds : [link[l] EXCEPT !.minted = @ + 1] \in Link
    BY <1>0, LinkEdits
  <2> HIDE DEF new, slot
  <2>5. /\ tok' \in [TokenIds -> Token] /\ req' \in [Requests -> Slot]
        /\ nextTok' \in 1..(MaxToken + 1)
    BY <1>0, <2>1, <2>2, <2>3 DEF TokenIds
  <2>6. link' \in [LinkIds -> Link]
    BY <1>0, <2>1, <2>4
  <2> QED
    BY <1>0, <1>2, <2>5, <2>6 DEF IssueTokens, AccountsTypeOK
<1>3. CASE InviteClientLink(r) \/ CreateInvite(r)
  <2>1. link' \in [LinkIds -> Link] /\ nextLink' \in 1..(MaxLink + 1)
    BY <1>1, <1>3, NewLinkTyped DEF InviteClientLink, CreateInvite
  <2>2. req' \in [Requests -> Slot]
    BY <1>0, <1>3, EndTyped DEF InviteClientLink, CreateInvite
  <2> QED
    BY <1>0, <1>3, <2>1, <2>2 DEF InviteClientLink, CreateInvite, AccountsTypeOK
<1>4. CASE SweepInvites(r)
  <2>1. \A l \in LinkIds : [link[l] EXCEPT !.expires = 0] \in Link
    BY <1>0, LinkEdits
  <2>2. link' \in [LinkIds -> Link]
    BY <1>0, <1>4, <2>1 DEF SweepInvites
  <2>3. req' \in [Requests -> Slot]
    <3>1. /\ "createInvite" \in Steps /\ 0 \in 0..MaxToken
          /\ nextLink \in 0..(MaxLink + 1)
      BY <1>0, BoundsAssumption DEF Steps
    <3>2. req' = [req EXCEPT ![r] = [req[r] EXCEPT !.pc = "createInvite", !.swept = nextLink]]
      BY <1>0, <1>4 DEF SweepInvites, Slot
    <3>3. [req[r] EXCEPT !.pc = "createInvite", !.swept = nextLink] \in Slot
      BY <1>0, <3>1, SlotEdits
    <3> QED
      BY <1>0, <3>2, <3>3
  <2> QED
    BY <1>0, <1>4, <2>2, <2>3 DEF SweepInvites, AccountsTypeOK
<1>5. CASE ExpireInvite(r)
  <2>1. link' \in [LinkIds -> Link]
    <3>1. \A l \in LinkIds : [link[l] EXCEPT !.expires = 0] \in Link
      BY <1>0, LinkEdits
    <3>2. link' = [link EXCEPT ![req[r].l] = [link[req[r].l] EXCEPT !.expires = 0]]
      BY <1>5 DEF ExpireInvite
    <3> QED
      BY <1>0, <3>1, <3>2
  <2>2. req' \in [Requests -> Slot]
    BY <1>0, <1>5, GotoTyped DEF ExpireInvite, Steps
  <2> QED
    BY <1>0, <1>5, <2>1, <2>2 DEF ExpireInvite, AccountsTypeOK
<1>6. CASE DropGrant(r)
  BY <1>0, <1>6, EndTyped DEF DropGrant, AccountsTypeOK
<1>7. CASE VerifyConsume(r)
  <2>1. link' \in [LinkIds -> Link]
    <3>1. \A l \in LinkIds : [link[l] EXCEPT !.used = TRUE] \in Link
      BY <1>0, LinkEdits
    <3>2. \/ link' = link
          \/ link' = [link EXCEPT ![req[r].l] = [link[req[r].l] EXCEPT !.used = TRUE]]
      BY <1>7 DEF VerifyConsume
    <3> QED
      BY <1>0, <3>1, <3>2
  <2>2. account' \in [Emails -> {"none", "active", "archived"}]
    BY <1>0, <1>7, UpsertTyped DEF VerifyConsume
  <2>3. req' \in [Requests -> Slot]
    BY <1>0, <1>7, EndTyped, GotoTyped DEF VerifyConsume, Steps
  <2> QED
    BY <1>0, <1>7, <2>1, <2>2, <2>3 DEF VerifyConsume, AccountsTypeOK
<1>8. CASE RefreshRotate(r)
  <2>1. tok' \in [TokenIds -> Token]
    <3>1. \A t \in TokenIds : [tok[t] EXCEPT !.revoked = TRUE] \in Token
      BY <1>0, <1>1, TokenEdits
    <3>2. \/ tok' = tok
          \/ tok' = [tok EXCEPT ![req[r].t] = [tok[req[r].t] EXCEPT !.revoked = TRUE]]
      BY <1>8 DEF RefreshRotate
    <3> QED
      BY <1>0, <3>1, <3>2
  <2>2. req' \in [Requests -> Slot]
    BY <1>0, <1>8, GotoTyped DEF RefreshRotate, Steps
  <2> QED
    BY <1>0, <1>8, <2>1, <2>2 DEF RefreshRotate, AccountsTypeOK
<1>9. CASE RefreshRevokeAll(r) \/ ArchiveTokens(r)
  <2>1. tok' \in [TokenIds -> Token]
    BY <1>0, <1>9, RevokeTyped DEF RefreshRevokeAll, ArchiveTokens, RevokeWhere
  <2>2. req' \in [Requests -> Slot]
    BY <1>0, <1>9, EndTyped DEF RefreshRevokeAll, ArchiveTokens
  <2> QED
    BY <1>0, <1>9, <2>1, <2>2 DEF RefreshRevokeAll, ArchiveTokens, AccountsTypeOK
<1>10. CASE RefreshBackfill(r) \/ LogoutToken(r)
  <2>1. tok' \in [TokenIds -> Token]
    <3>1. \A t \in TokenIds : /\ [tok[t] EXCEPT !.revoked = TRUE] \in Token
                                /\ [tok[t] EXCEPT !.rotatedTo = req[r].n] \in Token
      BY <1>0, <1>1, TokenEdits
    <3>2. \/ tok' = [tok EXCEPT ![req[r].t] = [tok[req[r].t] EXCEPT !.revoked = TRUE]]
          \/ tok' = [tok EXCEPT ![req[r].t] = [tok[req[r].t] EXCEPT !.rotatedTo = req[r].n]]
      BY <1>10 DEF RefreshBackfill, LogoutToken
    <3> QED
      BY <1>0, <3>1, <3>2
  <2>2. req' \in [Requests -> Slot]
    BY <1>0, <1>10, EndTyped DEF RefreshBackfill, LogoutToken
  <2> QED
    BY <1>0, <1>10, <2>1, <2>2 DEF RefreshBackfill, LogoutToken, AccountsTypeOK
<1>11. CASE Die(r)
  BY <1>0, <1>11, EndTyped DEF Die, AccountsTypeOK
<1> QED
  BY <1>2, <1>3, <1>4, <1>5, <1>6, <1>7, <1>8, <1>9, <1>10, <1>11 DEF Handler

\* Every arrival keeps the types.
LEMMA ArrivalTyped ==
  ASSUME AccountsTypeOK, Arrival, calls < MaxCalls, calls' = calls + 1
  PROVE  AccountsTypeOK'
<1> USE BoundsAssumption, CompanyAssumption
<1>0. /\ time \in 1..MaxTime /\ account \in [Emails -> {"none", "active", "archived"}]
      /\ grant \subseteq Emails /\ nextTok \in 1..(MaxToken + 1) /\ tok \in [TokenIds -> Token]
      /\ jti \in [TokenIds -> Nat] /\ out \subseteq TokenIds /\ nextLink \in 1..(MaxLink + 1)
      /\ link \in [LinkIds -> Link] /\ req \in [Requests -> Slot] /\ calls' \in 0..MaxCalls
  BY DEF AccountsTypeOK
<1>00. /\ 0 \in 0..MaxToken /\ 0 \in 0..MaxLink
       /\ \A t \in TokenIds : t \in 0..MaxToken
       /\ \A l \in LinkIds : l \in 0..MaxLink
  BY DEF TokenIds, LinkIds
<1>1. ASSUME NEW r \in Requests, NEW e \in Emails,
             LoginWithGoogle(r, e) \/ InviteClient(r, e) \/ InviteGuest(r, e) \/ Archive(r, e)
      PROVE  AccountsTypeOK'
  <2>1. account' \in [Emails -> {"none", "active", "archived"}]
    BY <1>0, <1>1, UpsertTyped DEF LoginWithGoogle, InviteClient, InviteGuest, Archive
  <2>2. PICK q \in Slot : Begin(r, q)
    <3>1. \A step \in Steps, seen \in BOOLEAN :
            /\ [Idle EXCEPT !.pc = step, !.email = e] \in Slot
            /\ [Idle EXCEPT !.pc = step, !.email = e, !.seen = seen] \in Slot
      BY <1>00, FirstSlots
    <3> QED
      BY <1>1, <3>1 DEF LoginWithGoogle, InviteClient, InviteGuest, Archive, Steps, Fresh
  <2> QED
    BY <1>0, <1>1, <2>1, <2>2, BeginTyped
       DEF LoginWithGoogle, InviteClient, InviteGuest, Archive, AccountsTypeOK
<1>2. ASSUME NEW r \in Requests, NEW l \in LinkIds,
             ResendPendingInvite(r, l) \/ RevokePendingInvite(r, l) \/ VerifyRead(r, l)
      PROVE  AccountsTypeOK'
  <2>1. PICK q \in Slot : Begin(r, q)
    <3>1. link[l].email \in Emails \cup {NoEmail}
      BY <1>0 DEF Link
    <3>2. \A step \in Steps, seen \in BOOLEAN :
            /\ [Idle EXCEPT !.pc = step, !.email = link[l].email] \in Slot
            /\ [Idle EXCEPT !.pc = step, !.l = l, !.email = link[l].email] \in Slot
            /\ [Idle EXCEPT !.pc = step, !.l = l, !.email = link[l].email, !.seen = seen] \in Slot
      BY <1>00, <3>1, FirstSlots
    <3> QED
      BY <1>2, <3>2 DEF ResendPendingInvite, RevokePendingInvite, VerifyRead, Steps, Fresh
  <2> QED
    BY <1>0, <1>2, <2>1, BeginTyped
       DEF ResendPendingInvite, RevokePendingInvite, VerifyRead, AccountsTypeOK
<1>3. ASSUME NEW r \in Requests, NEW t \in TokenIds, RefreshRead(r, t) \/ Logout(r, t)
      PROVE  AccountsTypeOK'
  <2>1. PICK q \in Slot : Begin(r, q)
    <3>1. tok[t].owner \in Emails \cup {NoEmail}
      BY <1>0 DEF Token
    <3>2. \A step \in Steps, seen \in BOOLEAN :
            /\ [Idle EXCEPT !.pc = step, !.t = t, !.email = tok[t].owner] \in Slot
            /\ [Idle EXCEPT !.pc = step, !.t = t, !.email = tok[t].owner, !.seen = seen] \in Slot
      BY <1>00, <3>1, FirstSlots
    <3> QED
      BY <1>3, <3>2 DEF RefreshRead, Logout, Steps, Fresh
  <2>2. jti' \in [TokenIds -> Nat]
    BY <1>0, <1>3 DEF RefreshRead, Logout, RevokeJti
  <2> QED
    BY <1>0, <1>3, <2>1, <2>2, BeginTyped DEF RefreshRead, Logout, AccountsTypeOK
<1>4. ASSUME NEW e \in Emails, RequestMagicLink(e) PROVE AccountsTypeOK'
  <2>1. link' \in [LinkIds -> Link] /\ nextLink' \in 1..(MaxLink + 1)
    BY <1>4, NewLinkTyped DEF RequestMagicLink
  <2> QED
    BY <1>0, <1>4, <2>1 DEF RequestMagicLink, AccountsTypeOK
<1>5. ASSUME NEW e \in Emails, RevokeAccess(e) PROVE AccountsTypeOK'
  BY <1>0, <1>5 DEF RevokeAccess, AccountsTypeOK
<1>6. ASSUME NEW e \in Emails, Unarchive(e) PROVE AccountsTypeOK'
  <2>1. \A r \in Requests : [req[r] EXCEPT !.seen = TRUE] \in Slot
    <3>1. \A x \in Slot : [x EXCEPT !.seen = TRUE] \in Slot
      BY DEF Slot
    <3> QED
      BY <1>0, <3>1
  <2>2. req' \in [Requests -> Slot]
    BY <1>0, <1>6, <2>1 DEF Unarchive
  <2>3. account' \in [Emails -> {"none", "active", "archived"}]
    BY <1>0, <1>6 DEF Unarchive
  <2> QED
    BY <1>0, <1>6, <2>2, <2>3 DEF Unarchive, AccountsTypeOK
<1>7. ASSUME NEW t \in TokenIds, NEW s \in TokenIds, RevokeSession(t, s) PROVE AccountsTypeOK'
  <2>1. tok' \in [TokenIds -> Token]
    <3>1. \A x \in TokenIds : tok'[x] = tok[x] \/ tok'[x] = [tok[x] EXCEPT !.revoked = TRUE]
      BY <1>0, <1>7 DEF RevokeSession
    <3>2. tok' = [x \in TokenIds |-> tok'[x]]
      BY <1>0, <1>7 DEF RevokeSession
    <3> QED
      BY <1>0, <3>1, <3>2, RevokeTyped
  <2> QED
    BY <1>0, <1>7, <2>1 DEF RevokeSession, AccountsTypeOK
<1>8. ASSUME NEW t \in TokenIds, NEW s \in TokenIds, RevokeOthers(t, s) PROVE AccountsTypeOK'
  <2>1. tok' \in [TokenIds -> Token]
    BY <1>0, <1>8, RevokeTyped DEF RevokeOthers, RevokeWhere
  <2> QED
    BY <1>0, <1>8, <2>1 DEF RevokeOthers, AccountsTypeOK
<1> QED
  BY <1>1, <1>2, <1>3, <1>4, <1>5, <1>6, <1>7, <1>8 DEF Arrival

\* Every step keeps the types.
LEMMA AccountsTypeStep == AccountsTypeOK /\ [AccountsNext]_accountVars => AccountsTypeOK'
<1> SUFFICES ASSUME AccountsTypeOK, [AccountsNext]_accountVars PROVE AccountsTypeOK'
  OBVIOUS
<1>1. CASE Tick /\ UNCHANGED calls
  BY <1>1, BoundsAssumption DEF AccountsTypeOK, Tick
<1>2. CASE UNCHANGED accountVars
  BY <1>2 DEF AccountsTypeOK, accountVars
<1> QED
  BY <1>1, <1>2, HandlerTyped, ArrivalTyped DEF AccountsNext

-----------------------------------------------------------------------------
(* Accounts: the invariant. *)

\* The rows of sessions are numbered without gaps, every session was earned, and
\* its chain began with it or earlier.
TokenRows ==
    \A t \in TokenIds :
        /\ t >= nextTok => tok[t] = NoToken
        /\ t < nextTok => /\ tok[t].owner \in Emails /\ tok[t].earned
                          /\ tok[t].root # 0 /\ tok[t].root < nextTok
                          /\ tok[t].born <= time

\* So are the rows of links.
LinkRows ==
    \A l \in LinkIds :
        /\ l >= nextLink => link[l] = NoLink
        /\ l < nextLink => link[l].email \in Emails

\* The key of a revoked access token expires after the token.
LogoutKeys == \A t \in out : t < nextTok /\ jti[t] >= tok[t].born + AccessTTL

\* A handler holds what its step needs: an address, the session or link it was
\* called with, and, before it may issue a session, a moment at which the
\* account was not archived.
Ready(q, sessions, links, acc) ==
    /\ q.pc # "idle" => q.email \in Emails
    /\ q.t < sessions /\ q.l < links
    /\ q.pc \in {"rotate", "revokeAll", "backfill", "logoutToken"} => q.t # 0
    /\ q.pc \in {"consume", "expireInvite"} => q.l # 0
    /\ q.pc \in {"rotate", "issue"} => q.seen
    /\ q.pc = "rotate" => q.l = 0
    /\ q.pc = "consume" => q.t = 0 /\ (q.seen \/ acc[q.email] = "archived")
SlotsReady == \A r \in Requests : Ready(req[r], nextTok, nextLink, account)

HandlersReady == TokenRows /\ LinkRows /\ LogoutKeys /\ SlotsReady

\* A handler that is to issue the successor of a session, or has done so.
Rotating(r) == req[r].pc = "issue" /\ req[r].t # 0
Rotated(r) == req[r].pc = "backfill" /\ req[r].t # 0

\* A chain of sessions has a live end or one handler about to give it one,
\* never both and never two.
ChainInv ==
    /\ ChainOneLive
    /\ RotatedIsRevoked
    /\ \A r \in Requests : Rotated(r) => tok[req[r].t].revoked
    /\ \A r \in Requests : Rotating(r) =>
          \A s \in Issued : tok[s].root = tok[req[r].t].root => tok[s].revoked
    /\ \A r, q \in Requests : Rotating(r) /\ Rotating(q) /\ r # q =>
          tok[req[r].t].root # tok[req[q].t].root

\* A handler that has claimed a link and has not yet issued its session.
Claimed(r) == req[r].pc = "issue" /\ req[r].l # 0

\* A link is used before it signs in, and by one handler.
LinkInv ==
    /\ \A l \in LinkIds : link[l].minted <= 1 /\ (link[l].minted = 1 => link[l].used)
    /\ \A r \in Requests : Claimed(r) => link[req[r].l].used /\ link[req[r].l].minted = 0
    /\ \A r, q \in Requests : Claimed(r) /\ Claimed(q) /\ r # q => req[r].l # req[q].l

\* An invitation of an address that existed at a sweep stays void.
Void(k, e) == link[k].intent = "project_invite" /\ link[k].email = e => ~Valid(k)
InviteInv ==
    /\ \A l \in LinkIds :
          /\ link[l].swept <= nextLink
          /\ \A k \in LinkIds : k < link[l].swept => Void(k, link[l].email)
    /\ \A r \in Requests : req[r].pc = "createInvite" =>
          /\ req[r].swept <= nextLink
          /\ \A k \in LinkIds : k < req[r].swept => Void(k, req[r].email)

AccountsIInv == AccountsTypeOK /\ HandlersReady /\ ChainInv /\ LinkInv /\ InviteInv

\* The rows of sessions as a step leaves them when it revokes some, or none.
Fades ==
    /\ nextTok' = nextTok
    /\ \A t \in TokenIds :
          /\ tok'[t].owner = tok[t].owner /\ tok'[t].root = tok[t].root
          /\ tok'[t].rotatedTo = tok[t].rotatedTo /\ tok'[t].born = tok[t].born
          /\ tok'[t].earned = tok[t].earned
          /\ tok[t].revoked => tok'[t].revoked
          /\ tok[t] = NoToken => tok'[t] = NoToken

\* No handler comes to hold a consumed session.
NoneRotates ==
    \A r \in Requests :
        /\ Rotating(r)' => Rotating(r) /\ req'[r].t = req[r].t
        /\ Rotated(r)' => Rotated(r) /\ req'[r].t = req[r].t

\* No handler comes to hold a claimed link.
NoneClaims == \A r \in Requests : Claimed(r)' => Claimed(r) /\ req'[r].l = req[r].l

\* A step that only revokes, and leaves the rotations in progress alone, keeps
\* every chain as it was.
LEMMA ChainFades ==
  ASSUME AccountsTypeOK, HandlersReady, ChainInv, Fades, NoneRotates
  PROVE  ChainInv'
<1>1. Issued' = Issued
  BY DEF Fades, Issued
<1>2. \A s \in Issued : s \in TokenIds
  BY DEF Issued
<1>3. \A r \in Requests : Rotating(r)' \/ Rotated(r)' =>
          req'[r].t = req[r].t /\ req[r].t \in TokenIds
  BY BoundsAssumption DEF AccountsTypeOK, Slot, NoneRotates, Rotating, Rotated, TokenIds
<1>4. ChainOneLive'
  BY <1>1, <1>2 DEF ChainInv, ChainOneLive, Fades
<1>5. RotatedIsRevoked'
  BY <1>1, <1>2 DEF ChainInv, RotatedIsRevoked, Fades
<1>6. \A r \in Requests : Rotated(r)' => tok'[req'[r].t].revoked
  BY <1>3 DEF ChainInv, Fades, NoneRotates
<1>7. ASSUME NEW r \in Requests, Rotating(r)', NEW s \in Issued, tok'[s].root = tok'[req'[r].t].root
      PROVE  tok'[s].revoked
  BY <1>2, <1>3, <1>7 DEF ChainInv, Fades, NoneRotates
<1>8. ASSUME NEW r \in Requests, NEW q \in Requests, Rotating(r)', Rotating(q)', r # q
      PROVE  tok'[req'[r].t].root # tok'[req'[q].t].root
  BY <1>3, <1>8 DEF ChainInv, Fades, NoneRotates
<1> QED
  BY <1>1, <1>4, <1>5, <1>6, <1>7, <1>8 DEF ChainInv

\* What the steps that rotate nothing and claim nothing do to the slots.
LEMMA SlotsEnd ==
  ASSUME AccountsTypeOK, NEW r \in Requests, End(r)
  PROVE  NoneRotates /\ NoneClaims
<1>1. \A q \in Requests : req'[q] = req[q] \/ req'[q] = Idle
  BY DEF End, AccountsTypeOK
<1> QED
  BY <1>1 DEF NoneRotates, NoneClaims, Rotating, Rotated, Claimed, Idle

\* A handler that neither rotates a token nor claims a link.
LEMMA SlotsMove ==
  ASSUME NEW r \in Requests, \A q \in Requests \ {r} : req'[q] = req[q],
         req'[r].pc \in {"issue", "backfill"} => req'[r].t = 0 /\ req'[r].l = 0
  PROVE  NoneRotates /\ NoneClaims
  BY DEF NoneRotates, NoneClaims, Rotating, Rotated, Claimed

\* Steps without a handler rotate and claim nothing.
LEMMA SlotsSame ==
  ASSUME UNCHANGED req
  PROVE  NoneRotates /\ NoneClaims
  BY DEF NoneRotates, NoneClaims, Rotating, Rotated, Claimed

\* What they do to the sessions.
LEMMA FadesSame == ASSUME UNCHANGED <<tok, nextTok>> PROVE Fades
  BY DEF Fades

\* Revoking one token.
LEMMA FadesOne ==
  ASSUME AccountsTypeOK, NEW t \in Issued, tok' = [tok EXCEPT ![t].revoked = TRUE], UNCHANGED nextTok
  PROVE  Fades
<1>1. \A s \in TokenIds : tok[s] \in Token
  BY DEF AccountsTypeOK
<1>2. \A s \in TokenIds : tok'[s] = IF s = t THEN [tok[s] EXCEPT !.revoked = TRUE] ELSE tok[s]
  BY DEF AccountsTypeOK
<1>3. tok[t] # NoToken
  BY DEF Issued, NoToken
<1> QED
  BY <1>1, <1>2, <1>3 DEF Fades, Token

\* Revoking the tokens an update matches.
LEMMA FadesWhere ==
  ASSUME AccountsTypeOK, UNCHANGED nextTok, NEW S,
         tok' = [t \in TokenIds |-> IF t \in Issued /\ t \in S
                                    THEN [tok[t] EXCEPT !.revoked = TRUE] ELSE tok[t]]
  PROVE  Fades
<1>1. \A s \in TokenIds : tok[s] \in Token
  BY DEF AccountsTypeOK
<1>2. \A s \in TokenIds : s \in Issued => tok[s] # NoToken
  BY DEF Issued, NoToken
<1> QED
  BY <1>1, <1>2 DEF Fades, Token

\* A session a handler was called with exists.
LEMMA HeldIsIssued ==
  ASSUME AccountsTypeOK, HandlersReady, NEW r \in Requests, req[r].t # 0
  PROVE  req[r].t \in Issued
<1>1. req[r].t \in TokenIds /\ req[r].t < nextTok
  BY BoundsAssumption DEF AccountsTypeOK, HandlersReady, TokenRows, SlotsReady, Ready, Slot, TokenIds
<1> QED
  BY <1>1, CompanyAssumption DEF HandlersReady, TokenRows, SlotsReady, Ready, Issued

\* Of the handlers' statements, all but three leave the chains alone.
LEMMA HandlerFades ==
  ASSUME AccountsTypeOK, HandlersReady, NEW r \in Requests, Handler(r),
         ~IssueTokens(r), ~RefreshRotate(r), ~RefreshBackfill(r)
  PROVE  Fades /\ NoneRotates
<1>1. CASE InviteClientLink(r) \/ CreateInvite(r) \/ DropGrant(r) \/ Die(r)
  BY <1>1, SlotsEnd, FadesSame DEF InviteClientLink, CreateInvite, DropGrant, Die
<1>2. CASE SweepInvites(r) \/ ExpireInvite(r)
  <2>1. /\ req'[r].pc \notin {"issue", "backfill"}
        /\ \A q \in Requests \ {r} : req'[q] = req[q]
    BY <1>2 DEF SweepInvites, ExpireInvite, Goto, AccountsTypeOK, Slot
  <2> QED
    BY <1>2, <2>1, SlotsMove, FadesSame DEF SweepInvites, ExpireInvite
<1>3. CASE VerifyConsume(r)
  <2>1. CASE End(r)
    BY <1>3, <2>1, SlotsEnd, FadesSame DEF VerifyConsume
  <2>2. CASE Goto(r, "issue")
    <3>1. req[r].t = 0
      BY <1>3 DEF VerifyConsume, HandlersReady, TokenRows, SlotsReady, Ready
    <3>2. /\ req'[r].pc = "issue" /\ req'[r].t = 0
          /\ \A q \in Requests \ {r} : req'[q] = req[q]
      BY <2>2, <3>1 DEF Goto, AccountsTypeOK, Slot
    <3> QED
      BY <1>3, <3>2, FadesSame DEF VerifyConsume, NoneRotates, Rotating, Rotated
  <2> QED
    BY <1>3, <2>1, <2>2 DEF VerifyConsume
<1>4. CASE RefreshRevokeAll(r) \/ ArchiveTokens(r)
  <2> DEFINE S == {t \in TokenIds : tok[t].owner = req[r].email}
  <2>1. tok' = [t \in TokenIds |-> IF t \in Issued /\ t \in S
                                   THEN [tok[t] EXCEPT !.revoked = TRUE] ELSE tok[t]]
    BY <1>4 DEF RefreshRevokeAll, ArchiveTokens, RevokeWhere
  <2> HIDE DEF S
  <2> QED
    BY <1>4, <2>1, SlotsEnd, FadesWhere DEF RefreshRevokeAll, ArchiveTokens
<1>5. CASE LogoutToken(r)
  <2>1. req[r].t \in Issued
    BY <1>5, HeldIsIssued DEF LogoutToken, HandlersReady, TokenRows, SlotsReady, Ready
  <2> QED
    BY <1>5, <2>1, SlotsEnd, FadesOne DEF LogoutToken
<1> QED
  BY <1>1, <1>2, <1>3, <1>4, <1>5 DEF Handler

\* So do the requests when they arrive.
LEMMA ArrivalFades ==
  ASSUME AccountsTypeOK, Arrival
  PROVE  Fades /\ NoneRotates /\ NoneClaims
<1> DEFINE Moved(r) == /\ \A q \in Requests \ {r} : req'[q] = req[q]
                       /\ req'[r].pc \in {"issue", "backfill"} => req'[r].t = 0 /\ req'[r].l = 0
<1>1. ASSUME NEW r \in Requests, NEW e \in Emails,
             LoginWithGoogle(r, e) \/ InviteClient(r, e) \/ InviteGuest(r, e) \/ Archive(r, e)
      PROVE  Fades /\ NoneRotates /\ NoneClaims
  <2>1. Moved(r)
    <3>1. CASE LoginWithGoogle(r, e)
      BY <3>1 DEF LoginWithGoogle, Idle, Begin, AccountsTypeOK
    <3>2. CASE InviteClient(r, e)
      BY <3>2 DEF InviteClient, Idle, Begin, AccountsTypeOK
    <3>3. CASE InviteGuest(r, e)
      BY <3>3 DEF InviteGuest, Idle, Begin, AccountsTypeOK
    <3>4. CASE Archive(r, e)
      BY <3>4 DEF Archive, Idle, Begin, AccountsTypeOK
    <3> QED
      BY <1>1, <3>1, <3>2, <3>3, <3>4
  <2> QED
    BY <1>1, <2>1, SlotsMove, FadesSame DEF LoginWithGoogle, InviteClient, InviteGuest, Archive
<1>2. ASSUME NEW r \in Requests, NEW l \in LinkIds,
             ResendPendingInvite(r, l) \/ RevokePendingInvite(r, l) \/ VerifyRead(r, l)
      PROVE  Fades /\ NoneRotates /\ NoneClaims
  <2>1. Moved(r)
    BY <1>2 DEF ResendPendingInvite, RevokePendingInvite, VerifyRead, Idle, Begin, AccountsTypeOK
  <2> QED
    BY <1>2, <2>1, SlotsMove, FadesSame DEF ResendPendingInvite, RevokePendingInvite, VerifyRead
<1>3. ASSUME NEW r \in Requests, NEW t \in TokenIds, RefreshRead(r, t) \/ Logout(r, t)
      PROVE  Fades /\ NoneRotates /\ NoneClaims
  <2>1. Moved(r)
    BY <1>3 DEF RefreshRead, Logout, Idle, Begin, AccountsTypeOK
  <2> QED
    BY <1>3, <2>1, SlotsMove, FadesSame DEF RefreshRead, Logout
<1>4. ASSUME NEW e \in Emails, RequestMagicLink(e) \/ RevokeAccess(e)
      PROVE  Fades /\ NoneRotates /\ NoneClaims
  BY <1>4, SlotsSame, FadesSame DEF RequestMagicLink, RevokeAccess
<1>5. ASSUME NEW e \in Emails, Unarchive(e) PROVE Fades /\ NoneRotates /\ NoneClaims
  <2>1. \A r \in Requests : req'[r] = req[r] \/ req'[r] = [req[r] EXCEPT !.seen = TRUE]
    BY <1>5 DEF Unarchive
  <2>2. \A r \in Requests : /\ req'[r].pc = req[r].pc
                            /\ req'[r].t = req[r].t /\ req'[r].l = req[r].l
    BY <2>1, OneField DEF AccountsTypeOK
  <2> QED
    BY <1>5, <2>2, FadesSame DEF Unarchive, NoneRotates, NoneClaims, Rotating, Rotated, Claimed
<1>6. ASSUME NEW t \in TokenIds, NEW s \in TokenIds, RevokeSession(t, s)
      PROVE  Fades /\ NoneRotates /\ NoneClaims
  BY <1>6, SlotsSame, FadesOne DEF RevokeSession
<1>7. ASSUME NEW t \in TokenIds, NEW s \in TokenIds, RevokeOthers(t, s)
      PROVE  Fades /\ NoneRotates /\ NoneClaims
  <2> DEFINE S == {u \in TokenIds : tok[u].owner = tok[t].owner /\ u # s}
  <2>1. tok' = [u \in TokenIds |-> IF u \in Issued /\ u \in S
                                   THEN [tok[u] EXCEPT !.revoked = TRUE] ELSE tok[u]]
    BY <1>7 DEF RevokeOthers, RevokeWhere
  <2> HIDE DEF S
  <2> QED
    BY <1>7, <2>1, SlotsSame, FadesWhere DEF RevokeOthers
<1> QED
  BY <1>1, <1>2, <1>3, <1>4, <1>5, <1>6, <1>7 DEF Arrival

\* refresh's conditional update: the token was the chain's only live one, so
\* its loser revokes all and its winner leaves the chain with none.
LEMMA RotateChain ==
  ASSUME AccountsTypeOK, HandlersReady, ChainInv, NEW r \in Requests, RefreshRotate(r)
  PROVE  ChainInv'
<1> DEFINE t == req[r].t
<1>0. t \in Issued /\ \A s \in Issued : s \in TokenIds
  BY HeldIsIssued DEF RefreshRotate, HandlersReady, TokenRows, SlotsReady, Ready, Issued
<1>1. CASE tok[t].revoked \/ tok[t].rotatedTo # 0
  <2>1. /\ \A q \in Requests \ {r} : req'[q] = req[q]
        /\ req'[r].pc = "revokeAll"
    BY <1>1 DEF RefreshRotate, Goto, AccountsTypeOK, Slot
  <2> QED
    BY <1>1, <2>1, SlotsMove, FadesSame, ChainFades DEF RefreshRotate
<1>2. CASE ~tok[t].revoked /\ tok[t].rotatedTo = 0
  <2>1. /\ \A q \in Requests \ {r} : req'[q] = req[q]
        /\ req'[r].pc = "issue" /\ req'[r].t = t
    BY <1>2 DEF RefreshRotate, Goto, AccountsTypeOK, Slot
  <2>2. tok' = [tok EXCEPT ![t].revoked = TRUE] /\ UNCHANGED nextTok
    BY <1>2 DEF RefreshRotate
  <2>3. Fades
    BY <1>0, <2>2, FadesOne
  <2>4. /\ tok'[t].revoked
        /\ \A s \in TokenIds : s # t => tok'[s] = tok[s]
    BY <1>0, <2>2 DEF AccountsTypeOK, Token
  <2> HIDE DEF t
  <2>5. Issued' = Issued /\ \A s \in Issued : tok'[s].root = tok[s].root
    BY <1>0, <2>3 DEF Fades, Issued
  <2>6. \A q \in Requests \ {r} : /\ Rotating(q)' <=> Rotating(q)
                                  /\ Rotated(q)' <=> Rotated(q)
    BY <2>1 DEF Rotating, Rotated
  <2>7. ~Rotated(r)'
    BY <2>1 DEF Rotated
  <2>8. \A q \in Requests : Rotating(q) \/ Rotated(q) => req[q].t \in Issued
    BY HeldIsIssued DEF Rotating, Rotated
  <2>9. ChainOneLive'
    BY <1>0, <2>3, <2>5 DEF ChainInv, ChainOneLive, Fades
  <2>10. RotatedIsRevoked'
    BY <1>0, <2>3, <2>5 DEF ChainInv, RotatedIsRevoked, Fades
  <2>11. \A q \in Requests : Rotated(q)' => tok'[req'[q].t].revoked
    BY <1>0, <2>1, <2>3, <2>6, <2>7, <2>8 DEF ChainInv, Fades
  <2>12. ASSUME NEW s \in Issued, tok[s].root = tok[t].root PROVE tok'[s].revoked
    BY <1>0, <1>2, <2>4, <2>12 DEF ChainInv, ChainOneLive
  <2>13. ASSUME NEW q \in Requests, Rotating(q)', NEW s \in Issued,
                tok'[s].root = tok'[req'[q].t].root
         PROVE  tok'[s].revoked
    <3>1. CASE q = r
      BY <1>0, <2>1, <2>5, <2>12, <2>13, <3>1
    <3>2. CASE q # r
      BY <1>0, <2>1, <2>3, <2>5, <2>6, <2>8, <2>13, <3>2 DEF ChainInv, Fades
    <3> QED
      BY <3>1, <3>2
  <2>14. ASSUME NEW q \in Requests, q # r, Rotating(q) PROVE tok[req[q].t].root # tok[t].root
    BY <1>0, <1>2, <2>14 DEF ChainInv
  <2>15. ASSUME NEW p \in Requests, NEW q \in Requests, Rotating(p)', Rotating(q)', p # q
         PROVE  tok'[req'[p].t].root # tok'[req'[q].t].root
    <3>1. CASE p = r
      BY <1>0, <2>1, <2>5, <2>6, <2>8, <2>14, <2>15, <3>1
    <3>2. CASE q = r
      BY <1>0, <2>1, <2>5, <2>6, <2>8, <2>14, <2>15, <3>2
    <3>3. CASE p # r /\ q # r
      BY <2>1, <2>5, <2>6, <2>8, <2>15, <3>3 DEF ChainInv
    <3> QED
      BY <3>1, <3>2, <3>3
  <2> QED
    BY <2>5, <2>9, <2>10, <2>11, <2>13, <2>15 DEF ChainInv
<1> QED
  BY <1>1, <1>2

\* issueTokens: the new session starts a chain, or is the only live one of a
\* chain that had none and that no other handler is about to continue.
LEMMA IssueChain ==
  ASSUME AccountsTypeOK, HandlersReady, ChainInv, NEW r \in Requests, IssueTokens(r)
  PROVE  ChainInv'
<1> DEFINE t == req[r].t
           n == nextTok
<1>1. /\ n \in TokenIds /\ tok'[n].owner = req[r].email /\ ~tok'[n].revoked
      /\ tok'[n].rotatedTo = 0
      /\ tok'[n].root = IF t = 0 THEN n ELSE tok[t].root
      /\ \A s \in TokenIds : s # n => tok'[s] = tok[s]
  BY DEF IssueTokens, AccountsTypeOK
<1>2. req[r].email \in Emails /\ req[r].pc = "issue"
  BY DEF IssueTokens, HandlersReady, TokenRows, SlotsReady, Ready
<1>3. n \notin Issued /\ Issued' = Issued \cup {n}
  <2>1. tok[n].owner = NoEmail
    BY <1>1, BoundsAssumption DEF HandlersReady, TokenRows, SlotsReady, Ready, NoToken, AccountsTypeOK
  <2>2. tok'[n].owner # NoEmail
    BY <1>1, <1>2, CompanyAssumption
  <2> HIDE DEF n
  <2> QED
    BY <1>1, <2>1, <2>2 DEF Issued
<1>4. \A s \in Issued : s \in TokenIds /\ s # n /\ tok'[s] = tok[s] /\ tok[s].root # n
  <2>1. \A s \in Issued : s \in TokenIds /\ s # n /\ tok'[s] = tok[s]
    BY <1>1, <1>3 DEF Issued
  <2>2. \A s \in Issued : s < nextTok
    BY CompanyAssumption, BoundsAssumption DEF Issued, HandlersReady, TokenRows, SlotsReady, Ready, NoToken, AccountsTypeOK, TokenIds
  <2>3. \A s \in Issued : tok[s].root < nextTok /\ tok[s].root \in Nat /\ nextTok \in Nat
    BY <2>1, <2>2, BoundsAssumption DEF HandlersReady, TokenRows, SlotsReady, Ready, AccountsTypeOK, Token
  <2> QED
    BY <2>1, <2>3
<1>5. /\ \A q \in Requests \ {r} : req'[q] = req[q]
      /\ ~Rotating(r)'
      /\ Rotated(r)' => req'[r].t = t /\ t # 0
  BY DEF IssueTokens, Rotating, Rotated, AccountsTypeOK, Slot, Idle
<1>6. t # 0 => t \in Issued /\ Rotating(r)
  BY <1>2, HeldIsIssued DEF Rotating
<1>7. t # 0 => tok[t].revoked /\ \A s \in Issued : tok[s].root = tok[t].root => tok[s].revoked
  BY <1>6 DEF ChainInv
<1> HIDE DEF t, n
<1>8. \A s \in Issued : tok[s].root = tok'[n].root => tok[s].revoked
  BY <1>1, <1>4, <1>7
<1>9. ChainOneLive'
  BY <1>1, <1>3, <1>4, <1>8 DEF ChainInv, ChainOneLive
<1>10. RotatedIsRevoked'
  BY <1>1, <1>3, <1>4 DEF ChainInv, RotatedIsRevoked
<1>11. \A q \in Requests \ {r} : /\ Rotating(q)' <=> Rotating(q)
                                 /\ Rotated(q)' <=> Rotated(q)
  BY <1>5 DEF Rotating, Rotated
<1>12. \A q \in Requests : Rotating(q) \/ Rotated(q) => req[q].t \in Issued
  BY HeldIsIssued DEF Rotating, Rotated
<1>13. ASSUME NEW q \in Requests, Rotated(q)' PROVE tok'[req'[q].t].revoked
  <2>1. CASE q = r
    BY <1>4, <1>5, <1>6, <1>7, <1>13, <2>1
  <2>2. CASE q # r
    BY <1>4, <1>5, <1>11, <1>12, <1>13, <2>2 DEF ChainInv
  <2> QED
    BY <2>1, <2>2
<1>14. ASSUME NEW q \in Requests, Rotating(q)', NEW s \in Issued',
              tok'[s].root = tok'[req'[q].t].root
       PROVE  tok'[s].revoked
  <2>1. q # r /\ Rotating(q) /\ req'[q].t = req[q].t /\ req[q].t \in Issued
    BY <1>5, <1>11, <1>12, <1>14
  <2>2. CASE s = n
    <3>1. tok'[n].root = tok[req[q].t].root
      BY <1>4, <1>14, <2>1, <2>2
    <3>2. CASE t = 0
      BY <1>1, <1>4, <2>1, <3>1, <3>2
    <3>3. CASE t # 0
      <4>1. tok[t].root = tok[req[q].t].root /\ Rotating(r) /\ r # q
        BY <1>1, <1>6, <2>1, <3>1, <3>3
      <4> QED
        BY <2>1, <4>1 DEF ChainInv, t
    <3> QED
      BY <3>2, <3>3
  <2>3. CASE s # n
    BY <1>3, <1>4, <1>14, <2>1, <2>3 DEF ChainInv
  <2> QED
    BY <2>2, <2>3
<1>15. ASSUME NEW p \in Requests, NEW q \in Requests, Rotating(p)', Rotating(q)', p # q
       PROVE  tok'[req'[p].t].root # tok'[req'[q].t].root
  BY <1>4, <1>5, <1>11, <1>12, <1>15 DEF ChainInv
<1> QED
  BY <1>9, <1>10, <1>13, <1>14, <1>15 DEF ChainInv

\* The back-fill points a session at its successor once it is revoked.
LEMMA BackfillChain ==
  ASSUME AccountsTypeOK, HandlersReady, ChainInv, NEW r \in Requests, RefreshBackfill(r)
  PROVE  ChainInv'
<1> DEFINE t == req[r].t
<1>1. t \in Issued /\ tok[t].revoked
  BY HeldIsIssued DEF RefreshBackfill, HandlersReady, TokenRows, SlotsReady, Ready, ChainInv, Rotated
<1>2. \A s \in TokenIds : /\ tok'[s].owner = tok[s].owner /\ tok'[s].root = tok[s].root
                          /\ tok'[s].revoked = tok[s].revoked
                          /\ s # t => tok'[s] = tok[s]
  BY DEF RefreshBackfill, AccountsTypeOK, Token
<1> HIDE DEF t
<1>3. Issued' = Issued /\ \A s \in Issued : s \in TokenIds
  BY <1>2 DEF Issued
<1>4. NoneRotates
  BY SlotsEnd DEF RefreshBackfill
<1>5. \A q \in Requests : Rotating(q) \/ Rotated(q) => req[q].t \in Issued
  BY HeldIsIssued DEF Rotating, Rotated
<1>6. ChainOneLive'
  BY <1>2, <1>3 DEF ChainInv, ChainOneLive
<1>7. RotatedIsRevoked'
  BY <1>1, <1>2, <1>3 DEF ChainInv, RotatedIsRevoked
<1>8. ASSUME NEW q \in Requests, Rotated(q)' PROVE tok'[req'[q].t].revoked
  BY <1>2, <1>3, <1>4, <1>5, <1>8 DEF ChainInv, NoneRotates
<1>9. ASSUME NEW q \in Requests, Rotating(q)', NEW s \in Issued,
             tok'[s].root = tok'[req'[q].t].root
      PROVE  tok'[s].revoked
  BY <1>2, <1>3, <1>4, <1>5, <1>9 DEF ChainInv, NoneRotates
<1>10. ASSUME NEW p \in Requests, NEW q \in Requests, Rotating(p)', Rotating(q)', p # q
       PROVE  tok'[req'[p].t].root # tok'[req'[q].t].root
  BY <1>2, <1>3, <1>4, <1>5, <1>10 DEF ChainInv, NoneRotates
<1> QED
  BY <1>3, <1>6, <1>7, <1>8, <1>9, <1>10 DEF ChainInv

\* Every step keeps the chains.
LEMMA ChainStep ==
  ASSUME AccountsTypeOK, HandlersReady, ChainInv, [AccountsNext]_accountVars
  PROVE  ChainInv'
<1>1. CASE UNCHANGED <<tok, nextTok, req>>
  BY <1>1, SlotsSame, FadesSame, ChainFades
<1>2. ASSUME NEW r \in Requests, Handler(r) PROVE ChainInv'
  BY <1>2, HandlerFades, ChainFades, RotateChain, IssueChain, BackfillChain
<1>3. CASE Arrival
  BY <1>3, ArrivalFades, ChainFades
<1> QED
  BY <1>1, <1>2, <1>3 DEF AccountsNext, accountVars, Tick

\* A slot stays ready while rows are only added and no account is unarchived.
LEMMA ReadyStays ==
  ASSUME NEW q \in Slot, NEW m \in Nat, NEW m1 \in Nat, NEW n \in Nat, NEW n1 \in Nat,
         NEW acc, NEW acc1, Ready(q, m, n, acc), m <= m1, n <= n1,
         \A e \in Emails : acc[e] = "archived" => acc1[e] = "archived"
  PROVE  Ready(q, m1, n1, acc1)
<1>1. q.t \in Nat /\ q.l \in Nat
  BY BoundsAssumption DEF Slot
<1>2. q.t < m1 /\ q.l < n1
  BY <1>1 DEF Ready
<1>3. q.pc = "consume" => q.email \in Emails
  BY DEF Ready
<1> QED
  BY <1>2, <1>3 DEF Ready

\* A step that moves one handler needs to look at its slot alone.
LEMMA ReadyStep ==
  ASSUME AccountsTypeOK, SlotsReady, AccountsTypeOK', NEW r \in Requests,
         \A q \in Requests \ {r} : req'[q] = req[q],
         Ready(req'[r], nextTok', nextLink', account'),
         nextTok <= nextTok', nextLink <= nextLink',
         \A e \in Emails : account[e] = "archived" => account'[e] = "archived"
  PROVE  SlotsReady'
<1>1. nextTok \in Nat /\ nextTok' \in Nat /\ nextLink \in Nat /\ nextLink' \in Nat
  BY BoundsAssumption DEF AccountsTypeOK
<1>2. ASSUME NEW q \in Requests PROVE Ready(req'[q], nextTok', nextLink', account')
  <2>1. req[q] \in Slot /\ Ready(req[q], nextTok, nextLink, account)
    BY DEF AccountsTypeOK, SlotsReady
  <2>2. q # r => req'[q] = req[q]
    OBVIOUS
  <2> QED
    BY <1>1, <2>1, <2>2, ReadyStays
<1> QED
  BY <1>2 DEF SlotsReady

\* A free slot expects nothing of the rows.
LEMMA ReadyIdle ==
  ASSUME NEW m \in Nat \ {0}, NEW n \in Nat \ {0}, NEW acc
  PROVE  Ready(Idle, m, n, acc)
  BY DEF Ready, Idle

\* Creating an account that is missing archives and unarchives nobody.
LEMMA UpsertKeeps ==
  ASSUME AccountsTypeOK, NEW e \in Emails
  PROVE  \A f \in Emails : account[f] = "archived" => Upserted(e)[f] = "archived"
  BY DEF Upserted, AccountsTypeOK

\* The statements of a handler leave every slot ready.
LEMMA ReadyHandler ==
  ASSUME AccountsTypeOK, HandlersReady, AccountsTypeOK', NEW r \in Requests, Handler(r)
  PROVE  SlotsReady'
<1>0. /\ req[r] \in Slot /\ Ready(req[r], nextTok, nextLink, account) /\ SlotsReady
      /\ nextTok \in Nat \ {0} /\ nextLink \in Nat \ {0}
      /\ nextTok' \in Nat \ {0} /\ nextLink' \in Nat \ {0}
      /\ req[r].t \in Nat /\ req[r].l \in Nat
  BY BoundsAssumption DEF AccountsTypeOK, HandlersReady, SlotsReady, Slot
<1>1. CASE IssueTokens(r)
  <2>1. /\ \A q \in Requests \ {r} : req'[q] = req[q]
        /\ nextTok' = nextTok + 1 /\ nextLink' = nextLink /\ account' = account
        /\ req'[r] = IF req[r].t = 0 THEN Idle
                     ELSE [req[r] EXCEPT !.pc = "backfill", !.n = nextTok]
    BY <1>1 DEF IssueTokens, AccountsTypeOK
  <2>2. Ready(req'[r], nextTok', nextLink', account')
    <3>1. CASE req[r].t = 0
      BY <1>0, <2>1, <3>1, ReadyIdle
    <3>2. CASE req[r].t # 0
      BY <1>0, <1>1, <2>1, <3>2 DEF Ready, Slot, IssueTokens
    <3> QED
      BY <3>1, <3>2
  <2> QED
    BY <1>0, <2>1, <2>2, ReadyStep
<1>2. CASE End(r) /\ account' = account /\ nextTok' = nextTok /\ nextLink <= nextLink'
  <2>1. (\A q \in Requests \ {r} : req'[q] = req[q]) /\ req'[r] = Idle
    BY <1>2 DEF End, AccountsTypeOK
  <2> QED
    BY <1>0, <1>2, <2>1, ReadyIdle, ReadyStep
<1>3. CASE InviteClientLink(r) \/ CreateInvite(r)
  BY <1>0, <1>2, <1>3 DEF InviteClientLink, CreateInvite, NewLink
<1>4. CASE DropGrant(r) \/ RefreshRevokeAll(r) \/ RefreshBackfill(r) \/ LogoutToken(r)
           \/ ArchiveTokens(r) \/ Die(r)
  BY <1>0, <1>2, <1>4
     DEF DropGrant, RefreshRevokeAll, RefreshBackfill, LogoutToken, ArchiveTokens, Die
<1>6. CASE SweepInvites(r)
  <2>1. /\ \A q \in Requests \ {r} : req'[q] = req[q]
        /\ req'[r] = [req[r] EXCEPT !.pc = "createInvite", !.swept = nextLink]
        /\ nextTok' = nextTok /\ nextLink' = nextLink /\ account' = account
    <3>1. /\ req' = [req EXCEPT ![r].pc = "createInvite", ![r].swept = nextLink]
          /\ nextTok' = nextTok /\ nextLink' = nextLink /\ account' = account
      BY <1>6 DEF SweepInvites
    <3> QED
      BY <1>0, <3>1 DEF AccountsTypeOK, Slot
  <2>2. Ready(req'[r], nextTok', nextLink', account')
    <3>1. /\ req'[r].pc = "createInvite" /\ req'[r].email = req[r].email
          /\ req'[r].t = req[r].t /\ req'[r].l = req[r].l
      BY <1>0, <2>1 DEF Slot
    <3>2. req[r].email \in Emails
      BY <1>0, <1>6 DEF Ready, SweepInvites
    <3> QED
      BY <1>0, <2>1, <3>1, <3>2 DEF Ready
  <2> QED
    BY <1>0, <2>1, <2>2, ReadyStep
<1>7. CASE ExpireInvite(r)
  <2>1. /\ \A q \in Requests \ {r} : req'[q] = req[q]
        /\ req'[r] = [req[r] EXCEPT !.pc = "dropGrant"]
        /\ nextTok' = nextTok /\ nextLink' = nextLink /\ account' = account
    BY <1>7 DEF ExpireInvite, Goto, AccountsTypeOK
  <2>2. Ready(req'[r], nextTok', nextLink', account')
    BY <1>0, <1>7, <2>1 DEF Ready, Slot, ExpireInvite
  <2> QED
    BY <1>0, <2>1, <2>2, ReadyStep
<1>8. CASE VerifyConsume(r)
  <2>1. /\ nextTok' = nextTok /\ nextLink' = nextLink
        /\ req[r].email \in Emails /\ req[r].pc = "consume"
    BY <1>0, <1>8 DEF VerifyConsume, Ready
  <2>2. \A e \in Emails : account[e] = "archived" => account'[e] = "archived"
    BY <1>8, <2>1, UpsertKeeps DEF VerifyConsume
  <2>3. CASE End(r)
    <3>1. (\A q \in Requests \ {r} : req'[q] = req[q]) /\ req'[r] = Idle
      BY <2>3 DEF End, AccountsTypeOK
    <3> QED
      BY <1>0, <2>1, <2>2, <3>1, ReadyIdle, ReadyStep
  <2>4. CASE ~link[req[r].l].used /\ account[req[r].email] # "archived" /\ Goto(r, "issue")
    <3>1. /\ \A q \in Requests \ {r} : req'[q] = req[q]
          /\ req'[r] = [req[r] EXCEPT !.pc = "issue"]
      BY <2>4 DEF Goto, AccountsTypeOK
    <3>2. Ready(req'[r], nextTok', nextLink', account')
      BY <1>0, <2>1, <2>4, <3>1 DEF Ready, Slot
    <3> QED
      BY <1>0, <2>1, <2>2, <3>1, <3>2, ReadyStep
  <2> QED
    BY <1>8, <2>3, <2>4 DEF VerifyConsume
<1>9. CASE RefreshRotate(r)
  <2>1. /\ nextTok' = nextTok /\ nextLink' = nextLink /\ account' = account
        /\ \A q \in Requests \ {r} : req'[q] = req[q]
        /\ \/ req'[r] = [req[r] EXCEPT !.pc = "issue"]
           \/ req'[r] = [req[r] EXCEPT !.pc = "revokeAll"]
    BY <1>9 DEF RefreshRotate, Goto, AccountsTypeOK
  <2>2. Ready(req'[r], nextTok', nextLink', account')
    BY <1>0, <1>9, <2>1 DEF Ready, Slot, RefreshRotate
  <2> QED
    BY <1>0, <2>1, <2>2, ReadyStep
<1> QED
  BY <1>1, <1>3, <1>4, <1>6, <1>7, <1>8, <1>9 DEF Handler

\* A request leaves every slot ready when it begins.
LEMMA ReadyArrival ==
  ASSUME AccountsTypeOK, HandlersReady, AccountsTypeOK', Arrival
  PROVE  SlotsReady'
<1>0. /\ SlotsReady /\ nextTok \in Nat \ {0} /\ nextLink \in Nat \ {0}
      /\ nextTok' \in Nat \ {0} /\ nextLink' \in Nat \ {0}
  BY BoundsAssumption DEF AccountsTypeOK, HandlersReady
<1>1. \A l \in Sent : /\ l \in Nat /\ l # 0 /\ l < nextLink
                      /\ link[l].email \in Emails
  BY CompanyAssumption DEF HandlersReady, LinkRows, Sent, NoLink, LinkIds, AccountsTypeOK
<1>2. \A t \in Issued : /\ t \in Nat /\ t # 0 /\ t < nextTok
                        /\ tok[t].owner \in Emails
  BY CompanyAssumption DEF HandlersReady, TokenRows, Issued, NoToken, TokenIds, AccountsTypeOK
<1>3. ASSUME NEW r \in Requests, NEW e \in Emails, LoginWithGoogle(r, e) \/ InviteClient(r, e)
                                                   \/ InviteGuest(r, e) \/ Archive(r, e)
      PROVE  SlotsReady'
  <2>1. /\ nextTok' = nextTok /\ nextLink' = nextLink
        /\ \A q \in Requests \ {r} : req'[q] = req[q]
    BY <1>3 DEF LoginWithGoogle, InviteClient, InviteGuest, Archive, Begin, AccountsTypeOK
  <2>2. \A f \in Emails : account[f] = "archived" => account'[f] = "archived"
    <3>1. account' = Upserted(e) \/ account' = [account EXCEPT ![e] = "archived"]
      BY <1>3 DEF LoginWithGoogle, InviteClient, InviteGuest, Archive
    <3>2. \A f \in Emails : account[f] = "archived" =>
             [account EXCEPT ![e] = "archived"][f] = "archived"
      BY DEF AccountsTypeOK
    <3> QED
      BY <3>1, <3>2, UpsertKeeps
  <2>3. /\ req'[r].email = e /\ req'[r].t = 0 /\ req'[r].l = 0
        /\ \/ req'[r].pc = "issue" /\ req'[r].seen
           \/ req'[r].pc \in {"loginLink", "sweep", "archiveTokens"}
    <3>1. CASE LoginWithGoogle(r, e)
      BY <3>1 DEF LoginWithGoogle, Begin, AccountsTypeOK, Idle, Fresh
    <3>2. CASE InviteClient(r, e)
      BY <3>2 DEF InviteClient, Begin, AccountsTypeOK, Idle
    <3>3. CASE InviteGuest(r, e)
      BY <3>3 DEF InviteGuest, Begin, AccountsTypeOK, Idle
    <3>4. CASE Archive(r, e)
      BY <3>4 DEF Archive, Begin, AccountsTypeOK, Idle
    <3> QED
      BY <1>3, <3>1, <3>2, <3>3, <3>4
  <2>4. Ready(req'[r], nextTok', nextLink', account')
    BY <1>0, <2>3 DEF Ready
  <2> QED
    BY <1>0, <2>1, <2>2, <2>4, ReadyStep
<1>4. ASSUME NEW r \in Requests, NEW l \in LinkIds,
             ResendPendingInvite(r, l) \/ RevokePendingInvite(r, l) \/ VerifyRead(r, l)
      PROVE  SlotsReady'
  <2>1. /\ nextTok' = nextTok /\ nextLink' = nextLink /\ account' = account
        /\ \A q \in Requests \ {r} : req'[q] = req[q]
    BY <1>4 DEF ResendPendingInvite, RevokePendingInvite, VerifyRead, Begin, AccountsTypeOK
  <2>2. l \in Sent
    BY <1>4 DEF ResendPendingInvite, RevokePendingInvite, VerifyRead, Valid
  <2>3. /\ req'[r].email = link[l].email /\ req'[r].t = 0 /\ req'[r].l \in {0, l}
        /\ \/ req'[r].pc = "sweep"
           \/ req'[r].pc = "expireInvite" /\ req'[r].l = l
           \/ /\ req'[r].pc = "consume" /\ req'[r].l = l
              /\ req'[r].seen \/ account[link[l].email] = "archived"
    <3>1. CASE ResendPendingInvite(r, l)
      BY <3>1 DEF ResendPendingInvite, Begin, AccountsTypeOK, Idle
    <3>2. CASE RevokePendingInvite(r, l)
      BY <3>2 DEF RevokePendingInvite, Begin, AccountsTypeOK, Idle
    <3>3. CASE VerifyRead(r, l)
      BY <3>3 DEF VerifyRead, Begin, AccountsTypeOK, Idle, Fresh
    <3> QED
      BY <1>4, <3>1, <3>2, <3>3
  <2>4. Ready(req'[r], nextTok', nextLink', account')
    BY <1>0, <1>1, <2>1, <2>2, <2>3 DEF Ready
  <2> QED
    BY <1>0, <2>1, <2>4, ReadyStep
<1>5. ASSUME NEW r \in Requests, NEW t \in TokenIds, RefreshRead(r, t) \/ Logout(r, t)
      PROVE  SlotsReady'
  <2>1. /\ nextTok' = nextTok /\ nextLink' = nextLink /\ account' = account
        /\ \A q \in Requests \ {r} : req'[q] = req[q]
    BY <1>5 DEF RefreshRead, Logout, Begin, AccountsTypeOK
  <2>2. t \in Issued
    BY <1>5 DEF RefreshRead, Logout, Live, AccessValid
  <2>3. /\ req'[r].email = tok[t].owner /\ req'[r].t = t /\ req'[r].l = 0
        /\ (req'[r].pc = "rotate" /\ req'[r].seen) \/ req'[r].pc = "logoutToken"
    <3>1. CASE RefreshRead(r, t)
      BY <3>1 DEF RefreshRead, Begin, AccountsTypeOK, Idle, Fresh
    <3>2. CASE Logout(r, t)
      BY <3>2 DEF Logout, Begin, AccountsTypeOK, Idle
    <3> QED
      BY <1>5, <3>1, <3>2
  <2>4. Ready(req'[r], nextTok', nextLink', account')
    BY <1>0, <1>2, <2>1, <2>2, <2>3 DEF Ready
  <2> QED
    BY <1>0, <2>1, <2>4, ReadyStep
<1>6. ASSUME UNCHANGED <<req, account, nextTok>>, nextLink <= nextLink' PROVE SlotsReady'
  <2>1. ASSUME NEW r \in Requests PROVE Ready(req'[r], nextTok', nextLink', account')
    <3>1. req[r] \in Slot /\ Ready(req[r], nextTok, nextLink, account)
      BY <1>0 DEF AccountsTypeOK, SlotsReady
    <3> QED
      BY <1>0, <1>6, <3>1, ReadyStays
  <2> QED
    BY <2>1 DEF SlotsReady
<1>7. ASSUME NEW e \in Emails, RequestMagicLink(e) \/ RevokeAccess(e) PROVE SlotsReady'
  BY <1>0, <1>6, <1>7 DEF RequestMagicLink, RevokeAccess, NewLink
<1>8. ASSUME NEW t \in TokenIds, NEW s \in TokenIds, RevokeSession(t, s) \/ RevokeOthers(t, s)
      PROVE  SlotsReady'
  BY <1>0, <1>6, <1>8 DEF RevokeSession, RevokeOthers
<1>9. ASSUME NEW e \in Emails, Unarchive(e) PROVE SlotsReady'
  <2>1. ASSUME NEW r \in Requests PROVE Ready(req'[r], nextTok', nextLink', account')
    <3>1. req[r] \in Slot /\ Ready(req[r], nextTok, nextLink, account)
      BY <1>0 DEF AccountsTypeOK, SlotsReady
    <3>2. /\ req'[r].pc = req[r].pc /\ req'[r].email = req[r].email
          /\ req'[r].t = req[r].t /\ req'[r].l = req[r].l
          /\ req'[r].seen <=> (req[r].seen \/ req[r].email = e)
      BY <1>9, <3>1 DEF Unarchive, Slot
    <3>3. /\ nextTok' = nextTok /\ nextLink' = nextLink
          /\ \A f \in Emails : f # e => account'[f] = account[f]
      BY <1>9 DEF Unarchive, AccountsTypeOK
    <3> QED
      BY <3>1, <3>2, <3>3 DEF Ready
  <2> QED
    BY <2>1 DEF SlotsReady
<1> QED
  BY <1>3, <1>4, <1>5, <1>7, <1>8, <1>9 DEF Arrival

\* The clock does not go back, and only logout writes revocation keys.
LEMMA TimeGoesOn ==
  ASSUME AccountsTypeOK, [AccountsNext]_accountVars
  PROVE  /\ time \in Nat /\ time' \in Nat /\ time <= time'
         /\ \/ UNCHANGED <<out, jti>>
            \/ \E r \in Requests, t \in TokenIds : Logout(r, t)
<1>1. time \in Nat
  BY BoundsAssumption DEF AccountsTypeOK
<1>2. ASSUME NEW r \in Requests, Handler(r) PROVE UNCHANGED <<time, out, jti>>
  BY <1>2 DEF Handler, IssueTokens, InviteClientLink, SweepInvites, CreateInvite, ExpireInvite,
              DropGrant, VerifyConsume, RefreshRotate, RefreshRevokeAll, RefreshBackfill,
              LogoutToken, ArchiveTokens, Die
<1>3. CASE Arrival
  <2>1. ASSUME NEW r \in Requests, NEW e \in Emails, LoginWithGoogle(r, e) \/ InviteClient(r, e)
                                                     \/ InviteGuest(r, e) \/ Archive(r, e)
        PROVE  UNCHANGED <<time, out, jti>>
    BY <2>1 DEF LoginWithGoogle, InviteClient, InviteGuest, Archive
  <2>2. ASSUME NEW r \in Requests, NEW l \in LinkIds,
               ResendPendingInvite(r, l) \/ RevokePendingInvite(r, l) \/ VerifyRead(r, l)
        PROVE  UNCHANGED <<time, out, jti>>
    BY <2>2 DEF ResendPendingInvite, RevokePendingInvite, VerifyRead
  <2>3. ASSUME NEW r \in Requests, NEW t \in TokenIds, RefreshRead(r, t)
        PROVE  UNCHANGED <<time, out, jti>>
    BY <2>3 DEF RefreshRead
  <2>4. ASSUME NEW r \in Requests, NEW t \in TokenIds, Logout(r, t) PROVE time' = time
    BY <2>4 DEF Logout
  <2>5. ASSUME NEW e \in Emails, RequestMagicLink(e) \/ RevokeAccess(e) \/ Unarchive(e)
        PROVE  UNCHANGED <<time, out, jti>>
    BY <2>5 DEF RequestMagicLink, RevokeAccess, Unarchive
  <2>6. ASSUME NEW t \in TokenIds, NEW s \in TokenIds, RevokeSession(t, s) \/ RevokeOthers(t, s)
        PROVE  UNCHANGED <<time, out, jti>>
    BY <2>6 DEF RevokeSession, RevokeOthers
  <2>7. \/ UNCHANGED <<time, out, jti>>
        \/ time' = time /\ \E r \in Requests, t \in TokenIds : Logout(r, t)
    BY <1>3, <2>1, <2>2, <2>3, <2>4, <2>5, <2>6 DEF Arrival
  <2> QED
    BY <1>1, <2>7
<1> QED
  BY <1>1, <1>2, <1>3 DEF AccountsNext, Tick, accountVars

\* Numbering, ownership and revocation keys of the sessions.
LEMMA RowsFade ==
  ASSUME AccountsTypeOK, HandlersReady, Fades, time' \in Nat, time <= time'
  PROVE  TokenRows'
<1>1. \A t \in TokenIds : tok[t].born \in Nat /\ t \in Nat
  BY BoundsAssumption DEF AccountsTypeOK, Token, TokenIds
<1>2. time \in Nat /\ nextTok \in Nat
  BY BoundsAssumption DEF AccountsTypeOK
<1>3. ASSUME NEW t \in TokenIds, t >= nextTok PROVE tok'[t] = NoToken
  BY <1>3 DEF HandlersReady, TokenRows, Fades
<1>4. ASSUME NEW t \in TokenIds, t < nextTok
      PROVE  /\ tok'[t].owner \in Emails /\ tok'[t].earned
             /\ tok'[t].root # 0 /\ tok'[t].root < nextTok
             /\ tok'[t].born <= time'
  BY <1>1, <1>2, <1>4 DEF HandlersReady, TokenRows, Fades
<1>5. nextTok' = nextTok
  BY DEF Fades
<1> QED
  BY <1>3, <1>4, <1>5 DEF TokenRows

\* The token rows after issueTokens.
LEMMA RowsIssue ==
  ASSUME AccountsTypeOK, HandlersReady, NEW r \in Requests, IssueTokens(r)
  PROVE  TokenRows'
<1> DEFINE n == nextTok
<1>1. /\ n \in TokenIds /\ tok'[n].owner = req[r].email /\ (req[r].seen => tok'[n].earned)
      /\ tok'[n].root = IF req[r].t = 0 THEN n ELSE tok[req[r].t].root
      /\ tok'[n].born = time /\ time' = time /\ nextTok' = n + 1
      /\ \A s \in TokenIds : s # n => tok'[s] = tok[s]
  BY DEF IssueTokens, AccountsTypeOK
<1>2. /\ req[r].email \in Emails /\ req[r].seen /\ time \in Nat /\ n \in Nat \ {0}
      /\ req[r].t \in Nat /\ req[r].t < n /\ (req[r].t # 0 => req[r].t \in TokenIds)
  <2>1. Ready(req[r], nextTok, nextLink, account) /\ req[r].pc = "issue"
    BY DEF IssueTokens, HandlersReady, SlotsReady
  <2>2. time \in Nat /\ n \in Nat \ {0} /\ req[r].t \in 0..MaxToken
    BY BoundsAssumption DEF AccountsTypeOK, Slot
  <2>3. req[r].email \in Emails /\ req[r].seen /\ req[r].t < n
    BY <2>1 DEF Ready
  <2> QED
    BY <2>2, <2>3, BoundsAssumption DEF TokenIds
<1>3. /\ \A s \in TokenIds : s \in Nat /\ tok[s].root \in Nat
      /\ TokenRows
  BY BoundsAssumption DEF AccountsTypeOK, Token, TokenIds, HandlersReady
<1> HIDE DEF n
<1>4. tok'[n].root # 0 /\ tok'[n].root < n + 1
  <2>1. CASE req[r].t = 0
    BY <1>1, <1>2, <2>1
  <2>2. CASE req[r].t # 0
    BY <1>1, <1>2, <1>3, <2>2 DEF TokenRows, n
  <2> QED
    BY <2>1, <2>2
<1>5. ASSUME NEW s \in TokenIds
      PROVE  /\ s >= n + 1 => tok'[s] = NoToken
             /\ s < n + 1 => /\ tok'[s].owner \in Emails /\ tok'[s].earned
                             /\ tok'[s].root # 0 /\ tok'[s].root < n + 1
                             /\ tok'[s].born <= time
  <2>1. CASE s = n
    BY <1>1, <1>2, <1>4, <2>1
  <2>2. CASE s # n
    <3>1. tok'[s] = tok[s]
      BY <1>1, <2>2
    <3>2. /\ s >= n + 1 => s >= n
          /\ s < n + 1 => s < n
      BY <1>2, <1>3, <2>2
    <3>3. /\ s >= n => tok[s] = NoToken
          /\ s < n => /\ tok[s].owner \in Emails /\ tok[s].earned
                      /\ tok[s].root # 0 /\ tok[s].root < n /\ tok[s].born <= time
      BY <1>3 DEF TokenRows, n
    <3>4. tok[s].root < n => tok[s].root < n + 1
      BY <1>2, <1>3
    <3> QED
      BY <3>1, <3>2, <3>3, <3>4
  <2> QED
    BY <2>1, <2>2
<1> QED
  BY <1>1, <1>5 DEF TokenRows

\* The token rows after the rotation is noted on the old one.
LEMMA RowsBackfill ==
  ASSUME AccountsTypeOK, HandlersReady, NEW r \in Requests, RefreshBackfill(r)
  PROVE  TokenRows'
<1> DEFINE t == req[r].t
<1>1. t \in Issued
  BY HeldIsIssued DEF RefreshBackfill, HandlersReady, SlotsReady, Ready
<1>2. /\ \A s \in TokenIds : /\ tok'[s].owner = tok[s].owner /\ tok'[s].root = tok[s].root
                             /\ tok'[s].born = tok[s].born /\ tok'[s].earned = tok[s].earned
                             /\ s # t => tok'[s] = tok[s]
      /\ UNCHANGED <<time, nextTok>>
  BY DEF RefreshBackfill, AccountsTypeOK, Token
<1>3. tok[t] # NoToken
  BY <1>1 DEF Issued, NoToken
<1> HIDE DEF t
<1> QED
  BY <1>1, <1>2, <1>3 DEF HandlersReady, TokenRows

\* A session that is there keeps its owner, its root and its age.
LEMMA BirthStays ==
  ASSUME AccountsTypeOK, HandlersReady, [AccountsNext]_accountVars
  PROVE  /\ nextTok <= nextTok'
         /\ \A t \in TokenIds : t < nextTok => tok'[t].born = tok[t].born
<1>0. nextTok \in Nat /\ \A t \in TokenIds : t \in Nat
  BY BoundsAssumption DEF AccountsTypeOK, TokenIds
<1>1. CASE Fades
  BY <1>0, <1>1 DEF Fades
<1>2. ASSUME NEW r \in Requests, IssueTokens(r)
      PROVE  nextTok' = nextTok + 1 /\ \A t \in TokenIds : t # nextTok => tok'[t] = tok[t]
  BY <1>2 DEF IssueTokens, AccountsTypeOK
<1>3. ASSUME NEW r \in Requests, RefreshBackfill(r)
      PROVE  nextTok' = nextTok /\ \A t \in TokenIds : tok'[t].born = tok[t].born
  BY <1>3 DEF RefreshBackfill, AccountsTypeOK, Token
<1>4. ASSUME NEW r \in Requests, RefreshRotate(r) PROVE Fades
  <2>1. req[r].t \in Issued
    BY <1>4, HeldIsIssued DEF RefreshRotate, HandlersReady, SlotsReady, Ready
  <2> QED
    BY <1>4, <2>1, FadesSame, FadesOne DEF RefreshRotate
<1>5. ASSUME NEW r \in Requests, Handler(r), ~IssueTokens(r), ~RefreshBackfill(r) PROVE Fades
  BY <1>4, <1>5, HandlerFades
<1>6. CASE Arrival
  BY <1>1, <1>6, ArrivalFades
<1>7. CASE UNCHANGED <<tok, nextTok>>
  BY <1>1, <1>7, FadesSame
<1>8. ASSUME NEW r \in Requests, Handler(r)
      PROVE  /\ nextTok <= nextTok'
             /\ \A t \in TokenIds : t < nextTok => tok'[t].born = tok[t].born
  BY <1>0, <1>1, <1>2, <1>3, <1>5, <1>8
<1> QED
  BY <1>6, <1>7, <1>8 DEF AccountsNext, accountVars, Tick

\* Every step keeps the facts about the token rows.
LEMMA TokenRowsStep ==
  ASSUME AccountsTypeOK, HandlersReady, [AccountsNext]_accountVars
  PROVE  TokenRows'
<1>0. time' \in Nat /\ time <= time'
  BY TimeGoesOn
<1>1. CASE Fades
  BY <1>0, <1>1, RowsFade
<1>2. ASSUME NEW r \in Requests, RefreshRotate(r) PROVE Fades
  <2>1. req[r].t \in Issued
    BY <1>2, HeldIsIssued DEF RefreshRotate, HandlersReady, SlotsReady, Ready
  <2> QED
    BY <1>2, <2>1, FadesSame, FadesOne DEF RefreshRotate
<1>3. ASSUME NEW r \in Requests, Handler(r) PROVE TokenRows'
  BY <1>1, <1>2, <1>3, HandlerFades, RowsIssue, RowsBackfill
<1>4. CASE Arrival
  BY <1>1, <1>4, ArrivalFades
<1>5. CASE UNCHANGED <<tok, nextTok>>
  BY <1>1, <1>5, FadesSame
<1> QED
  BY <1>3, <1>4, <1>5 DEF AccountsNext, accountVars, Tick

\* Every step keeps the facts about the revocations in Redis.
LEMMA LogoutKeysStep ==
  ASSUME AccountsTypeOK, HandlersReady, [AccountsNext]_accountVars
  PROVE  LogoutKeys'
<1>0. /\ nextTok \in Nat /\ nextTok' \in Nat /\ AccessTTL \in Nat /\ KeySlack \in Nat /\ time \in Nat
      /\ \A t \in TokenIds : t \in Nat /\ tok[t].born \in Nat /\ jti[t] \in Nat
      /\ out \subseteq TokenIds
  <2>1. nextTok' \in 1..(MaxToken + 1)
    BY AccountsTypeStep DEF AccountsTypeOK
  <2> QED
    BY <2>1, BoundsAssumption DEF AccountsTypeOK, Token, TokenIds
<1>1. /\ nextTok <= nextTok'
      /\ \A t \in TokenIds : t < nextTok => tok'[t].born = tok[t].born
  BY BirthStays
<1>2. CASE UNCHANGED <<out, jti>>
  BY <1>0, <1>1, <1>2 DEF HandlersReady, LogoutKeys
<1>3. ASSUME NEW r \in Requests, NEW t \in TokenIds, Logout(r, t) PROVE LogoutKeys'
  <2>1. /\ t < nextTok /\ tok[t].born <= time
    BY <1>0, <1>3, CompanyAssumption
       DEF Logout, AccessValid, Issued, HandlersReady, TokenRows, NoToken
  <2>2. /\ out' = out \cup {t} /\ jti'[t] = time + AccessTTL + KeySlack
        /\ \A s \in TokenIds : s # t => jti'[s] = jti[s]
    BY <1>3 DEF Logout, RevokeJti, AccountsTypeOK
  <2>3. jti'[t] >= tok[t].born + AccessTTL
    BY <1>0, <2>1, <2>2
  <2>4. ASSUME NEW s \in out' PROVE s < nextTok' /\ jti'[s] >= tok'[s].born + AccessTTL
    BY <1>0, <1>1, <2>1, <2>2, <2>3 DEF HandlersReady, LogoutKeys
  <2> QED
    BY <2>4 DEF LogoutKeys
<1> QED
  BY <1>2, <1>3, TimeGoesOn

\* The rows of links as a step leaves them when it adds none: used or expired,
\* if anything.
LinksFade ==
    /\ nextLink' = nextLink
    /\ \A l \in LinkIds :
          /\ link'[l].email = link[l].email /\ link'[l].intent = link[l].intent
          /\ link'[l].swept = link[l].swept
          /\ link[l].used => link'[l].used
          /\ link'[l].expires \in {0, link[l].expires}
          /\ link[l] = NoLink => link'[l] = NoLink

\* ... and none signs in.
NoneSignsIn == \A l \in LinkIds : link'[l].minted = link[l].minted

\* No handler comes to hold an older sweep.
NoneSweeps ==
    \A r \in Requests : req'[r].pc = "createInvite" =>
        /\ req[r].pc = "createInvite" /\ req'[r].swept = req[r].swept
        /\ req'[r].email = req[r].email

\* A link is added after the others, for an address.
LinkAdded ==
    \E e \in Emails, intent \in {"login", "project_invite"}, life \in {LinkTTL, InviteTTL},
       swept \in 0..(MaxLink + 1) :
        /\ NewLink(e, intent, life, swept)
        /\ swept = 0 \/ \E r \in Requests : /\ req[r].pc = "createInvite"
                                            /\ req[r].swept = swept /\ req[r].email = e

\* Steps that leave the links alone.
LEMMA LinksSame == ASSUME UNCHANGED <<link, nextLink>> PROVE LinksFade /\ NoneSignsIn
  BY DEF LinksFade, NoneSignsIn

\* A handler holds no link but one that was sent.
LEMMA HeldIsSent ==
  ASSUME AccountsTypeOK, HandlersReady, NEW r \in Requests, req[r].l # 0
  PROVE  req[r].l \in Sent
<1>1. req[r].l \in LinkIds /\ req[r].l < nextLink
  BY BoundsAssumption DEF AccountsTypeOK, HandlersReady, SlotsReady, Ready, Slot, LinkIds
<1> QED
  BY <1>1, CompanyAssumption DEF HandlersReady, LinkRows, Sent

\* What each statement of a handler does to the links.
LEMMA HandlerLinks ==
  ASSUME AccountsTypeOK, HandlersReady, NEW r \in Requests, Handler(r)
  PROVE  /\ LinksFade \/ (LinkAdded /\ NoneClaims)
         /\ LinksFade /\ ~IssueTokens(r) => NoneSignsIn
         /\ ~VerifyConsume(r) => NoneClaims
         /\ ~SweepInvites(r) => NoneSweeps
<1>0. /\ \A l \in LinkIds : link[l] \in Link
      /\ req[r].email \in Emails \/ req[r].pc = "idle"
      /\ \A l \in Sent : l \in LinkIds /\ link[l] # NoLink
      /\ 0 \in 0..(MaxLink + 1) /\ req[r].swept \in 0..(MaxLink + 1)
  BY BoundsAssumption DEF AccountsTypeOK, HandlersReady, SlotsReady, Ready, Sent, NoLink, Slot
<1>1. ASSUME End(r) PROVE NoneClaims /\ NoneSweeps
  <2>1. \A q \in Requests : req'[q] = req[q] \/ req'[q] = Idle
    BY <1>1 DEF End, AccountsTypeOK
  <2> QED
    BY <1>1, <2>1, SlotsEnd DEF NoneSweeps, Idle
<1>2. ASSUME NEW step, Goto(r, step), step # "createInvite" PROVE NoneSweeps
  <2>1. (\A q \in Requests \ {r} : req'[q] = req[q]) /\ req'[r].pc = step
    BY <1>2 DEF Goto, AccountsTypeOK, Slot
  <2> QED
    BY <1>2, <2>1 DEF NoneSweeps
<1>3. CASE IssueTokens(r)
  <2>1. \A q \in Requests \ {r} : req'[q] = req[q]
    BY <1>3 DEF IssueTokens, AccountsTypeOK
  <2>2. req'[r].pc \in {"idle", "backfill"}
    BY <1>3 DEF IssueTokens, AccountsTypeOK, Slot, Idle
  <2>3. NoneClaims /\ NoneSweeps
    BY <2>1, <2>2 DEF NoneClaims, NoneSweeps, Claimed
  <2>4. \A l \in LinkIds : link'[l] = link[l] \/ link'[l] = [link[l] EXCEPT !.minted = @ + 1]
    BY <1>3 DEF IssueTokens
  <2>5. \A l \in LinkIds : link[l] = NoLink => link'[l] = NoLink
    <3>1. req[r].l # 0 => req[r].l \in Sent
      BY HeldIsSent
    <3>2. 0 \notin LinkIds
      BY BoundsAssumption DEF LinkIds
    <3> QED
      BY <1>0, <1>3, <3>1, <3>2 DEF IssueTokens
  <2>6. LinksFade
    BY <1>0, <1>3, <2>4, <2>5 DEF LinksFade, IssueTokens, Link
  <2> QED
    BY <1>3, <2>3, <2>6 DEF VerifyConsume, IssueTokens
<1>4. CASE InviteClientLink(r)
  <2>1. LinkAdded
    BY <1>0, <1>4 DEF InviteClientLink, LinkAdded
  <2>2. ~LinksFade
    BY <1>4, BoundsAssumption DEF InviteClientLink, NewLink, LinksFade, AccountsTypeOK
  <2> QED
    BY <1>1, <1>4, <2>1, <2>2 DEF InviteClientLink
<1>5. CASE CreateInvite(r)
  <2>1. LinkAdded
    BY <1>0, <1>5 DEF CreateInvite, LinkAdded
  <2>2. ~LinksFade
    BY <1>5, BoundsAssumption DEF CreateInvite, NewLink, LinksFade, AccountsTypeOK
  <2> QED
    BY <1>1, <1>5, <2>1, <2>2 DEF CreateInvite
<1>6. CASE SweepInvites(r)
  <2>1. \A l \in LinkIds :
          \/ link'[l] = link[l]
          \/ l \in Sent /\ link'[l] = [link[l] EXCEPT !.expires = 0]
    BY <1>6 DEF SweepInvites, Valid
  <2>2. LinksFade /\ NoneSignsIn
    BY <1>0, <1>6, <2>1 DEF LinksFade, NoneSignsIn, SweepInvites, Link
  <2>3. /\ \A q \in Requests \ {r} : req'[q] = req[q]
        /\ req'[r].pc = "createInvite"
    <3>1. req' = [req EXCEPT ![r].pc = "createInvite", ![r].swept = nextLink]
      BY <1>6 DEF SweepInvites
    <3> QED
      BY <3>1 DEF AccountsTypeOK, Slot
  <2> QED
    BY <1>6, <2>2, <2>3, SlotsMove
<1>7. CASE ExpireInvite(r)
  <2>1. req[r].l \in Sent
    BY <1>7, HeldIsSent DEF ExpireInvite, HandlersReady, SlotsReady, Ready
  <2>2. \A l \in LinkIds :
          \/ link'[l] = link[l]
          \/ l \in Sent /\ link'[l] = [link[l] EXCEPT !.expires = 0]
    BY <1>7, <2>1 DEF ExpireInvite, AccountsTypeOK
  <2>3. LinksFade /\ NoneSignsIn
    BY <1>0, <1>7, <2>2 DEF LinksFade, NoneSignsIn, ExpireInvite, Link
  <2>4. /\ \A q \in Requests \ {r} : req'[q] = req[q]
        /\ req'[r].pc = "dropGrant"
    BY <1>7 DEF ExpireInvite, Goto, AccountsTypeOK, Slot
  <2> QED
    BY <1>2, <1>7, <2>3, <2>4, SlotsMove DEF ExpireInvite
<1>8. CASE VerifyConsume(r)
  <2>1. req[r].l \in Sent
    BY <1>8, HeldIsSent DEF VerifyConsume, HandlersReady, SlotsReady, Ready
  <2>2. \A l \in LinkIds :
          \/ link'[l] = link[l]
          \/ l \in Sent /\ link'[l] = [link[l] EXCEPT !.used = TRUE]
    BY <1>8, <2>1 DEF VerifyConsume, AccountsTypeOK
  <2>3. LinksFade /\ NoneSignsIn
    BY <1>0, <1>8, <2>2 DEF LinksFade, NoneSignsIn, VerifyConsume, Link
  <2> QED
    BY <1>1, <1>2, <1>8, <2>3 DEF VerifyConsume, SweepInvites
<1>9. CASE RefreshRotate(r)
  <2>1. NoneSweeps
    BY <1>2, <1>9 DEF RefreshRotate
  <2>2. /\ \A q \in Requests \ {r} : req'[q] = req[q]
        /\ req'[r].l = req[r].l /\ req[r].l = 0
    BY <1>9 DEF RefreshRotate, Goto, AccountsTypeOK, Slot, HandlersReady, SlotsReady, Ready
  <2>3. NoneClaims
    BY <2>2 DEF NoneClaims, Claimed
  <2> QED
    BY <1>9, <2>1, <2>3, LinksSame DEF RefreshRotate
<1>10. CASE DropGrant(r) \/ RefreshRevokeAll(r) \/ RefreshBackfill(r) \/ LogoutToken(r)
           \/ ArchiveTokens(r) \/ Die(r)
  BY <1>1, <1>10, LinksSame
     DEF DropGrant, RefreshRevokeAll, RefreshBackfill, LogoutToken, ArchiveTokens, Die
<1> QED
  BY <1>3, <1>4, <1>5, <1>6, <1>7, <1>8, <1>9, <1>10 DEF Handler

\* What an arriving request does to them.
LEMMA ArrivalLinks ==
  ASSUME AccountsTypeOK, Arrival
  PROVE  ((LinksFade /\ NoneSignsIn) \/ LinkAdded) /\ NoneSweeps
<1> DEFINE Moved(r) == /\ \A q \in Requests \ {r} : req'[q] = req[q]
                       /\ req'[r].pc # "createInvite"
<1>0. ASSUME NEW r \in Requests, Moved(r) PROVE NoneSweeps
  BY <1>0 DEF NoneSweeps
<1>1. ASSUME NEW r \in Requests, NEW e \in Emails,
             LoginWithGoogle(r, e) \/ InviteClient(r, e) \/ InviteGuest(r, e) \/ Archive(r, e)
      PROVE  LinksFade /\ NoneSignsIn /\ NoneSweeps
  <2>1. Moved(r)
    BY <1>1 DEF LoginWithGoogle, InviteClient, InviteGuest, Archive, Idle, Begin, AccountsTypeOK
  <2> QED
    BY <1>0, <1>1, <2>1, LinksSame DEF LoginWithGoogle, InviteClient, InviteGuest, Archive
<1>2. ASSUME NEW r \in Requests, NEW l \in LinkIds,
             ResendPendingInvite(r, l) \/ RevokePendingInvite(r, l) \/ VerifyRead(r, l)
      PROVE  LinksFade /\ NoneSignsIn /\ NoneSweeps
  <2>1. Moved(r)
    BY <1>2 DEF ResendPendingInvite, RevokePendingInvite, VerifyRead, Idle, Begin, AccountsTypeOK
  <2> QED
    BY <1>0, <1>2, <2>1, LinksSame DEF ResendPendingInvite, RevokePendingInvite, VerifyRead
<1>3. ASSUME NEW r \in Requests, NEW t \in TokenIds, RefreshRead(r, t) \/ Logout(r, t)
      PROVE  LinksFade /\ NoneSignsIn /\ NoneSweeps
  <2>1. Moved(r)
    BY <1>3 DEF RefreshRead, Logout, Idle, Begin, AccountsTypeOK
  <2> QED
    BY <1>0, <1>3, <2>1, LinksSame DEF RefreshRead, Logout
<1>4. ASSUME NEW e \in Emails, RequestMagicLink(e) PROVE LinkAdded /\ NoneSweeps
  <2>1. 0 \in 0..(MaxLink + 1)
    BY BoundsAssumption
  <2> QED
    BY <1>4, <2>1 DEF RequestMagicLink, LinkAdded, NoneSweeps
<1>5. ASSUME NEW e \in Emails, RevokeAccess(e) PROVE LinksFade /\ NoneSignsIn /\ NoneSweeps
  BY <1>5, LinksSame DEF RevokeAccess, NoneSweeps
<1>6. ASSUME NEW e \in Emails, Unarchive(e) PROVE LinksFade /\ NoneSignsIn /\ NoneSweeps
  <2>1. \A r \in Requests : req'[r] = req[r] \/ req'[r] = [req[r] EXCEPT !.seen = TRUE]
    BY <1>6 DEF Unarchive
  <2>2. \A r \in Requests : /\ req'[r].pc = req[r].pc
                            /\ req'[r].swept = req[r].swept /\ req'[r].email = req[r].email
    BY <2>1, OneField DEF AccountsTypeOK
  <2> QED
    BY <1>6, <2>2, LinksSame DEF Unarchive, NoneSweeps
<1>7. ASSUME NEW t \in TokenIds, NEW s \in TokenIds, RevokeSession(t, s) \/ RevokeOthers(t, s)
      PROVE  LinksFade /\ NoneSignsIn /\ NoneSweeps
  BY <1>7, LinksSame DEF RevokeSession, RevokeOthers, NoneSweeps
<1> QED
  BY <1>1, <1>2, <1>3, <1>4, <1>5, <1>6, <1>7 DEF Arrival

\* The row a new link gets.
LEMMA AddedLink ==
  ASSUME AccountsTypeOK, HandlersReady, LinkAdded
  PROVE  /\ nextLink \in LinkIds /\ nextLink' = nextLink + 1 /\ link[nextLink] = NoLink
         /\ \A l \in LinkIds : l # nextLink => link'[l] = link[l]
         /\ link'[nextLink].email \in Emails /\ ~link'[nextLink].used
         /\ link'[nextLink].minted = 0
         /\ \/ link'[nextLink].swept = 0
            \/ \E r \in Requests : /\ req[r].pc = "createInvite"
                                   /\ req[r].swept = link'[nextLink].swept
                                   /\ req[r].email = link'[nextLink].email
<1>1. PICK e \in Emails, intent \in {"login", "project_invite"}, life \in {LinkTTL, InviteTTL},
           swept \in 0..(MaxLink + 1) :
        /\ NewLink(e, intent, life, swept)
        /\ swept = 0 \/ \E r \in Requests : /\ req[r].pc = "createInvite"
                                            /\ req[r].swept = swept /\ req[r].email = e
  BY DEF LinkAdded
<1>2. /\ nextLink \in LinkIds /\ nextLink' = nextLink + 1
      /\ \A l \in LinkIds : l # nextLink => link'[l] = link[l]
      /\ link'[nextLink].email = e /\ ~link'[nextLink].used
      /\ link'[nextLink].minted = 0 /\ link'[nextLink].swept = swept
  BY <1>1 DEF NewLink, AccountsTypeOK
<1>3. link[nextLink] = NoLink
  BY <1>2, BoundsAssumption DEF HandlersReady, LinkRows, LinkIds
<1> QED
  BY <1>1, <1>2, <1>3

\* Every step keeps the facts about the links.
LEMMA LinkRowsStep ==
  ASSUME AccountsTypeOK, HandlersReady, LinksFade \/ LinkAdded
  PROVE  LinkRows'
<1>0. nextLink \in Nat /\ \A l \in LinkIds : l \in Nat
  BY BoundsAssumption DEF AccountsTypeOK, LinkIds
<1>1. CASE LinksFade
  BY <1>1 DEF LinksFade, HandlersReady, LinkRows
<1>2. CASE LinkAdded
  BY <1>0, <1>2, AddedLink DEF HandlersReady, LinkRows
<1> QED
  BY <1>1, <1>2

\* A link stays void: it is used for good, expired for good.
LEMMA VoidStays ==
  ASSUME AccountsTypeOK, HandlersReady, time \in Nat, time' \in Nat, time <= time', NEW k \in LinkIds,
         LinksFade \/ (LinkAdded /\ k # nextLink), NEW e, Void(k, e)
  PROVE  Void(k, e)'
<1>1. CASE LinksFade
  <2>1. /\ link'[k].email = link[k].email /\ link'[k].intent = link[k].intent
        /\ link[k].used => link'[k].used
        /\ link'[k].expires \in {0, link[k].expires}
    BY <1>1 DEF LinksFade
  <2>2. link[k].expires \in Nat
    BY BoundsAssumption DEF AccountsTypeOK, Link
  <2>3. time # 0
    BY DEF AccountsTypeOK
  <2>4. Valid(k)' => Valid(k)
    BY <2>1, <2>2, <2>3 DEF Valid, Sent
  <2> QED
    BY <2>1, <2>4 DEF Void
<1>2. CASE LinkAdded /\ k # nextLink
  <2>1. link'[k] = link[k]
    BY <1>2, AddedLink
  <2>2. link[k].expires \in Nat
    BY BoundsAssumption DEF AccountsTypeOK, Link
  <2> QED
    BY <2>1, <2>2 DEF Void, Valid, Sent
<1> QED
  BY <1>1, <1>2

\* Sweeping voids every invitation of the address.
LEMMA SweepVoids ==
  ASSUME AccountsTypeOK, NEW r \in Requests, SweepInvites(r), NEW e, e = req[r].email
  PROVE  \A k \in LinkIds : Void(k, e)'
<1>1. ASSUME NEW k \in LinkIds PROVE Void(k, e)'
  <2>1. CASE Valid(k) /\ link[k].intent = "project_invite" /\ link[k].email = e
    <3>1. link'[k].expires = 0 /\ time' = time
      BY <2>1 DEF SweepInvites, AccountsTypeOK, Link
    <3>2. time \in Nat \ {0}
      BY BoundsAssumption DEF AccountsTypeOK
    <3> QED
      BY <3>1, <3>2 DEF Void, Valid
  <2>2. CASE ~(Valid(k) /\ link[k].intent = "project_invite" /\ link[k].email = e)
    <3>1. link'[k] = link[k] /\ time' = time
      BY <2>2 DEF SweepInvites
    <3>2. Valid(k)' <=> Valid(k)
      BY <3>1 DEF Valid, Sent
    <3> QED
      BY <2>2, <3>1, <3>2 DEF Void
  <2> QED
    BY <2>1, <2>2
<1> QED
  BY <1>1

\* Every step keeps swept invitations void.
LEMMA InviteStep ==
  ASSUME AccountsTypeOK, HandlersReady, InviteInv, time \in Nat, time' \in Nat, time <= time',
         LinksFade \/ LinkAdded,
         NoneSweeps \/ \E r \in Requests : SweepInvites(r)
  PROVE  InviteInv'
<1>0. /\ nextLink \in Nat /\ nextLink' \in Nat /\ nextLink <= nextLink'
      /\ \A k \in LinkIds : k \in Nat /\ link[k].swept \in Nat
      /\ \A r \in Requests : req[r].swept \in Nat
  <2>1. nextLink \in Nat /\ nextLink' \in Nat /\ nextLink <= nextLink'
    BY AddedLink, BoundsAssumption DEF AccountsTypeOK, LinksFade
  <2> QED
    BY <2>1, BoundsAssumption DEF AccountsTypeOK, Link, Slot, LinkIds
<1>1. ASSUME NEW k \in LinkIds, k < nextLink, NEW e, Void(k, e) PROVE Void(k, e)'
  <2>1. k # nextLink
    BY <1>0, <1>1
  <2> QED
    BY <1>1, <2>1, VoidStays
<1>2. ASSUME NEW r \in Requests, req'[r].pc = "createInvite"
      PROVE  /\ req'[r].swept <= nextLink'
             /\ \A k \in LinkIds : k < req'[r].swept => Void(k, req[r].email)'
  <2>1. CASE NoneSweeps
    <3>1. /\ req[r].pc = "createInvite" /\ req'[r].swept = req[r].swept
          /\ req'[r].email = req[r].email
      BY <1>2, <2>1 DEF NoneSweeps
    <3>2. /\ req[r].swept <= nextLink
          /\ \A k \in LinkIds : k < req[r].swept => Void(k, req[r].email)
      BY <3>1 DEF InviteInv
    <3>3. ASSUME NEW k \in LinkIds, k < req'[r].swept PROVE Void(k, req[r].email)'
      <4>1. k < nextLink /\ Void(k, req[r].email)
        BY <1>0, <3>1, <3>2, <3>3
      <4>2. PICK e : e = req[r].email
        OBVIOUS
      <4>3. Void(k, e)
        BY <4>1, <4>2
      <4>4. Void(k, e)'
        BY <1>1, <4>1, <4>3
      <4> QED
        BY <3>1, <4>2, <4>4 DEF Void
    <3> QED
      BY <1>0, <3>1, <3>2, <3>3
  <2>2. ASSUME NEW q \in Requests, SweepInvites(q)
        PROVE  /\ req'[r].swept <= nextLink'
               /\ \A k \in LinkIds : k < req'[r].swept => Void(k, req[r].email)'
    <3>1. /\ req' = [req EXCEPT ![q].pc = "createInvite", ![q].swept = nextLink]
          /\ nextLink' = nextLink
      BY <2>2 DEF SweepInvites
    <3>2. CASE r = q
      <4>1. req'[r].swept = nextLink /\ req'[r].email = req[r].email
        BY <3>1, <3>2 DEF AccountsTypeOK, Slot
      <4>2. PICK e : e = req[r].email
        OBVIOUS
      <4>3. \A k \in LinkIds : Void(k, e)'
        BY <2>2, <3>2, <4>2, SweepVoids
      <4> QED
        BY <1>0, <3>1, <4>1, <4>2, <4>3 DEF Void
    <3>3. CASE r # q
      <4>1. req'[r] = req[r]
        BY <3>1, <3>3 DEF AccountsTypeOK
      <4>2. /\ req[r].swept <= nextLink
            /\ \A k \in LinkIds : k < req[r].swept => Void(k, req[r].email)
        BY <1>2, <4>1 DEF InviteInv
      <4>3. ASSUME NEW k \in LinkIds, k < req'[r].swept PROVE Void(k, req[r].email)'
        <5>1. k < nextLink /\ Void(k, req[r].email)
          BY <1>0, <4>1, <4>2, <4>3
        <5>2. PICK e : e = req[r].email
          OBVIOUS
        <5>3. Void(k, e)
          BY <5>1, <5>2
        <5>4. Void(k, e)'
          BY <1>1, <5>1, <5>3
        <5> QED
          BY <4>1, <5>2, <5>4 DEF Void
      <4> QED
        BY <1>0, <4>1, <4>2, <4>3
    <3> QED
      BY <3>2, <3>3
  <2> QED
    BY <2>1, <2>2
<1>3. ASSUME NEW l \in LinkIds
      PROVE  /\ link'[l].swept <= nextLink'
             /\ \A k \in LinkIds : k < link'[l].swept => Void(k, link[l].email)'
  <2>1. ASSUME NEW e, NEW m \in Nat, m <= nextLink, e = link'[l].email, m = link'[l].swept,
               \A k \in LinkIds : k < m => Void(k, e)
        PROVE  /\ link'[l].swept <= nextLink'
               /\ \A k \in LinkIds : k < link'[l].swept => Void(k, link[l].email)'
    <3>1. ASSUME NEW k \in LinkIds, k < m PROVE Void(k, e)'
      <4>1. k < nextLink /\ Void(k, e)
        BY <1>0, <2>1, <3>1
      <4> QED
        BY <1>1, <4>1
    <3> QED
      BY <1>0, <2>1, <3>1 DEF Void
  <2>2. /\ link[l].swept <= nextLink
        /\ \A k \in LinkIds : k < link[l].swept => Void(k, link[l].email)
    BY DEF InviteInv
  <2>3. CASE link'[l].email = link[l].email /\ link'[l].swept = link[l].swept
    BY <1>0, <2>1, <2>2, <2>3
  <2>4. CASE LinkAdded /\ l = nextLink
    <3>1. CASE link'[l].swept = 0
      BY <1>0, <3>1
    <3>2. ASSUME NEW r \in Requests, req[r].pc = "createInvite",
                 req[r].swept = link'[l].swept, req[r].email = link'[l].email
          PROVE  /\ link'[l].swept <= nextLink'
                 /\ \A k \in LinkIds : k < link'[l].swept => Void(k, link[l].email)'
      <4>1. /\ req[r].swept <= nextLink /\ req[r].swept \in Nat
            /\ \A k \in LinkIds : k < req[r].swept => Void(k, req[r].email)
        BY <1>0, <3>2 DEF InviteInv
      <4> QED
        BY <2>1, <3>2, <4>1
    <3> QED
      BY <2>4, <3>1, <3>2, AddedLink
  <2>5. CASE LinkAdded /\ l # nextLink
    BY <2>3, <2>5, AddedLink
  <2>6. CASE LinksFade
    BY <2>3, <2>6 DEF LinksFade
  <2> QED
    BY <2>4, <2>5, <2>6
<1> QED
  BY <1>2, <1>3 DEF InviteInv

\* A step that claims no link and signs nobody in.
LEMMA ClaimsQuiet ==
  ASSUME AccountsTypeOK, HandlersReady, LinkInv, NoneClaims,
         (LinksFade /\ NoneSignsIn) \/ LinkAdded
  PROVE  LinkInv'
<1>0. \A r \in Requests : Claimed(r) =>
         req[r].l \in LinkIds /\ req[r].l \in Nat /\ req[r].l < nextLink
  <2>1. \A r \in Requests : req[r].l \in 0..MaxLink /\ req[r].l < nextLink
    BY DEF AccountsTypeOK, Slot, HandlersReady, SlotsReady, Ready
  <2> QED
    BY <2>1, BoundsAssumption DEF Claimed, LinkIds
<1>1. \A l \in LinkIds : \/ /\ link'[l].minted = link[l].minted
                            /\ link[l].used => link'[l].used
                         \/ l = nextLink /\ link'[l].minted = 0
  <2>1. CASE LinksFade /\ NoneSignsIn
    BY <2>1 DEF LinksFade, NoneSignsIn
  <2>2. CASE LinkAdded
    BY <2>2, AddedLink
  <2> QED
    BY <2>1, <2>2
<1>2. \A l \in LinkIds : link'[l].minted <= 1 /\ (link'[l].minted = 1 => link'[l].used)
  BY <1>1 DEF LinkInv
<1>3. nextLink \in Nat
  BY DEF AccountsTypeOK
<1>4. ASSUME NEW r \in Requests, Claimed(r)'
      PROVE  link'[req'[r].l].used /\ link'[req'[r].l].minted = 0
  <2>1. Claimed(r) /\ req'[r].l = req[r].l
    BY <1>4 DEF NoneClaims
  <2>2. req[r].l \in LinkIds /\ req[r].l # nextLink
    BY <1>0, <1>3, <2>1
  <2> QED
    BY <1>1, <2>1, <2>2 DEF LinkInv
<1>5. ASSUME NEW r \in Requests, NEW q \in Requests, Claimed(r)', Claimed(q)', r # q
      PROVE  req'[r].l # req'[q].l
  BY <1>5 DEF LinkInv, NoneClaims
<1> QED
  BY <1>2, <1>4, <1>5 DEF LinkInv

\* issueTokens signs in with a link that was claimed by this handler alone.
LEMMA ClaimsIssue ==
  ASSUME AccountsTypeOK, HandlersReady, LinkInv, NEW r \in Requests, IssueTokens(r)
  PROVE  LinkInv'
<1>1. /\ \A l \in LinkIds : l # req[r].l => link'[l] = link[l]
      /\ \A l \in LinkIds : link'[l].used <=> link[l].used
      /\ req[r].l \in LinkIds => link'[req[r].l].minted = link[req[r].l].minted + 1
  BY DEF IssueTokens, AccountsTypeOK, Link
<1>2. /\ \A q \in Requests \ {r} : req'[q] = req[q]
      /\ ~Claimed(r)'
  BY DEF IssueTokens, AccountsTypeOK, Slot, Idle, Claimed
<1>3. \A q \in Requests : Claimed(q) => req[q].l \in LinkIds
  BY BoundsAssumption DEF AccountsTypeOK, Slot, Claimed, LinkIds
<1>4. req[r].l \in LinkIds => Claimed(r)
  BY BoundsAssumption DEF IssueTokens, Claimed, LinkIds
<1>5. ASSUME NEW l \in LinkIds
      PROVE  link'[l].minted <= 1 /\ (link'[l].minted = 1 => link'[l].used)
  BY <1>1, <1>4 DEF LinkInv
<1>6. ASSUME NEW q \in Requests, Claimed(q)'
      PROVE  link'[req'[q].l].used /\ link'[req'[q].l].minted = 0
  <2>1. q # r /\ Claimed(q) /\ req'[q].l = req[q].l /\ req[q].l \in LinkIds
    BY <1>2, <1>3, <1>6 DEF Claimed
  <2>2. req[q].l # req[r].l
    BY <1>4, <2>1 DEF LinkInv
  <2> QED
    BY <1>1, <2>1, <2>2 DEF LinkInv
<1>7. ASSUME NEW p \in Requests, NEW q \in Requests, Claimed(p)', Claimed(q)', p # q
      PROVE  req'[p].l # req'[q].l
  BY <1>2, <1>7 DEF LinkInv, Claimed
<1> QED
  BY <1>5, <1>6, <1>7 DEF LinkInv

\* verifyMagicLink claims a link that nobody has claimed.
LEMMA ClaimsConsume ==
  ASSUME AccountsTypeOK, HandlersReady, LinkInv, NEW r \in Requests, VerifyConsume(r)
  PROVE  LinkInv'
<1> DEFINE l == req[r].l
<1>0. l \in LinkIds
  BY HeldIsSent DEF VerifyConsume, HandlersReady, SlotsReady, Ready, Sent
<1>1. CASE End(r)
  <2>1. NoneClaims
    BY <1>1, SlotsEnd
  <2>2. Handler(r) /\ ~IssueTokens(r)
    BY DEF Handler, VerifyConsume, IssueTokens
  <2>3. (LinksFade /\ NoneSignsIn) \/ LinkAdded
    BY <2>2, HandlerLinks
  <2> QED
    BY <2>1, <2>3, ClaimsQuiet
<1>2. CASE ~link[l].used /\ Goto(r, "issue") /\ link' = [link EXCEPT ![l].used = TRUE]
  <2>1. /\ \A q \in Requests \ {r} : req'[q] = req[q]
        /\ req'[r].l = l
    BY <1>2 DEF Goto, AccountsTypeOK, Slot
  <2>2. \A k \in LinkIds : /\ link'[k].minted = link[k].minted
                           /\ link[k].used => link'[k].used
                           /\ k = l => link'[k].used
    BY <1>2 DEF AccountsTypeOK, Link
  <2>3. link[l].minted = 0
    <3>1. link[l].minted \in Nat /\ link[l].minted <= 1 /\ link[l].minted # 1
      BY <1>0, <1>2 DEF AccountsTypeOK, Link, LinkInv
    <3> QED
      BY <3>1
  <2>4. \A q \in Requests : Claimed(q) => req[q].l \in LinkIds /\ req[q].l # l
    <3>1. \A q \in Requests : Claimed(q) => req[q].l \in LinkIds
      BY BoundsAssumption DEF AccountsTypeOK, Slot, Claimed, LinkIds
    <3> QED
      BY <1>2, <3>1 DEF LinkInv
  <2> HIDE DEF l
  <2>5. \A q \in Requests \ {r} : Claimed(q)' <=> Claimed(q)
    BY <2>1 DEF Claimed
  <2>6. ASSUME NEW q \in Requests, Claimed(q)'
        PROVE  link'[req'[q].l].used /\ link'[req'[q].l].minted = 0
    <3>1. CASE q = r
      BY <1>0, <2>1, <2>2, <2>3, <3>1
    <3>2. CASE q # r
      BY <2>1, <2>2, <2>4, <2>5, <2>6, <3>2 DEF LinkInv
    <3> QED
      BY <3>1, <3>2
  <2>7. ASSUME NEW p \in Requests, NEW q \in Requests, Claimed(p)', Claimed(q)', p # q
        PROVE  req'[p].l # req'[q].l
    <3>1. CASE p = r
      BY <2>1, <2>4, <2>5, <2>7, <3>1
    <3>2. CASE q = r
      BY <2>1, <2>4, <2>5, <2>7, <3>2
    <3>3. CASE p # r /\ q # r
      BY <2>1, <2>5, <2>7, <3>3 DEF LinkInv
    <3> QED
      BY <3>1, <3>2, <3>3
  <2>8. \A k \in LinkIds : link'[k].minted <= 1 /\ (link'[k].minted = 1 => link'[k].used)
    BY <2>2 DEF LinkInv
  <2> QED
    BY <2>6, <2>7, <2>8 DEF LinkInv
<1> QED
  BY <1>1, <1>2 DEF VerifyConsume

\* Every step keeps the invariant.
LEMMA AccountsStep == AccountsIInv /\ [AccountsNext]_accountVars => AccountsIInv'
<1> SUFFICES ASSUME AccountsIInv, [AccountsNext]_accountVars PROVE AccountsIInv'
  OBVIOUS
<1>0. AccountsTypeOK /\ HandlersReady /\ ChainInv /\ LinkInv /\ InviteInv
  BY DEF AccountsIInv
<1>1. AccountsTypeOK'
  BY <1>0, AccountsTypeStep
<1>2. ChainInv' /\ TokenRows' /\ LogoutKeys'
  BY <1>0, ChainStep, TokenRowsStep, LogoutKeysStep
<1>3. time \in Nat /\ time' \in Nat /\ time <= time'
  BY <1>0, TimeGoesOn
<1>4. ASSUME NEW r \in Requests, Handler(r)
      PROVE  SlotsReady' /\ LinkRows' /\ LinkInv' /\ InviteInv'
  <2>1. SlotsReady'
    BY <1>0, <1>1, <1>4, ReadyHandler
  <2>2. LinkRows' /\ InviteInv'
    BY <1>0, <1>3, <1>4, HandlerLinks, LinkRowsStep, InviteStep
  <2>3. LinkInv'
    BY <1>0, <1>4, HandlerLinks, ClaimsQuiet, ClaimsIssue, ClaimsConsume
  <2> QED
    BY <2>1, <2>2, <2>3
<1>5. ASSUME Arrival PROVE SlotsReady' /\ LinkRows' /\ LinkInv' /\ InviteInv'
  <2>1. SlotsReady'
    BY <1>0, <1>1, <1>5, ReadyArrival
  <2>2. LinkRows' /\ InviteInv'
    BY <1>0, <1>3, <1>5, ArrivalLinks, LinkRowsStep, InviteStep
  <2>3. LinkInv'
    BY <1>0, <1>5, ArrivalLinks, ArrivalFades, ClaimsQuiet
  <2> QED
    BY <2>1, <2>2, <2>3
<1>6. ASSUME UNCHANGED <<account, nextTok, nextLink, link, req>>
      PROVE  SlotsReady' /\ LinkRows' /\ LinkInv' /\ InviteInv'
  <2>1. SlotsReady' /\ LinkRows'
    BY <1>0, <1>6 DEF HandlersReady, SlotsReady, LinkRows
  <2>2. NoneSweeps /\ LinksFade /\ NoneSignsIn /\ NoneClaims
    BY <1>6, LinksSame, SlotsSame DEF NoneSweeps
  <2> QED
    BY <1>0, <1>3, <2>1, <2>2, InviteStep, ClaimsQuiet
<1>7. SlotsReady' /\ LinkRows' /\ LinkInv' /\ InviteInv'
  BY <1>4, <1>5, <1>6 DEF AccountsNext, Tick, accountVars
<1> QED
  BY <1>1, <1>2, <1>7 DEF AccountsIInv, HandlersReady

\* The invariant holds before the first call.
LEMMA AccountsStarts == AccountsInit => AccountsIInv
<1> SUFFICES ASSUME AccountsInit PROVE AccountsIInv
  OBVIOUS
<1>1. NoToken \in Token /\ NoLink \in Link
  BY BoundsAssumption DEF NoToken, Token, NoLink, Link
<1>2. AccountsTypeOK
  BY <1>1, BoundsAssumption, IdleTyped DEF AccountsInit, AccountsTypeOK
<1>3. /\ \A t \in TokenIds : tok[t] = NoToken /\ t \in Nat /\ t >= 1
      /\ \A l \in LinkIds : link[l] = NoLink /\ l \in Nat /\ l >= 1
      /\ \A r \in Requests : req[r] = Idle
      /\ nextTok = 1 /\ nextLink = 1 /\ out = {}
  BY DEF AccountsInit, TokenIds, LinkIds
<1>4. HandlersReady
  BY <1>3, ReadyIdle DEF HandlersReady, TokenRows, LinkRows, LogoutKeys, SlotsReady
<1>5. Issued = {} /\ Sent = {}
  BY <1>3 DEF Issued, Sent, NoToken, NoLink
<1>6. ChainInv
  BY <1>3, <1>5 DEF ChainInv, ChainOneLive, RotatedIsRevoked, Rotating, Rotated, Idle
<1>7. LinkInv
  BY <1>3 DEF LinkInv, NoLink, Claimed, Idle
<1>8. InviteInv
  BY <1>3 DEF InviteInv, NoLink, Idle
<1> QED
  BY <1>2, <1>4, <1>6, <1>7, <1>8 DEF AccountsIInv

\* The invariant says all that AccountsSound promises.
LEMMA AccountsPromise == AccountsIInv => AccountsSound
<1> SUFFICES ASSUME AccountsIInv PROVE AccountsSound
  OBVIOUS
<1>0. AccountsTypeOK /\ HandlersReady /\ ChainInv /\ LinkInv /\ InviteInv
  BY DEF AccountsIInv
<1>1. ChainOneLive /\ RotatedIsRevoked
  BY <1>0 DEF ChainInv
<1>2. SessionWasAllowed
  BY <1>0 DEF SessionWasAllowed, HandlersReady, TokenRows, Issued, NoToken, AccountsTypeOK, TokenIds
<1>3. LoggedOutStaysOut
  <2>1. \A t \in out : /\ tok[t].born \in Nat /\ jti[t] \in Nat
                       /\ jti[t] >= tok[t].born + AccessTTL
    BY <1>0, BoundsAssumption DEF AccountsTypeOK, Token, HandlersReady, LogoutKeys
  <2>2. time \in Nat
    BY <1>0, BoundsAssumption DEF AccountsTypeOK
  <2> QED
    BY <2>1, <2>2, BoundsAssumption DEF LoggedOutStaysOut, AccessValid
<1>4. LinkSignsInOnce
  BY <1>0 DEF LinkInv, LinkSignsInOnce
<1>5. InvitesStackOnlyWhenConcurrent
  <2>1. \A l \in LinkIds : l \in Nat /\ link[l].swept \in Nat
    BY <1>0, BoundsAssumption DEF AccountsTypeOK, Link, LinkIds
  <2> QED
    BY <1>0, <2>1 DEF InviteInv, Void, InvitesStackOnlyWhenConcurrent
<1> QED
  BY <1>1, <1>2, <1>3, <1>4, <1>5 DEF AccountsSound

\* The rows of accounts, sessions and links and the handlers' slots stay well
\* typed.
THEOREM AccountsTyped == AccountsSpec => []AccountsTypeOK
<1>1. AccountsIInv => AccountsTypeOK
  BY DEF AccountsIInv
<1> QED
  BY <1>1, AccountsStarts, AccountsStep, PTL DEF AccountsSpec

\* For any number of accounts, sessions, links and overlapping handlers that
\* may die half way: a sign-in has one live session, a session was earned, a
\* logout is final, a link signs in once, and invitations of one address stack
\* only when they were sent concurrently.
THEOREM AccountsAreSound == AccountsSpec => []AccountsSound
  BY AccountsStarts, AccountsStep, AccountsPromise, PTL DEF AccountsSpec

-----------------------------------------------------------------------------
(* Scheduled exports *)

\* The lock's proofs, for the calls the ticks make.
LockProofs == INSTANCE SchedulerLockProofs WITH Calls <- Ticks, NoToken <- NoTick, Ttl <- LockTtl

\* A step of the schedules' lock is a step of withLock, and keeps what is
\* proved of it.
LEMMA LockStep ==
  ASSUME LockProofs!LockIInv, [Lock!LockNext]_lockVars
  PROVE  LockProofs!LockIInv'
<1>1. \A c \in Ticks : /\ Lock!Acquire(c) => LockProofs!Acquire(c)
                       /\ Lock!Busy(c) => LockProofs!Busy(c)
                       /\ Lock!AcquireError(c) => LockProofs!AcquireError(c)
  BY DEF Lock!Acquire, Lock!Busy, Lock!AcquireError, Lock!SetKey, LockProofs!Acquire,
     LockProofs!Busy, LockProofs!AcquireError, LockProofs!SetKey
<1>2. \A c \in Ticks : /\ Lock!BodyEnds(c) => LockProofs!BodyEnds(c)
                       /\ Lock!Release(c) => LockProofs!Release(c)
                       /\ Lock!ReleaseError(c) => LockProofs!ReleaseError(c)
                       /\ Lock!CallDies(c) => LockProofs!CallDies(c)
  BY DEF Lock!BodyEnds, Lock!Release, Lock!ReleaseError, Lock!CallDies, LockProofs!BodyEnds,
     LockProofs!Release, LockProofs!ReleaseError, LockProofs!CallDies
<1>3. Lock!Tick => LockProofs!Tick
  BY DEF Lock!Tick, LockProofs!Tick
<1>4. [LockProofs!LockNext]_(LockProofs!lockVars)
  BY <1>1, <1>2, <1>3 DEF Lock!LockNext, LockProofs!LockNext, lockVars, LockProofs!lockVars
<1>5. LockTtl \in Nat \ {0} /\ NoTick \notin Ticks
  BY RunAssumption DEF LockTtl
<1> QED
  BY <1>4, <1>5, LockProofs!LockKeeps

\* The points of a tick that is running.
Running == {"list", "check", "disable", "create", "stamp", "enqueue"}

\* Where a lastRunAt comes from: a tick's run, or somebody by hand.
Known(a, rs, on) ==
    a # Never => \/ \E u \in Ticks : u \in rs /\ a = MinuteStart(u[2])
                 \/ \E o \in Manual : on[o].time = a

\* A tick runs inside the lock's body and creates its run once; what it goes by
\* has been written by somebody.
TickInv(t) ==
    /\ fire[t].at \in Running => pc[t] = "body" /\ t[2] <= now \div PerMinute
    /\ pc[t] = "new" => fire[t].at = "none" /\ t \notin rows
    /\ fire[t].at \in {"list", "check", "disable", "create"} => t \notin rows
    /\ fire[t].at \in {"stamp", "enqueue"} => t \in rows
    /\ fire[t].at = "disable" => lost
    /\ fire[t].at = "check" => Known(fire[t].seen, rows, once)

\* A run by hand stamps once, and after its row is there.
ManualInv == \A o \in Manual : /\ once[o].at \in {"none", "stamp"} => once[o].time = Never
                               /\ once[o].at \in {"stamp", "enqueue"} => o \in rows

RowInv == /\ Known(sched.last, rows, once)
          /\ ~access => lost

\* Before a tick has outlived the lock, each running one is within its TTL.
BodyInTime == ~overran => \A t \in Ticks : pc[t] = "body" => age[t] < LockTtl

\* No tick has outlived the lock and nobody has stamped by hand.
Clean == ~overran /\ \A o \in Manual : once[o].time = Never

\* The tick's minute is stamped.
Stamped(t) == t \in jobs \/ fire[t].at = "enqueue"

\* Then lastRunAt only grows, is what the running tick has read, and is
\* behind the minute of a tick that has passed the check.
LastRunInv ==
    /\ sched.last <= MinuteStart(now \div PerMinute)
    /\ \A t \in Ticks : /\ fire[t].at \in Running => sched.last <= MinuteStart(t[2])
                        /\ fire[t].at = "check" => fire[t].seen = sched.last
                        /\ fire[t].at \in {"disable", "create", "stamp"} => sched.last < MinuteStart(t[2])
                        /\ Stamped(t) => MinuteStart(t[2]) <= sched.last
    /\ \A t, u \in Ticks : Stamped(t) /\ Stamped(u) /\ t[2] = u[2] => t = u

ScheduleIInv == /\ TypeOK /\ LockProofs!LockIInv
                /\ \A t \in Ticks : TickInv(t)
                /\ ManualInv /\ RowInv /\ BodyInTime
                /\ SkipJustified /\ BlipKeepsSchedule
                /\ Clean => LastRunInv

FireRec == [at : FirePoint, seen : {Never} \cup Times]
OnceRec == [at : OncePoint, time : {Never} \cup Times]
SchedRec == [exists : BOOLEAN, enabled : BOOLEAN, auto : BOOLEAN, last : {Never} \cup Times]

\* The steps of one tick.
TickStep(t) == \/ TickStart(t) \/ TickBusy(t) \/ TickError(t) \/ TickRelease(t)
               \/ List(t) \/ Check(t) \/ Disable(t) \/ CreateRun(t) \/ Stamp(t)
               \/ Enqueue(t) \/ FireFault(t) \/ TickCrash(t)

\* The minutes and the moments are numbers, a minute being two steps.
LEMMA Moments ==
  /\ Times \subseteq Nat /\ Never = -2 /\ Never \notin Times
  /\ \A t \in Ticks : /\ t[2] \in Nat /\ MinuteStart(t[2]) = 2 * t[2]
                      /\ MinuteStart(t[2]) \in Times
  /\ \A n \in Nat : MinuteStart(n \div PerMinute) <= n /\ n \div PerMinute \in Nat
                    /\ n \div PerMinute <= (n + 1) \div PerMinute
                    /\ MinuteStart(n \div PerMinute) = 2 * (n \div PerMinute)
  BY BoundAssumption DEF Times, Never, PerMinute, MinuteStart, Ticks

\* A tick may be put to any of its points.
LEMMA FireRecs == \A p \in FirePoint : [at |-> p, seen |-> Never] \in FireRec
  BY DEF FireRec

\* A tick leaves the clock, the rights and the other ticks alone.
LEMMA TickLeaves ==
  ASSUME TypeOK, LockProofs!LockIInv, NEW t \in Ticks, TickStep(t)
  PROVE  /\ now' = now /\ access' = access /\ edits' = edits /\ once' = once
         /\ lost' = lost /\ overran' = overran
         /\ fire' \in [Ticks -> FireRec] /\ fire' = [fire EXCEPT ![t] = fire'[t]]
         /\ pc' = [pc EXCEPT ![t] = pc'[t]]
         /\ \A u \in Ticks : u # t => fire'[u] = fire[u] /\ pc'[u] = pc[u] /\ age'[u] = age[u]
<1>1. fire \in [Ticks -> FireRec] /\ pc \in [Ticks -> Lock!CallState] /\ age \in [Ticks -> 0..LockTtl]
  BY DEF TypeOK, FireRec, Lock!LockTypeOK
<1>2. sched.last \in {Never} \cup Times
  BY DEF TypeOK
<1> USE <1>1, FireRecs
<1>3. CASE TickStart(t) \/ TickBusy(t) \/ TickError(t) \/ TickRelease(t)
  BY <1>3 DEF TickStart, TickBusy, TickError, TickRelease, FireAt, FirePoint, Lock!Acquire, Lock!Busy,
     Lock!AcquireError, Lock!Release, Lock!ReleaseError
<1>4. CASE List(t)
  BY <1>2, <1>4 DEF List, FireEnds, FireAt, FirePoint, FireRec, Lock!BodyEnds, lockVars
<1>5. CASE Check(t) \/ Disable(t) \/ CreateRun(t)
  BY <1>5 DEF Check, Disable, CreateRun, FireEnds, FireAt, FirePoint, Lock!BodyEnds, lockVars
<1>6. CASE Stamp(t) \/ Enqueue(t) \/ FireFault(t) \/ TickCrash(t)
  BY <1>6 DEF Stamp, Enqueue, FireFault, TickCrash, FireEnds, FireAt, FirePoint, Lock!BodyEnds,
     Lock!CallDies, lockVars
<1> QED
  BY <1>3, <1>4, <1>5, <1>6 DEF TickStep

\* Every step of the schedules is a step of the lock or leaves it alone.
LEMMA LockMoves ==
  ASSUME [Next]_vars
  PROVE  [Lock!LockNext]_lockVars
<1>1. ASSUME NEW t \in Ticks, TickStep(t) PROVE [Lock!LockNext]_lockVars
  <2>1. CASE TickStart(t) \/ TickBusy(t) \/ TickError(t) \/ TickRelease(t) \/ TickCrash(t)
    BY <2>1 DEF TickStart, TickBusy, TickError, TickRelease, TickCrash, Lock!LockNext
  <2>2. CASE List(t) \/ Check(t) \/ CreateRun(t) \/ Stamp(t)
    BY <2>2 DEF List, Check, CreateRun, Stamp, FireEnds, Lock!LockNext
  <2>3. CASE Disable(t) \/ Enqueue(t) \/ FireFault(t)
    BY <2>3 DEF Disable, Enqueue, FireFault, FireEnds, Lock!LockNext
  <2> QED
    BY <1>1, <2>1, <2>2, <2>3 DEF TickStep
<1>2. CASE Clock
  BY <1>2 DEF Clock, Lock!LockNext
<1>3. CASE SetEnabled \/ DeleteSchedule \/ ChangeAccess
  BY <1>3 DEF SetEnabled, DeleteSchedule, ChangeAccess
<1>4. ASSUME NEW o \in Manual, OnceCreate(o) \/ OnceStamp(o) \/ OnceEnqueue(o)
      PROVE  [Lock!LockNext]_lockVars
  BY <1>4 DEF OnceCreate, OnceStamp, OnceEnqueue
<1>5. CASE UNCHANGED vars
  BY <1>5 DEF vars, lockVars
<1> QED
  BY <1>1, <1>2, <1>3, <1>4, <1>5 DEF Next, TickStep

\* What the rows, the queue and the schedule become in a tick's step.
LEMMA TickWrites ==
  ASSUME TypeOK, NEW t \in Ticks, TickInv(t), TickStep(t)
  PROVE  /\ sched' \in SchedRec
         /\ rows' = rows \/ (fire[t].at = "create" /\ fire'[t].at = "stamp" /\ rows' = rows \cup {t})
         /\ jobs' = jobs \/ (fire[t].at = "enqueue" /\ fire'[t].at = "none" /\ jobs' = jobs \cup {t})
         /\ \/ sched'.last = sched.last /\ (sched'.auto => sched.auto \/ fire[t].at = "disable")
            \/ /\ fire[t].at = "stamp" /\ fire'[t].at = "enqueue"
               /\ sched'.last = MinuteStart(t[2]) /\ sched'.auto = sched.auto
         /\ faults' \in 0..MaxFaults /\ crashes' \in 0..MaxCrashes
<1>1. /\ sched \in SchedRec /\ fire \in [Ticks -> FireRec]
      /\ faults \in 0..MaxFaults /\ crashes \in 0..MaxCrashes
  BY DEF TypeOK, SchedRec, FireRec
<1>2. MinuteStart(t[2]) \in Times
  BY Moments
<1> USE <1>1, BoundAssumption
<1>3. CASE TickStart(t) \/ TickBusy(t) \/ TickError(t) \/ TickRelease(t) \/ TickCrash(t)
  BY <1>3 DEF TickStart, TickBusy, TickError, TickRelease, TickCrash
<1>4. CASE List(t) \/ Check(t) \/ FireFault(t)
  BY <1>4 DEF List, Check, FireFault
<1>5. CASE Disable(t)
  BY <1>5 DEF Disable, SchedRec
<1>6. CASE CreateRun(t)
  BY <1>6 DEF CreateRun, FireAt
<1>7. CASE Stamp(t)
  <2>1. CASE sched.exists
    BY <1>2, <1>7, <2>1 DEF Stamp, FireAt, SchedRec
  <2>2. CASE ~sched.exists
    BY <1>7, <2>2 DEF Stamp
  <2> QED
    BY <2>1, <2>2
<1>8. CASE Enqueue(t)
  BY <1>8 DEF Enqueue, FireEnds, FireAt
<1> QED
  BY <1>3, <1>4, <1>5, <1>6, <1>7, <1>8 DEF TickStep

\* Where a tick goes from where it is.
LEMMA TickGoes ==
  ASSUME TypeOK, NEW t \in Ticks, TickInv(t), TickStep(t)
  PROVE  \/ /\ pc[t] = "new" /\ pc'[t] = "body" /\ fire'[t].at = "list"
            /\ now \div PerMinute = t[2] /\ rows' = rows /\ age'[t] = 0
         \/ pc[t] = "new" /\ pc'[t] \notin {"new", "body"} /\ fire'[t] = fire[t] /\ rows' = rows
         \/ /\ fire[t].at \in Running /\ pc[t] = "body" /\ pc'[t] = "body" /\ age'[t] = age[t]
            /\ \/ /\ fire[t].at = "list" /\ fire'[t].at = "check"
                  /\ fire'[t].seen = sched.last /\ sched'.last = sched.last /\ rows' = rows
               \/ /\ fire[t].at = "check" /\ fire'[t].at \in {"create", "disable"} /\ rows' = rows
                  /\ ~Near(fire[t].seen, t[2]) /\ (fire'[t].at = "disable" => ~access)
                  /\ sched'.last = sched.last
               \/ fire[t].at = "create" /\ fire'[t].at = "stamp" /\ t \in rows'
               \/ fire[t].at = "stamp" /\ fire'[t].at = "enqueue"
                  /\ rows' = rows /\ sched'.last = MinuteStart(t[2])
         \/ pc'[t] \notin {"new", "body"} /\ rows' = rows
            /\ \/ fire'[t].at = "none"
               \/ fire'[t].at = "skipped" /\ fire[t].at = "check" /\ Near(fire[t].seen, t[2])
               \/ fire'[t] = fire[t] /\ fire[t].at \notin Running
<1>1. /\ sched \in SchedRec /\ fire \in [Ticks -> FireRec]
      /\ pc \in [Ticks -> Lock!CallState] /\ age \in [Ticks -> 0..LockTtl]
  BY DEF TypeOK, SchedRec, FireRec, Lock!LockTypeOK
<1> USE <1>1
<1>2. CASE TickStart(t)
  BY <1>2 DEF TickStart, Lock!Acquire, FireAt
<1>3. CASE TickBusy(t) \/ TickError(t)
  BY <1>3 DEF TickBusy, TickError, Lock!Busy, Lock!AcquireError
<1>4. CASE TickRelease(t)
  <2>1. pc[t] = "release" /\ pc'[t] = "done" /\ fire' = fire /\ rows' = rows
    BY <1>4 DEF TickRelease, Lock!Release, Lock!ReleaseError
  <2> QED
    BY <2>1 DEF TickInv
<1>5. CASE TickCrash(t)
  BY <1>5 DEF TickCrash, Lock!CallDies, FireAt
<1>6. CASE List(t)
  <2>1. fire[t].at = "list" /\ pc[t] = "body" /\ rows' = rows /\ sched' = sched
    BY <1>6 DEF List, TickInv, Running
  <2>2. CASE sched.exists /\ sched.enabled /\ t[2] \in Due
    BY <1>6, <2>1, <2>2 DEF List, lockVars, Running
  <2>3. CASE ~(sched.exists /\ sched.enabled /\ t[2] \in Due)
    BY <1>6, <2>1, <2>3 DEF List, FireEnds, FireAt, Lock!BodyEnds
  <2> QED
    BY <2>2, <2>3
<1>7. CASE Check(t)
  <2>1. fire[t].at = "check" /\ pc[t] = "body" /\ rows' = rows /\ sched' = sched
    BY <1>7 DEF Check, TickInv, Running
  <2>2. CASE Near(fire[t].seen, t[2])
    BY <1>7, <2>1, <2>2 DEF Check, FireEnds, FireAt, Lock!BodyEnds
  <2>3. CASE ~Near(fire[t].seen, t[2])
    BY <1>7, <2>1, <2>3 DEF Check, FireAt, lockVars, Running
  <2> QED
    BY <2>2, <2>3
<1>8. CASE CreateRun(t)
  <2>1. fire[t].at = "create" /\ pc[t] = "body"
    BY <1>8 DEF CreateRun, TickInv, Running
  <2>2. CASE sched.exists
    BY <1>8, <2>1, <2>2 DEF CreateRun, FireAt, lockVars, Running
  <2>3. CASE ~sched.exists
    BY <1>8, <2>1, <2>3 DEF CreateRun, FireEnds, FireAt, Lock!BodyEnds
  <2> QED
    BY <2>2, <2>3
<1>9. CASE Stamp(t)
  <2>1. fire[t].at = "stamp" /\ pc[t] = "body" /\ rows' = rows
    BY <1>9 DEF Stamp, TickInv, Running
  <2>2. CASE sched.exists
    <3>1. fire'[t].at = "enqueue" /\ pc' = pc /\ age' = age
      BY <1>9, <2>2 DEF Stamp, FireAt, lockVars
    <3>2. sched'.last = MinuteStart(t[2])
      BY <1>9, <2>2 DEF Stamp, SchedRec
    <3> QED
      BY <2>1, <3>1, <3>2 DEF Running
  <2>3. CASE ~sched.exists
    BY <1>9, <2>1, <2>3 DEF Stamp, FireEnds, FireAt, Lock!BodyEnds
  <2> QED
    BY <2>2, <2>3
<1>10. CASE Disable(t) \/ Enqueue(t) \/ FireFault(t)
  BY <1>10 DEF Disable, Enqueue, FireFault, FireEnds, FireAt, Lock!BodyEnds
<1> QED
  BY <1>2, <1>3, <1>4, <1>5, <1>6, <1>7, <1>8, <1>9, <1>10 DEF TickStep

\* The types; the jobs are of runs that have a row.
LEMMA ScheduleTypes ==
  ASSUME TypeOK, LockProofs!LockIInv, \A t \in Ticks : TickInv(t), ManualInv, [Next]_vars
  PROVE  TypeOK'
<1>0. Lock!LockTypeOK'
  BY LockMoves, LockStep DEF LockProofs!LockIInv, LockProofs!LockTypeOK, Lock!LockTypeOK,
     LockProofs!CallState, Lock!CallState
<1>1. /\ now \in Times /\ sched \in SchedRec /\ access \in BOOLEAN /\ edits \in 0..MaxEdits
      /\ fire \in [Ticks -> FireRec] /\ once \in [Manual -> OnceRec]
      /\ rows \subseteq Runs /\ jobs \subseteq rows /\ overran \in BOOLEAN /\ lost \in BOOLEAN
      /\ faults \in 0..MaxFaults /\ crashes \in 0..MaxCrashes
  BY DEF TypeOK, SchedRec, FireRec, OnceRec
<1> USE <1>0, <1>1
<1>2. ASSUME NEW t \in Ticks, TickStep(t) PROVE TypeOK'
  <2>1. sched' \in SchedRec /\ fire' \in [Ticks -> FireRec]
        /\ faults' \in 0..MaxFaults /\ crashes' \in 0..MaxCrashes
    BY <1>2, TickLeaves, TickWrites
  <2>2. rows' \subseteq Runs /\ jobs' \subseteq rows'
    BY <1>2, TickWrites DEF Runs, TickInv
  <2> QED
    BY <1>2, <2>1, <2>2, TickLeaves DEF TypeOK, SchedRec, FireRec, OnceRec
<1>3. CASE Clock
  BY <1>3 DEF Clock, TypeOK, SchedRec, FireRec, OnceRec
<1>4. CASE SetEnabled \/ DeleteSchedule \/ ChangeAccess
  <2>1. edits' \in 0..MaxEdits
    <3>1. Edit
      BY <1>4 DEF SetEnabled, DeleteSchedule, ChangeAccess
    <3> QED
      BY <3>1, BoundAssumption DEF Edit
  <2>2. sched' \in SchedRec /\ access' \in BOOLEAN /\ lost' \in BOOLEAN
    BY <1>4 DEF SetEnabled, DeleteSchedule, ChangeAccess, SchedRec
  <2> QED
    BY <1>4, <2>1, <2>2 DEF SetEnabled, DeleteSchedule, ChangeAccess, TypeOK, SchedRec, FireRec, OnceRec
<1>5. ASSUME NEW o \in Manual, OnceCreate(o) \/ OnceStamp(o) \/ OnceEnqueue(o) PROVE TypeOK'
  <2>1. \A p \in OncePoint : [once[o] EXCEPT !.at = p] \in OnceRec
    BY DEF OnceRec
  <2>2. [at |-> "enqueue", time |-> now] \in OnceRec
    BY DEF OnceRec, OncePoint
  <2>3. once' \in [Manual -> OnceRec]
    <3>1. CASE OnceCreate(o)
      BY <2>1, <3>1 DEF OnceCreate, OncePoint
    <3>2. CASE OnceStamp(o)
      BY <2>1, <2>2, <3>2 DEF OnceStamp, OncePoint
    <3>3. CASE OnceEnqueue(o)
      BY <2>1, <3>3 DEF OnceEnqueue, OncePoint
    <3> QED
      BY <1>5, <3>1, <3>2, <3>3
  <2>4. sched' \in SchedRec
    BY <1>5 DEF OnceCreate, OnceStamp, OnceEnqueue, SchedRec
  <2>5. rows' \subseteq Runs /\ jobs' \subseteq rows'
    BY <1>5 DEF OnceCreate, OnceStamp, OnceEnqueue, Runs, ManualInv
  <2> QED
    BY <1>5, <2>3, <2>4, <2>5 DEF OnceCreate, OnceStamp, OnceEnqueue, TypeOK, SchedRec, FireRec, OnceRec
<1>6. CASE UNCHANGED vars
  BY <1>6 DEF vars, TypeOK, SchedRec, FireRec, OnceRec
<1> QED
  BY <1>2, <1>3, <1>4, <1>5, <1>6 DEF Next, TickStep

\* What is known of a lastRunAt stays known.
LEMMA KnownStays ==
  ASSUME NEW a, Known(a, rows, once), rows \subseteq rows',
         \A o \in Manual : once[o].time # Never => once'[o].time = once[o].time
  PROVE  Known(a, rows', once')
  BY DEF Known

\* No step of the system forgets a run or the time of a run by hand.
LEMMA RunsStay ==
  ASSUME TypeOK, LockProofs!LockIInv, \A t \in Ticks : TickInv(t), ManualInv, [Next]_vars
  PROVE  /\ rows \subseteq rows'
         /\ \A o \in Manual : once[o].time # Never => once'[o].time = once[o].time
<1>0. once \in [Manual -> OnceRec]
  BY DEF TypeOK, OnceRec
<1>1. ASSUME NEW t \in Ticks, TickStep(t) PROVE rows \subseteq rows' /\ once' = once
  BY <1>1, TickLeaves, TickWrites
<1>2. CASE Clock \/ SetEnabled \/ DeleteSchedule \/ ChangeAccess \/ UNCHANGED vars
  BY <1>2 DEF Clock, SetEnabled, DeleteSchedule, ChangeAccess, vars
<1>3. ASSUME NEW o \in Manual, OnceCreate(o) \/ OnceStamp(o) \/ OnceEnqueue(o)
      PROVE  /\ rows \subseteq rows'
             /\ \A p \in Manual : once[p].time # Never => once'[p].time = once[p].time
  BY <1>0, <1>3 DEF OnceCreate, OnceStamp, OnceEnqueue, OnceRec, ManualInv
<1> QED
  BY <1>1, <1>2, <1>3 DEF Next, TickStep

\* The runs by hand.
LEMMA ManualStep ==
  ASSUME TypeOK, LockProofs!LockIInv, \A t \in Ticks : TickInv(t), ManualInv, [Next]_vars
  PROVE  ManualInv'
<1>0. once \in [Manual -> OnceRec] /\ rows \subseteq rows'
  BY RunsStay DEF TypeOK, OnceRec
<1>1. CASE once' = once
  BY <1>0, <1>1 DEF ManualInv
<1>2. ASSUME NEW o \in Manual, OnceCreate(o) \/ OnceStamp(o) \/ OnceEnqueue(o) PROVE ManualInv'
  <2>1. CASE OnceCreate(o)
    BY <1>0, <2>1 DEF OnceCreate, OnceRec, ManualInv
  <2>2. CASE OnceStamp(o)
    BY <1>0, <2>2 DEF OnceStamp, OnceRec, ManualInv
  <2>3. CASE OnceEnqueue(o)
    BY <1>0, <2>3 DEF OnceEnqueue, OnceRec, ManualInv
  <2> QED
    BY <1>2, <2>1, <2>2, <2>3
<1>3. ASSUME NEW t \in Ticks, TickStep(t) PROVE once' = once
  BY <1>3, TickLeaves
<1>4. CASE Clock \/ SetEnabled \/ DeleteSchedule \/ ChangeAccess \/ UNCHANGED vars
  BY <1>1, <1>4 DEF Clock, SetEnabled, DeleteSchedule, ChangeAccess, vars
<1> QED
  BY <1>1, <1>2, <1>3, <1>4 DEF Next, TickStep

\* The schedule's row: its lastRunAt has an author, and it is disabled for a
\* reason.
LEMMA RowStep ==
  ASSUME TypeOK, LockProofs!LockIInv, \A t \in Ticks : TickInv(t), ManualInv, RowInv,
         BlipKeepsSchedule, [Next]_vars
  PROVE  RowInv' /\ BlipKeepsSchedule'
<1>0. sched \in SchedRec /\ once \in [Manual -> OnceRec]
  BY DEF TypeOK, OnceRec, SchedRec
<1>1. Known(sched.last, rows', once')
  BY RunsStay, KnownStays DEF RowInv
<1>2. ASSUME NEW t \in Ticks, TickStep(t) PROVE RowInv' /\ BlipKeepsSchedule'
  <2>1. Known(sched'.last, rows', once')
    <3>1. CASE sched'.last = sched.last
      BY <1>1, <3>1
    <3>2. CASE fire[t].at = "stamp" /\ sched'.last = MinuteStart(t[2])
      BY <3>2, RunsStay DEF TickInv, Known
    <3> QED
      BY <1>2, <3>1, <3>2, TickWrites
  <2>2. access' = access /\ lost' = lost
    BY <1>2, TickLeaves
  <2>3. sched'.auto => sched.auto \/ fire[t].at = "disable"
    BY <1>2, TickWrites
  <2> QED
    BY <2>1, <2>2, <2>3 DEF RowInv, BlipKeepsSchedule, TickInv
<1>3. CASE Clock \/ UNCHANGED vars
  BY <1>1, <1>3 DEF Clock, vars, RowInv, BlipKeepsSchedule
<1>4. CASE SetEnabled \/ DeleteSchedule
  BY <1>0, <1>1, <1>4 DEF SetEnabled, DeleteSchedule, RowInv, BlipKeepsSchedule, SchedRec
<1>5. CASE ChangeAccess
  BY <1>1, <1>5 DEF ChangeAccess, RowInv, BlipKeepsSchedule
<1>6. ASSUME NEW o \in Manual, OnceCreate(o) \/ OnceStamp(o) \/ OnceEnqueue(o)
      PROVE  RowInv' /\ BlipKeepsSchedule'
  <2>1. CASE sched' = sched
    BY <1>1, <1>6, <2>1 DEF OnceCreate, OnceStamp, OnceEnqueue, RowInv, BlipKeepsSchedule
  <2>2. CASE OnceStamp(o) /\ sched' # sched
    <3>1. /\ once'[o].time = now /\ sched'.last = now /\ sched'.auto = sched.auto
          /\ access' = access /\ lost' = lost
      BY <1>0, <2>2 DEF OnceStamp, SchedRec
    <3> QED
      BY <3>1 DEF RowInv, BlipKeepsSchedule, Known
  <2> QED
    BY <1>6, <2>1, <2>2 DEF OnceCreate, OnceEnqueue
<1> QED
  BY <1>2, <1>3, <1>4, <1>5, <1>6 DEF Next, TickStep

\* A tick that stands still keeps what is said of it, whatever the others do.
LEMMA TickRests ==
  ASSUME TypeOK, LockProofs!LockIInv, \A t \in Ticks : TickInv(t), ManualInv, RowInv, [Next]_vars,
         NEW u \in Ticks, fire'[u] = fire[u], pc'[u] = pc[u], u \in rows' <=> u \in rows,
         now \div PerMinute <= now' \div PerMinute, lost => lost'
  PROVE  TickInv(u)'
<1>1. /\ u[2] \in Nat /\ now \in Nat /\ now \div PerMinute \in Nat /\ now' \in Nat
      /\ now' \div PerMinute \in Nat
  BY Moments, ScheduleTypes DEF TypeOK
<1>2. fire[u].at = "check" => Known(fire[u].seen, rows', once')
  BY RunsStay, KnownStays DEF TickInv
<1>3. u[2] <= now \div PerMinute => u[2] <= now' \div PerMinute
  BY <1>1
<1> QED
  BY <1>2, <1>3 DEF TickInv

\* Every step keeps what is said of every tick.
LEMMA TicksStep ==
  ASSUME TypeOK, LockProofs!LockIInv, \A t \in Ticks : TickInv(t), ManualInv, RowInv, [Next]_vars
  PROVE  \A u \in Ticks : TickInv(u)'
<1>0. \A t \in Ticks : t[2] \in Nat /\ t \notin Manual
  BY Moments, RunAssumption
<1>1. now \in Nat /\ now \div PerMinute <= now \div PerMinute
      /\ now \div PerMinute <= (now + 1) \div PerMinute
  BY Moments DEF TypeOK
<1>2. ASSUME NEW t \in Ticks, TickStep(t), NEW u \in Ticks PROVE TickInv(u)'
  <2>1. CASE u # t
    <3>1. fire'[u] = fire[u] /\ pc'[u] = pc[u] /\ now' = now /\ lost' = lost
      BY <1>2, <2>1, TickLeaves
    <3>2. u \in rows' <=> u \in rows
      BY <1>2, <2>1, TickWrites
    <3> QED
      BY <1>1, <3>1, <3>2, TickRests
  <2>2. CASE u = t
    <3>1. /\ now' = now /\ lost' = lost /\ access' = access /\ once' = once
          /\ (rows' = rows \/ (fire[t].at = "create" /\ fire'[t].at = "stamp"))
      BY <1>2, TickLeaves, TickWrites
    <3>2. Known(sched.last, rows', once')
      BY RunsStay, KnownStays DEF RowInv
    <3>3. TickInv(t) /\ (~access => lost)
      BY DEF RowInv
    <3>4. CASE /\ pc[t] = "new" /\ pc'[t] = "body" /\ fire'[t].at = "list"
               /\ now \div PerMinute = t[2] /\ rows' = rows
      BY <1>0, <2>2, <3>1, <3>3, <3>4 DEF TickInv, Running
    <3>5. CASE pc[t] = "new" /\ pc'[t] \notin {"new", "body"} /\ fire'[t] = fire[t] /\ rows' = rows
      BY <2>2, <3>1, <3>3, <3>5 DEF TickInv, Running
    <3>6. CASE /\ fire[t].at \in Running /\ pc[t] = "body" /\ pc'[t] = "body"
               /\ \/ /\ fire[t].at = "list" /\ fire'[t].at = "check"
                     /\ fire'[t].seen = sched.last /\ rows' = rows
                  \/ /\ fire[t].at = "check" /\ fire'[t].at \in {"create", "disable"} /\ rows' = rows
                     /\ (fire'[t].at = "disable" => ~access)
                  \/ fire[t].at = "create" /\ fire'[t].at = "stamp" /\ t \in rows'
                  \/ fire[t].at = "stamp" /\ fire'[t].at = "enqueue" /\ rows' = rows
      BY <2>2, <3>1, <3>2, <3>3, <3>6 DEF TickInv, Running
    <3>7. CASE /\ pc'[t] \notin {"new", "body"} /\ rows' = rows
               /\ \/ fire'[t].at \in {"none", "skipped"}
                  \/ fire'[t] = fire[t] /\ fire[t].at \notin Running
      BY <2>2, <3>1, <3>3, <3>7 DEF TickInv, Running
    <3> QED
      BY <1>2, <3>4, <3>5, <3>6, <3>7, TickGoes
  <2> QED
    BY <2>1, <2>2
<1>3. CASE Clock
  <2>1. fire' = fire /\ pc' = pc /\ rows' = rows /\ lost' = lost /\ now' = now + 1
    BY <1>3 DEF Clock, Lock!Tick
  <2> QED
    BY <1>1, <2>1, TickRests
<1>4. CASE SetEnabled \/ DeleteSchedule \/ ChangeAccess \/ UNCHANGED vars
  <2>1. fire' = fire /\ pc' = pc /\ rows' = rows /\ (lost => lost') /\ now' = now
    <3>1. CASE SetEnabled \/ DeleteSchedule
      <4>1. UNCHANGED <<lockVars, fire, rows, lost, now>>
        BY <3>1 DEF SetEnabled, DeleteSchedule
      <4> QED
        BY <4>1 DEF lockVars
    <3>2. CASE ChangeAccess \/ UNCHANGED vars
      BY <3>2 DEF ChangeAccess, vars, lockVars
    <3> QED
      BY <1>4, <3>1, <3>2
  <2> QED
    BY <1>1, <2>1, TickRests
<1>5. ASSUME NEW o \in Manual, OnceCreate(o) \/ OnceStamp(o) \/ OnceEnqueue(o)
      PROVE  \A u \in Ticks : TickInv(u)'
  <2>1. /\ fire' = fire /\ pc' = pc /\ lost' = lost /\ now' = now
        /\ rows' = rows \/ rows' = rows \cup {o}
    BY <1>5 DEF OnceCreate, OnceStamp, OnceEnqueue, lockVars
  <2> QED
    BY <1>0, <1>1, <2>1, TickRests
<1> QED
  BY <1>2, <1>3, <1>4, <1>5 DEF Next, TickStep

\* A tick that skips its minute has read a lastRunAt near the minute's start,
\* and that is another tick's of this minute or somebody's by hand.
LEMMA SkipStep ==
  ASSUME TypeOK, LockProofs!LockIInv, \A t \in Ticks : TickInv(t), ManualInv, SkipJustified, [Next]_vars
  PROVE  SkipJustified'
<1> DEFINE By(t, rs, on) ==
             \/ \E u \in Ticks \ {t} : u[2] = t[2] /\ u \in rs
             \/ \E o \in Manual : /\ on[o].time # Never
                                  /\ on[o].time \in (MinuteStart(t[2]) - PerMinute + 1)
                                                      ..(MinuteStart(t[2]) + PerMinute - 1)
<1>1. ASSUME NEW t \in Ticks, By(t, rows, once) PROVE By(t, rows', once')
  BY <1>1, RunsStay
<1>2. ASSUME NEW t \in Ticks, fire'[t].at = "skipped", fire[t].at = "skipped" PROVE By(t, rows', once')
  BY <1>1, <1>2 DEF SkipJustified
<1>3. ASSUME NEW t \in Ticks, fire[t].at = "check", Near(fire[t].seen, t[2]) PROVE By(t, rows, once)
  <2> DEFINE a == fire[t].seen
  <2>1. /\ a # Never /\ Known(a, rows, once) /\ t \notin rows /\ t[2] \in Nat
        /\ a - MinuteStart(t[2]) < 2 /\ MinuteStart(t[2]) - a < 2 /\ MinuteStart(t[2]) = 2 * t[2]
        /\ a \in {Never} \cup Times
    BY <1>3, Moments DEF Near, TickInv, PerMinute, TypeOK
  <2> HIDE DEF a
  <2>2. a \in Nat
    BY <2>1, Moments
  <2>3. CASE \E u \in Ticks : u \in rows /\ a = MinuteStart(u[2])
    <3>1. PICK u \in Ticks : u \in rows /\ a = MinuteStart(u[2])
      BY <2>3
    <3>2. u[2] \in Nat /\ a = 2 * u[2]
      BY <3>1, Moments
    <3>3. u # t
      BY <2>1, <3>1
    <3>4. PICK m \in Nat, n \in Nat : m = u[2] /\ n = t[2]
      BY <2>1, <3>2
    <3>5. 2 * m - 2 * n < 2 /\ 2 * n - 2 * m < 2
      BY <2>1, <3>2, <3>4
    <3>6. m = n
      BY <3>5
    <3> QED
      BY <3>1, <3>3, <3>4, <3>6
  <2>4. CASE \E o \in Manual : once[o].time = a
    <3>1. PICK o \in Manual : once[o].time = a
      BY <2>4
    <3>2. a \in (MinuteStart(t[2]) - PerMinute + 1)..(MinuteStart(t[2]) + PerMinute - 1)
      <4>1. PICK m \in Nat : m = t[2]
        BY <2>1
      <4>2. a - 2 * m < 2 /\ 2 * m - a < 2
        BY <2>1, <4>1
      <4>3. a \in (2 * m - 2 + 1)..(2 * m + 2 - 1)
        BY <2>2, <4>2
      <4> QED
        BY <2>1, <4>1, <4>3 DEF PerMinute
    <3> QED
      BY <2>1, <3>1, <3>2
  <2> QED
    BY <2>1, <2>3, <2>4 DEF Known
<1>4. ASSUME NEW t \in Ticks, TickStep(t), NEW u \in Ticks, fire'[u].at = "skipped"
      PROVE  By(u, rows', once')
  <2>1. CASE u # t
    BY <1>2, <1>4, <2>1, TickLeaves
  <2>2. CASE u = t /\ fire[t].at = "skipped"
    BY <1>2, <1>4, <2>2
  <2>3. CASE u = t /\ fire[t].at # "skipped"
    <3>1. fire[t].at = "check" /\ Near(fire[t].seen, t[2])
      BY <1>4, <2>3, TickGoes DEF TickInv, Running
    <3> QED
      BY <1>1, <1>3, <2>3, <3>1
  <2> QED
    BY <2>1, <2>2, <2>3
<1>5. CASE Clock \/ SetEnabled \/ DeleteSchedule \/ ChangeAccess \/ UNCHANGED vars
  <2>1. fire' = fire
    BY <1>5 DEF Clock, SetEnabled, DeleteSchedule, ChangeAccess, vars
  <2> QED
    BY <1>2, <2>1 DEF SkipJustified
<1>6. ASSUME NEW o \in Manual, OnceCreate(o) \/ OnceStamp(o) \/ OnceEnqueue(o) PROVE SkipJustified'
  <2>1. fire' = fire
    BY <1>6 DEF OnceCreate, OnceStamp, OnceEnqueue
  <2> QED
    BY <1>2, <2>1 DEF SkipJustified
<1>7. ASSUME NEW t \in Ticks, TickStep(t) PROVE SkipJustified'
  BY <1>4, <1>7 DEF SkipJustified
<1> QED
  BY <1>5, <1>6, <1>7 DEF Next, TickStep

\* The clock notices a tick that outlives the lock.
LEMMA InTimeStep ==
  ASSUME TypeOK, LockProofs!LockIInv, \A t \in Ticks : TickInv(t), ManualInv, BodyInTime, [Next]_vars
  PROVE  BodyInTime' /\ (overran => overran')
<1>0. TypeOK' /\ age \in [Ticks -> 0..LockTtl] /\ age' \in [Ticks -> 0..LockTtl] /\ LockTtl = 3
  BY ScheduleTypes DEF TypeOK, Lock!LockTypeOK, LockTtl
<1>1. ASSUME NEW t \in Ticks, TickStep(t) PROVE BodyInTime' /\ overran' = overran
  <2>1. /\ overran' = overran
        /\ \A u \in Ticks : u # t => pc'[u] = pc[u] /\ age'[u] = age[u]
    BY <1>1, TickLeaves
  <2>2. pc'[t] = "body" => age'[t] = 0 \/ (pc[t] = "body" /\ age'[t] = age[t])
    BY <1>1, TickGoes
  <2> QED
    BY <1>0, <2>1, <2>2 DEF BodyInTime
<1>2. CASE Clock
  <2>1. pc' = pc /\ overran' = (overran \/ \E t \in Ticks : pc[t] = "body" /\ age'[t] = LockTtl)
    BY <1>2 DEF Clock, Lock!Tick
  <2>2. SUFFICES ASSUME ~overran' PROVE ~overran /\ \A t \in Ticks : pc'[t] = "body" => age'[t] < LockTtl
    BY DEF BodyInTime
  <2>3. ~overran /\ \A t \in Ticks : pc[t] = "body" => age'[t] # LockTtl
    BY <2>1, <2>2
  <2> QED
    BY <1>0, <2>1, <2>3
<1>3. CASE SetEnabled \/ DeleteSchedule \/ ChangeAccess \/ UNCHANGED vars
  <2>1. UNCHANGED <<lockVars, overran>>
    BY <1>3 DEF SetEnabled, DeleteSchedule, ChangeAccess, vars, lockVars
  <2> QED
    BY <2>1 DEF BodyInTime, lockVars
<1>4. ASSUME NEW o \in Manual, OnceCreate(o) \/ OnceStamp(o) \/ OnceEnqueue(o)
      PROVE  BodyInTime' /\ overran' = overran
  <2>1. UNCHANGED <<lockVars, overran>>
    BY <1>4 DEF OnceCreate, OnceStamp, OnceEnqueue
  <2> QED
    BY <2>1 DEF BodyInTime, lockVars
<1> QED
  BY <1>1, <1>2, <1>3, <1>4 DEF Next, TickStep

\* Until then the lock lets one tick run at a time.
LEMMA OneRuns ==
  ASSUME LockProofs!LockIInv, \A t \in Ticks : TickInv(t), BodyInTime, ~overran,
         NEW t \in Ticks, NEW u \in Ticks, pc[t] = "body", fire[u].at \in Running
  PROVE  t = u
<1>1. pc[u] = "body"
  BY DEF TickInv
<1>2. LockProofs!InTime(t) /\ LockProofs!InTime(u)
  BY <1>1 DEF BodyInTime, LockProofs!InTime
<1> QED
  BY <1>2 DEF LockProofs!LockIInv, LockProofs!OwnerInv

\* A tick that starts does so with nobody running.
LEMMA StartsAlone ==
  ASSUME TypeOK, LockProofs!LockIInv, \A t \in Ticks : TickInv(t), BodyInTime, ~overran,
         NEW t \in Ticks, TickStep(t), pc[t] = "new", pc'[t] = "body", NEW u \in Ticks
  PROVE  fire[u].at \notin Running
<1>1. lock = NoTick
  <2>1. pc \in [Ticks -> Lock!CallState]
    BY DEF TypeOK, Lock!LockTypeOK
  <2>2. TickStart(t) \/ TickBusy(t) \/ TickError(t)
    <3>1. fire[t].at = "none"
      BY DEF TickInv
    <3>2. ~TickRelease(t) /\ ~TickCrash(t)
      BY DEF TickRelease, TickCrash, Lock!Release, Lock!ReleaseError, Lock!CallDies
    <3>3. ~List(t) /\ ~Check(t) /\ ~Disable(t) /\ ~CreateRun(t) /\ ~Stamp(t) /\ ~Enqueue(t) /\ ~FireFault(t)
      BY <3>1 DEF List, Check, Disable, CreateRun, Stamp, Enqueue, FireFault
    <3> QED
      BY <3>2, <3>3 DEF TickStep
  <2> QED
    BY <2>1, <2>2 DEF TickStart, TickBusy, TickError, Lock!Acquire, Lock!SetKey, Lock!Busy, Lock!AcquireError
<1>2. SUFFICES ASSUME fire[u].at \in Running PROVE FALSE
  OBVIOUS
<1>3. LockProofs!InTime(u)
  BY <1>2 DEF TickInv, BodyInTime, LockProofs!InTime
<1> QED
  BY <1>1, <1>3, RunAssumption DEF LockProofs!LockIInv, LockProofs!OwnerInv

\* lastRunAt under a clock that goes on and ticks that run one by one.
LEMMA LastRunStep ==
  ASSUME ScheduleIInv, [Next]_vars, Clean'
  PROVE  LastRunInv'
<1>1. /\ TypeOK /\ LockProofs!LockIInv /\ \A t \in Ticks : TickInv(t)
      /\ ManualInv /\ BodyInTime /\ TypeOK'
  BY ScheduleTypes DEF ScheduleIInv
<1>2. Clean /\ LastRunInv
  <2>1. ~overran
    BY <1>1, InTimeStep DEF Clean
  <2>2. \A o \in Manual : once[o].time = Never
    BY <1>1, RunsStay DEF Clean
  <2> QED
    BY <2>1, <2>2 DEF Clean, ScheduleIInv
<1>3. /\ now \in Nat /\ sched.last \in Int /\ Never = -2
      /\ \A t \in Ticks : t[2] \in Nat /\ MinuteStart(t[2]) = 2 * t[2]
      /\ \A n \in Nat : MinuteStart(n \div PerMinute) = 2 * (n \div PerMinute) /\ n \div PerMinute \in Nat
                        /\ n \div PerMinute <= (n + 1) \div PerMinute
  <2>1. now \in Times /\ sched.last \in {Never} \cup Times
    BY <1>1 DEF TypeOK
  <2>2. now \in Nat /\ Never = -2 /\ (sched.last = -2 \/ sched.last \in Nat)
    BY <2>1, Moments
  <2>3. sched.last \in Int
    BY <2>2
  <2> QED
    BY <2>2, <2>3, Moments
<1>4. CASE Clock
  <2>1. fire' = fire /\ jobs' = jobs /\ sched' = sched /\ now' = now + 1
    BY <1>4 DEF Clock
  <2>2. sched.last <= MinuteStart(now' \div PerMinute)
    <3>0. /\ now \div PerMinute \in Nat /\ now' \div PerMinute \in Nat
          /\ now \div PerMinute <= now' \div PerMinute
      <4>1. now + 1 \in Nat
        BY <1>3
      <4> QED
        BY <1>3, <2>1, <4>1
    <3>1. PICK m \in Nat, n \in Nat : /\ m = now \div PerMinute /\ n = now' \div PerMinute /\ m <= n
      BY <3>0
    <3>2. MinuteStart(now \div PerMinute) = 2 * m /\ MinuteStart(now' \div PerMinute) = 2 * n
      BY <1>3, <2>1, <3>1
    <3> QED
      BY <1>2, <1>3, <3>1, <3>2 DEF LastRunInv
  <2> QED
    BY <1>2, <2>1, <2>2 DEF LastRunInv, Stamped
<1>5. CASE SetEnabled \/ DeleteSchedule \/ ChangeAccess \/ UNCHANGED vars
  <2>1. fire' = fire /\ jobs' = jobs /\ now' = now /\ sched'.last = sched.last
    <3>1. CASE SetEnabled
      BY <1>1, <3>1 DEF SetEnabled, TypeOK
    <3>2. CASE DeleteSchedule
      BY <1>1, <3>2 DEF DeleteSchedule, TypeOK
    <3>3. CASE ChangeAccess \/ UNCHANGED vars
      BY <3>3 DEF ChangeAccess, vars
    <3> QED
      BY <1>5, <3>1, <3>2, <3>3
  <2> QED
    BY <1>2, <2>1 DEF LastRunInv, Stamped
<1>6. ASSUME NEW o \in Manual, OnceCreate(o) \/ OnceStamp(o) \/ OnceEnqueue(o) PROVE LastRunInv'
  <2>0. once \in [Manual -> OnceRec] /\ now # Never
    BY <1>1, Moments DEF TypeOK, OnceRec
  <2>1. sched' = sched
    BY <1>6, <2>0 DEF OnceCreate, OnceStamp, OnceEnqueue, Clean
  <2>2. fire' = fire /\ now' = now /\ (jobs' = jobs \/ jobs' = jobs \cup {o}) /\ o \notin Ticks
    BY <1>6, RunAssumption DEF OnceCreate, OnceStamp, OnceEnqueue
  <2>3. \A t \in Ticks : Stamped(t)' <=> Stamped(t)
    BY <2>2 DEF Stamped
  <2> QED
    BY <1>2, <2>1, <2>2, <2>3 DEF LastRunInv
<1>7. ASSUME NEW t \in Ticks, TickStep(t) PROVE LastRunInv'
  <2>1. /\ now' = now
        /\ \A u \in Ticks : u # t => fire'[u] = fire[u] /\ (u \in jobs' <=> u \in jobs)
    BY <1>1, <1>7, TickLeaves, TickWrites
  <2>2. /\ TickInv(t) /\ t[2] \in Nat /\ MinuteStart(t[2]) = 2 * t[2]
        /\ (t \in jobs' => Stamped(t))
    BY <1>1, <1>3, <1>7, TickWrites DEF TickInv, Stamped
  <2>3. ASSUME sched'.last = sched.last, Stamped(t)' => Stamped(t),
               fire'[t].at \in Running => sched.last <= MinuteStart(t[2]),
               fire'[t].at = "check" => fire'[t].seen = sched.last,
               fire'[t].at \in {"disable", "create", "stamp"} => sched.last < MinuteStart(t[2])
        PROVE  LastRunInv'
    <3>1. \A u \in Ticks : Stamped(u)' => Stamped(u)
      BY <2>1, <2>3 DEF Stamped
    <3>2. sched'.last <= MinuteStart(now' \div PerMinute)
      BY <1>2, <2>1, <2>3 DEF LastRunInv
    <3>3. ASSUME NEW u \in Ticks
          PROVE  /\ fire'[u].at \in Running => sched'.last <= MinuteStart(u[2])
                 /\ fire'[u].at = "check" => fire'[u].seen = sched'.last
                 /\ fire'[u].at \in {"disable", "create", "stamp"} => sched'.last < MinuteStart(u[2])
                 /\ Stamped(u)' => MinuteStart(u[2]) <= sched'.last
      BY <1>2, <2>1, <2>3, <3>1 DEF LastRunInv
    <3> QED
      BY <1>2, <3>1, <3>2, <3>3 DEF LastRunInv
  <2>4. sched'.last = sched.last \/ (fire[t].at = "stamp" /\ fire'[t].at = "enqueue" /\ sched'.last = MinuteStart(t[2]))
    BY <1>1, <1>7, TickWrites
  <2>5. CASE /\ pc[t] = "new" /\ pc'[t] = "body" /\ fire'[t].at = "list" /\ now \div PerMinute = t[2]
    <3>1. sched'.last = sched.last /\ (Stamped(t)' => Stamped(t))
      BY <2>2, <2>4, <2>5 DEF Stamped
    <3>2. sched.last <= MinuteStart(t[2])
      BY <1>2, <2>5 DEF LastRunInv
    <3> QED
      BY <2>3, <2>5, <3>1, <3>2
  <2>6. CASE pc[t] = "new" /\ fire'[t] = fire[t]
    <3>1. fire'[t].at = "none"
      BY <2>2, <2>6 DEF TickInv
    <3>2. sched'.last = sched.last /\ (Stamped(t)' => Stamped(t))
      BY <2>2, <2>4, <2>6, <3>1 DEF Stamped
    <3> QED
      BY <2>3, <3>1, <3>2 DEF Running
  <2>7. CASE /\ fire'[t].at \notin Running
    <3>1. sched'.last = sched.last /\ (Stamped(t)' => Stamped(t))
      BY <2>2, <2>4, <2>7 DEF Stamped, Running
    <3> QED
      BY <2>3, <2>7, <3>1 DEF Running
  <2>8. CASE /\ fire[t].at = "list" /\ fire'[t].at = "check"
             /\ fire'[t].seen = sched.last
    <3>1. sched'.last = sched.last /\ (Stamped(t)' => Stamped(t))
      BY <2>2, <2>4, <2>8 DEF Stamped
    <3> QED
      BY <1>2, <2>3, <2>8, <3>1 DEF LastRunInv, Running
  <2>9. CASE /\ fire[t].at = "check" /\ fire'[t].at \in {"create", "disable"}
             /\ ~Near(fire[t].seen, t[2])
    <3>1. sched'.last = sched.last /\ (Stamped(t)' => Stamped(t))
      BY <2>2, <2>4, <2>9 DEF Stamped
    <3>2. fire[t].seen = sched.last /\ sched.last <= MinuteStart(t[2])
      BY <1>2, <2>9 DEF LastRunInv, Running
    <3>3. sched.last # MinuteStart(t[2])
      <4> SUFFICES ASSUME sched.last = MinuteStart(t[2]) PROVE Near(fire[t].seen, t[2])
        BY <2>9
      <4>1. PICK m \in Nat : m = t[2]
        BY <1>3
      <4>2. fire[t].seen = 2 * m /\ MinuteStart(t[2]) = 2 * m /\ 2 * m - 2 * m = 0 /\ 2 * m # -2
        BY <1>3, <3>2, <4>1
      <4> QED
        BY <1>3, <4>2 DEF Near, PerMinute
    <3>4. sched.last < MinuteStart(t[2])
      <4>1. MinuteStart(t[2]) \in Int
        BY <1>3
      <4> QED
        BY <1>3, <3>2, <3>3, <4>1
    <3> QED
      BY <2>3, <2>9, <3>1, <3>2, <3>4
  <2>10. CASE fire[t].at = "create" /\ fire'[t].at = "stamp"
    <3>1. sched'.last = sched.last /\ (Stamped(t)' => Stamped(t))
      BY <2>2, <2>4, <2>10 DEF Stamped
    <3> QED
      BY <1>2, <2>3, <2>10, <3>1 DEF LastRunInv, Running
  <2>11. CASE /\ fire[t].at = "stamp" /\ fire'[t].at = "enqueue" /\ sched'.last = MinuteStart(t[2])
    <3>1. \A u \in Ticks : u # t => fire[u].at \notin Running /\ fire'[u].at \notin Running
                                   /\ (Stamped(u)' => Stamped(u))
      <4>1. pc[t] = "body"
        BY <2>2, <2>11 DEF TickInv, Running
      <4>2. \A u \in Ticks : u # t => fire[u].at \notin Running
        BY <1>1, <1>2, <4>1, OneRuns DEF Clean
      <4> QED
        BY <2>1, <4>2 DEF Stamped
    <3>2. sched.last < MinuteStart(t[2]) /\ sched'.last <= MinuteStart(now' \div PerMinute)
      <4>1. sched.last < MinuteStart(t[2]) /\ t[2] <= now \div PerMinute
        BY <1>2, <2>2, <2>11 DEF LastRunInv, Running, TickInv
      <4>2. PICK m \in Nat, n \in Nat : m = t[2] /\ n = now \div PerMinute /\ m <= n
        BY <1>3, <4>1
      <4>3. MinuteStart(t[2]) = 2 * m /\ MinuteStart(now' \div PerMinute) = 2 * n
        BY <1>3, <2>1, <4>2
      <4> QED
        BY <2>11, <4>1, <4>2, <4>3
    <3>3. ASSUME NEW u \in Ticks, u # t, Stamped(u)'
          PROVE  MinuteStart(u[2]) <= sched'.last /\ u[2] # t[2]
      <4>1. MinuteStart(u[2]) <= sched.last
        BY <1>2, <3>1, <3>3 DEF LastRunInv
      <4>2. MinuteStart(u[2]) \in Int /\ MinuteStart(t[2]) \in Int
        BY <1>3
      <4> QED
        BY <1>3, <2>11, <3>2, <4>1, <4>2
    <3>4. ASSUME NEW u \in Ticks
          PROVE  /\ fire'[u].at \in Running => sched'.last <= MinuteStart(u[2])
                 /\ fire'[u].at = "check" => fire'[u].seen = sched'.last
                 /\ fire'[u].at \in {"disable", "create", "stamp"} => sched'.last < MinuteStart(u[2])
                 /\ Stamped(u)' => MinuteStart(u[2]) <= sched'.last
      <4>1. MinuteStart(t[2]) \in Int
        BY <1>3
      <4>2. CASE u = t
        BY <2>11, <4>1, <4>2
      <4>3. CASE u # t
        BY <3>1, <3>3, <4>3 DEF Running
      <4> QED
        BY <4>2, <4>3
    <3>5. \A u, v \in Ticks : Stamped(u)' /\ Stamped(v)' /\ u[2] = v[2] => u = v
      BY <1>2, <3>1, <3>3 DEF LastRunInv
    <3> QED
      BY <3>2, <3>4, <3>5 DEF LastRunInv
  <2> QED
    BY <1>1, <1>7, <2>5, <2>6, <2>7, <2>8, <2>9, <2>10, <2>11, TickGoes DEF Running
<1> QED
  BY <1>4, <1>5, <1>6, <1>7 DEF Next, TickStep

\* Before the first tick there is nothing to go by.
LEMMA ScheduleStart == Init => ScheduleIInv
<1> SUFFICES ASSUME Init PROVE ScheduleIInv
  OBVIOUS
<1>1. LockProofs!LockIInv /\ Lock!LockTypeOK
  <2>1. LockTtl \in Nat \ {0} /\ NoTick \notin Ticks
    BY RunAssumption DEF LockTtl
  <2>2. LockProofs!LockInit
    BY DEF Init, Lock!LockInit, LockProofs!LockInit
  <2>3. LockProofs!LockIInv
    BY <2>1, <2>2, LockProofs!LockStart
  <2> QED
    BY <2>3 DEF LockProofs!LockIInv, LockProofs!LockTypeOK, Lock!LockTypeOK, LockProofs!CallState, Lock!CallState
<1>2. TypeOK
  <2>1. now \in Times
    BY BoundAssumption DEF Init, Times, PerMinute
  <2>2. edits \in 0..MaxEdits /\ faults \in 0..MaxFaults /\ crashes \in 0..MaxCrashes
    BY BoundAssumption DEF Init
  <2> QED
    BY <1>1, <2>1, <2>2 DEF Init, TypeOK, FirePoint, OncePoint
<1>3. now \div PerMinute = 0 /\ MinuteStart(0) = 0
  BY DEF Init, PerMinute, MinuteStart
<1>4. /\ \A t \in Ticks : TickInv(t) /\ ~Stamped(t) /\ fire[t].at = "none" /\ pc[t] = "new"
      /\ ManualInv /\ RowInv /\ BodyInTime /\ SkipJustified /\ BlipKeepsSchedule
  BY DEF Init, Lock!LockInit, TickInv, Running, Stamped, ManualInv, RowInv, Known, BodyInTime,
     SkipJustified, BlipKeepsSchedule
<1>5. sched.last <= MinuteStart(now \div PerMinute)
  BY <1>3 DEF Init, Never, PerMinute
<1>6. LastRunInv
  BY <1>4, <1>5 DEF LastRunInv, Running
<1> QED
  BY <1>1, <1>2, <1>4, <1>6 DEF ScheduleIInv

\* Every step keeps the invariant.
LEMMA ScheduleStep == ScheduleIInv /\ [Next]_vars => ScheduleIInv'
<1> SUFFICES ASSUME ScheduleIInv, [Next]_vars PROVE ScheduleIInv'
  OBVIOUS
<1>1. /\ TypeOK /\ LockProofs!LockIInv /\ \A t \in Ticks : TickInv(t)
      /\ ManualInv /\ RowInv /\ BodyInTime /\ SkipJustified /\ BlipKeepsSchedule
  BY DEF ScheduleIInv
<1>2. TypeOK' /\ LockProofs!LockIInv'
  BY <1>1, ScheduleTypes, LockMoves, LockStep
<1>3. \A t \in Ticks : TickInv(t)'
  BY <1>1, TicksStep
<1>4. ManualInv' /\ RowInv' /\ BodyInTime' /\ SkipJustified' /\ BlipKeepsSchedule'
  BY <1>1, ManualStep, RowStep, InTimeStep, SkipStep
<1>5. Clean' => LastRunInv'
  BY LastRunStep
<1> QED
  BY <1>2, <1>3, <1>4, <1>5 DEF ScheduleIInv

\* The schedule, its ticks, runs and jobs are well typed, and every job is of a
\* run that has its row.
THEOREM SchedulesTyped == Spec => []TypeOK
<1>1. ScheduleIInv => TypeOK
  BY DEF ScheduleIInv
<1> QED
  BY ScheduleStart, ScheduleStep, <1>1, PTL DEF Spec

\* For any number of replicas, minutes and runs by hand: a due minute is
\* exported once unless a tick outlived the lock or somebody ran the schedule
\* by hand, a minute is passed over only when it has been served, and no
\* fault disables the schedule.
THEOREM SchedulesAreHonoured == Spec => []ScheduleHonoured
<1>1. ScheduleIInv => ScheduleHonoured
  BY DEF ScheduleIInv, ScheduleHonoured, OneExportPerMinute, LastRunInv, Clean, Stamped
<1> QED
  BY ScheduleStart, ScheduleStep, <1>1, PTL DEF Spec

-----------------------------------------------------------------------------
(* The three side by side *)

\* Each behaviour of the three together is one of each of them.
LEMMA AccountsSideBySide == MCSpec => Spec /\ AccountsSpec /\ AccessSpec
<1>1. MCInit => Init /\ AccountsInit /\ AccessInit
  BY DEF MCInit
<1>2. [MCNext]_mcVars => [Next]_vars /\ [AccountsNext]_accountVars /\ [AccessNext]_accessVars
  BY DEF MCNext, mcVars
<1> QED
  BY <1>1, <1>2, PTL DEF MCSpec, Spec, AccountsSpec, AccessSpec

\* The state of all three stays well typed, whichever of them moves.
THEOREM AccountsAndSchedulesTyped == MCSpec => []MCTypeOK
<1>1. TypeOK /\ AccountsTypeOK /\ AccessTypeOK => MCTypeOK
  BY DEF MCTypeOK
<1> QED
  BY AccountsSideBySide, <1>1, SchedulesTyped, AccountsTyped, AccessTyped, PTL
=============================================================================
