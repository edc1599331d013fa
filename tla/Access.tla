------------------------------- MODULE Access -------------------------------
(***************************************************************************)
(* Who may see a project.  The members page changes the kind, the role,    *)
(* the address and the teams of a user; a project's managers grant and     *)
(* revoke access; and the question "may this user see this project" is     *)
(* answered by the code in several places: PermissionsService decides,     *)
(* the lists of projects, the template gallery, the search (with its       *)
(* copies in the analytics) and the members page each have a query of      *)
(* their own.                                                              *)
(*                                                                         *)
(* A request checks what it has read and writes later; several are under   *)
(* way.  There is one project.  An address is its domain: the company's or *)
(* another.                                                                *)
(***************************************************************************)
EXTENDS Naturals, FiniteSets

CONSTANTS
    Members,      \* users
    Groups,       \* teams
    Callers,      \* slots for requests under way
    GrantRoles,   \* the roles grants are made with
    MaxAccessCalls \* bound: requests made

Roles == {"Client", "Viewer", "Contributor", "Manager"}
NoRole == "none"

ASSUME AccessAssumption == /\ GrantRoles \subseteq Roles /\ MaxAccessCalls \in Nat
                           /\ Members \cap Groups = {}

VARIABLES
    user,      \* kind, company role and domain of every user
    memberOf,  \* TeamMember: pairs <<team, user>>
    team,      \* the teams that exist
    granted,   \* ProjectAccess: the role of every user and team, if any
    project,   \* visibility and archivedAt
    asked,     \* what each request under way is about to write
    accessCalls

accessVars == <<user, memberOf, team, granted, project, asked, accessCalls>>

Subjects == Members \cup Groups
Nothing == [op |-> "none"]

-----------------------------------------------------------------------------
(* The answers. *)

Rank(role) == CASE role = NoRole -> 0 [] role = "Client" -> 1 [] role = "Viewer" -> 2
                [] role = "Contributor" -> 3 [] role = "Manager" -> 4

Highest(roles) == CHOOSE r \in roles : \A s \in roles : Rank(s) <= Rank(r)

IsAdmin(u) == user[u].kind = "internal" /\ user[u].role = "Admin"

TeamsOf(u) == {t \in Groups : <<t, u>> \in memberOf}

\* PermissionsService.effectiveRole: teams and public projects count for
\* internal users only; the archive is not looked at.
EffectiveRole(u) ==
    LET held == {granted[s] : s \in {u} \cup IF user[u].kind = "internal" THEN TeamsOf(u) ELSE {}}
        best == Highest(held \cup {NoRole})
    IN  IF IsAdmin(u) THEN "Manager"
        ELSE IF best = NoRole /\ project.public /\ user[u].kind = "internal" THEN "Viewer"
        ELSE best

HasGrant(s) == granted[s] # NoRole

\* MUTANT of ListForUser: the legacy filter on the role.
ListForUserLegacy(u) ==
    /\ ~project.archived
    /\ \/ user[u].kind = "internal" /\ (IsAdmin(u) \/ project.public \/ HasGrant(u)
                                        \/ \E t \in TeamsOf(u) : HasGrant(t))
       \/ user[u].kind = "client" /\ granted[u] = "Client"

\* ProjectsService.listForUser
ListForUser(u) ==
    /\ ~project.archived
    /\ \/ user[u].kind = "internal" /\ (IsAdmin(u) \/ project.public \/ HasGrant(u)
                                        \/ \E t \in TeamsOf(u) : HasGrant(t))
       \/ user[u].kind = "client" /\ HasGrant(u)

\* MUTANT of Gallery: the teams of a client count too.
GalleryTeamsOfAll(u) ==
    /\ ~project.archived
    /\ \/ IsAdmin(u) \/ HasGrant(u)
       \/ \E t \in TeamsOf(u) : HasGrant(t)
       \/ user[u].kind = "internal" /\ project.public

\* TaskTemplatesService.resolveAccessibleProjectIds
Gallery(u) ==
    /\ ~project.archived
    /\ \/ IsAdmin(u) \/ HasGrant(u)
       \/ user[u].kind = "internal" /\ (project.public \/ \E t \in TeamsOf(u) : HasGrant(t))

\* SearchService.accessibleProjectIds: of a client's grants only those with the
\* role Client count.
Search(u) ==
    /\ ~project.archived
    /\ \/ IsAdmin(u)
       \/ /\ user[u].kind = "internal"
          /\ project.public \/ HasGrant(u) \/ \E t \in TeamsOf(u) : HasGrant(t)
       \/ user[u].kind = "client" /\ granted[u] = "Client"

\* The copies of the query in the metrics and in the reports.
MetricsScope(u) == Search(u)
ReportsScope(u) == Search(u)

\* ClientService.accessibleProjects: whoever asks, as a client.
ClientPortal(u) == ~project.archived /\ granted[u] = "Client"

\* MUTANT of MembersPage: a direct grant hides the grants of the teams.
MembersPageDirectFirst(u) ==
    LET held == IF HasGrant(u) THEN {granted[u]} ELSE {granted[s] : s \in TeamsOf(u)}
        least == IF user[u].kind = "client" THEN "Client" ELSE "Viewer"
    IN  IF project.archived THEN NoRole
        ELSE IF IsAdmin(u) THEN "Manager"
        ELSE IF held \subseteq {NoRole} /\ ~(user[u].kind = "internal" /\ project.public) THEN NoRole
        ELSE Highest(held \cup {least})

\* UsersService.resolveProjectAccess, the role the members page shows: here
\* the teams count for every user, and the role is at least a default.
MembersPage(u) ==
    LET held == {granted[s] : s \in {u} \cup TeamsOf(u)}
        least == IF user[u].kind = "client" THEN "Client" ELSE "Viewer"
    IN  IF project.archived THEN NoRole
        ELSE IF IsAdmin(u) THEN "Manager"
        ELSE IF held \subseteq {NoRole} /\ ~(user[u].kind = "internal" /\ project.public) THEN NoRole
        ELSE Highest(held \cup {least})

-----------------------------------------------------------------------------
AccessInit ==
    /\ user \in {f \in [Members -> {[kind |-> "internal", role |-> "Admin", company |-> TRUE],
                                    [kind |-> "internal", role |-> "Member", company |-> FALSE],
                                    [kind |-> "client", role |-> NoRole, company |-> FALSE]}] :
                   Cardinality({u \in Members : f[u].role = "Admin"}) = 1}
    /\ memberOf = {} /\ team = Groups
    /\ granted = [s \in Subjects |-> NoRole]
    /\ project \in [public : BOOLEAN, archived : {FALSE}]
    /\ asked = [c \in Callers |-> Nothing]
    /\ accessCalls = 0

AccessTypeOK ==
    /\ user \in [Members -> [kind : {"internal", "client"}, role : {"Admin", "Member", NoRole},
                             company : BOOLEAN]]
    /\ memberOf \subseteq team \X Members
    /\ granted \in [Subjects -> GrantRoles \cup {NoRole}]
    /\ \A t \in Groups \ team : granted[t] = NoRole
    /\ project \in [public : BOOLEAN, archived : BOOLEAN]
    /\ accessCalls \in 0..MaxAccessCalls

-----------------------------------------------------------------------------
(* The requests that write what they have decided from an earlier read. *)

\* The members page and the team pages look at companyRole alone.
ByAdmin(actors) == \E a \in actors : user[a].role = "Admin"
ByManager == \E a \in Members : EffectiveRole(a) = "Manager"

\* The checks of a request have passed.
Ask(c, what) ==
    /\ asked[c] = Nothing /\ accessCalls < MaxAccessCalls
    /\ asked' = [asked EXCEPT ![c] = what]
    /\ accessCalls' = accessCalls + 1
    /\ UNCHANGED <<user, memberOf, team, granted, project>>

\* The request c writes and ends.
Answer(c, op) == asked[c].op = op /\ asked' = [asked EXCEPT ![c] = Nothing] /\ UNCHANGED accessCalls

\* A client becomes internal with the role, if the address is the company's.
ChangeRole(c, u, role) ==
    /\ ByAdmin(Members)
    /\ user[u].kind = "client" => user[u].company
    /\ Ask(c, [op |-> "role", u |-> u, role |-> role, promote |-> user[u].kind = "client"])

WriteRole(c) ==
    /\ Answer(c, "role")
    /\ LET what == asked[c]
       IN  user' = [user EXCEPT ![what.u].role = what.role,
                                ![what.u].kind = IF what.promote THEN "internal" ELSE @]
    /\ UNCHANGED <<memberOf, team, granted, project>>

\* Nobody changes their own kind; an address of the company stays internal.
ChangeKind(c, u, kind) ==
    /\ ByAdmin(Members \ {u})
    /\ user[u].kind # kind
    /\ kind = "client" => ~user[u].company
    /\ Ask(c, [op |-> "kind", u |-> u, kind |-> kind])

\* The demotion takes the teams away in its transaction.
WriteKind(c) ==
    /\ Answer(c, "kind")
    /\ LET u == asked[c].u
           kind == asked[c].kind
       IN  /\ user' = [user EXCEPT ![u].kind = kind,
                                   ![u].role = IF kind = "client" THEN NoRole ELSE "Member"]
           /\ memberOf' = IF kind = "client" THEN {m \in memberOf : m[2] # u} ELSE memberOf
    /\ UNCHANGED <<team, granted, project>>

UpdateEmail(c, u, company) ==
    /\ ByAdmin(Members)
    /\ user[u].kind = "client" => ~company
    /\ user[u].company # company
    /\ Ask(c, [op |-> "email", u |-> u, company |-> company])

WriteEmail(c) ==
    /\ Answer(c, "email")
    /\ user' = [user EXCEPT ![asked[c].u].company = asked[c].company]
    /\ UNCHANGED <<memberOf, team, granted, project>>

SetTeams(c, u, teams) ==
    /\ ByAdmin(Members)
    /\ user[u].kind = "client" => teams = {}
    /\ teams \subseteq team
    /\ Ask(c, [op |-> "teams", u |-> u, teams |-> teams])

\* The transaction fails on a team that is gone.
WriteTeams(c) ==
    /\ Answer(c, "teams")
    /\ LET u == asked[c].u
           teams == asked[c].teams
       IN  memberOf' = IF teams \subseteq team
                       THEN {m \in memberOf : m[2] # u} \cup {<<t, u>> : t \in teams}
                       ELSE memberOf
    /\ UNCHANGED <<user, team, granted, project>>

\* ProjectsService.inviteGuest for a user that exists: the grant is upserted.
InviteKnownGuest(c, u, role) ==
    /\ ByManager
    /\ user[u].kind = "client" /\ ~user[u].company
    /\ Ask(c, [op |-> "invite", u |-> u, role |-> role])

\* The user is looked up by the address again: if it has changed, a new user
\* gets the grant.
WriteInvite(c) ==
    /\ Answer(c, "invite")
    /\ granted' = IF user[asked[c].u].company THEN granted
                  ELSE [granted EXCEPT ![asked[c].u] = asked[c].role]
    /\ UNCHANGED <<user, memberOf, team, project>>

-----------------------------------------------------------------------------
(* The requests of one statement, after the check of the actor. *)

Statement == accessCalls < MaxAccessCalls /\ accessCalls' = accessCalls + 1 /\ UNCHANGED asked

\* The kind of the user is not looked at.
AddMember(t, u) ==
    /\ Statement /\ ByAdmin(Members) /\ t \in team
    /\ memberOf' = memberOf \cup {<<t, u>>}
    /\ UNCHANGED <<user, team, granted, project>>

RemoveMember(t, u) ==
    /\ Statement /\ ByAdmin(Members) /\ <<t, u>> \in memberOf
    /\ memberOf' = memberOf \ {<<t, u>>}
    /\ UNCHANGED <<user, team, granted, project>>

CreateTeam(t) ==
    /\ Statement /\ ByAdmin(Members) /\ t \notin team
    /\ team' = team \cup {t}
    /\ UNCHANGED <<user, memberOf, granted, project>>

\* MUTANT of DeleteTeam: the grants of the team are left.
DeleteTeamOnly(t) ==
    /\ Statement /\ ByAdmin(Members) /\ t \in team
    /\ team' = team \ {t}
    /\ memberOf' = {m \in memberOf : m[1] # t}
    /\ UNCHANGED <<user, granted, project>>

\* Its memberships and grants are deleted with it (onDelete: Cascade).
DeleteTeam(t) ==
    /\ Statement /\ ByAdmin(Members) /\ t \in team
    /\ team' = team \ {t}
    /\ memberOf' = {m \in memberOf : m[1] # t}
    /\ granted' = [granted EXCEPT ![t] = NoRole]
    /\ UNCHANGED <<user, project>>

\* A second grant to one subject violates the unique index.
GrantAccess(s, role) ==
    /\ Statement /\ ByManager
    /\ granted[s] = NoRole /\ s \in Members \cup team
    /\ granted' = [granted EXCEPT ![s] = role]
    /\ UNCHANGED <<user, memberOf, team, project>>

RevokeProjectAccess(s) ==
    /\ Statement /\ ByManager /\ HasGrant(s)
    /\ granted' = [granted EXCEPT ![s] = NoRole]
    /\ UNCHANGED <<user, memberOf, team, project>>

\* update by a manager; archive and restore by an admin.
EditProject ==
    /\ Statement
    /\ \/ ByManager /\ project' = [project EXCEPT !.public = ~@]
       \/ (\E a \in Members : IsAdmin(a)) /\ project' = [project EXCEPT !.archived = ~@]
    /\ UNCHANGED <<user, memberOf, team, granted>>

AccessNext ==
    \/ \E c \in Callers :
          \/ \E u \in Members :
                \/ \E role \in {"Admin", "Member"} : ChangeRole(c, u, role)
                \/ \E kind \in {"internal", "client"} : ChangeKind(c, u, kind)
                \/ \E company \in BOOLEAN : UpdateEmail(c, u, company)
                \/ \E teams \in SUBSET Groups : SetTeams(c, u, teams)
                \/ \E role \in GrantRoles : InviteKnownGuest(c, u, role)
          \/ WriteRole(c) \/ WriteKind(c) \/ WriteEmail(c) \/ WriteTeams(c) \/ WriteInvite(c)
    \/ \E t \in Groups : \/ \E u \in Members : AddMember(t, u) \/ RemoveMember(t, u)
                         \/ CreateTeam(t) \/ DeleteTeam(t)
    \/ \E s \in Subjects : RevokeProjectAccess(s) \/ \E role \in GrantRoles : GrantAccess(s, role)
    \/ EditProject

AccessSpec == AccessInit /\ [][AccessNext]_accessVars

-----------------------------------------------------------------------------
\* The project is in a user's lists exactly when PermissionsService would let
\* the user in, and search, metrics, reports and client portal show nothing it
\* would refuse, whatever requests have raced (a client left in a team by a
\* late setTeams, or with a company role by a late changeRole, included).
ListsAgree ==
    ~project.archived =>
        \A u \in Members : LET open == EffectiveRole(u) # NoRole
                           IN  /\ ListForUser(u) = open
                               /\ Gallery(u) = open
                               /\ Search(u) \/ MetricsScope(u) \/ ReportsScope(u) \/ ClientPortal(u)
                                     => open

\* The members page shows every access there is, with no lesser role: an
\* admin who finds nothing there has nothing to revoke.
PageComplete ==
    ~project.archived => \A u \in Members : Rank(EffectiveRole(u)) <= Rank(MembersPage(u))

\* The readings of one rule in permissions.service.ts, projects.service.ts,
\* task-templates.service.ts, search.service.ts and users.service.ts agree.
AccessSound == ListsAgree /\ PageComplete
=============================================================================
