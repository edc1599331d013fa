------------------------------ MODULE Accounts ------------------------------
(***************************************************************************)
(* Accounts, sessions and invitations: AuthService, SessionService,        *)
(* SessionsService and JwtStrategy (apps/api/src/modules/auth), the        *)
(* archive and pending-invitation calls of UsersService and the invitation *)
(* calls of ProjectsService.                                               *)
(*                                                                         *)
(* A session is one refresh-token row and the access token minted with it; *)
(* both carry the same number here.  A handler that awaits several         *)
(* statements is one action per statement and keeps what it has read in    *)
(* its slot of req, so that handlers interleave as they do in the server.  *)
(* The mailbox owner can present a link as soon as it exists.  There is    *)
(* one project to be invited to.                                           *)
(***************************************************************************)
EXTENDS Naturals, FiniteSets

CONSTANTS
    Emails,      \* addresses of the accounts
    Company,     \* those on GOOGLE_OAUTH_ALLOWED_DOMAIN
    Requests,    \* slots for handlers in flight
    MaxToken,    \* bound: sessions issued
    MaxLink,     \* bound: magic links issued
    MaxTime,     \* bound: the clock
    MaxCalls,    \* bound: requests made of the server
    AccessTTL,   \* JWT_ACCESS_TTL_SECONDS
    RefreshTTL,  \* JWT_REFRESH_TTL_SECONDS
    LinkTTL,     \* MAGIC_LINK_TTL_SECONDS
    InviteTTL,   \* PROJECT_INVITE_TTL_SECONDS
    KeySlack     \* the 60 seconds the revocation key outlives an access token

NoEmail == "nobody"

ASSUME CompanyAssumption == Company \subseteq Emails /\ NoEmail \notin Emails
ASSUME BoundsAssumption ==
    /\ MaxToken \in Nat /\ MaxLink \in Nat /\ MaxTime \in Nat \ {0}
    /\ MaxCalls \in Nat
    /\ AccessTTL \in Nat /\ RefreshTTL \in Nat
    /\ LinkTTL \in Nat /\ InviteTTL \in Nat /\ KeySlack \in Nat

TokenIds == 1..MaxToken
LinkIds == 1..MaxLink

VARIABLES
    time,     \* the clock
    account,  \* User rows: "none", "active" or "archived"
    grant,    \* the emails with a ProjectAccess row
    nextTok,  \* the number of the next session
    tok,      \* RefreshToken rows
    jti,      \* Redis: when the revocation key of an access token expires
    out,      \* history: sessions whose access token was revoked by logout
    nextLink, \* the number of the next magic link
    link,     \* MagicLink rows
    req,      \* the handlers in flight
    calls     \* how many requests have been made

accountVars == <<time, account, grant, nextTok, tok, jti, out, nextLink, link, req, calls>>

Token == [owner: Emails \cup {NoEmail},
          root: 0..MaxToken,       \* history: the session the chain began with
          revoked: BOOLEAN,
          rotatedTo: 0..MaxToken,
          born: 0..MaxTime,
          earned: BOOLEAN]         \* history: see Slot.seen

Link == [email: Emails \cup {NoEmail},
         intent: {"login", "project_invite"},
         used: BOOLEAN,
         expires: 0..(MaxTime + LinkTTL + InviteTTL),
         swept: 0..(MaxLink + 1),  \* history: see Slot.swept
         minted: Nat]              \* history: sessions this link was used for

Steps == {"idle", "issue", "rotate", "revokeAll", "backfill", "consume",
          "sweep", "createInvite", "expireInvite", "dropGrant",
          "logoutToken", "archiveTokens", "loginLink"}

Slot == [pc: Steps,
         email: Emails \cup {NoEmail},
         t: 0..MaxToken,            \* the session presented
         n: 0..MaxToken,            \* the session minted
         l: 0..MaxLink,             \* the link presented
         seen: BOOLEAN,             \* history: the account was seen un-archived
                                    \* at some moment of this request
         swept: 0..(MaxLink + 1)]   \* history: nextLink when the outstanding
                                    \* invitations were expired

Idle == [pc |-> "idle", email |-> NoEmail, t |-> 0, n |-> 0, l |-> 0,
         seen |-> FALSE, swept |-> 0]

NoToken == [owner |-> NoEmail, root |-> 0, revoked |-> FALSE, rotatedTo |-> 0,
            born |-> 0, earned |-> TRUE]

NoLink == [email |-> NoEmail, intent |-> "login", used |-> FALSE,
           expires |-> 0, swept |-> 0, minted |-> 0]

AccountsTypeOK ==
    /\ time \in 1..MaxTime
    /\ account \in [Emails -> {"none", "active", "archived"}]
    /\ grant \subseteq Emails
    /\ nextTok \in 1..(MaxToken + 1)
    /\ tok \in [TokenIds -> Token]
    /\ jti \in [TokenIds -> Nat]
    /\ out \subseteq TokenIds
    /\ nextLink \in 1..(MaxLink + 1)
    /\ link \in [LinkIds -> Link]
    /\ req \in [Requests -> Slot]
    /\ calls \in 0..MaxCalls

AccountsInit ==
    /\ time = 1
    /\ account = [e \in Emails |-> "none"]
    /\ grant = {}
    /\ nextTok = 1
    /\ tok = [t \in TokenIds |-> NoToken]
    /\ jti = [t \in TokenIds |-> 0]
    /\ out = {}
    /\ nextLink = 1
    /\ link = [l \in LinkIds |-> NoLink]
    /\ req = [r \in Requests |-> Idle]
    /\ calls = 0

Issued == {t \in TokenIds : tok[t].owner # NoEmail}
Sent == {l \in LinkIds : link[l].email # NoEmail}

Begin(r, slot) == req[r].pc = "idle" /\ req' = [req EXCEPT ![r] = slot]
Goto(r, step) == req' = [req EXCEPT ![r].pc = step]
End(r) == req' = [req EXCEPT ![r] = Idle]

\* Prisma upsert on User.email with an empty update.
Upserted(e) == [account EXCEPT ![e] = IF @ = "none" THEN "active" ELSE @]

\* What a handler starts with: the account is un-archived, or does not exist.
Fresh(e) == account[e] # "archived"

----------------------------------------------------------------------------
(* Issuing sessions *)

\* issueTokens: sign an access token, insert the refresh-token row.  A sign-in
\* starts a chain, a rotation continues the chain of the token it consumed.
IssueTokens(r) ==
    /\ req[r].pc = "issue"
    /\ nextTok \in TokenIds
    /\ tok' = [tok EXCEPT ![nextTok] =
                 [owner |-> req[r].email,
                  root |-> IF req[r].t = 0 THEN nextTok ELSE tok[req[r].t].root,
                  revoked |-> FALSE, rotatedTo |-> 0, born |-> time,
                  earned |-> req[r].seen]]
    /\ link' = [l \in LinkIds |->
                  IF l = req[r].l THEN [link[l] EXCEPT !.minted = @ + 1]
                                  ELSE link[l]]
    /\ nextTok' = nextTok + 1
    /\ req' = [req EXCEPT ![r] =
                 IF req[r].t = 0 THEN Idle
                                 ELSE [@ EXCEPT !.pc = "backfill", !.n = nextTok]]
    /\ UNCHANGED <<time, account, grant, jti, out, nextLink>>

\* loginWithGoogle: upsert, refuse an archived user, then issue.
LoginWithGoogle(r, e) ==
    /\ e \in Company /\ account[e] # "archived"
    /\ account' = Upserted(e)
    /\ Begin(r, [Idle EXCEPT !.pc = "issue", !.email = e, !.seen = Fresh(e)])
    /\ UNCHANGED <<time, grant, nextTok, tok, jti, out, nextLink, link>>

----------------------------------------------------------------------------
(* Magic links and invitations *)

NewLink(e, intent, ttl, swept) ==
    /\ nextLink \in LinkIds
    /\ link' = [link EXCEPT ![nextLink] =
                  [email |-> e, intent |-> intent, used |-> FALSE,
                   expires |-> time + ttl, swept |-> swept, minted |-> 0]]
    /\ nextLink' = nextLink + 1

\* requestMagicLink called by the client itself.
RequestMagicLink(e) ==
    /\ e \notin Company
    /\ NewLink(e, "login", LinkTTL, 0)
    /\ UNCHANGED <<time, account, grant, nextTok, tok, jti, out, req>>

\* UsersService.inviteGuest: upsert the client, then requestMagicLink.
InviteClient(r, e) ==
    /\ e \notin Company
    /\ account' = Upserted(e)
    /\ Begin(r, [Idle EXCEPT !.pc = "loginLink", !.email = e])
    /\ UNCHANGED <<time, grant, nextTok, tok, jti, out, nextLink, link>>

InviteClientLink(r) ==
    /\ req[r].pc = "loginLink"
    /\ NewLink(req[r].email, "login", LinkTTL, 0)
    /\ End(r)
    /\ UNCHANGED <<time, account, grant, nextTok, tok, jti, out>>

\* ProjectsService.inviteGuest: the user and the grant in one transaction, the
\* link afterwards.
InviteGuest(r, e) ==
    /\ e \notin Company
    /\ account' = Upserted(e)
    /\ grant' = grant \cup {e}
    /\ Begin(r, [Idle EXCEPT !.pc = "sweep", !.email = e])
    /\ UNCHANGED <<time, nextTok, tok, jti, out, nextLink, link>>

\* resendPendingInvite: an invitation that is unused, even an expired one, and
\* whose grant is still there.
ResendPendingInvite(r, l) ==
    /\ l \in Sent /\ link[l].intent = "project_invite" /\ ~link[l].used
    /\ link[l].email \in grant
    /\ Begin(r, [Idle EXCEPT !.pc = "sweep", !.email = link[l].email])
    /\ UNCHANGED <<time, account, grant, nextTok, tok, jti, out, nextLink, link>>

\* An invitation that verifyMagicLink would accept.  The code expires a link by
\* writing the current time, which is in the past a moment later: 0 here.
Valid(l) == l \in Sent /\ ~link[l].used /\ link[l].expires >= time

\* Mutant: the sweep selects the used invitations.
SweepUsedInvites(r) ==
    /\ req[r].pc = "sweep"
    /\ link' = [l \in LinkIds |->
                  IF /\ l \in Sent /\ link[l].used
                     /\ link[l].intent = "project_invite"
                     /\ link[l].email = req[r].email
                  THEN [link[l] EXCEPT !.expires = 0] ELSE link[l]]
    /\ req' = [req EXCEPT ![r].pc = "createInvite", ![r].swept = nextLink]
    /\ UNCHANGED <<time, account, grant, nextTok, tok, jti, out, nextLink>>

\* sendProjectInvite, first statement: expire what is outstanding.
SweepInvites(r) ==
    /\ req[r].pc = "sweep"
    /\ link' = [l \in LinkIds |->
                  IF /\ Valid(l)
                     /\ link[l].intent = "project_invite"
                     /\ link[l].email = req[r].email
                  THEN [link[l] EXCEPT !.expires = 0] ELSE link[l]]
    /\ req' = [req EXCEPT ![r].pc = "createInvite", ![r].swept = nextLink]
    /\ UNCHANGED <<time, account, grant, nextTok, tok, jti, out, nextLink>>

\* sendProjectInvite, second statement: the one new link.
CreateInvite(r) ==
    /\ req[r].pc = "createInvite"
    /\ NewLink(req[r].email, "project_invite", InviteTTL, req[r].swept)
    /\ End(r)
    /\ UNCHANGED <<time, account, grant, nextTok, tok, jti, out>>

\* revokePendingInvite: expire the link, then drop the grant.
RevokePendingInvite(r, l) ==
    /\ l \in Sent /\ link[l].intent = "project_invite" /\ ~link[l].used
    /\ Begin(r, [Idle EXCEPT !.pc = "expireInvite", !.l = l,
                             !.email = link[l].email])
    /\ UNCHANGED <<time, account, grant, nextTok, tok, jti, out, nextLink, link>>

ExpireInvite(r) ==
    /\ req[r].pc = "expireInvite"
    /\ link' = [link EXCEPT ![req[r].l].expires = 0]
    /\ Goto(r, "dropGrant")
    /\ UNCHANGED <<time, account, grant, nextTok, tok, jti, out, nextLink>>

DropGrant(r) ==
    /\ req[r].pc = "dropGrant"
    /\ grant' = grant \ {req[r].email}
    /\ End(r)
    /\ UNCHANGED <<time, account, nextTok, tok, jti, out, nextLink, link>>

\* ProjectsService.revokeAccess.
RevokeAccess(e) ==
    /\ e \in grant
    /\ grant' = grant \ {e}
    /\ UNCHANGED <<time, account, nextTok, tok, jti, out, nextLink, link, req>>

\* verifyMagicLink: the checks on the row it has read ...
VerifyRead(r, l) ==
    /\ Valid(l)
    /\ Begin(r, [Idle EXCEPT !.pc = "consume", !.l = l, !.email = link[l].email,
                             !.seen = Fresh(link[l].email)])
    /\ UNCHANGED <<time, account, grant, nextTok, tok, jti, out, nextLink, link>>

\* Mutant: the update of the link is not conditional on usedAt.
VerifyUnconditional(r) ==
    LET l == req[r].l  e == req[r].email IN
    /\ req[r].pc = "consume"
    /\ link' = [link EXCEPT ![l].used = TRUE]
    /\ account' = Upserted(e)
    /\ IF account[e] = "archived" THEN End(r) ELSE Goto(r, "issue")
    /\ UNCHANGED <<time, grant, nextTok, tok, jti, out, nextLink>>

\* ... then one transaction that claims the link and upserts the user; the
\* archived check comes after the commit.
VerifyConsume(r) ==
    LET l == req[r].l  e == req[r].email IN
    /\ req[r].pc = "consume"
    /\ IF link[l].used
       THEN End(r) /\ UNCHANGED <<link, account>>
       ELSE /\ link' = [link EXCEPT ![l].used = TRUE]
            /\ account' = Upserted(e)
            /\ IF account[e] = "archived" THEN End(r) ELSE Goto(r, "issue")
    /\ UNCHANGED <<time, grant, nextTok, tok, jti, out, nextLink>>

----------------------------------------------------------------------------
(* Rotation *)

\* Not revoked, not expired: what refresh and the session list call live.
Live(t) == t \in Issued /\ ~tok[t].revoked /\ tok[t].born + RefreshTTL >= time

\* Mutant: refresh does not look at archivedAt.
RefreshArchivedToo(r, t) ==
    /\ Live(t) /\ tok[t].rotatedTo = 0
    /\ Begin(r, [Idle EXCEPT !.pc = "rotate", !.t = t, !.email = tok[t].owner,
                             !.seen = Fresh(tok[t].owner)])
    /\ UNCHANGED <<time, account, grant, nextTok, tok, jti, out, nextLink, link>>

\* refresh: the checks on the row and the user it has read.  A rotated row is
\* also revoked, so the revoked check answers for it first.
RefreshRead(r, t) ==
    /\ Live(t) /\ tok[t].rotatedTo = 0
    /\ account[tok[t].owner] # "archived"
    /\ Begin(r, [Idle EXCEPT !.pc = "rotate", !.t = t, !.email = tok[t].owner,
                             !.seen = Fresh(tok[t].owner)])
    /\ UNCHANGED <<time, account, grant, nextTok, tok, jti, out, nextLink, link>>

\* Mutant: the update that consumes the token is not conditional.
RotateUnconditional(r) ==
    /\ req[r].pc = "rotate"
    /\ Goto(r, "issue")
    /\ tok' = [tok EXCEPT ![req[r].t].revoked = TRUE]
    /\ UNCHANGED <<time, account, grant, nextTok, jti, out, nextLink, link>>

\* The conditional update that consumes the token; who loses it revokes all.
RefreshRotate(r) ==
    LET t == req[r].t IN
    /\ req[r].pc = "rotate"
    /\ IF tok[t].revoked \/ tok[t].rotatedTo # 0
       THEN Goto(r, "revokeAll") /\ UNCHANGED tok
       ELSE Goto(r, "issue") /\ tok' = [tok EXCEPT ![t].revoked = TRUE]
    /\ UNCHANGED <<time, account, grant, nextTok, jti, out, nextLink, link>>

\* revokeAllRefreshTokens, archive's updateMany and revokeOthers.
RevokeWhere(P(_)) ==
    tok' = [t \in TokenIds |-> IF t \in Issued /\ P(t)
                               THEN [tok[t] EXCEPT !.revoked = TRUE] ELSE tok[t]]

RefreshRevokeAll(r) ==
    /\ req[r].pc = "revokeAll"
    /\ RevokeWhere(LAMBDA t : tok[t].owner = req[r].email)
    /\ End(r)
    /\ UNCHANGED <<time, account, grant, nextTok, jti, out, nextLink, link>>

\* Mutant: the back-fill takes the placeholder revokedAt off again.
BackfillClearsRevoked(r) ==
    /\ req[r].pc = "backfill"
    /\ tok' = [tok EXCEPT ![req[r].t].rotatedTo = req[r].n,
                          ![req[r].t].revoked = FALSE]
    /\ End(r)
    /\ UNCHANGED <<time, account, grant, nextTok, jti, out, nextLink, link>>

\* Mutant: the back-fill stores the id after the successor's.
BackfillOffByOne(r) ==
    /\ req[r].pc = "backfill"
    /\ tok' = [tok EXCEPT ![req[r].t].rotatedTo = req[r].n + 1]
    /\ End(r)
    /\ UNCHANGED <<time, account, grant, nextTok, jti, out, nextLink, link>>

\* The consumed row is pointed at its successor.
RefreshBackfill(r) ==
    /\ req[r].pc = "backfill"
    /\ tok' = [tok EXCEPT ![req[r].t].rotatedTo = req[r].n]
    /\ End(r)
    /\ UNCHANGED <<time, account, grant, nextTok, jti, out, nextLink, link>>

----------------------------------------------------------------------------
(* Signing out and archiving *)

\* JwtStrategy.validate: signature and expiry, the revocation key, the user.
AccessValid(t) ==
    /\ t \in Issued
    /\ time < tok[t].born + AccessTTL
    /\ jti[t] <= time
    /\ account[tok[t].owner] = "active"

\* Mutant: the key lives for the slack alone.
RevokeJtiBriefly(t) == jti' = [jti EXCEPT ![t] = time + KeySlack]

\* SessionService.revokeJti: the key lives a little longer than the token can.
RevokeJti(t) == jti' = [jti EXCEPT ![t] = time + AccessTTL + KeySlack]

\* logout: the revocation key in Redis first, the refresh-token row second.
Logout(r, t) ==
    /\ AccessValid(t)
    /\ RevokeJti(t)
    /\ out' = out \cup {t}
    /\ Begin(r, [Idle EXCEPT !.pc = "logoutToken", !.t = t,
                             !.email = tok[t].owner])
    /\ UNCHANGED <<time, account, grant, nextTok, tok, nextLink, link>>

LogoutToken(r) ==
    /\ req[r].pc = "logoutToken"
    /\ tok' = [tok EXCEPT ![req[r].t].revoked = TRUE]
    /\ End(r)
    /\ UNCHANGED <<time, account, grant, nextTok, jti, out, nextLink, link>>

\* SessionsService.revoke: one of the caller's own sessions.
RevokeSession(t, s) ==
    /\ AccessValid(t) /\ s \in Issued /\ tok[s].owner = tok[t].owner
    /\ tok' = [tok EXCEPT ![s].revoked = TRUE]
    /\ UNCHANGED <<time, account, grant, nextTok, jti, out, nextLink, link, req>>

\* SessionsService.revokeOthers: all but the one the caller names as its own.
RevokeOthers(t, keep) ==
    /\ AccessValid(t)
    /\ RevokeWhere(LAMBDA s : tok[s].owner = tok[t].owner /\ s # keep)
    /\ UNCHANGED <<time, account, grant, nextTok, jti, out, nextLink, link, req>>

\* UsersService.archive: the user row, then its refresh tokens.
Archive(r, e) ==
    /\ account[e] # "none"
    /\ account' = [account EXCEPT ![e] = "archived"]
    /\ Begin(r, [Idle EXCEPT !.pc = "archiveTokens", !.email = e])
    /\ UNCHANGED <<time, grant, nextTok, tok, jti, out, nextLink, link>>

ArchiveTokens(r) ==
    /\ req[r].pc = "archiveTokens"
    /\ RevokeWhere(LAMBDA t : tok[t].owner = req[r].email)
    /\ End(r)
    /\ UNCHANGED <<time, account, grant, nextTok, jti, out, nextLink, link>>

\* UsersService.unarchive.  Requests in flight now see the account un-archived.
Unarchive(e) ==
    /\ account[e] = "archived"
    /\ account' = [account EXCEPT ![e] = "active"]
    /\ req' = [r \in Requests |->
                 IF req[r].email = e THEN [req[r] EXCEPT !.seen = TRUE]
                                     ELSE req[r]]
    /\ UNCHANGED <<time, grant, nextTok, tok, jti, out, nextLink, link>>

----------------------------------------------------------------------------
(* The environment *)

\* The replica dies, or the statement fails: the handler goes no further.
Die(r) ==
    /\ req[r].pc # "idle"
    /\ End(r)
    /\ UNCHANGED <<time, account, grant, nextTok, tok, jti, out, nextLink, link>>

Tick ==
    /\ time < MaxTime
    /\ time' = time + 1
    /\ UNCHANGED <<account, grant, nextTok, tok, jti, out, nextLink, link, req>>

Handler(r) ==
    \/ IssueTokens(r) \/ InviteClientLink(r) \/ SweepInvites(r)
    \/ CreateInvite(r) \/ ExpireInvite(r) \/ DropGrant(r) \/ VerifyConsume(r)
    \/ RefreshRotate(r) \/ RefreshRevokeAll(r) \/ RefreshBackfill(r)
    \/ LogoutToken(r) \/ ArchiveTokens(r) \/ Die(r)

\* A request reaches the server.
Arrival ==
    \/ \E r \in Requests, e \in Emails :
          LoginWithGoogle(r, e) \/ InviteClient(r, e) \/ InviteGuest(r, e)
          \/ Archive(r, e)
    \/ \E r \in Requests, l \in LinkIds :
          ResendPendingInvite(r, l) \/ RevokePendingInvite(r, l)
          \/ VerifyRead(r, l)
    \/ \E r \in Requests, t \in TokenIds : RefreshRead(r, t) \/ Logout(r, t)
    \/ \E e \in Emails : RequestMagicLink(e) \/ RevokeAccess(e) \/ Unarchive(e)
    \/ \E t, s \in TokenIds : RevokeSession(t, s) \/ RevokeOthers(t, s)

AccountsNext ==
    \/ (\E r \in Requests : Handler(r)) /\ UNCHANGED calls
    \/ Arrival /\ calls < MaxCalls /\ calls' = calls + 1
    \/ Tick /\ UNCHANGED calls

AccountsSpec == AccountsInit /\ [][AccountsNext]_accountVars

----------------------------------------------------------------------------
(* Properties *)

\* A sign-in has at most one refresh token that is not revoked, however many
\* copies of it are refreshed at the same time: refresh revokes the token it
\* consumes by a conditional update before it issues the next one.
ChainOneLive ==
    \A s, t \in Issued :
        (tok[s].root = tok[t].root /\ ~tok[s].revoked /\ ~tok[t].revoked) => s = t

\* A magic link signs in at most once, however many verify calls hold it:
\* verifyMagicLink claims it by a conditional update before it issues tokens.
LinkSignsInOnce == \A l \in LinkIds : link[l].minted <= 1

\* Every session was issued by a request during which its account was, at some
\* moment, not archived: each path to issueTokens checks archivedAt, and only
\* a check made before the archive can be out of date.
SessionWasAllowed == \A t \in Issued : tok[t].earned

\* Of two invitations of one address that both still work, the older was
\* created after the sweep of the younger one's sender: invitations stack only
\* when two sendProjectInvite calls overlap.
InvitesStackOnlyWhenConcurrent ==
    \A k, l \in LinkIds :
        /\ k < l /\ Valid(k) /\ Valid(l)
        /\ link[k].intent = "project_invite" /\ link[l].intent = "project_invite"
        /\ link[k].email = link[l].email
        => link[l].swept <= k

\* An access token that logout has revoked is never accepted again: the Redis
\* key outlives whatever is left of the token's lifetime.
LoggedOutStaysOut == \A t \in out : ~AccessValid(t)

\* A refresh token that points at its successor is revoked: the reuse branch of
\* refresh, which looks at rotatedToId, comes after the revoked check and never
\* answers for a rotated token.
RotatedIsRevoked == \A t \in Issued : tok[t].rotatedTo # 0 => tok[t].revoked

\* A session can be ended and was earned, and links and invitations are spent
\* once, whichever handlers overlap or die half way.
AccountsSound ==
    /\ ChainOneLive /\ RotatedIsRevoked /\ SessionWasAllowed /\ LoggedOutStaysOut
    /\ LinkSignsInOnce /\ InvitesStackOnlyWhenConcurrent
=============================================================================
