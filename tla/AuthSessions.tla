---------------------------- MODULE AuthSessions ----------------------------
(***************************************************************************)
(* AuthService over UsersService, OrganizationsService and                 *)
(* RefreshTokensService: who belongs to which organization, where a login  *)
(* lands, and the chain of refresh tokens a session goes through.          *)
(*                                                                         *)
(* An account is its lower-cased email, which is unique in users.  A       *)
(* request that issues several statements is in flight in a slot of        *)
(* Requests; a transaction is one action, and one that rolls back, or a    *)
(* request refused before its first write, leaves nothing.  Guards that    *)
(* only ever turn true (a registered user, a member, a member's role:      *)
(* nothing removes or changes them) are part of the write they protect.    *)
(* Any token ever issued may be presented any number of times: a client    *)
(* that lost an answer retries with the token it has.                      *)
(***************************************************************************)
EXTENDS Naturals, FiniteSets

CONSTANTS
    Users,          \* emails, each of at most one account
    Organizations,  \* ids of organizations
    Tokens,         \* refresh tokens, fresh by their random jti
    Requests,       \* bound: requests in flight at once
    None            \* no row, or nothing yet

ASSUME NoneIsNothing ==
    None \notin Users \cup Organizations \cup Tokens
                  \cup {"owner", "admin", "member", "live", "revoked"}
ASSUME RequestsAreFinite == IsFiniteSet(Requests)

VARIABLES
    registered,     \* rows of users
    lastActive,     \* users.lastActiveOrganizationId
    organizations,  \* rows of organizations
    role,           \* rows of organization_members: the role of a user in an
                    \* organization, None for no row
    holder,         \* refresh_tokens.userId; None while there is no row
    revoked,        \* tokens whose revokedAt is set
    expired,        \* tokens past their exp claim, which expiresAt repeats
    parent,         \* history: the token a rotation replaced by this one
    loggedOut,      \* history: tokens that logout revoked
    request         \* the requests in flight

accounts == <<registered, lastActive, organizations, role>>
tokens == <<holder, revoked, expired, parent, loggedOut>>
vars == <<accounts, tokens, request>>

Roles == {"owner", "admin", "member"}
PC == {"idle", "issueRegister", "issueLogin", "resolve", "lookup", "rotate"}
Request ==
    [pc : PC,
     user : Users \cup {None},             \* whose request it is
     seen : Organizations \cup {None},     \* lastActive when it was looked up
     token : Tokens \cup {None},           \* the token presented to refresh
     was : {"live", "revoked", None}]     \* history: what it was by then
Running(pc, user, seen, token, was) ==
    [pc |-> pc, user |-> user, seen |-> seen, token |-> token, was |-> was]
NoRequest == Running("idle", None, None, None, None)

Init ==
    /\ registered = {} /\ organizations = {}
    /\ lastActive = [u \in Users |-> None]
    /\ role = [u \in Users |-> [o \in Organizations |-> None]]
    /\ holder = [t \in Tokens |-> None]
    /\ parent = [t \in Tokens |-> None]
    /\ revoked = {} /\ expired = {} /\ loggedOut = {}
    /\ request = [r \in Requests |-> NoRequest]

findUserOrganizations(u) == {o \in organizations : role[u][o] # None}

\* ROLE_PERMISSIONS and hasPermission, for the two permissions that guard the
\* handlers below.
ROLE_PERMISSIONS ==
    [owner |-> {"organization:read", "member:invite"},
     admin |-> {"organization:read", "member:invite"},
     member |-> {"organization:read"}]

hasPermission(u, o, permission) ==
    role[u][o] # None /\ permission \in ROLE_PERMISSIONS[role[u][o]]

----------------------------------------------------------------------------
\* createUser: the unique index on the email admits one account.
createUser(u) ==
    /\ u \notin registered
    /\ registered' = registered \cup {u}

updateLastActiveOrganization(u, o) == lastActive' = [lastActive EXCEPT ![u] = o]

\* createOwned: the organization and its owner, in one transaction.
createOwned(u, o) ==
    /\ o \notin organizations
    /\ organizations' = organizations \cup {o}
    /\ role' = [role EXCEPT ![u][o] = "owner"]

\* Mutant of Register: the statements are not one transaction, and the last
\* one may fail.
RegisterInParts(r, u, o) ==
    /\ request[r].pc = "idle"
    /\ createUser(u)
    /\ createOwned(u, o)
    /\ \/ /\ updateLastActiveOrganization(u, o)
          /\ request' = [request EXCEPT ![r] =
               Running("issueRegister", u, None, None, None)]
       \/ UNCHANGED <<lastActive, request>>
    /\ UNCHANGED tokens

\* register: user, organization, ownership and pointer commit together.  A
\* second registration of the email meets the unique index and rolls back.
Register(r, u, o) ==
    /\ request[r].pc = "idle"
    /\ createUser(u)
    /\ createOwned(u, o)
    /\ updateLastActiveOrganization(u, o)
    /\ request' = [request EXCEPT ![r] =
         Running("issueRegister", u, None, None, None)]
    /\ UNCHANGED tokens

\* RefreshTokensService.create; the hash of a token with a new jti is new.
createToken(u, t) ==
    /\ holder[t] = None
    /\ holder' = [holder EXCEPT ![t] = u]

issueTokenPair(u, t, replaced) ==
    /\ createToken(u, t)
    /\ parent' = [parent EXCEPT ![t] = replaced]
    /\ UNCHANGED <<expired, loggedOut>>

\* register answers with a pair, and with the organization it created.
IssueRegister(r, t) ==
    /\ request[r].pc = "issueRegister"
    /\ issueTokenPair(request[r].user, t, None)
    /\ request' = [request EXCEPT ![r] = NoRequest]
    /\ UNCHANGED <<accounts, revoked>>

----------------------------------------------------------------------------
\* Mutant of FindByEmail: an unknown email is not refused.
FindByEmailUnchecked(r, u) ==
    /\ request[r].pc = "idle"
    /\ request' = [request EXCEPT ![r] =
         Running("issueLogin", u, lastActive[u], None, None)]
    /\ UNCHANGED <<accounts, tokens>>

\* login: findByEmail reads the row that the rest of the request works from.
FindByEmail(r, u) ==
    /\ request[r].pc = "idle"
    /\ u \in registered
    /\ request' = [request EXCEPT ![r] =
         Running("issueLogin", u, lastActive[u], None, None)]
    /\ UNCHANGED <<accounts, tokens>>

IssueLogin(r, t) ==
    /\ request[r].pc = "issueLogin"
    /\ issueTokenPair(request[r].user, t, None)
    /\ request' = [request EXCEPT ![r].pc = "resolve"]
    /\ UNCHANGED <<accounts, revoked>>

\* The organizations login may answer with: the active one of the row it has
\* read if that membership holds, otherwise the oldest membership (here some
\* membership), and null for a user of no organization.
resolveActiveOrganizationId(u, seen) ==
    LET memberships == findUserOrganizations(u)
    IN  IF memberships = {} THEN {None}
        ELSE IF seen \in memberships THEN {seen}
        ELSE memberships

\* login answers with one of them.
AnswerLogin(r) ==
    /\ request[r].pc = "resolve"
    /\ request' = [request EXCEPT ![r] = NoRequest]
    /\ UNCHANGED <<accounts, tokens>>

----------------------------------------------------------------------------
\* refresh: the signature and the exp claim of the token are verified.
VerifyRefreshToken(r, t) ==
    /\ request[r].pc = "idle"
    /\ holder[t] # None /\ t \notin expired
    /\ request' = [request EXCEPT ![r] =
         Running("lookup", holder[t], None, t,
                 IF t \in revoked THEN "revoked" ELSE "live")]
    /\ UNCHANGED <<accounts, tokens>>

\* Mutant of findValidByHash: the row is looked up by its hash alone.
findByHash(t) == holder[t] # None

findValidByHash(t) == holder[t] # None /\ t \notin revoked /\ t \notin expired

\* The row is valid and findById finds the user of the payload.
LookupFinds(r) ==
    /\ request[r].pc = "lookup"
    /\ findValidByHash(request[r].token) /\ request[r].user \in registered
    /\ request' = [request EXCEPT ![r].pc = "rotate"]
    /\ UNCHANGED <<accounts, tokens>>

LookupRefuses(r) ==
    /\ request[r].pc = "lookup"
    /\ ~ (findValidByHash(request[r].token) /\ request[r].user \in registered)
    /\ request' = [request EXCEPT ![r] = NoRequest]
    /\ UNCHANGED <<accounts, tokens>>

\* Mutant of revokeByHash: the UPDATE matches the rows that are revoked already.
revokeByHashRevoked(t) == UNCHANGED revoked

\* revokeByHash: an UPDATE of the rows not revoked yet; nobody asks how many.
revokeByHash(t) == revoked' = revoked \cup {t}

\* The transaction of refresh.  For a token revoked since the lookup, by logout
\* or by another refresh, the UPDATE finds no row and a pair is issued all the
\* same.
Rotate(r, t) ==
    /\ request[r].pc = "rotate"
    /\ revokeByHash(request[r].token)
    /\ issueTokenPair(request[r].user, t, request[r].token)
    /\ request' = [request EXCEPT ![r] = NoRequest]
    /\ UNCHANGED accounts

\* Mutant of Fail: revokeByHash runs outside the transaction.
FailAfterRevoking(r) ==
    /\ request[r].pc # "idle"
    /\ request' = [request EXCEPT ![r] = NoRequest]
    /\ revoked' = IF request[r].pc = "rotate" THEN revoked \cup {request[r].token}
                  ELSE revoked
    /\ UNCHANGED <<accounts, holder, expired, parent, loggedOut>>

\* The next statement, or any statement of the transaction, rejects, or the
\* process dies: what the request committed before stays.
Fail(r) ==
    /\ request[r].pc # "idle"
    /\ request' = [request EXCEPT ![r] = NoRequest]
    /\ UNCHANGED <<accounts, tokens>>

\* logout: one UPDATE.
Logout(t) ==
    /\ holder[t] # None /\ t \notin revoked
    /\ revokeByHash(t)
    /\ loggedOut' = loggedOut \cup {t}
    /\ UNCHANGED <<accounts, holder, expired, parent, request>>

\* Time passes: exp and expiresAt of a token are behind the clock.  A revoked
\* token is refused either way, so only the expiry of the others is followed.
Expire(t) ==
    /\ holder[t] # None /\ t \notin revoked
    /\ expired' = expired \cup {t}
    /\ UNCHANGED <<accounts, holder, revoked, parent, loggedOut, request>>

----------------------------------------------------------------------------
\* POST /organizations: the new organization does not become the active one.
CreateOrganization(u, o) ==
    /\ u \in registered
    /\ createOwned(u, o)
    /\ UNCHANGED <<registered, lastActive, tokens, request>>

\* Mutant of AddMember: the INSERT replaces the row the unique index refuses.
AddMemberUpsert(actor, u, o) ==
    /\ hasPermission(actor, o, "member:invite")
    /\ u \in registered
    /\ \E invited \in {"admin", "member"} : role' = [role EXCEPT ![u][o] = invited]
    /\ UNCHANGED <<registered, lastActive, organizations, tokens, request>>

\* POST /organizations/members: an account is found by its email and a row is
\* inserted with a role AddMemberDto admits.
AddMember(actor, u, o) ==
    /\ hasPermission(actor, o, "member:invite")
    /\ u \in registered
    /\ role[u][o] = None
    /\ \E invited \in {"admin", "member"} : role' = [role EXCEPT ![u][o] = invited]
    /\ UNCHANGED <<registered, lastActive, organizations, tokens, request>>

\* POST /organizations/active.
SetActive(u, o) ==
    /\ hasPermission(u, o, "organization:read")
    /\ o \in organizations
    /\ updateLastActiveOrganization(u, o)
    /\ UNCHANGED <<registered, organizations, role, tokens, request>>

LoginStep(r) ==
    \/ \E u \in Users, o \in Organizations : Register(r, u, o)
    \/ \E u \in Users : FindByEmail(r, u)
    \/ \E t \in Tokens : IssueRegister(r, t) \/ IssueLogin(r, t)
    \/ AnswerLogin(r)

RefreshStep(r) ==
    \/ \E t \in Tokens : VerifyRefreshToken(r, t) \/ Rotate(r, t)
    \/ LookupFinds(r) \/ LookupRefuses(r)

OrganizationStep(u, o) ==
    \/ CreateOrganization(u, o) \/ SetActive(u, o)
    \/ \E invitee \in Users : AddMember(u, invitee, o)

Next ==
    \/ \E r \in Requests : LoginStep(r) \/ RefreshStep(r) \/ Fail(r)
    \/ \E t \in Tokens : Logout(t) \/ Expire(t)
    \/ \E u \in Users, o \in Organizations : OrganizationStep(u, o)

Spec == Init /\ [][Next]_vars

----------------------------------------------------------------------------
TypeOK ==
    /\ registered \subseteq Users /\ organizations \subseteq Organizations
    /\ lastActive \in [Users -> Organizations \cup {None}]
    /\ role \in [Users -> [Organizations -> Roles \cup {None}]]
    /\ holder \in [Tokens -> Users \cup {None}]
    /\ parent \in [Tokens -> Tokens \cup {None}]
    /\ revoked \subseteq Tokens /\ expired \subseteq Tokens
    /\ loggedOut \subseteq Tokens
    /\ request \in [Requests -> Request]
    /\ \A r \in Requests : request[r].pc # "idle" => request[r].user \in registered

\* Every organization has exactly one owner, and only registered users are
\* members: no sequence of registrations, creations and invitations, by anyone
\* and with any of them failing, leaves an organization nobody can manage or
\* hands its ownership on.
OneOwner ==
    /\ \A o \in organizations :
         \E u \in registered :
             /\ role[u][o] = "owner"
             /\ \A w \in Users : role[w][o] = "owner" => w = u
    /\ \A u \in Users, o \in Organizations :
         role[u][o] # None => u \in registered /\ o \in organizations

\* A login always lands, whenever it gets to answer, and in the organization
\* that was the user's active one when it read the account: the switches,
\* creations and invitations that run between its statements do not divert it,
\* and the fallback to the oldest membership is never needed.
LoginRestoresOrganization ==
    \A r \in Requests :
        LET q == request[r]
        IN  q.pc = "resolve" =>
              /\ q.seen # None
              /\ resolveActiveOrganizationId(q.user, q.seen) = {q.seen}

\* A refresh neither loses a session nor leaves its old token live: the token
\* it replaces is revoked and had the same holder, and a token is revoked only
\* by logout or together with a successor, whatever fails or overlaps.
RotationIsAtomic ==
    /\ \A t \in Tokens : parent[t] # None =>
         parent[t] \in revoked /\ holder[parent[t]] = holder[t] /\ holder[t] # None
    /\ \A t \in revoked : t \in loggedOut \/ \E n \in Tokens : parent[n] = t

\* A refresh that begins after its token was revoked, by a logout or a finished
\* refresh, never reaches the transaction that issues a pair: a retry forks no
\* session.  Refreshes that overlap may.
SpentTokenIsRefused ==
    \A r \in Requests : request[r].pc = "rotate" => request[r].was = "live"

\* A token is replaced at most once by each of the refreshes that were under
\* way when it was first replaced: they had all looked it up before, and no
\* refresh joins them after.  So refreshes that overlap fork a session, but into
\* no more branches than there were requests at one time, however often the
\* token is presented, and a branch that a request has yet to add is counted.
Successors(t) == {n \in Tokens : parent[n] = t}
RotatingFrom(t) == {r \in Requests : request[r].pc = "rotate" /\ request[r].token = t}

ForksAreBounded ==
    \A t \in Tokens :
        Cardinality(Successors(t)) + Cardinality(RotatingFrom(t)) <= Cardinality(Requests)
=============================================================================
