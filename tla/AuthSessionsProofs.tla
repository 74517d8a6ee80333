------------------------- MODULE AuthSessionsProofs -------------------------
(***************************************************************************)
(* Proofs about AuthSessions for every set of users, organizations, tokens *)
(* and requests.  Organizations and accounts are proved apart from tokens: *)
(* AccountInv says what every registered user has, RequestInv carries it   *)
(* to the statements of a login and ties a refresh to the row it has read. *)
(* The branches of a session are counted on top of that invariant.         *)
(***************************************************************************)
EXTENDS AuthSessions, FiniteSetTheorems, TLAPS

\* A registered user has an active organization and belongs to it.
AccountInv ==
    \A u \in registered :
        lastActive[u] \in Organizations /\ role[u][lastActive[u]] # None

\* What a request holds on to still stands: memberships are not removed, a
\* token's holder does not change, and a revocation is not undone.
RequestInvOf(r) ==
    LET q == request[r]
    IN  /\ q.pc \in {"issueLogin", "resolve"} =>
             q.seen \in Organizations /\ role[q.user][q.seen] # None
        /\ q.pc \in {"lookup", "rotate"} =>
             q.token \in Tokens /\ holder[q.token] = q.user
        /\ q.pc = "lookup" => q.was = "live" \/ q.token \in revoked

RequestInv == \A r \in Requests : RequestInvOf(r)

\* Tokens are issued to registered users, and only issued tokens are revoked.
TokenInv ==
    /\ \A t \in Tokens : holder[t] # None => holder[t] \in registered
    /\ \A t \in revoked : holder[t] # None

IInv ==
    /\ TypeOK /\ OneOwner /\ AccountInv /\ RequestInv /\ TokenInv
    /\ RotationIsAtomic /\ SpentTokenIsRefused

LEMMA InitIInv == Init => IInv
BY NoneIsNothing
   DEF Init, IInv, TypeOK, OneOwner, AccountInv, RequestInv, RequestInvOf, TokenInv,
       RotationIsAtomic, SpentTokenIsRefused, NoRequest, Running, Request, PC, Roles

\* createOwned gives a new organization its one owner and keeps the others'.
LEMMA CreateOwnedOneOwner ==
    ASSUME TypeOK, OneOwner, NEW u \in Users, NEW o \in Organizations,
           registered' = registered \cup {u}, createOwned(u, o)
    PROVE  /\ OneOwner'
           /\ role' \in [Users -> [Organizations -> Roles \cup {None}]]
           /\ organizations' \subseteq Organizations
           /\ role'[u][o] # None
           /\ \A w \in Users, p \in Organizations :
                role[w][p] # None => role'[w][p] # None
<1> USE NoneIsNothing DEF createOwned, TypeOK, Roles
<1>1. /\ role' \in [Users -> [Organizations -> Roles \cup {None}]]
      /\ organizations' \subseteq Organizations
  OBVIOUS
<1>2. \A w \in Users, p \in Organizations :
        role'[w][p] = IF w = u /\ p = o THEN "owner" ELSE role[w][p]
  OBVIOUS
<1>3. \A w \in Users : role[w][o] = None
  BY DEF OneOwner
<1>4. OneOwner'
  <2>1. ASSUME NEW p \in organizations'
        PROVE  \E v \in registered' :
                 /\ role'[v][p] = "owner"
                 /\ \A w \in Users : role'[w][p] = "owner" => w = v
    <3>1. CASE p = o BY <3>1, <1>2, <1>3
    <3>2. CASE p # o
      <4>1. p \in organizations BY <3>2
      <4>2. PICK v \in registered :
              /\ role[v][p] = "owner"
              /\ \A w \in Users : role[w][p] = "owner" => w = v
        BY <4>1 DEF OneOwner
      <4>3. QED BY <4>1, <4>2, <3>2, <1>2
    <3>3. QED BY <3>1, <3>2
  <2>2. \A w \in Users, p \in Organizations :
          role'[w][p] # None => w \in registered' /\ p \in organizations'
    BY <1>2 DEF OneOwner
  <2>3. QED BY <2>1, <2>2 DEF OneOwner
<1>5. QED BY <1>1, <1>2, <1>4

\* The statements of register and login.
LEMMA LoginStepIInv ==
    ASSUME IInv, NEW r \in Requests, LoginStep(r)
    PROVE  IInv'
<1> USE NoneIsNothing
<1> USE DEF IInv, TypeOK, AccountInv, RequestInv, RequestInvOf, TokenInv,
            RotationIsAtomic, SpentTokenIsRefused, NoRequest, Running, Request,
            PC, Roles, accounts, tokens
<1>1. ASSUME NEW u \in Users, NEW o \in Organizations, Register(r, u, o)
      PROVE  IInv'
  <2>1. /\ OneOwner'
        /\ role' \in [Users -> [Organizations -> Roles \cup {None}]]
        /\ organizations' \subseteq Organizations
        /\ role'[u][o] # None
        /\ \A w \in Users, p \in Organizations :
             role[w][p] # None => role'[w][p] # None
    BY <1>1, CreateOwnedOneOwner DEF Register, createUser, updateLastActiveOrganization
  <2>2. TypeOK' BY <1>1, <2>1 DEF Register, createUser, updateLastActiveOrganization
  <2>3. AccountInv'
    BY <1>1, <2>1 DEF Register, createUser, updateLastActiveOrganization
  <2>4. RequestInv' /\ SpentTokenIsRefused'
    BY <1>1, <2>1 DEF Register, createUser, updateLastActiveOrganization
  <2>5. TokenInv' /\ RotationIsAtomic'
    BY <1>1 DEF Register, createUser, updateLastActiveOrganization
  <2>6. QED BY <2>1, <2>2, <2>3, <2>4, <2>5
<1>2. ASSUME NEW u \in Users, FindByEmail(r, u) PROVE IInv'
  BY <1>2 DEF FindByEmail, OneOwner
<1>3. ASSUME NEW t \in Tokens, IssueRegister(r, t) \/ IssueLogin(r, t) PROVE IInv'
  <2> DEFINE u == request[r].user
  <2>1. /\ UNCHANGED <<accounts, revoked, expired, loggedOut>>
        /\ holder[t] = None /\ holder' = [holder EXCEPT ![t] = u]
        /\ parent' = [parent EXCEPT ![t] = None]
        /\ u \in registered
    BY <1>3 DEF IssueRegister, IssueLogin, issueTokenPair, createToken
  <2>2. \/ request' = [request EXCEPT ![r] = NoRequest]
        \/ /\ request[r].pc = "issueLogin"
           /\ request' = [request EXCEPT ![r].pc = "resolve"]
    BY <1>3 DEF IssueRegister, IssueLogin
  <2>3. OneOwner' /\ AccountInv'
    BY <2>1 DEF OneOwner
  <2>4. TokenInv' /\ RotationIsAtomic'
    BY <2>1
  <2>5. CASE request' = [request EXCEPT ![r] = NoRequest]
    <3>1. TypeOK' BY <2>1, <2>5
    <3>2. RequestInv' /\ SpentTokenIsRefused' BY <2>1, <2>5
    <3>3. QED BY <3>1, <3>2, <2>3, <2>4
  <2>6. CASE /\ request[r].pc = "issueLogin"
             /\ request' = [request EXCEPT ![r].pc = "resolve"]
    <3>1. TypeOK'
      <4>1. request[r] \in Request OBVIOUS
      <4>2. [request[r] EXCEPT !.pc = "resolve"] \in Request BY <4>1
      <4>3. request' \in [Requests -> Request] BY <2>6, <4>2
      <4>4. \A q \in Requests : request'[q].pc # "idle" => request'[q].user \in registered
        BY <2>6
      <4>5. QED BY <2>1, <4>3, <4>4
    <3>2. RequestInv' /\ SpentTokenIsRefused' BY <2>1, <2>6
    <3>3. QED BY <3>1, <3>2, <2>3, <2>4
  <2>7. QED BY <2>2, <2>5, <2>6
<1>4. ASSUME AnswerLogin(r) PROVE IInv'
  BY <1>4 DEF AnswerLogin, OneOwner
<1>5. QED BY <1>1, <1>2, <1>3, <1>4 DEF LoginStep

\* The statements of refresh.
LEMMA RefreshStepIInv ==
    ASSUME IInv, NEW r \in Requests, RefreshStep(r)
    PROVE  IInv'
<1> USE NoneIsNothing
<1> USE DEF IInv, TypeOK, AccountInv, RequestInv, RequestInvOf, TokenInv,
            RotationIsAtomic, SpentTokenIsRefused, NoRequest, Running, Request,
            PC, Roles, accounts, tokens
<1>1. ASSUME NEW t \in Tokens, VerifyRefreshToken(r, t) PROVE IInv'
  <2>1. OneOwner' BY <1>1 DEF VerifyRefreshToken, OneOwner
  <2> DEFINE was == IF t \in revoked THEN "revoked" ELSE "live"
             q == Running("lookup", holder[t], None, t, was)
  <2>2. /\ UNCHANGED <<accounts, tokens>>
        /\ request' = [request EXCEPT ![r] = q]
        /\ holder[t] # None
    BY <1>1 DEF VerifyRefreshToken
  <2>3. holder[t] \in registered
    BY <2>2
  <2>4. was \in {"live", "revoked"} /\ (was = "revoked" => t \in revoked)
    OBVIOUS
  <2> HIDE DEF was
  <2>5. QED BY <2>1, <2>2, <2>3, <2>4
<1>2. ASSUME NEW t \in Tokens, Rotate(r, t) PROVE IInv'
  <2> DEFINE u == request[r].user
             old == request[r].token
  <2>1. /\ UNCHANGED <<accounts, expired, loggedOut>>
        /\ revoked' = revoked \cup {old}
        /\ holder[t] = None /\ holder' = [holder EXCEPT ![t] = u]
        /\ parent' = [parent EXCEPT ![t] = old]
        /\ request' = [request EXCEPT ![r] = NoRequest]
    BY <1>2 DEF Rotate, revokeByHash, issueTokenPair, createToken
  <2>2. /\ u \in registered /\ u \in Users /\ u # None
        /\ old \in Tokens /\ holder[old] = u /\ old # t
    BY <1>2, <2>1 DEF Rotate
  <2>3. OneOwner' /\ AccountInv'
    BY <2>1 DEF OneOwner
  <2>4. TypeOK' BY <2>1, <2>2
  <2>5. RequestInv' /\ SpentTokenIsRefused' BY <2>1, <2>2
  <2>6. TokenInv' /\ RotationIsAtomic' BY <2>1, <2>2
  <2>7. QED BY <2>3, <2>4, <2>5, <2>6
<1>3. ASSUME LookupFinds(r) PROVE IInv'
  <2>1. OneOwner' BY <1>3 DEF LookupFinds, OneOwner
  <2>2. request[r].was = "live" BY <1>3 DEF LookupFinds, findValidByHash
  <2>3. /\ UNCHANGED <<accounts, tokens>>
        /\ request[r].pc = "lookup"
        /\ request' = [request EXCEPT ![r].pc = "rotate"]
    BY <1>3 DEF LookupFinds
  <2>4. TypeOK'
    <3>1. request[r] \in Request OBVIOUS
    <3>2. [request[r] EXCEPT !.pc = "rotate"] \in Request BY <3>1
    <3>3. request' \in [Requests -> Request] BY <2>3, <3>2
    <3>4. \A q \in Requests : request'[q].pc # "idle" => request'[q].user \in registered
      BY <2>3
    <3>5. QED BY <2>3, <3>3, <3>4
  <2>5. RequestInv' /\ SpentTokenIsRefused' BY <2>2, <2>3
  <2>6. AccountInv' /\ TokenInv' /\ RotationIsAtomic' BY <2>3
  <2>7. QED BY <2>1, <2>4, <2>5, <2>6
<1>4. ASSUME LookupRefuses(r) PROVE IInv'
  BY <1>4 DEF LookupRefuses, OneOwner
<1>5. QED BY <1>1, <1>2, <1>3, <1>4 DEF RefreshStep

\* A failure, a logout, and time.
LEMMA TokenStepIInv ==
    ASSUME IInv,
           \/ \E r \in Requests : Fail(r)
           \/ \E t \in Tokens : Logout(t) \/ Expire(t)
    PROVE  IInv'
<1> USE NoneIsNothing
<1> USE DEF IInv, TypeOK, OneOwner, AccountInv, RequestInv, RequestInvOf, TokenInv,
            RotationIsAtomic, SpentTokenIsRefused, NoRequest, Running, Request,
            PC, Roles, accounts, tokens
<1>1. ASSUME NEW r \in Requests, Fail(r) PROVE IInv'
  BY <1>1 DEF Fail
<1>2. ASSUME NEW t \in Tokens, Logout(t) PROVE IInv'
  BY <1>2 DEF Logout, revokeByHash
<1>3. ASSUME NEW t \in Tokens, Expire(t) PROVE IInv'
  BY <1>3 DEF Expire
<1>4. QED BY <1>1, <1>2, <1>3

\* The organization requests.
LEMMA OrganizationStepIInv ==
    ASSUME IInv, NEW u \in Users, NEW o \in Organizations, OrganizationStep(u, o)
    PROVE  IInv'
<1> USE NoneIsNothing
<1> USE DEF IInv, TypeOK, AccountInv, RequestInv, RequestInvOf, TokenInv,
            RotationIsAtomic, SpentTokenIsRefused, Request, PC, Roles, accounts, tokens
<1>1. ASSUME CreateOrganization(u, o) PROVE IInv'
  <2>1. registered' = registered \cup {u} /\ createOwned(u, o)
    BY <1>1 DEF CreateOrganization
  <2>2. /\ OneOwner'
        /\ role' \in [Users -> [Organizations -> Roles \cup {None}]]
        /\ organizations' \subseteq Organizations
        /\ \A w \in Users, p \in Organizations :
             role[w][p] # None => role'[w][p] # None
    BY <2>1, CreateOwnedOneOwner
  <2>3. TypeOK' /\ AccountInv' /\ RequestInv'
    BY <1>1, <2>2 DEF CreateOrganization
  <2>4. TokenInv' /\ RotationIsAtomic' /\ SpentTokenIsRefused'
    BY <1>1 DEF CreateOrganization
  <2>5. QED BY <2>2, <2>3, <2>4
<1>2. ASSUME SetActive(u, o) PROVE IInv'
  BY <1>2
     DEF SetActive, updateLastActiveOrganization, hasPermission, OneOwner
<1>3. ASSUME NEW invitee \in Users, AddMember(u, invitee, o) PROVE IInv'
  <2>1. PICK invited \in {"admin", "member"} :
          role' = [role EXCEPT ![invitee][o] = invited]
    BY <1>3 DEF AddMember
  <2>2. \A w \in Users, p \in Organizations :
          role'[w][p] = IF w = invitee /\ p = o THEN invited ELSE role[w][p]
    BY <2>1
  <2>3. role[invitee][o] = None /\ invitee \in registered /\ role[u][o] # None
    BY <1>3 DEF AddMember, hasPermission
  <2>4. TypeOK'
    BY <1>3, <2>1 DEF AddMember
  <2>5. OneOwner'
    <3>1. o \in organizations BY <2>3 DEF OneOwner
    <3>2. \A p \in organizations :
            \E v \in registered :
              /\ role[v][p] = "owner"
              /\ \A w \in Users : role[w][p] = "owner" => w = v
      BY DEF OneOwner
    <3>3. \A w \in Users, p \in Organizations :
            role'[w][p] = "owner" <=> role[w][p] = "owner"
      BY <2>2, <2>3
    <3>4. registered' = registered /\ organizations' = organizations
      BY <1>3 DEF AddMember
    <3>5. \A w \in Users, p \in Organizations :
            role'[w][p] # None => w \in registered /\ p \in organizations
      BY <2>2, <2>3, <3>1 DEF OneOwner
    <3>6. \A p \in organizations :
            \E v \in registered :
              /\ role'[v][p] = "owner"
              /\ \A w \in Users : role'[w][p] = "owner" => w = v
      BY <3>2, <3>3
    <3>7. QED BY <3>4, <3>5, <3>6 DEF OneOwner
  <2>6. AccountInv' /\ RequestInv'
    BY <1>3, <2>2, <2>3 DEF AddMember
  <2>7. TokenInv' /\ RotationIsAtomic' /\ SpentTokenIsRefused'
    BY <1>3 DEF AddMember
  <2>8. QED BY <2>4, <2>5, <2>6, <2>7
<1>4. QED BY <1>1, <1>2, <1>3 DEF OrganizationStep

\* The inductive invariant.
THEOREM Invariance == Spec => []IInv
<1>1. IInv /\ [Next]_vars => IInv'
  <2> SUFFICES ASSUME IInv, [Next]_vars PROVE IInv'
    OBVIOUS
  <2>1. CASE UNCHANGED vars
    BY <2>1
       DEF vars, accounts, tokens, IInv, TypeOK, OneOwner, AccountInv, RequestInv,
           RequestInvOf, TokenInv, RotationIsAtomic, SpentTokenIsRefused
  <2>2. CASE \E r \in Requests : LoginStep(r) \/ RefreshStep(r)
    BY <2>2, LoginStepIInv, RefreshStepIInv
  <2>3. CASE \/ \E r \in Requests : Fail(r)
             \/ \E t \in Tokens : Logout(t) \/ Expire(t)
    BY <2>3, TokenStepIInv
  <2>4. CASE \E u \in Users, o \in Organizations : OrganizationStep(u, o)
    BY <2>4, OrganizationStepIInv
  <2>5. QED BY <2>1, <2>2, <2>3, <2>4 DEF Next
<1>2. QED BY <1>1, InitIInv, PTL DEF Spec

\* The tables and the requests have the types the schema and the code give
\* them, and a request in flight works for an account that exists.
THEOREM TypeCorrect == Spec => []TypeOK
<1>1. IInv => TypeOK BY DEF IInv
<1>2. QED BY <1>1, Invariance, PTL

\* Every organization has one owner, among the registered users.
THEOREM OrganizationsHaveOneOwner == Spec => []OneOwner
<1>1. IInv => OneOwner BY DEF IInv
<1>2. QED BY <1>1, Invariance, PTL

\* A login lands in the organization that was active when it read the account.
THEOREM LoginLands == Spec => []LoginRestoresOrganization
<1>1. ASSUME IInv PROVE LoginRestoresOrganization
  <2>1. SUFFICES ASSUME NEW r \in Requests, request[r].pc = "resolve"
                 PROVE  /\ request[r].seen # None
                        /\ resolveActiveOrganizationId(request[r].user,
                             request[r].seen) = {request[r].seen}
    BY DEF LoginRestoresOrganization
  <2>2. /\ request[r].seen \in Organizations
        /\ role[request[r].user][request[r].seen] # None
    BY <1>1, <2>1 DEF IInv, RequestInv, RequestInvOf
  <2>3. request[r].user \in registered /\ registered \subseteq Users
    BY <1>1, <2>1 DEF IInv, TypeOK
  <2>4. request[r].seen \in findUserOrganizations(request[r].user)
    BY <1>1, <2>2, <2>3 DEF IInv, OneOwner, findUserOrganizations
  <2>5. QED
    BY <2>2, <2>4, NoneIsNothing DEF resolveActiveOrganizationId
<1>2. QED BY <1>1, Invariance, PTL

\* A refresh neither loses a session nor leaves its old token live.
THEOREM RotationAtomic == Spec => []RotationIsAtomic
<1>1. IInv => RotationIsAtomic BY DEF IInv
<1>2. QED BY <1>1, Invariance, PTL

\* A token revoked before a refresh begins never yields a pair.
THEOREM SpentTokenRefused == Spec => []SpentTokenIsRefused
<1>1. IInv => SpentTokenIsRefused BY DEF IInv
<1>2. QED BY <1>1, Invariance, PTL

----------------------------------------------------------------------------
\* The branches of a session.

ForkInvOf(t) ==
    /\ IsFiniteSet(Successors(t))
    /\ Cardinality(Successors(t)) + Cardinality(RotatingFrom(t)) <= Cardinality(Requests)

ForkInv == \A t \in Tokens : ForkInvOf(t)

\* The refreshes of a token are requests, so there are finitely many.
LEMMA RotatingIsFinite ==
    ASSUME NEW t \in Tokens
    PROVE  /\ IsFiniteSet(RotatingFrom(t))
           /\ Cardinality(RotatingFrom(t)) <= Cardinality(Requests)
           /\ IsFiniteSet(RotatingFrom(t)')
           /\ Cardinality(RotatingFrom(t)') <= Cardinality(Requests)
<1>1. RotatingFrom(t) \subseteq Requests /\ RotatingFrom(t)' \subseteq Requests
  BY DEF RotatingFrom
<1>2. QED BY <1>1, RequestsAreFinite, FS_Subset

LEMMA InitForkInv == Init => ForkInv
<1> SUFFICES ASSUME Init, NEW t \in Tokens PROVE ForkInvOf(t)
  BY DEF ForkInv
<1>1. Successors(t) = {} BY NoneIsNothing DEF Init, Successors
<1>2. Cardinality({}) = 0 /\ IsFiniteSet({}) BY FS_EmptySet
<1>3. /\ Cardinality(RotatingFrom(t)) <= Cardinality(Requests)
      /\ Cardinality(RotatingFrom(t)) \in Nat
  BY RotatingIsFinite, FS_CardinalityType
<1>4. QED BY <1>1, <1>2, <1>3 DEF ForkInvOf

\* A step after which a token has neither a new successor nor a new refresh.
LEMMA ForksShrink ==
    ASSUME NEW t \in Tokens, ForkInvOf(t),
           Successors(t)' \subseteq Successors(t),
           RotatingFrom(t)' \subseteq RotatingFrom(t)
    PROVE  ForkInvOf(t)'
<1>1. /\ IsFiniteSet(Successors(t)')
      /\ Cardinality(Successors(t)') <= Cardinality(Successors(t))
  BY FS_Subset DEF ForkInvOf
<1>2. Cardinality(RotatingFrom(t)') <= Cardinality(RotatingFrom(t))
  BY RotatingIsFinite, FS_Subset
<1>3. /\ Cardinality(Successors(t)) \in Nat /\ Cardinality(Successors(t)') \in Nat
      /\ Cardinality(RotatingFrom(t)) \in Nat /\ Cardinality(RotatingFrom(t)') \in Nat
      /\ Cardinality(Requests) \in Nat
  BY <1>1, RotatingIsFinite, RequestsAreFinite, FS_CardinalityType DEF ForkInvOf
<1>4. Cardinality(Successors(t)') + Cardinality(RotatingFrom(t)')
        <= Cardinality(Requests)
  BY <1>1, <1>2, <1>3 DEF ForkInvOf
<1>5. QED BY <1>1, <1>4 DEF ForkInvOf

\* A refresh that finds its token not revoked finds it without a successor, so
\* only the requests bound how many may join it.
LEMMA LookupForkInv ==
    ASSUME IInv, ForkInv, NEW r \in Requests, LookupFinds(r)
    PROVE  ForkInv'
<1> SUFFICES ASSUME NEW t \in Tokens PROVE ForkInvOf(t)'
  BY DEF ForkInv
<1>1. /\ parent' = parent
      /\ request' = [request EXCEPT ![r].pc = "rotate"]
      /\ request[r].token \notin revoked
      /\ request \in [Requests -> Request]
  BY DEF LookupFinds, findValidByHash, tokens, IInv, TypeOK
<1>2. Successors(t)' = Successors(t) BY <1>1 DEF Successors
<1>3. CASE t = request[r].token
  <2>1. Successors(t) = {}
    BY <1>1, <1>3, NoneIsNothing DEF IInv, RotationIsAtomic, Successors
  <2>2. Successors(t)' = {} /\ Cardinality({}) = 0 /\ IsFiniteSet({})
    BY <1>2, <2>1, FS_EmptySet
  <2>3. /\ Cardinality(RotatingFrom(t)') <= Cardinality(Requests)
        /\ Cardinality(RotatingFrom(t)') \in Nat
    BY RotatingIsFinite, FS_CardinalityType
  <2>4. Cardinality(Successors(t)') + Cardinality(RotatingFrom(t)')
          <= Cardinality(Requests)
    BY <2>2, <2>3
  <2>5. QED BY <2>2, <2>4 DEF ForkInvOf
<1>4. CASE t # request[r].token
  <2>1. RotatingFrom(t)' \subseteq RotatingFrom(t)
    BY <1>1, <1>4 DEF RotatingFrom, Request
  <2>2. ForkInvOf(t) BY DEF ForkInv
  <2>3. QED BY <1>2, <2>1, <2>2, ForksShrink
<1>5. QED BY <1>3, <1>4

\* A rotation turns a refresh of the token into a successor of it.
LEMMA RotateForkInv ==
    ASSUME IInv, ForkInv, NEW r \in Requests, NEW n \in Tokens, Rotate(r, n)
    PROVE  ForkInv'
<1> SUFFICES ASSUME NEW t \in Tokens PROVE ForkInvOf(t)'
  BY DEF ForkInv
<1> DEFINE old == request[r].token
<1>1. /\ parent \in [Tokens -> Tokens \cup {None}] /\ parent[n] = None
      /\ parent' = [parent EXCEPT ![n] = old]
      /\ request[r].pc = "rotate"
      /\ request' = [request EXCEPT ![r] = NoRequest]
      /\ request \in [Requests -> Request]
  BY DEF Rotate, issueTokenPair, createToken, IInv, TypeOK, RotationIsAtomic
<1>2. NoRequest.pc = "idle" BY DEF NoRequest, Running
<1>3. RotatingFrom(t)' = RotatingFrom(t) \ {r} BY <1>1, <1>2 DEF RotatingFrom
<1>4. ForkInvOf(t) BY DEF ForkInv
<1>5. CASE t = old
  <2>1. Successors(t)' = Successors(t) \cup {n} /\ n \notin Successors(t)
    BY <1>1, <1>5, NoneIsNothing DEF Successors
  <2>2. r \in RotatingFrom(t) BY <1>1, <1>5 DEF RotatingFrom
  <2>3. /\ IsFiniteSet(Successors(t)')
        /\ Cardinality(Successors(t)') = Cardinality(Successors(t)) + 1
    BY <1>4, <2>1, FS_AddElement DEF ForkInvOf
  <2>4. Cardinality(RotatingFrom(t)') = Cardinality(RotatingFrom(t)) - 1
    BY <1>3, <2>2, RotatingIsFinite, FS_RemoveElement
  <2>5. /\ Cardinality(Successors(t)) \in Nat /\ Cardinality(RotatingFrom(t)) \in Nat
        /\ Cardinality(Requests) \in Nat
    BY <1>4, RotatingIsFinite, RequestsAreFinite, FS_CardinalityType DEF ForkInvOf
  <2>6. Cardinality(Successors(t)) + Cardinality(RotatingFrom(t)) <= Cardinality(Requests)
    BY <1>4 DEF ForkInvOf
  <2>7. Cardinality(Successors(t)') + Cardinality(RotatingFrom(t)')
          <= Cardinality(Requests)
    BY <2>3, <2>4, <2>5, <2>6
  <2>8. QED BY <2>3, <2>7 DEF ForkInvOf
<1>6. CASE t # old
  <2>1. Successors(t)' \subseteq Successors(t) BY <1>1, <1>6 DEF Successors
  <2>2. QED BY <1>3, <1>4, <2>1, ForksShrink
<1>7. QED BY <1>5, <1>6

\* Every other step leaves a token's successors alone, and each request that
\* may rotate was there before.
LEMMA OtherStepsAddNothing ==
    ASSUME IInv, [Next]_vars,
           ~ \E r \in Requests : LookupFinds(r) \/ \E n \in Tokens : Rotate(r, n)
    PROVE  /\ parent' = parent \/ \E n \in Tokens : parent' = [parent EXCEPT ![n] = None]
           /\ \A s \in Requests :
                request'[s].pc = "rotate" => request'[s] = request[s]
<1> DEFINE Kept == \A s \in Requests :
                     request'[s].pc = "rotate" => request'[s] = request[s]
<1>1. request \in [Requests -> Request] BY DEF IInv, TypeOK
<1> USE DEF tokens, NoRequest, Running
<1>2. CASE UNCHANGED vars BY <1>2 DEF vars
<1>3. ASSUME NEW r \in Requests, LoginStep(r)
      PROVE  (parent' = parent \/ \E n \in Tokens : parent' = [parent EXCEPT ![n] = None]) /\ Kept
  <2>1. CASE \E u \in Users, o \in Organizations : Register(r, u, o)
    BY <1>1, <2>1 DEF Register
  <2>2. CASE \E u \in Users : FindByEmail(r, u)
    BY <1>1, <2>2 DEF FindByEmail
  <2>3. CASE \E n \in Tokens : IssueRegister(r, n)
    <3>1. \E n \in Tokens : parent' = [parent EXCEPT ![n] = None]
      BY <2>3 DEF IssueRegister, issueTokenPair
    <3>2. Kept BY <1>1, <2>3 DEF IssueRegister
    <3>3. QED BY <3>1, <3>2
  <2>4. CASE \E n \in Tokens : IssueLogin(r, n)
    <3>1. \E n \in Tokens : parent' = [parent EXCEPT ![n] = None]
      BY <2>4 DEF IssueLogin, issueTokenPair
    <3>2. Kept BY <1>1, <2>4 DEF IssueLogin
    <3>3. QED BY <3>1, <3>2
  <2>5. CASE AnswerLogin(r) BY <1>1, <2>5 DEF AnswerLogin
  <2>6. QED BY <1>3, <2>1, <2>2, <2>3, <2>4, <2>5 DEF LoginStep
<1>4. ASSUME NEW r \in Requests, RefreshStep(r)
      PROVE  parent' = parent /\ Kept
  <2>1. CASE \E n \in Tokens : VerifyRefreshToken(r, n)
    BY <1>1, <2>1 DEF VerifyRefreshToken
  <2>2. CASE LookupRefuses(r) BY <1>1, <2>2 DEF LookupRefuses
  <2>3. QED BY <1>4, <2>1, <2>2 DEF RefreshStep
<1>5. ASSUME NEW r \in Requests, Fail(r) PROVE parent' = parent /\ Kept
  BY <1>1, <1>5 DEF Fail
<1>6. CASE \E n \in Tokens : Logout(n) \/ Expire(n)
  BY <1>6 DEF Logout, Expire
<1>7. CASE \E u \in Users, o \in Organizations : OrganizationStep(u, o)
  BY <1>7 DEF OrganizationStep, CreateOrganization, SetActive, AddMember
<1>8. QED BY <1>2, <1>3, <1>4, <1>5, <1>6, <1>7 DEF Next

LEMMA OtherForkInv ==
    ASSUME IInv, ForkInv, [Next]_vars,
           ~ \E r \in Requests : LookupFinds(r) \/ \E n \in Tokens : Rotate(r, n)
    PROVE  ForkInv'
<1> SUFFICES ASSUME NEW t \in Tokens PROVE ForkInvOf(t)'
  BY DEF ForkInv
<1>1. parent \in [Tokens -> Tokens \cup {None}] BY DEF IInv, TypeOK
<1>2. Successors(t)' \subseteq Successors(t)
  BY <1>1, NoneIsNothing, OtherStepsAddNothing DEF Successors
<1>3. RotatingFrom(t)' \subseteq RotatingFrom(t)
  BY OtherStepsAddNothing DEF RotatingFrom
<1>4. ForkInvOf(t) BY DEF ForkInv
<1>5. QED BY <1>2, <1>3, <1>4, ForksShrink

\* Overlapping refreshes fork a session into no more branches than there were
\* requests at one time.
THEOREM ForksBounded == Spec => []ForksAreBounded
<1>1. IInv /\ ForkInv /\ [Next]_vars => ForkInv'
  BY LookupForkInv, RotateForkInv, OtherForkInv
<1>2. ForkInv => ForksAreBounded BY DEF ForkInv, ForkInvOf, ForksAreBounded
<1>3. QED BY <1>1, <1>2, InitForkInv, Invariance, PTL DEF Spec
=============================================================================
