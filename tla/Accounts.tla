------------------------------ MODULE Accounts ------------------------------
(***************************************************************************)
(* The accounts of one tenant of the scan API in local mode: how a session *)
(* begins, is checked and rotated by every request and is revoked; the     *)
(* one-time credentials (reset links, recovery codes, recovery cases,      *)
(* passkey challenges, invitations); members, their roles and statuses.    *)
(*                                                                         *)
(* A request works on what it read when it was authenticated.  Handlers    *)
(* that are one statement or one transaction are one action; a session is  *)
(* inserted in a transaction of its own, after the one that checks the     *)
(* credential, and a role is checked in three queries before it is         *)
(* written.  A refused request is dropped.  Passwords and e-mail addresses *)
(* are left out, as are passkeys themselves: administrators have enough.   *)
(***************************************************************************)
EXTENDS Naturals, FiniteSets

CONSTANTS
  Users, Owner,          \* Owner: owner_user_id of the organization
  Sessions, Requests,
  Credentials,
  KindOf, UserOf,        \* what a credential is, and the account it is for
  MaxRotations,          \* bound
  Nobody

Kinds == {"reset", "code", "case", "challenge", "stepUp", "invitation"}
Roles == {"TENANT_OWNER", "BRAND_ADMIN", "STORE_RECEIVER"}   \* the last for all the others
Admins == {"TENANT_OWNER", "BRAND_ADMIN"}

ASSUME AccountsAssumption ==
  /\ Owner \in Users /\ Nobody \notin Users \cup Sessions \cup Credentials
  /\ KindOf \in [Credentials -> Kinds] /\ UserOf \in [Credentials -> Users]
  /\ MaxRotations \in Nat

VARIABLES
  users,         \* local_users and local_memberships, which have a role each
  suspended,     \* the status of the tenant
  sessions,      \* admin_sessions: the token is the number of rotations
  requests,      \* in flight
  credentials,   \* a row, until it is used, revoked, replaced or expired
  uses,          \* (history) how often a credential had its effect
  doomed         \* (history) sessions that a reset, freeze or suspension met

accountVars == <<users, suspended, sessions, requests, credentials, uses, doomed>>

NoUser == [status |-> "absent", role |-> "STORE_RECEIVER", userRole |-> "STORE_RECEIVER"]
NoSession == [state |-> "none", user |-> Nobody, token |-> 0, fresh |-> FALSE]
Idle == [doing |-> "idle", user |-> Nobody, role |-> "STORE_RECEIVER", session |-> Nobody,
         token |-> 0, fresh |-> FALSE, target |-> Nobody]

AccountTypeOK ==
  /\ users \in [Users -> [status : {"absent", "ACTIVE", "DISABLED"}, role : Roles,
                          userRole : Roles]]
  /\ suspended \in BOOLEAN
  /\ sessions \in [Sessions -> [state : {"none", "live", "over"}, user : Users \cup {Nobody},
                                token : 0..MaxRotations, fresh : BOOLEAN]]
  /\ requests \in [Requests ->
       [doing : {"idle", "signedIn", "minting", "resetting", "changing"},
        user : Users \cup {Nobody}, role : Roles, session : Sessions \cup {Nobody},
        token : 0..MaxRotations, fresh : BOOLEAN,
        target : Users \cup Credentials \cup {Nobody}]]
  /\ credentials \in [Credentials -> [state : {"absent", "pending", "open", "over"},
                                      role : Roles]]
  /\ uses \in [Credentials -> Nat] /\ doomed \subseteq Sessions

\* The owner registered, or was provisioned by the platform; others have joined since,
\* and some credentials were used up.
AccountInitWith(usedUp) ==
  /\ users \in [Users -> {NoUser} \cup
       {[status |-> "ACTIVE", role |-> x, userRole |-> x] : x \in Roles}]
  /\ users[Owner].role \in Admins
  /\ \A u \in Users \ {Owner} : users[u].role # "TENANT_OWNER"
  /\ suspended = FALSE
  /\ sessions = [s \in Sessions |-> NoSession]
  /\ requests = [r \in Requests |-> Idle]
  /\ credentials = [c \in Credentials |->
       [state |-> IF c \in usedUp THEN "over" ELSE "absent", role |-> "STORE_RECEIVER"]]
  /\ uses = [c \in Credentials |-> 0] /\ doomed = {}

AccountInit == AccountInitWith({})

Active(u) == users[u].status = "ACTIVE"
Live(s) == sessions[s].state = "live"
SessionsOf(u) == {s \in Sessions : Live(s) /\ sessions[s].user = u}
Open(c, kind) == KindOf[c] = kind /\ credentials[c].state = "open"

Spend(c) == /\ credentials' = [credentials EXCEPT ![c].state = "over"]
            /\ uses' = [uses EXCEPT ![c] = @ + 1]
Revoke(S) == sessions' = [s \in Sessions |->
  IF s \in S THEN [NoSession EXCEPT !.state = "over"] ELSE sessions[s]]

\* Mutant: sessions whose passkey was verified are left.
RevokeAllStale(S) == Revoke({s \in S : ~sessions[s].fresh}) /\ doomed' = doomed \cup S

RevokeAll(S) == Revoke(S) /\ doomed' = doomed \cup S

Become(r, doing) == requests' = [requests EXCEPT ![r] = doing]
Minting(u, fresh) == [Idle EXCEPT !.doing = "minting", !.user = u, !.fresh = fresh]

-----------------------------------------------------------------------------
(* Sessions *)

\* The password is right.  The tenant is not looked at.
Login(r, u) ==
  /\ requests[r] = Idle /\ Active(u)
  /\ Become(r, Minting(u, FALSE))
  /\ UNCHANGED <<users, suspended, sessions, credentials, uses, doomed>>

\* createLocalSession
Mint(r, s) ==
  /\ requests[r].doing = "minting" /\ sessions[s] = NoSession
  /\ sessions' = [sessions EXCEPT ![s] =
       [state |-> "live", user |-> requests[r].user, token |-> 0, fresh |-> requests[r].fresh]]
  /\ Become(r, Idle)
  /\ UNCHANGED <<users, suspended, credentials, uses, doomed>>

\* createAuthenticator, in local mode.
Authenticate(r, s) ==
  LET u == sessions[s].user IN
  /\ requests[r] = Idle /\ Live(s) /\ Active(u) /\ ~suspended
  /\ Become(r, [doing |-> "signedIn", user |-> u, role |-> users[u].role, session |-> s,
                token |-> sessions[s].token, fresh |-> sessions[s].fresh, target |-> Nobody])
  /\ UNCHANGED <<users, suspended, sessions, credentials, uses, doomed>>

SignedIn(r) == requests[r].doing = "signedIn"
\* The row that the request was authenticated with still has its token.
Holds(r) == Live(requests[r].session) /\ sessions[requests[r].session].token = requests[r].token

\* rotateLocalSession, when it is due: of two requests with one cookie one rotates it.
Rotate(r) ==
  /\ SignedIn(r) /\ Holds(r) /\ requests[r].token < MaxRotations
  /\ sessions' = [sessions EXCEPT ![requests[r].session].token = @ + 1]
  /\ Become(r, [requests[r] EXCEPT !.token = @ + 1])
  /\ UNCHANGED <<users, suspended, credentials, uses, doomed>>

\* By the token: a session that another request has rotated since goes on.
Logout(r) ==
  /\ SignedIn(r)
  /\ Revoke({s \in {requests[r].session} : Holds(r)})
  /\ Become(r, Idle)
  /\ UNCHANGED <<users, suspended, credentials, uses, doomed>>

\* All but the one with the request's token: none is left if that was rotated since.
revokeOtherSessions(r) ==
  /\ SignedIn(r)
  /\ Revoke(SessionsOf(requests[r].user) \ {s \in {requests[r].session} : Holds(r)})
  /\ Become(r, Idle)
  /\ UNCHANGED <<users, suspended, credentials, uses, doomed>>

revokeSession(r, s) ==
  /\ SignedIn(r) /\ s \in SessionsOf(requests[r].user)
  /\ Revoke({s})
  /\ Become(r, Idle)
  /\ UNCHANGED <<users, suspended, credentials, uses, doomed>>

StepUp(r, c) ==
  /\ SignedIn(r) /\ Holds(r) /\ Open(c, "stepUp") /\ UserOf[c] = requests[r].user
  /\ Spend(c)
  /\ sessions' = [sessions EXCEPT ![requests[r].session].fresh = TRUE]
  /\ Become(r, Idle)
  /\ UNCHANGED <<users, suspended, doomed>>

\* After PASSKEY_STEP_UP_MINUTES, and after SESSION_TTL_HOURS.
Age(s) ==
  /\ Live(s)
  /\ sessions' = [sessions EXCEPT ![s] = IF sessions[s].fresh
       THEN [@ EXCEPT !.fresh = FALSE] ELSE [NoSession EXCEPT !.state = "over"]]
  /\ UNCHANGED <<users, suspended, requests, credentials, uses, doomed>>

\* Refused, answered, or lost with the process.
Drop(r) ==
  /\ requests[r] # Idle
  /\ Become(r, Idle)
  /\ UNCHANGED <<users, suspended, sessions, credentials, uses, doomed>>

-----------------------------------------------------------------------------
(* One-time credentials *)

\* A link that was mailed, a challenge that was drawn, a recovery case that an operator
\* opened, one at a time for a user: that is pending until another operator decides.
Issue(c) ==
  /\ KindOf[c] \in {"reset", "challenge", "stepUp", "case"}
  /\ credentials[c].state = "absent" /\ Active(UserOf[c])
  /\ KindOf[c] = "case" => /\ ~suspended
                           /\ \A d \in Credentials : KindOf[d] = "case" /\ UserOf[d] = UserOf[c]
                                => credentials[d].state \notin {"pending", "open"}
  /\ credentials' = [credentials EXCEPT ![c].state =
       IF KindOf[c] = "case" THEN "pending" ELSE "open"]
  /\ UNCHANGED <<users, suspended, sessions, requests, uses, doomed>>

Decide(c, verdict) ==
  /\ credentials[c].state = "pending" /\ verdict \in {"open", "over"}
  /\ credentials' = [credentials EXCEPT ![c].state = verdict]
  /\ UNCHANGED <<users, suspended, sessions, requests, uses, doomed>>

Expire(c) ==
  /\ credentials[c].state = "open"
  /\ credentials' = [credentials EXCEPT ![c].state = "over"]
  /\ UNCHANGED <<users, suspended, sessions, requests, uses, doomed>>

\* issueRecoveryCodes replaces those that were issued before.
issueRecoveryCodes(r, c) ==
  /\ SignedIn(r) /\ requests[r].role \in Admins => requests[r].fresh
  /\ KindOf[c] = "code" /\ UserOf[c] = requests[r].user /\ credentials[c].state = "absent"
  /\ credentials' = [d \in Credentials |->
       IF d = c THEN [credentials[d] EXCEPT !.state = "open"]
       ELSE IF Open(d, "code") /\ UserOf[d] = UserOf[c]
         THEN [credentials[d] EXCEPT !.state = "over"] ELSE credentials[d]]
  /\ Become(r, Idle)
  /\ UNCHANGED <<users, suspended, sessions, uses, doomed>>

\* A recovery code, or a passkey with its challenge, before the session is minted.
UseToLogin(r, c) ==
  /\ requests[r] = Idle /\ Active(UserOf[c])
  /\ Open(c, "challenge") \/ (Open(c, "code") /\ ~suspended)
  /\ Spend(c)
  /\ Become(r, Minting(UserOf[c], KindOf[c] = "challenge"))
  /\ UNCHANGED <<users, suspended, sessions, doomed>>

\* confirmPasswordReset reads the link,
Inspect(r, c) ==
  /\ requests[r] = Idle /\ Open(c, "reset")
  /\ Become(r, [Idle EXCEPT !.doing = "resetting", !.target = c])
  /\ UNCHANGED <<users, suspended, sessions, credentials, uses, doomed>>

\* Mutant: the link that was read is not looked at again.
consumePasswordResetRead(r) ==
  LET c == requests[r].target IN
  /\ requests[r].doing = "resetting"
  /\ Spend(c) /\ RevokeAll(SessionsOf(UserOf[c]))
  /\ Become(r, Idle)
  /\ UNCHANGED <<users, suspended>>

\* and consumes it if it still is there, with the password and all sessions.
consumePasswordReset(r) ==
  LET c == requests[r].target IN
  /\ requests[r].doing = "resetting" /\ Open(c, "reset")
  /\ Spend(c) /\ RevokeAll(SessionsOf(UserOf[c]))
  /\ Become(r, Idle)
  /\ UNCHANGED <<users, suspended>>

ConfirmRecovery(c) ==
  /\ Open(c, "case") /\ Active(UserOf[c]) /\ ~suspended
  /\ Spend(c) /\ RevokeAll(SessionsOf(UserOf[c]))
  /\ UNCHANGED <<users, suspended, requests>>

-----------------------------------------------------------------------------
(* The tenant and its members *)

\* The hook of writes, and the capability of the handler.
Administers(r) == SignedIn(r) /\ requests[r].role \in Admins /\ requests[r].fresh

SetTenant(value) ==
  /\ suspended # value
  /\ suspended' = value
  /\ RevokeAll(IF value THEN {s \in Sessions : Live(s)} ELSE {})
  /\ UNCHANGED <<users, requests, credentials, uses>>

Invite(r, c, role) ==
  /\ Administers(r) /\ KindOf[c] = "invitation" /\ credentials[c].state = "absent"
  /\ credentials' = [credentials EXCEPT ![c] = [state |-> "open", role |-> role]]
  /\ Become(r, Idle)
  /\ UNCHANGED <<users, suspended, sessions, uses, doomed>>

RevokeInvitation(r, c) ==
  /\ Administers(r) /\ Open(c, "invitation")
  /\ credentials' = [credentials EXCEPT ![c].state = "over"]
  /\ Become(r, Idle)
  /\ UNCHANGED <<users, suspended, sessions, uses, doomed>>

\* Creates the account: who has one belongs to an organization already.
AcceptInvitation(r, c) ==
  /\ requests[r] = Idle /\ Open(c, "invitation") /\ users[UserOf[c]].status = "absent"
  /\ Spend(c)
  /\ users' = [users EXCEPT ![UserOf[c]] = [status |-> "ACTIVE",
       role |-> credentials[c].role, userRole |-> credentials[c].role]]
  /\ Become(r, Minting(UserOf[c], FALSE))
  /\ UNCHANGED <<suspended, sessions, doomed>>

\* Mutant: of the owner.
MayFreezeAny(r, u) == u # requests[r].user /\ users[u].status # "absent"

MayFreeze(r, u) == u \notin {requests[r].user, Owner} /\ users[u].status # "absent"

changeMemberAccountStatus(r, u, status) ==
  /\ Administers(r) /\ MayFreeze(r, u)
  /\ users' = [users EXCEPT ![u].status = status]
  /\ RevokeAll(IF status = "DISABLED" THEN SessionsOf(u) ELSE {})
  /\ Become(r, Idle)
  /\ UNCHANGED <<suspended, credentials, uses>>

BrandAdmins == {u \in Users : users[u].status # "absent" /\ users[u].role = "BRAND_ADMIN"}

\* The queries of PATCH members, which nothing locks,
CheckRole(r, u, role) ==
  /\ Administers(r) /\ users[u].status # "absent"
  /\ u \in {requests[r].user, Owner} => role = "BRAND_ADMIN"
  /\ u \in BrandAdmins /\ role # "BRAND_ADMIN" => Cardinality(BrandAdmins) > 1
  /\ Become(r, [requests[r] EXCEPT !.doing = "changing", !.target = u, !.role = role])
  /\ UNCHANGED <<users, suspended, sessions, credentials, uses, doomed>>

\* and its transaction.
WriteRole(r) ==
  /\ requests[r].doing = "changing"
  /\ users' = [users EXCEPT ![requests[r].target].role = requests[r].role,
                            ![requests[r].target].userRole = requests[r].role]
  /\ Become(r, Idle)
  /\ UNCHANGED <<suspended, sessions, credentials, uses, doomed>>

-----------------------------------------------------------------------------

AccountNext ==
  \/ \E r \in Requests :
       \/ \E u \in Users : \/ Login(r, u)
                           \/ \E status \in {"ACTIVE", "DISABLED"} :
                                changeMemberAccountStatus(r, u, status)
                           \/ \E role \in Roles : CheckRole(r, u, role)
       \/ \E s \in Sessions : Mint(r, s) \/ Authenticate(r, s) \/ revokeSession(r, s)
       \/ \E c \in Credentials :
            \/ StepUp(r, c) \/ issueRecoveryCodes(r, c) \/ UseToLogin(r, c) \/ Inspect(r, c)
            \/ RevokeInvitation(r, c) \/ AcceptInvitation(r, c)
            \/ \E role \in Roles : Invite(r, c, role)
       \/ Rotate(r) \/ Logout(r) \/ revokeOtherSessions(r) \/ Drop(r)
       \/ consumePasswordReset(r) \/ WriteRole(r)
  \/ \E s \in Sessions : Age(s)
  \/ \E c \in Credentials : \/ Issue(c) \/ Expire(c) \/ ConfirmRecovery(c)
                            \/ \E verdict \in {"open", "over"} : Decide(c, verdict)
  \/ \E value \in BOOLEAN : SetTenant(value)

AccountSpec == AccountInit /\ [][AccountNext]_accountVars

-----------------------------------------------------------------------------
(* Properties *)

\* A session that its user's password reset or recovery, a freeze or a suspension met
\* never serves again, whatever a request in flight rotates or verifies afterwards.
RevokedStayOver == \A s \in doomed : ~Live(s)

\* Every link, code, case, challenge and invitation has its effect once, whoever else
\* has read it meanwhile.
OneUse == AccountTypeOK /\ \A c \in Credentials : uses[c] <= 1

\* Administrators with what they read before they were demoted, frozen or left another
\* one alone: the owner stays an active administrator, and the two roles of a user agree.
OwnerStays ==
  /\ Active(Owner) /\ users[Owner].role \in Admins
  /\ \A u \in Users : users[u].role = users[u].userRole

-----------------------------------------------------------------------------
(* What an error message says and the code does not do *)

\* "The organization must retain a brand admin", once it has one.
BrandAdminRemains == [][BrandAdmins # {} => BrandAdmins' # {}]_accountVars
=============================================================================
