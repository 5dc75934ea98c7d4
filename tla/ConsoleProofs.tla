---------------------------- MODULE ConsoleProofs ----------------------------
(***************************************************************************)
(* What was revoked stays revoked, what was used stays used, and the owner *)
(* stays an active administrator; the projection is the workspace, a       *)
(* version is saved over once, and what a page shows is either saved or    *)
(* kept.  For any users, sessions, requests, credentials, browsers and     *)
(* edits, and any bounds.                                                  *)
(***************************************************************************)
EXTENDS Accounts, Workspaces, SequenceTheorems, TLAPS

-----------------------------------------------------------------------------
(* Accounts *)

UserRows == [status : {"absent", "ACTIVE", "DISABLED"}, role : Roles, userRole : Roles]
SessionRows == [state : {"none", "live", "over"}, user : Users \cup {Nobody},
                token : 0..MaxRotations, fresh : BOOLEAN]
RequestStates ==
  [doing : {"idle", "signedIn", "minting", "resetting", "changing"},
   user : Users \cup {Nobody}, role : Roles, session : Sessions \cup {Nobody},
   token : 0..MaxRotations, fresh : BOOLEAN, target : Users \cup Credentials \cup {Nobody}]
CredentialRows == [state : {"absent", "pending", "open", "over"}, role : Roles]

UsersOK == users \in [Users -> UserRows] /\ suspended \in BOOLEAN
\* A live session, and a request that mints one, have a user.
SessionsOK ==
  /\ sessions \in [Sessions -> SessionRows] /\ doomed \subseteq Sessions
  /\ \A s \in Sessions : Live(s) => sessions[s].user \in Users
RequestsOK ==
  /\ requests \in [Requests -> RequestStates]
  /\ \A r \in Requests : requests[r].doing = "minting" => requests[r].user \in Users
CredentialsOK == credentials \in [Credentials -> CredentialRows] /\ uses \in [Credentials -> Nat]

\* Each credential had its effect never, or once, and then is over.
SpentOnce == \A c \in Credentials :
  uses[c] = 0 \/ (uses[c] = 1 /\ credentials[c].state = "over")

\* A doomed session is over: a token is only rotated, verified or minted elsewhere.
DoomedOver == \A s \in doomed : sessions[s].state = "over"

\* Whoever checked a change of the owner's role, checked one that keeps it.
ChangesKeepOwner == \A r \in Requests :
  requests[r].doing = "changing" /\ requests[r].target = Owner => requests[r].role \in Admins

AccountInv ==
  /\ UsersOK /\ SessionsOK /\ RequestsOK /\ CredentialsOK
  /\ SpentOnce /\ DoomedOver /\ OwnerStays /\ ChangesKeepOwner

-----------------------------------------------------------------------------
(* Helpers *)

\* Revoking sessions keeps their types, and those that are over stay so.
LEMMA RevokeKeeps ==
  ASSUME SessionsOK, DoomedOver, NEW S, Revoke(S)
  PROVE  /\ sessions' \in [Sessions -> SessionRows]
         /\ \A s \in Sessions : Live(s)' => sessions'[s].user \in Users
         /\ \A s \in (S \cap Sessions) \cup doomed : sessions'[s].state = "over"
<1>1. [NoSession EXCEPT !.state = "over"] \in SessionRows
  <2>1. 0 \in 0..MaxRotations
    BY AccountsAssumption DEF AccountsAssumption
  <2> QED BY <2>1 DEF NoSession, SessionRows
<1>2. [NoSession EXCEPT !.state = "over"].state = "over"
  BY DEF NoSession
<1>3. doomed \subseteq Sessions
  BY DEF SessionsOK
<1> QED BY <1>1, <1>2, <1>3 DEF Revoke, SessionsOK, DoomedOver, Live

LEMMA RevokeAllKeeps ==
  ASSUME SessionsOK, DoomedOver, NEW S, S \subseteq Sessions, RevokeAll(S)
  PROVE  SessionsOK' /\ DoomedOver'
BY RevokeKeeps DEF RevokeAll, SessionsOK, DoomedOver

\* Using an open credential.
LEMMA SpendKeeps ==
  ASSUME CredentialsOK, SpentOnce, NEW c, credentials[c].state = "open", Spend(c)
  PROVE  CredentialsOK' /\ SpentOnce'
<1>1. CASE c \in Credentials
  <2>1. [credentials[c] EXCEPT !.state = "over"] \in CredentialRows
    BY <1>1 DEF CredentialsOK, CredentialRows
  <2>2. [credentials[c] EXCEPT !.state = "over"].state = "over"
    BY <1>1 DEF CredentialsOK, CredentialRows
  <2>3. uses[c] = 0
    BY <1>1 DEF SpentOnce
  <2> QED BY <1>1, <2>1, <2>2, <2>3 DEF CredentialsOK, SpentOnce, Spend
<1>2. CASE c \notin Credentials
  <2>1. UNCHANGED <<credentials, uses>>
    BY <1>2 DEF Spend, CredentialsOK
  <2> QED BY <2>1 DEF CredentialsOK, SpentOnce
<1> QED BY <1>1, <1>2

\* A request that becomes something other than a change of a role.
LEMMA BecomeKeeps ==
  ASSUME RequestsOK, ChangesKeepOwner, NEW r, NEW x \in RequestStates, x.doing # "changing",
         x.doing = "minting" => x.user \in Users, Become(r, x)
  PROVE  RequestsOK' /\ ChangesKeepOwner'
BY DEF RequestsOK, ChangesKeepOwner, Become

LEMMA IdleIsRequest == Idle \in RequestStates /\ Idle.doing = "idle"
BY AccountsAssumption DEF AccountsAssumption, Idle, RequestStates, Roles

LEMMA MintingIsRequest ==
  ASSUME NEW u \in Users, NEW fresh \in BOOLEAN
  PROVE  /\ Minting(u, fresh) \in RequestStates
         /\ Minting(u, fresh).doing = "minting" /\ Minting(u, fresh).user \in Users
BY IdleIsRequest DEF Minting, RequestStates, Idle

-----------------------------------------------------------------------------
(* One step of each action *)

LEMMA SessionSteps ==
  ASSUME AccountInv, NEW r \in Requests,
         \/ \E u \in Users : Login(r, u)
         \/ \E s \in Sessions : Mint(r, s) \/ Authenticate(r, s) \/ revokeSession(r, s)
         \/ \E c \in Credentials : StepUp(r, c)
         \/ Rotate(r) \/ Logout(r) \/ revokeOtherSessions(r) \/ Drop(r)
  PROVE  AccountInv'
<1> USE DEF AccountInv
<1> DEFINE q == requests[r]
           p == q.session
<1>0. q \in RequestStates /\ \A s \in Sessions : sessions[s] \in SessionRows
  BY DEF RequestsOK, SessionsOK
<1>1. ASSUME NEW u \in Users, Login(r, u) PROVE AccountInv'
  <2>1. RequestsOK' /\ ChangesKeepOwner'
    BY <1>1, MintingIsRequest, BecomeKeeps DEF Login
  <2> QED BY <1>1, <2>1
    DEF Login, UsersOK, SessionsOK, Live, CredentialsOK, SpentOnce, DoomedOver, OwnerStays, Active
<1>2. ASSUME NEW s \in Sessions, Mint(r, s) PROVE AccountInv'
  <2>1. RequestsOK' /\ ChangesKeepOwner'
    BY <1>2, IdleIsRequest, BecomeKeeps DEF Mint
  <2> DEFINE x == [state |-> "live", user |-> q.user, token |-> 0, fresh |-> q.fresh]
  <2>2. x \in SessionRows /\ x.user \in Users
    <3>1. 0 \in 0..MaxRotations
      BY AccountsAssumption DEF AccountsAssumption
    <3> QED BY <1>0, <1>2, <3>1 DEF RequestStates, SessionRows, Mint, RequestsOK
  <2>3. sessions' = [sessions EXCEPT ![s] = x] /\ sessions[s].state = "none" /\ doomed' = doomed
    BY <1>2 DEF Mint, NoSession
  <2>4. SessionsOK' /\ DoomedOver'
    BY <2>2, <2>3 DEF SessionsOK, DoomedOver, Live
  <2> QED BY <1>2, <2>1, <2>4 DEF Mint, UsersOK, CredentialsOK, SpentOnce, OwnerStays, Active
<1>3. ASSUME NEW s \in Sessions, Authenticate(r, s) PROVE AccountInv'
  <2> DEFINE x == [doing |-> "signedIn", user |-> sessions[s].user,
                   role |-> users[sessions[s].user].role, session |-> s,
                   token |-> sessions[s].token, fresh |-> sessions[s].fresh, target |-> Nobody]
  <2>1. sessions[s].user \in Users
    BY <1>3 DEF Authenticate, SessionsOK
  <2>2. x \in RequestStates /\ x.doing = "signedIn"
    BY <1>0, <2>1 DEF SessionRows, RequestStates, UsersOK, UserRows
  <2>3. Become(r, x)
    BY <1>3 DEF Authenticate
  <2>4. RequestsOK' /\ ChangesKeepOwner'
    BY <2>2, <2>3, BecomeKeeps
  <2> QED BY <1>3, <2>4 DEF Authenticate, UsersOK, SessionsOK, Live, CredentialsOK, SpentOnce,
                            DoomedOver, OwnerStays, Active
<1>4. CASE Rotate(r)
  <2>1. q.token + 1 \in 0..MaxRotations
    BY <1>0, <1>4, AccountsAssumption DEF Rotate, RequestStates, AccountsAssumption
  <2>2. [q EXCEPT !.token = @ + 1] \in RequestStates
    BY <1>0, <2>1 DEF RequestStates
  <2>3. [q EXCEPT !.token = @ + 1].doing = "signedIn"
    BY <1>0, <1>4 DEF RequestStates, Rotate, SignedIn
  <2>4. RequestsOK' /\ ChangesKeepOwner'
    BY <1>4, <2>2, <2>3, BecomeKeeps DEF Rotate
  <2>5. sessions' = [sessions EXCEPT ![p].token = @ + 1] /\ Live(p) /\ sessions[p].token = q.token
    BY <1>4 DEF Rotate, Holds
  <2>6. CASE p \in Sessions
    <3>1. [sessions[p] EXCEPT !.token = @ + 1] \in SessionRows
      BY <2>1, <2>5, <2>6 DEF SessionsOK, SessionRows
    <3>2. /\ [sessions[p] EXCEPT !.token = @ + 1].state = "live"
          /\ [sessions[p] EXCEPT !.token = @ + 1].user = sessions[p].user
      BY <2>5, <2>6 DEF SessionsOK, SessionRows, Live
    <3> QED BY <1>4, <2>4, <2>5, <2>6, <3>1, <3>2
      DEF Rotate, UsersOK, SessionsOK, Live, CredentialsOK, SpentOnce, DoomedOver, OwnerStays, Active
  <2>7. CASE p \notin Sessions
    <3>1. sessions' = sessions
      BY <2>5, <2>7 DEF SessionsOK
    <3> QED BY <1>4, <2>4, <3>1
      DEF Rotate, UsersOK, SessionsOK, Live, CredentialsOK, SpentOnce, DoomedOver, OwnerStays, Active
  <2> QED BY <2>6, <2>7
<1>5. ASSUME Logout(r) \/ revokeOtherSessions(r) \/ \E s \in Sessions : revokeSession(r, s)
      PROVE  AccountInv'
  <2>1. RequestsOK' /\ ChangesKeepOwner'
    BY <1>5, IdleIsRequest, BecomeKeeps DEF Logout, revokeOtherSessions, revokeSession
  <2>2. SessionsOK' /\ DoomedOver'
    BY <1>5, RevokeKeeps DEF Logout, revokeOtherSessions, revokeSession, SessionsOK, DoomedOver
  <2> QED BY <1>5, <2>1, <2>2 DEF Logout, revokeOtherSessions, revokeSession, UsersOK, CredentialsOK,
                                  SpentOnce, OwnerStays, Active
<1>6. ASSUME NEW c \in Credentials, StepUp(r, c) PROVE AccountInv'
  <2>1. RequestsOK' /\ ChangesKeepOwner'
    BY <1>6, IdleIsRequest, BecomeKeeps DEF StepUp
  <2>2. CredentialsOK' /\ SpentOnce'
    BY <1>6, SpendKeeps DEF StepUp, Open
  <2>3. sessions' = [sessions EXCEPT ![p].fresh = TRUE] /\ Live(p)
    BY <1>6 DEF StepUp, Holds
  <2> DEFINE x == [sessions[p] EXCEPT !.fresh = TRUE]
  <2>4. SessionsOK' /\ DoomedOver'
    <3>1. sessions' = [sessions EXCEPT ![p] = x] /\ doomed' = doomed
      BY <1>6, <2>3 DEF StepUp
    <3>2. p \in Sessions => x \in SessionRows /\ x.state = "live" /\ x.user = sessions[p].user
      BY <2>3 DEF SessionsOK, SessionRows, Live
    <3> HIDE DEF x
    <3>3. SessionsOK'
      BY <2>3, <3>1, <3>2 DEF SessionsOK, Live
    <3>4. DoomedOver'
      BY <2>3, <3>1, <3>2 DEF SessionsOK, DoomedOver, Live
    <3> QED BY <3>3, <3>4
  <2> QED BY <1>6, <2>1, <2>2, <2>4 DEF StepUp, UsersOK, OwnerStays, Active
<1>7. CASE Drop(r)
  <2>1. RequestsOK' /\ ChangesKeepOwner'
    BY <1>7, IdleIsRequest, BecomeKeeps DEF Drop
  <2> QED BY <1>7, <2>1
    DEF Drop, UsersOK, SessionsOK, Live, CredentialsOK, SpentOnce, DoomedOver, OwnerStays, Active
<1> QED BY <1>1, <1>2, <1>3, <1>4, <1>5, <1>6, <1>7

LEMMA AgeStep ==
  ASSUME AccountInv, NEW s \in Sessions, Age(s)
  PROVE  AccountInv'
<1> USE DEF AccountInv
<1>1. 0 \in 0..MaxRotations
  BY AccountsAssumption DEF AccountsAssumption
<1> DEFINE x == IF sessions[s].fresh THEN [sessions[s] EXCEPT !.fresh = FALSE]
                                     ELSE [NoSession EXCEPT !.state = "over"]
<1>2. sessions' = [sessions EXCEPT ![s] = x] /\ doomed' = doomed /\ Live(s)
  BY DEF Age
<1>3. x \in SessionRows /\ (x.state = "live" => x.user = sessions[s].user)
  BY <1>1, <1>2 DEF SessionsOK, SessionRows, NoSession, Live
<1>4. SessionsOK' /\ DoomedOver'
  <2> HIDE DEF x
  <2>1. SessionsOK'
    BY <1>2, <1>3 DEF SessionsOK, Live
  <2>2. DoomedOver'
    BY <1>2 DEF SessionsOK, DoomedOver, Live
  <2> QED BY <2>1, <2>2
<1> QED BY <1>4
  DEF Age, UsersOK, RequestsOK, CredentialsOK, SpentOnce, ChangesKeepOwner, OwnerStays, Active

LEMMA CredentialSteps ==
  ASSUME AccountInv, NEW c \in Credentials,
         \/ \E r \in Requests : \/ issueRecoveryCodes(r, c) \/ UseToLogin(r, c) \/ Inspect(r, c)
                               \/ RevokeInvitation(r, c) \/ AcceptInvitation(r, c)
                               \/ \E role \in Roles : Invite(r, c, role)
         \/ Issue(c) \/ Expire(c) \/ ConfirmRecovery(c)
         \/ \E verdict \in {"open", "over"} : Decide(c, verdict)
  PROVE  AccountInv'
<1> USE DEF AccountInv
<1>0. credentials[c] \in CredentialRows /\ \A r \in Requests : requests[r] \in RequestStates
  BY DEF CredentialsOK, RequestsOK
<1>1. ASSUME NEW x \in {"pending", "open", "over"}, credentials[c].state # "over",
             credentials' = [credentials EXCEPT ![c].state = x],
             UNCHANGED <<users, suspended, sessions, requests, uses, doomed>>
      PROVE  AccountInv'
  <2>1. [credentials[c] EXCEPT !.state = x] \in CredentialRows
    BY <1>0 DEF CredentialRows
  <2>2. CredentialsOK' /\ SpentOnce'
    BY <1>1, <2>1 DEF CredentialsOK, SpentOnce
  <2> QED BY <1>1, <2>2 DEF UsersOK, SessionsOK, Live, RequestsOK, DoomedOver, OwnerStays, Active,
                            ChangesKeepOwner
<1>2. ASSUME Issue(c) \/ Expire(c) \/ \E verdict \in {"open", "over"} : Decide(c, verdict)
      PROVE  AccountInv'
  BY <1>1, <1>2 DEF Issue, Decide, Expire
<1>3. ASSUME NEW r \in Requests, issueRecoveryCodes(r, c) PROVE AccountInv'
  <2>1. RequestsOK' /\ ChangesKeepOwner'
    BY <1>3, IdleIsRequest, BecomeKeeps DEF issueRecoveryCodes
  <2>2. CredentialsOK' /\ SpentOnce'
    BY <1>3 DEF issueRecoveryCodes, CredentialsOK, SpentOnce, CredentialRows, Open
  <2> QED BY <1>3, <2>1, <2>2
    DEF issueRecoveryCodes, UsersOK, SessionsOK, Live, DoomedOver, OwnerStays, Active
<1>4. ASSUME NEW r \in Requests, UseToLogin(r, c) PROVE AccountInv'
  <2>1. UserOf[c] \in Users /\ (KindOf[c] = "challenge") \in BOOLEAN
    BY AccountsAssumption
  <2>2. RequestsOK' /\ ChangesKeepOwner'
    BY <1>4, <2>1, MintingIsRequest, BecomeKeeps DEF UseToLogin
  <2>3. CredentialsOK' /\ SpentOnce'
    BY <1>4, SpendKeeps DEF UseToLogin, Open
  <2> QED BY <1>4, <2>2, <2>3
    DEF UseToLogin, UsersOK, SessionsOK, Live, DoomedOver, OwnerStays, Active
<1>5. ASSUME NEW r \in Requests, Inspect(r, c) PROVE AccountInv'
  <2> DEFINE x == [Idle EXCEPT !.doing = "resetting", !.target = c]
  <2>1. x \in RequestStates /\ x.doing = "resetting"
    BY IdleIsRequest DEF Idle, RequestStates
  <2>2. RequestsOK' /\ ChangesKeepOwner'
    BY <1>5, <2>1, BecomeKeeps DEF Inspect
  <2> QED BY <1>5, <2>2 DEF Inspect, UsersOK, SessionsOK, Live, CredentialsOK, SpentOnce,
                            DoomedOver, OwnerStays, Active
<1>6. CASE ConfirmRecovery(c)
  <2>1. CredentialsOK' /\ SpentOnce'
    BY <1>6, SpendKeeps DEF ConfirmRecovery, Open
  <2>2. SessionsOK' /\ DoomedOver'
    BY <1>6, RevokeAllKeeps DEF ConfirmRecovery, SessionsOf
  <2> QED BY <1>6, <2>1, <2>2
    DEF ConfirmRecovery, UsersOK, RequestsOK, ChangesKeepOwner, OwnerStays, Active
<1>7. ASSUME NEW r \in Requests, NEW role \in Roles,
             Invite(r, c, role) \/ RevokeInvitation(r, c)
      PROVE  AccountInv'
  <2>1. RequestsOK' /\ ChangesKeepOwner'
    BY <1>7, IdleIsRequest, BecomeKeeps DEF Invite, RevokeInvitation
  <2>2. credentials[c].state # "over"
    BY <1>7 DEF Invite, RevokeInvitation, Open
  <2>3. CredentialsOK' /\ SpentOnce'
    BY <1>0, <1>7, <2>2 DEF Invite, RevokeInvitation, CredentialsOK, SpentOnce, CredentialRows
  <2> QED BY <1>7, <2>1, <2>3
    DEF Invite, RevokeInvitation, UsersOK, SessionsOK, Live, DoomedOver, OwnerStays, Active
<1>8. ASSUME NEW r \in Requests, AcceptInvitation(r, c) PROVE AccountInv'
  <2> DEFINE x == [status |-> "ACTIVE", role |-> credentials[c].role,
                   userRole |-> credentials[c].role]
  <2>1. UserOf[c] \in Users /\ UserOf[c] # Owner
    BY <1>8, AccountsAssumption DEF AcceptInvitation, OwnerStays, Active
  <2>2. RequestsOK' /\ ChangesKeepOwner'
    BY <1>8, <2>1, MintingIsRequest, BecomeKeeps DEF AcceptInvitation
  <2>3. CredentialsOK' /\ SpentOnce'
    BY <1>8, SpendKeeps DEF AcceptInvitation, Open
  <2>4. x \in UserRows /\ x.role = x.userRole
    BY DEF UserRows, CredentialsOK, CredentialRows
  <2>5. users' = [users EXCEPT ![UserOf[c]] = x]
    BY <1>8 DEF AcceptInvitation
  <2>6. UsersOK' /\ OwnerStays'
    <3> HIDE DEF x
    <3> QED BY <1>8, <2>1, <2>4, <2>5 DEF AcceptInvitation, UsersOK, OwnerStays, Active
  <2> QED BY <1>8, <2>2, <2>3, <2>6 DEF AcceptInvitation, SessionsOK, Live, DoomedOver
<1> QED
  <2>1. "BRAND_ADMIN" \in Roles
    BY DEF Roles
  <2> QED BY <2>1, <1>2, <1>3, <1>4, <1>5, <1>6, <1>7, <1>8

LEMMA TenantStep ==
  ASSUME AccountInv, NEW value \in BOOLEAN, SetTenant(value)
  PROVE  AccountInv'
<1> USE DEF AccountInv
<1>1. SessionsOK' /\ DoomedOver'
  BY RevokeAllKeeps DEF SetTenant
<1> QED BY <1>1 DEF SetTenant, UsersOK, RequestsOK, CredentialsOK, SpentOnce,
                          ChangesKeepOwner, OwnerStays, Active

LEMMA MemberSteps ==
  ASSUME AccountInv, NEW r \in Requests,
         \/ \E u \in Users, status \in {"ACTIVE", "DISABLED"} :
              changeMemberAccountStatus(r, u, status)
         \/ \E u \in Users, role \in Roles : CheckRole(r, u, role)
         \/ WriteRole(r) \/ consumePasswordReset(r)
  PROVE  AccountInv'
<1> USE DEF AccountInv
<1> DEFINE q == requests[r]
<1>0. q \in RequestStates /\ Owner \in Users
  BY AccountsAssumption DEF RequestsOK
<1>1. ASSUME NEW u \in Users, NEW status \in {"ACTIVE", "DISABLED"},
             changeMemberAccountStatus(r, u, status)
      PROVE  AccountInv'
  <2>1. RequestsOK' /\ ChangesKeepOwner'
    BY <1>1, IdleIsRequest, BecomeKeeps DEF changeMemberAccountStatus
  <2>2. SessionsOK' /\ DoomedOver'
    BY <1>1, RevokeAllKeeps DEF changeMemberAccountStatus, SessionsOf
  <2>3. UsersOK' /\ OwnerStays'
    BY <1>0, <1>1 DEF changeMemberAccountStatus, MayFreeze, UsersOK, UserRows, OwnerStays, Active
  <2> QED BY <1>1, <2>1, <2>2, <2>3 DEF changeMemberAccountStatus, CredentialsOK, SpentOnce
<1>2. ASSUME NEW u \in Users, NEW role \in Roles, CheckRole(r, u, role) PROVE AccountInv'
  <2> DEFINE x == [q EXCEPT !.doing = "changing", !.target = u, !.role = role]
  <2>1. x \in RequestStates /\ x.doing = "changing" /\ x.target = u /\ x.role = role
    BY <1>0 DEF RequestStates
  <2>2. u = Owner => role \in Admins
    BY <1>2 DEF CheckRole, Admins
  <2>3. requests' = [requests EXCEPT ![r] = x]
    BY <1>2 DEF CheckRole, Become
  <2>4. RequestsOK' /\ ChangesKeepOwner'
    <3> HIDE DEF x
    <3> QED BY <2>1, <2>2, <2>3 DEF RequestsOK, ChangesKeepOwner
  <2> QED BY <1>2, <2>4 DEF CheckRole, UsersOK, SessionsOK, Live, CredentialsOK, SpentOnce,
                            DoomedOver, OwnerStays, Active
<1>3. CASE WriteRole(r)
  <2>1. RequestsOK' /\ ChangesKeepOwner'
    BY <1>3, IdleIsRequest, BecomeKeeps DEF WriteRole
  <2>2. q.role \in Roles /\ (q.target = Owner => q.role \in Admins)
    BY <1>0, <1>3 DEF WriteRole, RequestStates, ChangesKeepOwner
  <2>3. users' = [users EXCEPT ![q.target] = [@ EXCEPT !.role = q.role, !.userRole = q.role]]
    BY <1>3 DEF WriteRole, UsersOK, UserRows
  <2>4. \A v \in Users : /\ users[v] \in UserRows
                         /\ [users[v] EXCEPT !.role = q.role, !.userRole = q.role] \in UserRows
    BY <2>2 DEF UsersOK, UserRows
  <2>5. UsersOK' /\ OwnerStays'
    <3> DEFINE x == [users[q.target] EXCEPT !.role = q.role, !.userRole = q.role]
    <3>1. users' = [users EXCEPT ![q.target] = x] /\ suspended' = suspended
      BY <1>3, <2>3 DEF WriteRole
    <3>2. q.target \in Users => /\ x \in UserRows /\ x.status = users[q.target].status
                                /\ x.role = q.role /\ x.userRole = q.role
      BY <2>4 DEF UserRows
    <3> HIDE DEF x
    <3> QED BY <1>0, <2>2, <3>1, <3>2 DEF UsersOK, OwnerStays, Active
  <2> QED BY <1>3, <2>1, <2>5 DEF WriteRole, SessionsOK, Live, CredentialsOK, SpentOnce, DoomedOver
<1>4. CASE consumePasswordReset(r)
  <2>1. RequestsOK' /\ ChangesKeepOwner'
    BY <1>4, IdleIsRequest, BecomeKeeps DEF consumePasswordReset
  <2>2. CredentialsOK' /\ SpentOnce'
    BY <1>4, SpendKeeps DEF consumePasswordReset, Open
  <2>3. SessionsOK' /\ DoomedOver'
    BY <1>4, RevokeAllKeeps DEF consumePasswordReset, SessionsOf
  <2> QED BY <1>4, <2>1, <2>2, <2>3 DEF consumePasswordReset, UsersOK, OwnerStays, Active
<1> QED BY <1>1, <1>2, <1>3, <1>4

-----------------------------------------------------------------------------
(* Theorems *)

LEMMA AccountInvInit ==
  ASSUME NEW usedUp, AccountInitWith(usedUp)
  PROVE  AccountInv
<1> USE AccountsAssumption DEF AccountsAssumption, AccountInitWith
<1>1. 0 \in 0..MaxRotations
  OBVIOUS
<1>2. NoUser \in UserRows /\ NoUser.role = NoUser.userRole /\ NoUser.role \notin Admins
  BY DEF NoUser, UserRows, Roles, Admins
<1>3. users \in [Users -> {NoUser} \cup
        {[status |-> "ACTIVE", role |-> x, userRole |-> x] : x \in Roles}]
  OBVIOUS
<1>4. \A u \in Users : /\ users[u] \in UserRows /\ users[u].role = users[u].userRole
                       /\ users[u].role \in Admins => users[u].status = "ACTIVE"
  BY <1>2, <1>3 DEF UserRows
<1>5. UsersOK /\ OwnerStays
  BY <1>3, <1>4 DEF UsersOK, OwnerStays, Active
<1>6. SessionsOK /\ DoomedOver
  BY <1>1 DEF SessionsOK, DoomedOver, Live, NoSession, SessionRows
<1>7. RequestsOK /\ ChangesKeepOwner
  BY IdleIsRequest DEF RequestsOK, ChangesKeepOwner
<1>8. CredentialsOK /\ SpentOnce
  BY DEF CredentialsOK, SpentOnce, CredentialRows, Roles
<1> QED BY <1>5, <1>6, <1>7, <1>8 DEF AccountInv

LEMMA AccountInvStep == AccountInv /\ [AccountNext]_accountVars => AccountInv'
<1> SUFFICES ASSUME AccountInv, [AccountNext]_accountVars PROVE AccountInv'
  OBVIOUS
<1>1. CASE UNCHANGED accountVars
  BY <1>1 DEF accountVars, AccountInv, UsersOK, SessionsOK, Live, RequestsOK, CredentialsOK,
              SpentOnce, DoomedOver, OwnerStays, Active, ChangesKeepOwner
<1>2. CASE AccountNext
  BY <1>2, SessionSteps, AgeStep, CredentialSteps, TenantStep, MemberSteps DEF AccountNext
<1> QED BY <1>1, <1>2

LEMMA AccountInvImplies == AccountInv => RevokedStayOver /\ OneUse /\ OwnerStays
<1> SUFFICES ASSUME AccountInv PROVE RevokedStayOver /\ OneUse /\ OwnerStays
  OBVIOUS
<1> USE DEF AccountInv
<1>1. RevokedStayOver
  BY DEF RevokedStayOver, DoomedOver, Live
<1>2. AccountTypeOK
  BY DEF AccountTypeOK, UsersOK, UserRows, SessionsOK, SessionRows, RequestsOK, RequestStates,
         CredentialsOK, CredentialRows
<1>3. \A c \in Credentials : uses[c] <= 1
  BY DEF CredentialsOK, SpentOnce
<1> QED BY <1>1, <1>2, <1>3 DEF OneUse

\* However requests, resets, freezes and suspensions interleave, a session that one of
\* them met serves no request again (consumePasswordReset, changeMemberAccountStatus).
THEOREM RevocationCorrect == AccountSpec => []RevokedStayOver
<1>1. AccountInit => AccountInv
  BY AccountInvInit DEF AccountInit
<1> QED BY <1>1, AccountInvStep, AccountInvImplies, PTL DEF AccountSpec

\* Reset links, recovery codes, cases, challenges and invitations work once.
THEOREM CredentialsCorrect == AccountSpec => []OneUse
<1>1. AccountInit => AccountInv
  BY AccountInvInit DEF AccountInit
<1> QED BY <1>1, AccountInvStep, AccountInvImplies, PTL DEF AccountSpec

\* No administrator, with whatever it read before, demotes or freezes the owner.
THEOREM OwnerCorrect == AccountSpec => []OwnerStays
<1>1. AccountInit => AccountInv
  BY AccountInvInit DEF AccountInit
<1> QED BY <1>1, AccountInvStep, AccountInvImplies, PTL DEF AccountSpec

-----------------------------------------------------------------------------
(* Workspaces *)

SaveRows == [content : Contents, by : Browsers, quoted : Int, base : Nat]
Pages == [ready : BOOLEAN, state : Contents, version : Nat, base : Nat,
          dirty : BOOLEAN, conflict : BOOLEAN]
Sendings == [at : {"idle", "wire", "saved", "conflict", "failed"},
             content : Contents, version : Nat, base : Nat, newer : BOOLEAN, queued : BOOLEAN]

Known(version) == IF saves = <<>> THEN {} ELSE saves[version + 1].content

\* The save at a place of the history, as ReplacedWasLoaded has it.
Replaces(x, i) == x.quoted = AnyVersion \/ x.base = i - 1 \/ (i = 2 /\ x.base = 0)
Quotes == \A i \in 1..Len(saves) : Replaces(saves[i], i)

\* A base goes with the version: it is the save that is stored as that version, or there
\* was no save.
Based(version, base) ==
  \/ base = version + 1 /\ base <= Len(saves)
  \/ base = 0 /\ version = 0

\* What a page shows is known or kept, and known if it is not dirty.
PageOK(c) == page[c].ready =>
  /\ page[c].version = 0 \/ page[c].version < Len(saves)
  /\ Based(page[c].version, page[c].base)
  /\ page[c].state \subseteq Known(page[c].version) \cup UNION kept[c]
  /\ ~page[c].dirty => page[c].state \subseteq Known(page[c].version)

\* What is on its way is what the page shows, unless something was edited since, which is
\* kept then; what was saved is in the history.
SendingOK(c) == sending[c].at # "idle" =>
  /\ page[c].ready
  /\ sending[c].at = "wire" => Based(sending[c].version, sending[c].base)
  /\ ~sending[c].newer => page[c].state = sending[c].content
  /\ sending[c].newer => page[c].state \in kept[c]
  /\ sending[c].at = "saved" => /\ sending[c].version < Len(saves)
                                /\ saves[sending[c].version + 1].content = sending[c].content

ServerOK == saves \in Seq(SaveRows) /\ public \subseteq Edits \X Browsers
ClientOK ==
  /\ page \in [Browsers -> Pages] /\ sending \in [Browsers -> Sendings]
  /\ queue \in [Browsers -> BOOLEAN] /\ kept \in [Browsers -> SUBSET Contents]
Projected == public = IF saves = <<>> THEN {} ELSE Workspace \X {Last(saves).by}

WorkspaceInv ==
  /\ ServerOK /\ ClientOK /\ faults \in 0..MaxFaults
  /\ Projected /\ Quotes
  /\ \A c \in Browsers : PageOK(c) /\ SendingOK(c)

-----------------------------------------------------------------------------
(* Helpers *)

\* A save that replaces what it should keeps the
\* history and the projection in order, and whatever was known is known still.
LEMMA AppendKeeps ==
  ASSUME ServerOK, Quotes, NEW x \in SaveRows, saves' = Append(saves, x),
         Replaces(x, Len(saves) + 1),
         public' = x.content \X {x.by}
  PROVE  /\ ServerOK' /\ Projected' /\ Quotes'
         /\ Len(saves') = Len(saves) + 1 /\ saves'[Len(saves) + 1] = x
         /\ \A i \in 1..Len(saves) : saves'[i] = saves[i]
         /\ saves' # <<>>
<1>1. /\ saves' \in Seq(SaveRows) /\ Len(saves') = Len(saves) + 1
      /\ saves'[Len(saves) + 1] = x /\ \A i \in 1..Len(saves) : saves'[i] = saves[i]
      /\ Len(saves) \in Nat /\ saves' # <<>>
  BY AppendProperties DEF ServerOK
<1>2. Last(saves') = x
  BY <1>1 DEF Last
<1>3. ServerOK'
  BY <1>1 DEF ServerOK, SaveRows, Contents
<1>4. Projected'
  BY <1>1, <1>2 DEF Projected, Workspace
<1>5. Quotes'
  <2> SUFFICES ASSUME NEW i \in 1..Len(saves')
               PROVE  Replaces(saves'[i], i)
    BY DEF Quotes, Replaces, AnyVersion
  <2>1. i \in 1..Len(saves) \/ i = Len(saves) + 1
    BY <1>1
  <2> QED BY <1>1, <2>1 DEF Quotes
<1> QED BY <1>1, <1>3, <1>4, <1>5

LEMMA KnownStays ==
  ASSUME ServerOK, NEW x \in SaveRows, saves' = Append(saves, x),
         NEW c \in Browsers, PageOK(c), page[c] \in Pages, page'[c] = page[c], kept'[c] = kept[c]
  PROVE  PageOK(c)'
<1>1. /\ Len(saves') = Len(saves) + 1 /\ saves' # <<>> /\ Len(saves) \in Nat
      /\ \A i \in 1..Len(saves) : saves'[i] = saves[i]
  BY AppendProperties DEF ServerOK
<1>2. ASSUME page[c].ready PROVE Known(page[c].version) \subseteq Known(page[c].version)'
  <2>1. CASE saves = <<>>
    BY <2>1 DEF Known
  <2>2. CASE saves # <<>>
    <3>1. Len(saves) > 0 /\ page[c].version \in Nat /\ page[c].version < Len(saves)
      BY <1>1, <1>2, <2>2 DEF PageOK, ServerOK, Pages, Based
    <3>2. page[c].version + 1 \in 1..Len(saves)
      BY <1>1, <3>1
    <3> QED BY <1>1, <2>2, <3>2 DEF Known
  <2> QED BY <2>1, <2>2
<1>3. page[c].ready => /\ page[c].version = 0 \/ page[c].version < Len(saves')
                       /\ Based(page[c].version, page[c].base)'
  BY <1>1 DEF PageOK, Pages, Based
<1> QED BY <1>2, <1>3 DEF PageOK, Based

\* What a save does to the other browsers, and to the answers that wait.
LEMMA SendingStays ==
  ASSUME ServerOK, NEW x \in SaveRows, saves' = Append(saves, x),
         NEW c \in Browsers, SendingOK(c), sending[c] \in Sendings, sending'[c] = sending[c],
         page'[c] = page[c], kept'[c] = kept[c]
  PROVE  SendingOK(c)'
<1>1. /\ Len(saves') = Len(saves) + 1 /\ Len(saves) \in Nat
      /\ \A i \in 1..Len(saves) : saves'[i] = saves[i]
  BY AppendProperties DEF ServerOK
<1>2. sending[c].version < Len(saves) => sending[c].version + 1 \in 1..Len(saves)
  BY <1>1 DEF Sendings
<1> QED BY <1>1, <1>2 DEF SendingOK, Sendings, Based

\* Steps that leave the server alone touch what one browser holds.
LEMMA ClientStep ==
  ASSUME WorkspaceInv, NEW c \in Browsers, UNCHANGED <<saves, public>>,
         faults' \in 0..MaxFaults, ClientOK',
         \A d \in Browsers \ {c} : /\ page'[d] = page[d] /\ sending'[d] = sending[d]
                                   /\ kept'[d] = kept[d],
         PageOK(c)', SendingOK(c)'
  PROVE  WorkspaceInv'
<1>1. \A d \in Browsers \ {c} : PageOK(d)' /\ SendingOK(d)'
  BY DEF WorkspaceInv, PageOK, SendingOK, Known, Based
<1> QED BY <1>1 DEF WorkspaceInv, ServerOK, Projected, Workspace, Quotes

-----------------------------------------------------------------------------
(* One step of each action *)

LEMMA ServerSteps ==
  ASSUME WorkspaceInv, NEW c \in Browsers,
         SaveWorkspace(c) \/ LoseSave(c) \/ ResetWorkspace(c)
  PROVE  WorkspaceInv'
<1> USE DEF WorkspaceInv
<1>0. /\ page[c] \in Pages /\ sending[c] \in Sendings /\ Len(saves) \in Nat
      /\ \A d \in Browsers : page[d] \in Pages /\ sending[d] \in Sendings
  BY DEF ClientOK, ServerOK
<1>1. ASSUME SaveWorkspace(c), Acceptable(sending[c].version) PROVE WorkspaceInv'
  <2> DEFINE x == [content |-> sending[c].content, by |-> c, quoted |-> sending[c].version,
                   base |-> sending[c].base]
             y == [sending[c] EXCEPT !.at = "saved", !.version = Len(saves)]
  <2>1. x \in SaveRows /\ saves' = Append(saves, x) /\ public' = x.content \X {x.by}
    BY <1>0, <1>1 DEF SaveRows, Sendings, SaveWorkspace, syncPublicProjection
  <2>2. Replaces(x, Len(saves) + 1)
    <3>1. saves = <<>> => Len(saves) = 0
      OBVIOUS
    <3>2. Based(sending[c].version, sending[c].base)
      BY <1>1 DEF SaveWorkspace, SendingOK, Based
    <3>3. sending[c].version \in Nat /\ sending[c].base \in Nat
      BY <1>0 DEF Sendings
    <3>4. Len(saves) = 0 \/ sending[c].version = Len(saves) - 1
      BY <1>1, <3>1 DEF Acceptable, Version
    <3>5. \/ sending[c].base = sending[c].version + 1 /\ sending[c].base <= Len(saves)
          \/ sending[c].base = 0 /\ sending[c].version = 0
      BY <3>2 DEF Based
    <3>6. x.base = sending[c].base
      OBVIOUS
    <3> HIDE DEF x
    <3>7. Len(saves) \in Nat
      BY <1>0
    <3>8. x.base = (Len(saves) + 1) - 1 \/ (Len(saves) + 1 = 2 /\ x.base = 0)
      BY <3>3, <3>4, <3>5, <3>6, <3>7
    <3> QED BY <3>8 DEF Replaces
  <2>3. UNCHANGED <<page, queue, kept, faults>> /\ sending' = [sending EXCEPT ![c] = y]
    BY <1>1 DEF SaveWorkspace, ClientOK, Sendings
  <2>4. /\ y \in Sendings /\ y.at = "saved" /\ y.version = Len(saves)
        /\ y.newer = sending[c].newer /\ y.content = sending[c].content
    BY <1>0 DEF Sendings
  <2> HIDE DEF y
  <2>5. /\ ServerOK' /\ Projected' /\ Quotes'
        /\ Len(saves') = Len(saves) + 1 /\ saves'[Len(saves) + 1].content = x.content
    BY <2>1, <2>2, AppendKeeps
  <2>6. ClientOK'
    BY <2>3, <2>4 DEF ClientOK
  <2>7. ASSUME NEW d \in Browsers PROVE PageOK(d)'
    BY <1>0, <2>1, <2>3, KnownStays
  <2>8. ASSUME NEW d \in Browsers, d # c PROVE SendingOK(d)'
    <3>1. sending'[d] = sending[d]
      BY <2>3, <2>8 DEF ClientOK
    <3> QED BY <1>0, <2>1, <2>3, <3>1, SendingStays
  <2>9. SendingOK(c)'
    <3>1. sending'[c] = y /\ sending[c].at # "idle"
      BY <1>1, <2>3 DEF ClientOK, SaveWorkspace
    <3> QED BY <1>0, <2>3, <2>4, <2>5, <3>1 DEF SendingOK, Based
  <2> QED BY <2>3, <2>5, <2>6, <2>7, <2>8, <2>9
<1>2. ASSUME \/ SaveWorkspace(c) /\ ~Acceptable(sending[c].version)
             \/ LoseSave(c)
      PROVE  WorkspaceInv'
  <2>1. PICK at \in {"conflict", "failed"} : sending' = [sending EXCEPT ![c].at = at]
    BY <1>2 DEF SaveWorkspace, LoseSave
  <2> DEFINE y == [sending[c] EXCEPT !.at = at]
  <2>2. /\ y \in Sendings /\ y.at = at /\ y.newer = sending[c].newer
        /\ y.content = sending[c].content
    BY <1>0 DEF Sendings
  <2>3. sending' = [sending EXCEPT ![c] = y] /\ UNCHANGED <<saves, public, page, queue, kept>>
    BY <1>2, <2>1 DEF SaveWorkspace, LoseSave
  <2>4. faults' \in 0..MaxFaults /\ sending[c].at # "idle"
    BY <1>2, WorkspacesAssumption DEF SaveWorkspace, LoseSave, WorkspacesAssumption
  <2> HIDE DEF y
  <2>5. PageOK(c)' /\ SendingOK(c)'
    BY <2>2, <2>3, <2>4 DEF PageOK, SendingOK, Known, ClientOK, Based
  <2> QED BY <2>2, <2>3, <2>4, <2>5, ClientStep DEF ClientOK
<1>3. ASSUME ResetWorkspace(c) PROVE WorkspaceInv'
  <2> DEFINE x == [content |-> {}, by |-> c, quoted |-> AnyVersion, base |-> page[c].base]
  <2>1. x \in SaveRows /\ saves' = Append(saves, x) /\ public' = x.content \X {x.by}
    BY <1>0, <1>3 DEF SaveRows, ResetWorkspace, Contents, AnyVersion, Pages
  <2>2. ServerOK' /\ Projected' /\ Quotes'
    <3>1. Replaces(x, Len(saves) + 1)
      BY DEF Replaces
    <3> QED BY <2>1, <3>1, AppendKeeps
  <2>3. ClosedPage \in Pages /\ ~ClosedPage.ready /\ Idling \in Sendings /\ Idling.at = "idle"
    BY DEF ClosedPage, Pages, Idling, Sendings, Contents
  <2>4. /\ page' = [page EXCEPT ![c] = ClosedPage] /\ sending' = [sending EXCEPT ![c] = Idling]
        /\ UNCHANGED <<queue, kept, faults>>
    BY <1>3 DEF ResetWorkspace
  <2>5. ClientOK'
    BY <2>3, <2>4 DEF ClientOK
  <2>6. PageOK(c)' /\ SendingOK(c)'
    BY <2>3, <2>4 DEF PageOK, SendingOK, ClientOK, Based
  <2>7. ASSUME NEW d \in Browsers, d # c PROVE PageOK(d)' /\ SendingOK(d)'
    <3>1. page'[d] = page[d] /\ sending'[d] = sending[d] /\ kept'[d] = kept[d]
      BY <2>4, <2>7 DEF ClientOK
    <3> QED BY <1>0, <2>1, <3>1, KnownStays, SendingStays
  <2> QED BY <2>2, <2>4, <2>5, <2>6, <2>7
<1> QED BY <1>1, <1>2, <1>3

\* Nothing is on its way, and the page, if there is one, is sent as it is.
LEMMA SendKeeps ==
  ASSUME ClientOK, NEW c \in Browsers, NEW content \in Contents, NEW queued \in BOOLEAN,
         Send(c, content, queued), page'[c].ready, page'[c].state = content,
         UNCHANGED saves, Based(page[c].version, page[c].base)
  PROVE  sending' \in [Browsers -> Sendings] /\ SendingOK(c)'
         /\ \A d \in Browsers \ {c} : sending'[d] = sending[d]
<1> DEFINE y == [at |-> "wire", content |-> content, version |-> page[c].version,
                 base |-> page[c].base, newer |-> FALSE, queued |-> queued]
<1>1. /\ y \in Sendings /\ y.at = "wire" /\ y.newer = FALSE /\ y.content = content
      /\ y.version = page[c].version /\ y.base = page[c].base
  BY DEF Sendings, ClientOK, Pages
<1>2. sending' = [sending EXCEPT ![c] = y]
  BY DEF Send
<1> HIDE DEF y
<1> QED BY <1>1, <1>2 DEF ClientOK, SendingOK, Based

LEMMA PageSteps ==
  ASSUME WorkspaceInv, NEW c \in Browsers, OpenPage(c) \/ ClosePage(c) \/ ClearKept(c)
  PROVE  WorkspaceInv'
<1> USE DEF WorkspaceInv
<1>0. /\ page[c] \in Pages /\ sending[c] \in Sendings /\ Len(saves) \in Nat
      /\ kept[c] \subseteq Contents
  BY DEF ClientOK, ServerOK
<1>1. CASE OpenPage(c)
  <2>1. PICK state \in (IF (IF queue[c] THEN kept[c] ELSE {}) = {} THEN {Workspace}
                        ELSE kept[c] \cup {{}}) :
          page' = [page EXCEPT ![c] = [ready |-> TRUE, state |-> state, version |-> Version,
                                       base |-> Len(saves), dirty |-> queue[c],
                                       conflict |-> FALSE]]
    BY <1>1 DEF OpenPage
  <2>2. Workspace \in Contents /\ Version \in Nat /\ (Version = 0 \/ Version < Len(saves))
        /\ Workspace \subseteq Known(Version) /\ Based(Version, Len(saves))
    <3>1. CASE saves = <<>>
      BY <3>1 DEF Workspace, Version, Contents, Based
    <3>2. CASE saves # <<>>
      <4>1. Len(saves) \in 1..Len(saves)
        BY <1>0, <3>2 DEF ServerOK
      <4>2. Version = Len(saves) - 1 /\ Workspace = saves[Len(saves)].content
        BY <3>2 DEF Version, Workspace, Last
      <4>3. saves[Len(saves)] \in SaveRows
        BY <4>1 DEF ServerOK
      <4>4. Workspace \in Contents
        BY <4>2, <4>3 DEF SaveRows
      <4>5. Version + 1 = Len(saves) /\ Version \in Nat /\ Version < Len(saves)
        BY <1>0, <4>1, <4>2
      <4>6. Known(Version) = Workspace
        BY <3>2, <4>2, <4>5 DEF Known
      <4> QED BY <1>0, <4>4, <4>5, <4>6 DEF Based
    <3> QED BY <3>1, <3>2
  <2>3. state \in Contents /\ state \subseteq Known(Version) \cup UNION kept[c]
        /\ (~queue[c] => state \subseteq Known(Version))
    BY <1>0, <2>1, <2>2 DEF Contents
  <2> DEFINE y == [ready |-> TRUE, state |-> state, version |-> Version, base |-> Len(saves),
                   dirty |-> queue[c], conflict |-> FALSE]
  <2>4. y \in Pages /\ y.state = state /\ y.version = Version /\ y.dirty = queue[c]
        /\ y.base = Len(saves)
    BY <1>0, <2>2, <2>3 DEF Pages, ClientOK
  <2>5. page' = [page EXCEPT ![c] = y] /\ UNCHANGED <<saves, public, sending, queue, kept, faults>>
    BY <1>1, <2>1 DEF OpenPage
  <2>6. sending[c].at = "idle"
    BY <1>1 DEF OpenPage, SendingOK, Based
  <2> HIDE DEF y
  <2>7. PageOK(c)' /\ SendingOK(c)'
    BY <2>2, <2>3, <2>4, <2>5, <2>6 DEF PageOK, SendingOK, Known, ClientOK, Based
  <2> QED BY <2>4, <2>5, <2>7, ClientStep DEF ClientOK
<1>2. CASE ClosePage(c)
  <2>1. ClosedPage \in Pages /\ ~ClosedPage.ready /\ Idling \in Sendings /\ Idling.at = "idle"
    BY DEF ClosedPage, Pages, Idling, Sendings, Contents
  <2>2. faults' \in 0..MaxFaults
    BY <1>2, WorkspacesAssumption DEF ClosePage, WorkspacesAssumption
  <2>3. PageOK(c)' /\ SendingOK(c)'
    BY <1>2, <2>1 DEF ClosePage, PageOK, SendingOK, ClientOK, Based
  <2> QED BY <1>2, <2>1, <2>2, <2>3, ClientStep DEF ClosePage, ClientOK
<1>3. CASE ClearKept(c)
  <2>1. kept' = [kept EXCEPT ![c] = {}] /\ queue' = [queue EXCEPT ![c] = FALSE]
        /\ UNCHANGED <<saves, public, page, sending, faults>>
    BY <1>3 DEF ClearKept
  <2>2. PageOK(c)' /\ SendingOK(c)'
    BY <1>3, <2>1 DEF ClearKept, PageOK, SendingOK, Known, ClientOK, Based
  <2> QED BY <2>1, <2>2, ClientStep DEF ClientOK
<1> QED BY <1>1, <1>2, <1>3

LEMMA EditStep ==
  ASSUME WorkspaceInv, NEW c \in Browsers, NEW state \in Contents, NEW imported \in BOOLEAN,
         Edit(c, state, imported)
  PROVE  WorkspaceInv'
<1> USE DEF WorkspaceInv
<1>0. page[c] \in Pages /\ sending[c] \in Sendings
  BY DEF ClientOK
<1> DEFINE y == [page[c] EXCEPT !.state = state, !.dirty = TRUE]
<1>1. /\ y \in Pages /\ y.ready = page[c].ready /\ y.state = state /\ y.dirty = TRUE
      /\ y.version = page[c].version /\ y.base = page[c].base
  BY <1>0 DEF Pages
<1>2. /\ page' = [page EXCEPT ![c] = y] /\ kept' = [kept EXCEPT ![c] = {state}]
      /\ queue' = [queue EXCEPT ![c] = TRUE] /\ UNCHANGED <<saves, public, faults>>
  BY DEF Edit, ClientOK, Pages
<1> HIDE DEF y
<1>3. /\ page' \in [Browsers -> Pages] /\ kept' \in [Browsers -> SUBSET Contents]
      /\ queue' \in [Browsers -> BOOLEAN] /\ page'[c] = y /\ kept'[c] = {state}
      /\ \A d \in Browsers \ {c} : page'[d] = page[d] /\ kept'[d] = kept[d]
  BY <1>1, <1>2 DEF ClientOK
<1>4. PageOK(c)'
  BY <1>1, <1>2, <1>3 DEF PageOK, Known, Based
<1>5. y.ready
  BY <1>1 DEF Edit
<1>6. /\ sending' \in [Browsers -> Sendings] /\ SendingOK(c)'
      /\ \A d \in Browsers \ {c} : sending'[d] = sending[d]
  <2>1. CASE imported /\ ~page[c].conflict /\ sending[c].at = "idle"
    BY <1>1, <1>2, <1>3, <1>5, <2>1, SendKeeps DEF Edit, PageOK, Based
  <2>2. CASE ~(imported /\ ~page[c].conflict /\ sending[c].at = "idle")
    <3> DEFINE z == [sending[c] EXCEPT !.newer = sending[c].at # "idle"]
    <3>1. /\ z \in Sendings /\ z.at = sending[c].at /\ z.newer = (z.at # "idle")
          /\ z.version = sending[c].version /\ z.base = sending[c].base
          /\ z.content = sending[c].content
      BY <1>0 DEF Sendings
    <3>2. sending' = [sending EXCEPT ![c] = z]
      BY <2>2 DEF Edit
    <3> HIDE DEF z
    <3>3. sending' \in [Browsers -> Sendings] /\ sending'[c] = z
      BY <3>1, <3>2 DEF ClientOK
    <3>4. SendingOK(c)'
      <4>1. /\ sending'[c].at = sending[c].at /\ sending'[c].version = sending[c].version
            /\ sending'[c].base = sending[c].base /\ sending'[c].content = sending[c].content
            /\ sending'[c].newer = (sending[c].at # "idle")
            /\ page'[c].ready /\ page'[c].state = state /\ kept'[c] = {state}
        BY <1>1, <1>2, <1>3, <1>5, <3>1, <3>3
      <4>2. (sending[c].at = "wire" => Based(sending[c].version, sending[c].base))'
        BY <1>2, <4>1 DEF SendingOK, Based
      <4> QED BY <1>2, <4>1, <4>2 DEF SendingOK
    <3>5. \A d \in Browsers \ {c} : sending'[d] = sending[d]
      BY <3>2 DEF ClientOK
    <3> QED BY <3>3, <3>4, <3>5
  <2> QED BY <2>1, <2>2
<1>7. ClientOK'
  BY <1>3, <1>6 DEF ClientOK
<1> QED BY <1>2, <1>3, <1>4, <1>6, <1>7, ClientStep

LEMMA QueueSteps ==
  ASSUME WorkspaceInv, NEW c \in Browsers, Flush(c) \/ RetryPersistence(c)
  PROVE  WorkspaceInv'
<1> USE DEF WorkspaceInv
<1>0. page[c] \in Pages /\ sending[c] \in Sendings
  BY DEF ClientOK
<1>1. PICK y \in Pages :
        /\ page' = [page EXCEPT ![c] = y] /\ y.ready = page[c].ready /\ y.state = page[c].state
        /\ y.version = page[c].version /\ y.base = page[c].base /\ y.dirty = page[c].dirty
  <2>1. CASE Flush(c)
    <3>1. page' = [page EXCEPT ![c] = page[c]]
      BY <2>1 DEF Flush, ClientOK
    <3> QED BY <1>0, <3>1
  <2>2. CASE RetryPersistence(c)
    <3> DEFINE y == [page[c] EXCEPT !.conflict = FALSE]
    <3>1. /\ y \in Pages /\ y.ready = page[c].ready /\ y.state = page[c].state
          /\ y.version = page[c].version /\ y.base = page[c].base /\ y.dirty = page[c].dirty
      BY <1>0 DEF Pages
    <3>2. page' = [page EXCEPT ![c] = y]
      BY <2>2 DEF RetryPersistence
    <3> QED BY <3>1, <3>2
  <2> QED BY <2>1, <2>2
<1>2. UNCHANGED <<saves, public, kept, faults>> /\ queue' \in [Browsers -> BOOLEAN]
  BY DEF Flush, RetryPersistence, ClientOK
<1>3. page' \in [Browsers -> Pages] /\ page'[c] = y
      /\ \A d \in Browsers \ {c} : page'[d] = page[d]
  BY <1>1 DEF ClientOK
<1>4. PageOK(c)'
  BY <1>1, <1>2, <1>3 DEF PageOK, Known, Based
<1>5. /\ sending' \in [Browsers -> Sendings] /\ SendingOK(c)'
      /\ \A d \in Browsers \ {c} : sending'[d] = sending[d]
  <2>1. CASE UNCHANGED sending
    BY <1>1, <1>2, <1>3, <2>1 DEF ClientOK, SendingOK, Based
  <2>2. CASE Send(c, page[c].state, TRUE) /\ page[c].ready
    <3>1. page[c].state \in Contents /\ page'[c].ready /\ page'[c].state = page[c].state
      BY <1>0, <1>1, <1>3, <2>2 DEF Pages
    <3> QED BY <1>2, <2>2, <3>1, SendKeeps DEF PageOK, Based
  <2> QED BY <2>1, <2>2 DEF Flush, RetryPersistence, MaySend
<1>6. ClientOK'
  BY <1>2, <1>3, <1>5 DEF ClientOK
<1> QED BY <1>2, <1>3, <1>4, <1>5, <1>6, ClientStep

LEMMA AnswerStep ==
  ASSUME WorkspaceInv, NEW c \in Browsers, ReceiveAnswer(c)
  PROVE  WorkspaceInv'
<1> USE DEF WorkspaceInv
<1> DEFINE x == sending[c]
           y == [page[c] EXCEPT !.version = IF x.at = "saved" THEN x.version ELSE @,
                                !.base = IF x.at = "saved" THEN x.version + 1 ELSE @,
                                !.dirty = ~Settled(c),
                                !.conflict = @ \/ x.at = "conflict"]
<1>0. /\ page[c] \in Pages /\ x \in Sendings /\ x.at # "idle"
      /\ Settled(c) \in BOOLEAN /\ (Settled(c) <=> x.at = "saved" /\ ~x.newer)
  BY DEF ClientOK, ReceiveAnswer, Answered, Settled
<1>a. x.version \in Nat /\ x.version + 1 \in Nat
  BY <1>0 DEF Sendings
<1>1. /\ y \in Pages /\ y.ready = page[c].ready /\ y.state = page[c].state
      /\ x.at = "saved" => y.version = x.version /\ y.base = x.version + 1
      /\ x.at # "saved" => y.version = page[c].version /\ y.base = page[c].base
      /\ y.dirty = ~Settled(c)
  <2>1. CASE x.at = "saved"
    BY <1>0, <1>a, <2>1 DEF Pages
  <2>2. CASE x.at # "saved"
    BY <1>0, <2>2 DEF Pages
  <2> QED BY <2>1, <2>2
<1>2. ClosedPage \in Pages /\ ~ClosedPage.ready /\ Idling \in Sendings /\ Idling.at = "idle"
  BY DEF ClosedPage, Pages, Idling, Sendings, Contents
<1>3. PICK after \in {y, ClosedPage} : page' = [page EXCEPT ![c] = after]
  BY DEF ReceiveAnswer
<1>4. /\ kept' = IF Settled(c) THEN [kept EXCEPT ![c] = {}] ELSE kept
      /\ sending' = [sending EXCEPT ![c] = Idling] /\ UNCHANGED <<saves, public, faults>>
      /\ queue' \in [Browsers -> BOOLEAN]
  BY <1>0 DEF ReceiveAnswer, ClientOK, Sendings
<1> HIDE DEF y
<1>5. /\ page' \in [Browsers -> Pages] /\ page'[c] = after
      /\ sending' \in [Browsers -> Sendings] /\ sending'[c] = Idling
      /\ kept' \in [Browsers -> SUBSET Contents]
      /\ kept'[c] = IF Settled(c) THEN {} ELSE kept[c]
      /\ \A d \in Browsers \ {c} : /\ page'[d] = page[d] /\ sending'[d] = sending[d]
                                   /\ kept'[d] = kept[d]
  BY <1>1, <1>2, <1>3, <1>4 DEF ClientOK
<1>6. SendingOK(c)'
  BY <1>2, <1>5 DEF SendingOK, Based
<1>7. PageOK(c)'
  <2>1. CASE after = ClosedPage
    BY <1>2, <1>5, <2>1 DEF PageOK, Based
  <2>2. CASE after = y /\ Settled(c)
    <3>1. y.state = x.content /\ y.version = x.version /\ x.version < Len(saves)
          /\ saves[x.version + 1].content = x.content /\ x.version \in Nat /\ Len(saves) \in Nat
          /\ y.base = x.version + 1
      BY <1>0, <1>1, <2>2 DEF SendingOK, Sendings, ServerOK, Based
    <3>2. y.state \subseteq Known(y.version)
      BY <3>1 DEF Known, ServerOK
    <3> QED BY <1>4, <1>5, <2>2, <3>1, <3>2 DEF PageOK, Known, Based
  <2>3. CASE after = y /\ x.at = "saved" /\ ~Settled(c)
    <3>1. y.state \in kept[c] /\ y.version < Len(saves) /\ y.dirty /\ y.base = y.version + 1
          /\ y.version \in Nat /\ Len(saves) \in Nat
      BY <1>0, <1>1, <2>3 DEF SendingOK, Sendings, ServerOK
    <3> QED BY <1>4, <1>5, <2>3, <3>1 DEF PageOK, Known, Based
  <2>4. CASE after = y /\ x.at # "saved"
    BY <1>0, <1>1, <1>4, <1>5, <2>4 DEF PageOK, Known, Based
  <2> QED BY <1>3, <2>1, <2>2, <2>3, <2>4
<1>8. ClientOK'
  BY <1>4, <1>5 DEF ClientOK
<1> QED BY <1>4, <1>5, <1>6, <1>7, <1>8, ClientStep

-----------------------------------------------------------------------------
(* Theorems *)

LEMMA WorkspaceInvInit == WorkspaceInit => WorkspaceInv
<1> SUFFICES ASSUME WorkspaceInit PROVE WorkspaceInv
  OBVIOUS
<1>1. ClosedPage \in Pages /\ ~ClosedPage.ready /\ Idling \in Sendings /\ Idling.at = "idle"
  BY DEF ClosedPage, Pages, Idling, Sendings, Contents
<1>2. ServerOK /\ Projected /\ Quotes
  BY DEF WorkspaceInit, ServerOK, Projected, Quotes
<1>3. ClientOK /\ faults \in 0..MaxFaults
  BY <1>1, WorkspacesAssumption DEF WorkspaceInit, ClientOK, WorkspacesAssumption
<1>4. \A c \in Browsers : PageOK(c) /\ SendingOK(c)
  BY <1>1 DEF WorkspaceInit, PageOK, SendingOK, Based
<1> QED BY <1>2, <1>3, <1>4 DEF WorkspaceInv

LEMMA WorkspaceInvStep == WorkspaceInv /\ [WorkspaceNext]_workspaceVars => WorkspaceInv'
<1> SUFFICES ASSUME WorkspaceInv, [WorkspaceNext]_workspaceVars PROVE WorkspaceInv'
  OBVIOUS
<1>1. CASE UNCHANGED workspaceVars
  BY <1>1 DEF workspaceVars, clientVars, WorkspaceInv, ServerOK, ClientOK, Projected, Workspace,
              Quotes, PageOK, SendingOK, Known, Based
<1>2. ASSUME NEW c \in Browsers, NEW e \in Edits,
             Edit(c, page[c].state \cup {e}, FALSE) \/ Edit(c, {e}, TRUE)
      PROVE  WorkspaceInv'
  <2>1. page[c].state \cup {e} \in Contents /\ {e} \in Contents
    BY DEF WorkspaceInv, ClientOK, Pages, Contents
  <2> QED BY <1>2, <2>1, EditStep
<1>3. CASE WorkspaceNext
  BY <1>2, <1>3, ServerSteps, PageSteps, QueueSteps, AnswerStep DEF WorkspaceNext
<1> QED BY <1>1, <1>3

LEMMA WorkspaceInvImplies ==
  WorkspaceInv => ProjectionIsWorkspace /\ ReplacedWasLoaded /\ UnsavedIsKept
<1> SUFFICES ASSUME WorkspaceInv PROVE ProjectionIsWorkspace /\ ReplacedWasLoaded /\ UnsavedIsKept
  OBVIOUS
<1> USE DEF WorkspaceInv
<1>1. ProjectionIsWorkspace
  BY DEF ProjectionIsWorkspace, WorkspaceTypeOK, ServerOK, SaveRows, ClientOK, Pages, Sendings,
         Projected
<1>2. ReplacedWasLoaded
  BY DEF ReplacedWasLoaded, Quotes, Replaces, ServerOK
<1>3. UnsavedIsKept
  BY DEF UnsavedIsKept, PageOK, Known, Based
<1> QED BY <1>1, <1>2, <1>3

\* The public rows are those of the last save, whoever saved before (syncPublicProjection).
THEOREM ProjectionCorrect == WorkspaceSpec => []ProjectionIsWorkspace
BY WorkspaceInvInit, WorkspaceInvStep, WorkspaceInvImplies, PTL DEF WorkspaceSpec

\* No save replaces a workspace that its page had not loaded or saved, but for resets and the
\* second save of all, from a page that found none (PUT /api/v1/workspace).
THEOREM VersionsCorrect == WorkspaceSpec => []ReplacedWasLoaded
BY WorkspaceInvInit, WorkspaceInvStep, WorkspaceInvImplies, PTL DEF WorkspaceSpec

\* No edit that a page shows is neither on the server nor in the browser's storage
\* (save, persistNow and the persistence queue).
THEOREM UnsavedCorrect == WorkspaceSpec => []UnsavedIsKept
BY WorkspaceInvInit, WorkspaceInvStep, WorkspaceInvImplies, PTL DEF WorkspaceSpec
=============================================================================
