----------------------------- MODULE MCConsole -----------------------------
(***************************************************************************)
(* The tenant of the scan web console: in one behaviour its accounts are   *)
(* used, with some of the credentials, in another one its workspace.       *)
(***************************************************************************)
EXTENDS Accounts, Workspaces

CONSTANTS
  owner, admin, guest,
  link, challenge, stepUp, code1, code2, case1, case2, invitation

MCKindOf == link :> "reset" @@ challenge :> "challenge" @@ stepUp :> "stepUp" @@
            code1 :> "code" @@ code2 :> "code" @@ case1 :> "case" @@ case2 :> "case" @@
            invitation :> "invitation"
MCOwners == [c \in Credentials |-> owner]
MCUserOf == [c \in Credentials |-> IF c = invitation THEN guest ELSE admin]

\* Credentials that are not used up, and the roles of the owner and the administrator.
Scenario(S, x, y) == [credentials |-> S, owner |-> x, admin |-> y]
Scenarios == {
  Scenario({link, challenge}, "BRAND_ADMIN", "BRAND_ADMIN"),
  Scenario({code1, code2}, "BRAND_ADMIN", "STORE_RECEIVER"),
  Scenario({case1, case2}, "BRAND_ADMIN", "BRAND_ADMIN"),
  Scenario({stepUp, invitation}, "TENANT_OWNER", "BRAND_ADMIN")}

vars == <<accountVars, workspaceVars>>
\* The guest joins by the invitation, or is there from the start.
AccountsUntouched == users[guest].status # "absent" /\ uses[invitation] = 0

MCInit ==
  /\ WorkspaceInit
  /\ \/ \E x \in Scenarios :
          /\ AccountInitWith(Credentials \ x.credentials)
          /\ users[owner].role = x.owner /\ users[admin].role = x.admin
          /\ users[admin].status = "ACTIVE" /\ users[guest].status = "absent"
     \/ /\ AccountInitWith(Credentials)
        /\ \A u \in Users : users[u].role = "BRAND_ADMIN"

MCNext ==
  \/ ~AccountsUntouched /\ AccountNext /\ UNCHANGED workspaceVars
  \/ AccountsUntouched /\ WorkspaceNext /\ UNCHANGED accountVars

\* A tenant that the platform provisioned, with two brand administrators.
RolesInit ==
  /\ WorkspaceInit /\ AccountInitWith(Credentials \ {challenge})
  /\ users[owner].role = "TENANT_OWNER"
  /\ \A u \in Users \ {owner} : users[u].role = "BRAND_ADMIN"

RolesSpec == RolesInit /\ [][AccountNext /\ UNCHANGED workspaceVars]_vars
MCSpec == MCInit /\ [][MCNext]_vars
MCSymmetry == Permutations(Sessions) \cup Permutations(Requests)
=============================================================================
