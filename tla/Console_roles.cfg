CONSTANTS
  owner = owner  admin = admin  guest = guest
  Users = {owner, admin, guest}
  Owner = owner
  Sessions = {s1}
  Requests = {r1, r2}
  link = link  challenge = challenge  stepUp = stepUp  code1 = code1  code2 = code2
  case1 = case1  case2 = case2  invitation = invitation
  Credentials = {link, challenge, stepUp, code1, code2, case1, case2, invitation}
  KindOf <- MCKindOf
  UserOf <- MCOwners
  MaxRotations = 1
  Nobody = Nobody
  Browsers = {c1, c2}
  Edits = {e1, e2}
  MaxSaves = 3
  MaxFaults = 1
SPECIFICATION RolesSpec
PROPERTIES BrandAdminRemains
CHECK_DEADLOCK FALSE
