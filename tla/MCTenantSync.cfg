CONSTANTS
  owner = owner
  user = user
  t1 = t1
  t2 = t2
  h1 = h1
  h2 = h2
  Nobody = Nobody
  NoTenant = NoTenant
  Owner = owner
  Users <- MCUsers
  Answers <- MCAnswers
  Tenants <- MCTenants
  Handlers <- MCHandlers
  MaxProjects = 2
  MaxChanges = 1
  MaxEdits = 1
  MaxFaults = 1
SPECIFICATION Spec
SYMMETRY Symmetry
CHECK_DEADLOCK FALSE
INVARIANTS
  OwnerRunsProjects
  RolesFollowCstar
PROPERTY AdminsKept
