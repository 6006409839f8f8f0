CONSTANTS
  owner = owner
  user = user
  t1 = t1
  t2 = t2
  h1 = h1
  h2 = h2
  Nobody = Nobody
  NoTenant = NoTenant
  Owner = owner
  Users <- MCUsers
  Answers <- MCAnswers
  Tenants <- MCTenants
  Handlers <- MCHandlers
  MaxProjects = 2
  MaxChanges = 0
  MaxEdits = 0
  MaxFaults = 0
SPECIFICATION Spec
SYMMETRY Symmetry
CHECK_DEADLOCK FALSE
INVARIANT OneProjectPerTenant
