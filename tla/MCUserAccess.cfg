CONSTANTS
  alice = alice
  bob = bob
  h1 = h1
  h2 = h2
  NoRole = NoRole
  Nobody = Nobody
  Roles <- MCRoles
  People <- MCPeople
  Handlers <- MCHandlers
  MaxRequests = 2
  MaxChanges = 1
SPECIFICATION Spec
SYMMETRY Symmetry
CHECK_DEADLOCK FALSE
INVARIANTS
  OwnerRemains
  RolesWereGranted
  ApprovalsTakeEffect
