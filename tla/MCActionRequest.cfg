CONSTANTS
  h1 = h1
  h2 = h2
  alice = alice
  bob = bob
  carol = carol
  Nobody = Nobody
  Assignee = alice
  Users <- MCUsers
  Members <- MCMembers
  Handlers <- MCHandlers
  MaxPatches = 1
SPECIFICATION Spec
CHECK_DEADLOCK FALSE
INVARIANT OutcomeMatchesUpstream
PROPERTY ImplementsLifecycle
