CONSTANTS
  i1 = i1
  i2 = i2
  p1 = p1
  u1 = u1
  a1 = a1
  NoLimit = NoLimit
  Dispatches <- MCDispatches
  Projects <- MCProjects
  Users <- MCUsers
  Admins <- MCAdmins
  MemberChoices <- MCMemberChoices
  Weeks <- MCWeeks
  Years <- MCYears
  KeyPairs <- MCKeyPairs
  Observations <- MCObservations
  MaxDispatches = 2
SPECIFICATION NotificationSpec
CHECK_DEADLOCK FALSE
INVARIANT SofterMailsSpareAdmins
