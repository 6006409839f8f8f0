CONSTANTS
  s1 = s1
  s2 = s2
  w1 = w1
  w2 = w2
  p1 = p1
  NoLimit = NoLimit
  Slots <- MCSlots
  Projects <- MCProjects
  Workflows <- MCWorkflows
  SharedWith <- MCSharedWith
  KindOf <- MCKindOf
  QueueMode = TRUE
  Deployments <- MCDeployments
  LastDay = 1
  WeekOf <- MCWeekOf
  YearOf <- MCYearOf
  WeeksOverlapping <- MCWeeksOverlapping
  Weeks <- MCWeeks
  Years <- MCYears
  Horizon = 2
  Int4Max = 2
  LimitBodies <- MCLimitBodies
  DefaultsBodies <- MCDefaultsBodies
  TopupAmounts <- MCAmounts
  InitialTopups <- MCInitialTopups
  MaxExecutions = 3
  MaxEdits = 1
SYMMETRY MCSymmetry
SPECIFICATION Spec
CHECK_DEADLOCK FALSE
INVARIANTS
  TypeOK
  BoundedOvershoot
  ChargedAtMostOnce
  LedgerBalances
  WithinConfiguredLimit
  DisplayedAsEnforced
PROPERTIES
  RejectionJustified
  ChargedWhereChecked
  RejectedAtConfiguredLimit
