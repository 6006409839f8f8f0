CONSTANTS
  h1 = h1
  h2 = h2
  alice = alice
  bob = bob
  x = x
  y = y
  Unset = Unset
  Handlers <- MCHandlers
  Keys <- MCKeys
  Payloads <- MCPayloads
  MaxWaits = 2
  e1 = e1
  e2 = e2
  c1 = c1
  c2 = c2
  NoExecution = NoExecution
  Executions <- MCExecutions
  Callbacks <- MCCallbacks
  MaxRegistrations = 2
  i1 = i1
  i2 = i2
  p1 = p1
  u1 = u1
  a1 = a1
  NoLimit = NoLimit
  Dispatches <- MCDispatches
  Projects <- MCProjects
  Users <- MCUsers
  Admins <- MCAdmins
  MemberChoices <- MCMemberChoices
  Weeks <- MCWeeks
  Years <- MCYears
  KeyPairs <- MCKeyPairs
  Observations <- MCObservations
  MaxDispatches = 2
SPECIFICATION BackgroundSpec
CHECK_DEADLOCK FALSE
INVARIANTS
  TypeOK
  CounterMatchesCalls
  CompletionsAgree
  CompletionWatched
  FirstWaitAllOrNothing
  WaitReachable
  NotificationTypeOK
  EventsAccounted
  HardStopReachesAdmins
PROPERTIES
  ReceivedStays
  CompletionNoticed
  ResubmissionResumes
  SendsOnce
  EventsSettle
