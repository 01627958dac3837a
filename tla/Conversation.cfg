SPECIFICATION FairSpec
CONSTANTS
  u1 = u1
  u2 = u2
  r1 = r1
  r2 = r2
  r3 = r3
  Users = {u1, u2}
  Requests = {r1, r2, r3}
  UsersOf <- MCUsersOf
  KindsOf <- MCKindsOf
  MaxSessions = 3
  MaxHistory = 2
  MaxFailures = 1
INVARIANTS TypeOK TurnsWhole AnsweredIsKept ShownIsKept OwnTurns HistoryIsRecent OwnersExist
PROPERTIES LogSpec EveryRequestEnds
CHECK_DEADLOCK FALSE
