SPECIFICATION MCSpec
CONSTANTS
  Attempts = 2
  k1 = k1
  k2 = k2
  k3 = k3
  l1 = l1
  s1 = s1
  s2 = s2
  c1 = c1
  c2 = c2
  d1 = d1
  r1 = r1
  u1 = u1
  u2 = u2
  u3 = u3
  Callers <- ThreeCallers
  Limiters <- OneLimiter
  LimiterOf <- Shared
  Endpoints <- UserManagement
  Limit <- SmallLimits
  Window <- SmallWindows
  Sessions <- TwoSessions
  Creates <- TwoCreates
  Disables <- OneDisable
  Resets <- OneReset
  Users <- ThreeUsers
  MaxFaults = 1
  People <- OneUser
  Companies <- TwoHomes
  Syncs <- TwoSyncs
  Runs <- OneRun
  MaxDay = 2
  IdleDays = 0
  Answers <- UsedOrIdle
  MaxTime = 2
  Backups <- TwoScripts
  Restores <- TwoScripts
  NameOf <- SameSecond
  Nil = "none"
  MaxStops = 1
  Runners <- TwoRunners
  Releases <- Branches
INVARIANTS GrantsWithinBudget NeverSentBlind NoOrphans ChangesTakeEffect
  BackupsAreWhole WindowIsAnswered AuthorityLasts HistoryIsPrefix
PROPERTIES OperationsSettle FlagsEarned NewestAnswerStays
CHECK_DEADLOCK FALSE
