SPECIFICATION MCSpec
CONSTANTS
  w1 = w1
  w2 = w2
  s1 = s1
  a1 = a1
  Workers <- TwoWorkers
  Approvers <- OneApprover
  Subjects <- OneSubject
  KindsSeen <- Kinds
  MaxChanges = 1
  MaxWindow = 1
  MaxFaults = 1
  Dispatchers <- TwoWorkers
  Worker = w1
  Notifications <- TwoMails
  MaxAttempts = 2
  MaxMailFaults = 2
  MaxMailChanges = 1
INVARIANTS DuplicatesExplained RemindersJustified MailsExplained AttemptsBounded
PROPERTIES InvitationsDueWhenFired AlertsDelivered NotificationsSettle
CHECK_DEADLOCK FALSE
