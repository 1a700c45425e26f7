SPECIFICATION FairSpec
CONSTANTS
  b1 = b1
  b2 = b2
  f1 = f1
  t1 = t1
  t2 = t2
  p = p
  Agents = {t1, t2}
  Background = {}
  TeamOrder <- MCTeam
  Parents = {p}
  NoParent = NoParent
  Parent <- MCParent
  NoAgent = NoAgent
  AllSenders = AllSenders
  WaitTargets <- NoWaits
  SessionCloses = TRUE
  Capacity = 2
  Retention = 1
  MailboxCapacity = 1
  MaxSends = 0
PROPERTY ShutdownReturns
CHECK_DEADLOCK FALSE
