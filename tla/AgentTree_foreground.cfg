SPECIFICATION Spec
CONSTANTS
  b1 = b1
  b2 = b2
  f1 = f1
  t1 = t1
  t2 = t2
  p = p
  Agents = {b1, f1}
  Background = {b1}
  TeamOrder <- NoTeam
  Parents = {p}
  NoParent = NoParent
  Parent <- MCParent
  NoAgent = NoAgent
  AllSenders = AllSenders
  WaitTargets <- NoWaits
  SessionCloses = FALSE
  Capacity = 2
  Retention = 1
  MailboxCapacity = 2
  MaxSends = 0
INVARIANT ForegroundNotMailed
CHECK_DEADLOCK FALSE
