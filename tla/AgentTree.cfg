SPECIFICATION FairSpec
CONSTANTS
  b1 = b1
  b2 = b2
  f1 = f1
  t1 = t1
  t2 = t2
  p = p
  Agents = {b1, f1}
  Background = {b1}
  TeamOrder <- NoTeam
  Parents = {p}
  NoParent = NoParent
  Parent <- MCOneOwned
  NoAgent = NoAgent
  AllSenders = AllSenders
  WaitTargets <- MCTargets
  SessionCloses = TRUE
  Capacity = 1
  Retention = 1
  MailboxCapacity = 2
  MaxSends = 0
INVARIANTS OneCompletion NoLostWakeup
PROPERTIES ShutdownReturns BackpressureDrains
CHECK_DEADLOCK FALSE
