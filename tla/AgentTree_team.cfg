SPECIFICATION Spec
CONSTANTS
  b1 = b1
  b2 = b2
  f1 = f1
  t1 = t1
  t2 = t2
  p = p
  Agents = {b1, t1, t2}
  Background = {b1}
  TeamOrder <- MCTeam
  Parents = {p}
  NoParent = NoParent
  Parent <- MCOneOwned
  NoAgent = NoAgent
  AllSenders = AllSenders
  WaitTargets <- NoWaits
  SessionCloses = TRUE
  Capacity = 2
  Retention = 1
  MailboxCapacity = 2
  MaxSends = 1
INVARIANTS  ShutdownComplete
PROPERTIES TerminalStays
CHECK_DEADLOCK FALSE
