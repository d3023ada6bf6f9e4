SPECIFICATION FairSpec
CONSTANTS
  t1 = t1
  t2 = t2
  b1 = b1
  b2 = b2
  m1 = m1
  log = log
  None = None
  Tab = {t1, t2}
  Broker = {b1, b2}
  Primary = b1
  Msg = {m1, log}
  Direct = {log}
  From <- FromFirst
  MaxRetries = 1
  MaxFaults = 1
INVARIANTS LogStaysHome GivenUpLate
PROPERTIES ImplementsReliableSend Drains
