SPECIFICATION FairSpec
CONSTANTS
  a1 = a1
  a2 = a2
  b1 = b1
  b2 = b2
  c1 = c1
  a = a
  b = b
  c = c
  Requests = {a1, a2, b1, b2, c1}
  Keys = {a, b, c}
  KeyOf <- MCKeyOf
  MaxPermits = 2
CHECK_DEADLOCK FALSE
INVARIANTS
  TypeOK
  PermitsCounted
  OnePerKey
  NoLostWakeup
PROPERTY SleepersServed
