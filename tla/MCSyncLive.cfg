CONSTANTS
  e1 = e1
  e2 = e2
  a1 = a1
  a2 = a2
  Events = {e1}
  Accounts = {a1}
  Targets <- OneAccount
  Threads = {t1, t2}
  Requests = {r1, r2, r3}
  None = None
  Faults = {"actual", "timeout", "garbled", "crash"}
SPECIFICATION FairSpec
PROPERTIES
  EventuallyImported
  RequestAnswered
