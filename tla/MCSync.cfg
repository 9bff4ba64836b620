CONSTANTS
  e1 = e1
  e2 = e2
  a1 = a1
  a2 = a2
  Events = {e1, e2}
  Accounts = {a1, a2}
  Targets <- Remapped
  Threads = {t1, t2}
  Requests = {r1, r2, r3, r4}
  None = None
  Faults = {"actual", "timeout", "date", "db", "garbled", "crash", "early"}
SPECIFICATION Spec
SYMMETRY Symmetry
INVARIANTS
  TypeOK
  OneChild
  CompletedIsBooked
  EveryImportHasRow
PROPERTIES
  CompletedIsFinal
  DecidedIsRecorded
  HealthyUnlessLost
  Implements
