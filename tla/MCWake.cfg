CONSTANTS
  Threads = {t1, t2}
  None = None
  Faults = {"crash", "power", "io", "send"}
SPECIFICATION FairSpec
INVARIANTS
  TypeOK
  SettingSurvives
  AlwaysStarts
PROPERTIES
  Implements
  RequestAnswered
