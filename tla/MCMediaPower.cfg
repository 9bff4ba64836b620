CONSTANTS
  Keys = {k1}
  Dests = {d1, d2}
  Temps = {t1, t2}
  Folders = {d1, d2}
  FolderOf <- OwnFolder
  Workers = {w1, w2}
  None = None
  Faults = {"power", "stall"}
SPECIFICATION Spec
SYMMETRY Symmetry
INVARIANTS
  OnlyWholeFiles
  CreatedSurvivesPowerLoss
PROPERTIES
  AnsweredHasFile
