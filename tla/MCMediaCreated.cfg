CONSTANTS
  Keys = {k1}
  Dests = {d1}
  Temps = {t1}
  Folders = {f1}
  FolderOf <- OneFolder
  Workers = {w1}
  None = None
  Faults = {"power"}
SPECIFICATION Spec
INVARIANTS
  CreatedIsStored
