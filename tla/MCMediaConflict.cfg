CONSTANTS
  Keys = {k1}
  Dests = {d1, d2}
  Temps = {t1, t2}
  Folders = {f1}
  FolderOf <- OneFolder
  Workers = {w1, w2}
  None = None
  Faults = {"crash", "power"}
SPECIFICATION Spec
SYMMETRY Symmetry
PROPERTIES
  ConflictIsStored
