CONSTANTS
  Keys = {k1}
  Dests = {d1, d2}
  Temps = {t1, t2, t3}
  Folders = {d1, d2}
  FolderOf <- OwnFolder
  Workers = {w1, w2}
  None = None
  Faults = {"crash", "power", "io"}
SPECIFICATION Spec
SYMMETRY Symmetry
INVARIANTS
  TypeOK
  UploadKeepsReservation
  UploadKeepsTemp
  OneFilePerKey
  NoUntrackedFile
  NoLockLeftBehind
PROPERTIES
  Implements
