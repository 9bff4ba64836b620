CONSTANTS
  Workers = {w1, w2}
  Devices = {sda, sdb}
  Labelled = {sda}
  MountPoints = {backup, media}
  BackupMount = backup
  None = None
  MaxTicks = 2
  MaxWatched = 0
SPECIFICATION Spec
INVARIANTS
  ShareIsMeasured
  NothingMissed
  MountedIsReported
PROPERTIES
  RequestAnswered
