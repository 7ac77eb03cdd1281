SPECIFICATION Spec
CONSTANTS
  byNumber = byNumber
  byDays = byDays
  Policies = {byNumber, byDays}
  Databases = {byDays}
  Backups = {1, 2, 3}
  Contents = {c}
  Jobs = {j}
  Pruners = {r, s}
  Temps = {t}
  None = None
  KeepLast <- MCKeepLast
  KeepDays <- MCKeepDays
  Days = {0, 2}
  MaxFaults = 1
SYMMETRY MCSymmetry
CHECK_DEADLOCK FALSE
INVARIANTS SucceededHasContent KeepLastRemain  RunningHasRun
