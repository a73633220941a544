CONSTANTS
  d1 = d1
  d12 = d12
  Devices = {d1, d12}
  Users = {u1, u2}
  Inside <- MCInside
  Times = {1, 2}
  Cutoff <- MCCutoff
  JsonSize <- MCJsonSize
  None = none
  MaxCreates = 2
  MaxEvents = 2
  MaxPairs = 2
  MaxEdits = 2
  MaxRemovals = 2
  MaxJobs = 1
  MaxRequests = 5
SPECIFICATION Spec
SYMMETRY Symmetry
PROPERTY ArchivedOrKept
CHECK_DEADLOCK FALSE
