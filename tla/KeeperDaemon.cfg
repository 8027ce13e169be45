SPECIFICATION ProcessSpec
CONSTANTS
  Senders = {s1, s2}
  MAXFAILURES = 2
  COOLDOWN = 1
  MaxOrphans = 3
  MaxFaults = 3
  DAY = 2
  WEEK = 4
  BATCHES = 1
  SameAnchor = TRUE
  MaxIncidents = 2
  Sockets = {c1, c2}
  NoSocket = NoSocket
  COLD = 1
  HOT = 1
  INTERVAL = 2
  SAFETYNET = 3
  MINREPEAT = 1
  TIMEOUT = 1
  MaxMishaps = 1
INVARIANTS StopHolds NoActiveWindowSkipped
PROPERTIES KeeperGoesOn WorkIsSeen
CHECK_DEADLOCK FALSE
