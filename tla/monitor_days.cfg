SPECIFICATION Spec
CONSTANTS
  Slash = Slash
  Root = Slash
  DataMounts = {}
  SmartDevices = {}
  CPUConsecutiveChecks = 1
  AlertCooldown = 1
  TempEnabled = TRUE
  Samples <- QuietOnly
  MailFaults = {"refused"}
  MaxTime = 11
  CheckInterval = 2
  DiskInterval = 3
  HeartbeatHour = 1
  UnitsPerHour = 2
  HoursPerDay = 3
  StartHour = 3
  Shifts <- BackOrForth
  Restarts = TRUE
INVARIANTS TypeOK
PROPERTIES HeartbeatHourServed OneHeartbeatPerDay
