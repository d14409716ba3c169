SPECIFICATION FairSpec
CONSTANTS
  Slash = Slash
  Root = Slash
  DataMounts = {}
  SmartDevices = {}
  CPUConsecutiveChecks = 1
  AlertCooldown = 1
  TempEnabled = TRUE
  Samples <- RamSamples
  MailFaults = {"refused", "lost"}
  MaxTime = 2
  CheckInterval = 1
  DiskInterval = 2
  HeartbeatHour = 0
  UnitsPerHour = 2
  HoursPerDay = 1
  StartHour = 0
  Shifts <- NoShifts
  Restarts = TRUE
PROPERTIES SignalHonoured TicksServed OneMailPerCooldown
