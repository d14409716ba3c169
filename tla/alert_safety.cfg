SPECIFICATION Spec
CONSTANTS
  Slash = Slash
  Data = Data
  Disk = Disk
  Root = Slash
  DataMounts = {Slash, Data}
  SmartDevices = {}
  CPUConsecutiveChecks = 2
  AlertCooldown = 2
  TempEnabled = TRUE
  Samples <- CpuOrDisks
  MailFaults = {"refused", "lost"}
  MaxTime = 3
INVARIANTS TypeOK CpuAlertMeansRun EveryBreachCovered EveryBreachSummarised
PROPERTIES OneMailPerCooldown ImplementsPolicy
