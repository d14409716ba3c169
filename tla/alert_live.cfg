SPECIFICATION FairSpec
CONSTANTS
  Slash = Slash
  Data = Data
  Disk = Disk
  Root = Slash
  DataMounts = {}
  SmartDevices = {Disk}
  CPUConsecutiveChecks = 2
  AlertCooldown = 2
  TempEnabled = TRUE
  Samples <- MoreSamples
  MailFaults = {"refused", "lost"}
  MaxTime = 3
PROPERTIES PersistentBreachAlerted
