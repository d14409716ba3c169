SPECIFICATION FairSpec
CONSTANTS
  sda = sda
  data = data
  Unset = Unset
  Garbage = Garbage
  Environments <- EnvironmentsTried
  Devices = {sda}
  Mounts = {data}
  MaxFailures = 1
  SensorOutputs <- Outputs
  NoDevice = NoDevice
  Wrap = 3
  MaxClock = 2
INVARIANTS TypeOK RunsConfigured SnapshotComplete FailingReported NoFalseFailure
PROPERTIES RateTrue ComesUp
