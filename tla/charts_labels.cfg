SPECIFICATION Spec
CONSTANTS
  cpu = cpu
  netrx = netrx
  s1 = s1
  s2 = s2
  SeriesNames = {cpu, netrx}
  Snapshots <- CpuSnapshots
  MaxValue = 2
  HistorySize = 2
  ChartSize = 2
  CriticalFrom <- CpuCritical
  MaxBackoff = 3
  Sources = {s1, s2}
  MaxWire = 2
  MaxUpdates = 3
  MaxFaults = 2
INVARIANTS LabelsFit
