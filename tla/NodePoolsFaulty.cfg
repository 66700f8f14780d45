SPECIFICATION Spec

CONSTANTS
  NpNames <- MCNpNames
  Legacy = {}
  CpuNp = "cpu-np"
  DefaultPool = "default-pool"
  DeviceTypes = {"x", "y"}
  DeviceTypeOf <- MCDeviceTypeOf
  CpuType = "cpu"
  Zones = {"z1", "z2"}
  ArgChoices <- FaultyChoices
  Absent = Absent
  NoRecord = NoRecord
  MaxFaults = 2
  SameTypeRetry = FALSE
  Killable = TRUE
  FlakyReads = TRUE

INVARIANT TypeOK
INVARIANT ZonesAgree
PROPERTY DeletesOnlySurplus
