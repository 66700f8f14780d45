SPECIFICATION FairSpec

CONSTANTS
  NpNames <- MCNpNames2
  Legacy = {}
  CpuNp = "cpu-np"
  DefaultPool = "default-pool"
  DeviceTypes = {"x", "y"}
  DeviceTypeOf <- MCDeviceTypeOf
  CpuType = "cpu"
  Zones = {"z1"}
  ArgChoices <- RetryChoices
  Absent = Absent
  NoRecord = NoRecord
  MaxFaults = 2
  SameTypeRetry = TRUE
  Killable = FALSE
  FlakyReads = FALSE

PROPERTY Recovers
