SPECIFICATION Spec

CONSTANTS
  NpNames <- MCNpNames
  Legacy = {"cpu-rm-np"}
  CpuNp = "cpu-np"
  DefaultPool = "default-pool"
  DeviceTypes = {"x", "y"}
  DeviceTypeOf <- MCDeviceTypeOf
  CpuType = "cpu"
  Zones = {"z1"}
  ArgChoices <- OptionChoices
  Absent = Absent
  NoRecord = NoRecord
  MaxFaults = 2
  SameTypeRetry = TRUE
  Killable = FALSE
  FlakyReads = FALSE

INVARIANT MetadataEverywhere
INVARIANT SuccessIsExact
PROPERTY KeepsPromise
