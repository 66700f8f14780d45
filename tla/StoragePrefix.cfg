SPECIFICATION Spec

CONSTANTS
  Names = {"a", "b"}
  Instances = {"fs", "fs2"}
  Extending <- MCExtending
  Bucket = Bucket
  Commands <- TwoInstances
  Absent = Absent
  MaxFaults = 0
  FlakyReads = FALSE

PROPERTY DeletesOwnVolumes
