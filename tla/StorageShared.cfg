SPECIFICATION FairSpec

CONSTANTS
  Names = {"a", "b"}
  Instances = {"fs"}
  Extending = {}
  Bucket = Bucket
  Commands <- SharedInstance
  Absent = Absent
  MaxFaults = 2
  FlakyReads = FALSE

INVARIANT TypeOK
INVARIANT VolumesHaveInstances
INVARIANT DetachLeavesNothing
PROPERTY AskedBeforeDestroyed
PROPERTY AttachRepairs
