----------------------------- MODULE MCStorage -----------------------------
(* Two storages on one instance or on a bucket, and, for names that begin    *)
(* alike, one storage on each of two instances.                            *)
EXTENDS Storage

Line(cmd, name, type, volume) ==
  [cmd |-> cmd, name |-> name, type |-> type, volume |-> volume]

SharedInstance ==
  {Line("create", "a", Filestore, "fs"),
   Line("attach", "a", Filestore, "fs"), Line("attach", "b", Filestore, "fs"),
   Line("attach", "b", "gcsfuse", Bucket),
   Line("detach", "a", Filestore, "fs"), Line("detach", "b", Filestore, "fs"),
   Line("delete", "a", Filestore, "fs")}

MCExtending == {<<"fs", "fs2">>}

TwoInstances ==
  {Line("attach", "a", Filestore, "fs"), Line("attach", "b", Filestore, "fs2"),
   Line("delete", "a", Filestore, "fs"), Line("delete", "b", Filestore, "fs2")}
=============================================================================
