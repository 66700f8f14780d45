---------------------------- MODULE MCWorkloads ----------------------------
(***************************************************************************)
(* Instances of Workloads for TLC: two names, one of which begins with the  *)
(* other.                                                                  *)
(***************************************************************************)
EXTENDS Workloads, TLC

CONSTANTS short, long, u1, u2, p1, p2

MCNames == {short, long}
MCStartWith == short :> {short, long} @@ long :> {long}
MCUids2 == {u1, u2}
MCProcs == {p1, p2}

Do(kind, n) ==
  [kind |-> kind, name |-> n, job |-> NoName, status |-> "EVERYTHING"]
DeleteAll(j, s) ==
  [kind |-> "deleteAll", name |-> NoName, job |-> j, status |-> s]
MCCommandLines ==
  {Do("create", short), Do("create", long), Do("delete", short),
   Do("wait", short), DeleteAll(short, "QUEUED")}

Symmetry == Permutations(MCProcs) \cup Permutations(MCUids2)
=============================================================================
