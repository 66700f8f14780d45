---------------------------- MODULE MCScheduling ----------------------------
(***************************************************************************)
(* Instances of Scheduling for TLC: clusters of every family of systems, by  *)
(* short and long names, with sub-slicing, super-slicing, autoprovisioning    *)
(* and an old Kueue where they apply, and workloads of the same and of other  *)
(* shapes.                                                                 *)
(***************************************************************************)
EXTENDS Scheduling

Slices ==
  {Short("v6e", 16), Long("v6e", <<2, 4>>), Long("v6e", <<8, 8>>),
   Short("v5p", 512), Long("v5p", <<4, 4, 16>>), Short("v4", 16),
   Short("v5litepod", 8), Long("tpu7", <<1, 1, 1>>), Short("tpu7", 16)}
Cubes == {Short("tpu7x", 128), Long("tpu7x", <<4, 4, 8>>), Short("tpu7x", 8)}
Machine == {Named("l4-2"), Named("gb200-4-nolssd"), Named("h100-mega-80gb-8"),
            Short("n2-standard-32", 2)}

MCClusterNames == Slices \cup Cubes \cup Machine

Plain(n, k) == [name |-> n, count |-> k, slicing |-> "no", nap |-> 0,
                oldKueue |-> FALSE, cpuPool |-> TRUE]

MCClusters ==
  {Plain(n, k) : n \in MCClusterNames, k \in {1, 2}}
  \cup {[Plain(n, k) EXCEPT !.slicing = "sub", !.oldKueue = o] :
          n \in {Short("v6e", 16), Long("v6e", <<8, 8>>)}, k \in {1, 4},
          o \in BOOLEAN}
  \cup {[Plain(Short("tpu7x", 128), k) EXCEPT !.slicing = "super", !.oldKueue = o] :
          k \in {1, 2, 4}, o \in BOOLEAN}
  \cup {[Plain(n, 1) EXCEPT !.nap = k] :
          n \in {Short("v4", 16), Named("l4-2")}, k \in {8, 16}}
  \cup {[Plain(Named("l4-2"), 4) EXCEPT !.nap = 4]}

Request(n, k) == [name |-> n, count |-> k, longName |-> FALSE,
                  pathways |-> FALSE, scheduler |-> "default-scheduler"]

MCRequests ==
  {Request(n, k) : n \in MCClusterNames, k \in {1, 2, 4}}
  \cup {[Request(Short("tpu7x", 128), 1) EXCEPT !.longName = TRUE],
        [Request(Short("tpu7x", 8), 1) EXCEPT !.pathways = TRUE],
        [Request(Named("l4-2"), 1) EXCEPT !.scheduler = "other"]}
=============================================================================
