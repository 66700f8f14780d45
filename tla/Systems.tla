------------------------------ MODULE Systems ------------------------------
(***************************************************************************)
(* The accelerator systems a user can name: core/system_characteristics.py. *)
(*                                                                         *)
(* A name is a record: the short names `v5p-512` are                        *)
(* [prefix |-> "v5p", cores |-> 512, topology |-> <<>>], the long names      *)
(* `v5p-4x8x8` have cores = 0 and the topology, and the names of GPU and CPU *)
(* systems are prefixes by themselves.                                      *)
(***************************************************************************)
EXTENDS Naturals, Sequences, FiniteSets, FiniteSetsExt

Short(prefix, cores) == [prefix |-> prefix, cores |-> cores, topology |-> <<>>]
Long(prefix, topology) == [prefix |-> prefix, cores |-> 0, topology |-> topology]
Named(prefix) == Short(prefix, 0)

-----------------------------------------------------------------------------
(* Topologies.                                                             *)

get_topology_product(t) ==
  IF Len(t) = 3 THEN t[1] * t[2] * t[3] ELSE t[1] * t[2]

is_topology_contained(contained, container) ==
  /\ Len(contained) = Len(container)
  /\ \A i \in DOMAIN contained : contained[i] <= container[i]

(* The order in which the lists of topologies are generated.                *)
Before(t, u) ==
  \E i \in DOMAIN t : t[i] < u[i] /\ \A j \in 1 .. i - 1 : t[j] = u[j]

FirstOf(ts) == CHOOSE t \in ts : \A u \in ts \ {t} : Before(t, u)
LastOf(ts) == CHOOSE t \in ts : \A u \in ts \ {t} : Before(u, t)

SubCubes == {<<2, 2, 1>>, <<2, 2, 2>>, <<2, 2, 4>>, <<2, 4, 4>>}

generate_tpu_topologies(maxCubes, nondecreasing) ==
  SubCubes \cup
    {<<4 * cubes[1], 4 * cubes[2], 4 * cubes[3]>> : cubes \in
      {c \in (1 .. 64) \X (1 .. 64) \X (1 .. 64) :
         /\ get_topology_product(c) <= maxCubes
         /\ nondecreasing => c[1] <= c[2] /\ c[2] <= c[3]}}

SUB_SLICING_TOPOLOGIES ==
  {<<2, 4>>, <<4, 4>>, <<4, 8>>, <<8, 8>>, <<8, 16>>, <<16, 16>>}

-----------------------------------------------------------------------------
(* TPU systems: one row for each call of get_tpu_system_characteristics_map. *)

compute_chips_per_vm(t) == IF get_topology_product(t) = 1 THEN 1 ELSE 4
compute_vms_per_slice(t) == get_topology_product(t) \div compute_chips_per_vm(t)
compute_num_tensorcores(perChip, t) == get_topology_product(t) * perChip

Row(prefix, perChip, accelerator, topologies) ==
  [prefix |-> prefix, perChip |-> perChip, accelerator |-> accelerator,
   topologies |-> topologies, defaults |-> {}, sub |-> {}, super |-> {},
   policy |-> FALSE, containers |-> 1]

DeviceType(row, t) ==
  Short(row.prefix, compute_num_tensorcores(row.perChip, t))

TpuSystem(row, t) ==
  [kind |-> "TPU", device_type |-> DeviceType(row, t), topology |-> t,
   accelerator |-> row.accelerator, vms |-> compute_vms_per_slice(t),
   chips |-> compute_chips_per_vm(t), sub |-> t \in row.sub,
   super |-> t \in row.super, containers |-> row.containers,
   policy |-> row.policy /\ compute_vms_per_slice(t) > 1,
   tas |-> FALSE]

(* The topology a short name stands for: the first of its size, unless one   *)
(* of that size is a default.                                              *)
ShortTopology(row, cores) ==
  LET sized == {t \in row.topologies : DeviceType(row, t).cores = cores}
      defaults == sized \cap row.defaults
  IN  IF defaults = {} THEN FirstOf(sized) ELSE LastOf(defaults)

RowNames(row) ==
  {Long(row.prefix, t) : t \in row.topologies}
    \cup {DeviceType(row, t) : t \in row.topologies}

get_tpu_system_characteristics_map(row, name) ==
  TpuSystem(row, IF name.topology # <<>> THEN name.topology
                 ELSE ShortTopology(row, name.cores))

Column(x, y, zs) == {<<4 * x, 4 * y, 4 * z>> : z \in zs}

V5pDefaults ==
  SubCubes
  \cup Column(1, 1, {1, 2, 3, 5, 7, 11, 13, 17, 19, 23, 29, 31, 37, 41, 43, 47,
                     53, 59, 61})
  \cup Column(1, 2, {2, 3, 5, 7, 11, 13, 17, 19, 23, 29, 31, 37, 41, 43, 47})
  \cup Column(1, 3, {3, 5, 7, 11, 13, 17, 19, 23, 29, 31})
  \cup Column(1, 5, {5, 7, 11, 13, 17, 19}) \cup Column(1, 7, {7, 11, 13})
  \cup Column(2, 2, {2, 3, 4, 5, 7, 11, 13, 17, 19, 23})
  \cup Column(2, 3, {3, 4, 5, 7, 11, 13}) \cup Column(2, 4, {4, 5, 7, 11})
  \cup Column(2, 5, {5, 7}) \cup Column(3, 3, {3, 4, 5, 6, 7, 9})
  \cup Column(3, 4, {4, 5, 6, 7}) \cup Column(3, 5, {5, 6})
  \cup Column(3, 6, {6}) \cup Column(4, 4, {4, 5, 6}) \cup Column(4, 5, {7})

Tpu7xDefaults == V5pDefaults \cup {<<16, 16, 32>>, <<16, 24, 24>>}

Tpu7 ==
  [Row("tpu7", 2, "tpu7", generate_tpu_topologies(4, TRUE)) EXCEPT
     !.defaults = SubCubes \cup Column(1, 1, {1, 2, 3, 4}) \cup Column(1, 2, {2}),
     !.policy = TRUE, !.containers = 2]

Tpu7x ==
  [Row("tpu7x", 2, "tpu7x", generate_tpu_topologies(144, TRUE)) EXCEPT
     !.defaults = Tpu7xDefaults, !.super = {<<4, 4, 4>>},
     !.policy = TRUE, !.containers = 2]

V6e ==
  [Row("v6e", 1, "tpu-v6e-slice", {<<2, 2>>} \cup SUB_SLICING_TOPOLOGIES)
     EXCEPT !.sub = SUB_SLICING_TOPOLOGIES]

V5p ==
  [Row("v5p", 2, "tpu-v5p-slice", generate_tpu_topologies(140, TRUE)) EXCEPT
     !.defaults = V5pDefaults]

V5litepod ==
  Row("v5litepod", 1, "tpu-v5-lite-podslice", SUB_SLICING_TOPOLOGIES)

V4 ==
  [Row("v4", 2, "tpu-v4-podslice", generate_tpu_topologies(64, FALSE)) EXCEPT
     !.defaults = SubCubes \cup Column(1, 1, {1, 2}) \cup Column(1, 2, {2})
                    \cup Column(2, 2, {2, 3, 4}) \cup Column(2, 4, {4})]

(* A single chip is a machine type of its own, and so a row of its own.      *)
SingleChip ==
  {[Row("tpu7", 2, "tpu7", {<<1, 1, 1>>}) EXCEPT !.policy = TRUE],
   [Row("tpu7x", 2, "tpu7x", {<<1, 1, 1>>}) EXCEPT !.policy = TRUE],
   Row("v6e", 1, "tpu-v6e-slice", {<<1, 1>>})}

TpuRows == SingleChip \cup {Tpu7, Tpu7x, V6e, V5p, V5litepod, V4}

-----------------------------------------------------------------------------
(* GPU and CPU systems.  `tas`: gpu_config.requires_topology.               *)

Host(kind, name, type, accelerator, vms, chips, tas) ==
  [kind |-> kind, device_type |-> Named(type), topology |-> <<>>,
   accelerator |-> accelerator, vms |-> vms, chips |-> chips, sub |-> FALSE,
   super |-> FALSE, containers |-> 1, policy |-> kind = "GPU", tas |-> tas,
   name |-> Named(name)]

L4s ==
  {Host("GPU", n[1], n[1], "nvidia-l4", 1, n[2], FALSE) :
     n \in {<<"l4-1", 1>>, <<"l4-2", 2>>, <<"l4-4", 4>>, <<"l4-8", 8>>}}

A100s ==
  {Host("GPU", n[1], n[1], "nvidia-tesla-a100", 1, n[2], FALSE) :
     n \in {<<"a100-40gb-1", 1>>, <<"a100-40gb-2", 2>>, <<"a100-40gb-4", 4>>,
            <<"a100-40gb-8", 8>>}}

(* Both machine types of gb200-4 have one device type.                      *)
DirectGpus ==
  {[Host("GPU", n[1], n[2], n[3], 1, n[4], TRUE) EXCEPT
      !.topology = IF n[2] = "gb200-4" THEN <<1, 72>> ELSE <<>>] :
     n \in {<<"gb200-4", "gb200-4", "nvidia-gb200", 4>>,
            <<"gb200-4-nolssd", "gb200-4", "nvidia-gb200", 4>>,
            <<"b200-8", "b200-8", "nvidia-b200", 8>>,
            <<"h200-141gb-8", "h200-141gb-8", "nvidia-h200-141gb", 8>>,
            <<"h100-80gb-8", "h100-80gb-8", "nvidia-h100-80gb", 8>>,
            <<"h100-mega-80gb-8", "h100-mega-80gb-8",
              "nvidia-h100-mega-80gb", 8>>}}

\* WRONG: the device type leaves the number of machines out.
OneTypePerMachine(prefix, cpus, counts) ==
  {[Host("CPU", prefix, prefix, "N/A", n, cpus, FALSE) EXCEPT
      !.name = Short(prefix, n)] : n \in counts}

(* `n2-standard-4-8`: 8 machines of 4 vCPUs, here prefix and number.         *)
Machines(prefix, cpus, counts) ==
  {[Host("CPU", prefix, prefix, "N/A", n, cpus, FALSE) EXCEPT
      !.device_type = Short(prefix, n), !.name = Short(prefix, n)] :
     n \in counts}

Powers(max) ==
  {n \in {1, 2, 4, 8, 16, 32, 64, 128, 256, 512, 1024, 2048} : n <= max}

M1Megamem == Machines("m1-megamem-96", 96, {1})
N2Standard64 == Machines("n2-standard-64", 64, {1})
N2Standard4 == Machines("n2-standard-4", 4, Powers(256))
N2Standard32 == Machines("n2-standard-32", 32, Powers(2048))

Hosts == L4s \cup A100s \cup DirectGpus
           \cup M1Megamem \cup N2Standard64 \cup N2Standard4 \cup N2Standard32

-----------------------------------------------------------------------------
(* The map from names to systems; None for a name it does not have.         *)

None == [kind |-> "none"]

get_system_characteristics_by_device_type(name) ==
  LET rows == {r \in TpuRows : name \in RowNames(r)}
      hosts == {h \in Hosts : h.name = name}
  IN  IF rows # {}
      THEN get_tpu_system_characteristics_map(CHOOSE r \in rows : TRUE, name)
      ELSE IF hosts # {}
      THEN LET h == CHOOSE h \in hosts : TRUE
           IN  [f \in DOMAIN h \ {"name"} |-> h[f]]
      ELSE None
=============================================================================
