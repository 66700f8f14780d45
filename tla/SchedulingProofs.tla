-------------------------- MODULE SchedulingProofs --------------------------
(***************************************************************************)
(* Proofs about Systems and Scheduling: what the tables of systems have in   *)
(* common, whatever cluster and workload are named, and that the decision of *)
(* core/scheduling.py agrees with what can run.                             *)
(***************************************************************************)
EXTENDS Scheduling, WellFoundedInduction, TLAPS

-----------------------------------------------------------------------------
(* Topologies.                                                             *)

Cubes == (1 .. 64) \X (1 .. 64) \X (1 .. 64)
Big == {<<4 * c[1], 4 * c[2], 4 * c[3]>> : c \in Cubes}
Cubic == SubCubes \cup Big
Flat == {<<2, 2>>} \cup SUB_SLICING_TOPOLOGIES
Single == {<<1, 1, 1>>, <<1, 1>>}

(* Every set of numbers has a least one.                                   *)
LEMMA Least ==
  ASSUME NEW N \in SUBSET Nat, N # {}
  PROVE  \E n \in N : \A m \in N : n <= m
<1>1. PICK n \in N : \A m \in N : ~(<<m, n>> \in OpToRel(<, Nat))
  BY NatLessThanWellFounded, WFMin, Zenon
<1>2. \A m \in N : ~(m < n)
  BY <1>1, Zenon DEF OpToRel
<1> QED BY <1>2

(* The generated topologies are made of four small ones and of whole cubes.   *)
LEMMA GeneratedAreCubic ==
  ASSUME NEW n, NEW b
  PROVE  generate_tpu_topologies(n, b) \subseteq Cubic
BY DEF generate_tpu_topologies, Cubic, Big, Cubes

(* Products of positive numbers are positive.                               *)
LEMMA PositiveProduct ==
  ASSUME NEW x \in Nat \ {0}, NEW y \in Nat \ {0}
  PROVE  x * y \in Nat \ {0}
OBVIOUS

(* Whole cubes have a multiple of 64 chips.                                 *)
LEMMA BigProduct ==
  ASSUME NEW t \in Big
  PROVE  \E k \in Nat \ {0} : get_topology_product(t) = 4 * k
<1>1. PICK x \in 1 .. 64, y \in 1 .. 64, z \in 1 .. 64 : t = <<4 * x, 4 * y, 4 * z>>
  <2>1. PICK c \in Cubes : t = <<4 * c[1], 4 * c[2], 4 * c[3]>>
    BY DEF Big
  <2>2. c[1] \in 1 .. 64 /\ c[2] \in 1 .. 64 /\ c[3] \in 1 .. 64
    BY DEF Cubes
  <2> QED BY <2>1, <2>2
<1>2. get_topology_product(t) = 4 * x * (4 * y) * (4 * z)
  BY <1>1 DEF get_topology_product
<1>3. x * y \in Nat \ {0}
  BY PositiveProduct
<1>4. x * y * z \in Nat \ {0}
  BY <1>3, PositiveProduct
<1>5. 4 * x * (4 * y) * (4 * z) = 4 * (16 * (x * y * z))
  OBVIOUS
<1>6. 16 * (x * y * z) \in Nat \ {0}
  BY <1>4
<1> QED BY <1>2, <1>5, <1>6

(* All other topologies but those of one chip have a multiple of 4, too.       *)
LEMMA Product ==
  ASSUME NEW t \in Cubic \cup Flat
  PROVE  \E k \in Nat \ {0} : get_topology_product(t) = 4 * k
<1>1. CASE t \in Big
  BY <1>1, BigProduct
<1>2. CASE t \in SubCubes
  <2>1. get_topology_product(t) \in {4 * 1, 4 * 2, 4 * 4, 4 * 8}
    BY <1>2 DEF SubCubes, get_topology_product
  <2> QED BY <2>1
<1>3. CASE t \in Flat
  <2>1. get_topology_product(t) \in {4 * 1, 4 * 2, 4 * 4, 4 * 8, 4 * 16, 4 * 32, 4 * 64}
    BY <1>3 DEF Flat, SUB_SLICING_TOPOLOGIES, get_topology_product
  <2> QED BY <2>1
<1> QED BY <1>1, <1>2, <1>3 DEF Cubic

(* Chips and machines of a slice, by the number of its chips.                *)
LEMMA Sizes ==
  ASSUME NEW t, NEW k \in Nat \ {0}, get_topology_product(t) = 4 * k
  PROVE  compute_chips_per_vm(t) = 4 /\ compute_vms_per_slice(t) = k
BY DEF compute_chips_per_vm, compute_vms_per_slice

(* Slices of a single chip.                                                 *)
LEMMA SingleSizes ==
  ASSUME NEW t \in Single
  PROVE  /\ get_topology_product(t) = 1
         /\ compute_chips_per_vm(t) = 1 /\ compute_vms_per_slice(t) = 1
<1>1. get_topology_product(t) = 1
  BY DEF Single, get_topology_product
<1> QED BY <1>1 DEF compute_chips_per_vm, compute_vms_per_slice

-----------------------------------------------------------------------------
(* The first and the last topology of a set.                                *)

Weight(t) == 66049 * t[1] + 257 * t[2] + t[3]

(* The components of three-dimensional topologies are small, and so the order *)
(* of topologies is one of numbers.                                         *)
LEMMA CubicIsSmall ==
  ASSUME NEW t \in Cubic
  PROVE  \E a, b, c \in 1 .. 256 : t = <<a, b, c>>
<1>1. CASE t \in SubCubes
  <2>1. t \in {<<2, 2, 1>>, <<2, 2, 2>>, <<2, 2, 4>>, <<2, 4, 4>>}
    BY <1>1 DEF SubCubes
  <2>2. 1 \in 1 .. 256 /\ 2 \in 1 .. 256 /\ 4 \in 1 .. 256
    OBVIOUS
  <2> QED BY <2>1, <2>2, Zenon
<1>2. CASE t \in Big
  <2>1. PICK c \in Cubes : t = <<4 * c[1], 4 * c[2], 4 * c[3]>>
    BY <1>2 DEF Big
  <2>2. 4 * c[1] \in 1 .. 256 /\ 4 * c[2] \in 1 .. 256 /\ 4 * c[3] \in 1 .. 256
    BY DEF Cubes
  <2> QED BY <2>1, <2>2
<1> QED BY <1>1, <1>2 DEF Cubic

(* Weights are bounded, differ, and order topologies as the lists do.       *)
LEMMA OrderOfWeights ==
  ASSUME NEW t \in Cubic, NEW u \in Cubic
  PROVE  /\ Weight(t) \in Nat /\ Weight(t) <= 66307 * 256
         /\ Weight(t) = Weight(u) => t = u
         /\ Weight(t) < Weight(u) => Before(t, u)
<1>1. PICK a \in 1 .. 256, b \in 1 .. 256, c \in 1 .. 256 : t = <<a, b, c>>
  BY CubicIsSmall
<1>2. PICK x \in 1 .. 256, y \in 1 .. 256, z \in 1 .. 256 : u = <<x, y, z>>
  BY CubicIsSmall
<1>3. /\ Weight(t) = 66049 * a + 257 * b + c
      /\ Weight(u) = 66049 * x + 257 * y + z
  BY <1>1, <1>2 DEF Weight
<1>4. Weight(t) \in Nat /\ Weight(t) <= 66307 * 256 /\ Weight(u) \in Nat
  BY <1>3
<1>5. ASSUME Weight(t) = Weight(u) PROVE t = u
  <2>1. 66049 * a + 257 * b + c = 66049 * x + 257 * y + z
    BY <1>3, <1>5
  <2>2. a = x
    BY <2>1, SMT
  <2>3. b = y
    BY <2>1, <2>2, SMT
  <2>4. c = z
    BY <2>1, <2>2, <2>3, SMT
  <2> QED BY <1>1, <1>2, <2>2, <2>3, <2>4
<1>6. ASSUME Weight(t) < Weight(u) PROVE Before(t, u)
  <2>1. 66049 * a + 257 * b + c < 66049 * x + 257 * y + z
    BY <1>3, <1>6
  <2>2. a <= x /\ (a = x => b <= y)
    BY <2>1, SMT
  <2>3. a < x \/ (a = x /\ b < y) \/ (a = x /\ b = y /\ c < z)
    BY <2>1, <2>2, SMT
  <2>4. CASE a < x
    BY <1>1, <1>2, <2>4 DEF Before
  <2>5. CASE a = x /\ b < y
    <3>1. /\ 2 \in DOMAIN t /\ t[2] < u[2]
          /\ \A j \in 1 .. 1 : t[j] = u[j]
      BY <1>1, <1>2, <2>5
    <3> QED BY <3>1 DEF Before
  <2>6. CASE a = x /\ b = y /\ c < z
    <3>1. /\ 3 \in DOMAIN t /\ t[3] < u[3]
          /\ \A j \in 1 .. 2 : j = 1 \/ j = 2
          /\ t[1] = u[1] /\ t[2] = u[2]
      BY <1>1, <1>2, <2>6
    <3> QED BY <3>1 DEF Before
  <2> QED BY <2>3, <2>4, <2>5, <2>6
<1> QED BY <1>4, <1>5, <1>6

(* The first topology of a set is one of it ...                             *)
LEMMA FirstIsIn ==
  ASSUME NEW T \in SUBSET Cubic, T # {}
  PROVE  FirstOf(T) \in T
<1> DEFINE W == {Weight(t) : t \in T}
<1>1. W \in SUBSET Nat /\ W # {}
  BY OrderOfWeights
<1>2. PICK w \in W : \A v \in W : w <= v
  BY <1>1, Least
<1>3. PICK t \in T : w = Weight(t)
  OBVIOUS
<1>4. \A u \in T \ {t} : Before(t, u)
  <2>1. TAKE u \in T \ {t}
  <2>2. Weight(t) <= Weight(u)
    BY <1>2, <1>3
  <2>3. Weight(t) # Weight(u) /\ Weight(t) \in Nat /\ Weight(u) \in Nat
    BY OrderOfWeights
  <2>4. Weight(t) < Weight(u)
    BY <2>2, <2>3
  <2> QED BY <2>4, OrderOfWeights
<1> QED BY <1>4 DEF FirstOf

(* ... and so is the last.                                                  *)
LEMMA LastIsIn ==
  ASSUME NEW T \in SUBSET Cubic, T # {}
  PROVE  LastOf(T) \in T
<1> DEFINE B == 66307 * 256
           W == {B - Weight(t) : t \in T}
<1>0. B \in Nat
  OBVIOUS
<1> HIDE DEF B
<1>a. \A t \in T : Weight(t) \in Nat /\ Weight(t) <= B
  BY OrderOfWeights DEF B
<1>1. W \in SUBSET Nat /\ W # {}
  BY <1>0, <1>a
<1>2. PICK w \in W : \A v \in W : w <= v
  BY <1>1, Least
<1>3. PICK t \in T : w = B - Weight(t)
  OBVIOUS
<1>4. \A u \in T \ {t} : Before(u, t)
  <2>1. TAKE u \in T \ {t}
  <2>2. B - Weight(t) <= B - Weight(u)
    BY <1>2, <1>3
  <2>3. Weight(t) # Weight(u)
    BY OrderOfWeights
  <2>4. Weight(u) < Weight(t)
    BY <2>2, <2>3, <1>0, <1>a
  <2> QED BY <2>4, OrderOfWeights
<1> QED BY <1>4 DEF LastOf

-----------------------------------------------------------------------------
(* The rows of TPU systems.                                                *)

Families == {Tpu7, Tpu7x, V6e, V5p, V5litepod, V4}

(* What a row has, but for the defaults.                                    *)
HasRow(r, prefix, perChip, accelerator, policy, containers) ==
  /\ r.prefix = prefix /\ r.perChip = perChip /\ r.accelerator = accelerator
  /\ r.policy = policy /\ r.containers = containers

(* The row of tpu7: cubes of chips, two cores each.                         *)
LEMMA Tpu7Row ==
  /\ HasRow(Tpu7, "tpu7", 2, "tpu7", TRUE, 2)
  /\ Tpu7.topologies \subseteq Cubic /\ Tpu7.sub = {} /\ Tpu7.super = {}
BY GeneratedAreCubic DEF Tpu7, Row, HasRow

(* The row of tpu7x: cubes, and the one topology that super-slicing builds of. *)
LEMMA Tpu7xRow ==
  /\ HasRow(Tpu7x, "tpu7x", 2, "tpu7x", TRUE, 2)
  /\ Tpu7x.topologies = generate_tpu_topologies(144, TRUE)
  /\ Tpu7x.topologies \subseteq Cubic /\ Tpu7x.sub = {} /\ Tpu7x.super = {<<4, 4, 4>>}
BY GeneratedAreCubic DEF Tpu7x, Row, HasRow

(* The row of v6e: flat topologies, some of which sub-slicing accepts. *)
LEMMA V6eRow ==
  /\ HasRow(V6e, "v6e", 1, "tpu-v6e-slice", FALSE, 1)
  /\ V6e.topologies = Flat /\ V6e.sub = SUB_SLICING_TOPOLOGIES /\ V6e.super = {}
  /\ V6e.defaults = {}
BY DEF V6e, Row, HasRow, Flat

(* The row of v5p: cubes, neither sub- nor super-slicing. *)
LEMMA V5pRow ==
  /\ HasRow(V5p, "v5p", 2, "tpu-v5p-slice", FALSE, 1)
  /\ V5p.topologies \subseteq Cubic /\ V5p.sub = {} /\ V5p.super = {}
BY GeneratedAreCubic DEF V5p, Row, HasRow

(* The row of v5litepod: flat topologies, neither sub- nor super-slicing. *)
LEMMA V5litepodRow ==
  /\ HasRow(V5litepod, "v5litepod", 1, "tpu-v5-lite-podslice", FALSE, 1)
  /\ V5litepod.topologies \subseteq Flat /\ V5litepod.sub = {} /\ V5litepod.super = {}
  /\ V5litepod.defaults = {}
BY DEF V5litepod, Row, HasRow, Flat

(* The row of v4: cubes, neither sub- nor super-slicing. *)
LEMMA V4Row ==
  /\ HasRow(V4, "v4", 2, "tpu-v4-podslice", FALSE, 1)
  /\ V4.topologies \subseteq Cubic /\ V4.sub = {} /\ V4.super = {}
BY GeneratedAreCubic DEF V4, Row, HasRow

(* The rows of a single chip.                                               *)
LEMMA SingleRow ==
  ASSUME NEW r \in SingleChip
  PROVE  /\ \/ HasRow(r, "tpu7", 2, "tpu7", TRUE, 1)
            \/ HasRow(r, "tpu7x", 2, "tpu7x", TRUE, 1)
            \/ HasRow(r, "v6e", 1, "tpu-v6e-slice", FALSE, 1)
         /\ r.topologies \subseteq Single /\ r.sub = {} /\ r.super = {}
         /\ r.defaults = {} /\ \A t, u \in r.topologies : t = u
BY DEF SingleChip, Row, HasRow, Single

(* Two rows of one prefix are one of a single chip and one of more.           *)
LEMMA SingleByPrefix ==
  ASSUME NEW r \in SingleChip, NEW q \in SingleChip, r.prefix = q.prefix
  PROVE  r = q
<1> DEFINE A == [Row("tpu7", 2, "tpu7", {<<1, 1, 1>>}) EXCEPT !.policy = TRUE]
           B == [Row("tpu7x", 2, "tpu7x", {<<1, 1, 1>>}) EXCEPT !.policy = TRUE]
           C == Row("v6e", 1, "tpu-v6e-slice", {<<1, 1>>})
<1>1. SingleChip = {A, B, C}
  BY DEF SingleChip
<1>2. A.prefix = "tpu7" /\ B.prefix = "tpu7x" /\ C.prefix = "v6e"
  BY DEF Row
<1> HIDE DEF A, B, C
<1> QED BY <1>1, <1>2

(* Two rows of more chips of one prefix are the same.                       *)
LEMMA FamilyByPrefix ==
  ASSUME NEW r \in Families, NEW q \in Families, r.prefix = q.prefix
  PROVE  r = q
<1>1. \A f \in Families : f.prefix \in {"tpu7", "tpu7x", "v6e", "v5p", "v5litepod", "v4"}
  BY Tpu7Row, Tpu7xRow, V6eRow, V5pRow, V5litepodRow, V4Row DEF Families, HasRow
<1> QED BY Tpu7Row, Tpu7xRow, V6eRow, V5pRow, V5litepodRow, V4Row DEF Families, HasRow

(* What the rows have in common.                                            *)
LEMMA RowFacts ==
  ASSUME NEW r \in TpuRows
  PROVE  /\ r.perChip \in {1, 2} /\ r.policy \in BOOLEAN
         /\ r.sub # {} => r = V6e
         /\ r.super # {} => r = Tpu7x
         /\ \/ /\ r \in SingleChip /\ r.topologies \subseteq Single /\ r.defaults = {}
               /\ \A t, u \in r.topologies : t = u
            \/ r \in Families /\ r.topologies \subseteq Cubic
            \/ r \in Families /\ r.topologies \subseteq Flat /\ r.defaults = {}
<1>1. CASE r \in SingleChip
  BY <1>1, SingleRow DEF HasRow
<1>2. CASE r = Tpu7
  BY <1>2, Tpu7Row DEF HasRow, Families
<1>3. CASE r = Tpu7x
  BY <1>3, Tpu7xRow DEF HasRow, Families
<1>4. CASE r = V6e
  BY <1>4, V6eRow DEF HasRow, Families
<1>5. CASE r = V5p
  BY <1>5, V5pRow DEF HasRow, Families
<1>6. CASE r = V5litepod
  BY <1>6, V5litepodRow DEF HasRow, Families
<1>7. CASE r = V4
  BY <1>7, V4Row DEF HasRow, Families
<1> QED BY <1>1, <1>2, <1>3, <1>4, <1>5, <1>6, <1>7 DEF TpuRows

(* A slice has one chip or a multiple of four, and that tells the rows apart   *)
(* that have one prefix.                                                    *)
LEMMA RowSizes ==
  ASSUME NEW r \in TpuRows, NEW t \in r.topologies
  PROVE  /\ get_topology_product(t) \in Nat \ {0}
         /\ compute_vms_per_slice(t) \in Nat \ {0}
         /\ compute_chips_per_vm(t) \in {1, 4}
         /\ compute_vms_per_slice(t) * compute_chips_per_vm(t) = get_topology_product(t)
         /\ get_topology_product(t) = 1 => r \in SingleChip
         /\ get_topology_product(t) # 1 =>
              /\ r \in Families /\ compute_chips_per_vm(t) = 4
              /\ get_topology_product(t) >= 4
<1>1. CASE t \in Single
  <2>1. \A k \in Nat \ {0} : 4 * k # 1
    OBVIOUS
  <2>2. r \in SingleChip
    BY <1>1, <2>1, RowFacts, Product, SingleSizes
  <2> QED BY <1>1, <2>2, SingleSizes
<1>2. CASE t \in Cubic \cup Flat
  <2>1. PICK k \in Nat \ {0} : get_topology_product(t) = 4 * k
    BY <1>2, Product
  <2>2. compute_chips_per_vm(t) = 4 /\ compute_vms_per_slice(t) = k
    BY <2>1, Sizes
  <2>3. 4 * k \in Nat \ {0} /\ 4 * k # 1 /\ 4 * k >= 4 /\ k * 4 = 4 * k
    OBVIOUS
  <2>4. t \notin Single
    BY <2>1, <2>3, SingleSizes
  <2>5. r \in Families
    BY <2>4, RowFacts
  <2> QED BY <2>1, <2>2, <2>3, <2>5
<1> QED BY <1>1, <1>2, RowFacts

(* Prefix and size tell the row.                                            *)
LEMMA RowByPrefix ==
  ASSUME NEW r \in TpuRows, NEW t \in r.topologies,
         NEW q \in TpuRows, NEW u \in q.topologies,
         r.prefix = q.prefix, get_topology_product(t) = get_topology_product(u)
  PROVE  r = q
BY RowSizes, SingleByPrefix, FamilyByPrefix

(* Rows of one prefix or accelerator differ in sizes and containers only.     *)
LEMMA RowsOfOneKind ==
  ASSUME NEW r \in TpuRows, NEW q \in TpuRows,
         r.accelerator = q.accelerator \/ r.prefix = q.prefix
  PROVE  /\ r.accelerator = q.accelerator /\ r.prefix = q.prefix
         /\ r.perChip = q.perChip /\ r.policy = q.policy
<1> DEFINE Table(p) ==
      \/ HasRow(p, "tpu7", 2, "tpu7", TRUE, p.containers)
      \/ HasRow(p, "tpu7x", 2, "tpu7x", TRUE, p.containers)
      \/ HasRow(p, "v6e", 1, "tpu-v6e-slice", FALSE, p.containers)
      \/ HasRow(p, "v5p", 2, "tpu-v5p-slice", FALSE, p.containers)
      \/ HasRow(p, "v5litepod", 1, "tpu-v5-lite-podslice", FALSE, p.containers)
      \/ HasRow(p, "v4", 2, "tpu-v4-podslice", FALSE, p.containers)
<1>1. ASSUME NEW p \in TpuRows PROVE Table(p)
  <2>1. CASE p \in SingleChip
    BY <2>1, SingleRow DEF HasRow
  <2>2. CASE p \in Families
    BY <2>2, Tpu7Row, Tpu7xRow, V6eRow, V5pRow, V5litepodRow, V4Row
       DEF Families, HasRow
  <2> QED BY <2>1, <2>2 DEF TpuRows, Families
<1> QED BY <1>1 DEF HasRow

-----------------------------------------------------------------------------
(* The systems that names of TPUs stand for.                                *)

(* Two-dimensional topologies are told apart by their sizes.                *)
LEMMA FlatByProduct ==
  ASSUME NEW t \in Flat, NEW u \in Flat,
         get_topology_product(t) = get_topology_product(u)
  PROVE  t = u
BY DEF Flat, SUB_SLICING_TOPOLOGIES, get_topology_product

(* The first of one topology.                                               *)
LEMMA OnlyOne ==
  ASSUME NEW t
  PROVE  FirstOf({t}) = t
BY DEF FirstOf

(* A short name stands for a topology of the size it says.                   *)
LEMMA ShortTopologies ==
  ASSUME NEW r \in TpuRows, NEW t \in r.topologies
  PROVE  LET u == ShortTopology(r, DeviceType(r, t).cores)
         IN  /\ u \in r.topologies
             /\ get_topology_product(u) = get_topology_product(t)
<1> DEFINE cores == DeviceType(r, t).cores
           sized == {v \in r.topologies : DeviceType(r, v).cores = cores}
           defaults == sized \cap r.defaults
<1>1. \A v \in r.topologies :
        DeviceType(r, v).cores = get_topology_product(v) * r.perChip
  BY DEF DeviceType, Short, compute_num_tensorcores
<1>2. \A v \in sized : get_topology_product(v) = get_topology_product(t)
  <2>1. TAKE v \in sized
  <2>2. get_topology_product(v) * r.perChip = get_topology_product(t) * r.perChip
    BY <1>1
  <2>3. get_topology_product(v) \in Nat /\ get_topology_product(t) \in Nat
    BY RowSizes
  <2>4. r.perChip = 1 \/ r.perChip = 2
    BY RowFacts
  <2> QED BY <2>2, <2>3, <2>4
<1>3. t \in sized
  OBVIOUS
<1>4. ShortTopology(r, cores) = IF defaults = {} THEN FirstOf(sized) ELSE LastOf(defaults)
  BY DEF ShortTopology
<1> HIDE DEF cores
<1>5. CASE r.topologies \subseteq Cubic
  <2>1. defaults \in SUBSET Cubic /\ sized \in SUBSET Cubic
    BY <1>5
  <2>2. ShortTopology(r, cores) \in sized
    BY <1>3, <1>4, <2>1, FirstIsIn, LastIsIn
  <2> QED BY <1>2, <2>2 DEF cores
<1>6. CASE \/ r.topologies \subseteq Flat /\ r.defaults = {}
           \/ r.defaults = {} /\ \A v, u \in r.topologies : v = u
  <2>1. sized = {t}
    BY <1>2, <1>3, <1>6, FlatByProduct
  <2>2. defaults = {}
    BY <1>6
  <2> QED BY <1>4, <2>1, <2>2, OnlyOne DEF cores
<1> QED BY <1>5, <1>6, RowFacts

(* No topology is empty: long names are not short ones.                      *)
LEMMA NotEmpty ==
  ASSUME NEW t \in Cubic \cup Flat \cup Single
  PROVE  t # <<>>
<1>1. CASE t \in Cubic
  <2>1. PICK a, b, c \in 1 .. 256 : t = <<a, b, c>>
    BY <1>1, CubicIsSmall
  <2> QED BY <2>1
<1>2. CASE t \in Flat \cup Single
  BY <1>2 DEF Flat, SUB_SLICING_TOPOLOGIES, Single
<1> QED BY <1>1, <1>2

(* What a name of a TPU stands for: a topology of a row.                     *)
IsTpu(s, r, t) == r \in TpuRows /\ t \in r.topologies /\ s = TpuSystem(r, t)

(* A name of a TPU stands for a topology of the row it is a name of.        *)
LEMMA TpuByName ==
  ASSUME NEW n, \E r \in TpuRows : n \in RowNames(r)
  PROVE  \E r, t :
           /\ IsTpu(get_system_characteristics_by_device_type(n), r, t)
           /\ n.topology = <<>> => n = DeviceType(r, t)
           /\ n.topology # <<>> => n.topology = t /\ n.prefix = r.prefix
<1> DEFINE rows == {r \in TpuRows : n \in RowNames(r)}
           q == CHOOSE r \in rows : TRUE
<1>1. q \in TpuRows /\ n \in RowNames(q)
  OBVIOUS
<1>2. get_system_characteristics_by_device_type(n)
        = get_tpu_system_characteristics_map(q, n)
  BY DEF get_system_characteristics_by_device_type
<1> HIDE DEF q
<1>3. CASE \E t \in q.topologies : n = Long(q.prefix, t)
  <2>1. PICK t \in q.topologies : n = Long(q.prefix, t)
    BY <1>3
  <2>2. t # <<>>
    BY <1>1, RowFacts, NotEmpty
  <2>3. n.topology = t /\ n.prefix = q.prefix
    BY <2>1 DEF Long
  <2>4. IsTpu(get_system_characteristics_by_device_type(n), q, t)
    BY <1>1, <1>2, <2>2, <2>3 DEF get_tpu_system_characteristics_map, IsTpu
  <2> QED BY <2>2, <2>3, <2>4
<1>4. CASE \E t \in q.topologies : n = DeviceType(q, t)
  <2>1. PICK t \in q.topologies : n = DeviceType(q, t)
    BY <1>4
  <2> DEFINE u == ShortTopology(q, DeviceType(q, t).cores)
  <2>2. u \in q.topologies /\ get_topology_product(u) = get_topology_product(t)
    BY <1>1, ShortTopologies
  <2>3. n.topology = <<>>
    BY <2>1 DEF DeviceType, Short
  <2>4. IsTpu(get_system_characteristics_by_device_type(n), q, u)
    BY <1>1, <1>2, <2>1, <2>2, <2>3 DEF get_tpu_system_characteristics_map, IsTpu
  <2>5. n = DeviceType(q, u)
    BY <2>1, <2>2 DEF DeviceType, compute_num_tensorcores
  <2> QED BY <2>3, <2>4, <2>5
<1> QED BY <1>1, <1>3, <1>4 DEF RowNames

(* The device type of a TPU stands for a slice of the same row and size.       *)
LEMMA TpuByDeviceType ==
  ASSUME NEW r, NEW t, NEW s, IsTpu(s, r, t)
  PROVE  \E u : /\ IsTpu(get_system_characteristics_by_device_type(s.device_type), r, u)
                /\ get_topology_product(u) = get_topology_product(t)
<1> DEFINE n == DeviceType(r, t)
<1>1. r \in TpuRows /\ t \in r.topologies /\ s = TpuSystem(r, t)
  BY DEF IsTpu
<1>2. s.device_type = n
  BY <1>1 DEF TpuSystem
<1>3. n \in RowNames(r)
  BY <1>1 DEF RowNames
<1>4. n.topology = <<>>
  BY DEF DeviceType, Short
<1>5. PICK q, u : /\ IsTpu(get_system_characteristics_by_device_type(n), q, u)
                  /\ n = DeviceType(q, u)
  BY <1>1, <1>3, <1>4, TpuByName
<1>6. q \in TpuRows /\ u \in q.topologies
  BY <1>5 DEF IsTpu
<1>7. /\ r.prefix = q.prefix
      /\ get_topology_product(t) * r.perChip = get_topology_product(u) * q.perChip
  BY <1>5 DEF DeviceType, Short, compute_num_tensorcores
<1>8. r.perChip = q.perChip
  BY <1>1, <1>6, <1>7, RowsOfOneKind
<1>9. get_topology_product(u) = get_topology_product(t)
  <2>1. r.perChip = 1 \/ r.perChip = 2
    BY <1>1, RowFacts
  <2>2. get_topology_product(u) \in Nat /\ get_topology_product(t) \in Nat
    BY <1>1, <1>6, RowSizes
  <2> QED BY <1>7, <1>8, <2>1, <2>2
<1>10. r = q
  BY <1>1, <1>6, <1>7, <1>9, RowByPrefix
<1> QED BY <1>2, <1>5, <1>9, <1>10

-----------------------------------------------------------------------------
(* GPU and CPU systems.                                                    *)

Gpus == L4s \cup A100s \cup DirectGpus
Cpus == M1Megamem \cup N2Standard64 \cup N2Standard4 \cup N2Standard32

(* GPUs are told apart by their names, CPUs by name and number.              *)
GpuPrefixes ==
  {"l4-1", "l4-2", "l4-4", "l4-8", "a100-40gb-1", "a100-40gb-2", "a100-40gb-4",
   "a100-40gb-8", "gb200-4", "gb200-4-nolssd", "b200-8", "h200-141gb-8",
   "h100-80gb-8", "h100-mega-80gb-8"}
CpuPrefixes == {"m1-megamem-96", "n2-standard-64", "n2-standard-4", "n2-standard-32"}

GpuAccelerators ==
  {"nvidia-l4", "nvidia-tesla-a100", "nvidia-gb200", "nvidia-b200",
   "nvidia-h200-141gb", "nvidia-h100-80gb", "nvidia-h100-mega-80gb"}

(* What the GPUs have in common.                                            *)
LEMMA GpuFacts ==
  ASSUME NEW h \in Gpus
  PROVE  /\ h.kind = "GPU" /\ h.accelerator \in GpuAccelerators /\ h.vms = 1
         /\ h.chips \in {1, 2, 4, 8} /\ ~h.sub /\ ~h.super
         /\ h.name = Named(h.name.prefix) /\ h.name.prefix \in GpuPrefixes
         /\ h.device_type = IF h.name.prefix = "gb200-4-nolssd" THEN Named("gb200-4")
                            ELSE h.name
<1>1. CASE h \in L4s
  BY <1>1 DEF L4s, Host, GpuAccelerators, Named, Short, GpuPrefixes
<1>2. CASE h \in A100s
  BY <1>2 DEF A100s, Host, GpuAccelerators, Named, Short, GpuPrefixes
<1>3. CASE h \in DirectGpus
  <2>1. PICK n \in {<<"gb200-4", "gb200-4", "nvidia-gb200", 4>>,
            <<"gb200-4-nolssd", "gb200-4", "nvidia-gb200", 4>>,
            <<"b200-8", "b200-8", "nvidia-b200", 8>>,
            <<"h200-141gb-8", "h200-141gb-8", "nvidia-h200-141gb", 8>>,
            <<"h100-80gb-8", "h100-80gb-8", "nvidia-h100-80gb", 8>>,
            <<"h100-mega-80gb-8", "h100-mega-80gb-8",
              "nvidia-h100-mega-80gb", 8>>} :
          h = [Host("GPU", n[1], n[2], n[3], 1, n[4], TRUE) EXCEPT
                 !.topology = IF n[2] = "gb200-4" THEN <<1, 72>> ELSE <<>>]
    BY <1>3 DEF DirectGpus
  <2>2. /\ h.kind = "GPU" /\ h.accelerator = n[3] /\ h.vms = 1 /\ h.chips = n[4]
        /\ ~h.sub /\ ~h.super /\ h.name = Named(n[1])
        /\ h.device_type = Named(n[2])
    BY <2>1 DEF Host
  <2>3. h.name.prefix = n[1]
    BY <2>2 DEF Named, Short
  <2>4. /\ n[1] \in GpuPrefixes /\ n[3] \in GpuAccelerators /\ n[4] \in {4, 8}
        /\ n[2] = IF n[1] = "gb200-4-nolssd" THEN "gb200-4" ELSE n[1]
    BY DEF GpuAccelerators, GpuPrefixes
  <2> QED BY <2>2, <2>3, <2>4
<1> QED BY <1>1, <1>2, <1>3 DEF Gpus

(* Every CPU system is made by Machines.                                    *)
LEMMA CpuShape ==
  ASSUME NEW h \in Cpus
  PROVE  \E prefix \in CpuPrefixes, cpus \in {4, 32, 64, 96}, n \in Nat \ {0} :
           h = [Host("CPU", prefix, prefix, "N/A", n, cpus, FALSE) EXCEPT
                  !.device_type = Short(prefix, n), !.name = Short(prefix, n)]
<1>1. \E prefix \in CpuPrefixes, cpus \in {4, 32, 64, 96}, counts \in SUBSET (Nat \ {0}) :
        h \in Machines(prefix, cpus, counts)
  <2>1. Powers(256) \in SUBSET (Nat \ {0}) /\ Powers(2048) \in SUBSET (Nat \ {0})
    BY DEF Powers
  <2>2. {1} \in SUBSET (Nat \ {0})
    OBVIOUS
  <2>3. CASE h \in M1Megamem
    BY <2>2, <2>3 DEF M1Megamem, CpuPrefixes
  <2>4. CASE h \in N2Standard64
    BY <2>2, <2>4 DEF N2Standard64, CpuPrefixes
  <2>5. CASE h \in N2Standard4
    BY <2>1, <2>5 DEF N2Standard4, CpuPrefixes
  <2>6. CASE h \in N2Standard32
    BY <2>1, <2>6 DEF N2Standard32, CpuPrefixes
  <2> QED BY <2>3, <2>4, <2>5, <2>6 DEF Cpus
<1>2. ASSUME NEW prefix \in CpuPrefixes, NEW cpus \in {4, 32, 64, 96},
             NEW counts \in SUBSET (Nat \ {0}), h \in Machines(prefix, cpus, counts)
      PROVE  \E n \in Nat \ {0} :
               h = [Host("CPU", prefix, prefix, "N/A", n, cpus, FALSE) EXCEPT
                      !.device_type = Short(prefix, n), !.name = Short(prefix, n)]
  BY <1>2 DEF Machines
<1> QED BY <1>1, <1>2

(* What the CPU systems have in common.                                     *)
LEMMA CpuFacts ==
  ASSUME NEW h \in Cpus
  PROVE  /\ h.kind = "CPU" /\ h.accelerator = "N/A" /\ h.vms \in Nat \ {0}
         /\ h.chips \in {4, 32, 64, 96} /\ ~h.sub /\ ~h.super
         /\ h.name = Short(h.name.prefix, h.vms) /\ h.name.prefix \in CpuPrefixes
         /\ h.device_type = h.name
<1>1. PICK prefix \in CpuPrefixes, cpus \in {4, 32, 64, 96}, n \in Nat \ {0} :
        h = [Host("CPU", prefix, prefix, "N/A", n, cpus, FALSE) EXCEPT
               !.device_type = Short(prefix, n), !.name = Short(prefix, n)]
  BY CpuShape
<1>2. /\ h.kind = "CPU" /\ h.accelerator = "N/A" /\ h.vms = n /\ h.chips = cpus
      /\ h.sub = FALSE /\ h.super = FALSE
      /\ h.name = Short(prefix, n) /\ h.device_type = Short(prefix, n)
  BY <1>1 DEF Host
<1>3. h.name.prefix = prefix
  BY <1>2 DEF Short
<1> QED BY <1>2, <1>3

(* One name, one system.                                                   *)
LEMMA OneMachine ==
  ASSUME NEW prefix, NEW cpus, NEW counts, NEW g \in Machines(prefix, cpus, counts),
         NEW h \in Machines(prefix, cpus, counts), g.name = h.name
  PROVE  g = h
<1> DEFINE M(n) == [Host("CPU", prefix, prefix, "N/A", n, cpus, FALSE) EXCEPT
                      !.device_type = Short(prefix, n), !.name = Short(prefix, n)]
<1>1. PICK n \in counts : g = M(n)
  BY DEF Machines
<1>2. PICK k \in counts : h = M(k)
  BY DEF Machines
<1>3. g.name = Short(prefix, n) /\ h.name = Short(prefix, k)
  BY <1>1, <1>2 DEF Host
<1>4. Short(prefix, n).cores = n /\ Short(prefix, k).cores = k
  BY DEF Short
<1>5. n = k
  BY <1>3, <1>4
<1> QED BY <1>1, <1>2, <1>5

(* The prefix of the machines of one call.                                  *)
LEMMA MachinePrefix ==
  ASSUME NEW prefix, NEW cpus, NEW counts, NEW h \in Machines(prefix, cpus, counts)
  PROVE  h.name.prefix = prefix
<1>1. PICK n \in counts :
        h = [Host("CPU", prefix, prefix, "N/A", n, cpus, FALSE) EXCEPT
               !.device_type = Short(prefix, n), !.name = Short(prefix, n)]
  BY DEF Machines
<1> QED BY <1>1 DEF Host, Short

(* CPU systems are told apart by their names ...                            *)
LEMMA OneCpu ==
  ASSUME NEW g \in Cpus, NEW h \in Cpus, g.name = h.name
  PROVE  g = h
<1>1. ASSUME NEW f \in Cpus
      PROVE  /\ f \in M1Megamem => f.name.prefix = "m1-megamem-96"
             /\ f \in N2Standard64 => f.name.prefix = "n2-standard-64"
             /\ f \in N2Standard4 => f.name.prefix = "n2-standard-4"
             /\ f \in N2Standard32 => f.name.prefix = "n2-standard-32"
  BY MachinePrefix DEF M1Megamem, N2Standard64, N2Standard4, N2Standard32
<1>2. CASE g \in M1Megamem /\ h \in M1Megamem
  BY <1>2, OneMachine DEF M1Megamem
<1>3. CASE g \in N2Standard64 /\ h \in N2Standard64
  BY <1>3, OneMachine DEF N2Standard64
<1>4. CASE g \in N2Standard4 /\ h \in N2Standard4
  BY <1>4, OneMachine DEF N2Standard4
<1>5. CASE g \in N2Standard32 /\ h \in N2Standard32
  BY <1>5, OneMachine DEF N2Standard32
<1> QED BY <1>1, <1>2, <1>3, <1>4, <1>5 DEF Cpus

(* ... and so are GPUs.                                                     *)
LEMMA OneGpu ==
  ASSUME NEW g \in Gpus, NEW h \in Gpus, g.name = h.name
  PROVE  g = h
<1>1. \A f \in L4s : f.name.prefix \in {"l4-1", "l4-2", "l4-4", "l4-8"}
  BY DEF L4s, Host, Named, Short
<1>2. \A f \in A100s :
        f.name.prefix \in {"a100-40gb-1", "a100-40gb-2", "a100-40gb-4", "a100-40gb-8"}
  BY DEF A100s, Host, Named, Short
<1>3. \A f \in DirectGpus :
        f.name.prefix \in {"gb200-4", "gb200-4-nolssd", "b200-8", "h200-141gb-8",
                          "h100-80gb-8", "h100-mega-80gb-8"}
  <2>1. TAKE f \in DirectGpus
  <2>2. PICK n \in {<<"gb200-4", "gb200-4", "nvidia-gb200", 4>>,
                   <<"gb200-4-nolssd", "gb200-4", "nvidia-gb200", 4>>,
                   <<"b200-8", "b200-8", "nvidia-b200", 8>>,
                   <<"h200-141gb-8", "h200-141gb-8", "nvidia-h200-141gb", 8>>,
                   <<"h100-80gb-8", "h100-80gb-8", "nvidia-h100-80gb", 8>>,
                   <<"h100-mega-80gb-8", "h100-mega-80gb-8",
                     "nvidia-h100-mega-80gb", 8>>} :
          f = [Host("GPU", n[1], n[2], n[3], 1, n[4], TRUE) EXCEPT
                 !.topology = IF n[2] = "gb200-4" THEN <<1, 72>> ELSE <<>>]
    BY DEF DirectGpus
  <2>3. f.name = Named(n[1])
    BY <2>2 DEF Host
  <2>4. f.name.prefix = n[1]
    BY <2>3 DEF Named, Short
  <2> QED BY <2>4
<1>4. CASE g \in L4s /\ h \in L4s
  <2> DEFINE T == {<<"l4-1", 1>>, <<"l4-2", 2>>, <<"l4-4", 4>>, <<"l4-8", 8>>}
             H(n) == Host("GPU", n[1], n[1], "nvidia-l4", 1, n[2], FALSE)
  <2>1. PICK n \in T : g = H(n)
    BY <1>4 DEF L4s
  <2>2. PICK m \in T : h = H(m)
    BY <1>4 DEF L4s
  <2>3. g.name = Named(n[1]) /\ h.name = Named(m[1])
    BY <2>1, <2>2 DEF Host
  <2>4. Named(n[1]).prefix = n[1] /\ Named(m[1]).prefix = m[1]
    BY DEF Named, Short
  <2>5. n[1] = m[1]
    BY <2>3, <2>4
  <2>6. n = m
    BY <2>5
  <2> QED BY <2>1, <2>2, <2>6
<1>5. CASE g \in A100s /\ h \in A100s
  <2> DEFINE T == {<<"a100-40gb-1", 1>>, <<"a100-40gb-2", 2>>, <<"a100-40gb-4", 4>>,
                   <<"a100-40gb-8", 8>>}
             H(n) == Host("GPU", n[1], n[1], "nvidia-tesla-a100", 1, n[2], FALSE)
  <2>1. PICK n \in T : g = H(n)
    BY <1>5 DEF A100s
  <2>2. PICK m \in T : h = H(m)
    BY <1>5 DEF A100s
  <2>3. g.name = Named(n[1]) /\ h.name = Named(m[1])
    BY <2>1, <2>2 DEF Host
  <2>4. Named(n[1]).prefix = n[1] /\ Named(m[1]).prefix = m[1]
    BY DEF Named, Short
  <2>5. n[1] = m[1]
    BY <2>3, <2>4
  <2>6. n = m
    BY <2>5
  <2> QED BY <2>1, <2>2, <2>6
<1>6. CASE g \in DirectGpus /\ h \in DirectGpus
  <2> DEFINE T == {<<"gb200-4", "gb200-4", "nvidia-gb200", 4>>,
                   <<"gb200-4-nolssd", "gb200-4", "nvidia-gb200", 4>>,
                   <<"b200-8", "b200-8", "nvidia-b200", 8>>,
                   <<"h200-141gb-8", "h200-141gb-8", "nvidia-h200-141gb", 8>>,
                   <<"h100-80gb-8", "h100-80gb-8", "nvidia-h100-80gb", 8>>,
                   <<"h100-mega-80gb-8", "h100-mega-80gb-8",
                     "nvidia-h100-mega-80gb", 8>>}
             H(n) == [Host("GPU", n[1], n[2], n[3], 1, n[4], TRUE) EXCEPT
                       !.topology = IF n[2] = "gb200-4" THEN <<1, 72>> ELSE <<>>]
  <2>1. PICK n \in T : g = H(n)
    BY <1>6 DEF DirectGpus
  <2>2. PICK m \in T : h = H(m)
    BY <1>6 DEF DirectGpus
  <2>3. g.name = Named(n[1]) /\ h.name = Named(m[1])
    BY <2>1, <2>2 DEF Host
  <2>4. Named(n[1]).prefix = n[1] /\ Named(m[1]).prefix = m[1]
    BY DEF Named, Short
  <2>5. n[1] = m[1]
    BY <2>3, <2>4
  <2>6. n = m
    BY <2>5
  <2> QED BY <2>1, <2>2, <2>6
<1> QED BY <1>1, <1>2, <1>3, <1>4, <1>5, <1>6 DEF Gpus

(* The names of GPUs and CPUs are no names of TPUs, nor are the accelerators.  *)
LEMMA TpuPrefixes ==
  ASSUME NEW r \in TpuRows
  PROVE  /\ r.prefix \notin GpuPrefixes \cup CpuPrefixes
         /\ r.accelerator \notin GpuAccelerators \cup {"N/A"}
         /\ \A n \in RowNames(r) : n.prefix = r.prefix
<1>1. /\ r.prefix \in {"tpu7", "tpu7x", "v6e", "v5p", "v5litepod", "v4"}
      /\ r.accelerator \in {"tpu7", "tpu7x", "tpu-v6e-slice", "tpu-v5p-slice",
                           "tpu-v5-lite-podslice", "tpu-v4-podslice"}
  <2>1. CASE r \in SingleChip
    BY <2>1, SingleRow DEF HasRow
  <2>2. CASE r \in Families
    BY <2>2, Tpu7Row, Tpu7xRow, V6eRow, V5pRow, V5litepodRow, V4Row
       DEF Families, HasRow
  <2> QED BY <2>1, <2>2 DEF TpuRows, Families
<1>2. \A n \in RowNames(r) : n.prefix = r.prefix
  BY DEF RowNames, Long, DeviceType, Short
<1> QED BY <1>1, <1>2 DEF GpuPrefixes, CpuPrefixes, GpuAccelerators

(* A name of a host is no name of a TPU.                                    *)
LEMMA NoTpuName ==
  ASSUME NEW n, n.prefix \in GpuPrefixes \cup CpuPrefixes
  PROVE  {r \in TpuRows : n \in RowNames(r)} = {}
BY TpuPrefixes

(* Hosts are GPUs and CPUs.                                                 *)
LEMMA HostsAreGpusAndCpus == Hosts = Gpus \cup Cpus
BY DEF Hosts, Gpus, Cpus

(* One name, one host.                                                      *)
LEMMA OneHost ==
  ASSUME NEW g \in Hosts, NEW h \in Hosts, g.name = h.name
  PROVE  g = h
<1>1. \A f \in Gpus : f.name.prefix \in GpuPrefixes
  BY GpuFacts
<1>2. \A f \in Cpus : f.name.prefix \in CpuPrefixes
  BY CpuFacts
<1>3. \A q : ~(q \in GpuPrefixes /\ q \in CpuPrefixes)
  BY DEF GpuPrefixes, CpuPrefixes
<1> QED BY <1>1, <1>2, <1>3, OneGpu, OneCpu, HostsAreGpusAndCpus

(* The system of a host is the host without its name.                        *)
Unnamed(h) == [f \in DOMAIN h \ {"name"} |-> h[f]]

Fields ==
  {"kind", "device_type", "topology", "accelerator", "vms", "chips", "sub",
   "super", "containers", "policy", "tas"}

(* The fields of a host.                                                    *)
LEMMA HostDomain ==
  ASSUME NEW h \in Hosts
  PROVE  DOMAIN h = Fields \cup {"name"}
<1>1. CASE h \in L4s \cup A100s
  BY <1>1 DEF L4s, A100s, Host, Fields
<1>2. CASE h \in DirectGpus
  BY <1>2 DEF DirectGpus, Host, Fields
<1>3. CASE h \in Cpus
  BY <1>3, CpuShape DEF Host, Fields
<1> QED BY <1>1, <1>2, <1>3, HostsAreGpusAndCpus DEF Gpus

(* A host and its system agree.                                             *)
LEMMA HostFields ==
  ASSUME NEW h \in Hosts
  PROVE  /\ Unnamed(h).kind = h.kind /\ Unnamed(h).device_type = h.device_type
         /\ Unnamed(h).topology = h.topology
         /\ Unnamed(h).accelerator = h.accelerator
         /\ Unnamed(h).vms = h.vms /\ Unnamed(h).chips = h.chips
         /\ Unnamed(h).sub = h.sub /\ Unnamed(h).super = h.super
BY HostDomain DEF Unnamed, Fields

(* The name of a host stands for its system.                                *)
LEMMA HostByName ==
  ASSUME NEW n, NEW h \in Hosts, h.name = n
  PROVE  get_system_characteristics_by_device_type(n) = Unnamed(h)
<1>1. n.prefix \in GpuPrefixes \cup CpuPrefixes
  BY HostsAreGpusAndCpus, GpuFacts, CpuFacts
<1>2. {r \in TpuRows : n \in RowNames(r)} = {}
  BY <1>1, NoTpuName
<1>3. {g \in Hosts : g.name = n} = {h}
  BY OneHost
<1> QED BY <1>2, <1>3 DEF get_system_characteristics_by_device_type, Unnamed

(* A device type of GPUs or CPUs stands for the system it is the type of.      *)
LEMMA HostByDeviceType ==
  ASSUME NEW h \in Hosts
  PROVE  get_system_characteristics_by_device_type(h.device_type) = Unnamed(h)
<1>1. CASE h.device_type = h.name
  BY <1>1, HostByName
<1>2. CASE h.device_type # h.name
  <2> DEFINE G(name) == [Host("GPU", name, "gb200-4", "nvidia-gb200", 1, 4, TRUE)
                           EXCEPT !.topology = <<1, 72>>]
             g == G("gb200-4")
  <2>1. h \in Gpus /\ h.name = Named("gb200-4-nolssd")
    BY <1>2, HostsAreGpusAndCpus, GpuFacts, CpuFacts
  <2>2. h.device_type = Named("gb200-4")
    BY <1>2, <2>1, GpuFacts
  <2>3. \A name \in {"gb200-4", "gb200-4-nolssd"} :
          G(name) \in Hosts /\ G(name).name = Named(name)
    <3>1. TAKE name \in {"gb200-4", "gb200-4-nolssd"}
    <3> DEFINE n == <<name, "gb200-4", "nvidia-gb200", 4>>
    <3>2. G(name) = [Host("GPU", n[1], n[2], n[3], 1, n[4], TRUE) EXCEPT
                       !.topology = IF n[2] = "gb200-4" THEN <<1, 72>> ELSE <<>>]
      OBVIOUS
    <3>3. G(name) \in DirectGpus
      BY <3>2 DEF DirectGpus
    <3>4. G(name).name = Named(name)
      BY DEF Host
    <3> QED BY <3>3, <3>4 DEF Hosts
  <2>4. h = G("gb200-4-nolssd")
    BY <2>1, <2>3, OneHost
  <2>5. get_system_characteristics_by_device_type(h.device_type) = Unnamed(g)
    BY <2>2, <2>3, HostByName
  <2>6. Unnamed(g) = Unnamed(h)
    <3>1. g \in Hosts /\ h \in Hosts
      BY <2>3
    <3>2. DOMAIN g = Fields \cup {"name"} /\ DOMAIN h = Fields \cup {"name"}
      BY <3>1, HostDomain
    <3>3. \A f \in Fields : g[f] = h[f]
      <4>1. /\ g.kind = h.kind /\ g.device_type = h.device_type
            /\ g.topology = h.topology /\ g.accelerator = h.accelerator
            /\ g.vms = h.vms /\ g.chips = h.chips
        BY <2>4 DEF Host
      <4>2. /\ g.sub = h.sub /\ g.super = h.super /\ g.containers = h.containers
            /\ g.policy = h.policy /\ g.tas = h.tas
        BY <2>4 DEF Host
      <4> HIDE DEF g
      <4> QED BY <4>1, <4>2 DEF Fields
    <3> QED BY <3>2, <3>3 DEF Unnamed, Fields
  <2> QED BY <2>5, <2>6
<1> QED BY <1>1, <1>2

-----------------------------------------------------------------------------
(* All systems.                                                            *)

(* A system of the tables, with a name.                                      *)
IsSystem(s, n) ==
  s = get_system_characteristics_by_device_type(n) /\ s # None

(* The fields of a system of TPUs ...                                       *)
LEMMA TpuFields ==
  ASSUME NEW s, NEW r, NEW t, IsTpu(s, r, t)
  PROVE  /\ s.kind = "TPU" /\ s.device_type = DeviceType(r, t) /\ s.topology = t
         /\ s.accelerator = r.accelerator /\ s.containers = r.containers
         /\ s.vms = compute_vms_per_slice(t) /\ s.chips = compute_chips_per_vm(t)
BY DEF IsTpu, TpuSystem

(* ... and which of them can be divided, joined or placed by a policy.      *)
LEMMA TpuSlicing ==
  ASSUME NEW s, NEW r, NEW t, IsTpu(s, r, t)
  PROVE  /\ s.sub <=> t \in r.sub
         /\ s.super <=> t \in r.super
         /\ s.policy = (r.policy /\ compute_vms_per_slice(t) > 1) /\ s.tas = FALSE
BY DEF IsTpu, TpuSystem

(* A system is one of a TPU or of a host.                                    *)
LEMMA TpuOrHost ==
  ASSUME NEW n, NEW s, IsSystem(s, n)
  PROVE  \/ \E r, t : IsTpu(s, r, t) /\ (n.topology = <<>> => n = DeviceType(r, t))
         \/ \E h \in Hosts : s = Unnamed(h) /\ h.name = n
<1>1. CASE \E r \in TpuRows : n \in RowNames(r)
  BY <1>1, TpuByName DEF IsSystem
<1>2. CASE {r \in TpuRows : n \in RowNames(r)} = {}
  <2>1. PICK h \in Hosts : h.name = n
    BY <1>2 DEF IsSystem, get_system_characteristics_by_device_type
  <2> QED BY <2>1, HostByName DEF IsSystem
<1> QED BY <1>1, <1>2

(* Systems of hosts.                                                        *)
LEMMA HostFacts ==
  ASSUME NEW h \in Hosts, NEW s, s = Unnamed(h)
  PROVE  /\ s.vms \in Nat \ {0} /\ s.chips \in Nat \ {0} /\ ~s.sub /\ ~s.super
         /\ \/ s.kind = "GPU" /\ s.accelerator \in GpuAccelerators /\ s.vms = 1
            \/ s.kind = "CPU" /\ s.accelerator = "N/A"
         /\ s.device_type = h.device_type
BY HostFields, HostsAreGpusAndCpus, GpuFacts, CpuFacts

(* What all systems have in common.                                         *)
LEMMA SystemFacts ==
  ASSUME NEW n, NEW s, IsSystem(s, n)
  PROVE  /\ s.kind \in {"TPU", "GPU", "CPU"}
         /\ s.vms \in Nat \ {0} /\ s.chips \in Nat \ {0}
         /\ s.kind = "GPU" => s.vms = 1
         /\ s.kind # "TPU" => ~s.sub /\ ~s.super
<1>1. CASE \E r, t : IsTpu(s, r, t)
  <2>1. PICK r, t : IsTpu(s, r, t)
    BY <1>1
  <2>2. r \in TpuRows /\ t \in r.topologies
    BY <2>1 DEF IsTpu
  <2> QED BY <2>1, <2>2, TpuFields, RowSizes
<1>2. CASE \E h \in Hosts : s = Unnamed(h)
  BY <1>2, HostFacts
<1> QED BY <1>1, <1>2, TpuOrHost

(* The accelerator tells the kind.                                          *)
LEMMA AcceleratorTellsKind ==
  ASSUME NEW n, NEW s, IsSystem(s, n), NEW m, NEW q, IsSystem(q, m),
         s.accelerator = q.accelerator
  PROVE  s.kind = q.kind
<1>1. ASSUME NEW k, NEW x, IsSystem(x, k)
      PROVE  \/ x.kind = "TPU" /\ x.accelerator \notin GpuAccelerators \cup {"N/A"}
             \/ x.kind = "GPU" /\ x.accelerator \in GpuAccelerators
             \/ x.kind = "CPU" /\ x.accelerator = "N/A"
  <2>1. CASE \E r, t : IsTpu(x, r, t)
    <3>1. PICK r, t : IsTpu(x, r, t)
      BY <2>1
    <3> QED BY <3>1, TpuFields, TpuPrefixes DEF IsTpu
  <2>2. CASE \E h \in Hosts : x = Unnamed(h)
    BY <2>2, HostFacts
  <2> QED BY <1>1, <2>1, <2>2, TpuOrHost
<1>2. "N/A" \notin GpuAccelerators
  BY DEF GpuAccelerators
<1> QED BY <1>1, <1>2

(* For TPUs, accelerator and topology tell the device type.                   *)
LEMMA TopologyTellsType ==
  ASSUME NEW n, NEW s, IsSystem(s, n), NEW m, NEW q, IsSystem(q, m),
         s.accelerator = q.accelerator, s.kind = "TPU", s.topology = q.topology
  PROVE  s.device_type = q.device_type
<1>1. q.kind = "TPU"
  BY AcceleratorTellsKind
<1>2. PICK r, t : IsTpu(s, r, t)
  BY TpuOrHost, HostFacts
<1>3. PICK p, u : IsTpu(q, p, u)
  BY <1>1, TpuOrHost, HostFacts
<1>4. t = u /\ r.accelerator = p.accelerator
  BY <1>2, <1>3, TpuFields
<1>5. r.prefix = p.prefix /\ r.perChip = p.perChip
  BY <1>2, <1>3, <1>4, RowsOfOneKind DEF IsTpu
<1>6. s.device_type = DeviceType(r, t) /\ q.device_type = DeviceType(p, u)
  BY <1>2, <1>3, TpuFields
<1> QED BY <1>4, <1>5, <1>6 DEF DeviceType

(* A slice of 64 chips in three dimensions is a cube.                        *)
LEMMA OneCube ==
  ASSUME NEW t \in Cubic, get_topology_product(t) = 64
  PROVE  t = <<4, 4, 4>>
<1>1. CASE t \in SubCubes
  BY <1>1 DEF SubCubes, get_topology_product
<1>2. CASE t \in Big
  <2>1. PICK x \in 1 .. 64, y \in 1 .. 64, z \in 1 .. 64 : t = <<4 * x, 4 * y, 4 * z>>
    <3>1. PICK c \in Cubes : t = <<4 * c[1], 4 * c[2], 4 * c[3]>>
      BY <1>2 DEF Big
    <3>2. c[1] \in 1 .. 64 /\ c[2] \in 1 .. 64 /\ c[3] \in 1 .. 64
      BY DEF Cubes
    <3> QED BY <3>1, <3>2
  <2>2. 4 * x * (4 * y) * (4 * z) = 64
    BY <2>1 DEF get_topology_product
  <2>3. x * y * z = 1
    BY <2>2
  <2>4. x * y \in Nat \ {0}
    BY PositiveProduct
  <2>5. ASSUME NEW a \in Nat \ {0}, NEW b \in Nat \ {0}, a * b = 1
        PROVE  a = 1 /\ b = 1
    BY <2>5
  <2>6. x * y = 1 /\ z = 1
    BY <2>3, <2>4, <2>5
  <2>7. x = 1 /\ y = 1
    BY <2>6, <2>5
  <2> QED BY <2>1, <2>6, <2>7
<1> QED BY <1>1, <1>2 DEF Cubic

(* What is recorded of a system is a system of the same size, and the same one *)
(* unless a long name told more than the record does.                        *)
LEMMA RecordedSystem ==
  ASSUME NEW n, NEW s, IsSystem(s, n),
         NEW d, d = get_system_characteristics_by_device_type(s.device_type)
  PROVE  /\ IsSystem(d, s.device_type)
         /\ d.kind = s.kind /\ d.device_type = s.device_type
         /\ d.accelerator = s.accelerator /\ d.vms = s.vms /\ d.chips = s.chips
         /\ \/ d = s
            \/ /\ n.topology # <<>> /\ s.kind = "TPU"
               /\ ~s.sub /\ ~s.super /\ ~d.sub /\ ~d.super
               /\ \E r, t, u : /\ IsTpu(s, r, t) /\ IsTpu(d, r, u)
                              /\ get_topology_product(u) = get_topology_product(t)
<1>1. CASE \E h \in Hosts : s = Unnamed(h)
  <2>1. PICK h \in Hosts : s = Unnamed(h)
    BY <1>1
  <2>2. s.device_type = h.device_type
    BY <2>1, HostFields
  <2>3. d = s
    BY <2>1, <2>2, HostByDeviceType
  <2> QED BY <2>3 DEF IsSystem
<1>2. CASE \E r, t : IsTpu(s, r, t) /\ (n.topology = <<>> => n = DeviceType(r, t))
  <2>1. PICK r, t : IsTpu(s, r, t) /\ (n.topology = <<>> => n = DeviceType(r, t))
    BY <1>2
  <2>2. PICK u : IsTpu(d, r, u) /\ get_topology_product(u) = get_topology_product(t)
    BY <2>1, TpuByDeviceType
  <2>3. r \in TpuRows /\ t \in r.topologies /\ u \in r.topologies
    BY <2>1, <2>2 DEF IsTpu
  <2>4. s.device_type = DeviceType(r, t) /\ d.device_type = DeviceType(r, u)
    BY <2>1, <2>2, TpuFields
  <2>5. DeviceType(r, t) = DeviceType(r, u)
    BY <2>2 DEF DeviceType, compute_num_tensorcores
  <2>6. d.kind = s.kind /\ d.accelerator = s.accelerator
    BY <2>1, <2>2, TpuFields
  <2>7. d.vms = s.vms /\ d.chips = s.chips
    <3>1. /\ s.vms = compute_vms_per_slice(t) /\ s.chips = compute_chips_per_vm(t)
          /\ d.vms = compute_vms_per_slice(u) /\ d.chips = compute_chips_per_vm(u)
      BY <2>1, <2>2, TpuFields
    <3> QED BY <2>2, <3>1 DEF compute_vms_per_slice, compute_chips_per_vm
  <2>8. d # None
    BY <2>2, TpuFields DEF None
  <2>9. n.topology = <<>> => d = s
    BY <2>1, <2>4 DEF IsSystem
  <2>10. ASSUME t = u PROVE d = s
    BY <2>1, <2>2, <2>10 DEF IsTpu
  <2>11. ASSUME s.sub \/ d.sub PROVE d = s
    <3>1. r = V6e
      BY <2>1, <2>2, <2>3, <2>11, TpuSlicing, RowFacts
    <3>2. t = u
      BY <2>2, <2>3, <3>1, V6eRow, FlatByProduct
    <3> QED BY <2>10, <3>2
  <2>12. ASSUME s.super \/ d.super PROVE d = s
    <3>1. r = Tpu7x
      BY <2>1, <2>2, <2>3, <2>12, TpuSlicing, RowFacts
    <3>2. t = <<4, 4, 4>> \/ u = <<4, 4, 4>>
      BY <2>1, <2>2, <2>12, <3>1, TpuSlicing, Tpu7xRow
    <3>3. get_topology_product(<<4, 4, 4>>) = 64
      BY DEF get_topology_product
    <3>4. t \in Cubic /\ u \in Cubic
      BY <2>3, <3>1, Tpu7xRow
    <3>5. t = u
      BY <2>2, <3>2, <3>3, <3>4, OneCube
    <3> QED BY <2>10, <3>5
  <2>13. s.kind = "TPU"
    BY <2>1, TpuFields
  <2>14. IsSystem(d, s.device_type)
    BY <2>8 DEF IsSystem
  <2> QED BY <2>1, <2>2, <2>4, <2>5, <2>6, <2>7, <2>9, <2>11, <2>12, <2>13, <2>14
<1> QED BY <1>1, <1>2, TpuOrHost

-----------------------------------------------------------------------------
(* Sizes.                                                                  *)

(* Multiplication keeps the order ...                                       *)
LEMMA TimesKeepsOrder ==
  ASSUME NEW x \in Nat, NEW y \in Nat, NEW k \in Nat, x <= y
  PROVE  x * k <= y * k
OBVIOUS

(* ... and has it from the factors.                                         *)
LEMMA TimesReflectsOrder ==
  ASSUME NEW x \in Nat, NEW y \in Nat, NEW k \in Nat \ {0}, x * k <= y * k
  PROVE  x <= y
<1>1. ASSUME y + 1 <= x PROVE FALSE
  <2>1. (y + 1) * k <= x * k
    BY <1>1, TimesKeepsOrder
  <2>2. (y + 1) * k = y * k + k
    OBVIOUS
  <2>3. y * k \in Nat /\ x * k \in Nat
    OBVIOUS
  <2> QED BY <2>1, <2>2, <2>3
<1> QED BY <1>1

(* A slice contains a whole number of its sub-slices, counted in chips or in   *)
(* machines.                                                               *)
LEMMA SubSlices ==
  ASSUME NEW t \in SUB_SLICING_TOPOLOGIES, NEW u \in SUB_SLICING_TOPOLOGIES,
         is_topology_contained(t, u)
  PROVE  /\ get_topology_product(u) \div get_topology_product(t) \in Nat
         /\ compute_vms_per_slice(u)
              = compute_vms_per_slice(t)
                  * (get_topology_product(u) \div get_topology_product(t))
<1> DEFINE P(v) == get_topology_product(v)
           T == {<<2, 4>>, <<4, 4>>, <<4, 8>>, <<8, 8>>, <<8, 16>>, <<16, 16>>}
<1>1. t \in T /\ u \in T
  BY DEF SUB_SLICING_TOPOLOGIES
<1>2. t[1] <= u[1] /\ t[2] <= u[2]
  BY <1>1 DEF is_topology_contained
<1>3. /\ P(<<2, 4>>) = 8 /\ P(<<4, 4>>) = 16 /\ P(<<4, 8>>) = 32
      /\ P(<<8, 8>>) = 64 /\ P(<<8, 16>>) = 128 /\ P(<<16, 16>>) = 256
  BY DEF get_topology_product
<1>4. ASSUME NEW v \in T
      PROVE  compute_vms_per_slice(v) = P(v) \div 4
  BY <1>3 DEF compute_vms_per_slice, compute_chips_per_vm
<1> HIDE DEF P
<1>5. \/ P(t) = P(u)
      \/ P(t) = 8 /\ P(u) \in {16, 32, 64, 128, 256}
      \/ P(t) = 16 /\ P(u) \in {32, 64, 128, 256}
      \/ P(t) = 32 /\ P(u) \in {64, 128, 256}
      \/ P(t) = 64 /\ P(u) \in {128, 256}
      \/ P(t) = 128 /\ P(u) = 256
  BY <1>1, <1>2, <1>3
<1>6. P(t) \in {8, 16, 32, 64, 128, 256}
  BY <1>1, <1>3
<1>7. P(u) \div P(t) \in Nat /\ P(u) \div 4 = (P(t) \div 4) * (P(u) \div P(t))
  BY <1>5, <1>6
<1> QED BY <1>1, <1>4, <1>7 DEF P

-----------------------------------------------------------------------------
(* The names of the instance.                                              *)

(* All names of the instance are names of systems.                          *)
LEMMA NamesAreSystems ==
  ASSUME NEW n \in ClusterNames \cup WorkloadNames
  PROVE  IsSystem(System[n], n)
BY NamesAssumption DEF System, IsSystem

(* The device types of clusters are looked up like names.                   *)
LEMMA RecordedNames ==
  ASSUME NEW n \in ClusterNames
  PROVE  System[System[n].device_type]
           = get_system_characteristics_by_device_type(System[n].device_type)
<1>1. System[n] = get_system_characteristics_by_device_type(n)
  BY DEF System
<1>2. System[n].device_type \in Recorded
  BY <1>1 DEF Recorded
<1> QED BY <1>2 DEF System

(* What is recorded of a system agrees with it in all that workloads use.       *)
LEMMA RecordedFields ==
  ASSUME NEW n, NEW s, IsSystem(s, n),
         NEW d, d = get_system_characteristics_by_device_type(s.device_type)
  PROVE  /\ d # None
         /\ \A f \in {"kind", "device_type", "accelerator", "vms", "chips",
                      "containers", "policy", "tas"} : d[f] = s[f]
         /\ n.topology = <<>> => d = s
<1>1. /\ d # None /\ d.kind = s.kind /\ d.device_type = s.device_type
      /\ d.accelerator = s.accelerator /\ d.vms = s.vms /\ d.chips = s.chips
      /\ n.topology = <<>> => d = s
  BY RecordedSystem DEF IsSystem
<1>2. d.containers = s.containers
  BY RecordedSystem, TpuFields
<1>3. d.policy = s.policy /\ d.tas = s.tas
  <2>1. CASE d = s
    BY <2>1
  <2>2. CASE \E r, t, u : IsTpu(s, r, t) /\ IsTpu(d, r, u)
    <3>1. PICK r, t, u : IsTpu(s, r, t) /\ IsTpu(d, r, u)
      BY <2>2
    <3>2. s.vms = compute_vms_per_slice(t) /\ d.vms = compute_vms_per_slice(u)
      BY <3>1, TpuFields
    <3>3. /\ s.policy = (r.policy /\ compute_vms_per_slice(t) > 1) /\ s.tas = FALSE
          /\ d.policy = (r.policy /\ compute_vms_per_slice(u) > 1) /\ d.tas = FALSE
      BY <3>1, TpuSlicing
    <3> QED BY <1>1, <3>2, <3>3
  <2> QED BY <2>1, <2>2, RecordedSystem
<1> QED BY <1>1, <1>2, <1>3

-----------------------------------------------------------------------------
(* The record of a cluster.                                                *)

(* A record that tells the size of the cluster: the names of its parts.         *)
LEMMA SizedRecord ==
  ASSUME NEW c \in ClusterSet, RecordFor(c).kind = "sized"
  PROVE  /\ IsSystem(Sys(c), c.name)
         /\ RecordFor(c) # NoRecord
         /\ RecordFor(c).type = Sys(c).device_type
         /\ RecordFor(c).vms = VmsOf(Sys(c), c.count)
         /\ ClusterSystem(RecordFor(c))
              = get_system_characteristics_by_device_type(Sys(c).device_type)
         /\ c.nap > 0 => Sys(c).kind = "GPU"
         /\ c.nap \in Nat /\ c.count \in Nat
<1>1. c.name \in ClusterNames /\ c.nap \in Nat /\ c.count \in 1 .. MaxCount
  BY DEF ClusterSet
<1>2. RecordFor(c) = [kind |-> "sized", type |-> Sys(c).device_type,
                      vms |-> VmsOf(Sys(c), c.count)]
  BY DEF RecordFor
<1>3. c.nap > 0 => Sys(c).kind = "GPU"
  BY DEF RecordFor
<1>4. ClusterSystem(RecordFor(c)) = System[Sys(c).device_type]
  BY <1>2 DEF ClusterSystem
<1>5. System[Sys(c).device_type]
        = get_system_characteristics_by_device_type(Sys(c).device_type)
  BY <1>1, RecordedNames DEF Sys
<1>6. IsSystem(Sys(c), c.name)
  BY <1>1, NamesAreSystems DEF Sys
<1>7. RecordFor(c) # NoRecord
  BY DEF NoRecord
<1>8. c.count \in Nat
  BY <1>1, ClustersAssumption
<1> QED BY <1>1, <1>2, <1>3, <1>4, <1>5, <1>6, <1>7, <1>8

(* A record is of a size or of a maximum.                                     *)
LEMMA NapRecord ==
  ASSUME NEW c \in ClusterSet, RecordFor(c).kind # "sized"
  PROVE  /\ c.nap > 0 /\ RecordFor(c).kind = "nap" /\ RecordFor(c) # NoRecord
         /\ RecordFor(c).accelerator = Sys(c).accelerator
         /\ RecordFor(c).max = c.nap
         /\ ClusterSystem(RecordFor(c)) = None
BY DEF RecordFor, NoRecord, ClusterSystem

(* What a super-slicing cluster is made of: cubes of TPU7x.                     *)
LEMMA SuperSystem ==
  ASSUME NEW n, NEW s, IsSystem(s, n), s.super
  PROVE  /\ IsTpu(s, Tpu7x, <<4, 4, 4>>) /\ s.kind = "TPU"
         /\ s.chips = 4 /\ s.topology = <<4, 4, 4>>
<1>1. s.kind = "TPU"
  BY SystemFacts
<1>2. PICK r, t : IsTpu(s, r, t)
  BY <1>1, TpuOrHost, HostFacts
<1>3. r = Tpu7x /\ t \in Tpu7x.super
  BY <1>2, TpuSlicing, RowFacts DEF IsTpu
<1>4. t = <<4, 4, 4>>
  BY <1>3, Tpu7xRow
<1>5. compute_chips_per_vm(<<4, 4, 4>>) = 4
  BY DEF compute_chips_per_vm, get_topology_product
<1> QED BY <1>1, <1>2, <1>3, <1>4, <1>5, TpuFields

(* What a sub-slicing cluster is made of: slices of V6e.                        *)
LEMMA SubSystem ==
  ASSUME NEW n, NEW s, IsSystem(s, n), s.sub
  PROVE  /\ s.kind = "TPU" /\ s.topology \in SUB_SLICING_TOPOLOGIES
         /\ s.chips = 4 /\ s.vms = compute_vms_per_slice(s.topology)
<1>1. s.kind = "TPU"
  BY SystemFacts
<1>2. PICK r, t : IsTpu(s, r, t)
  BY <1>1, TpuOrHost, HostFacts
<1>3. r = V6e /\ t \in V6e.sub
  BY <1>2, TpuSlicing, RowFacts DEF IsTpu
<1>4. t \in SUB_SLICING_TOPOLOGIES
  BY <1>3, V6eRow
<1>5. compute_chips_per_vm(t) = 4
  BY <1>4, Product, Sizes DEF Flat
<1> QED BY <1>1, <1>2, <1>4, <1>5, TpuFields

(* A slice of a topology that slices can be divided into.                       *)
LEMMA SubSliceSizes ==
  ASSUME NEW n, NEW s, IsSystem(s, n), s.kind = "TPU",
         s.topology \in SUB_SLICING_TOPOLOGIES
  PROVE  s.chips = 4 /\ s.vms = compute_vms_per_slice(s.topology)
<1>1. PICK r, t : IsTpu(s, r, t)
  BY TpuOrHost, HostFacts
<1>2. t = s.topology
  BY <1>1, TpuFields
<1>3. compute_chips_per_vm(t) = 4
  BY <1>2, Product, Sizes DEF Flat
<1> QED BY <1>1, <1>2, <1>3, TpuFields

(* Slices have a topology, and machines of one or four chips.                   *)
LEMMA SliceSizes ==
  ASSUME NEW n, NEW s, IsSystem(s, n), s.kind = "TPU"
  PROVE  s.topology # <<>> /\ s.chips \in {1, 4}
<1>1. PICK r, t : IsTpu(s, r, t)
  BY TpuOrHost, HostFacts
<1>2. t \in Cubic \cup Flat \cup Single
  BY <1>1, RowFacts DEF IsTpu
<1> QED BY <1>1, <1>2, NotEmpty, TpuFields, RowSizes DEF IsTpu

(* A super-slice of whole cubes of TPU7x is one that the decision accepts.       *)
LEMMA WholeCubesAccepted ==
  ASSUME NEW w, IsSystem(System[w.name], w.name), System[w.name].accelerator = "tpu7x",
         System[w.name].kind = "TPU", WholeCubes(System[w.name].topology)
  PROVE  _check_super_slicing_topology(w)
<1> DEFINE s == System[w.name]
<1>1. PICK r, t : IsTpu(s, r, t)
  BY TpuOrHost, HostFacts
<1>2. t = s.topology /\ r \in TpuRows /\ t \in r.topologies /\ r.accelerator = "tpu7x"
  BY <1>1, TpuFields DEF IsTpu
<1>3. Len(t) = 3 /\ \A i \in DOMAIN t : t[i] % 4 = 0
  BY <1>2 DEF WholeCubes
<1>4. t # <<1, 1, 1>> /\ t # <<1, 1>>
  <2>1. DOMAIN <<1, 1, 1>> = 1 .. 3 /\ 1 \in 1 .. 3 /\ <<1, 1, 1>>[1] % 4 # 0
    OBVIOUS
  <2>2. Len(<<1, 1>>) = 2
    OBVIOUS
  <2> QED BY <1>3, <2>1, <2>2
<1>5. r \notin SingleChip
  BY <1>2, <1>4, SingleRow DEF Single
<1>6. r \in Families /\ r.accelerator = Tpu7x.accelerator
  BY <1>2, <1>5, Tpu7xRow DEF TpuRows, Families, HasRow
<1>7. r = Tpu7x
  BY <1>2, <1>6, RowsOfOneKind, FamilyByPrefix DEF Families, TpuRows
<1>8. t \in generate_tpu_topologies(144, TRUE)
  BY <1>2, <1>7, Tpu7xRow
<1>9. t \notin SubCubes
  <2>1. ASSUME t \in SubCubes PROVE FALSE
    <3>1. t[1] = 2 /\ 1 \in DOMAIN t
      BY <2>1 DEF SubCubes
    <3> QED BY <1>3, <3>1
  <2> QED BY <2>1
<1>10. PICK c \in (1 .. 64) \X (1 .. 64) \X (1 .. 64) :
         /\ t = <<4 * c[1], 4 * c[2], 4 * c[3]>>
         /\ get_topology_product(c) <= 144 /\ c[1] <= c[2] /\ c[2] <= c[3]
  BY <1>8, <1>9 DEF generate_tpu_topologies
<1>11. c[1] \in 1 .. 64 /\ c[2] \in 1 .. 64 /\ c[3] \in 1 .. 64 /\ Len(c) = 3
  OBVIOUS
<1>12. c[1] * c[2] * c[3] <= 144
  BY <1>10, <1>11 DEF get_topology_product
<1>13. /\ t[1] = 4 * c[1] /\ t[2] = 4 * c[2] /\ t[3] = 4 * c[3] /\ DOMAIN t = 1 .. 3
  BY <1>10
<1>14. /\ t[1] \div 4 = c[1] /\ t[2] \div 4 = c[2] /\ t[3] \div 4 = c[3]
       /\ t[1] <= t[2] /\ t[2] <= t[3]
  BY <1>10, <1>11, <1>13, SMT
<1>15. \A i \in DOMAIN t : t[i] >= 4
  BY <1>11, <1>13
<1> QED BY <1>2, <1>3, <1>12, <1>14, <1>15 DEF _check_super_slicing_topology

-----------------------------------------------------------------------------
(* The decision.                                                           *)

(* The cases of the decision for a cluster of a known size.                     *)
LEMMA SizedDecision ==
  ASSUME NEW w, NEW r, r.kind = "sized", r # NoRecord, ClusterSystem(r) # None,
         NEW topology, NEW version
  PROVE  check_if_workload_can_schedule(w, r, topology, version) =
           IF _check_super_slicing_availability(w, ClusterSystem(r), topology, version)
           THEN If(_check_workload_size_fits(w, r) /\ _check_super_slicing_topology(w),
                   "SUPER")
           ELSE IF r.type = System[w.name].device_type
           THEN If(_check_workload_size_fits(w, r), "AVAILABLE")
           ELSE IF _check_sub_slicing_availability(w, ClusterSystem(r), topology, version)
           THEN If(_check_workload_size_fits(w, r), "SUB")
           ELSE "UNAVAILABLE"
<1>1. ~_is_cluster_set_up_for_nap(w, r)
  BY DEF _is_cluster_set_up_for_nap
<1> QED BY <1>1, Zenon DEF check_if_workload_can_schedule

(* The cases of the decision for a cluster that grows.                          *)
LEMMA NapDecision ==
  ASSUME NEW w, NEW r, r.kind = "nap", r # NoRecord, ClusterSystem(r) = None,
         NEW topology, NEW version
  PROVE  check_if_workload_can_schedule(w, r, topology, version) =
           IF r.accelerator = System[w.name].accelerator
           THEN If(get_total_chips_requested_from_args(System[w.name], w.count) <= r.max,
                   "AVAILABLE")
           ELSE "UNAVAILABLE"
BY DEF check_if_workload_can_schedule, _is_cluster_set_up_for_nap

(* Chips that fit into machines fit into the quota for them.                     *)
LEMMA ChipsFit ==
  ASSUME NEW v \in Nat, NEW k \in Nat, NEW x \in Nat, NEW y \in Nat,
         NEW a \in Nat, NEW b \in Nat, a <= b, k * v <= y * x
  PROVE  v * a * k <= x * b * y
<1>1. k * v \in Nat /\ y * x \in Nat
  OBVIOUS
<1>2. (k * v) * a <= (y * x) * a
  BY <1>1, TimesKeepsOrder
<1>3. a * (y * x) <= b * (y * x)
  BY <1>1, TimesKeepsOrder
<1>4. v * a * k = (k * v) * a /\ x * b * y = b * (y * x) /\ (y * x) * a = a * (y * x)
  OBVIOUS
<1>5. v * a * k <= a * (y * x) /\ a * (y * x) <= x * b * y
  BY <1>2, <1>3, <1>4
<1>6. v * a * k \in Nat /\ a * (y * x) \in Nat /\ x * b * y \in Nat
  OBVIOUS
<1> QED BY <1>5, <1>6

(* The workload and the cluster of a decision.                                 *)
LEMMA Names ==
  ASSUME NEW c \in ClusterSet, NEW w \in RequestSet
  PROVE  /\ IsSystem(System[w.name], w.name) /\ IsSystem(Sys(c), c.name)
         /\ w.count \in Nat /\ c.count \in Nat /\ c.nap \in Nat
BY NamesAreSystems, ClustersAssumption DEF ClusterSet, RequestSet, Sys

(* The parts of the JobSet.                                                  *)
LEMMA JobFields ==
  ASSUME NEW w, NEW m, NEW r, NEW j, j = JobSetOf(w, m, r)
  PROVE  /\ j.mode = m /\ j.request = w
         /\ Chips(j) = get_total_chips_requested_from_args(System[w.name], w.count)
         /\ j.level = IF m = "SUB" THEN System[w.name].topology ELSE <<>>
         /\ m # "AVAILABLE" => j.policy = <<>>
         /\ System[w.name].kind # "TPU" \/ m # "AVAILABLE" => ~j.onePoolPerReplica
         /\ System[w.name].kind = "TPU" /\ m = "AVAILABLE" => j.onePoolPerReplica
BY DEF JobSetOf, Chips

(* The nodes that a JobSet selects.                                           *)
LEMMA Selectors ==
  ASSUME NEW w, NEW m, NEW r, NEW j, j = JobSetOf(w, m, r)
  PROVE  /\ System[w.name].kind # "TPU" \/ m = "SUPER" => j.selector = <<>>
         /\ System[w.name].kind = "TPU" /\ m = "AVAILABLE" =>
              j.selector = System[w.name].topology
         /\ System[w.name].kind = "TPU" /\ m = "SUB" /\ ClusterSystem(r) # None =>
              j.selector = ClusterSystem(r).topology
BY DEF JobSetOf

(* A workload that a growing cluster takes can run on it.                       *)
LEMMA NapAccepted ==
  ASSUME NEW c \in ClusterSet, NEW w \in RequestSet, RecordFor(c).kind # "sized",
         check_if_workload_can_schedule(w, RecordFor(c), c.slicing, ~c.oldKueue)
           # "UNAVAILABLE"
  PROVE  LET m == check_if_workload_can_schedule(
                    w, RecordFor(c), c.slicing, ~c.oldKueue)
         IN  CanRun(JobSetOf(w, m, RecordFor(c)), c, QueueFor(c))
<1> DEFINE R == RecordFor(c)
           m == check_if_workload_can_schedule(w, R, c.slicing, ~c.oldKueue)
           j == JobSetOf(w, m, R)
           W == System[w.name]
           chips == get_total_chips_requested_from_args(W, w.count)
<1>1. /\ c.nap > 0 /\ R.kind = "nap" /\ R # NoRecord
      /\ R.accelerator = Sys(c).accelerator /\ R.max = c.nap /\ ClusterSystem(R) = None
  BY NapRecord
<1> HIDE DEF R
<1>2. m = IF R.accelerator = W.accelerator THEN If(chips <= R.max, "AVAILABLE")
          ELSE "UNAVAILABLE"
  BY <1>1, NapDecision
<1>3. W.accelerator = Sys(c).accelerator /\ chips <= c.nap
  BY <1>1, <1>2 DEF If, R
<1>4. W.kind = Sys(c).kind
  BY <1>3, Names, AcceleratorTellsKind
<1>5. QueueFor(c).quota = c.nap
  BY <1>1 DEF QueueFor
<1>0. j = JobSetOf(w, m, R)
  OBVIOUS
<1> HIDE DEF j, m
<1>6. j.request = w /\ Chips(j) = chips
  BY <1>0, JobFields
<1> HIDE DEF chips
<1>7. CanRun(j, c, QueueFor(c))
  BY <1>1, <1>3, <1>4, <1>5, <1>6 DEF CanRun
<1> QED BY <1>7 DEF j, m, R

(* A super-slice that a cluster takes can run on it.                            *)
LEMMA SuperAccepted ==
  ASSUME NEW c \in ClusterSet, NEW w \in RequestSet,
         NEW R, R = RecordFor(c), R.kind = "sized",
         _check_super_slicing_availability(w, ClusterSystem(R), c.slicing, ~c.oldKueue),
         _check_workload_size_fits(w, R), _check_super_slicing_topology(w)
  PROVE  CanRun(JobSetOf(w, "SUPER", R), c, QueueFor(c))
<1> DEFINE W == System[w.name]
           S == Sys(c)
           D == ClusterSystem(R)
           j == JobSetOf(w, "SUPER", R)
<1>0. j = JobSetOf(w, "SUPER", R)
  OBVIOUS
<1> HIDE DEF j
<1>1. /\ IsSystem(W, w.name) /\ IsSystem(S, c.name)
      /\ w.count \in Nat /\ c.count \in Nat /\ c.nap \in Nat
  BY Names
<1>2. /\ D = get_system_characteristics_by_device_type(S.device_type)
      /\ R.vms = VmsOf(S, c.count)
      /\ c.nap > 0 => S.kind = "GPU"
  BY SizedRecord
<1>3. W.accelerator = D.accelerator /\ D.super /\ c.slicing = "super"
  BY DEF _check_super_slicing_availability
<1> HIDE DEF D
<1>4. D = S /\ S.super
  BY <1>1, <1>2, <1>3, RecordedSystem
<1>5. S.kind = "TPU" /\ S.chips = 4
  BY <1>1, <1>4, SuperSystem
<1>6. W.accelerator = S.accelerator /\ W.kind = "TPU"
  BY <1>1, <1>3, <1>4, <1>5, AcceleratorTellsKind
<1>7. W.chips \in {1, 4} /\ W.vms \in Nat /\ S.vms \in Nat
  BY <1>1, <1>6, SliceSizes, SystemFacts
<1>8. c.nap = 0
  BY <1>1, <1>2, <1>5
<1>9. w.count * W.vms <= c.count * S.vms
  BY <1>2, <1>5, <1>6 DEF _check_workload_size_fits, VmsOf
<1>10. W.vms * W.chips * w.count <= S.vms * S.chips * c.count
  <2>1. W.chips \in Nat /\ S.chips \in Nat /\ W.chips <= S.chips
    BY <1>5, <1>7
  <2> QED BY <1>1, <1>7, <1>9, <2>1, ChipsFit
<1>11. Chips(j) <= QueueFor(c).quota
  BY <1>8, <1>10, <1>0, JobFields DEF QueueFor, get_total_chips_requested_from_args
<1>12. /\ j.mode = "SUPER" /\ j.request = w /\ j.selector = <<>> /\ j.level = <<>>
       /\ j.policy = <<>> /\ ~j.onePoolPerReplica
  BY <1>0, JobFields, Selectors
<1>13. WholeCubes(W.topology)
  BY DEF WholeCubes, _check_super_slicing_topology
<1>14. Room(j, c)
  BY <1>5, <1>6, <1>9, <1>12 DEF Room, VmsOf
<1>15. CanRun(j, c, QueueFor(c))
  BY <1>3, <1>5, <1>6, <1>8, <1>11, <1>12, <1>13, <1>14 DEF CanRun
<1> QED BY <1>15 DEF j

(* A sub-slice that a cluster takes can run on it, if it is part of a slice.     *)
LEMMA SubAccepted ==
  ASSUME NEW c \in ClusterSet, NEW w \in RequestSet,
         NEW R, R = RecordFor(c), R.kind = "sized",
         _check_sub_slicing_availability(w, ClusterSystem(R), c.slicing, ~c.oldKueue),
         _check_workload_size_fits(w, R),
         is_topology_contained(System[w.name].topology, Sys(c).topology)
  PROVE  CanRun(JobSetOf(w, "SUB", R), c, QueueFor(c))
<1> DEFINE W == System[w.name]
           S == Sys(c)
           D == ClusterSystem(R)
           j == JobSetOf(w, "SUB", R)
<1>0. j = JobSetOf(w, "SUB", R)
  OBVIOUS
<1> HIDE DEF j
<1>1. /\ IsSystem(W, w.name) /\ IsSystem(S, c.name)
      /\ w.count \in Nat /\ c.count \in Nat /\ c.nap \in Nat
  BY Names
<1>2. /\ D = get_system_characteristics_by_device_type(S.device_type)
      /\ R.vms = VmsOf(S, c.count)
      /\ c.nap > 0 => S.kind = "GPU"
  BY SizedRecord
<1>3. /\ W.accelerator = D.accelerator /\ D.sub /\ c.slicing = "sub"
      /\ W.topology \in SUB_SLICING_TOPOLOGIES
  BY DEF _check_sub_slicing_availability
<1> HIDE DEF D
<1>4. D = S /\ S.sub
  BY <1>1, <1>2, <1>3, RecordedSystem
<1>5. /\ S.kind = "TPU" /\ S.chips = 4 /\ S.topology \in SUB_SLICING_TOPOLOGIES
      /\ S.vms = compute_vms_per_slice(S.topology)
  BY <1>1, <1>4, SubSystem
<1>6. W.accelerator = S.accelerator /\ W.kind = "TPU"
  BY <1>1, <1>3, <1>4, <1>5, AcceleratorTellsKind
<1>7. W.chips = 4 /\ W.vms = compute_vms_per_slice(W.topology)
  BY <1>1, <1>3, <1>6, SubSliceSizes
<1>8. c.nap = 0
  BY <1>1, <1>2, <1>5
<1>9. w.count * W.vms <= c.count * S.vms
  BY <1>2, <1>5, <1>6 DEF _check_workload_size_fits, VmsOf
<1>10. W.vms \in Nat \ {0} /\ S.vms \in Nat \ {0}
  BY <1>1, SystemFacts
<1>11. W.vms * W.chips * w.count <= S.vms * S.chips * c.count
  <2>1. W.chips \in Nat /\ S.chips \in Nat /\ W.chips <= S.chips
    BY <1>5, <1>7
  <2> QED BY <1>1, <1>9, <1>10, <2>1, ChipsFit
<1>12. Chips(j) <= QueueFor(c).quota
  BY <1>8, <1>11, <1>0, JobFields DEF QueueFor, get_total_chips_requested_from_args
<1>13. D # None
  BY <1>1, <1>4 DEF IsSystem
<1>14. /\ j.mode = "SUB" /\ j.request = w /\ j.selector = S.topology
       /\ j.level = W.topology /\ j.policy = <<>>
  <2>1. j.selector = S.topology
    BY <1>4, <1>6, <1>13, <1>0, Selectors DEF D
  <2> QED BY <2>1, <1>0, JobFields
<1>15. W.topology \in QueueFor(c).levels
  BY <1>3 DEF QueueFor
<1>16. Room(j, c)
  <2> DEFINE k == get_topology_product(S.topology) \div get_topology_product(W.topology)
  <2>1. k \in Nat /\ S.vms = W.vms * k
    BY <1>3, <1>5, <1>7, SubSlices
  <2> HIDE DEF k
  <2>2. w.count * W.vms <= c.count * (W.vms * k)
    BY <1>9, <2>1
  <2>3. c.count * (W.vms * k) = (c.count * k) * W.vms /\ c.count * k \in Nat
    BY <1>1, <1>10, <2>1
  <2>4. w.count <= c.count * k
    BY <1>1, <1>10, <2>2, <2>3, TimesReflectsOrder
  <2> QED BY <1>14, <2>4 DEF Room, k
<1>17. CanRun(j, c, QueueFor(c))
  BY <1>5, <1>6, <1>8, <1>12, <1>14, <1>15, <1>16 DEF CanRun
<1> QED BY <1>17 DEF j

(* Systems of one device type are alike in all but their topology.               *)
LEMMA SameType ==
  ASSUME NEW n, NEW s, IsSystem(s, n), NEW m, NEW q, IsSystem(q, m),
         s.device_type = q.device_type
  PROVE  /\ s.kind = q.kind /\ s.accelerator = q.accelerator
         /\ s.vms = q.vms /\ s.chips = q.chips
<1> DEFINE d == get_system_characteristics_by_device_type(s.device_type)
<1>1. /\ d.kind = s.kind /\ d.accelerator = s.accelerator
      /\ d.vms = s.vms /\ d.chips = s.chips
  BY RecordedSystem
<1>2. /\ d.kind = q.kind /\ d.accelerator = q.accelerator
      /\ d.vms = q.vms /\ d.chips = q.chips
  BY RecordedSystem
<1> QED BY <1>1, <1>2

(* If two systems of one type have one topology, both have a placement policy    *)
(* or neither.                                                             *)
LEMMA SamePolicy ==
  ASSUME NEW n, NEW s, IsSystem(s, n), NEW m, NEW q, IsSystem(q, m),
         s.device_type = q.device_type, s.topology = q.topology
  PROVE  s.policy <=> q.policy
<1>1. CASE s.kind = "TPU"
  <2>1. PICK r, t : IsTpu(s, r, t)
    BY <1>1, TpuOrHost, HostFacts
  <2>2. PICK p, u : IsTpu(q, p, u)
    BY <1>1, SameType, TpuOrHost, HostFacts
  <2>3. r.accelerator = p.accelerator /\ t = u
    BY <2>1, <2>2, SameType, TpuFields
  <2>4. r.policy = p.policy
    BY <2>1, <2>2, <2>3, RowsOfOneKind DEF IsTpu
  <2>5. s.policy = q.policy
    BY <2>1, <2>2, <2>3, <2>4, TpuSlicing
  <2> QED BY <2>5
<1>2. CASE s.kind # "TPU"
  <2> DEFINE d == get_system_characteristics_by_device_type(s.device_type)
  <2>1. s = d /\ q = d
    BY <1>2, SameType, RecordedSystem
  <2> QED BY <2>1
<1> QED BY <1>1, <1>2

(* A workload of the type and shape of the cluster's slices or machines can run  *)
(* on it, unless nothing but super-slices can, or the quota is too low.         *)
LEMMA SameTypeAccepted ==
  ASSUME NEW c \in ClusterSet, NEW w \in RequestSet,
         NEW R, R = RecordFor(c), R.kind = "sized",
         R.type = System[w.name].device_type, _check_workload_size_fits(w, R),
         c.slicing # "super", ~QuotaBelowSize(c),
         c.nap > 0 \/ System[w.name].topology = Sys(c).topology
  PROVE  CanRun(JobSetOf(w, "AVAILABLE", R), c, QueueFor(c))
<1> DEFINE W == System[w.name]
           S == Sys(c)
           j == JobSetOf(w, "AVAILABLE", R)
<1>0. j = JobSetOf(w, "AVAILABLE", R)
  OBVIOUS
<1> HIDE DEF j
<1>1. /\ IsSystem(W, w.name) /\ IsSystem(S, c.name)
      /\ w.count \in Nat /\ c.count \in Nat /\ c.nap \in Nat
  BY Names
<1>2. /\ R.vms = VmsOf(S, c.count) /\ R.type = S.device_type
      /\ (c.nap > 0 => S.kind = "GPU")
  BY SizedRecord
<1>3. /\ W.device_type = S.device_type /\ W.kind = S.kind
      /\ W.accelerator = S.accelerator /\ W.vms = S.vms /\ W.chips = S.chips
  <2>1. W.device_type = S.device_type
    BY <1>2
  <2> HIDE DEF W, S
  <2> QED BY <1>1, <2>1, SameType
<1>4. /\ S.vms \in Nat \ {0} /\ S.chips \in Nat \ {0}
      /\ (S.kind = "GPU" => S.vms = 1)
  BY <1>1, SystemFacts
<1>5. VmsOf(W, w.count) <= VmsOf(S, c.count)
  BY <1>2 DEF _check_workload_size_fits
<1>6. w.count * S.vms <= c.count * S.vms
  BY <1>1, <1>3, <1>4, <1>5 DEF VmsOf
<1>7. w.count <= c.count
  BY <1>1, <1>4, <1>6, TimesReflectsOrder
<1>8. W.vms * W.chips * w.count <= S.vms * S.chips * c.count
  BY <1>1, <1>3, <1>4, <1>6, ChipsFit
<1>9. /\ j.mode = "AVAILABLE" /\ j.request = w /\ j.level = <<>>
      /\ Chips(j) = W.vms * W.chips * w.count
      /\ (W.kind = "TPU" => j.selector = W.topology)
      /\ (W.kind # "TPU" => j.selector = <<>>)
  BY <1>0, JobFields, Selectors DEF get_total_chips_requested_from_args
<1>10. Chips(j) <= QueueFor(c).quota
  <2>1. CASE c.nap = 0
    BY <1>8, <1>9, <2>1 DEF QueueFor, get_total_chips_requested_from_args
  <2>2. CASE c.nap > 0
    <3>1. ~(c.nap < S.vms * S.chips * c.count)
      BY <1>2, <2>2
         DEF QuotaBelowSize, GrowsUnseen, get_total_chips_requested_from_args
    <3>2. QueueFor(c).quota = c.nap
      BY <2>2 DEF QueueFor
    <3>3. W.vms * W.chips * w.count \in Nat /\ S.vms * S.chips * c.count \in Nat
      BY <1>1, <1>3, <1>4
    <3> QED BY <1>1, <1>8, <1>9, <3>1, <3>2, <3>3
  <2> QED BY <1>1, <2>1, <2>2
<1>11. CASE c.nap > 0
  <2>1. Chips(j) <= c.nap
    BY <1>10, <1>11 DEF QueueFor
  <2> QED BY <1>0, <1>3, <1>9, <1>10, <1>11, <2>1 DEF CanRun
<1>12. CASE ~(c.nap > 0)
  <2>1. W.topology = S.topology
    BY <1>12
  <2>2. j.policy \in {<<>>, PlacementPolicy(S, c.slicing = "super")}
    <3>1. j.policy = PlacementPolicy(W, FALSE)
      BY <1>0 DEF JobSetOf
    <3>2. PlacementPolicy(W, FALSE) = PlacementPolicy(S, FALSE)
      <4>1. W.policy <=> S.policy
        <5> HIDE DEF W, S
        <5> QED BY <1>1, <1>3, <2>1, SamePolicy
      <4> QED BY <1>3, <2>1, <4>1 DEF PlacementPolicy
    <3>3. PlacementPolicy(S, c.slicing = "super") = PlacementPolicy(S, FALSE)
      BY DEF PlacementPolicy
    <3> QED BY <3>1, <3>2, <3>3, Zenon
  <2>3. Room(j, c)
    BY <1>3, <1>5, <1>7, <1>9 DEF Room
  <2>4. j.selector \in {<<>>, S.topology}
    BY <1>9, <2>1
  <2> QED BY <1>0, <1>3, <1>9, <1>10, <1>12, <2>2, <2>3, <2>4 DEF CanRun
<1> QED BY <1>11, <1>12

(* The decision is sound: what it accepts can run, but for its limits.            *)
LEMMA DecisionSound ==
  ASSUME NEW c \in ClusterSet, SlicingSupported(c), NEW w \in RequestSet,
         NEW m, m = check_if_workload_can_schedule(
                      w, RecordFor(c), c.slicing, ~c.oldKueue),
         m # "UNAVAILABLE"
  PROVE  \/ CanRun(JobSetOf(w, m, RecordFor(c)), c, QueueFor(c))
         \/ ShapeUnknown(w, m, c) \/ PolicyUnknown(m, c) \/ QuotaBelowSize(c)
<1> DEFINE W == System[w.name]
           S == Sys(c)
<1>1. CASE RecordFor(c).kind # "sized"
  BY <1>1, NapAccepted
<1>2. CASE RecordFor(c).kind = "sized"
  <2>1. PICK R : R = RecordFor(c)
    OBVIOUS
  <2> DEFINE D == ClusterSystem(R)
  <2>2. /\ IsSystem(S, c.name) /\ R # NoRecord /\ R.kind = "sized"
        /\ D = get_system_characteristics_by_device_type(S.device_type)
        /\ R.type = S.device_type
    BY <1>2, <2>1, SizedRecord
  <2>3. D # None /\ D.accelerator = S.accelerator
    BY <2>2, RecordedSystem DEF IsSystem
  <2> HIDE DEF D
  <2>4. m = IF _check_super_slicing_availability(w, D, c.slicing, ~c.oldKueue)
            THEN If(_check_workload_size_fits(w, R) /\ _check_super_slicing_topology(w),
                    "SUPER")
            ELSE IF R.type = W.device_type
            THEN If(_check_workload_size_fits(w, R), "AVAILABLE")
            ELSE IF _check_sub_slicing_availability(w, D, c.slicing, ~c.oldKueue)
            THEN If(_check_workload_size_fits(w, R), "SUB")
            ELSE "UNAVAILABLE"
    BY <2>1, <2>2, <2>3, SizedDecision DEF D
  <2>5. CASE _check_super_slicing_availability(w, D, c.slicing, ~c.oldKueue)
    <3>1. /\ m = "SUPER" /\ _check_workload_size_fits(w, R)
          /\ _check_super_slicing_topology(w)
      BY <2>4, <2>5 DEF If
    <3> QED BY <2>1, <2>2, <2>5, <3>1, SuperAccepted DEF D
  <2>6. CASE /\ ~_check_super_slicing_availability(w, D, c.slicing, ~c.oldKueue)
             /\ R.type = W.device_type
    <3>1. m = "AVAILABLE" /\ _check_workload_size_fits(w, R)
      BY <2>4, <2>6 DEF If
    <3>2. CASE c.slicing = "super"
      <4>1. S.super
        BY <3>2 DEF SlicingSupported, Sys
      <4>2. D = S
        BY <2>2, <4>1, RecordedSystem
      <4>3. IsSystem(W, w.name)
        BY Names
      <4>4. W.accelerator = D.accelerator
        <5>1. W.device_type = S.device_type
          BY <2>2, <2>6
        <5> HIDE DEF W, S
        <5> QED BY <2>2, <4>2, <4>3, <5>1, SameType
      <4>5. c.oldKueue
        BY <2>6, <3>2, <4>1, <4>2, <4>4 DEF _check_super_slicing_availability
      <4> QED BY <3>1, <3>2, <4>5 DEF PolicyUnknown
    <3>3. CASE c.nap = 0 /\ W.topology # S.topology
      BY <3>1, <3>3 DEF ShapeUnknown
    <3>4. CASE /\ c.slicing # "super" /\ ~QuotaBelowSize(c)
               /\ (c.nap > 0 \/ W.topology = S.topology)
      BY <2>1, <2>2, <2>6, <3>1, <3>4, SameTypeAccepted
    <3>5. c.nap \in Nat
      BY Names
    <3> QED BY <3>2, <3>3, <3>4, <3>5
  <2>7. CASE /\ ~_check_super_slicing_availability(w, D, c.slicing, ~c.oldKueue)
             /\ R.type # W.device_type
    <3>1. /\ m = "SUB" /\ _check_workload_size_fits(w, R)
          /\ _check_sub_slicing_availability(w, D, c.slicing, ~c.oldKueue)
      BY <2>4, <2>7 DEF If
    <3>2. CASE is_topology_contained(W.topology, S.topology)
      BY <2>1, <2>2, <3>1, <3>2, SubAccepted DEF D
    <3>3. CASE ~is_topology_contained(W.topology, S.topology)
      BY <3>1, <3>3 DEF ShapeUnknown
    <3> QED BY <3>2, <3>3
  <2> QED BY <2>5, <2>6, <2>7
<1> QED BY <1>1, <1>2

(* The decision is complete: what could run in any mode is accepted in some,      *)
(* except on clusters that grow unseen and for an old Kueue.                      *)
LEMMA DecisionComplete ==
  ASSUME NEW c \in ClusterSet, SlicingSupported(c), NEW w \in RequestSet,
         ~GrowsUnseen(c), NEW x \in Modes,
         CanRun(JobSetOf(w, x, RecordFor(c)), c, QueueFor(c)),
         ~(x \in {"SUB", "SUPER"} /\ c.oldKueue)
  PROVE  check_if_workload_can_schedule(w, RecordFor(c), c.slicing, ~c.oldKueue)
           # "UNAVAILABLE"
<1> DEFINE W == System[w.name]
           S == Sys(c)
<1>1. PICK R : R = RecordFor(c)
  OBVIOUS
<1>2. PICK j : j = JobSetOf(w, x, R)
  OBVIOUS
<1>3. CanRun(j, c, QueueFor(c))
  BY <1>1, <1>2
<1>4. /\ IsSystem(W, w.name) /\ IsSystem(S, c.name)
      /\ w.count \in Nat /\ c.count \in Nat /\ c.nap \in Nat
  BY Names
<1>5. /\ j.mode = x /\ j.request = w
      /\ Chips(j) = get_total_chips_requested_from_args(W, w.count)
      /\ j.level = IF x = "SUB" THEN W.topology ELSE <<>>
  BY <1>2, JobFields
<1>6. W.accelerator = S.accelerator /\ W.kind = S.kind /\ Chips(j) <= QueueFor(c).quota
  BY <1>3, <1>5 DEF CanRun
<1>7. CASE R.kind # "sized"
  <2>1. /\ c.nap > 0 /\ R.kind = "nap" /\ R # NoRecord
        /\ R.accelerator = S.accelerator /\ R.max = c.nap /\ ClusterSystem(R) = None
    BY <1>1, <1>7, NapRecord
  <2>2. QueueFor(c).quota = c.nap
    BY <2>1 DEF QueueFor
  <2>3. check_if_workload_can_schedule(w, R, c.slicing, ~c.oldKueue)
          = If(get_total_chips_requested_from_args(W, w.count) <= R.max, "AVAILABLE")
    BY <1>6, <2>1, NapDecision
  <2>4. check_if_workload_can_schedule(w, R, c.slicing, ~c.oldKueue) = "AVAILABLE"
    BY <1>5, <1>6, <2>1, <2>2, <2>3 DEF If
  <2> QED BY <1>1, <2>4
<1>8. CASE R.kind = "sized"
  <2> DEFINE D == ClusterSystem(R)
             fits == _check_workload_size_fits(w, R)
             super == _check_super_slicing_availability(w, D, c.slicing, ~c.oldKueue)
             sub == _check_sub_slicing_availability(w, D, c.slicing, ~c.oldKueue)
  <2>1. /\ R # NoRecord /\ R.type = S.device_type /\ R.vms = VmsOf(S, c.count)
        /\ D = get_system_characteristics_by_device_type(S.device_type)
    BY <1>1, <1>8, SizedRecord
  <2>2. c.nap > 0 => S.kind = "GPU"
    BY <1>1, <1>8, SizedRecord
  <2>3. c.nap = 0
    BY <1>4, <2>2 DEF GrowsUnseen
  <2>4. D # None /\ D.accelerator = S.accelerator
    BY <1>4, <2>1, RecordedSystem DEF IsSystem
  <2>5. check_if_workload_can_schedule(w, R, c.slicing, ~c.oldKueue) =
          IF super THEN If(fits /\ _check_super_slicing_topology(w), "SUPER")
          ELSE IF R.type = W.device_type THEN If(fits, "AVAILABLE")
          ELSE IF sub THEN If(fits, "SUB") ELSE "UNAVAILABLE"
    BY <1>8, <2>1, <2>4, SizedDecision
  <2> HIDE DEF D
  <2>6. super => S.super /\ D = S
    BY <1>4, <2>1, RecordedSystem DEF _check_super_slicing_availability
  <2>7. fits <=> VmsOf(W, w.count) <= VmsOf(S, c.count)
    BY <2>1 DEF _check_workload_size_fits
  <2>8. /\ W.vms \in Nat \ {0} /\ S.vms \in Nat \ {0}
        /\ W.chips \in Nat \ {0} /\ S.chips \in Nat \ {0}
    BY <1>4, SystemFacts
  <2>9. /\ j.selector \in {<<>>, S.topology}
        /\ W.kind # "TPU" => W.device_type = S.device_type
    BY <1>3, <1>5, <2>3 DEF CanRun
  <2>10. Room(j, c)
    BY <1>3, <2>3 DEF CanRun
  <2> HIDE DEF fits, super, sub
  <2>11. CASE W.kind # "TPU"
    <3>1. W.device_type = S.device_type
      BY <2>9, <2>11
    <3>2. W.vms = S.vms /\ W.chips = S.chips
      <4> HIDE DEF W, S
      <4> QED BY <1>4, <3>1, SameType
    <3>3. W.vms * W.chips * w.count <= S.vms * S.chips * c.count
      BY <1>5, <1>6, <2>3 DEF QueueFor, get_total_chips_requested_from_args
    <3>4. S.vms * S.chips \in Nat \ {0}
      BY <2>8, PositiveProduct
    <3>5. w.count * (S.vms * S.chips) <= c.count * (S.vms * S.chips)
      <4>1. /\ W.vms * W.chips * w.count = w.count * (S.vms * S.chips)
            /\ S.vms * S.chips * c.count = c.count * (S.vms * S.chips)
        BY <1>4, <2>8, <3>2, <3>4
      <4> QED BY <3>3, <4>1
    <3>6. w.count <= c.count
      BY <1>4, <3>4, <3>5, TimesReflectsOrder
    <3>7. w.count * S.vms <= c.count * S.vms
      BY <1>4, <2>8, <3>6, TimesKeepsOrder
    <3>8. fits
      BY <1>6, <2>7, <3>2, <3>6, <3>7 DEF VmsOf
    <3>9. ~super
      BY <1>4, <1>6, <2>6, <2>11, SystemFacts
    <3> QED BY <1>1, <2>1, <2>5, <3>1, <3>8, <3>9 DEF If
  <2>12. CASE W.kind = "TPU" /\ x = "AVAILABLE"
    <3>1. j.selector = W.topology /\ W.topology # <<>>
      BY <1>2, <1>4, <2>12, Selectors, SliceSizes
    <3>2. W.topology = S.topology
      BY <2>9, <3>1
    <3>3. W.device_type = S.device_type
      <4> HIDE DEF W, S
      <4> QED BY <1>4, <1>6, <2>12, <3>2, TopologyTellsType
    <3>4. j.onePoolPerReplica
      BY <1>2, <2>12, JobFields
    <3>5. w.count <= c.count /\ W.vms = S.vms
      BY <1>5, <2>10, <2>12, <3>4 DEF Room
    <3>6. w.count * S.vms <= c.count * S.vms
      BY <1>4, <2>8, <3>5, TimesKeepsOrder
    <3>7. fits
      BY <1>6, <2>7, <2>12, <3>5, <3>6 DEF VmsOf
    <3>8. super => _check_super_slicing_topology(w)
      <4>1. ASSUME super PROVE _check_super_slicing_topology(w)
        <5>1. S.topology = <<4, 4, 4>>
          BY <1>4, <2>6, <4>1, SuperSystem
        <5>2. W.topology = <<4, 4, 4>>
          BY <3>2, <5>1
        <5> QED BY <5>2 DEF _check_super_slicing_topology
      <4> QED BY <4>1
    <3> QED BY <1>1, <2>1, <2>5, <3>3, <3>7, <3>8 DEF If
  <2>13. CASE W.kind = "TPU" /\ x = "SUB"
    <3>1. W.topology # <<>>
      BY <1>4, <2>13, SliceSizes
    <3>2. W.topology \in QueueFor(c).levels
      BY <1>3, <1>5, <2>3, <2>13, <3>1 DEF CanRun
    <3>3. /\ c.slicing = "sub" /\ W.topology \in SUB_SLICING_TOPOLOGIES
          /\ is_topology_contained(W.topology, S.topology)
      BY <3>2 DEF QueueFor
    <3>4. S.sub
      BY <3>3 DEF SlicingSupported, Sys
    <3>5. D = S
      BY <1>4, <2>1, <3>4, RecordedSystem
    <3>6. ~super
      BY <3>3 DEF super, _check_super_slicing_availability
    <3>7. sub
      BY <1>6, <2>13, <3>3, <3>4, <3>5 DEF sub, _check_sub_slicing_availability
    <3>8. /\ W.vms = compute_vms_per_slice(W.topology)
          /\ S.vms = compute_vms_per_slice(S.topology)
          /\ S.topology \in SUB_SLICING_TOPOLOGIES
      BY <1>4, <2>13, <3>3, <3>4, SubSystem, SubSliceSizes
    <3> DEFINE k == get_topology_product(S.topology) \div get_topology_product(W.topology)
    <3>9. k \in Nat /\ S.vms = W.vms * k
      BY <3>3, <3>8, SubSlices
    <3>10. w.count <= c.count * k
      BY <1>5, <2>10, <2>13 DEF Room
    <3> HIDE DEF k
    <3>11. c.count * k \in Nat /\ (c.count * k) * W.vms = c.count * S.vms
      BY <1>4, <2>8, <3>9
    <3>12. w.count * W.vms <= c.count * S.vms
      BY <1>4, <2>8, <3>10, <3>11, TimesKeepsOrder
    <3>13. fits
      BY <1>6, <2>7, <2>13, <3>12 DEF VmsOf
    <3> QED BY <1>1, <2>5, <3>6, <3>7, <3>13 DEF If
  <2>14. CASE W.kind = "TPU" /\ x = "SUPER"
    <3>1. c.slicing = "super" /\ WholeCubes(W.topology)
      BY <1>3, <1>5, <2>3, <2>14 DEF CanRun
    <3>2. S.super
      BY <3>1 DEF SlicingSupported, Sys
    <3>3. D = S
      BY <1>4, <2>1, <3>2, RecordedSystem
    <3>4. super
      BY <1>6, <2>14, <3>1, <3>2, <3>3 DEF super, _check_super_slicing_availability
    <3>5. S.accelerator = "tpu7x"
      <4>1. IsTpu(S, Tpu7x, <<4, 4, 4>>)
        BY <1>4, <3>2, SuperSystem
      <4> QED BY <4>1, TpuFields, Tpu7xRow DEF HasRow
    <3>6. _check_super_slicing_topology(w)
      BY <1>4, <1>6, <2>14, <3>1, <3>5, WholeCubesAccepted
    <3>7. ~j.onePoolPerReplica
      BY <1>2, <2>14, JobFields
    <3>8. fits
      BY <1>5, <2>7, <2>10, <2>14, <3>7 DEF Room
    <3> QED BY <1>1, <2>5, <3>4, <3>6, <3>8 DEF If
  <2> QED BY <2>11, <2>12, <2>13, <2>14 DEF Modes
<1> QED BY <1>7, <1>8

-----------------------------------------------------------------------------
(* A run of workload create.                                               *)

(* What is known of the run while it has read a record of a settled cluster:     *)
(* the record is still that of the cluster, and the mode is what the decision    *)
(* says of it.  A run that has ended well has submitted a JobSet of that mode.   *)
Known == clear /\ seen # NoRecord
Running == {"nap", "render", "apply"}

RunInv ==
  /\ cluster \in ClusterSet /\ SlicingSupported(cluster)
  /\ pc # "idle" => req \in Requests
  /\ pc \in {"exists", "read"} => seen = NoRecord
  /\ Known /\ pc \in Running \cup {"decide", "done"} =>
       Settled /\ seen = record
  /\ Known /\ pc \in Running \cup {"done"} =>
       mode = check_if_workload_can_schedule(
                req, seen, cluster.slicing, ~cluster.oldKueue)
  /\ pc \in Running => mode # "UNAVAILABLE"
  /\ pc = "done" /\ rc = 0 =>
       mode # "UNAVAILABLE" /\ job = JobSetOf(req, mode, seen)

(* A cluster that is resized stays one.                                       *)
LEMMA ResizedCluster ==
  ASSUME NEW c \in ClusterSet, SlicingSupported(c), NEW n \in Resizes,
         NEW d, d = [c EXCEPT !.count = n]
  PROVE  d \in ClusterSet /\ SlicingSupported(d)
<1>1. n \in 1 .. MaxCount
  BY ClustersAssumption
<1>2. d \in ClusterSet
  BY <1>1 DEF ClusterSet
<1>3. d.name = c.name /\ d.slicing = c.slicing
  BY DEF ClusterSet
<1> QED BY <1>2, <1>3 DEF SlicingSupported

(* RunInv holds at first.                                                   *)
LEMMA RunInvInit == Init => RunInv
<1> SUFFICES ASSUME Init PROVE RunInv
  OBVIOUS
<1>1. cluster \in ClusterSet /\ SlicingSupported(cluster)
  BY ClustersAssumption DEF Init
<1>2. pc = "idle"
  BY DEF Init
<1> QED BY <1>1, <1>2 DEF RunInv, Running

(* The steps of workload create keep RunInv.                                  *)
LEMMA RunInvKeptByRun ==
  ASSUME RunInv,
         \/ \E w \in Requests : Begin(w)
         \/ Overwrite \/ ReadRecord \/ Decide \/ NapArguments \/ Render \/ Apply
  PROVE  RunInv'
<1>1. UNCHANGED Server
  BY DEF Begin, Overwrite, ReadRecord, Decide, NapArguments, Render, Apply
<1>2. /\ UNCHANGED <<cluster, record, queue, adapt>>
      /\ cluster' \in ClusterSet /\ SlicingSupported(cluster)'
  BY <1>1 DEF Server, RunInv
<1>3. CASE \E w \in Requests : Begin(w)
  BY <1>2, <1>3 DEF Begin, RunInv, Known, Running
<1>4. CASE Overwrite
  BY <1>2, <1>4 DEF Overwrite, Exit, RunInv, Known, Running
<1>5. CASE ReadRecord
  <2>1. Known' => Settled' /\ seen' = record'
    BY <1>2, <1>5 DEF ReadRecord, Known, Settled
  <2> QED BY <1>2, <1>5, <2>1 DEF ReadRecord, RunInv, Running
<1>6. CASE Decide
  <2>1. PICK topology \in {queue.topology} \cup (IF Flaky THEN {"failed"} ELSE {}),
             known \in {TRUE} \cup (IF Flaky THEN {FALSE} ELSE {}) :
          LET m == check_if_workload_can_schedule(
                     req, seen, topology, ~known \/ ~cluster.oldKueue)
          IN  /\ mode' = m
              /\ clear' = (clear /\ topology # "failed" /\ known)
              /\ IF m = "UNAVAILABLE" THEN Exit(1) ELSE pc' = "nap" /\ UNCHANGED rc
    BY <1>6, Zenon DEF Decide
  <2>2. mode' = check_if_workload_can_schedule(
                  req, seen, topology, ~known \/ ~cluster.oldKueue)
    BY <2>1, Zenon
  <2>3. IF mode' = "UNAVAILABLE" THEN Exit(1) ELSE pc' = "nap" /\ UNCHANGED rc
    BY <2>1, Zenon
  <2>4. clear' => clear /\ topology # "failed" /\ known
    BY <2>1, Zenon
  <2>5. \/ pc' = "done" /\ rc' = 1 /\ mode' = "UNAVAILABLE"
        \/ pc' = "nap" /\ mode' # "UNAVAILABLE"
    BY <2>3 DEF Exit
  <2>6. pc = "decide" /\ UNCHANGED <<req, seen, job>>
    BY <1>6 DEF Decide
  <2>7. topology \in {queue.topology, "failed"}
    OBVIOUS
  <2>8. Known' => Known /\ topology = queue.topology /\ known
    BY <2>6, <2>4, <2>7, Zenon DEF Known
  <2>9. Known' => Settled /\ seen = record
    BY <2>8, <2>6 DEF RunInv
  <2>10. Known' => Settled' /\ seen' = record'
    BY <1>2, <2>9, <2>6 DEF Settled
  <2>11. Known' => topology = cluster.slicing
    BY <2>8, <2>9 DEF Settled, QueueFor
  <2>12. ASSUME Known'
        PROVE  mode' = check_if_workload_can_schedule(
                         req', seen', cluster'.slicing, ~cluster'.oldKueue)
    <3>1. (~known \/ ~cluster.oldKueue) = ~cluster.oldKueue
      BY <2>8, <2>12
    <3> QED BY <1>2, <2>2, <2>11, <2>12, <2>6, <3>1, Zenon
  <2> QED BY <1>2, <2>5, <2>10, <2>12, <2>6 DEF RunInv, Running
<1>7. CASE NapArguments \/ Render
  <2>1. /\ pc \in Running /\ UNCHANGED <<req, seen, mode, clear, job>>
        /\ pc' \in Running \/ (pc' = "done" /\ rc' = 1)
    BY <1>7 DEF NapArguments, Render, Running, Exit
  <2> QED BY <1>2, <2>1 DEF RunInv, Known, Running, Settled
<1>8. CASE Apply
  <2>1. /\ pc = "apply" /\ pc' = "done" /\ UNCHANGED <<req, seen, mode, clear>>
        /\ \/ rc' = 0 /\ job' = JobSetOf(req, mode, seen)
           \/ rc' = 1
    BY <1>8 DEF Apply, Exit
  <2> QED BY <1>2, <2>1 DEF RunInv, Known, Running, Settled
<1> QED BY <1>3, <1>4, <1>5, <1>6, <1>7, <1>8

(* The steps of cluster create keep RunInv: from its first step on, nothing is   *)
(* known any more.                                                          *)
LEMMA RunInvKeptByResizing ==
  ASSUME RunInv,
         (\E n \in Resizes : Resize(n)) \/ WriteRecord \/ WriteQueue \/ Interrupt
  PROVE  RunInv'
<1>1. UNCHANGED <<job, pc, req, seen, mode, rc>>
  BY DEF Resize, WriteRecord, WriteQueue, Interrupt, run
<1>2. CASE \E n \in Resizes : Resize(n)
  <2>1. PICK n \in Resizes : Resize(n)
    BY <1>2
  <2>2. cluster' \in ClusterSet /\ SlicingSupported(cluster)'
    BY <2>1, ResizedCluster DEF Resize, RunInv
  <2>3. ~Known'
    BY <2>1 DEF Resize, Known
  <2> QED BY <1>1, <2>2, <2>3 DEF RunInv
<1>3. CASE WriteRecord \/ WriteQueue \/ Interrupt
  <2>1. adapt # Idle /\ UNCHANGED <<cluster, clear>>
    BY <1>3 DEF WriteRecord, WriteQueue, Interrupt, run, Idle
  <2>2. ~Settled
    BY <2>1 DEF Settled
  <2>3. Known' <=> Known
    BY <1>1, <2>1 DEF Known
  <2> QED BY <1>1, <2>1, <2>2, <2>3 DEF RunInv
<1> QED BY <1>2, <1>3

(* Every step keeps RunInv.                                                 *)
LEMMA RunInvNext == RunInv /\ [Next]_vars => RunInv'
<1>1. CASE UNCHANGED vars
  BY <1>1 DEF vars, RunInv, Known, Running, Settled
<1>2. CASE Next
  BY <1>2, RunInvKeptByRun, RunInvKeptByResizing DEF Next
<1> QED BY <1>1, <1>2

(* RunInv holds throughout.                                                   *)
THEOREM RunIsKnown == Spec => []RunInv
BY RunInvInit, RunInvNext, PTL DEF Spec

-----------------------------------------------------------------------------
(* What a workload create that has ended means.                             *)

(* A workload that was accepted while the cluster was settled and every query    *)
(* was answered can run: core/scheduling.py takes nothing that Kueue cannot      *)
(* admit or GKE cannot place, but for shapes, policies and quotas that the        *)
(* ConfigMap does not tell.                                                  *)
THEOREM WhatIsAcceptedCanRun == Spec => []AcceptedCanRun
<1>1. RunInv => AcceptedCanRun
  <2> SUFFICES ASSUME RunInv, pc = "done", rc = 0, clear, seen # NoRecord
               PROVE  \/ CanRun(job, cluster, queue)
                      \/ ShapeUnknown(req, job.mode, cluster)
                      \/ PolicyUnknown(job.mode, cluster) \/ QuotaBelowSize(cluster)
    BY DEF AcceptedCanRun
  <2>1. /\ mode # "UNAVAILABLE" /\ job = JobSetOf(req, mode, seen)
        /\ Settled /\ seen = record
    BY DEF RunInv, Known
  <2>2. seen = RecordFor(cluster) /\ queue = QueueFor(cluster)
    BY <2>1 DEF Settled
  <2>3. mode = check_if_workload_can_schedule(
                 req, RecordFor(cluster), cluster.slicing, ~cluster.oldKueue)
    BY <2>2, Zenon DEF RunInv, Known
  <2>4. cluster \in ClusterSet /\ SlicingSupported(cluster) /\ req \in RequestSet
    BY RequestsAssumption DEF RunInv
  <2>5. job.mode = mode
    BY <2>1, JobFields
  <2>6. \/ CanRun(JobSetOf(req, mode, RecordFor(cluster)), cluster, QueueFor(cluster))
        \/ ShapeUnknown(req, mode, cluster) \/ PolicyUnknown(mode, cluster)
        \/ QuotaBelowSize(cluster)
    BY <2>1, <2>3, <2>4, DecisionSound, Zenon
  <2> QED BY <2>1, <2>2, <2>5, <2>6
<1> QED BY <1>1, RunIsKnown, PTL

(* A workload that was refused under the same conditions could not run in any     *)
(* mode: core/scheduling.py turns away nothing the cluster has room for.          *)
THEOREM WhatIsRefusedCannotRun == Spec => []RefusedCannotRun
<1>1. RunInv => RefusedCannotRun
  <2> SUFFICES ASSUME RunInv, pc = "done", mode = "UNAVAILABLE", clear,
                      seen # NoRecord, ~GrowsUnseen(cluster), NEW m \in Modes,
                      CanRun(JobSetOf(req, m, record), cluster, queue),
                      ~(m \in {"SUB", "SUPER"} /\ cluster.oldKueue)
               PROVE  FALSE
    BY DEF RefusedCannotRun
  <2>1. Settled /\ seen = record
    BY DEF RunInv, Known
  <2>2. /\ seen = RecordFor(cluster) /\ record = RecordFor(cluster)
        /\ queue = QueueFor(cluster)
    BY <2>1 DEF Settled
  <2>3. check_if_workload_can_schedule(
          req, RecordFor(cluster), cluster.slicing, ~cluster.oldKueue) = "UNAVAILABLE"
    BY <2>2, Zenon DEF RunInv, Known
  <2>4. cluster \in ClusterSet /\ SlicingSupported(cluster) /\ req \in RequestSet
    BY RequestsAssumption DEF RunInv
  <2>5. CanRun(JobSetOf(req, m, RecordFor(cluster)), cluster, QueueFor(cluster))
    BY <2>2
  <2> QED BY <2>3, <2>4, <2>5, DecisionComplete, Zenon
<1> QED BY <1>1, RunIsKnown, PTL

(* The device type that the ConfigMap records of a cluster names a system of the  *)
(* same accelerator, slices and machines: core/system_characteristics.py agrees   *)
(* with itself for every name a cluster can be created with.                      *)
THEOREM RecordsNameTheSystem == Spec => []RecordNamesTheSystem
<1>1. RunInv => RecordNamesTheSystem
  <2> SUFFICES ASSUME RunInv, record = RecordFor(cluster), record.kind = "sized"
               PROVE  RecordNamesTheSystem
    BY DEF RecordNamesTheSystem
  <2>1. cluster \in ClusterSet
    BY DEF RunInv
  <2>2. /\ IsSystem(Sys(cluster), cluster.name)
        /\ ClusterSystem(record)
             = get_system_characteristics_by_device_type(Sys(cluster).device_type)
    BY <2>1, SizedRecord
  <2> QED BY <2>2, RecordedFields DEF RecordNamesTheSystem
<1> QED BY <1>1, RunIsKnown, PTL
=============================================================================
