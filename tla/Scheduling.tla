----------------------------- MODULE Scheduling -----------------------------
(***************************************************************************)
(* Whether a workload is accepted, how it is placed, and whether the cluster *)
(* can run it: `xpk workload create` (commands/workload.py), the decision of *)
(* core/scheduling.py, the RESOURCES ConfigMap it reads (core/resources.py), *)
(* and the resizing of the cluster (`cluster create`, repeated) by another   *)
(* xpk, which changes the node pools, the ConfigMap and the Kueue queue one  *)
(* after the other and may end between any two.                             *)
(*                                                                         *)
(* A workload request is refused or accepted from what one read of the       *)
(* ConfigMap and two queries of Kueue say; an old workload of the same name  *)
(* has been deleted by then.                                               *)
(***************************************************************************)
EXTENDS Systems

CONSTANTS
  ClusterNames,  \* the systems clusters are made of, as the user names them
  WorkloadNames, \* the systems workloads ask for
  Clusters,      \* the clusters that are there, see ClusterSet
  Requests,      \* the workload requests, see RequestSet
  MaxCount,      \* bound of slices or nodes
  Resizes,       \* the counts clusters are resized to
  MaxRuns,       \* bound of workload create runs
  MaxResizes,    \* bound of cluster create runs
  Flaky          \* whether queries and commands may fail

ASSUME NamesAssumption ==
  \A n \in ClusterNames \cup WorkloadNames :
    get_system_characteristics_by_device_type(n) # None

(* The systems of the instance, looked up once: those of the names and of the *)
(* device types that are recorded for them.                                *)
Recorded ==
  {get_system_characteristics_by_device_type(n).device_type : n \in ClusterNames}

System ==
  [n \in ClusterNames \cup WorkloadNames \cup Recorded |->
     get_system_characteristics_by_device_type(n)]

(* slicing: "sub" or "super" if the cluster was created with that flag;      *)
(* nap: the maximum number of chips, 0 without autoprovisioning.            *)
ClusterSet ==
  [name : ClusterNames, count : 1 .. MaxCount, slicing : {"no", "sub", "super"},
   nap : Nat, oldKueue : BOOLEAN, cpuPool : BOOLEAN]

RequestSet ==
  [name : WorkloadNames, count : 1 .. MaxCount, longName : BOOLEAN,
   pathways : BOOLEAN, scheduler : {"default-scheduler", "tas", "other"}]

(* Only systems that support a kind of slicing get it.                      *)
SlicingSupported(c) ==
  /\ c.slicing = "sub" => System[c.name].sub
  /\ c.slicing = "super" => System[c.name].super

ASSUME ClustersAssumption ==
  /\ MaxCount \in Nat /\ Resizes \subseteq 1 .. MaxCount
  /\ Clusters \subseteq ClusterSet /\ \A c \in Clusters : SlicingSupported(c)

ASSUME RequestsAssumption == Requests \subseteq RequestSet

VARIABLES
  cluster, \* its node pools, as the last resize left them
  record,  \* the RESOURCES ConfigMap
  queue,   \* the configuration of Kueue: quota in chips, sub-slice levels
  job,     \* the JobSet of the workload's name, NoJob if there is none
  pc,      \* of the running workload create
  req,     \* its request
  seen,    \* the ConfigMap it has read
  mode,    \* the WorkloadScheduling it has computed
  clear,   \* FALSE once an answer was missing or the cluster was not settled
  rc,      \* its exit status
  adapt,   \* the running cluster create: its step and the count it is for
  runs, resizes

vars == <<cluster, record, queue, job, pc, req, seen, mode, clear, rc, adapt,
          runs, resizes>>

run == <<pc, req, seen, mode, clear, rc>>
NoJob == [mode |-> "none"]
Idle == [step |-> "idle", count |-> 0]

-----------------------------------------------------------------------------
(* What cluster create writes.                                             *)

Sys(c) == System[c.name]

VmsOf(system, count) == IF system.kind = "GPU" THEN count ELSE count * system.vms

get_total_chips_requested_from_args(system, count) ==
  system.vms * system.chips * count

\* WRONG: records slices instead of machines.
SlicesRecorded(c) ==
  [kind |-> "sized", type |-> Sys(c).device_type, vms |-> c.count]

(* A cluster of GPUs is recorded by its size, autoprovisioned or not.        *)
RecordFor(c) ==
  IF c.nap > 0 /\ Sys(c).kind # "GPU"
  THEN [kind |-> "nap", accelerator |-> Sys(c).accelerator, max |-> c.nap]
  ELSE [kind |-> "sized", type |-> Sys(c).device_type,
        vms |-> VmsOf(Sys(c), c.count)]

NoRecord == [kind |-> "none"]

QueueFor(c) ==
  [quota |-> IF c.nap > 0 THEN c.nap
             ELSE get_total_chips_requested_from_args(Sys(c), c.count),
   levels |-> IF c.slicing # "sub" THEN {}
              ELSE {t \in SUB_SLICING_TOPOLOGIES :
                      is_topology_contained(t, Sys(c).topology)},
   topology |-> c.slicing]

Settled ==
  /\ adapt = Idle /\ record \in {RecordFor(cluster), NoRecord}
  /\ queue = QueueFor(cluster)

-----------------------------------------------------------------------------
(* The decision.                                                           *)

(* The system a reader of the ConfigMap takes the cluster for.              *)
ClusterSystem(r) ==
  IF r.kind = "sized" THEN System[r.type] ELSE None

\* WRONG: counts slices instead of machines.
SlicesFit(w, r) == w.count <= r.vms

_check_workload_size_fits(w, r) ==
  VmsOf(System[w.name], w.count) <= r.vms

_is_cluster_set_up_for_nap(w, r) ==
  r.kind = "nap" /\ r.accelerator = System[w.name].accelerator

(* `topology`: what `kubectl get topology` shows, "failed" if it failed;     *)
(* `version`: whether Kueue is new enough, TRUE if that cannot be told.      *)
_check_sub_slicing_availability(w, cs, topology, version) ==
  /\ System[w.name].accelerator = cs.accelerator
  /\ cs.sub /\ System[w.name].topology \in SUB_SLICING_TOPOLOGIES
  /\ topology = "sub" /\ version

_check_super_slicing_availability(w, cs, topology, version) ==
  /\ System[w.name].accelerator = cs.accelerator
  /\ cs.super /\ topology = "super" /\ version

_check_super_slicing_topology(w) ==
  LET t == System[w.name].topology
  IN  /\ Len(t) = 3 /\ \A i \in DOMAIN t : t[i] % 4 = 0 /\ t[i] >= 4
      /\ t[1] <= t[2] /\ t[2] <= t[3]
      /\ (t[1] \div 4) * (t[2] \div 4) * (t[3] \div 4) <= 144

If(condition, then) == IF condition THEN then ELSE "UNAVAILABLE"

check_if_workload_can_schedule(w, r, topology, version) ==
  LET ws == System[w.name]
      cs == ClusterSystem(r)
      fits == _check_workload_size_fits(w, r)
  IN  IF r = NoRecord THEN "AVAILABLE"
      ELSE IF _is_cluster_set_up_for_nap(w, r)
      THEN If(get_total_chips_requested_from_args(ws, w.count) <= r.max,
              "AVAILABLE")
      ELSE IF cs # None
              /\ _check_super_slicing_availability(w, cs, topology, version)
      THEN If(fits /\ _check_super_slicing_topology(w), "SUPER")
      ELSE IF r.kind = "sized" /\ r.type = ws.device_type
      THEN If(fits, "AVAILABLE")
      ELSE IF cs # None
              /\ _check_sub_slicing_availability(w, cs, topology, version)
      THEN If(fits, "SUB")
      ELSE "UNAVAILABLE"

-----------------------------------------------------------------------------
(* What is submitted.                                                      *)

(* Node pools and workloads name the placement policy alike.                *)
PlacementPolicy(system, super) ==
  IF system.policy /\ system.topology # <<>>
  THEN <<system.device_type, system.topology, super>> ELSE <<>>

(* The JobSet: the nodes it selects, and what the queue must grant.          *)
JobSetOf(w, m, r) ==
  LET ws == System[w.name]
      labelled == IF m = "SUB" /\ ClusterSystem(r) # None THEN ClusterSystem(r) ELSE ws
  IN  [mode |-> m, request |-> w,
       selector |-> IF ws.kind = "TPU" /\ m # "SUPER" THEN labelled.topology
                    ELSE <<>>,
       level |-> IF m = "SUB" THEN ws.topology ELSE <<>>,
       policy |-> IF m = "AVAILABLE" THEN PlacementPolicy(ws, FALSE) ELSE <<>>,
       onePoolPerReplica |-> ws.kind = "TPU" /\ m = "AVAILABLE"]

(* Whether Kueue can admit the JobSet j and GKE place its pods, on the        *)
(* cluster c alone: the quota, the labels of the nodes and the room.         *)
Chips(j) ==
  get_total_chips_requested_from_args(System[j.request.name], j.request.count)

Room(j, c) ==
  LET ws == System[j.request.name]
  IN  IF j.mode = "SUB"
      THEN j.request.count
             <= c.count * (get_topology_product(Sys(c).topology)
                             \div get_topology_product(ws.topology))
      ELSE IF j.onePoolPerReplica
      THEN j.request.count <= c.count /\ ws.vms = Sys(c).vms
      ELSE VmsOf(ws, j.request.count) <= VmsOf(Sys(c), c.count)

WholeCubes(t) == Len(t) = 3 /\ \A i \in DOMAIN t : t[i] % 4 = 0

CanRun(j, c, q) ==
  LET ws == System[j.request.name]
  IN  /\ ws.accelerator = Sys(c).accelerator /\ ws.kind = Sys(c).kind
      /\ Chips(j) <= q.quota
      /\ IF c.nap > 0 THEN Chips(j) <= c.nap
         ELSE /\ j.selector \in {<<>>, Sys(c).topology}
              /\ ws.kind # "TPU" => ws.device_type = Sys(c).device_type
              /\ j.level = <<>> \/ j.level \in q.levels
              /\ j.mode = "SUPER" => c.slicing = "super" /\ WholeCubes(ws.topology)
              /\ j.policy \in {<<>>, PlacementPolicy(Sys(c), c.slicing = "super")}
              /\ Room(j, c)

-----------------------------------------------------------------------------
(* Limits of the decision.                                                 *)

(* The ConfigMap tells the size of the slices but not their shape, and a      *)
(* sub-slice need not be part of a slice of the cluster.                    *)
ShapeUnknown(w, m, c) ==
  \/ m = "AVAILABLE" /\ c.nap = 0 /\ System[w.name].topology # Sys(c).topology
  \/ m = "SUB"
       /\ ~ is_topology_contained(System[w.name].topology, Sys(c).topology)

(* GPU clusters are recorded as if they did not grow, and nothing keeps the   *)
(* maximum of autoprovisioning, which is Kueue's quota, above their size.      *)
GrowsUnseen(c) == c.nap > 0 /\ Sys(c).kind = "GPU"

QuotaBelowSize(c) ==
  GrowsUnseen(c) /\ c.nap < get_total_chips_requested_from_args(Sys(c), c.count)

(* The node pools made for super-slicing take no ordinary workload, and an     *)
(* old Kueue that others manage gets no other.                              *)
PolicyUnknown(m, c) == m = "AVAILABLE" /\ c.slicing = "super" /\ c.oldKueue

(* The ways in which a workload could be submitted.                         *)
Modes == {"AVAILABLE", "SUB", "SUPER"}

Init ==
  /\ cluster \in Clusters
  /\ record \in {RecordFor(cluster), NoRecord}
  /\ queue = QueueFor(cluster)
  /\ job \in {NoJob, [mode |-> "old"]}
  /\ pc = "idle" /\ req = CHOOSE w \in Requests : TRUE
  /\ seen = NoRecord /\ mode = "UNAVAILABLE" /\ clear = TRUE /\ rc = 0
  /\ adapt = Idle /\ runs = 0 /\ resizes = 0

Exit(status) == pc' = "done" /\ rc' = status
Server == <<cluster, record, queue, adapt, resizes>>

(* A workload create begins; the user agrees to overwrite or does not.       *)
Begin(w) ==
  /\ pc \in {"idle", "done"} /\ runs < MaxRuns
  /\ runs' = runs + 1 /\ req' = w
  /\ seen' = NoRecord /\ mode' = "UNAVAILABLE" /\ clear' = TRUE
  /\ IF job = NoJob THEN pc' = "read" /\ rc' = 0
     ELSE pc' = "exists" /\ rc' = 0
  /\ UNCHANGED <<job, Server>>

Overwrite ==
  /\ pc = "exists"
  /\ \/ job' = NoJob /\ pc' = "read" /\ UNCHANGED rc
     \/ Flaky /\ Exit(1) /\ UNCHANGED job
     \/ Exit(1) /\ UNCHANGED job     \* the user refuses
  /\ UNCHANGED <<req, seen, mode, clear, runs, Server>>

(* A ConfigMap that cannot be read is taken for one that is not there.        *)
ReadRecord ==
  /\ pc = "read" /\ pc' = "decide"
  /\ seen' \in {record} \cup (IF Flaky THEN {NoRecord} ELSE {})
  /\ clear' = Settled
  /\ UNCHANGED <<req, mode, rc, job, runs, Server>>

Decide ==
  /\ pc = "decide"
  /\ \E topology \in {queue.topology} \cup (IF Flaky THEN {"failed"} ELSE {}),
        known \in {TRUE} \cup (IF Flaky THEN {FALSE} ELSE {}) :
       LET m == check_if_workload_can_schedule(
                  req, seen, topology, ~ known \/ ~ cluster.oldKueue)
       IN  /\ mode' = m
           /\ clear' = (clear /\ topology # "failed" /\ known)
           /\ IF m = "UNAVAILABLE" THEN Exit(1) ELSE pc' = "nap" /\ UNCHANGED rc
  /\ UNCHANGED <<req, seen, job, runs, Server>>

(* is_autoprovisioning_enabled reads the ConfigMap again; the capacity type   *)
(* or the reservation may then not be found.                               *)
NapArguments ==
  /\ pc = "nap"
  /\ \/ pc' = "render" /\ UNCHANGED rc
     \/ Flaky /\ _is_cluster_set_up_for_nap(req, record) /\ Exit(1)
  /\ UNCHANGED <<req, seen, mode, clear, job, runs, Server>>

PathwaysMissing ==
  req.pathways /\ (~ cluster.cpuPool \/ System[req.name].kind # "TPU")

(* Names, schedulers and prerequisites that stop the run this late; so does   *)
(* a GPU workload for which the ConfigMap does not tell the system of the     *)
(* cluster (is_GPU_TAS_possible).  Policies that cannot be made raise.       *)
Render ==
  /\ pc = "render"
  /\ IF \/ mode = "SUPER" /\ req.longName
        \/ System[req.name].kind = "GPU"
             /\ (req.scheduler = "other" \/ ClusterSystem(seen) = None)
        \/ System[req.name].kind # "GPU" /\ PathwaysMissing
     THEN Exit(1)
     ELSE \/ pc' = "apply" /\ UNCHANGED rc
          \/ /\ Flaky /\ mode = "AVAILABLE"
             /\ PlacementPolicy(System[req.name], FALSE) # <<>> /\ Exit(1)
  /\ UNCHANGED <<req, seen, mode, clear, job, runs, Server>>

Apply ==
  /\ pc = "apply"
  /\ \/ /\ job' = JobSetOf(req, mode, seen)
        /\ Exit(0)
     \/ Flaky /\ Exit(1) /\ UNCHANGED job
  /\ UNCHANGED <<req, seen, mode, clear, runs, Server>>

(* Another xpk resizes the cluster: node pools, ConfigMap, queue.            *)
Resize(n) ==
  /\ adapt = Idle /\ resizes < MaxResizes
  /\ cluster.nap = 0
  /\ adapt' = [step |-> "record", count |-> n] /\ resizes' = resizes + 1
  /\ cluster' = [cluster EXCEPT !.count = n]
  /\ clear' = FALSE
  /\ UNCHANGED <<record, queue, job, pc, req, seen, mode, rc, runs>>

WriteRecord ==
  /\ adapt.step = "record"
  /\ record' = RecordFor(cluster)
  /\ adapt' = [adapt EXCEPT !.step = "queue"]
  /\ UNCHANGED <<cluster, queue, job, run, runs, resizes>>

WriteQueue ==
  /\ adapt.step = "queue"
  /\ queue' = QueueFor(cluster)
  /\ adapt' = Idle
  /\ UNCHANGED <<cluster, record, job, run, runs, resizes>>

Interrupt ==
  /\ Flaky /\ adapt # Idle
  /\ adapt' = Idle
  /\ UNCHANGED <<cluster, record, queue, job, run, runs, resizes>>

Next ==
  \/ \E w \in Requests : Begin(w)
  \/ Overwrite \/ ReadRecord \/ Decide \/ NapArguments \/ Render \/ Apply
  \/ \E n \in Resizes : Resize(n)
  \/ WriteRecord \/ WriteQueue \/ Interrupt

Spec == Init /\ [][Next]_vars

-----------------------------------------------------------------------------
(* Properties.                                                             *)

(* A workload that was accepted while the cluster was settled and every query *)
(* was answered can be admitted and placed: its accelerator, the labels of    *)
(* the nodes, the sub-slice level, the placement policy, the quota of the     *)
(* queue and the room are there.  Except for shapes, policies and quotas that  *)
(* the ConfigMap does not tell.                                             *)
AcceptedCanRun ==
  pc = "done" /\ rc = 0 /\ clear /\ seen # NoRecord =>
    \/ CanRun(job, cluster, queue)
    \/ ShapeUnknown(req, job.mode, cluster) \/ PolicyUnknown(job.mode, cluster)
    \/ QuotaBelowSize(cluster)

(* A workload that was refused under the same conditions could not be run in  *)
(* any mode: the decision never turns away what the cluster has room for.     *)
RefusedCannotRun ==
  pc = "done" /\ mode = "UNAVAILABLE" /\ clear /\ seen # NoRecord
    /\ ~ GrowsUnseen(cluster) =>
    \A m \in Modes :
      \/ ~ CanRun(JobSetOf(req, m, record), cluster, queue)
      \/ m \in {"SUB", "SUPER"} /\ cluster.oldKueue

(* What the ConfigMap records of a cluster, its device type, names a system   *)
(* of the same accelerator, slices and machines: the tables agree with        *)
(* themselves for every name a cluster can be created with.                 *)
RecordNamesTheSystem ==
  record = RecordFor(cluster) /\ record.kind = "sized" =>
    LET cs == ClusterSystem(record)
    IN  /\ cs # None
        /\ \A f \in {"kind", "device_type", "accelerator", "vms", "chips",
                     "containers", "policy", "tas"} : cs[f] = Sys(cluster)[f]
        /\ cluster.name.topology = <<>> => cs = Sys(cluster)
=============================================================================
