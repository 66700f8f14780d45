------------------------------ MODULE NodePools ------------------------------
(***************************************************************************)
(* Repeated runs of `xpk cluster create` on one cluster, seen from its     *)
(* node pools: every run lists the node pools, plans deletions and         *)
(* creations, executes them with parallel gcloud commands and records the  *)
(* result in two ConfigMaps.  Nothing survives a run but what gcloud and   *)
(* kubectl stored; a failed or killed run is repaired by the next one.     *)
(*                                                                         *)
(*   pc        action(s)                       code                        *)
(*   cluster   EnsureCluster                   create_cluster_if_necessary *)
(*   plan      Plan, RejectZone                nodepool.py 72-186          *)
(*   consent   AgreeToDelete, RefuseToDelete   nodepool.py 191-201         *)
(*   delete    DeletePool, DeletesDone         nodepool.py 202-215         *)
(*   wi        NoMetadataUpdate, Agree.., Refuse..   nodepool.py 218-227   *)
(*   update    UpdatePool, UpdatesDone         nodepool.py 228-242         *)
(*   reset     ResetRecord                     nodepool.py 247-260         *)
(*   prepare   Prepare, RejectCapacity         nodepool.py 278-328         *)
(*   create    CreatePool, CreatesDone         nodepool.py 330-443         *)
(*   record    ApplyConfigMap, RecordsDone     resources.py 116-215        *)
(*   rest      Finish                          the steps after ConfigMaps  *)
(***************************************************************************)
EXTENDS Naturals, Sequences, FiniteSets

CONSTANTS
  NpNames,        \* "{cluster}-np-0", "{cluster}-np-1", ... : a finite sequence
  Legacy,         \* OLDER_PATHWAYS_CPU_NP_TO_DELETE
  CpuNp,          \* "cpu-np", the Pathways CPU pool
  DefaultPool,    \* the pool GKE creates with the cluster
  DeviceTypes,    \* system.device_type of the systems a user may ask for
  DeviceTypeOf,   \* names users write -> device types (v6e-4x4 -> v6e-16)
  CpuType,        \* machine type of the pools that are not "{cluster}-np-i"
  Zones,
  ArgChoices,     \* the command lines users try
  Absent,         \* no such pool
  NoRecord,       \* the resources ConfigMap does not exist
  MaxFaults,      \* bound: failed commands, crashes and refused prompts
  SameTypeRetry,  \* after a failed run the user asks for the same device type
  Killable,       \* a gcloud child may be ended by a signal
  FlakyReads      \* `kubectl get configmap` may fail in a run that goes on

Np == {NpNames[i] : i \in DOMAIN NpNames}
Names == Np \cup Legacy \cup {CpuNp, DefaultPool}
TypeNames == DOMAIN DeviceTypeOf
Types == DeviceTypes \cup {CpuType}
Pool == [type : Types, zone : Zones, gkeMeta : BOOLEAN]
Capacity == {"known", "UNKNOWN"}
ConfigMaps == {"resources", "metadata"}

(* The arguments that decide what a run does to the node pools; `name` is   *)
(* the device type as it was written, `type` the one of its system.         *)
Args == [name : TypeNames, type : DeviceTypes, count : 1 .. Len(NpNames), zone : Zones,
         wi : BOOLEAN, pathways : BOOLEAN, ignore : BOOLEAN,
         capacity : Capacity]

Record == [type : TypeNames, slices : 0 .. Len(NpNames)]

ASSUME NodePoolsAssumption ==
  /\ Len(NpNames) \in Nat /\ NpNames \in Seq(Np)
  /\ \A i, j \in DOMAIN NpNames : NpNames[i] = NpNames[j] => i = j
  /\ Np \cap Legacy = {} /\ {CpuNp, DefaultPool} \cap (Np \cup Legacy) = {}
  /\ CpuNp # DefaultPool
  /\ Names \cap ConfigMaps = {}
  /\ CpuType \notin DeviceTypes
  /\ DeviceTypeOf \in [TypeNames -> DeviceTypes] /\ DeviceTypes \subseteq TypeNames
  /\ \A t \in DeviceTypes : DeviceTypeOf[t] = t
  /\ ArgChoices \subseteq Args /\ ArgChoices # {}
  /\ \A a \in ArgChoices : a.type = DeviceTypeOf[a.name]
  /\ Absent \notin Pool /\ NoRecord \notin Record
  /\ MaxFaults \in Nat
  /\ {SameTypeRetry, Killable, FlakyReads} \subseteq BOOLEAN

VARIABLES
  pools,     \* the cluster's node pools (server side)
  clusterWI, \* Workload Identity enabled on the cluster (server side)
  recorded,  \* the resources ConfigMap (server side)
  capacity,  \* capacity_type in the metadata ConfigMap (server side)
  pc, args,  \* where the current run is, and its arguments
  plan,      \* what the run computed from its listing
  pending,   \* commands of the current batch that have not ended
  reported,  \* run_commands has a FailedCommand for this batch
  refused,   \* the prompt for the metadata update was answered "no"
  faults     \* faults left

server == <<pools, clusterWI, recorded, capacity>>
vars == <<pools, clusterWI, recorded, capacity, pc, args, plan, pending,
          reported, refused, faults>>

Plans == [desired : SUBSET Np, doomed : SUBSET Names, remain : SUBSET Np,
          update : SUBSET Names]
NoPlan == [desired |-> {}, doomed |-> {}, remain |-> {}, update |-> {}]

Present == {p \in Names : pools[p] # Absent}
PresentNp == Present \cap Np

Stopped == {"idle", "failed", "ok"}
Running == {"cluster", "plan", "consent", "delete", "wi", "update", "reset",
            "prepare", "create", "record", "rest"}
-----------------------------------------------------------------------------
(* What a run computes.  A definition whose comment starts with WRONG is a  *)
(* plausible mistake in the one after it; no specification uses it.        *)

Smaller(m, n) == IF m < n THEN m ELSE n

(* WRONG: always the lowest indices, whatever is listed.                    *)
LowestIndices(existing, count) == {{NpNames[i] : i \in 1 .. count}}

(* The pools a run wants: the first `count` listed ones that carry the      *)
(* prefix, in whatever order gcloud lists them, topped up with the lowest   *)
(* free indices.                                                           *)
DesiredSets(existing, count) ==
  {d \in SUBSET Np :
     /\ Cardinality(d) = count
     /\ \E kept \in SUBSET existing, k \in 0 .. Len(NpNames) :
          /\ Cardinality(kept) = Smaller(count, Cardinality(existing))
          /\ d = kept \cup {NpNames[i] : i \in 1 .. k}}

(* check_cluster_resources: without the ConfigMap there is nothing to check. *)
OtherTypeRecorded == recorded # NoRecord /\ recorded.type # args.type

(* WRONG: the device type is not compared.                                  *)
PoolsBeyondRequest(desired, check) ==
  (Present \cap Legacy) \cup (PresentNp \ desired)

(* get_node_pools_to_delete *)
PoolsToDelete(desired, check) ==
  (Present \cap Legacy) \cup
  (IF check /\ OtherTypeRecorded THEN PresentNp ELSE PresentNp \ desired)

(* WRONG: pools without the prefix count as remaining.                      *)
AnyPoolRemains(doomed) == Present \ doomed

(* WRONG: remaining pools are not subtracted from what is to be created.    *)
NoPoolRemains(doomed) == {}

PoolsToRemain(doomed) == PresentNp \ doomed

(* WRONG: only "-np-" pools are moved to the metadata server.               *)
NpPoolsToUpdate(doomed) ==
  {p \in PresentNp \ doomed : args.wi /\ ~ pools[p].gkeMeta}

PoolsToUpdate(doomed) ==
  {p \in Present \ doomed : args.wi /\ ~ pools[p].gkeMeta}

PlanFor(desired, check) ==
  LET doomed == PoolsToDelete(desired, check) IN
  [desired |-> desired, doomed |-> doomed,
   remain |-> PoolsToRemain(doomed), update |-> PoolsToUpdate(doomed)]

(* WRONG: the zone of existing pools is not looked at.                      *)
AnyZoneAccepted == TRUE

(* The zone of the first listed pool decides.                              *)
ZoneAccepted == \E first \in Present : pools[first].zone = args.zone
ZoneRejected == \E first \in Present : pools[first].zone # args.zone

(* WRONG: failed creations are never looked at.                             *)
CreateErrorsDropped == FALSE

CreateFailed == reported /\ ~ args.ignore

(* A pool as GKE makes it for this run; pools of a cluster with Workload    *)
(* Identity use the GKE metadata server.                                   *)
NewPool(p) == [type |-> IF p \in Np THEN args.type ELSE CpuType,
               zone |-> args.zone, gkeMeta |-> clusterWI]

(* The pool that comes with a new cluster.                                 *)
NewDefaultPool == [type |-> CpuType, zone |-> args.zone, gkeMeta |-> args.wi]

(* Enabled when the cluster is created, or later on the existing one; no     *)
(* run disables it.                                                        *)
WorkloadIdentity == clusterWI \/ args.wi

PoolsToCreate ==
  (plan.desired \ plan.remain) \cup
  (IF args.pathways /\ CpuNp \notin Present THEN {CpuNp} ELSE {})

Fault == faults > 0 /\ faults' = faults - 1

(* The run ends; the next listing starts from what the server stores.      *)
Exit(result) == pc' = result /\ pending' = {} /\ reported' = FALSE

Goto(label) == pc' = label /\ UNCHANGED <<pending, reported>>

(* run_commands starts one child per command.                              *)
Dispatch(label, commands) ==
  pc' = label /\ pending' = commands /\ reported' = FALSE

(* A child ends.  Exit status 0 means the effect took place; any other end  *)
(* leaves open whether it did.  Only a positive status is reported.        *)
ChildEnds(c, Effect, NoEffect) ==
  /\ pending' = pending \ {c}
  /\ \/ Effect /\ UNCHANGED <<reported, faults>>
     \/ Fault /\ (Effect \/ NoEffect) /\ reported' = TRUE
     \/ Killable /\ Fault /\ (Effect \/ NoEffect) /\ UNCHANGED reported
-----------------------------------------------------------------------------
(* One run.                                                                *)

Start ==
  /\ pc \in Stopped
  /\ \E a \in ArgChoices :
       /\ pc = "failed" /\ SameTypeRetry => a.type = args.type
       /\ args' = a
  /\ Goto("cluster")
  /\ plan' = NoPlan /\ refused' = FALSE
  /\ UNCHANGED <<server, faults>>

EnsureCluster ==
  /\ pc = "cluster"
  /\ clusterWI' = WorkloadIdentity
  /\ pools' = IF pools[DefaultPool] = Absent
                THEN [pools EXCEPT ![DefaultPool] = NewDefaultPool]
                ELSE pools
  /\ Goto("plan")
  /\ UNCHANGED <<recorded, capacity, args, plan, refused, faults>>

RejectZone ==
  /\ pc = "plan"
  /\ ZoneRejected
  /\ Exit("failed")
  /\ UNCHANGED <<server, args, plan, refused, faults>>

(* A ConfigMap that cannot be read is taken for one that does not exist.    *)
Plan ==
  /\ pc = "plan"
  /\ ZoneAccepted
  /\ \E desired \in DesiredSets(PresentNp, args.count) :
       \/ plan' = PlanFor(desired, TRUE) /\ UNCHANGED faults
       \/ FlakyReads /\ Fault /\ plan' = PlanFor(desired, FALSE)
  /\ Goto("consent")
  /\ UNCHANGED <<server, args, refused>>

AgreeToDelete ==
  /\ pc = "consent"
  /\ Dispatch("delete", plan.doomed)
  /\ UNCHANGED <<server, args, plan, refused, faults>>

RefuseToDelete ==
  /\ pc = "consent"
  /\ plan.doomed # {}
  /\ Fault
  /\ Exit("failed")
  /\ UNCHANGED <<server, args, plan, refused>>

DeletePool(p) ==
  /\ pc = "delete" /\ p \in pending
  /\ ChildEnds(p, pools' = [pools EXCEPT ![p] = Absent], pools' = pools)
  /\ UNCHANGED <<clusterWI, recorded, capacity, pc, args, plan, refused>>

DeletesDone ==
  /\ pc = "delete" /\ pending = {}
  /\ IF reported THEN Exit("failed") ELSE Goto("wi")
  /\ UNCHANGED <<server, args, plan, refused, faults>>

NoMetadataUpdate ==
  /\ pc = "wi" /\ plan.update = {}
  /\ Goto("prepare")
  /\ UNCHANGED <<server, args, plan, refused, faults>>

AgreeToUpdate ==
  /\ pc = "wi" /\ plan.update # {}
  /\ Dispatch("update", plan.update)
  /\ UNCHANGED <<server, args, plan, refused, faults>>

RefuseToUpdate ==
  /\ pc = "wi" /\ plan.update # {}
  /\ Fault
  /\ refused' = TRUE
  /\ Goto("reset")
  /\ UNCHANGED <<server, args, plan>>

UpdatePool(p) ==
  /\ pc = "update" /\ p \in pending
  /\ ChildEnds(p, pools' = [pools EXCEPT ![p].gkeMeta = TRUE], pools' = pools)
  /\ UNCHANGED <<clusterWI, recorded, capacity, pc, args, plan, refused>>

UpdatesDone ==
  /\ pc = "update" /\ pending = {}
  /\ IF reported THEN Exit("failed") ELSE Goto("reset")
  /\ UNCHANGED <<server, args, plan, refused, faults>>

(* Reached only when some pool needed a metadata update.  What is written   *)
(* is the name the user wrote; ConfigMaps are read, and written at the end,  *)
(* by device type.                                                         *)
ResetRecord ==
  /\ pc = "reset"
  /\ \/ /\ recorded' = IF plan.remain = {}
                           THEN [type |-> args.name, slices |-> 0] ELSE recorded
        /\ UNCHANGED faults
     \/ Killable /\ Fault /\ UNCHANGED recorded
  /\ Goto("prepare")
  /\ UNCHANGED <<pools, clusterWI, capacity, args, plan, refused>>

(* get_capacity_arguments_from_capacity_type knows no UNKNOWN.             *)
RejectCapacity ==
  /\ pc = "prepare"
  /\ args.capacity = "UNKNOWN" /\ plan.desired \ plan.remain # {}
  /\ Exit("failed")
  /\ UNCHANGED <<server, args, plan, refused, faults>>

Prepare ==
  /\ pc = "prepare"
  /\ args.capacity = "UNKNOWN" => plan.desired \ plan.remain = {}
  /\ Dispatch("create", PoolsToCreate)
  /\ UNCHANGED <<server, args, plan, refused, faults>>

(* Creating a pool whose name is taken fails.                              *)
CreatePool(p) ==
  /\ pc = "create" /\ p \in pending
  /\ \/ /\ pools[p] = Absent
        /\ ChildEnds(p, pools' = [pools EXCEPT ![p] = NewPool(p)],
                        pools' = pools)
     \/ /\ pools[p] # Absent
        /\ pending' = pending \ {p} /\ reported' = TRUE
        /\ UNCHANGED <<pools, faults>>
  /\ UNCHANGED <<clusterWI, recorded, capacity, pc, args, plan, refused>>

CreatesDone ==
  /\ pc = "create" /\ pending = {}
  /\ IF CreateFailed THEN Exit("failed") ELSE Dispatch("record", ConfigMaps)
  /\ UNCHANGED <<server, args, plan, refused, faults>>

(* The two `kubectl apply` of create_cluster_configmaps run in parallel.   *)
ApplyConfigMap(c) ==
  /\ pc = "record" /\ c \in pending
  /\ \/ /\ c = "resources"
        /\ ChildEnds(c, recorded' = [type |-> args.type,
                                     slices |-> args.count],
                        recorded' = recorded)
        /\ UNCHANGED capacity
     \/ /\ c = "metadata"
        /\ ChildEnds(c, capacity' = args.capacity, capacity' = capacity)
        /\ UNCHANGED recorded
  /\ UNCHANGED <<pools, clusterWI, pc, args, plan, refused>>

RecordsDone ==
  /\ pc = "record" /\ pending = {}
  /\ IF reported THEN Exit("failed") ELSE Goto("rest")
  /\ UNCHANGED <<server, args, plan, refused, faults>>

Finish ==
  /\ pc = "rest"
  /\ Exit("ok")
  /\ UNCHANGED <<server, args, plan, refused, faults>>

(* Any other command of the run fails, or xpk itself is killed.  Children   *)
(* that ended before have had their effect.                                *)
Abort ==
  /\ pc \in Running
  /\ Fault
  /\ Exit("failed")
  /\ UNCHANGED <<server, args, plan, refused>>
-----------------------------------------------------------------------------
OldPool(t, z) == [type |-> t, zone |-> z, gkeMeta |-> FALSE]

(* A cluster nobody created yet, or one an older xpk made for Pathways.     *)
InitServer ==
  \/ /\ pools = [p \in Names |-> Absent]
     /\ clusterWI = FALSE /\ recorded = NoRecord
  \/ \E t \in DeviceTypes, z \in Zones, i \in DOMAIN NpNames :
       /\ Legacy # {}
       /\ pools = [p \in Names |->
                     IF p = NpNames[i] THEN OldPool(t, z)
                     ELSE IF p \in Legacy \cup {DefaultPool}
                            THEN OldPool(CpuType, z)
                     ELSE Absent]
       /\ clusterWI = FALSE
       /\ recorded = [type |-> t, slices |-> 1]

Init ==
  /\ InitServer
  /\ capacity = "known"
  /\ pc = "idle" /\ args \in ArgChoices /\ plan = NoPlan
  /\ pending = {} /\ reported = FALSE /\ refused = FALSE
  /\ faults = MaxFaults

RunStep ==
  \/ EnsureCluster \/ RejectZone \/ Plan \/ AgreeToDelete \/ DeletesDone
  \/ NoMetadataUpdate \/ AgreeToUpdate \/ UpdatesDone \/ ResetRecord
  \/ RejectCapacity \/ Prepare \/ CreatesDone \/ RecordsDone \/ Finish
  \/ \E p \in pending : DeletePool(p) \/ UpdatePool(p) \/ CreatePool(p)
  \/ \E c \in pending : ApplyConfigMap(c)

Next == Start \/ RunStep \/ RefuseToDelete \/ RefuseToUpdate \/ Abort

Spec == Init /\ [][Next]_vars

(* A run goes on until it ends, and a failed run is started again.          *)
FairSpec == Spec /\ WF_vars(RunStep) /\ WF_vars(Start)
-----------------------------------------------------------------------------
(* Types of all variables, in every state of every run.                    *)
TypeOK ==
  /\ pools \in [Names -> Pool \cup {Absent}]
  /\ clusterWI \in BOOLEAN
  /\ recorded \in Record \cup {NoRecord}
  /\ capacity \in Capacity
  /\ pc \in Stopped \cup Running
  /\ args \in Args
  /\ plan \in Plans
  /\ pending \subseteq Names \cup ConfigMaps
  /\ reported \in BOOLEAN /\ refused \in BOOLEAN
  /\ faults \in 0 .. MaxFaults

(* When cluster create returns 0, the "-np-" pools are exactly the number   *)
(* of slices asked for (unless creation errors were to be ignored), all of  *)
(* them have the requested device type, whatever earlier runs were          *)
(* interrupted, and the ConfigMaps say what is there.                      *)
SuccessIsExact ==
  pc = "ok" =>
    /\ \A p \in PresentNp : pools[p].type = args.type
    /\ ~ args.ignore => Cardinality(PresentNp) = args.count
    /\ recorded = [type |-> args.type, slices |-> args.count]
    /\ capacity = args.capacity

(* All pools are in one zone: a run for another zone is rejected before it  *)
(* creates anything, although only the first listed pool is looked at.      *)
ZonesAgree ==
  \A p, q \in Present : pools[p].zone = pools[q].zone

(* A run that asked for Workload Identity, was not refused the update of    *)
(* existing pools and returned 0 leaves every pool on the metadata server.  *)
MetadataEverywhere ==
  pc = "ok" /\ args.wi /\ ~ refused =>
    \A p \in Present : pools[p].gkeMeta

(* What the record says of the pools that are there.                        *)
OtherSystemRecorded ==
  recorded # NoRecord /\ DeviceTypeOf[recorded.type] # args.type
HalfwayReset ==
  recorded # NoRecord /\ recorded.type \notin DeviceTypes /\ recorded.slices = 0

(* A run never takes the cluster below the number of slices it was asked    *)
(* for, but for two records: one of another system, whose pools have to go,  *)
(* and the one a run left that was interrupted between resetting the record  *)
(* and writing it.  The latter names the system the way the user wrote it,   *)
(* and where that is not its device type every retry takes the pools for     *)
(* those of another system and deletes them all, the ones it asks for too.   *)
DeletesOnlySurplus ==
  [][(\E p \in Np : pools[p] # Absent /\ pools'[p] = Absent)
       => \/ OtherSystemRecorded \/ HalfwayReset
          \/ Cardinality({p \in Np : pools'[p] # Absent}) >= args.count]_vars

(* Calling cluster create again retries failed steps: while runs fail only  *)
(* finitely often, one of them returns 0, again and again.                  *)
Recovers == []<>(pc = "ok")

(* The promise to the user, without the plan: module SliceRequest.          *)
StatusOf == IF pc \in Stopped THEN pc ELSE "running"
FleetOf == [t \in DeviceTypes |->
              Cardinality({p \in PresentNp : pools[p].type = t})]
Promise == INSTANCE SliceRequest
  WITH MaxSlices <- Len(NpNames), status <- StatusOf, fleet <- FleetOf,
       request <- [name |-> args.name, type |-> args.type,
                   count |-> args.count, exact |-> ~ args.ignore]
KeepsPromise == Promise!Spec
=============================================================================
