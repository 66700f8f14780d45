-------------------------- MODULE NodePoolsProofs --------------------------
(***************************************************************************)
(* Proofs about NodePools for every number of pools, types and zones and   *)
(* any number of faults.                                                   *)
(***************************************************************************)
EXTENDS NodePools, TLAPS, FiniteSetTheorems

PlanPhases == {"consent", "delete", "wi", "update", "reset", "prepare",
               "create"}

(* What the batches work on: only "-np-" and legacy pools are deleted, and  *)
(* a pool that is to be updated is there until the update is over.          *)
BatchInv ==
  /\ pc \in {"consent", "delete"} => plan.doomed \subseteq Np \cup Legacy
  /\ pc \in {"consent", "delete", "wi", "update"} =>
       /\ plan.update \subseteq Present
       /\ plan.update \cap plan.doomed = {}
  /\ pc = "delete" => pending \subseteq plan.doomed
  /\ pc = "update" => pending \subseteq plan.update

TypeInv == TypeOK /\ BatchInv

(* The default pool is the witness of the cluster's zone: it is created     *)
(* first and never deleted, and a run gets past its zone check only if it    *)
(* asks for that zone.                                                     *)
ZoneInv ==
  /\ ZonesAgree
  /\ DefaultPool \in Present \/ Present = {}
  /\ pc \in PlanPhases \cup {"plan"} => DefaultPool \in Present
  /\ pc \in PlanPhases => pools[DefaultPool].zone = args.zone

(* Between runs a pool of the wrong type is one the record tells about.     *)
KnownTypes ==
  \A p \in PresentNp :
    \/ pc # "idle" /\ pools[p].type = args.type
    \/ recorded # NoRecord /\ pools[p].type = recorded.type

RightTypes == \A p \in PresentNp : pools[p].type = args.type

PlanInv ==
  pc \in PlanPhases =>
    /\ Cardinality(plan.desired) = args.count
    /\ plan.remain \subseteq plan.desired
    /\ plan.remain \subseteq PresentNp
    /\ plan.remain \cap plan.doomed = {}
    /\ \A p \in plan.remain : pools[p].type = args.type

DeleteInv ==
  /\ pc = "consent" => PresentNp \subseteq plan.remain \cup plan.doomed
  /\ pc = "delete" /\ ~ reported => PresentNp \subseteq plan.remain \cup pending
  /\ pc \in {"wi", "update", "reset", "prepare"} => PresentNp = plan.remain

CreateInv ==
  pc = "create" =>
    /\ RightTypes
    /\ PresentNp \subseteq plan.desired
    /\ pending \cap Np \subseteq plan.desired
    /\ ~ reported => plan.desired \subseteq PresentNp \cup pending

RecordInv ==
  /\ pc \in {"record", "rest", "ok"} =>
       /\ RightTypes
       /\ ~ args.ignore => Cardinality(PresentNp) = args.count
  /\ pc = "record" /\ ~ reported =>
       /\ "resources" \in pending
            \/ recorded = [type |-> args.type, slices |-> args.count]
       /\ "metadata" \in pending \/ capacity = args.capacity
  /\ pc \in {"rest", "ok"} =>
       /\ recorded = [type |-> args.type, slices |-> args.count]
       /\ capacity = args.capacity

SuccessInv ==
  KnownTypes /\ PlanInv /\ DeleteInv /\ CreateInv /\ RecordInv
-----------------------------------------------------------------------------
(* NewPool is a pool, and the listing only names pools there are.           *)
LEMMA PoolFacts ==
  ASSUME TypeOK
  PROVE  /\ \A p : NewPool(p) \in Pool
         /\ \A p \in Present : p \in Names /\ pools[p] \in Pool
         /\ args.zone \in Zones /\ args.type \in DeviceTypes
BY DEF TypeOK, NewPool, Pool, Types, Present, Args

(* Every plan is a set of existing pools to delete and to update.           *)
LEMMA PlanFacts ==
  ASSUME TypeOK, NEW desired \in SUBSET Np, NEW check \in BOOLEAN
  PROVE  LET plan1 == PlanFor(desired, check) IN
         /\ plan1 \in Plans
         /\ plan1.desired = desired
         /\ plan1.doomed = PoolsToDelete(desired, check)
         /\ plan1.remain = PresentNp \ plan1.doomed
         /\ plan1.doomed \subseteq Np \cup Legacy
         /\ PresentNp \ desired \subseteq plan1.doomed
         /\ plan1.update \subseteq Present
         /\ plan1.update \cap plan1.doomed = {}
<1>1. /\ PoolsToDelete(desired, check) \subseteq Np \cup Legacy
      /\ PresentNp \ desired \subseteq PoolsToDelete(desired, check)
  BY DEF PoolsToDelete, PresentNp
<1>2. PoolsToUpdate(PoolsToDelete(desired, check))
        \subseteq Present \ PoolsToDelete(desired, check)
  BY DEF PoolsToUpdate
<1>3. PoolsToRemain(PoolsToDelete(desired, check))
        = PresentNp \ PoolsToDelete(desired, check)
  BY DEF PoolsToRemain
<1>4. Np \cup Legacy \subseteq Names /\ Present \subseteq Names
      /\ PresentNp \subseteq Np
  BY DEF Names, Present, PresentNp
<1> QED BY <1>1, <1>2, <1>3, <1>4 DEF PlanFor, Plans

(* DesiredSets are sets of "-np-" pools of the requested size.              *)
LEMMA DesiredFacts ==
  ASSUME NEW existing, NEW count, NEW d \in DesiredSets(existing, count)
  PROVE  d \in SUBSET Np /\ Cardinality(d) = count
BY DEF DesiredSets

-----------------------------------------------------------------------------
(* TypeInv holds at first.                                                   *)
LEMMA TypeInit == Init => TypeInv
<1> SUFFICES ASSUME Init PROVE TypeInv
  OBVIOUS
<1>1. pools \in [Names -> Pool \cup {Absent}]
      /\ recorded \in Record \cup {NoRecord}
  <2>1. CASE pools = [p \in Names |-> Absent] /\ recorded = NoRecord
    BY <2>1, NodePoolsAssumption
  <2>2. CASE \E t \in DeviceTypes, z \in Zones, i \in DOMAIN NpNames :
               /\ pools = [p \in Names |->
                             IF p = NpNames[i] THEN OldPool(t, z)
                             ELSE IF p \in Legacy \cup {DefaultPool}
                                    THEN OldPool(CpuType, z)
                             ELSE Absent]
               /\ recorded = [type |-> t, slices |-> 1]
    <3>1. PICK t \in DeviceTypes, z \in Zones, i \in DOMAIN NpNames :
            /\ pools = [p \in Names |->
                          IF p = NpNames[i] THEN OldPool(t, z)
                          ELSE IF p \in Legacy \cup {DefaultPool}
                                 THEN OldPool(CpuType, z)
                          ELSE Absent]
            /\ recorded = [type |-> t, slices |-> 1]
      BY <2>2
    <3>2. 1 \in 0 .. Len(NpNames)
      BY <3>1, NodePoolsAssumption
    <3>3. t \in TypeNames
      BY NodePoolsAssumption
    <3> QED BY <3>1, <3>2, <3>3 DEF OldPool, Pool, Types, Record
  <2> QED BY <2>1, <2>2 DEF Init, InitServer
<1>2. clusterWI \in BOOLEAN /\ capacity \in Capacity /\ plan \in Plans
  BY DEF Init, InitServer, Capacity, NoPlan, Plans
<1>3. args \in Args /\ faults \in 0 .. MaxFaults /\ pc = "idle" /\ pending = {}
      /\ reported = FALSE /\ refused = FALSE
  BY NodePoolsAssumption DEF Init
<1>4. TypeOK
  BY <1>1, <1>2, <1>3 DEF TypeOK, Stopped
<1> QED BY <1>3, <1>4 DEF TypeInv, BatchInv

(* Every action, by name: the proofs that a step preserves an invariant     *)
(* split on these.                                                         *)
LEMMA Steps ==
  ASSUME [Next]_vars
  PROVE  \/ UNCHANGED vars
         \/ Start \/ EnsureCluster \/ RejectZone \/ Plan
         \/ AgreeToDelete \/ RefuseToDelete \/ DeletesDone
         \/ \E p \in pending : DeletePool(p)
         \/ NoMetadataUpdate \/ AgreeToUpdate \/ RefuseToUpdate
         \/ UpdatesDone \/ \E p \in pending : UpdatePool(p)
         \/ ResetRecord \/ RejectCapacity \/ Prepare
         \/ \E p \in pending : CreatePool(p)
         \/ CreatesDone \/ \E c \in pending : ApplyConfigMap(c)
         \/ RecordsDone \/ Finish \/ Abort
BY DEF Next, RunStep

(* The bound on failures is kept.                                            *)
LEMMA FaultFacts ==
  ASSUME TypeOK, UNCHANGED faults \/ Fault
  PROVE  faults' \in 0 .. MaxFaults
<1>1. MaxFaults \in Nat
  BY NodePoolsAssumption
<1> QED BY <1>1 DEF TypeOK, Fault

(* Every step keeps TypeInv.                                                 *)
LEMMA TypeNext == TypeInv /\ [Next]_vars => TypeInv'
<1> SUFFICES ASSUME TypeInv, [Next]_vars PROVE TypeInv'
  OBVIOUS
<1> USE DEF TypeInv, Stopped, Running
<1>a. TypeOK
  BY DEF TypeInv
<1>1. ASSUME UNCHANGED vars PROVE TypeInv'
  BY <1>1 DEF vars, TypeOK, BatchInv, Present
<1>2. ASSUME Start PROVE TypeInv'
  <2>1. TypeOK'
    BY <1>2, NodePoolsAssumption
    DEF Start, Goto, server, TypeOK, NoPlan, Plans
  <2> QED BY <1>2, <2>1 DEF Start, Goto, BatchInv
<1>3. ASSUME EnsureCluster PROVE TypeInv'
  <2>1. pools' \in [Names -> Pool \cup {Absent}]
    BY <1>3, PoolFacts
      DEF EnsureCluster, NewDefaultPool, WorkloadIdentity, TypeOK,
        Pool, Types, Args
  <2> QED BY <1>3, <2>1
      DEF EnsureCluster, NewDefaultPool, WorkloadIdentity, Goto, TypeOK,
        BatchInv, Args
<1>4. ASSUME RejectZone PROVE TypeInv'
  BY <1>4 DEF RejectZone, Exit, server, TypeOK, BatchInv
<1>5. ASSUME Plan PROVE TypeInv'
  <2>1. PICK desired \in DesiredSets(PresentNp, args.count), check \in BOOLEAN :
          plan' = PlanFor(desired, check)
    BY <1>5 DEF Plan
  <2>2. desired \in SUBSET Np
    BY DesiredFacts
  <2>3. /\ plan' \in Plans
        /\ plan'.doomed \subseteq Np \cup Legacy
        /\ plan'.update \subseteq Present
        /\ plan'.update \cap plan'.doomed = {}
    BY <2>1, <2>2, PlanFacts
  <2>4. faults' \in 0 .. MaxFaults
    BY <1>5, <1>a, FaultFacts DEF Plan
  <2>5. Present' = Present
    BY <1>5 DEF Plan, server, Present
  <2> QED BY <1>5, <2>3, <2>4, <2>5 DEF Plan, Goto, server, TypeOK, BatchInv
<1>6. ASSUME AgreeToDelete PROVE TypeInv'
  BY <1>6 DEF AgreeToDelete, Dispatch, server, TypeOK, BatchInv, Plans, Present
<1>7. ASSUME RefuseToDelete PROVE TypeInv'
  BY <1>7, <1>a, FaultFacts
  DEF RefuseToDelete, Exit, server, TypeOK, BatchInv
<1>8. ASSUME DeletesDone PROVE TypeInv'
  BY <1>8 DEF DeletesDone, Exit, Goto, server, TypeOK, BatchInv, Present
<1>9. ASSUME NEW p \in pending, DeletePool(p) PROVE TypeInv'
  <2>1. TypeOK'
    BY <1>9, <1>a, FaultFacts DEF DeletePool, ChildEnds, TypeOK
  <2>2. p \in plan.doomed
    BY <1>9 DEF DeletePool, BatchInv
  <2>3. Present \ {p} \subseteq Present'
    BY <1>9 DEF DeletePool, ChildEnds, Present, TypeOK
  <2> QED BY <1>9, <2>1, <2>2, <2>3 DEF DeletePool, ChildEnds, BatchInv
<1>10. ASSUME NoMetadataUpdate PROVE TypeInv'
  BY <1>10 DEF NoMetadataUpdate, Goto, server, TypeOK, BatchInv
<1>11. ASSUME AgreeToUpdate PROVE TypeInv'
  BY <1>11 DEF AgreeToUpdate, Dispatch, server, TypeOK, BatchInv, Plans, Present
<1>12. ASSUME RefuseToUpdate PROVE TypeInv'
  BY <1>12, <1>a, FaultFacts
  DEF RefuseToUpdate, Goto, server, TypeOK, BatchInv
<1>13. ASSUME UpdatesDone PROVE TypeInv'
  BY <1>13 DEF UpdatesDone, Exit, Goto, server, TypeOK, BatchInv
<1>14. ASSUME NEW p \in pending, UpdatePool(p) PROVE TypeInv'
  <2>1. p \in Names /\ pools[p] \in Pool
    BY <1>14, PoolFacts, <1>a DEF UpdatePool, BatchInv
  <2>2. pools' \in [Names -> Pool \cup {Absent}] /\ Present' = Present
    <3>1. CASE pools' = pools
      BY <3>1 DEF TypeOK, Present
    <3>2. CASE pools' = [pools EXCEPT ![p].gkeMeta = TRUE]
      <4>1. [pools[p] EXCEPT !.gkeMeta = TRUE] \in Pool
        BY <2>1 DEF Pool
      <4>2. Absent \notin Pool
        BY NodePoolsAssumption
      <4> QED BY <2>1, <3>2, <4>1, <4>2 DEF TypeOK, Present
    <3> QED BY <1>14, <3>1, <3>2 DEF UpdatePool, ChildEnds
  <2>3. TypeOK'
    BY <1>14, <1>a, <2>2, FaultFacts DEF UpdatePool, ChildEnds, TypeOK
  <2> QED BY <1>14, <2>2, <2>3 DEF UpdatePool, ChildEnds, BatchInv
<1>15. ASSUME ResetRecord PROVE TypeInv'
  <2>1. recorded' \in Record \cup {NoRecord}
    BY <1>15, NodePoolsAssumption DEF ResetRecord, TypeOK, Record, Args
  <2>2. faults' \in 0 .. MaxFaults
    BY <1>15, <1>a, FaultFacts DEF ResetRecord
  <2> QED BY <1>15, <2>1, <2>2 DEF ResetRecord, Goto, TypeOK, BatchInv
<1>16. ASSUME RejectCapacity PROVE TypeInv'
  BY <1>16 DEF RejectCapacity, Exit, server, TypeOK, BatchInv
<1>17. ASSUME Prepare PROVE TypeInv'
  <2>1. PoolsToCreate \subseteq Names
    BY DEF PoolsToCreate, TypeOK, Plans, Names
  <2> QED BY <1>17, <2>1 DEF Prepare, Dispatch, server, TypeOK, BatchInv
<1>18. ASSUME NEW p \in pending, CreatePool(p) PROVE TypeInv'
  <2>1. pools' \in [Names -> Pool \cup {Absent}]
    BY <1>18, PoolFacts, <1>a DEF CreatePool, ChildEnds, TypeOK
  <2>2. faults' \in 0 .. MaxFaults
    BY <1>18, <1>a, FaultFacts DEF CreatePool, ChildEnds
  <2> QED
    BY <1>18, <2>1, <2>2 DEF CreatePool, ChildEnds, TypeOK, BatchInv
<1>19. ASSUME CreatesDone PROVE TypeInv'
  BY <1>19 DEF CreatesDone, Exit, Dispatch, server, TypeOK, BatchInv
<1>20. ASSUME NEW c \in pending, ApplyConfigMap(c) PROVE TypeInv'
  <2>1. recorded' \in Record \cup {NoRecord} /\ capacity' \in Capacity
    <3>1. args.count \in 0 .. Len(NpNames) /\ args.type \in TypeNames
          /\ args.capacity \in Capacity
      BY NodePoolsAssumption DEF TypeOK, Args
    <3> QED
      BY <1>20, <3>1 DEF ApplyConfigMap, ChildEnds, TypeOK, Record
  <2>2. faults' \in 0 .. MaxFaults
    BY <1>20, <1>a, FaultFacts DEF ApplyConfigMap, ChildEnds
  <2> QED
    BY <1>20, <2>1, <2>2 DEF ApplyConfigMap, ChildEnds, TypeOK, BatchInv
<1>21. ASSUME RecordsDone PROVE TypeInv'
  BY <1>21 DEF RecordsDone, Exit, Goto, server, TypeOK, BatchInv
<1>22. ASSUME Finish PROVE TypeInv'
  BY <1>22 DEF Finish, Exit, server, TypeOK, BatchInv
<1>23. ASSUME Abort PROVE TypeInv'
  BY <1>23, <1>a, FaultFacts DEF Abort, Exit, server, TypeOK, BatchInv
<1> QED
  BY <1>1, <1>2, <1>3, <1>4, <1>5, <1>6, <1>7, <1>8, <1>9, <1>10, <1>11, <1>12,
     <1>13, <1>14, <1>15, <1>16, <1>17, <1>18, <1>19, <1>20, <1>21, <1>22,
     <1>23, Steps

(* Every variable keeps its type whatever fails, is killed or is refused.   *)
THEOREM TypeCorrect == Spec => []TypeOK
<1>1. TypeInv => TypeOK
  BY DEF TypeInv
<1> QED BY TypeInit, TypeNext, <1>1, PTL DEF Spec

-----------------------------------------------------------------------------
(* ZoneInv holds at first.                                                   *)
LEMMA ZoneInit == Init => ZoneInv
<1> SUFFICES ASSUME Init PROVE ZoneInv
  OBVIOUS
<1>1. ZonesAgree /\ (DefaultPool \in Present \/ Present = {})
  <2>1. CASE pools = [p \in Names |-> Absent]
    BY <2>1 DEF Present, ZonesAgree
  <2>2. ASSUME NEW t, NEW z, NEW i,
               pools = [p \in Names |->
                          IF p = NpNames[i] THEN OldPool(t, z)
                          ELSE IF p \in Legacy \cup {DefaultPool}
                                 THEN OldPool(CpuType, z)
                          ELSE Absent],
               t \in DeviceTypes, z \in Zones, i \in DOMAIN NpNames
        PROVE  ZonesAgree /\ DefaultPool \in Present
    <3>1. DefaultPool # NpNames[i] /\ Absent \notin Pool
      BY <2>2, NodePoolsAssumption DEF Np
    <3>2. OldPool(CpuType, z) \in Pool /\ DefaultPool \in Names
      BY <2>2 DEF OldPool, Pool, Types, Names
    <3>3. \A p \in Present : pools[p] = OldPool(t, z) \/ pools[p] = OldPool(CpuType, z)
      BY <2>2 DEF Present
    <3> QED BY <2>2, <3>1, <3>2, <3>3 DEF Present, ZonesAgree, OldPool
  <2> QED BY <2>1, <2>2 DEF Init, InitServer
<1> QED BY <1>1 DEF Init, ZoneInv, PlanPhases

(* A step that leaves the pools' zones alone and neither starts a run nor   *)
(* brings one past its zone check preserves ZoneInv.                       *)
LEMMA ZoneStays ==
  ASSUME ZoneInv, UNCHANGED <<pools, args>>,
         \/ pc' \notin PlanPhases \cup {"plan"}
         \/ pc \in PlanPhases
         \/ UNCHANGED pc
  PROVE  ZoneInv'
BY DEF ZoneInv, ZonesAgree, Present

(* Every step keeps ZoneInv.                                                 *)
LEMMA ZoneNext == TypeInv /\ ZoneInv /\ [Next]_vars => ZoneInv'
<1> SUFFICES ASSUME TypeInv, ZoneInv, [Next]_vars PROVE ZoneInv'
  OBVIOUS
<1> USE DEF PlanPhases
<1>a. TypeOK /\ Absent \notin Pool /\ DefaultPool \notin Np \cup Legacy
  BY NodePoolsAssumption DEF TypeInv
<1>1. ASSUME UNCHANGED vars PROVE ZoneInv'
  BY <1>1, ZoneStays DEF vars
<1>2. ASSUME Start PROVE ZoneInv'
  BY <1>2 DEF Start, Goto, server, ZoneInv, ZonesAgree, Present
<1>3. ASSUME EnsureCluster PROVE ZoneInv'
  <2>1. CASE pools[DefaultPool] # Absent
    BY <1>3, <2>1
      DEF EnsureCluster, NewDefaultPool, WorkloadIdentity, Goto, ZoneInv,
        ZonesAgree, Present, Names
  <2>2. CASE pools[DefaultPool] = Absent
    <3>1. Present = {}
      BY <2>2 DEF ZoneInv, Present
    <3>2. Present' = {DefaultPool}
      <4> DEFINE new == [type |-> CpuType, zone |-> args.zone,
                         gkeMeta |-> args.wi]
      <4>1. new \in Pool
        BY <1>a, PoolFacts DEF Pool, Types, TypeOK, Args
      <4> HIDE DEF new
      <4>2. pools' = [pools EXCEPT ![DefaultPool] = new]
        BY <1>3, <2>2
      DEF EnsureCluster, NewDefaultPool, WorkloadIdentity, new
      <4> QED BY <1>a, <3>1, <4>1, <4>2 DEF Present, Names, TypeOK
    <3> QED BY <1>3, <3>2
      DEF EnsureCluster, NewDefaultPool, WorkloadIdentity, Goto, ZoneInv,
        ZonesAgree
  <2> QED BY <2>1, <2>2
<1>4. ASSUME Plan PROVE ZoneInv'
  <2>1. UNCHANGED pools /\ UNCHANGED args /\ pc = "plan" /\ pc' = "consent"
    BY <1>4 DEF Plan, Goto, server
  <2>2. PICK first \in Present : pools[first].zone = args.zone
    BY <1>4 DEF Plan, ZoneAccepted
  <2>3. DefaultPool \in Present
    BY <2>1 DEF ZoneInv
  <2>4. pools[DefaultPool].zone = args.zone
    BY <2>2, <2>3 DEF ZoneInv, ZonesAgree
  <2> QED BY <2>1, <2>3, <2>4 DEF ZoneInv, ZonesAgree, Present
<1>5. ASSUME NEW p \in pending, DeletePool(p) PROVE ZoneInv'
  <2>1. p # DefaultPool /\ pc' = pc /\ args' = args /\ pc \in PlanPhases
    BY <1>5, <1>a DEF DeletePool, TypeInv, BatchInv
  <2>2. \A q \in Present' : q \in Present /\ pools'[q] = pools[q]
    BY <1>5, <1>a DEF DeletePool, ChildEnds, TypeOK, Present
  <2>3. DefaultPool \in Present => DefaultPool \in Present'
    BY <1>5, <1>a, <2>1 DEF DeletePool, ChildEnds, TypeOK, Present
  <2> QED BY <2>1, <2>2, <2>3 DEF ZoneInv, ZonesAgree
<1>6. ASSUME NEW p \in pending, UpdatePool(p) PROVE ZoneInv'
  <2>1. p \in Names /\ pools[p] \in Pool /\ pc' = pc /\ args' = args
    BY <1>6, <1>a, PoolFacts DEF UpdatePool, TypeInv, BatchInv
  <2>2. \A q \in Names : /\ pools'[q] = Absent <=> pools[q] = Absent
                         /\ pools[q] # Absent => pools'[q].zone = pools[q].zone
    <3>1. CASE pools' = pools
      BY <3>1
    <3>2. CASE pools' = [pools EXCEPT ![p].gkeMeta = TRUE]
      <4>1. /\ [pools[p] EXCEPT !.gkeMeta = TRUE] \in Pool
            /\ [pools[p] EXCEPT !.gkeMeta = TRUE].zone = pools[p].zone
        BY <2>1 DEF Pool
      <4> QED BY <1>a, <2>1, <3>2, <4>1 DEF TypeOK
    <3> QED BY <1>6, <3>1, <3>2 DEF UpdatePool, ChildEnds
  <2>3. Present' = Present
    BY <2>2 DEF Present
  <2> QED BY <2>1, <2>2, <2>3 DEF ZoneInv, ZonesAgree, Present
<1>7. ASSUME NEW p \in pending, CreatePool(p) PROVE ZoneInv'
  <2>1. CASE pools' = pools
    BY <1>7, <2>1, ZoneStays DEF CreatePool
  <2>2. CASE pools' = [pools EXCEPT ![p] = NewPool(p)] /\ pools[p] = Absent
    <3>1. NewPool(p) \in Pool /\ NewPool(p).zone = args.zone
      BY <1>a, PoolFacts DEF NewPool
    <3>2. /\ pc = "create" /\ pc' = pc /\ args' = args
          /\ DefaultPool \in Present /\ pools[DefaultPool].zone = args.zone
      BY <1>7 DEF CreatePool, ZoneInv
    <3>3. \A q \in Present' : pools'[q].zone = args.zone
      BY <1>a, <2>2, <3>1, <3>2 DEF TypeOK, Present, ZoneInv, ZonesAgree
    <3>4. DefaultPool \in Present'
      BY <1>a, <2>2, <3>1, <3>2 DEF TypeOK, Present
    <3> QED BY <3>2, <3>3, <3>4 DEF ZoneInv, ZonesAgree
  <2> QED BY <1>7, <2>1, <2>2 DEF CreatePool, ChildEnds
<1>8. ASSUME \/ RejectZone \/ AgreeToDelete \/ RefuseToDelete \/ DeletesDone
             \/ NoMetadataUpdate \/ AgreeToUpdate \/ RefuseToUpdate
             \/ UpdatesDone \/ ResetRecord \/ RejectCapacity \/ Prepare
             \/ CreatesDone \/ \E c \in pending : ApplyConfigMap(c)
             \/ RecordsDone \/ Finish \/ Abort
      PROVE  UNCHANGED <<pools, args>> /\ (pc \in PlanPhases \/ UNCHANGED pc
                                             \/ pc' \in {"failed", "ok", "rest"})
  BY <1>8
  DEF RejectZone, AgreeToDelete, RefuseToDelete, DeletesDone, NoMetadataUpdate,
      AgreeToUpdate, RefuseToUpdate, UpdatesDone, ResetRecord, RejectCapacity,
      Prepare, CreatesDone, ApplyConfigMap, RecordsDone, Finish, Abort, Exit,
      Goto, Dispatch, server
<1> QED
  BY <1>1, <1>2, <1>3, <1>4, <1>5, <1>6, <1>7, <1>8, ZoneStays, Steps

(* Whatever runs failed, were killed or asked for another zone: all node    *)
(* pools of the cluster are in one zone, although a run compares its zone   *)
(* with that of one listed pool only.                                      *)
THEOREM OneZone == Spec => []ZonesAgree
<1>1. ZoneInv => ZonesAgree
  BY DEF ZoneInv
<1> QED BY TypeInit, TypeNext, ZoneInit, ZoneNext, <1>1, PTL DEF Spec

-----------------------------------------------------------------------------
(* After a failed run the user asks for the same type, no child is ended by *)
(* a signal and no ConfigMap is taken for absent: what SuccessIsExact needs.*)
OrderlyUse == SameTypeRetry /\ ~ Killable /\ ~ FlakyReads

(* SuccessInv holds at first.                                                *)
LEMMA SuccessInit == Init => SuccessInv
<1> SUFFICES ASSUME Init PROVE SuccessInv
  OBVIOUS
<1>1. KnownTypes
  <2>1. CASE pools = [p \in Names |-> Absent]
    BY <2>1 DEF KnownTypes, PresentNp, Present
  <2>2. ASSUME NEW t \in DeviceTypes, NEW z \in Zones, NEW i \in DOMAIN NpNames,
               pools = [p \in Names |->
                          IF p = NpNames[i] THEN OldPool(t, z)
                          ELSE IF p \in Legacy \cup {DefaultPool}
                                 THEN OldPool(CpuType, z)
                          ELSE Absent],
               recorded = [type |-> t, slices |-> 1]
        PROVE  KnownTypes
    <3>1. \A p \in PresentNp : p \notin Legacy \cup {DefaultPool}
      BY NodePoolsAssumption DEF PresentNp
    <3>2. \A p \in PresentNp : pools[p] = OldPool(t, z)
      BY <2>2, <3>1 DEF PresentNp, Present
    <3>3. recorded \in Record /\ NoRecord \notin Record
      <4>1. 1 \in 0 .. Len(NpNames)
        BY NodePoolsAssumption
      <4> QED BY <2>2, <4>1, NodePoolsAssumption DEF Record
    <3> QED BY <2>2, <3>2, <3>3 DEF KnownTypes, OldPool
  <2> QED BY <2>1, <2>2 DEF Init, InitServer
<1> QED
  BY <1>1
  DEF Init, SuccessInv, PlanInv, DeleteInv, CreateInv, RecordInv, PlanPhases

(* A run that ends without success only has to leave known types behind.    *)
LEMMA KnownTypesStay ==
  ASSUME SuccessInv, UNCHANGED <<pools, args, recorded>>, pc' # "idle"
  PROVE  KnownTypes'
BY DEF SuccessInv, KnownTypes, PresentNp, Present

(* A step that fails and changes nothing of the server keeps SuccessInv.     *)
LEMMA FailureStep ==
  ASSUME SuccessInv, UNCHANGED <<server, args>>, pc' = "failed"
  PROVE  SuccessInv'
BY KnownTypesStay
DEF SuccessInv, server, PlanInv, DeleteInv, CreateInv, RecordInv, PlanPhases

(* With right types everywhere the types are known.                         *)
LEMMA RightTypesAreKnown == RightTypes /\ pc # "idle" => KnownTypes
BY DEF RightTypes, KnownTypes

(* Every step keeps SuccessInv.                                              *)
LEMMA SuccessNext ==
  ASSUME OrderlyUse
  PROVE  TypeInv /\ SuccessInv /\ [Next]_vars => SuccessInv'
<1> SUFFICES ASSUME TypeInv, SuccessInv, [Next]_vars PROVE SuccessInv'
  OBVIOUS
<1> USE DEF PlanPhases
<1>a. /\ TypeOK
      /\ Absent \notin Pool /\ NoRecord \notin Record
      /\ {CpuNp, DefaultPool} \cap Np = {}
      /\ Np \cap ConfigMaps = {}
  BY NodePoolsAssumption DEF TypeInv, Names
<1>b. KnownTypes /\ PlanInv /\ DeleteInv /\ CreateInv /\ RecordInv
  BY DEF SuccessInv
<1>1. ASSUME UNCHANGED vars PROVE SuccessInv'
  BY <1>1, <1>b
  DEF vars, SuccessInv, KnownTypes, PlanInv, DeleteInv, CreateInv, RecordInv,
      RightTypes, PresentNp, Present
<1>2. ASSUME Start PROVE SuccessInv'
  <2>1. UNCHANGED <<pools, recorded>> /\ pc' = "cluster"
    BY <1>2 DEF Start, Goto, server
  <2>2. KnownTypes'
    <3>1. CASE pc = "failed"
      <4>1. args'.type = args.type
        BY <1>2, <3>1, OrderlyUse DEF Start, OrderlyUse
      <4> QED BY <1>b, <2>1, <4>1 DEF KnownTypes, PresentNp, Present
    <3>2. CASE pc = "ok"
      <4>1. recorded # NoRecord /\ recorded.type = args.type
        <5>1. recorded = [type |-> args.type, slices |-> args.count]
          BY <1>b, <3>2 DEF RecordInv
        <5>2. recorded \in Record
          <6>1. args.type \in TypeNames /\ args.count \in 0 .. Len(NpNames)
            BY <1>a, NodePoolsAssumption DEF TypeOK, Args
          <6> QED BY <5>1, <6>1 DEF Record
        <5> QED BY <1>a, <5>1, <5>2
      <4> QED BY <1>b, <2>1, <4>1 DEF KnownTypes, PresentNp, Present
    <3>3. CASE pc = "idle"
      BY <1>b, <2>1, <3>3 DEF KnownTypes, PresentNp, Present
    <3> QED BY <1>2, <3>1, <3>2, <3>3 DEF Start, Stopped
  <2> QED
    BY <2>1, <2>2 DEF SuccessInv, PlanInv, DeleteInv, CreateInv, RecordInv
<1>3. ASSUME EnsureCluster PROVE SuccessInv'
  <2>1. \A p \in Np : pools'[p] = pools[p]
    BY <1>3, <1>a
      DEF EnsureCluster, NewDefaultPool, WorkloadIdentity, TypeOK
  <2>2. PresentNp' = PresentNp
    BY <2>1 DEF PresentNp, Present
  <2>3. KnownTypes'
    BY <1>3, <1>b, <2>1, <2>2
      DEF EnsureCluster, NewDefaultPool, WorkloadIdentity, Goto,
        KnownTypes, PresentNp
  <2> QED
    BY <1>3, <2>3
      DEF EnsureCluster, NewDefaultPool, WorkloadIdentity, Goto, SuccessInv,
        PlanInv, DeleteInv, CreateInv, RecordInv
<1>4. ASSUME Plan PROVE SuccessInv'
  <2>1. PICK desired \in DesiredSets(PresentNp, args.count) :
          plan' = PlanFor(desired, TRUE)
    BY <1>4, OrderlyUse DEF Plan, OrderlyUse
  <2>2. desired \in SUBSET Np /\ Cardinality(desired) = args.count
    BY <2>1, DesiredFacts
  <2>3. /\ plan'.desired = desired
        /\ plan'.doomed = PoolsToDelete(desired, TRUE)
        /\ plan'.remain = PresentNp \ plan'.doomed
        /\ PresentNp \ desired \subseteq plan'.doomed
    BY <1>a, <2>1, <2>2, PlanFacts
  <2>4. /\ pc' = "consent" /\ UNCHANGED <<pools, args, recorded>>
        /\ Present' = Present /\ PresentNp' = PresentNp
    BY <1>4 DEF Plan, Goto, server, Present, PresentNp
  <2>5. \A p \in plan'.remain : pools[p].type = args.type
    <3>1. CASE OtherTypeRecorded
      BY <2>3, <3>1 DEF PoolsToDelete
    <3>2. CASE ~ OtherTypeRecorded
      BY <1>b, <2>3, <3>2 DEF OtherTypeRecorded, KnownTypes
    <3> QED BY <3>1, <3>2
  <2>6. KnownTypes'
    BY <2>4, KnownTypesStay
  <2> QED
    BY <2>2, <2>3, <2>4, <2>5, <2>6
    DEF SuccessInv, PlanInv, DeleteInv, CreateInv, RecordInv
<1>5. ASSUME AgreeToDelete PROVE SuccessInv'
  <2>1. UNCHANGED <<pools, args, recorded, plan>> /\ pc' = "delete"
        /\ pc = "consent" /\ pending' = plan.doomed
    BY <1>5 DEF AgreeToDelete, Dispatch, server
  <2>2. KnownTypes'
    BY <2>1, KnownTypesStay
  <2> QED
    BY <1>b, <2>1, <2>2
    DEF SuccessInv, PlanInv, DeleteInv, CreateInv, RecordInv, PresentNp, Present
<1>6. ASSUME NEW p \in pending, DeletePool(p) PROVE SuccessInv'
  <2>1. /\ pc = "delete" /\ pc' = "delete" /\ UNCHANGED <<args, plan, recorded>>
        /\ pending' = pending \ {p} /\ p \in plan.doomed
    BY <1>6 DEF DeletePool, ChildEnds, TypeInv, BatchInv
  <2>2. \A q \in Names \ {p} : pools'[q] = pools[q]
    BY <1>6, <1>a DEF DeletePool, ChildEnds, TypeOK
  <2>3. \A q \in PresentNp' : q \in PresentNp /\ pools'[q] = pools[q]
    BY <1>6, <1>a DEF DeletePool, ChildEnds, TypeOK, PresentNp, Present
  <2>4. ~ reported' => ~ reported /\ p \notin Present'
    BY <1>6, <1>a, OrderlyUse
    DEF DeletePool, ChildEnds, TypeOK, Present, OrderlyUse
  <2>5. PresentNp \ {p} \subseteq PresentNp'
    BY <2>2 DEF PresentNp, Present
  <2>6. KnownTypes'
    BY <1>b, <2>1, <2>3 DEF KnownTypes
  <2>7. PlanInv'
    BY <1>b, <2>1, <2>3, <2>5 DEF PlanInv
  <2>8. DeleteInv'
    BY <1>b, <2>1, <2>3, <2>4 DEF DeleteInv, PresentNp
  <2> QED BY <2>1, <2>6, <2>7, <2>8 DEF SuccessInv, CreateInv, RecordInv
<1>7. ASSUME DeletesDone PROVE SuccessInv'
  <2>1. CASE reported
    BY <1>7, <2>1, FailureStep DEF DeletesDone, Exit
  <2>2. CASE ~ reported
    <3>1. UNCHANGED <<pools, args, recorded, plan>> /\ pc' = "wi"
          /\ pc = "delete" /\ pending = {}
      BY <1>7, <2>2 DEF DeletesDone, Goto, server
    <3>2. KnownTypes'
      BY <3>1, KnownTypesStay
    <3> QED
      BY <1>b, <2>2, <3>1, <3>2
      DEF SuccessInv, PlanInv, DeleteInv, CreateInv, RecordInv, PresentNp, Present
  <2> QED BY <2>1, <2>2
<1>8. ASSUME NoMetadataUpdate \/ AgreeToUpdate \/ RefuseToUpdate PROVE SuccessInv'
  <2>1. UNCHANGED <<pools, args, recorded, plan>> /\ pc = "wi"
        /\ pc' \in {"prepare", "update", "reset"}
    BY <1>8
    DEF NoMetadataUpdate, AgreeToUpdate, RefuseToUpdate, Goto, Dispatch, server
  <2>2. KnownTypes'
    BY <2>1, KnownTypesStay
  <2> QED
    BY <1>b, <2>1, <2>2
    DEF SuccessInv, PlanInv, DeleteInv, CreateInv, RecordInv, PresentNp, Present
<1>9. ASSUME NEW p \in pending, UpdatePool(p) PROVE SuccessInv'
  <2>1. /\ pc = "update" /\ pc' = "update" /\ UNCHANGED <<args, plan, recorded>>
        /\ p \in Names /\ pools[p] \in Pool
    BY <1>9, <1>a, PoolFacts DEF UpdatePool, TypeInv, BatchInv
  <2>2. \A q \in Names : /\ pools'[q] = Absent <=> pools[q] = Absent
                         /\ pools[q] # Absent => pools'[q].type = pools[q].type
    <3>1. CASE pools' = pools
      BY <3>1
    <3>2. CASE pools' = [pools EXCEPT ![p].gkeMeta = TRUE]
      <4>1. /\ [pools[p] EXCEPT !.gkeMeta = TRUE] \in Pool
            /\ [pools[p] EXCEPT !.gkeMeta = TRUE].type = pools[p].type
        BY <2>1 DEF Pool
      <4> QED BY <1>a, <2>1, <3>2, <4>1 DEF TypeOK
    <3> QED BY <1>9, <3>1, <3>2 DEF UpdatePool, ChildEnds
  <2>3. PresentNp' = PresentNp
    BY <2>2 DEF PresentNp, Present
  <2>4. \A q \in PresentNp : pools'[q].type = pools[q].type
    BY <2>2 DEF PresentNp, Present
  <2>5. KnownTypes'
    BY <1>b, <2>1, <2>3, <2>4 DEF KnownTypes
  <2>6. PlanInv' /\ DeleteInv'
    BY <1>b, <2>1, <2>3, <2>4 DEF PlanInv, DeleteInv
  <2> QED BY <2>1, <2>5, <2>6 DEF SuccessInv, CreateInv, RecordInv
<1>10. ASSUME UpdatesDone PROVE SuccessInv'
  <2>1. CASE reported
    BY <1>10, <2>1, FailureStep DEF UpdatesDone, Exit
  <2>2. CASE ~ reported
    <3>1. UNCHANGED <<pools, args, recorded, plan>> /\ pc' = "reset"
          /\ pc = "update"
      BY <1>10, <2>2 DEF UpdatesDone, Goto, server
    <3>2. KnownTypes'
      BY <3>1, KnownTypesStay
    <3> QED
      BY <1>b, <3>1, <3>2
      DEF SuccessInv, PlanInv, DeleteInv, CreateInv, RecordInv, PresentNp, Present
  <2> QED BY <2>1, <2>2
<1>11. ASSUME ResetRecord PROVE SuccessInv'
  <2>1. UNCHANGED <<pools, args, plan>> /\ pc' = "prepare" /\ pc = "reset"
        /\ (plan.remain # {} => recorded' = recorded)
    BY <1>11 DEF ResetRecord, Goto
  <2>2. PresentNp = plan.remain /\ PresentNp' = PresentNp
    BY <1>b, <2>1 DEF DeleteInv, PresentNp, Present
  <2>3. KnownTypes'
    BY <1>b, <2>1, <2>2 DEF KnownTypes
  <2> QED
    BY <1>b, <2>1, <2>2, <2>3
    DEF SuccessInv, PlanInv, DeleteInv, CreateInv, RecordInv
<1>12. ASSUME Prepare PROVE SuccessInv'
  <2>1. UNCHANGED <<pools, args, recorded, plan>> /\ pc = "prepare"
        /\ pc' = "create" /\ pending' = PoolsToCreate
    BY <1>12 DEF Prepare, Dispatch, server
  <2>2. PresentNp = plan.remain /\ PresentNp' = PresentNp
    BY <1>b, <2>1 DEF DeleteInv, PresentNp, Present
  <2>3. /\ PoolsToCreate \cap Np \subseteq plan.desired
        /\ plan.desired \subseteq plan.remain \cup PoolsToCreate
    BY <1>a DEF PoolsToCreate
  <2>4. RightTypes /\ plan.remain \subseteq plan.desired
    BY <1>b, <2>1, <2>2 DEF PlanInv, RightTypes
  <2>5. CreateInv'
    BY <2>1, <2>2, <2>3, <2>4 DEF CreateInv, RightTypes
  <2>6. PlanInv'
    BY <1>b, <2>1, <2>2 DEF PlanInv
  <2>7. KnownTypes'
    BY <2>1, KnownTypesStay
  <2> QED BY <2>1, <2>5, <2>6, <2>7 DEF SuccessInv, DeleteInv, RecordInv
<1>13. ASSUME NEW p \in pending, CreatePool(p) PROVE SuccessInv'
  <2>1. /\ pc = "create" /\ pc' = "create" /\ UNCHANGED <<args, plan, recorded>>
        /\ pending' = pending \ {p}
    BY <1>13 DEF CreatePool, ChildEnds
  <2>2. /\ RightTypes /\ PresentNp \subseteq plan.desired
        /\ pending \cap Np \subseteq plan.desired
    BY <1>b, <2>1 DEF CreateInv
  <2>3. pools' = pools \/ (pools[p] = Absent /\ pools' = [pools EXCEPT ![p] = NewPool(p)])
    BY <1>13 DEF CreatePool, ChildEnds
  <2>4. PresentNp \subseteq PresentNp' /\ PresentNp' \subseteq PresentNp \cup {p}
        /\ (\A q \in PresentNp : pools'[q] = pools[q])
    BY <1>a, <2>3 DEF TypeOK, PresentNp, Present
  <2>5. \A q \in PresentNp' : pools'[q].type = args.type
    <3>1. \A q \in PresentNp' \ PresentNp : q = p /\ pools'[q] = NewPool(p) /\ p \in Np
      BY <1>a, <2>3, <2>4 DEF TypeOK, PresentNp, Present
    <3> QED BY <2>2, <2>4, <3>1 DEF RightTypes, NewPool
  <2>6. ~ reported' => /\ ~ reported
                       /\ p \in Np => p \in PresentNp'
    <3>1. NewPool(p) # Absent
      BY <1>a, PoolFacts
    <3>2. ~ reported' => ~ reported /\ pools' = [pools EXCEPT ![p] = NewPool(p)]
      BY <1>13, OrderlyUse DEF CreatePool, ChildEnds, OrderlyUse
    <3> QED BY <1>a, <3>1, <3>2 DEF TypeOK, PresentNp, Present, Names
  <2>7. CreateInv'
    <3>1. PresentNp' \subseteq plan.desired
      BY <2>2, <2>4 DEF PresentNp
    <3>2. ~ reported' => plan.desired \subseteq PresentNp' \cup pending'
      <4>1. plan.desired \subseteq Np
        BY <1>a DEF TypeOK, Plans
      <4>2. ~ reported => plan.desired \subseteq PresentNp \cup pending
        BY <1>b, <2>1 DEF CreateInv
      <4> QED BY <2>1, <2>4, <2>6, <4>1, <4>2
    <3> QED BY <2>1, <2>2, <2>5, <3>1, <3>2 DEF CreateInv, RightTypes
  <2>8. PlanInv'
    BY <1>b, <2>1, <2>4 DEF PlanInv
  <2>9. KnownTypes'
    BY <2>1, <2>5 DEF KnownTypes
  <2> QED BY <2>1, <2>7, <2>8, <2>9 DEF SuccessInv, DeleteInv, RecordInv
<1>14. ASSUME CreatesDone PROVE SuccessInv'
  <2>1. CASE CreateFailed
    BY <1>14, <2>1, FailureStep DEF CreatesDone, Exit
  <2>2. CASE ~ CreateFailed
    <3>1. UNCHANGED <<pools, args, recorded, plan>> /\ pc = "create"
          /\ pc' = "record" /\ pending = {} /\ pending' = ConfigMaps
      BY <1>14, <2>2 DEF CreatesDone, Dispatch, server
    <3>2. RightTypes /\ PresentNp \subseteq plan.desired
          /\ Cardinality(plan.desired) = args.count
      BY <1>b, <3>1 DEF CreateInv, PlanInv
    <3>3. ~ args.ignore => PresentNp = plan.desired
      BY <1>b, <2>2, <3>1, <3>2 DEF CreateFailed, CreateInv
    <3>4. PresentNp' = PresentNp
      BY <3>1 DEF PresentNp, Present
    <3>5. RecordInv'
      BY <3>1, <3>2, <3>3, <3>4 DEF RecordInv, RightTypes, ConfigMaps
    <3>6. KnownTypes'
      BY <3>1, KnownTypesStay
    <3> QED BY <3>1, <3>5, <3>6 DEF SuccessInv, PlanInv, DeleteInv, CreateInv
  <2> QED BY <2>1, <2>2
<1>15. ASSUME NEW c \in pending, ApplyConfigMap(c) PROVE SuccessInv'
  <2>1. /\ pc = "record" /\ pc' = "record" /\ UNCHANGED <<pools, args>>
        /\ pending' = pending \ {c}
    BY <1>15 DEF ApplyConfigMap, ChildEnds
  <2>2. PresentNp' = PresentNp
    BY <2>1 DEF PresentNp, Present
  <2>3. RightTypes
    BY <1>b, <2>1 DEF RecordInv
  <2>4. KnownTypes'
    BY <2>1, <2>2, <2>3 DEF KnownTypes, RightTypes
  <2>5. ~ reported' =>
          /\ ~ reported
          /\ IF c = "resources"
               THEN /\ recorded' = [type |-> args.type, slices |-> args.count]
                    /\ capacity' = capacity
               ELSE capacity' = args.capacity /\ recorded' = recorded
    BY <1>15, OrderlyUse DEF ApplyConfigMap, ChildEnds, OrderlyUse
  <2>6. RecordInv'
    BY <1>b, <2>1, <2>2, <2>5 DEF RecordInv, RightTypes
  <2> QED BY <2>1, <2>4, <2>6 DEF SuccessInv, PlanInv, DeleteInv, CreateInv
<1>16. ASSUME RecordsDone PROVE SuccessInv'
  <2>1. CASE reported
    BY <1>16, <2>1, FailureStep DEF RecordsDone, Exit
  <2>2. CASE ~ reported
    <3>1. UNCHANGED <<pools, args, recorded, capacity>> /\ pc = "record"
          /\ pc' = "rest" /\ pending = {}
      BY <1>16, <2>2 DEF RecordsDone, Goto, server
    <3>2. KnownTypes'
      BY <3>1, KnownTypesStay
    <3> QED
      BY <1>b, <2>2, <3>1, <3>2
      DEF SuccessInv, PlanInv, DeleteInv, CreateInv, RecordInv, RightTypes,
          PresentNp, Present
  <2> QED BY <2>1, <2>2
<1>17. ASSUME Finish PROVE SuccessInv'
  <2>1. UNCHANGED <<pools, args, recorded, capacity>> /\ pc = "rest" /\ pc' = "ok"
    BY <1>17 DEF Finish, Exit, server
  <2>2. KnownTypes'
    BY <2>1, KnownTypesStay
  <2> QED
    BY <1>b, <2>1, <2>2
    DEF SuccessInv, PlanInv, DeleteInv, CreateInv, RecordInv, RightTypes,
        PresentNp, Present
<1>18. ASSUME RejectZone \/ RefuseToDelete \/ RejectCapacity \/ Abort
       PROVE  SuccessInv'
  BY <1>18, FailureStep
  DEF RejectZone, RefuseToDelete, RejectCapacity, Abort, Exit
<1> QED
  BY <1>1, <1>2, <1>3, <1>4, <1>5, <1>6, <1>7, <1>8, <1>9, <1>10, <1>11, <1>12,
     <1>13, <1>14, <1>15, <1>16, <1>17, <1>18, Steps

(* A run that returns 0 has exactly the slices it was asked for, of the     *)
(* type it was asked for, and has recorded them, whatever the runs before   *)
(* it did, as long as OrderlyUse holds.                                    *)
THEOREM SuccessExact ==
  ASSUME OrderlyUse
  PROVE  Spec => []SuccessIsExact
<1>1. SuccessInv => SuccessIsExact
  BY DEF SuccessInv, RecordInv, RightTypes, SuccessIsExact
<1> QED BY TypeInit, TypeNext, SuccessInit, SuccessNext, <1>1, PTL DEF Spec

-----------------------------------------------------------------------------
(* What a plan for the recorded type spares: it deletes no "-np-" pool, or   *)
(* the desired ones are all there and not among those it deletes.           *)
SurplusInv ==
  pc \in {"consent", "delete"} /\ ~ OtherTypeRecorded =>
    \/ plan.doomed \cap Np = {}
    \/ /\ plan.desired \subseteq PresentNp \ plan.doomed
       /\ Cardinality(plan.desired) = args.count

(* A record under a name that is no device type is one of a reset, and so    *)
(* tells of no slices.                                                      *)
SpelledInv ==
  recorded # NoRecord /\ recorded.type \notin DeviceTypes => recorded.slices = 0

(* There are at most as many pool names as NpNames lists.                    *)
LEMMA NpIsFinite == IsFiniteSet(Np) /\ Cardinality(Np) <= Len(NpNames)
<1>1. /\ Len(NpNames) \in Nat
      /\ DOMAIN NpNames = 1 .. Len(NpNames)
      /\ NpNames \in [1 .. Len(NpNames) -> Np]
  BY NodePoolsAssumption
<1>2. /\ IsFiniteSet(1 .. Len(NpNames))
      /\ Cardinality(1 .. Len(NpNames)) = Len(NpNames)
  BY <1>1, FS_Interval
<1>3. NpNames \in Surjection(1 .. Len(NpNames), Np)
  BY <1>1 DEF Np, Surjection
<1> QED BY <1>2, <1>3, FS_Surjection

(* With enough pools the desired ones are among those there are; with too    *)
(* few, those there are are among the desired ones.                         *)
LEMMA DesiredOrAll ==
  ASSUME NEW existing \in SUBSET Np, NEW count \in Nat,
         NEW d \in DesiredSets(existing, count)
  PROVE  d \subseteq existing \/ existing \subseteq d
<1>1. PICK kept \in SUBSET existing, k \in 0 .. Len(NpNames) :
        /\ Cardinality(kept) = Smaller(count, Cardinality(existing))
        /\ d = kept \cup {NpNames[i] : i \in 1 .. k}
  BY DEF DesiredSets
<1>2. d \in SUBSET Np /\ Cardinality(d) = count
  BY DesiredFacts
<1>3. IsFiniteSet(existing) /\ IsFiniteSet(d) /\ IsFiniteSet(kept)
  BY <1>2, NpIsFinite, FS_Subset
<1>4. /\ Cardinality(existing) \in Nat
      /\ Cardinality(kept) \in Nat
  BY <1>3, FS_CardinalityType
<1>5. CASE count < Cardinality(existing)
  <2>1. Cardinality(kept) = Cardinality(d)
    BY <1>1, <1>2, <1>5 DEF Smaller
  <2>2. kept \subseteq d
    BY <1>1
  <2>3. kept = d
    BY <1>3, <2>1, <2>2, FS_Subset
  <2> QED BY <2>3
<1>6. CASE ~ (count < Cardinality(existing))
  <2>1. Cardinality(kept) = Cardinality(existing)
    BY <1>1, <1>6 DEF Smaller
  <2>2. kept = existing
    BY <1>3, <2>1, FS_Subset
  <2> QED BY <1>1, <2>2
<1> QED BY <1>5, <1>6

(* A plan establishes SurplusInv: what it deletes is not what it wants.      *)
LEMMA SurplusPlan ==
  ASSUME TypeOK, Plan
  PROVE  SurplusInv'
<1>1. PICK desired \in DesiredSets(PresentNp, args.count), check \in BOOLEAN :
        plan' = PlanFor(desired, check)
  BY DEF Plan
<1>2. desired \in SUBSET Np /\ Cardinality(desired) = args.count
  BY DesiredFacts
<1>3. plan'.desired = desired /\ plan'.doomed = PoolsToDelete(desired, check)
  BY <1>1, <1>2, PlanFacts
<1>4. /\ UNCHANGED <<pools, args, recorded>>
      /\ PresentNp' = PresentNp /\ OtherTypeRecorded' = OtherTypeRecorded
  BY DEF Plan, server, PresentNp, Present, OtherTypeRecorded
<1>5. CASE OtherTypeRecorded
  BY <1>4, <1>5 DEF SurplusInv
<1>6. CASE ~ OtherTypeRecorded
  <2>1. plan'.doomed \cap Np = PresentNp \ desired
    <3>1. Np \cap Legacy = {}
      BY NodePoolsAssumption
    <3> QED BY <1>3, <1>6, <3>1 DEF PoolsToDelete, PresentNp
  <2>2. desired \subseteq PresentNp \/ PresentNp \subseteq desired
    <3>1. args.count \in Nat
      BY NodePoolsAssumption DEF TypeOK, Args
    <3>2. PresentNp \in SUBSET Np
      BY DEF PresentNp
    <3> QED BY <3>1, <3>2, DesiredOrAll
  <2> QED BY <1>2, <1>3, <1>4, <2>1, <2>2 DEF SurplusInv
<1> QED BY <1>5, <1>6

(* Every step keeps SurplusInv.                                              *)
LEMMA SurplusNext == TypeInv /\ SurplusInv /\ [Next]_vars => SurplusInv'
<1> SUFFICES ASSUME TypeInv, SurplusInv, [Next]_vars PROVE SurplusInv'
  OBVIOUS
<1>a. TypeOK
  BY DEF TypeInv
<1>1. CASE Plan
  BY <1>1, <1>a, SurplusPlan
<1>2. CASE AgreeToDelete
  BY <1>2
  DEF AgreeToDelete, Dispatch, server, SurplusInv, OtherTypeRecorded, PresentNp,
      Present
<1>3. ASSUME NEW p \in pending, DeletePool(p) PROVE SurplusInv'
  <2>1. /\ pc = "delete" /\ UNCHANGED <<recorded, args, plan>> /\ p \in plan.doomed
    BY <1>3 DEF DeletePool, TypeInv, BatchInv
  <2>2. PresentNp \ {p} \subseteq PresentNp'
    BY <1>3, <1>a DEF DeletePool, ChildEnds, TypeOK, PresentNp, Present
  <2> QED BY <2>1, <2>2 DEF SurplusInv, OtherTypeRecorded
<1>4. CASE UNCHANGED vars
  BY <1>4 DEF vars, SurplusInv, OtherTypeRecorded, PresentNp, Present
<1>5. CASE pc' \notin {"consent", "delete"}
  BY <1>5 DEF SurplusInv
<1>6. ASSUME Start \/ EnsureCluster \/ RejectZone \/ RefuseToDelete \/ DeletesDone
             \/ NoMetadataUpdate \/ AgreeToUpdate \/ RefuseToUpdate \/ UpdatesDone
             \/ ResetRecord \/ RejectCapacity \/ Prepare \/ CreatesDone
             \/ RecordsDone \/ Finish \/ Abort
      PROVE  pc' \notin {"consent", "delete"}
  BY <1>6
  DEF Start, EnsureCluster, RejectZone, RefuseToDelete, DeletesDone,
      NoMetadataUpdate, AgreeToUpdate, RefuseToUpdate, UpdatesDone, ResetRecord,
      RejectCapacity, Prepare, CreatesDone, RecordsDone, Finish, Abort, Exit, Goto,
      Dispatch
<1>7. ASSUME NEW p \in pending, UpdatePool(p) \/ CreatePool(p) \/ ApplyConfigMap(p)
      PROVE  pc' \notin {"consent", "delete"}
  BY <1>7 DEF UpdatePool, CreatePool, ApplyConfigMap
<1> QED BY <1>1, <1>2, <1>3, <1>4, <1>5, <1>6, <1>7, Steps

(* Only DeletePool removes a pool.                                          *)
LEMMA OnlyDeletePool ==
  ASSUME TypeInv, [Next]_vars, NEW q \in Present, q \notin Present'
  PROVE  \E p \in pending : DeletePool(p)
<1>a. TypeOK /\ q \in Names /\ Absent \notin Pool
  BY NodePoolsAssumption DEF TypeInv, Present
<1>1. ~ (UNCHANGED pools)
  BY DEF Present
<1>2. ~ EnsureCluster
  <2>1. ASSUME EnsureCluster PROVE q \in Present'
    <3>1. NewDefaultPool \in Pool
      BY <1>a DEF NewDefaultPool, Pool, Types, TypeOK, Args
    <3> QED BY <1>a, <2>1, <3>1 DEF EnsureCluster, TypeOK, Present
  <2> QED BY <2>1
<1>3. ASSUME NEW p \in pending, UpdatePool(p) PROVE FALSE
  <2>1. p \in Names /\ pools[p] \in Pool
    BY <1>3, PoolFacts, <1>a DEF UpdatePool, TypeInv, BatchInv
  <2>2. [pools[p] EXCEPT !.gkeMeta = TRUE] \in Pool
    BY <2>1 DEF Pool
  <2> QED BY <1>3, <1>a, <2>1, <2>2 DEF UpdatePool, ChildEnds, TypeOK, Present
<1>4. ASSUME NEW p \in pending, CreatePool(p) PROVE FALSE
  BY <1>4, <1>a, PoolFacts DEF CreatePool, ChildEnds, TypeOK, Present
<1> QED
  BY <1>1, <1>2, <1>3, <1>4, Steps
  DEF vars, Start, RejectZone, Plan, AgreeToDelete, RefuseToDelete,
      DeletesDone, NoMetadataUpdate, AgreeToUpdate, RefuseToUpdate, UpdatesDone,
      ResetRecord, RejectCapacity, Prepare, CreatesDone, ApplyConfigMap,
      RecordsDone, Finish, Abort, server

(* SpelledInv holds at first.                                                *)
LEMMA SpelledInit == Init => SpelledInv
BY DEF Init, InitServer, SpelledInv

(* Every step keeps SpelledInv: at the end of a run the device type is       *)
(* written, whatever the user called it.                                   *)
LEMMA SpelledNext == TypeInv /\ SpelledInv /\ [Next]_vars => SpelledInv'
<1> SUFFICES ASSUME TypeInv, SpelledInv, [Next]_vars PROVE SpelledInv'
  OBVIOUS
<1>1. CASE UNCHANGED recorded
  BY <1>1 DEF SpelledInv
<1>2. CASE ResetRecord
  <2>1. recorded' = recorded \/ recorded' = [type |-> args.name, slices |-> 0]
    BY <1>2 DEF ResetRecord
  <2> QED BY <2>1 DEF SpelledInv
<1>3. ASSUME NEW c \in pending, ApplyConfigMap(c) PROVE SpelledInv'
  <2>1. \/ recorded' = recorded
        \/ recorded' = [type |-> args.type, slices |-> args.count]
    BY <1>3 DEF ApplyConfigMap, ChildEnds
  <2>2. args.type \in DeviceTypes
    BY DEF TypeInv, TypeOK, Args
  <2> QED BY <2>1, <2>2 DEF SpelledInv
<1>4. ASSUME \/ UNCHANGED vars \/ Start \/ EnsureCluster \/ RejectZone \/ Plan
             \/ AgreeToDelete \/ RefuseToDelete \/ DeletesDone
             \/ NoMetadataUpdate \/ AgreeToUpdate \/ RefuseToUpdate
             \/ UpdatesDone \/ RejectCapacity \/ Prepare \/ CreatesDone
             \/ RecordsDone \/ Finish \/ Abort
      PROVE  UNCHANGED recorded
  BY <1>4
  DEF vars, Start, EnsureCluster, RejectZone, Plan, AgreeToDelete, RefuseToDelete,
      DeletesDone, NoMetadataUpdate, AgreeToUpdate, RefuseToUpdate, UpdatesDone,
      RejectCapacity, Prepare, CreatesDone, RecordsDone, Finish, Abort, server
<1>5. ASSUME NEW p \in pending, DeletePool(p) \/ UpdatePool(p) \/ CreatePool(p)
      PROVE  UNCHANGED recorded
  BY <1>5 DEF DeletePool, UpdatePool, CreatePool
<1> QED BY <1>1, <1>2, <1>3, <1>4, <1>5, Steps

(* A type that is taken for another one is the one of another system, or    *)
(* the same under a name that only a reset records.                        *)
LEMMA OtherTypeFacts ==
  ASSUME TypeOK, SpelledInv, OtherTypeRecorded
  PROVE  OtherSystemRecorded \/ HalfwayReset
<1>1. CASE recorded.type \in DeviceTypes
  <2>1. DeviceTypeOf[recorded.type] = recorded.type
    BY <1>1, NodePoolsAssumption
  <2> QED BY <2>1 DEF OtherTypeRecorded, OtherSystemRecorded
<1>2. CASE recorded.type \notin DeviceTypes
  BY <1>2 DEF OtherTypeRecorded, SpelledInv, HalfwayReset
<1> QED BY <1>1, <1>2

(* Whatever was interrupted before and in whatever order deletions end: a    *)
(* run deletes slices below the number it was asked for only if the record   *)
(* is of another system, or of a reset that was interrupted and written      *)
(* under a name that is not the device type.                               *)
THEOREM SparesRequested == Spec => DeletesOnlySurplus
<1> DEFINE Spared ==
      (\E p \in Np : pools[p] # Absent /\ pools'[p] = Absent)
        => \/ OtherSystemRecorded \/ HalfwayReset
           \/ Cardinality({p \in Np : pools'[p] # Absent}) >= args.count
<1>1. Init => SurplusInv
  BY DEF Init, SurplusInv
<1>2. TypeInv /\ SurplusInv /\ SpelledInv /\ [Next]_vars => [Spared]_vars
  <2> SUFFICES ASSUME TypeInv, SurplusInv, [Next]_vars, ~ OtherTypeRecorded,
                      NEW q \in Np, pools[q] # Absent, pools'[q] = Absent
               PROVE  Cardinality({p \in Np : pools'[p] # Absent}) >= args.count
    BY OtherTypeFacts DEF TypeInv
  <2> DEFINE left == {p \in Np : pools'[p] # Absent}
  <2>1. q \in Present /\ q \notin Present'
    BY DEF Present, Names
  <2>2. PICK p \in pending : DeletePool(p)
    BY <2>1, OnlyDeletePool
  <2>3. /\ pc = "delete" /\ p \in plan.doomed
        /\ \A n \in Names : n # p => pools'[n] = pools[n]
    BY <2>2 DEF DeletePool, ChildEnds, TypeInv, TypeOK, BatchInv
  <2>4. q = p
    BY <2>3 DEF Names
  <2>5. /\ plan.desired \subseteq PresentNp \ plan.doomed
        /\ Cardinality(plan.desired) = args.count
    BY <2>3, <2>4 DEF SurplusInv
  <2>6. plan.desired \subseteq left
    BY <2>3, <2>5 DEF PresentNp, Present
  <2>7. IsFiniteSet(left)
    <3>1. left \subseteq Np
      OBVIOUS
    <3> QED BY <3>1, NpIsFinite, FS_Subset
  <2>8. Cardinality(plan.desired) <= Cardinality(left)
    BY <2>6, <2>7, FS_Subset
  <2>9. Cardinality(left) \in Nat /\ args.count \in Nat
    <3>1. args.count \in Nat
      BY NodePoolsAssumption DEF TypeInv, TypeOK, Args
    <3> QED BY <2>7, <3>1, FS_CardinalityType
  <2> QED BY <2>5, <2>8, <2>9
<1> QED
  BY TypeInit, TypeNext, SurplusNext, SpelledInit, SpelledNext, <1>1, <1>2, PTL
  DEF Spec, DeletesOnlySurplus

-----------------------------------------------------------------------------
Unmoved == {p \in Present : ~ pools[p].gkeMeta}

(* A run for Workload Identity: where the pools that are not on the GKE      *)
(* metadata server yet are to be found.  New pools always are on it.        *)
MetadataInv ==
  /\ pc \in (Running \ {"cluster"}) \cup {"ok"} /\ args.wi => clusterWI
  /\ args.wi =>
       /\ pc = "consent" => Unmoved \subseteq plan.update \cup plan.doomed
       /\ pc = "delete" /\ ~ reported => Unmoved \subseteq plan.update \cup pending
       /\ pc = "wi" => Unmoved \subseteq plan.update
       /\ pc = "update" /\ ~ reported => Unmoved \subseteq pending
       /\ pc \in {"reset", "prepare", "create", "record", "rest", "ok"} /\ ~ refused
            => Unmoved = {}

(* Every step keeps MetadataInv, unless commands may be killed.              *)
LEMMA MetadataNext ==
  ASSUME ~ Killable
  PROVE  TypeInv /\ MetadataInv /\ [Next]_vars => MetadataInv'
<1> SUFFICES ASSUME TypeInv, MetadataInv, [Next]_vars PROVE MetadataInv'
  OBVIOUS
<1> USE DEF Running
<1>a. TypeOK /\ Absent \notin Pool
  BY NodePoolsAssumption DEF TypeInv
<1>1. ASSUME UNCHANGED vars PROVE MetadataInv'
  BY <1>1 DEF vars, MetadataInv, Unmoved, Present
<1>2. ASSUME Start \/ RejectZone \/ RefuseToDelete \/ RejectCapacity \/ Abort
      PROVE  MetadataInv'
  BY <1>2
  DEF Start, RejectZone, RefuseToDelete, RejectCapacity, Abort, Exit, Goto,
      MetadataInv
<1>3. ASSUME EnsureCluster PROVE MetadataInv'
  BY <1>3 DEF EnsureCluster, WorkloadIdentity, Goto, MetadataInv
<1>4. ASSUME Plan PROVE MetadataInv'
  <2>1. PICK desired \in DesiredSets(PresentNp, args.count), check \in BOOLEAN :
          plan' = PlanFor(desired, check)
    BY <1>4 DEF Plan
  <2>2. args.wi => Unmoved \subseteq plan'.update \cup plan'.doomed
    BY <2>1 DEF PlanFor, PoolsToUpdate, Unmoved, PresentNp
  <2>3. pc = "plan" /\ pc' = "consent" /\ UNCHANGED <<pools, clusterWI, args>>
    BY <1>4 DEF Plan, Goto, server
  <2>4. Unmoved' = Unmoved
    BY <2>3 DEF Unmoved, Present
  <2> QED BY <2>2, <2>3, <2>4 DEF MetadataInv
<1>5. ASSUME AgreeToDelete PROVE MetadataInv'
  BY <1>5 DEF AgreeToDelete, Dispatch, server, MetadataInv, Unmoved, Present
<1>6. ASSUME NEW p \in pending, DeletePool(p) PROVE MetadataInv'
  <2>1. /\ pc = "delete" /\ pc' = "delete" /\ UNCHANGED <<clusterWI, args, plan>>
        /\ pending' = pending \ {p}
    BY <1>6 DEF DeletePool, ChildEnds
  <2>2. Unmoved' \subseteq Unmoved
    BY <1>6, <1>a DEF DeletePool, ChildEnds, TypeOK, Unmoved, Present
  <2>3. ~ reported' => ~ reported /\ p \notin Unmoved'
    BY <1>6, <1>a, ~ Killable DEF DeletePool, ChildEnds, TypeOK, Unmoved, Present
  <2> QED BY <2>1, <2>2, <2>3 DEF MetadataInv
<1>7. ASSUME DeletesDone PROVE MetadataInv'
  BY <1>7 DEF DeletesDone, Exit, Goto, server, MetadataInv, Unmoved, Present
<1>8. ASSUME NoMetadataUpdate \/ AgreeToUpdate \/ RefuseToUpdate PROVE MetadataInv'
  BY <1>8
  DEF NoMetadataUpdate, AgreeToUpdate, RefuseToUpdate, Goto, Dispatch, server,
      MetadataInv, Unmoved, Present
<1>9. ASSUME NEW p \in pending, UpdatePool(p) PROVE MetadataInv'
  <2>1. /\ pc = "update" /\ pc' = "update" /\ UNCHANGED <<clusterWI, args, plan>>
        /\ p \in Names /\ pools[p] \in Pool /\ pending' = pending \ {p}
    BY <1>9, <1>a, PoolFacts DEF UpdatePool, ChildEnds, TypeInv, BatchInv
  <2>2. /\ [pools[p] EXCEPT !.gkeMeta = TRUE] \in Pool
        /\ [pools[p] EXCEPT !.gkeMeta = TRUE].gkeMeta
    BY <2>1 DEF Pool
  <2>3. Unmoved' \subseteq Unmoved
    BY <1>9, <1>a, <2>1, <2>2 DEF UpdatePool, ChildEnds, TypeOK, Unmoved, Present
  <2>4. ~ reported' => ~ reported /\ p \notin Unmoved'
    BY <1>9, <1>a, <2>1, <2>2, ~ Killable
    DEF UpdatePool, ChildEnds, TypeOK, Unmoved, Present
  <2> QED BY <2>1, <2>3, <2>4 DEF MetadataInv
<1>10. ASSUME UpdatesDone PROVE MetadataInv'
  BY <1>10 DEF UpdatesDone, Exit, Goto, server, MetadataInv, Unmoved, Present
<1>11. ASSUME ResetRecord \/ Prepare \/ CreatesDone \/ RecordsDone \/ Finish
       PROVE  MetadataInv'
  BY <1>11
  DEF ResetRecord, Prepare, CreatesDone, RecordsDone, Finish, Exit, Goto, Dispatch,
      server, MetadataInv, Unmoved, Present
<1>12. ASSUME NEW p \in pending, CreatePool(p) PROVE MetadataInv'
  <2>1. /\ pc = "create" /\ pc' = "create" /\ UNCHANGED <<clusterWI, args, refused>>
    BY <1>12 DEF CreatePool
  <2>2. \/ pools' = pools
        \/ pools[p] = Absent /\ pools' = [pools EXCEPT ![p] = NewPool(p)]
    BY <1>12 DEF CreatePool, ChildEnds
  <2>3. args.wi => clusterWI
    BY <2>1 DEF MetadataInv
  <2>4. ASSUME args.wi, NEW q \in Unmoved' PROVE q \in Unmoved
    <3>1. q \in Names /\ pools'[q] # Absent /\ ~ pools'[q].gkeMeta
      BY <2>4 DEF Unmoved, Present
    <3>2. NewPool(p).gkeMeta = clusterWI
      BY DEF NewPool
    <3>3. pools'[q] = pools[q]
      BY <1>a, <2>2, <2>3, <2>4, <3>1, <3>2 DEF TypeOK
    <3> QED BY <3>1, <3>3 DEF Unmoved, Present
  <2> QED BY <2>1, <2>3, <2>4 DEF MetadataInv
<1>13. ASSUME NEW c \in pending, ApplyConfigMap(c) PROVE MetadataInv'
  BY <1>13 DEF ApplyConfigMap, MetadataInv, Unmoved, Present
<1> QED
  BY <1>1, <1>2, <1>3, <1>4, <1>5, <1>6, <1>7, <1>8, <1>9, <1>10, <1>11, <1>12,
     <1>13, Steps

(* While no gcloud child is ended by a signal: a run for Workload Identity   *)
(* that returns 0 and whose user agreed has moved every pool, those of runs  *)
(* that were interrupted included.                                         *)
THEOREM EveryPoolMoved ==
  ASSUME ~ Killable
  PROVE  Spec => []MetadataEverywhere
<1>1. Init => MetadataInv
  BY DEF Init, MetadataInv, Running
<1>2. MetadataInv => MetadataEverywhere
  BY DEF MetadataInv, MetadataEverywhere, Unmoved
<1> QED BY TypeInit, TypeNext, MetadataNext, <1>1, <1>2, PTL DEF Spec

-----------------------------------------------------------------------------
OfType(t) == {p \in PresentNp : pools[p].type = t}

(* The fleet counts the pools of each type.                                  *)
LEMMA FleetFacts ==
  /\ \A S \in SUBSET Np : IsFiniteSet(S) /\ Cardinality(S) \in 0 .. Len(NpNames)
  /\ FleetOf \in Promise!Fleet
  /\ FleetOf = [t \in DeviceTypes |-> Cardinality(OfType(t))]
<1>1. ASSUME NEW S \in SUBSET Np
      PROVE  IsFiniteSet(S) /\ Cardinality(S) \in 0 .. Len(NpNames)
  <2>1. IsFiniteSet(S) /\ Cardinality(S) <= Cardinality(Np)
    BY NpIsFinite, FS_Subset
  <2>2. Cardinality(S) \in Nat /\ Cardinality(Np) \in Nat
    BY <2>1, NpIsFinite, FS_CardinalityType
  <2>3. Len(NpNames) \in Nat
    BY NodePoolsAssumption
  <2> QED BY <2>1, <2>2, <2>3, NpIsFinite
<1>2. \A t : {p \in PresentNp : pools[p].type = t} \in SUBSET Np
  BY DEF PresentNp
<1> QED BY <1>1, <1>2 DEF FleetOf, OfType, Promise!Fleet

(* The command line is a request of the abstract specification.              *)
LEMMA RequestFacts ==
  ASSUME TypeOK
  PROVE  [name |-> args.name, type |-> args.type, count |-> args.count,
          exact |-> ~ args.ignore] \in Promise!Request
BY DEF TypeOK, Args, Promise!Request

(* Initial states map to initial states.                                     *)
LEMMA PromiseInit == Init => Promise!Init
<1> SUFFICES ASSUME Init PROVE Promise!Init
  OBVIOUS
<1>1. TypeOK
  BY TypeInit DEF TypeInv
<1>2. recorded \in [type : TypeNames, slices : 0 .. Len(NpNames)] \cup {NoRecord}
  BY <1>1 DEF TypeOK, Record
<1>3. StatusOf = "idle"
  BY DEF Init, StatusOf, Stopped
<1> QED BY <1>1, <1>2, <1>3, FleetFacts, RequestFacts DEF Promise!Init

(* A step that keeps the types of all "-np-" pools keeps the fleet.         *)
LEMMA SameFleet ==
  ASSUME \A p \in Np : /\ p \in Present' <=> p \in Present
                       /\ p \in Present => pools'[p].type = pools[p].type
  PROVE  FleetOf' = FleetOf
<1>1. \A t : {p \in PresentNp' : pools'[p].type = t}
               = {p \in PresentNp : pools[p].type = t}
  BY DEF PresentNp
<1> QED BY <1>1 DEF FleetOf

(* During a run the fleet gains pools of the requested type only.           *)
LEMMA FleetStep ==
  ASSUME pc \in Running, UNCHANGED <<pc, args, recorded>>,
         \A p \in PresentNp' : \/ pools'[p].type = args.type
                               \/ p \in PresentNp /\ pools'[p] = pools[p]
  PROVE  Promise!ResizeFleet
<1>1. StatusOf = "running" /\ StatusOf' = StatusOf
  BY DEF StatusOf, Stopped, Running
<1>2. FleetOf' \in Promise!Fleet
  <2>1. \A t : {p \in PresentNp' : pools'[p].type = t} \in SUBSET Np
    BY DEF PresentNp
  <2>2. \A t : Cardinality({p \in PresentNp' : pools'[p].type = t})
               \in 0 .. Len(NpNames)
    BY <2>1, FleetFacts
  <2> QED BY <2>2 DEF FleetOf, Promise!Fleet
<1>3. ASSUME NEW t \in DeviceTypes, t # args.type
      PROVE  FleetOf'[t] <= FleetOf[t]
  <2> DEFINE now == {p \in PresentNp' : pools'[p].type = t}
             before == {p \in PresentNp : pools[p].type = t}
  <2>1. now \subseteq before
    BY <1>3
  <2>2. IsFiniteSet(before)
    <3>1. before \in SUBSET Np
      BY DEF PresentNp
    <3> QED BY <3>1, FleetFacts
  <2>3. Cardinality(now) <= Cardinality(before)
    BY <2>1, <2>2, FS_Subset
  <2> QED BY <2>3 DEF FleetOf
<1>4. \A t \in DeviceTypes : FleetOf[t] \in Nat /\ FleetOf'[t] \in Nat
  BY <1>2, FleetFacts DEF Promise!Fleet
<1>5. \A t \in DeviceTypes : FleetOf'[t] > FleetOf[t] => t = args.type
  BY <1>3, <1>4
<1> QED BY <1>1, <1>2, <1>5 DEF Promise!ResizeFleet

(* A step maps to a step of the abstract specification or a stutter.         *)
LEMMA PromiseNext ==
  ASSUME OrderlyUse
  PROVE  TypeInv /\ SuccessInv /\ TypeInv' /\ [Next]_vars
           => [Promise!Next]_(Promise!vars)
<1> SUFFICES ASSUME TypeInv, SuccessInv, TypeInv', [Next]_vars
             PROVE  Promise!Next \/ UNCHANGED Promise!vars
  OBVIOUS
<1> USE DEF Promise!vars
<1>a. TypeOK /\ TypeOK' /\ Absent \notin Pool
      /\ {CpuNp, DefaultPool} \cap Np = {}
  BY NodePoolsAssumption DEF TypeInv
<1>1. UNCHANGED pools => FleetOf' = FleetOf
  BY SameFleet DEF Present
<1>2. ASSUME Start PROVE Promise!Begin
  <2>1. StatusOf \in Stopped /\ StatusOf' = "running"
    BY <1>2 DEF Start, Goto, StatusOf, Stopped
  <2>2. UNCHANGED <<pools, recorded>>
    BY <1>2 DEF Start, server
  <2>3. [name |-> args'.name, type |-> args'.type, count |-> args'.count,
         exact |-> ~ args'.ignore] \in Promise!Request
    BY <1>a DEF TypeOK, Args, Promise!Request
  <2> QED BY <1>1, <2>1, <2>2, <2>3 DEF Promise!Begin, Promise!Stopped, Stopped
<1>3. ASSUME EnsureCluster PROVE UNCHANGED Promise!vars
  <2>1. \A p \in Np : pools'[p] = pools[p]
    BY <1>3, <1>a DEF EnsureCluster, TypeOK
  <2>2. FleetOf' = FleetOf
    BY <2>1, SameFleet DEF Present
  <2> QED BY <1>3, <2>2 DEF EnsureCluster, Goto, StatusOf, Stopped
<1>4. ASSUME UNCHANGED <<pools, recorded, args>>, pc \in Running, pc' \in Running
      PROVE  UNCHANGED Promise!vars
  BY <1>1, <1>4 DEF StatusOf, Stopped, Running
<1>5. ASSUME UNCHANGED <<pools, recorded, args>>, pc \in Running, pc' = "failed"
      PROVE  Promise!Fail
  BY <1>1, <1>5 DEF StatusOf, Stopped, Running, Promise!Fail
<1>6. ASSUME NEW p \in pending, DeletePool(p) PROVE Promise!ResizeFleet
  <2>1. pc \in Running /\ UNCHANGED <<pc, args, recorded>>
    BY <1>6 DEF DeletePool, Running
  <2>2. \A q \in PresentNp' : q \in PresentNp /\ pools'[q] = pools[q]
    BY <1>6, <1>a DEF DeletePool, ChildEnds, TypeOK, PresentNp, Present
  <2> QED BY <2>1, <2>2, FleetStep
<1>7. ASSUME NEW p \in pending, UpdatePool(p) PROVE UNCHANGED Promise!vars
  <2>1. UNCHANGED <<pc, args, recorded>> /\ p \in Names /\ pools[p] \in Pool
    BY <1>7, <1>a, PoolFacts DEF UpdatePool, TypeInv, BatchInv
  <2>2. /\ [pools[p] EXCEPT !.gkeMeta = TRUE] \in Pool
        /\ [pools[p] EXCEPT !.gkeMeta = TRUE].type = pools[p].type
    BY <2>1 DEF Pool
  <2>3. \A q \in Np : /\ q \in Present' <=> q \in Present
                      /\ q \in Present => pools'[q].type = pools[q].type
    BY <1>7, <1>a, <2>1, <2>2 DEF UpdatePool, ChildEnds, TypeOK, Present
  <2>4. FleetOf' = FleetOf
    BY <2>3, SameFleet
  <2> QED BY <2>1, <2>4 DEF StatusOf
<1>8. ASSUME NEW p \in pending, CreatePool(p) PROVE Promise!ResizeFleet
  <2>1. pc \in Running /\ UNCHANGED <<pc, args, recorded>>
    BY <1>8 DEF CreatePool, Running
  <2>2. pools' = pools \/ pools' = [pools EXCEPT ![p] = NewPool(p)]
    BY <1>8 DEF CreatePool, ChildEnds
  <2>3. \A q \in PresentNp' : \/ pools'[q].type = args.type
                              \/ q \in PresentNp /\ pools'[q] = pools[q]
    BY <1>a, <2>2 DEF NewPool, TypeOK, PresentNp, Present
  <2> QED BY <2>1, <2>3, FleetStep
<1>9. ASSUME pc \in Running, pc' \in Running, UNCHANGED <<pools, args>>,
             recorded' \in {[type |-> args.name, slices |-> 0],
                           [type |-> args.type, slices |-> args.count]}
      PROVE  Promise!WriteRecord
  <2>1. StatusOf = "running" /\ StatusOf' = StatusOf
    BY <1>9 DEF StatusOf, Stopped, Running
  <2> QED BY <1>1, <1>9, <2>1 DEF Promise!WriteRecord
<1>10. ASSUME ResetRecord PROVE Promise!Next \/ UNCHANGED Promise!vars
  BY <1>4, <1>9, <1>10 DEF ResetRecord, Goto, Running, Promise!Next
<1>11. ASSUME NEW c \in pending, ApplyConfigMap(c)
       PROVE  Promise!Next \/ UNCHANGED Promise!vars
  BY <1>4, <1>9, <1>11 DEF ApplyConfigMap, ChildEnds, Running, Promise!Next
<1>12. ASSUME Finish PROVE Promise!Succeed
  <2>1. /\ pc = "rest" /\ pc' = "ok" /\ UNCHANGED <<pools, args, recorded>>
        /\ StatusOf = "running" /\ StatusOf' = "ok"
    BY <1>12 DEF Finish, Exit, server, StatusOf, Stopped
  <2>2. /\ RightTypes /\ recorded = [type |-> args.type, slices |-> args.count]
        /\ ~ args.ignore => Cardinality(PresentNp) = args.count
    BY <2>1 DEF SuccessInv, RecordInv
  <2>3. \A t \in DeviceTypes \ {args.type} : FleetOf[t] = 0
    <3>1. ASSUME NEW t \in DeviceTypes \ {args.type} PROVE FleetOf[t] = 0
      <4>1. {p \in PresentNp : pools[p].type = t} = {}
        BY <2>2 DEF RightTypes
      <4> QED BY <4>1, FS_EmptySet DEF FleetOf
    <3> QED BY <3>1
  <2>4. FleetOf[args.type] = Cardinality(PresentNp)
    <3>1. {p \in PresentNp : pools[p].type = args.type} = PresentNp
      BY <2>2 DEF RightTypes
    <3> QED BY <3>1, <1>a, PoolFacts DEF FleetOf
  <2> QED BY <1>1, <2>1, <2>2, <2>3, <2>4 DEF Promise!Succeed
<1>13. ASSUME \/ RejectZone \/ Plan \/ AgreeToDelete \/ RefuseToDelete
              \/ DeletesDone \/ NoMetadataUpdate \/ AgreeToUpdate
              \/ RefuseToUpdate \/ UpdatesDone \/ RejectCapacity \/ Prepare
              \/ CreatesDone \/ RecordsDone \/ Abort
       PROVE  /\ UNCHANGED <<pools, recorded, args>> /\ pc \in Running
              /\ pc' \in Running \/ pc' = "failed"
  BY <1>13
  DEF RejectZone, Plan, AgreeToDelete, RefuseToDelete, DeletesDone,
      NoMetadataUpdate, AgreeToUpdate, RefuseToUpdate, UpdatesDone, RejectCapacity,
      Prepare, CreatesDone, RecordsDone, Abort, Exit, Goto, Dispatch, server,
      Running
<1>14. ASSUME UNCHANGED vars PROVE UNCHANGED Promise!vars
  BY <1>1, <1>14 DEF vars, StatusOf
<1> QED
  BY <1>2, <1>3, <1>4, <1>5, <1>6, <1>7, <1>8, <1>10, <1>11, <1>12, <1>13, <1>14,
     Steps DEF Promise!Next

(* Runs of cluster create, planned from what the runs before left behind,    *)
(* implement the promise of SliceRequest under OrderlyUse.                  *)
THEOREM ImplementsSliceRequest ==
  ASSUME OrderlyUse
  PROVE  Spec => KeepsPromise
BY TypeInit, TypeNext, SuccessInit, SuccessNext, PromiseInit, PromiseNext, PTL
DEF Spec, KeepsPromise, Promise!Spec
=============================================================================
