--------------------------- MODULE CoreDnsProofs ---------------------------
(***************************************************************************)
(* Proofs about CoreDns for any number of runs that share a machine and any *)
(* number of faults.                                                       *)
(***************************************************************************)
EXTENDS CoreDns, TLAPS

Replaced == {"autoscaler", "kubedns", "scale", "drain", "available", "cleanup",
             "ok"}

(* A run is past the deployment only in a cluster that has one; kube-dns is *)
(* at zero only where the autoscaler has been told to stop; a run is past    *)
(* the readiness check only in a cluster whose CoreDNS is available.        *)
DnsInv ==
  \A r \in Runs :
    /\ pc[r] \in Replaced => replicas[r] # 0
    /\ pc[r] = "kubedns" => autoscaler[r] # "on"
    /\ kubeWanted[r] = 0 => autoscaler[r] # "on" /\ replicas[r] # 0
    /\ pc[r] \in {"cleanup", "ok"} => ready[r]

(* TypeOK holds at first.                                                    *)
LEMMA TypeInit == Init => TypeOK
BY CoreDnsAssumption DEF Init, TypeOK, Stopped, KubeDnsSizes

(* Every step keeps TypeOK.                                                  *)
LEMMA TypeNext == TypeOK /\ [Next]_vars => TypeOK'
<1> SUFFICES ASSUME TypeOK, [Next]_vars PROVE TypeOK'
  OBVIOUS
<1> USE DEF TypeOK, At, Goto, Stopped, Steps, cluster
<1>1. ASSUME UNCHANGED vars PROVE TypeOK'
  BY <1>1 DEF vars
<1>2. ASSUME NEW r \in Runs, RunStep(r) PROVE TypeOK'
  <2>1. CASE Start(r) \/ Found(r) \/ SkipClone(r) \/ NeedClone(r)
               \/ NoManifests(r) \/ CoreDnsAvailable(r)
    BY <2>1
    DEF Start, Found, SkipClone, NeedClone, NoManifests, CoreDnsAvailable
  <2>2. CASE NotFound(r) \/ CheckKubeDns(r) \/ Cleanup(r)
    <3>1. faults' \in 0 .. MaxFaults
      BY <2>2, CoreDnsAssumption DEF NotFound, CheckKubeDns, Cleanup, Fault
    <3> QED BY <2>2, <3>1 DEF NotFound, CheckKubeDns, Cleanup
  <2>3. CASE BeginClone(r) \/ EndClone(r)
    BY <2>3 DEF BeginClone, EndClone
  <2>4. CASE Deploy(r) \/ ScaleCoreDns(r)
    BY <2>4 DEF Deploy, ScaleCoreDns
  <2>5. CASE ScaleAutoscaler(r) \/ ScaleKubeDns(r)
    BY <2>5 DEF ScaleAutoscaler, ScaleKubeDns
  <2> QED BY <1>2, <2>1, <2>2, <2>3, <2>4, <2>5 DEF RunStep
<1>3. ASSUME NEW r \in Runs, CloneFails(r) \/ Abort(r) PROVE TypeOK'
  <2>1. faults' \in 0 .. MaxFaults
    BY <1>3, CoreDnsAssumption DEF CloneFails, Abort, Fault
  <2> QED BY <1>3, <2>1 DEF CloneFails, Abort
<1>4. ASSUME NEW r \in Runs, Controllers(r) PROVE TypeOK'
  BY <1>4
  DEF Controllers, AutoscalerActs, AutoscalerEnds, KubeDnsFollows, CoreDnsStarts
<1> QED BY <1>1, <1>2, <1>3, <1>4 DEF Next

(* DnsInv holds at first.                                                    *)
LEMMA DnsInit == Init => DnsInv
<1> SUFFICES ASSUME Init PROVE DnsInv
  OBVIOUS
<1>1. pc = [r \in Runs |-> "idle"] /\ kubeWanted = [r \in Runs |-> 1]
  BY DEF Init
<1>2. \A r \in Runs : pc[r] = "idle" /\ kubeWanted[r] = 1
  BY <1>1
<1>3. 1 # 0
  OBVIOUS
<1> QED BY <1>2, <1>3 DEF DnsInv, Replaced

(* Every step keeps DnsInv.                                                  *)
LEMMA DnsNext == TypeOK /\ DnsInv /\ [Next]_vars => DnsInv'
<1> SUFFICES ASSUME TypeOK, DnsInv, [Next]_vars PROVE DnsInv'
  OBVIOUS
<1>a. /\ pc \in [Runs -> Stopped \cup Steps] /\ replicas \in [Runs -> {0, Deployed, Wanted}]
      /\ ready \in [Runs -> BOOLEAN] /\ autoscaler \in [Runs -> {"on", "ending", "off"}]
      /\ kubeWanted \in [Runs -> {0} \cup KubeDnsSizes]
  BY DEF TypeOK
<1>b. Wanted # 0 /\ Deployed # 0
  BY CoreDnsAssumption DEF Deployed
<1> USE DEF DnsInv, Replaced, At, Goto, Stopped, Steps, cluster
<1>1. ASSUME UNCHANGED vars PROVE DnsInv'
  BY <1>1 DEF vars
<1>2. ASSUME NEW r \in Runs,
             \/ Start(r) \/ NotFound(r) \/ SkipClone(r) \/ NeedClone(r)
             \/ BeginClone(r) \/ EndClone(r) \/ NoManifests(r)
             \/ CloneFails(r) \/ Abort(r)
      PROVE  DnsInv'
  BY <1>2, <1>a
  DEF Start, NotFound, SkipClone, NeedClone, BeginClone, EndClone, NoManifests,
      CloneFails, Abort
<1>3. ASSUME NEW r \in Runs, Found(r) \/ CheckKubeDns(r) PROVE DnsInv'
  BY <1>3, <1>a DEF Found, CheckKubeDns
<1>4. ASSUME NEW r \in Runs, Deploy(r) PROVE DnsInv'
  BY <1>4, <1>a, <1>b DEF Deploy
<1>5. ASSUME NEW r \in Runs, ScaleAutoscaler(r) PROVE DnsInv'
  BY <1>5, <1>a DEF ScaleAutoscaler
<1>6. ASSUME NEW r \in Runs, ScaleKubeDns(r) PROVE DnsInv'
  BY <1>6, <1>a DEF ScaleKubeDns
<1>7. ASSUME NEW r \in Runs, ScaleCoreDns(r) PROVE DnsInv'
  BY <1>7, <1>a, <1>b DEF ScaleCoreDns
<1>8. ASSUME NEW r \in Runs, CoreDnsAvailable(r) \/ Cleanup(r) PROVE DnsInv'
  BY <1>8, <1>a DEF CoreDnsAvailable, Cleanup
<1>9. ASSUME NEW r \in Runs, AutoscalerActs(r) PROVE DnsInv'
  BY <1>9, <1>a DEF AutoscalerActs, KubeDnsSizes
<1>10. ASSUME NEW r \in Runs,
              AutoscalerEnds(r) \/ KubeDnsFollows(r) \/ CoreDnsStarts(r)
       PROVE  DnsInv'
  BY <1>10, <1>a DEF AutoscalerEnds, KubeDnsFollows, CoreDnsStarts
<1> QED
  BY <1>1, <1>2, <1>3, <1>4, <1>5, <1>6, <1>7, <1>8, <1>9, <1>10
  DEF Next, RunStep, Controllers

(* TypeOK and DnsInv always hold.                                            *)
LEMMA DnsInvariant == Spec => [](TypeOK /\ DnsInv)
BY TypeInit, TypeNext, DnsInit, DnsNext, PTL DEF Spec

(* kube-dns is scaled down only where CoreDNS is deployed, for any number   *)
(* of runs and failures.                                                   *)
THEOREM Replacement == Spec => []ReplacedBeforeRemoved
<1>1. DnsInv => ReplacedBeforeRemoved
  BY DEF DnsInv, ReplacedBeforeRemoved
<1> QED BY DnsInvariant, <1>1, PTL

(* A run that returns 0 has seen CoreDNS available.                         *)
THEOREM Available == Spec => []SuccessMeansAvailable
<1>1. DnsInv => SuccessMeansAvailable
  BY DEF DnsInv, SuccessMeansAvailable, Replaced, At
<1> QED BY DnsInvariant, <1>1, PTL

(* After a run has scaled kube-dns down, nothing scales it up but the last  *)
(* acts of an autoscaler that was told to stop.                             *)
THEOREM LastActs == Spec => OnlyLastActScalesUp
<1>1. TypeOK /\ DnsInv /\ [Next]_vars
        => [\A r \in Runs : kubeWanted[r] = 0 /\ kubeWanted'[r] # 0
                              => autoscaler[r] = "ending"]_vars
  <2> SUFFICES ASSUME TypeOK, DnsInv, Next, NEW q \in Runs, kubeWanted[q] = 0,
                      kubeWanted'[q] # 0
               PROVE  autoscaler[q] = "ending"
    BY DEF vars
  <2>1. /\ autoscaler[q] \in {"ending", "off"}
        /\ kubeWanted \in [Runs -> {0} \cup KubeDnsSizes]
    BY DEF DnsInv, TypeOK
  <2>2. ASSUME NEW r \in Runs, AutoscalerActs(r) PROVE autoscaler[q] = "ending"
    <3>1. r = q
      BY <2>1, <2>2 DEF AutoscalerActs
    <3> QED BY <3>1, <2>1, <2>2 DEF AutoscalerActs
  <2>3. ASSUME NEW r \in Runs, ScaleKubeDns(r) PROVE FALSE
    BY <2>1, <2>3 DEF ScaleKubeDns
  <2>4. ASSUME NEW r \in Runs,
               \/ Start(r) \/ Found(r) \/ NotFound(r) \/ SkipClone(r)
               \/ NeedClone(r) \/ BeginClone(r) \/ EndClone(r)
               \/ NoManifests(r) \/ Deploy(r) \/ ScaleAutoscaler(r)
               \/ ScaleCoreDns(r) \/ CheckKubeDns(r) \/ CoreDnsAvailable(r)
               \/ Cleanup(r) \/ CloneFails(r) \/ Abort(r)
               \/ AutoscalerEnds(r) \/ KubeDnsFollows(r) \/ CoreDnsStarts(r)
        PROVE  UNCHANGED kubeWanted
    BY <2>4
    DEF Start, Found, NotFound, SkipClone, NeedClone, BeginClone, EndClone,
        NoManifests, Deploy, ScaleAutoscaler, ScaleCoreDns, CheckKubeDns,
        CoreDnsAvailable, Cleanup, CloneFails, Abort, AutoscalerEnds,
        KubeDnsFollows, CoreDnsStarts, cluster
  <2> QED BY <2>2, <2>3, <2>4 DEF Next, RunStep, Controllers
<1> QED BY DnsInvariant, <1>1, PTL DEF Spec, OnlyLastActScalesUp
=============================================================================
