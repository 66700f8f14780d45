------------------------------ MODULE CoreDns ------------------------------
(***************************************************************************)
(* The replacement of kube-dns by CoreDNS during `xpk cluster create`       *)
(* (commands/cluster.py, update_coredns_if_necessary).  Every run works on  *)
(* a cluster of its own; all runs on one machine share the clone of the     *)
(* CoreDNS deployment repository in /tmp/deployment.                       *)
(*                                                                         *)
(*   pc            code                                                    *)
(*   exists        coredns_deployment_exists                               *)
(*   clone, git, cloning   clone_coredns_deployment_repo                   *)
(*   deploy        deploy_coredns_manifests                                *)
(*   autoscaler, kubedns   scale_down_deployment                           *)
(*   scale         scale_up_coredns                                        *)
(*   drain, available      verify_coredns_readiness                        *)
(*   cleanup       cleanup_coredns_repo                                    *)
(***************************************************************************)
EXTENDS Naturals

CONSTANTS
  Runs,       \* runs of xpk on this machine, one per cluster
  Wanted,     \* _get_coredns_replica_count; a default pool without nodes is left out
  MaxFaults,  \* bound: failed commands, timeouts and crashes
  Leftovers   \* an interrupted clone or cleanup may leave files behind

ASSUME CoreDnsAssumption ==
  Wanted \in Nat /\ Wanted > 0 /\ MaxFaults \in Nat /\ Leftovers \in BOOLEAN

VARIABLES
  repo,       \* /tmp/deployment: "absent", "partial" or "complete"
  pc,         \* where the current run of each cluster is
  setup,      \* the current run does the setup (it found no deployment)
  replicas,   \* of the deployment coredns; 0: there is none
  ready,      \* coredns has the condition Available
  autoscaler, \* kube-dns-autoscaler: "on", "ending" (scaled to 0, its pod still acts) or "off"
  kubeWanted, \* replicas of kube-dns
  kubePods,   \* kube-dns has pods
  faults

cluster == <<replicas, ready, autoscaler, kubeWanted, kubePods>>
vars == <<repo, pc, setup, replicas, ready, autoscaler, kubeWanted, kubePods,
          faults>>

Stopped == {"idle", "ok", "failed"}
Steps == {"exists", "clone", "git", "cloning", "deploy", "autoscaler", "kubedns",
          "scale", "drain", "available", "cleanup"}

(* A manifest without `replicas` makes a deployment with one.              *)
Deployed == 1

KubeDnsSizes == 1 .. 2

At(r, label) == pc[r] = label
Goto(r, label) == pc' = [pc EXCEPT ![r] = label]
Fault == faults > 0 /\ faults' = faults - 1
-----------------------------------------------------------------------------
(* A definition whose comment starts with WRONG is a plausible mistake in   *)
(* the one after it; no specification uses it.                             *)

Init ==
  /\ repo = "absent"
  /\ pc = [r \in Runs |-> "idle"] /\ setup = [r \in Runs |-> FALSE]
  /\ replicas = [r \in Runs |-> 0] /\ ready = [r \in Runs |-> FALSE]
  /\ autoscaler = [r \in Runs |-> "on"] /\ kubeWanted = [r \in Runs |-> 1]
  /\ kubePods = [r \in Runs |-> TRUE]
  /\ faults = MaxFaults

Start(r) ==
  /\ pc[r] \in Stopped
  /\ Goto(r, "exists")
  /\ setup' = [setup EXCEPT ![r] = FALSE]
  /\ UNCHANGED <<repo, cluster, faults>>

(* WRONG: a deployment that exists is not verified.                         *)
FoundIsReady(r) ==
  /\ At(r, "exists") /\ replicas[r] # 0
  /\ Goto(r, "ok")
  /\ UNCHANGED <<repo, setup, cluster, faults>>

Found(r) ==
  /\ At(r, "exists") /\ replicas[r] # 0
  /\ Goto(r, "drain")
  /\ UNCHANGED <<repo, setup, cluster, faults>>

(* "NOT found in namespace or an error occurred."                           *)
NotFound(r) ==
  /\ At(r, "exists")
  /\ IF replicas[r] = 0 THEN UNCHANGED faults ELSE Fault
  /\ Goto(r, "clone")
  /\ setup' = [setup EXCEPT ![r] = TRUE]
  /\ UNCHANGED <<repo, cluster>>

(* WRONG: git is asked to clone into a directory that exists.               *)
CloneIntoExisting(r) ==
  /\ At(r, "clone") /\ repo # "absent"
  /\ Goto(r, "failed")
  /\ UNCHANGED <<repo, setup, cluster, faults>>

SkipClone(r) ==
  /\ At(r, "clone") /\ repo # "absent"
  /\ Goto(r, "deploy")
  /\ UNCHANGED <<repo, setup, cluster, faults>>

NeedClone(r) ==
  /\ At(r, "clone") /\ repo = "absent"
  /\ Goto(r, "git")
  /\ UNCHANGED <<repo, setup, cluster, faults>>

(* git refuses a directory that another run has made since the test.        *)
BeginClone(r) ==
  /\ At(r, "git")
  /\ IF repo = "absent" THEN repo' = "partial" /\ Goto(r, "cloning")
                        ELSE repo' = repo /\ Goto(r, "failed")
  /\ UNCHANGED <<setup, cluster, faults>>

(* The clone fails if another run removed its directory meanwhile.          *)
EndClone(r) ==
  /\ At(r, "cloning")
  /\ IF repo = "partial" THEN repo' = "complete" /\ Goto(r, "deploy")
                         ELSE repo' = repo /\ Goto(r, "failed")
  /\ UNCHANGED <<setup, cluster, faults>>

(* git removes what it cloned, unless it is killed.                         *)
CloneFails(r) ==
  /\ At(r, "cloning")
  /\ Fault
  /\ repo' \in {"absent"} \cup (IF Leftovers THEN {"partial"} ELSE {})
  /\ Goto(r, "failed")
  /\ UNCHANGED <<setup, cluster>>

(* WRONG: the missing directory is reported but not an error.               *)
ManifestsOptional(r) ==
  /\ At(r, "deploy") /\ repo # "complete"
  /\ Goto(r, "autoscaler")
  /\ UNCHANGED <<repo, setup, cluster, faults>>

(* Files are checked out last: a partial clone has no kubernetes directory. *)
NoManifests(r) ==
  /\ At(r, "deploy") /\ repo # "complete"
  /\ Goto(r, "failed")
  /\ UNCHANGED <<repo, setup, cluster, faults>>

Deploy(r) ==
  /\ At(r, "deploy") /\ repo = "complete"
  /\ replicas' = [replicas EXCEPT ![r] = IF @ = 0 THEN Deployed ELSE @]
  /\ Goto(r, "autoscaler")
  /\ UNCHANGED <<repo, setup, ready, autoscaler, kubeWanted, kubePods, faults>>

(* WRONG: the autoscaler is left running.                                   *)
KeepAutoscaler(r) ==
  /\ At(r, "autoscaler")
  /\ Goto(r, "kubedns")
  /\ UNCHANGED <<repo, setup, cluster, faults>>

(* kubectl scale does not wait for the pod of the autoscaler to end.        *)
ScaleAutoscaler(r) ==
  /\ At(r, "autoscaler")
  /\ autoscaler' = [autoscaler EXCEPT ![r] = IF @ = "on" THEN "ending" ELSE @]
  /\ Goto(r, "kubedns")
  /\ UNCHANGED <<repo, setup, replicas, ready, kubeWanted, kubePods, faults>>

ScaleKubeDns(r) ==
  /\ At(r, "kubedns")
  /\ kubeWanted' = [kubeWanted EXCEPT ![r] = 0]
  /\ Goto(r, "scale")
  /\ UNCHANGED <<repo, setup, replicas, ready, autoscaler, kubePods, faults>>

(* The new replicas may cost the deployment its condition Available.        *)
ScaleCoreDns(r) ==
  /\ At(r, "scale")
  /\ replicas' = [replicas EXCEPT ![r] = Wanted]
  /\ \E available \in BOOLEAN :
       ready' = [ready EXCEPT ![r] = ready[r] /\ available]
  /\ Goto(r, "drain")
  /\ UNCHANGED <<repo, setup, autoscaler, kubeWanted, kubePods, faults>>

(* check_deployment_exists is true only if kubectl fails, and with          *)
(* --ignore-not-found it exits 0 whether there is a deployment or not.      *)
CheckKubeDns(r) ==
  /\ At(r, "drain")
  /\ \/ UNCHANGED faults
     \/ Fault /\ ~ kubePods[r]
  /\ Goto(r, "available")
  /\ UNCHANGED <<repo, setup, cluster>>

CoreDnsAvailable(r) ==
  /\ At(r, "available") /\ ready[r]
  /\ Goto(r, IF setup[r] THEN "cleanup" ELSE "ok")
  /\ UNCHANGED <<repo, setup, cluster, faults>>

(* Errors of the cleanup are only printed.                                  *)
Cleanup(r) ==
  /\ At(r, "cleanup")
  /\ \/ repo' = "absent" /\ UNCHANGED faults
     \/ Leftovers /\ Fault /\ repo # "absent" /\ repo' = "partial"
  /\ Goto(r, "ok")
  /\ UNCHANGED <<setup, cluster>>

(* A command fails or times out, or xpk is killed; what a command did       *)
(* before its run ended is a step of its own.                              *)
Abort(r) ==
  /\ pc[r] \in Steps \ {"cloning"}
  /\ Fault
  /\ Goto(r, "failed")
  /\ UNCHANGED <<repo, setup, cluster>>
-----------------------------------------------------------------------------
(* The cluster's controllers.                                              *)

(* It keeps kube-dns at a number of replicas that suits the cluster's size, *)
(* as long as it has a pod.                                                *)
AutoscalerActs(r) ==
  /\ autoscaler[r] # "off"
  /\ \E n \in KubeDnsSizes \ {kubeWanted[r]} :
       kubeWanted' = [kubeWanted EXCEPT ![r] = n]
  /\ UNCHANGED <<repo, pc, setup, replicas, ready, autoscaler, kubePods, faults>>

AutoscalerEnds(r) ==
  /\ autoscaler[r] = "ending"
  /\ autoscaler' = [autoscaler EXCEPT ![r] = "off"]
  /\ UNCHANGED <<repo, pc, setup, replicas, ready, kubeWanted, kubePods, faults>>

KubeDnsFollows(r) ==
  /\ kubePods[r] # (kubeWanted[r] # 0)
  /\ kubePods' = [kubePods EXCEPT ![r] = ~ @]
  /\ UNCHANGED <<repo, pc, setup, replicas, ready, autoscaler, kubeWanted, faults>>

CoreDnsStarts(r) ==
  /\ replicas[r] # 0 /\ ~ ready[r]
  /\ ready' = [ready EXCEPT ![r] = TRUE]
  /\ UNCHANGED <<repo, pc, setup, replicas, autoscaler, kubeWanted, kubePods,
                 faults>>

Controllers(r) ==
  \/ AutoscalerActs(r) \/ AutoscalerEnds(r) \/ KubeDnsFollows(r)
  \/ CoreDnsStarts(r)

RunStep(r) ==
  \/ Start(r) \/ Found(r) \/ NotFound(r) \/ SkipClone(r) \/ NeedClone(r)
  \/ BeginClone(r) \/ EndClone(r) \/ NoManifests(r) \/ Deploy(r)
  \/ ScaleAutoscaler(r) \/ ScaleKubeDns(r) \/ ScaleCoreDns(r)
  \/ CheckKubeDns(r) \/ CoreDnsAvailable(r) \/ Cleanup(r)

Next ==
  \E r \in Runs : RunStep(r) \/ CloneFails(r) \/ Abort(r) \/ Controllers(r)

Spec == Init /\ [][Next]_vars

(* Every process goes on, the user repeats the command, and controllers act.*)
FairSpec ==
  Spec /\ \A r \in Runs : /\ WF_vars(RunStep(r))
                          /\ WF_vars(KubeDnsFollows(r))
                          /\ WF_vars(CoreDnsStarts(r))
-----------------------------------------------------------------------------
TypeOK ==
  /\ repo \in {"absent", "partial", "complete"}
  /\ pc \in [Runs -> Stopped \cup Steps]
  /\ setup \in [Runs -> BOOLEAN]
  /\ replicas \in [Runs -> {0, Deployed, Wanted}]
  /\ ready \in [Runs -> BOOLEAN]
  /\ autoscaler \in [Runs -> {"on", "ending", "off"}]
  /\ kubeWanted \in [Runs -> {0} \cup KubeDnsSizes]
  /\ kubePods \in [Runs -> BOOLEAN]
  /\ faults \in 0 .. MaxFaults

(* A cluster is never left without a DNS deployment: kube-dns is scaled     *)
(* down only where coredns is deployed, however runs and their clones of    *)
(* the repository interleave.                                              *)
ReplacedBeforeRemoved ==
  \A r \in Runs : kubeWanted[r] = 0 => replicas[r] # 0

(* Whichever way a run returns 0, CoreDNS was seen available.               *)
SuccessMeansAvailable ==
  \A r \in Runs : At(r, "ok") => replicas[r] # 0 /\ ready[r]

(* Only an autoscaler that was told to stop, and whose pod has not ended    *)
(* yet, may scale kube-dns up once a run has scaled it down: one that goes   *)
(* on running never, and after the pod has ended nothing does.  The last     *)
(* acts of that pod are a race xpk does not close: it waits neither for the   *)
(* pod nor, with the test of kube-dns inverted, for kube-dns.              *)
OnlyLastActScalesUp ==
  [][\A r \in Runs : kubeWanted[r] = 0 /\ kubeWanted'[r] # 0
                       => autoscaler[r] = "ending"]_vars

(* Repeating the command serves every cluster again and again once faults   *)
(* stop, although runs remove the repository under each other; unless a     *)
(* clone or a cleanup was interrupted, whose leftovers nobody replaces.     *)
EveryClusterServed ==
  (\A r \in Runs : []<>At(r, "ok")) \/ <>[](repo = "partial")
=============================================================================
