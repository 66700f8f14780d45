----------------------------- MODULE ClusterRun -----------------------------
(***************************************************************************)
(* A run of `xpk cluster create`, `adapt` or `delete` (commands/cluster.py) *)
(* and what it works on: the GKE cluster and the objects in it, the networks *)
(* of the project, the authorized networks, Kueue, JobSet, the Cluster       *)
(* Toolkit deployment with its files on the user's machines and in a bucket, *)
(* and the kubeconfig files. The modules ClusterSetup, KueueSetup and        *)
(* ToolkitSetup hold the steps, Clusters puts them together.                *)
(*                                                                         *)
(* A run is a sequence of gcloud, kubectl and gcluster commands. Any of them *)
(* may fail, or the run may be killed at it, with the effect of the command  *)
(* done or not; xpk then ends, and whatever was done stays.                 *)
(***************************************************************************)
EXTENDS Naturals, Sequences, FiniteSets, FiniteSetsExt

CONSTANTS
  Scenarios, \* what is there and which commands are run, see ScenarioSet
  Networks,  \* number of networks of an H100 cluster
  MaxFaults  \* bound of failed commands and of switches by other processes

ASSUME NetworksAssumption == Networks \in Nat \ {0}

Machines == {"us", "colleague"}

(* What the user asks for, by the groups of the parser; and "no-mtc-bucket",   *)
(* an option left out, "bad-version" and "quota-too-small", values that are  *)
(* refused, and "agrees", the answer to a question, if one is asked. "old-gke":  *)
(* the planned version is below the first that has managed diagnostics.      *)
Drivers == {"gcsfuse", "filestore", "parallelstore", "pd", "lustre"}
DriverOptions == Drivers \cup {"identity", "legacy-port"}
AutoprovisioningOptions == {"nap", "quota-too-small"}
CheckpointOptions == {"mtc", "no-mtc-bucket"}
PrivateOptions == {"private", "networks", "private-endpoint"}
ToolkitOptions == {"bucket", "adapt-from-ct"}
DiagnosticsOptions == {"ml", "old-gke", "tensorboard"}
CommonOptions == {"nodes-given", "bad-version", "ray", "super-slicing", "sandbox",
                  "quiet", "agrees"}

Options ==
  UNION {DriverOptions, AutoprovisioningOptions, CheckpointOptions, PrivateOptions,
         ToolkitOptions, DiagnosticsOptions, CommonOptions}

(* H100, H100 Mega, H200 and B200, and any other GPU. *)
ToolkitDevices == {"a3mega", "a3ultra", "a4"}
Gpus == ToolkitDevices \cup {"h100", "gpu"}
Devices == Gpus \cup {"tpu", "cpu"}

CommandSet ==
  [verb : {"create", "adapt", "delete"}, device : Devices,
   options : SUBSET Options, machine : Machines]

KueueImages == {"none", "breaking", "older", "current", "newer", "custom"}
NoKueue == [image |-> "none", external |-> FALSE, crds |-> "none",
            objects |-> "none", tolerant |-> FALSE]
NoJobSet == [image |-> "none", external |-> FALSE]

(* busy: whether there are workloads in the cluster; native: whether gcluster *)
(* runs natively or in a container; others: subnets of clusters whose name    *)
(* ends with ours.                                                         *)
ScenarioSet ==
  [commands : SUBSET CommandSet, has : SUBSET STRING, busy : BOOLEAN,
   kueue : [image : KueueImages, external : BOOLEAN, crds : {"none", "some", "all"},
            objects : {"none", "user", "fixed", "nap"}, tolerant : BOOLEAN],
   jobset : [image : KueueImages, external : BOOLEAN],
   authorized : SUBSET Machines, native : BOOLEAN,
   others : SUBSET {"in-use", "idle"}]

ASSUME ScenariosAssumption == Scenarios \subseteq ScenarioSet

(* Who manages Kueue is read off its deployment.                             *)
ASSUME KueueAssumption ==
  \A s \in Scenarios : s.kueue.image = "none" => ~s.kueue.external

(* Nor is anything installed where there is no cluster.                      *)
ASSUME EmptyAssumption ==
  \A s \in Scenarios : s.has = {} => s.kueue.image = "none"

VARIABLES
  scenario,
  cmd,        \* the running command, NoCommand before the first
  pc,         \* its next step, "done" after the last
  rc,         \* how it ended: all but "failed" exit with 0
  faults,
  has,        \* the cluster, its features and objects; empty: no cluster
  kueue, jobset,
  blind,      \* steps of the run whose missing answer went unnoticed
  project,    \* networks, subnets and firewall rules of the project
  pending,    \* subnets still to be deleted, as listed
  authorized, \* the networks that reach the control plane
  list,       \* the list this run is going to write back
  theirs,     \* the list a colleague's xpk is going to write back
  overlap,    \* whether two of these ever overlapped
  promised,   \* the machines whose xpk has authorized them
  file,       \* current contexts of the default and the sandbox kubeconfig
  lost,       \* whether the run's context was switched or never set
  stray,      \* steps of the run whose kubectl reached another cluster
  deployment, \* of Cluster Toolkit: "none", "partial" or "whole"
  local,      \* per machine: the files of Cluster Toolkit that are there
  bucket,     \* the files in the state bucket
  clone       \* per machine: CoreDNS's repository in /tmp/deployment, see Clones

control == <<scenario, cmd, pc, rc, faults>>
installed == <<kueue, jobset, blind>>
net == <<project, pending>>
access == <<authorized, list, theirs, overlap, promised>>
contexts == <<file, lost, stray>>
toolkit == <<deployment, local, bucket, clone>>
vars == <<control, has, installed, net, access, contexts, toolkit>>

NoCommand == [verb |-> "none", device |-> "tpu", options |-> {}, machine |-> "us"]
Idle == [reading |-> FALSE, list |-> {}]
Clones == {"absent", "partial", "complete"}

Asked(option) == option \in cmd.options
Creating == cmd.verb = "create"
ByToolkit ==
  Creating /\ cmd.device \in ToolkitDevices /\ ~Asked("adapt-from-ct")

-----------------------------------------------------------------------------
(* The steps of a run in their order, and those the command asks for.        *)

Pipeline ==
  <<"server-config", "cluster", "authorize", "identity", "mtc-addons",
    "credentials", "coredns", "environment", "storage-crd", "gcsfuse", "filestore",
    "parallelstore", "pd", "lustre", "tensorboard", "networks", "pool-version",
    "nap", "config-maps", "jobset", "jobset-resources", "kueue", "nccl", "nri",
    "ray", "mtc", "ml", "ml-prerequisites", "done">>

When(condition, steps) == IF condition THEN steps ELSE {}

(* With --adapt-from-ct, create goes on with a cluster made by Cluster Toolkit. *)
WantedOf(c) ==
  LET asks(option) == option \in c.options
      creates == c.verb = "create"
      makes == creates /\ ~asks("adapt-from-ct")
      h100 == c.device = "h100"
  IN  {"credentials", "environment", "storage-crd", "config-maps", "jobset",
       "kueue", "done"}
      \cup ((Drivers \cup {"tensorboard", "nap", "ray"}) \cap c.options)
      \cup When((asks("identity") \/ asks("gcsfuse")) /\ (creates => makes),
                {"identity"})
      \cup When(c.device \in Gpus, {"nccl"}) \cup When(h100, {"nri"})
      \cup When(makes, {"server-config", "cluster", "authorize", "coredns",
                       "pool-version"})
      \cup When(creates, {"jobset-resources"} \cup ({"mtc"} \cap c.options))
      \cup When(makes /\ asks("mtc"), {"mtc-addons"})
      \cup When(makes /\ h100, {"networks"})
      \cup When(makes /\ asks("ml"), {"ml"})
      \cup When(makes /\ {"ml", "old-gke"} \subseteq c.options, {"ml-prerequisites"})

StepOf(name) == CHOOSE i \in DOMAIN Pipeline : Pipeline[i] = name

\* WRONG: a step that was asked for is left out.
WithoutQueue(name) ==
  Pipeline[Min({i \in DOMAIN Pipeline :
                  /\ i > StepOf(name)
                  /\ Pipeline[i] \in WantedOf(cmd) \ {"kueue"}})]

(* The next step after this one. *)
After(name) ==
  Pipeline[Min({i \in DOMAIN Pipeline :
                  i > StepOf(name) /\ Pipeline[i] \in WantedOf(cmd)})]

-----------------------------------------------------------------------------
(* How steps end.                                                          *)

At(step) == pc = step /\ UNCHANGED <<scenario, cmd>>

Ends(result) == pc' = "done" /\ rc' = result

MovesTo(step) == IF step = "done" THEN Ends("ok") ELSE pc' = step /\ UNCHANGED rc

GoTo(step) == MovesTo(step) /\ UNCHANGED faults

(* Cluster Toolkit's path drops what the installation of Kueue returns.       *)
KueueSteps ==
  {"kueue", "kueue-external", "delete-kueue-objects", "delete-kueue-crds",
   "delete-kueue-deployment", "install-kueue", "patch-tolerations",
   "wait-for-kueue", "configure-kueue", "kueue-resources", "prepare-upgrade"}
Failure ==
  IF ByToolkit /\ pc \in KueueSteps THEN "ok" ELSE "failed"

xpk_exit == Ends(Failure) /\ UNCHANGED faults

(* A command fails, also when it is repeated, or the run is killed at it.     *)
Fault == faults < MaxFaults /\ faults' = faults + 1
Breaks == Fault /\ (Ends("failed") \/ Ends(Failure))

(* A command without effect. *)
Asks(next) == GoTo(next) \/ Breaks

(* A command that puts things into the cluster. *)
Puts(things, next) ==
  \/ has' = has \cup things /\ GoTo(next)
  \/ has' \in {has, has \cup things} /\ Breaks

(* gcloud commands name the cluster; they fail if there is none.            *)
GcloudPuts(things, next) ==
  \/ "cluster" \in has /\ Puts(things, next)
  \/ "cluster" \notin has /\ xpk_exit /\ UNCHANGED has

(* The kubeconfig the run's kubectl commands go by, and the one the kubernetes *)
(* library goes by: it reads KUBECONFIG when it is loaded.                  *)
File == IF Asked("sandbox") THEN "sandbox" ELSE "default"
Reached(f) ==
  IF file[f] = "own" /\ "cluster" \notin has THEN "none" ELSE file[f]
Context == Reached(File)
LibraryContext == Reached("default")

(* A command that reaches another cluster changes nothing in ours, one that   *)
(* reaches none fails.                                                     *)
Elsewhere(context, next) ==
  \/ /\ context = "other" /\ stray' = stray \cup {pc}
     /\ GoTo(next) \/ xpk_exit
     /\ UNCHANGED <<file, lost>>
  \/ context = "none" /\ xpk_exit /\ UNCHANGED contexts

KubectlPuts(context, things, next) ==
  \/ context = "own" /\ Puts(things, next) /\ UNCHANGED contexts
  \/ Elsewhere(context, next) /\ UNCHANGED has
=============================================================================
