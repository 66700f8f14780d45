------------------------------ MODULE Clusters ------------------------------
(***************************************************************************)
(* The life of a cluster: `xpk cluster create`, `adapt` and `delete` run one  *)
(* after the other, each ending anywhere, on one machine or two, while other  *)
(* processes switch the current context of the kubeconfig and a colleague's  *)
(* xpk authorizes its own network.                                         *)
(***************************************************************************)
EXTENDS ToolkitSetup

-----------------------------------------------------------------------------
(* cluster delete.                                                         *)

created_by_gcluster(c) == "blueprint" \in local[c.machine]

set_cluster_command ==
  /\ At("delete-credentials")
  /\ \/ /\ "cluster" \in has /\ file' = [file EXCEPT ![File] = "own"]
        /\ lost' = FALSE
        /\ GoTo(IF Asked("quiet") THEN "delete-cluster" ELSE "list-workloads")
     \/ Breaks /\ UNCHANGED <<file, lost>>
     \/ "cluster" \notin has /\ xpk_exit /\ UNCHANGED <<file, lost>>
  /\ UNCHANGED <<has, stray, Elsewise>>

(* The workloads that are listed are those of the cluster kubectl reaches.    *)
get_workload_list ==
  LET answer(busy) == IF busy /\ ~Asked("agrees")
                      THEN Ends("refused") /\ UNCHANGED faults
                      ELSE GoTo("delete-cluster")
  IN  /\ At("list-workloads")
      /\ \/ /\ Context = "own" /\ UNCHANGED contexts
            /\ \/ kueue.crds # "none" /\ answer(scenario.busy)
               \/ kueue.crds = "none" /\ xpk_exit
               \/ Breaks
         \/ /\ Context = "other" /\ stray' = stray \cup {pc}
            /\ \E busy \in BOOLEAN : answer(busy)
            /\ UNCHANGED <<file, lost>>
         \/ Context = "none" /\ xpk_exit /\ UNCHANGED contexts
      /\ UNCHANGED <<has, Elsewise>>

run_gke_cluster_delete_command ==
  /\ At("delete-cluster")
  /\ \/ "cluster" \in has /\ Gone /\ GoTo("list-subnets")
     \/ (Gone \/ Stays) /\ Breaks
     \/ "cluster" \notin has /\ xpk_exit /\ Stays
  /\ UNCHANGED <<blind, net, list, theirs, contexts, toolkit>>

-----------------------------------------------------------------------------

FirstStep(c) ==
  CASE c.verb = "create" /\ "adapt-from-ct" \notin c.options -> "server-config"
    [] c.verb = "delete" ->
         IF created_by_gcluster(c) THEN "toolkit-delete" ELSE "delete-credentials"
    [] OTHER -> IF "identity" \in WantedOf(c) THEN "identity" ELSE "credentials"

Begin ==
  /\ pc = "done" /\ rc' = "none"
  /\ \E c \in scenario.commands :
       /\ cmd' = c
       /\ pc' = IF /\ c.verb = "adapt" /\ c.device \in Gpus
                   /\ "nodes-given" \notin c.options
                THEN "count-nodes" ELSE FirstStep(c)
  /\ file' = [file EXCEPT !["sandbox"] = "none"]
  /\ lost' = FALSE /\ stray' = {} /\ blind' = {} /\ pending' = {} /\ list' = Idle
  /\ UNCHANGED <<scenario, faults, has, kueue, jobset, project, authorized,
                 theirs, overlap, promised, toolkit>>

Init ==
  /\ scenario \in Scenarios
  /\ cmd = NoCommand /\ pc = "done" /\ rc = "none" /\ faults = 0
  /\ has = scenario.has /\ kueue = scenario.kueue /\ jobset = scenario.jobset
  /\ project = {[kind |-> "subnet", index |-> 1, of |-> o] : o \in scenario.others}
  /\ authorized = scenario.authorized /\ promised = scenario.authorized
  /\ list = Idle /\ theirs = Idle /\ overlap = FALSE
  /\ \E c \in {"none", "other"} : file = [default |-> c, sandbox |-> "none"]
  /\ lost = FALSE /\ stray = {} /\ blind = {} /\ pending = {}
  /\ deployment = "none" /\ local = [m \in Machines |-> {}] /\ bucket = {}
  /\ clone = [m \in Machines |-> "absent"]

Create ==
  \/ get_gke_server_config \/ get_gke_control_plane_version
  \/ create_cluster_if_necessary
  \/ is_cluster_private \/ authorize_private_cluster_access_if_necessary
  \/ update_cluster_authorized_networks
  \/ update_cluster_with_workload_identity_if_necessary
  \/ update_cluster_with_mtc_if_necessary \/ get_cluster_credentials
  \/ update_coredns_if_necessary \/ setup_k8s_env \/ install_storage_crd
  \/ install_storage_csis \/ create_vertex_tensorboard
  \/ set_up_cluster_network_for_a3 \/ create_cluster_network_config
  \/ get_gke_node_pool_version \/ run_gke_node_pool_create_command
  \/ enable_autoprovisioning_on_cluster \/ create_cluster_configmaps
  \/ install_nccl_on_cluster \/ install_nri_on_cluster
  \/ delete_ray_cluster \/ generate_available_resources \/ install_ray_cluster
  \/ install_mtc_on_cluster \/ add_mtc_bucket_iam_member
  \/ update_jobset_manifest \/ create_mtc_cpc
  \/ grant_compute_default_sa_mldiagnostics_permissions
  \/ install_mldiagnostics_prerequisites \/ count_nodes_on_cluster

Install ==
  \/ _should_install_jobset \/ jobset_managed_externally \/ set_jobset_on_cluster
  \/ update_jobset_resources_if_necessary
  \/ get_installed_kueue_version \/ kueue_managed_externally \/ prepare_for_upgrade
  \/ delete_all_kueue_resources \/ __install_kueue_crs \/ __patch_tolerations
  \/ __wait_for_kueue_available \/ configure_kueue
  \/ __update_kueue_resources_if_necessary

Toolkit ==
  \/ prepare_gcluster_manager \/ validate_state_gcs_bucket
  \/ generate_blueprint \/ stage_files
  \/ _run_create_deployment_cmd \/ _run_deploy_cmd
  \/ upload_directory_to_gcs \/ upload_state
  \/ toolkit_credentials \/ download_state \/ stage_for_destroy
  \/ destroy_deployment

Delete ==
  \/ set_cluster_command \/ get_workload_list \/ run_gke_cluster_delete_command
  \/ get_all_subnets_programmatic \/ delete_cluster_subnets

Step == Create \/ Install \/ Toolkit \/ Delete

Others == ColleagueReads \/ ColleagueWrites \/ OtherSwitches

Next == Begin \/ Step \/ Others

Spec == Init /\ [][Next]_vars /\ WF_vars(Begin) /\ WF_vars(Step)

-----------------------------------------------------------------------------
(* What a run that returned 0 leaves in the cluster and the project.          *)

Finished(verbs) == pc = "done" /\ rc = "ok" /\ cmd.verb \in verbs
MakesCluster == Creating /\ ~Asked("adapt-from-ct")

PromisedAutoprovisioning ==
  When(Asked("nap"), {"autoprovisioning", "autoscaling-profile", "autoscaled-pools"})

(* What a cluster gets only when it is made: cluster.py:1226-1228 asks an        *)
(* existing one for none of it, and says nothing.                           *)
CreationOnly(c) ==
  Flags(c) \cap {"slice-controller", "managed-diagnostics", "private-endpoint"}

(* Whoever made the cluster asked for all of that, too.                       *)
MadeFor(c) ==
  /\ scenario.has = {}
  /\ \A d \in scenario.commands :
       d.verb = "create" /\ "adapt-from-ct" \notin d.options =>
         d.device \notin ToolkitDevices /\ CreationOnly(c) \subseteq Flags(d)

PromisedObjects ==
  {"storage-crd", "config-maps"}
  \cup ((Drivers \cup {"ray"}) \cap cmd.options)
  \cup When(Asked("lustre"), {"legacy-port"} \cap cmd.options)
  \cup When({"identity", "gcsfuse"} \cap cmd.options # {}
             /\ (Creating => MakesCluster), {"identity"})
  \cup When(MakesCluster /\ PrivateOptions \cap cmd.options # {}, {"private"})
  \cup When(MakesCluster /\ MadeFor(cmd), CreationOnly(cmd))
  \cup PromisedAutoprovisioning
  \cup When(cmd.device \in Gpus, {"nccl"}) \cup When(cmd.device = "h100", {"nri"})
  \cup When(MakesCluster, {"coredns", "pools"})
  \cup When(MakesCluster /\ cmd.device = "h100", {"network-config"})
  \cup When(Creating /\ Asked("mtc"), {"checkpointing", "checkpoint-configuration"})
  \cup When(MakesCluster /\ {"ml", "old-gke"} \subseteq cmd.options,
            {"cert-manager", "diagnostics-namespace", "diagnostics-webhook",
             "diagnostics-label", "diagnostics-operator"})

PromisedResources ==
  When(Asked("tensorboard"), {Resource("tensorboard", 0)})
  \cup When(MakesCluster /\ cmd.device = "h100", Range(A3Networks))
  \cup When(MakesCluster /\ Asked("ml"),
            {Resource("role-for-diagnostics", i) : i \in 1 .. 3})

QueuesWork == kueue.image # "none" /\ kueue.crds = "all" /\ kueue.objects = Quota

(* A create or adapt that returned 0, and none of whose commands reached       *)
(* another cluster, leaves what PromisedObjects and PromisedResources list,     *)
(* whatever earlier runs that ended anywhere left behind: cluster.py repeats   *)
(* no step it finds done and skips none that is not. What it may lose, each    *)
(* time with status 0, is left out:                                         *)
(*   - the slice controller, managed diagnostics and the private endpoint, on  *)
(*     a cluster that was made without them (MadeFor);                        *)
(*   - after a failure, the nodes that an interrupted run did not recreate     *)
(*     for Lustre, and the scaling of a CoreDNS it had just deployed;         *)
(*   - the Storage CRD, if the API failed (blind);                           *)
(*   - on Cluster Toolkit's path Kueue, whose failures it drops, and all of it   *)
(*     after Ctrl-C in a gcluster that runs natively.                        *)
SuccessIsComplete ==
  Finished({"create", "adapt"}) /\ stray = {} =>
    IF ByToolkit
    THEN /\ ~scenario.native => Blueprint.deploys \subseteq has
         /\ PromisedAutoprovisioning \subseteq has
         /\ Asked("bucket") => "blueprint" \in bucket
         /\ faults = 0 => QueuesWork
    ELSE /\ PromisedObjects \subseteq has \cup blind
         /\ PromisedResources \subseteq project
         /\ jobset.image # "none" /\ QueuesWork
         /\ faults = 0 =>
              When(Asked("lustre"), {"lustre-nodes"})
              \cup When(MakesCluster, {"coredns-scaled"}) \subseteq has

(* What others installed stays: unless kubectl left a question unanswered,     *)
(* xpk replaces or removes a Kueue only if it is older than its own and not   *)
(* managed by others, and takes it down with all its objects only after the   *)
(* user agreed (kueue_manager.py).                                         *)
OthersKueueKept ==
  [][/\ has' # {} /\ blind = {}
     /\ kueue'.image # kueue.image \/ (kueue'.crds # kueue.crds /\ kueue.crds = "all")
     => /\ ~kueue.external
        /\ kueue.image \in {"none", "breaking", "older"}
        /\ kueue'.crds # "all" => Consents]_vars

(* A machine that a run was told has access to the control plane of a private *)
(* cluster keeps it, whatever runs and colleagues authorize later, unless two  *)
(* of them read the list before either wrote it back (cluster_private.py:74).  *)
AuthorizedUnlessRaced == ~overlap => promised \subseteq authorized

(* While no other process touches the kubeconfig and get-credentials works,    *)
(* no kubectl command of a run reaches a cluster it was not started for, but  *)
(* for those that go by another kubeconfig than get-credentials writes, and   *)
(* the count of nodes, which does not wait for the credentials.              *)
OwnClusterOnly ==
  [][\A step \in stray' \ stray :
       \/ lost \/ step = "count-nodes"
       \/ /\ Asked("sandbox")
          /\ step \in {"storage-crd", "mtc-jobset", "mtc-configuration"}]_vars

(* A delete that returned 0 leaves nothing of the cluster: no object in it, no *)
(* subnet of its own, and nothing that Terraform made if the machine deletes  *)
(* with Cluster Toolkit. Some runs return 0 and deleted nothing: the user      *)
(* refused, gcluster ran natively and was interrupted, or Terraform knows of  *)
(* nothing on this machine (Ends("refused"), "interrupted", "nothing-known").  *)
DeletedMeansGone ==
  Finished({"delete"}) =>
    /\ has = {}
    /\ IF created_by_gcluster(cmd) THEN deployment = "none"
       ELSE \A r \in project : r.kind = "subnet" => r.of # "us"

(* What Terraform made, in part or in whole, can be deleted with it: a machine *)
(* has the blueprint by which delete decides for Cluster Toolkit, and the     *)
(* deployment, and reaches Terraform's state, wherever the run ended, as long  *)
(* as its user keeps to one bucket.                                        *)
CreatorCanDestroy ==
  deployment # "none" =>
    \E m \in Machines : {"blueprint", "deployment"} \subseteq local[m] /\ Knows(m)

(* A cluster made by Cluster Toolkit with a bucket "to store cluster state"    *)
(* (parser/cluster.py:114) has its Terraform state there.                   *)
BucketHasState ==
  Finished({"create"}) /\ ByToolkit /\ Asked("bucket") /\ faults = 0 =>
    "terraform" \in bucket

(* What xpk refuses for as long as the user repeats the same command.         *)
RefusedAlways(c) ==
  LET asks(option) == option \in c.options
      given(option) == option \in scenario.has
  IN  \/ c.verb = "adapt" /\ scenario.has = {}
      \/ asks("bad-version")
      \/ asks("adapt-from-ct") /\ scenario.has = {}
      \/ /\ c.verb = "adapt" /\ c.device \in Gpus
         /\ ~asks("nodes-given") \* counted elsewhere, where there may be none
      \/ asks("nap") /\ (c.device = "cpu" \/ asks("quota-too-small"))
      \/ /\ PrivateOptions \cap c.options # {}
         /\ scenario.has # {} /\ ~given("private")
      \/ asks("ray") /\ ~given("ray-operator")
         /\ (scenario.has # {} \/ "ray-operator" \notin Flags(c))
      \/ asks("ray") /\ c.verb = "adapt" /\ ~given("pools")
      \/ asks("mtc") /\ asks("adapt-from-ct") /\ ~given("checkpointing")
      \/ asks("no-mtc-bucket") \/ asks("sandbox")
      \/ scenario.kueue.crds # "all" /\ scenario.kueue.image # "none"
      \/ /\ scenario.kueue.image = "breaking" /\ ~scenario.kueue.external
         /\ {"quiet", "agrees"} \cap c.options = {}

(* A create or adapt that is repeated gets to 0 again and again once the       *)
(* failures have stopped, wherever they stopped it, but for three points: a    *)
(* Kueue whose CRDs are gone and whose deployment is not (kueue_manager.py    *)
(* :200), one managed by others whose CRDs an upgrade deleted because kubectl  *)
(* had not answered, and what an interrupted clone of CoreDNS's repository     *)
(* left in /tmp/deployment, which nothing replaces (cluster.py:967).          *)
Recovers ==
  (\E c \in scenario.commands :
     scenario.commands = {c} /\ c.verb # "delete" /\ ~RefusedAlways(c)) =>
  []<>(\/ pc = "done" /\ rc = "ok"
       \/ kueue.image = "breaking" /\ kueue.crds = "none"
       \/ kueue.external /\ kueue.crds = "some"
       \/ clone[cmd.machine] = "partial" /\ "coredns" \notin has)
=============================================================================
