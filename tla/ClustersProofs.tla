--------------------------- MODULE ClustersProofs ---------------------------
(******************************************************************************)
(* Proofs about Clusters for all scenarios, any number of networks and any    *)
(* number of faults.                                                          *)
(******************************************************************************)
EXTENDS Clusters, WellFoundedInduction, TLAPS

-----------------------------------------------------------------------------
(* The steps by the part of a run they belong to.                             *)

(* Up to the credentials.                                                     *)
Early ==
  {"count-nodes", "server-config", "control-plane-version", "cluster", "authorize",
   "read-networks", "write-networks", "identity", "mtc-addons"}

(* The steps of Pipeline after the credentials,                               *)
Offered ==
  {"coredns", "environment", "storage-crd", "gcsfuse", "filestore",
   "parallelstore", "pd", "lustre", "tensorboard", "networks", "pool-version",
   "nap", "config-maps", "jobset", "jobset-resources", "kueue", "nccl", "nri",
   "ray", "mtc", "ml", "ml-prerequisites"}

(* and what they consist of.                                                  *)
Late ==
  Offered \cup KueueSteps \cup
  {"coredns-found", "coredns-clone", "coredns-deploy", "coredns-scale",
   "coredns-ready", "coredns-cleanup",
   "recreate-nodes", "network-config", "pools", "nap-profile", "nap-pools",
   "jobset-external", "install-jobset", "patch-jobset", "ray-resources",
   "ray-apply", "mtc-environment", "mtc-bucket", "mtc-jobset",
   "mtc-configuration", "cert-manager", "cert-manager-ready", "ml-namespace",
   "ml-webhook", "ml-label", "ml-operator"}

ToolkitSteps ==
  {"toolkit", "validate-bucket", "blueprint", "stage", "gcluster-create",
   "gcluster-deploy", "upload", "upload-blueprint", "toolkit-credentials"}

DestroySteps == {"toolkit-delete", "stage-for-destroy", "destroy"}

DeleteSteps ==
  {"delete-credentials", "list-workloads", "delete-cluster", "list-subnets",
   "delete-subnets"}

-----------------------------------------------------------------------------
(* A set of numbers that is not empty has a least one.                        *)
LEMMA Least ==
  ASSUME NEW S \in SUBSET Nat, S # {}
  PROVE  Min(S) \in S /\ \A y \in S : Min(S) =< y
<1>1. PICK x \in S : \A y \in S : ~ (<<y, x>> \in OpToRel(<, Nat))
  BY NatLessThanWellFounded, WFMin, Zenon
<1>2. \A y \in S : ~ (y < x)
  BY <1>1, Zenon DEF OpToRel
<1>3. \A y \in S : x =< y
  BY <1>2
<1> QED BY <1>3 DEF Min

(* The places of the steps in Pipeline.                                       *)
LEMMA Places ==
  /\ DOMAIN Pipeline = 1 .. 29
  /\ Pipeline[29] = "done"
  /\ Pipeline[6] = "credentials"
  /\ \A i \in 7 .. 28 : Pipeline[i] \in Offered
  /\ \A name \in Offered : \E i \in 7 .. 28 : Pipeline[i] = name
  /\ Pipeline[3] = "authorize"
  /\ Pipeline[4] = "identity"
  /\ Pipeline[5] = "mtc-addons"
  /\ \A i, j \in 1 .. 29 : Pipeline[i] = Pipeline[j] => i = j
<1>1. DOMAIN Pipeline = 1 .. 29
  BY DEF Pipeline
<1>2. /\ Pipeline[1] = "server-config" /\ Pipeline[2] = "cluster"
      /\ Pipeline[3] = "authorize" /\ Pipeline[4] = "identity"
      /\ Pipeline[5] = "mtc-addons" /\ Pipeline[6] = "credentials"
      /\ Pipeline[7] = "coredns" /\ Pipeline[8] = "environment"
      /\ Pipeline[9] = "storage-crd" /\ Pipeline[10] = "gcsfuse"
      /\ Pipeline[11] = "filestore" /\ Pipeline[12] = "parallelstore"
      /\ Pipeline[13] = "pd" /\ Pipeline[14] = "lustre"
      /\ Pipeline[15] = "tensorboard" /\ Pipeline[16] = "networks"
      /\ Pipeline[17] = "pool-version" /\ Pipeline[18] = "nap"
      /\ Pipeline[19] = "config-maps" /\ Pipeline[20] = "jobset"
      /\ Pipeline[21] = "jobset-resources" /\ Pipeline[22] = "kueue"
      /\ Pipeline[23] = "nccl" /\ Pipeline[24] = "nri"
      /\ Pipeline[25] = "ray" /\ Pipeline[26] = "mtc"
      /\ Pipeline[27] = "ml" /\ Pipeline[28] = "ml-prerequisites"
      /\ Pipeline[29] = "done"
  BY DEF Pipeline
<1>3. \A i \in 7 .. 28 : Pipeline[i] \in Offered
  BY <1>2, SMTT(60) DEF Offered
<1>4. \A name \in Offered : \E i \in 7 .. 28 : Pipeline[i] = name
  BY <1>2, SMTT(60) DEF Offered
<1>5. \A i, j \in 1 .. 29 : Pipeline[i] = Pipeline[j] => i = j
  BY <1>2, SMTT(120)
<1> QED BY <1>1, <1>2, <1>3, <1>4, <1>5

(* The last step is always wanted, and the credentials are.                   *)
LEMMA Wanted == {"done", "credentials"} \subseteq WantedOf(cmd)
BY DEF WantedOf

(* What comes after a step is the next one that is wanted.                    *)
LEMMA NextWanted ==
  ASSUME NEW name, StepOf(name) \in 1 .. 28
  PROVE  \E i \in (StepOf(name) + 1) .. 29 :
           /\ After(name) = Pipeline[i]
           /\ StepOf(name) < 6 => i =< 6
<1>. DEFINE S == {i \in DOMAIN Pipeline :
                   i > StepOf(name) /\ Pipeline[i] \in WantedOf(cmd)}
<1>1. S \in SUBSET Nat
  BY Places
<1>2. 29 \in S
  BY Places, Wanted
<1>3. Min(S) \in S /\ \A y \in S : Min(S) =< y
  <2>. HIDE DEF S
  <2> QED BY <1>1, <1>2, Least
<1>4. StepOf(name) < 6 => 6 \in S
  BY Places, Wanted
<1>5. Min(S) \in (StepOf(name) + 1) .. 29
  <2>1. Min(S) \in DOMAIN Pipeline /\ Min(S) > StepOf(name)
    BY <1>3
  <2>. HIDE DEF S
  <2> QED BY <2>1, Places
<1>6. StepOf(name) < 6 => Min(S) =< 6
  <2>. HIDE DEF S
  <2> QED BY <1>3, <1>4
<1>7. After(name) = Pipeline[Min(S)]
  BY DEF After
<1>. HIDE DEF S
<1> QED BY <1>5, <1>6, <1>7

(* A step of Pipeline is found where it is.                                   *)
LEMMA PlaceOf ==
  ASSUME NEW i \in 1 .. 29
  PROVE  StepOf(Pipeline[i]) = i
BY Places DEF StepOf

(* What follows the credentials and the steps after them is one of those steps. *)
LEMMA AfterOffered ==
  \A name \in Offered \cup {"credentials"} : After(name) \in Offered \cup {"done"}
<1>. SUFFICES ASSUME NEW name \in Offered \cup {"credentials"}
     PROVE  After(name) \in Offered \cup {"done"}
  OBVIOUS
<1>1. PICK i \in 6 .. 28 : Pipeline[i] = name
  BY Places
<1>2. StepOf(name) = i
  BY <1>1, PlaceOf
<1>3. PICK j \in (i + 1) .. 29 : After(name) = Pipeline[j]
  BY <1>2, NextWanted
<1>4. j \in 7 .. 28 \/ j = 29
  BY <1>3
<1> QED BY <1>3, <1>4, Places

(* The credentials are not skipped.                                           *)
LEMMA AfterEarly ==
  \A name \in {"authorize", "identity", "mtc-addons"} :
    After(name) \in {"identity", "mtc-addons", "credentials"}
<1>. SUFFICES ASSUME NEW name \in {"authorize", "identity", "mtc-addons"}
     PROVE  After(name) \in {"identity", "mtc-addons", "credentials"}
  OBVIOUS
<1>1. PICK i \in 3 .. 5 : Pipeline[i] = name
  BY Places
<1>2. StepOf(name) = i
  BY <1>1, PlaceOf
<1>3. PICK j \in (i + 1) .. 29 : After(name) = Pipeline[j] /\ j =< 6
  BY <1>2, NextWanted
<1>4. j = 4 \/ j = 5 \/ j = 6
  BY <1>3
<1> QED BY <1>3, <1>4, Places

-----------------------------------------------------------------------------
(* How steps end, and what kubectl commands do to the contexts.               *)

(* A step leads to the one that is named or ends the run.                     *)
LEMMA Endings ==
  /\ \A result : Ends(result) => pc' = "done"
  /\ \A step : MovesTo(step) => pc' = step
  /\ \A step : GoTo(step) => pc' = step
  /\ xpk_exit => pc' = "done"
  /\ Breaks => pc' = "done"
  /\ \A step : Asks(step) => pc' \in {step, "done"}
  /\ \A things, step : Puts(things, step) => pc' \in {step, "done"}
  /\ \A things, step : GcloudPuts(things, step) => pc' \in {step, "done"}
<1>1. \A result : Ends(result) => pc' = "done"
  BY DEF Ends
<1>2. \A step : MovesTo(step) => pc' = step
  BY <1>1 DEF MovesTo
<1>3. \A step : GoTo(step) => pc' = step
  BY <1>2 DEF GoTo
<1>4. xpk_exit => pc' = "done"
  BY <1>1 DEF xpk_exit
<1>5. Breaks => pc' = "done"
  BY <1>1 DEF Breaks
<1>6. \A step : Asks(step) => pc' \in {step, "done"}
  BY <1>3, <1>5 DEF Asks
<1>7. \A things, step : Puts(things, step) => pc' \in {step, "done"}
  BY <1>3, <1>5 DEF Puts
<1>8. \A things, step : GcloudPuts(things, step) => pc' \in {step, "done"}
  BY <1>4, <1>7 DEF GcloudPuts
<1> QED BY <1>1, <1>2, <1>3, <1>4, <1>5, <1>6, <1>7, <1>8

(* A command that reached another cluster is recorded as stray.               *)
Reaches(context) ==
  /\ UNCHANGED <<file, lost>>
  /\ stray' = stray \/ (stray' = stray \cup {pc} /\ context = "other")

(* What commands of kubectl do to the contexts.                               *)
LEMMA Reaching ==
  /\ \A context, step :
       Elsewhere(context, step) => pc' \in {step, "done"} /\ Reaches(context)
  /\ \A context, things, step :
       KubectlPuts(context, things, step)
         => pc' \in {step, "done"} /\ Reaches(context)
<1>1. \A context, step :
        Elsewhere(context, step) => pc' \in {step, "done"} /\ Reaches(context)
  BY Endings DEF Elsewhere, Reaches, contexts
<1>2. \A context, things, step :
        KubectlPuts(context, things, step)
          => pc' \in {step, "done"} /\ Reaches(context)
  BY Endings, <1>1 DEF KubectlPuts, Reaches, contexts
<1> QED BY <1>1, <1>2

-----------------------------------------------------------------------------
(* From the credentials on.                                                   *)

(* The steps that go by the kubernetes library.                               *)
Library == {"storage-crd", "mtc-jobset", "mtc-configuration"}

(* The steps that may replace or remove a Kueue, and those that lead to them. *)
UpgradeSteps ==
  {"kueue-external", "prepare-upgrade", "delete-kueue-objects",
   "delete-kueue-crds", "delete-kueue-deployment", "install-kueue"}

InstallsKueue ==
  \/ get_installed_kueue_version \/ kueue_managed_externally \/ prepare_for_upgrade
  \/ delete_all_kueue_resources \/ __install_kueue_crs \/ __patch_tolerations
  \/ __wait_for_kueue_available \/ configure_kueue
  \/ __update_kueue_resources_if_necessary

LateEffect ==
  /\ pc \in {"credentials"} \cup Late
  /\ pc' \in Late \cup {"done"}
  /\ UNCHANGED <<scenario, cmd, access, deployment, local, bucket>>
  /\ IF pc \in KueueSteps THEN InstallsKueue ELSE kueue' = kueue
  /\ pc \notin {"kueue"} \cup UpgradeSteps => pc' \notin UpgradeSteps
  /\ pc' = "recreate-nodes" => pc = "lustre"
  /\ pc \in {"lustre", "recreate-nodes"} => install_storage_csis
  /\ pc = "coredns-deploy" => deploy_coredns_manifests
  /\ pc = "coredns-scale" => scale_up_coredns
  /\ pc \in {"nap", "nap-profile", "nap-pools"} => enable_autoprovisioning_on_cluster
  /\ \/ UNCHANGED <<file, lost>> /\ (pc = "credentials" => pc' = "done")
     \/ lost' = FALSE /\ file' = [file EXCEPT ![File] = "own"]
     \/ lost' = TRUE /\ file' = file
  /\ \/ stray' = stray
     \/ /\ stray' = stray \cup {pc} /\ pc \in Late
        /\ Context = "other" \/ (pc \in Library /\ LibraryContext = "other")

LateSteps ==
  \/ get_cluster_credentials
  \/ update_coredns_if_necessary
  \/ setup_k8s_env
  \/ install_storage_crd
  \/ install_storage_csis
  \/ create_vertex_tensorboard
  \/ set_up_cluster_network_for_a3
  \/ create_cluster_network_config
  \/ get_gke_node_pool_version
  \/ run_gke_node_pool_create_command
  \/ enable_autoprovisioning_on_cluster
  \/ create_cluster_configmaps
  \/ install_nccl_on_cluster
  \/ install_nri_on_cluster
  \/ delete_ray_cluster
  \/ generate_available_resources
  \/ install_ray_cluster
  \/ install_mtc_on_cluster
  \/ add_mtc_bucket_iam_member
  \/ update_jobset_manifest
  \/ create_mtc_cpc
  \/ grant_compute_default_sa_mldiagnostics_permissions
  \/ install_mldiagnostics_prerequisites
  \/ _should_install_jobset
  \/ jobset_managed_externally
  \/ set_jobset_on_cluster
  \/ update_jobset_resources_if_necessary
  \/ get_installed_kueue_version
  \/ kueue_managed_externally
  \/ prepare_for_upgrade
  \/ delete_all_kueue_resources
  \/ __install_kueue_crs
  \/ __patch_tolerations
  \/ __wait_for_kueue_available
  \/ configure_kueue
  \/ __update_kueue_resources_if_necessary

(* Every step from the credentials on has that effect.                        *)
LEMMA Lately == LateSteps => LateEffect
<1>. USE Endings, Reaching, AfterOffered
     DEF At, LateEffect, Late, Offered, KueueSteps, UpgradeSteps, Library, Reaches,
         Frame, Elsewise, contexts, installed, net, access, toolkit
<1>1. get_cluster_credentials => LateEffect
  BY DEF get_cluster_credentials, GetCredentials
<1>2. update_coredns_if_necessary => LateEffect
  <2>1. coredns_deployment_exists => LateEffect
    BY DEF coredns_deployment_exists
  <2>2. \A step, deployed, next :
          _wait_for_deployment_ready(step, deployed, next) =>
            /\ pc = step /\ pc' \in {next, "done"}
            /\ UNCHANGED <<scenario, cmd, kueue, access, deployment, local, bucket>>
            /\ Reaches(Context)
    BY DEF _wait_for_deployment_ready
  <2>3. verify_coredns_readiness("coredns-found", After("coredns")) => LateEffect
    BY <2>2 DEF verify_coredns_readiness
  <2>4. verify_coredns_readiness("coredns-ready", "coredns-cleanup") => LateEffect
    BY <2>2 DEF verify_coredns_readiness
  <2>5. clone_coredns_deployment_repo => LateEffect
    BY DEF clone_coredns_deployment_repo
  <2>6. cleanup_coredns_repo => LateEffect
    BY DEF cleanup_coredns_repo
  <2>7. deploy_coredns_manifests => LateEffect
    BY DEF deploy_coredns_manifests
  <2>8. scale_up_coredns => LateEffect
    BY DEF scale_up_coredns
  <2> QED
    BY <2>1, <2>3, <2>4, <2>5, <2>6, <2>7, <2>8, Zenon
    DEF update_coredns_if_necessary, update_coredns
<1>3. setup_k8s_env => LateEffect
  BY DEF setup_k8s_env, Environment, GetCredentials
<1>4. install_storage_crd => LateEffect
  BY DEF install_storage_crd
<1>5. install_storage_csis => LateEffect
  BY DEF install_storage_csis, update_cluster_with_gcsfuse_driver_if_necessary,
         update_cluster_with_gcpfilestore_driver_if_necessary,
         update_cluster_with_parallelstore_driver_if_necessary,
         update_cluster_with_pd_driver_if_necessary,
         update_cluster_with_lustre_driver_if_necessary,
         recreate_nodes_in_existing_node_pools, update_gke_cluster_with_addons,
         update_gke_cluster_with_lustre_driver_enabled, GcloudUpdate,
         IfNecessary, DriverIfNecessary
<1>6. create_vertex_tensorboard => LateEffect
  BY DEF create_vertex_tensorboard, Makes
<1>7. set_up_cluster_network_for_a3 => LateEffect
  BY DEF set_up_cluster_network_for_a3, Makes
<1>8. create_cluster_network_config => LateEffect
  BY DEF create_cluster_network_config, Kubectl, KubectlApply
<1>9. get_gke_node_pool_version => LateEffect
  BY DEF get_gke_node_pool_version, GcloudUpdate, IfNecessary
<1>10. run_gke_node_pool_create_command => LateEffect
  BY DEF run_gke_node_pool_create_command, GcloudUpdate, IfNecessary
<1>11. enable_autoprovisioning_on_cluster => LateEffect
  BY DEF enable_autoprovisioning_on_cluster, GcloudUpdate, IfNecessary
<1>12. create_cluster_configmaps => LateEffect
  BY DEF create_cluster_configmaps, Kubectl, KubectlApply
<1>13. install_nccl_on_cluster => LateEffect
  BY DEF install_nccl_on_cluster, Kubectl, KubectlApply
<1>14. install_nri_on_cluster => LateEffect
  BY DEF install_nri_on_cluster, Kubectl, KubectlApply
<1>15. delete_ray_cluster => LateEffect
  BY DEF delete_ray_cluster
<1>16. generate_available_resources => LateEffect
  BY DEF generate_available_resources
<1>17. install_ray_cluster => LateEffect
  BY DEF install_ray_cluster, Kubectl, KubectlApply
<1>18. install_mtc_on_cluster => LateEffect
  BY DEF install_mtc_on_cluster
<1>19. add_mtc_bucket_iam_member => LateEffect
  BY DEF add_mtc_bucket_iam_member, Makes
<1>20. update_jobset_manifest => LateEffect
  BY DEF update_jobset_manifest
<1>21. create_mtc_cpc => LateEffect
  BY DEF create_mtc_cpc
<1>22. grant_compute_default_sa_mldiagnostics_permissions => LateEffect
  BY DEF grant_compute_default_sa_mldiagnostics_permissions
<1>23. install_mldiagnostics_prerequisites => LateEffect
  BY DEF install_mldiagnostics_prerequisites, Kubectl, KubectlApply,
         _install_cert_manager, _install_mldiagnostics_yaml,
         _label_default_namespace_mldiagnostics, _wait_for_deployment_ready
<1>24. _should_install_jobset => LateEffect
  BY DEF _should_install_jobset, Question
<1>25. jobset_managed_externally => LateEffect
  BY DEF jobset_managed_externally, Question
<1>26. set_jobset_on_cluster => LateEffect
  BY DEF set_jobset_on_cluster, Kubectl, KubectlApply, AppliesJobSet,
         patch_controller_manager_resources
<1>27. update_jobset_resources_if_necessary => LateEffect
  BY DEF update_jobset_resources_if_necessary, AppliesJobSet
<1>28. get_installed_kueue_version => LateEffect
  BY DEF InstallsKueue, get_installed_kueue_version, Question
<1>29. kueue_managed_externally => LateEffect
  BY DEF InstallsKueue, kueue_managed_externally, Question
<1>30. prepare_for_upgrade => LateEffect
  BY DEF InstallsKueue, prepare_for_upgrade
<1>31. delete_all_kueue_resources => LateEffect
  BY DEF InstallsKueue, delete_all_kueue_resources, Changes, Cannot
<1>32. __install_kueue_crs => LateEffect
  BY DEF InstallsKueue, __install_kueue_crs, Changes
<1>33. __patch_tolerations => LateEffect
  BY DEF InstallsKueue, __patch_tolerations, Changes
<1>34. __wait_for_kueue_available => LateEffect
  BY DEF InstallsKueue, __wait_for_kueue_available, Changes
<1>35. configure_kueue => LateEffect
  BY DEF InstallsKueue, configure_kueue, Changes, Cannot
<1>36. __update_kueue_resources_if_necessary => LateEffect
  BY DEF InstallsKueue, __update_kueue_resources_if_necessary, Kubectl,
         KubectlApply, patch_controller_manager_resources
<1>. HIDE DEF LateEffect
<1> QED BY <1>1, <1>2, <1>3, <1>4, <1>5, <1>6, <1>7, <1>8, <1>9, <1>10,
           <1>11, <1>12, <1>13, <1>14, <1>15, <1>16, <1>17, <1>18, <1>19,
           <1>20, <1>21, <1>22, <1>23, <1>24, <1>25, <1>26, <1>27, <1>28,
           <1>29, <1>30, <1>31, <1>32, <1>33, <1>34, <1>35, <1>36
    DEF LateSteps

-----------------------------------------------------------------------------
(* Before the credentials.                                                    *)

EarlyEffect ==
  /\ pc \in Early \ {"read-networks", "write-networks"}
  /\ \/ pc' \in (Early \ {"write-networks"}) \cup {"credentials", "done"}
     \/ pc' = "toolkit" /\ ByToolkit
  /\ UNCHANGED <<scenario, cmd, kueue, access, toolkit, file, lost>>
  /\ stray' = stray \/ (pc = "count-nodes" /\ stray' = stray \cup {pc})

EarlySteps ==
  \/ count_nodes_on_cluster
  \/ get_gke_server_config
  \/ get_gke_control_plane_version
  \/ create_cluster_if_necessary
  \/ is_cluster_private
  \/ update_cluster_with_workload_identity_if_necessary
  \/ update_cluster_with_mtc_if_necessary

(* Every step before the credentials has that effect.                         *)
LEMMA First == EarlySteps => EarlyEffect
<1>. USE Endings, Reaching, AfterEarly
     DEF At, EarlyEffect, Early, Reaches, Elsewise, contexts, installed, net,
         access, toolkit
<1>1. count_nodes_on_cluster => EarlyEffect
  BY DEF count_nodes_on_cluster
<1>2. get_gke_server_config => EarlyEffect
  BY DEF get_gke_server_config
<1>3. get_gke_control_plane_version => EarlyEffect
  BY DEF get_gke_control_plane_version
<1>4. create_cluster_if_necessary => EarlyEffect
  BY DEF create_cluster_if_necessary
<1>5. is_cluster_private => EarlyEffect
  BY DEF is_cluster_private
<1>6. update_cluster_with_workload_identity_if_necessary => EarlyEffect
  BY DEF update_cluster_with_workload_identity_if_necessary, IfNecessary,
         update_gke_cluster_with_workload_identity_enabled
<1>7. update_cluster_with_mtc_if_necessary => EarlyEffect
  BY DEF update_cluster_with_mtc_if_necessary, IfNecessary,
         update_gke_cluster_with_addons
<1> QED BY <1>1, <1>2, <1>3, <1>4, <1>5, <1>6, <1>7 DEF EarlySteps

-----------------------------------------------------------------------------
(* Creating with Cluster Toolkit.                                             *)

ToolkitEffect ==
  /\ pc \in ToolkitSteps
  /\ pc' \in ToolkitSteps \cup {"nap", "kueue", "done"}
  /\ UNCHANGED <<scenario, cmd, kueue, access, stray>>
  /\ \/ UNCHANGED <<file, lost>> /\ pc' \in ToolkitSteps \cup {"done"}
     \/ lost' = FALSE /\ file' = [file EXCEPT ![File] = "own"]
     \/ lost' = TRUE /\ file' = file

MakesDeployment ==
  \/ prepare_gcluster_manager
  \/ validate_state_gcs_bucket
  \/ generate_blueprint
  \/ stage_files
  \/ _run_create_deployment_cmd
  \/ _run_deploy_cmd
  \/ upload_directory_to_gcs
  \/ upload_state
  \/ toolkit_credentials

(* Every step of a creation with Cluster Toolkit has that effect.             *)
LEMMA WithToolkit == MakesDeployment => ToolkitEffect
<1>. USE Endings
     DEF At, ToolkitEffect, ToolkitSteps, ToolkitAsks, Writes, Uploads,
         run_command, run_command_with_full_controls, Elsewise, contexts,
         installed, net, access, toolkit
<1>1. prepare_gcluster_manager => ToolkitEffect
  BY DEF prepare_gcluster_manager
<1>2. validate_state_gcs_bucket => ToolkitEffect
  BY DEF validate_state_gcs_bucket
<1>3. generate_blueprint => ToolkitEffect
  BY DEF generate_blueprint
<1>4. stage_files => ToolkitEffect
  BY DEF stage_files
<1>5. _run_create_deployment_cmd => ToolkitEffect
  BY DEF _run_create_deployment_cmd
<1>6. _run_deploy_cmd => ToolkitEffect
  BY DEF _run_deploy_cmd
<1>7. upload_directory_to_gcs => ToolkitEffect
  BY DEF upload_directory_to_gcs
<1>8. upload_state => ToolkitEffect
  BY DEF upload_state
<1>9. toolkit_credentials => ToolkitEffect
  BY DEF toolkit_credentials, GetCredentials
<1> QED
  BY <1>1, <1>2, <1>3, <1>4, <1>5, <1>6, <1>7, <1>8, <1>9 DEF MakesDeployment

(* All steps of Clusters.                                                     *)
Destroys == download_state \/ stage_for_destroy \/ destroy_deployment

WritesNetworks ==
  \/ authorize_private_cluster_access_if_necessary
  \/ update_cluster_authorized_networks

(* There are no other steps.                                                  *)
LEMMA AllSteps ==
  Step => LateSteps \/ EarlySteps \/ WritesNetworks \/ MakesDeployment \/ Destroys
          \/ Delete
BY DEF Step, Create, Install, Toolkit, LateSteps, EarlySteps, WritesNetworks,
       MakesDeployment, Destroys

-----------------------------------------------------------------------------
(* Whether what a run was asked for is there at its end.                      *)

JobSets == [image : KueueImages, external : BOOLEAN]

(* Creating and adapting add to what is there, but for Ray's cluster, which is *)
(* made again, and the memory of the JobSet controller.                       *)
Growth ==
  /\ UNCHANGED <<scenario, cmd>>
  /\ faults' \in {faults, faults + 1}
  /\ blind \subseteq blind' /\ project \subseteq project' /\ stray \subseteq stray'
  /\ jobset' \in {jobset, [jobset EXCEPT !.image = "current"]}
  /\ has \ {"ray", "large-jobset"} \subseteq has'
  /\ pc # "ray" => has \ {"large-jobset"} \subseteq has'
  /\ has' = {} => has = {}
  /\ pc \notin {"cluster", "gcluster-deploy"} => (has = {} => has' = {})
  /\ pc \notin {"cluster", "lustre"} =>
       has' \cap {"lustre", "legacy-port"} \subseteq has
  /\ pc # "coredns-deploy" => has' \cap {"coredns"} \subseteq has

GrowingSteps == LateSteps \/ EarlySteps \/ WritesNetworks \/ MakesDeployment

(* The faults of a step, and what it adds.                                    *)
Counts == faults' \in {faults, faults + 1}
Adds(things) == has \subseteq has' /\ has' \subseteq has \cup things

AddsToCluster == has = {} => has' = {}

(* Kubectl reaches the run's own cluster only if there is one.                *)
LEMMA OwnThere ==
  /\ Context = "own" => "cluster" \in has
  /\ LibraryContext = "own" => "cluster" \in has
BY DEF Context, LibraryContext, Reached

(* What the ways in which steps end add.                                      *)
LEMMA Adding ==
  /\ \A step : GoTo(step) => Counts
  /\ xpk_exit => Counts
  /\ Fault => Counts
  /\ Breaks => Counts
  /\ \A step : Asks(step) => Counts
  /\ \A things, step : Puts(things, step) => Counts /\ Adds(things)
  /\ \A things, step :
       GcloudPuts(things, step) => Counts /\ Adds(things) /\ AddsToCluster
  /\ \A context, step : Elsewhere(context, step) => Counts /\ stray \subseteq stray'
  /\ \A context, things, step :
       KubectlPuts(context, things, step)
         => /\ Counts /\ Adds(things) /\ stray \subseteq stray'
            /\ context \in {Context, LibraryContext} => AddsToCluster
<1>1. \A step : GoTo(step) => Counts
  BY DEF GoTo, Counts
<1>2. xpk_exit => Counts
  BY DEF xpk_exit, Counts
<1>3. Fault => Counts
  BY DEF Fault, Counts
<1>4. Breaks => Counts
  BY <1>3 DEF Breaks
<1>5. \A step : Asks(step) => Counts
  BY <1>1, <1>4 DEF Asks
<1>6. \A things, step : Puts(things, step) => Counts /\ Adds(things)
  BY <1>1, <1>4 DEF Puts, Adds
<1>7. \A things, step :
        GcloudPuts(things, step) => Counts /\ Adds(things) /\ AddsToCluster
  BY <1>2, <1>6 DEF GcloudPuts, Adds, AddsToCluster
<1>8. \A context, step : Elsewhere(context, step) => Counts /\ stray \subseteq stray'
  BY <1>1, <1>2 DEF Elsewhere, contexts
<1>9. \A context, things, step :
       KubectlPuts(context, things, step)
         => Counts /\ Adds(things) /\ stray \subseteq stray'
  BY <1>6, <1>8 DEF KubectlPuts, Adds, contexts
<1>10. \A context, things, step :
         KubectlPuts(context, things, step) /\ context \in {Context, LibraryContext}
           => AddsToCluster
  BY OwnThere DEF KubectlPuts, AddsToCluster
<1> QED BY <1>1, <1>2, <1>3, <1>4, <1>5, <1>6, <1>7, <1>8, <1>9, <1>10

(* The steps from the credentials on only add, but for those two things,      *)
LEMMA GrowingLate == LateSteps => Growth
<1>. USE Adding DEF At, Growth, Adds, AddsToCluster, Counts, Frame, Elsewise, contexts,
         installed, net, access, toolkit
<1>1. get_cluster_credentials => Growth
  BY DEF get_cluster_credentials, GetCredentials
<1>2. update_coredns_if_necessary => Growth
  <2>1. coredns_deployment_exists => Growth
    BY DEF coredns_deployment_exists, MovesTo
  <2>2. \A step, deployed, next :
          _wait_for_deployment_ready(step, deployed, next) => Growth
    BY DEF _wait_for_deployment_ready
  <2>3. clone_coredns_deployment_repo => Growth
    BY DEF clone_coredns_deployment_repo
  <2>4. cleanup_coredns_repo => Growth
    BY DEF cleanup_coredns_repo
  <2>5. deploy_coredns_manifests => Growth
    BY DEF deploy_coredns_manifests
  <2>6. scale_up_coredns => Growth
    BY DEF scale_up_coredns
  <2> QED
    BY <2>1, <2>2, <2>3, <2>4, <2>5, <2>6, Zenon
    DEF update_coredns_if_necessary, update_coredns, verify_coredns_readiness
<1>3. setup_k8s_env => Growth
  BY DEF setup_k8s_env, Environment, GetCredentials
<1>4. install_storage_crd => Growth
  BY DEF install_storage_crd
<1>5. install_storage_csis => Growth
  BY DEF install_storage_csis, update_cluster_with_gcsfuse_driver_if_necessary,
         update_cluster_with_gcpfilestore_driver_if_necessary,
         update_cluster_with_parallelstore_driver_if_necessary,
         update_cluster_with_pd_driver_if_necessary,
         update_cluster_with_lustre_driver_if_necessary,
         recreate_nodes_in_existing_node_pools, update_gke_cluster_with_addons,
         update_gke_cluster_with_lustre_driver_enabled, GcloudUpdate,
         IfNecessary, DriverIfNecessary
<1>6. create_vertex_tensorboard => Growth
  BY DEF create_vertex_tensorboard, Makes
<1>7. set_up_cluster_network_for_a3 => Growth
  BY DEF set_up_cluster_network_for_a3, Makes
<1>8. create_cluster_network_config => Growth
  BY DEF create_cluster_network_config, Kubectl, KubectlApply
<1>9. get_gke_node_pool_version => Growth
  BY DEF get_gke_node_pool_version, GcloudUpdate, IfNecessary
<1>10. run_gke_node_pool_create_command => Growth
  BY DEF run_gke_node_pool_create_command, GcloudUpdate, IfNecessary
<1>11. enable_autoprovisioning_on_cluster => Growth
  BY DEF enable_autoprovisioning_on_cluster, GcloudUpdate, IfNecessary
<1>12. create_cluster_configmaps => Growth
  BY DEF create_cluster_configmaps, Kubectl, KubectlApply
<1>13. install_nccl_on_cluster => Growth
  BY DEF install_nccl_on_cluster, Kubectl, KubectlApply
<1>14. install_nri_on_cluster => Growth
  BY DEF install_nri_on_cluster, Kubectl, KubectlApply
<1>15. delete_ray_cluster => Growth
  BY DEF delete_ray_cluster
<1>16. generate_available_resources => Growth
  BY DEF generate_available_resources
<1>17. install_ray_cluster => Growth
  BY DEF install_ray_cluster, Kubectl, KubectlApply
<1>18. install_mtc_on_cluster => Growth
  BY DEF install_mtc_on_cluster
<1>19. add_mtc_bucket_iam_member => Growth
  BY DEF add_mtc_bucket_iam_member, Makes
<1>20. update_jobset_manifest => Growth
  BY DEF update_jobset_manifest
<1>21. create_mtc_cpc => Growth
  BY DEF create_mtc_cpc
<1>22. grant_compute_default_sa_mldiagnostics_permissions => Growth
  BY DEF grant_compute_default_sa_mldiagnostics_permissions
<1>23. install_mldiagnostics_prerequisites => Growth
  BY DEF install_mldiagnostics_prerequisites, Kubectl, KubectlApply,
         _install_cert_manager, _install_mldiagnostics_yaml,
         _label_default_namespace_mldiagnostics, _wait_for_deployment_ready
<1>24. _should_install_jobset => Growth
  BY DEF _should_install_jobset, Question, MovesTo
<1>25. jobset_managed_externally => Growth
  BY DEF jobset_managed_externally, Question
<1>26. set_jobset_on_cluster => Growth
  BY OwnThere DEF set_jobset_on_cluster, Kubectl, KubectlApply, AppliesJobSet,
         patch_controller_manager_resources
<1>27. update_jobset_resources_if_necessary => Growth
  BY OwnThere DEF update_jobset_resources_if_necessary, AppliesJobSet
<1>28. get_installed_kueue_version => Growth
  BY DEF get_installed_kueue_version, Question
<1>29. kueue_managed_externally => Growth
  BY DEF kueue_managed_externally, Question
<1>30. prepare_for_upgrade => Growth
  BY DEF prepare_for_upgrade
<1>31. delete_all_kueue_resources => Growth
  BY DEF delete_all_kueue_resources, Changes, Cannot
<1>32. __install_kueue_crs => Growth
  BY DEF __install_kueue_crs, Changes
<1>33. __patch_tolerations => Growth
  BY DEF __patch_tolerations, Changes
<1>34. __wait_for_kueue_available => Growth
  BY DEF __wait_for_kueue_available, Changes
<1>35. configure_kueue => Growth
  BY DEF configure_kueue, Changes, Cannot
<1>36. __update_kueue_resources_if_necessary => Growth
  BY DEF __update_kueue_resources_if_necessary, Kubectl,
         KubectlApply, patch_controller_manager_resources
<1> QED BY <1>1, <1>2, <1>3, <1>4, <1>5, <1>6, <1>7, <1>8, <1>9, <1>10,
           <1>11, <1>12, <1>13, <1>14, <1>15, <1>16, <1>17, <1>18, <1>19,
           <1>20, <1>21, <1>22, <1>23, <1>24, <1>25, <1>26, <1>27, <1>28,
           <1>29, <1>30, <1>31, <1>32, <1>33, <1>34, <1>35, <1>36
    DEF LateSteps

(* and so do those before them and those of Cluster Toolkit.                  *)
LEMMA GrowingEarly == EarlySteps \/ WritesNetworks \/ MakesDeployment => Growth
<1>. USE Adding DEF At, Growth, Adds, AddsToCluster, Counts, Elsewise, contexts,
         installed, net, access, toolkit
<1>0. count_nodes_on_cluster => Growth
  BY DEF count_nodes_on_cluster
<1>1. EarlySteps => Growth
  <2>1. get_gke_server_config => Growth
    BY DEF get_gke_server_config
  <2>2. get_gke_control_plane_version => Growth
    BY DEF get_gke_control_plane_version
  <2>3. create_cluster_if_necessary => Growth
    <3>1. "coredns" \notin Flags(cmd)
      BY DEF Flags, When, Drivers
    <3> QED BY <3>1 DEF create_cluster_if_necessary
  <2>4. is_cluster_private => Growth
    BY DEF is_cluster_private
  <2>5. update_cluster_with_workload_identity_if_necessary => Growth
    BY DEF update_cluster_with_workload_identity_if_necessary,
           update_gke_cluster_with_workload_identity_enabled, IfNecessary
  <2>6. update_cluster_with_mtc_if_necessary => Growth
    BY DEF update_cluster_with_mtc_if_necessary, update_gke_cluster_with_addons,
           IfNecessary
  <2> QED BY <1>0, <2>1, <2>2, <2>3, <2>4, <2>5, <2>6, Zenon DEF EarlySteps
<1>2. WritesNetworks => Growth
  BY DEF WritesNetworks, authorize_private_cluster_access_if_necessary,
         update_cluster_authorized_networks
<1>3. _run_deploy_cmd => Growth
  <2>1. Blueprint.deploys \cap {"lustre", "legacy-port", "coredns"} = {}
    BY DEF Blueprint, generate_a3_mega_blueprint, generate_a3_ultra_blueprint,
           generate_a4_blueprint, DeployedByAll
  <2> QED BY <2>1 DEF _run_deploy_cmd, run_command, run_command_with_full_controls
<1>4. MakesDeployment => Growth
  BY <1>3 DEF MakesDeployment, prepare_gcluster_manager, validate_state_gcs_bucket,
         generate_blueprint, stage_files, _run_create_deployment_cmd,
         upload_directory_to_gcs, upload_state, toolkit_credentials, GetCredentials,
         ToolkitAsks, Writes, Uploads, run_command, run_command_with_full_controls
<1> QED BY <1>1, <1>2, <1>4

-----------------------------------------------------------------------------
(* The order of the steps, and what each leaves behind.                       *)

(* What a state says of the cluster and the project.                          *)
Now == [has |-> has, blind |-> blind, project |-> project, jobset |-> jobset,
        kueue |-> kueue, faults |-> faults]

Queues(c, s) ==
  /\ s.kueue.image # "none" /\ s.kueue.crds = "all"
  /\ s.kueue.objects = IF "nap" \in c.options THEN "nap" ELSE "fixed"

(* What each step of Pipeline leaves behind.                                  *)
ObjectsOf(name) ==
  CASE name = "networks" -> {"network-config"}
    [] name = "pool-version" -> {"pools"}
    [] name = "nap" -> {"autoprovisioning", "autoscaling-profile", "autoscaled-pools"}
    [] name = "mtc" -> {"checkpointing", "checkpoint-configuration"}
    [] name = "ml-prerequisites" ->
         {"cert-manager", "diagnostics-namespace", "diagnostics-webhook",
          "diagnostics-label", "diagnostics-operator"}
    [] name \in Drivers \cup {"identity", "coredns", "storage-crd", "config-maps",
                              "nccl", "nri", "ray"} -> {name}
    [] OTHER -> {}

ResourcesOf(name) ==
  CASE name = "tensorboard" -> {Resource("tensorboard", 0)}
    [] name = "networks" -> Range(A3Networks)
    [] name = "ml" -> {Resource("role-for-diagnostics", i) : i \in 1 .. 3}
    [] OTHER -> {}

Port(c, s) == "legacy-port" \in c.options => "legacy-port" \in s.has
Private(c, s) == PrivateOptions \cap c.options # {} => "private" \in s.has

Leaves(name, c, s) ==
  /\ ObjectsOf(name) \subseteq s.has \cup (s.blind \cap {"storage-crd"})
  /\ ResourcesOf(name) \subseteq s.project
  /\ name = "jobset" => s.jobset.image # "none"
  /\ name = "kueue" => Queues(c, s)
  /\ name = "lustre" /\ s.faults = 0 => "lustre-nodes" \in s.has
  /\ name = "lustre" => Port(c, s)
  /\ name = "authorize" => Private(c, s)

(* The step of Pipeline that a step is a part of.                             *)
PartOf(step) ==
  CASE step \in {"count-nodes", "control-plane-version"} -> "server-config"
    [] step \in {"read-networks", "write-networks"} -> "authorize"
    [] step \in {"coredns-found", "coredns-clone", "coredns-deploy", "coredns-scale",
                 "coredns-ready", "coredns-cleanup"} -> "coredns"
    [] step = "recreate-nodes" -> "lustre"
    [] step = "network-config" -> "networks"
    [] step = "pools" -> "pool-version"
    [] step \in {"nap-profile", "nap-pools"} -> "nap"
    [] step \in {"jobset-external", "install-jobset", "patch-jobset"} -> "jobset"
    [] step \in KueueSteps -> "kueue"
    [] step \in {"ray-resources", "ray-apply"} -> "ray"
    [] step \in {"mtc-environment", "mtc-bucket", "mtc-jobset", "mtc-configuration"}
         -> "mtc"
    [] step \in {"cert-manager", "cert-manager-ready", "ml-namespace", "ml-webhook",
                 "ml-label", "ml-operator"} -> "ml-prerequisites"
    [] OTHER -> step

(* What the parts before it have left.                                        *)
Half(step, c, s) ==
  /\ step = "count-nodes" => "authorize" \notin WantedOf(c)
  /\ step \in {"read-networks", "write-networks"} => Private(c, s)
  /\ step = "coredns-cleanup" => "coredns" \in s.has
  /\ step = "recreate-nodes" => "lustre" \in s.has /\ Port(c, s)
  /\ step = "network-config" => Range(A3Networks) \subseteq s.project
  /\ step \in {"nap-profile", "nap-pools"} => "autoprovisioning" \in s.has
  /\ step = "nap-pools" => "autoscaling-profile" \in s.has
  /\ step \in {"jobset-external", "patch-jobset"} => s.jobset.image # "none"
  /\ step \in {"kueue-external", "patch-tolerations", "wait-for-kueue", "configure-kueue"}
       => s.kueue.image # "none"
  /\ step = "kueue-resources" => Queues(c, s)
  /\ step \in {"cert-manager-ready", "ml-namespace", "ml-webhook", "ml-label",
               "ml-operator"} => "cert-manager" \in s.has
  /\ step \in {"ml-webhook", "ml-label", "ml-operator"}
       => "diagnostics-namespace" \in s.has
  /\ step \in {"ml-label", "ml-operator"} => "diagnostics-webhook" \in s.has
  /\ step = "ml-operator" => "diagnostics-label" \in s.has

(* All that was wanted of the steps before the k-th is there.                 *)
Passed(k, c, s) ==
  \A i \in 1 .. (k - 1) : Pipeline[i] \in WantedOf(c) => Leaves(Pipeline[i], c, s)

Ready(step, c, s) == Passed(StepOf(PartOf(step)), c, s) /\ Half(step, c, s)

(* What a step has to keep of a state s if it is a part of the k-th.           *)
Grown(k, s, t) ==
  /\ s.has \ {"ray", "large-jobset"} \subseteq t.has
  /\ k > 25 => s.has \ {"large-jobset"} \subseteq t.has
  /\ s.blind \subseteq t.blind /\ s.project \subseteq t.project
  /\ s.jobset.image # "none" => t.jobset.image # "none"
  /\ k > 22 => t.kueue = s.kueue
  /\ t.faults = 0 => s.faults = 0

(* What was left by earlier steps is held by what grows.                      *)
LEMMA Held ==
  ASSUME NEW k \in 1 .. 29, NEW c, NEW s, NEW t, Passed(k, c, s), Grown(k, s, t)
  PROVE  Passed(k, c, t)
<1>. SUFFICES ASSUME NEW i \in 1 .. (k - 1), Pipeline[i] \in WantedOf(c)
     PROVE  Leaves(Pipeline[i], c, t)
  BY DEF Passed
<1>. DEFINE name == Pipeline[i]
<1>1. Leaves(name, c, s)
  BY DEF Passed
<1>2. Pipeline[22] = "kueue" /\ Pipeline[25] = "ray"
  BY DEF Pipeline
<1>3. i \in 1 .. 29 /\ (name = "kueue" => i = 22) /\ (name = "ray" => i = 25)
  BY <1>2, Places
<1>4. name = "kueue" => t.kueue = s.kueue
  BY <1>3 DEF Grown
<1>5. "large-jobset" \notin ObjectsOf(name) /\ ("ray" \in ObjectsOf(name) => name = "ray")
  BY DEF ObjectsOf, Drivers
<1>6. ObjectsOf(name) \subseteq t.has \cup (t.blind \cap {"storage-crd"})
  <2>1. ObjectsOf(name) \subseteq s.has \cup (s.blind \cap {"storage-crd"})
    BY <1>1 DEF Leaves
  <2>2. CASE name = "ray"
    BY <1>3, <1>5, <2>1, <2>2 DEF Grown
  <2>3. CASE name # "ray"
    BY <1>5, <2>1, <2>3 DEF Grown
  <2> QED BY <2>2, <2>3
<1>7. name = "lustre" /\ t.faults = 0 => "lustre-nodes" \in t.has
  BY <1>1 DEF Leaves, Grown
<1>a. (name = "lustre" => Port(c, t)) /\ (name = "authorize" => Private(c, t))
  BY <1>1 DEF Leaves, Grown, Port, Private
<1>. HIDE DEF name
<1>8. Leaves(name, c, t)
  BY <1>1, <1>4, <1>6, <1>7, <1>a DEF Leaves, Grown, Queues
<1> QED BY <1>8 DEF name

(* The steps of Pipeline are parts of themselves.                             *)
LEMMA Whole ==
  /\ \A i \in 1 .. 29 : PartOf(Pipeline[i]) = Pipeline[i]
  /\ \A i \in 1 .. 29 : \A c, s : Half(Pipeline[i], c, s)
<1>1. \A i \in 1 .. 29 :
        Pipeline[i] \in Offered \cup {"server-config", "cluster", "authorize",
          "identity", "mtc-addons", "credentials", "done"}
  <2>1. Pipeline[1] = "server-config" /\ Pipeline[2] = "cluster"
    BY DEF Pipeline
  <2> QED BY <2>1, Places
<1>2. \A name \in Offered \cup {"server-config", "cluster", "authorize",
          "identity", "mtc-addons", "credentials", "done"} : PartOf(name) = name
  BY DEF PartOf, Offered, KueueSteps
<1>3. \A name \in Offered \cup {"server-config", "cluster", "authorize",
          "identity", "mtc-addons", "credentials", "done"} :
        \A c, s : Half(name, c, s)
  BY DEF Half, Offered
<1> QED BY <1>1, <1>2, <1>3

(* After a step of Pipeline nothing that is wanted is skipped.                *)
LEMMA NothingSkipped ==
  ASSUME NEW name, StepOf(name) \in 1 .. 28
  PROVE  \E i \in (StepOf(name) + 1) .. 29 :
           /\ After(name) = Pipeline[i]
           /\ \A j \in (StepOf(name) + 1) .. (i - 1) : Pipeline[j] \notin WantedOf(cmd)
<1>. DEFINE S == {i \in DOMAIN Pipeline :
                   i > StepOf(name) /\ Pipeline[i] \in WantedOf(cmd)}
<1>1. S \in SUBSET Nat
  BY Places
<1>2. 29 \in S
  BY Places, Wanted
<1>3. Min(S) \in S /\ \A y \in S : Min(S) =< y
  <2>. HIDE DEF S
  <2> QED BY <1>1, <1>2, Least
<1>4. Min(S) \in (StepOf(name) + 1) .. 29
  <2>1. Min(S) \in DOMAIN Pipeline /\ Min(S) > StepOf(name)
    BY <1>3
  <2>. HIDE DEF S
  <2> QED BY <2>1, Places
<1>5. \A j \in (StepOf(name) + 1) .. (Min(S) - 1) : Pipeline[j] \notin WantedOf(cmd)
  <2>. SUFFICES ASSUME NEW j \in (StepOf(name) + 1) .. (Min(S) - 1),
                       Pipeline[j] \in WantedOf(cmd)
       PROVE  FALSE
    OBVIOUS
  <2>1. j \in S
    <3>1. j > StepOf(name) /\ j \in 1 .. 29
      <4>. HIDE DEF S
      <4> QED BY <1>4
    <3> QED BY <3>1, Places
  <2>. HIDE DEF S
  <2> QED BY <1>3, <1>4, <2>1
<1>6. After(name) = Pipeline[Min(S)]
  BY DEF After
<1>. HIDE DEF S
<1> QED BY <1>4, <1>5, <1>6

(* A step of Pipeline that has left what it was for leads to the next.         *)
LEMMA Onward ==
  ASSUME NEW i \in 1 .. 28, NEW s, Passed(i, cmd, s),
         Pipeline[i] \in WantedOf(cmd) => Leaves(Pipeline[i], cmd, s)
  PROVE  Ready(After(Pipeline[i]), cmd, s)
<1>1. StepOf(Pipeline[i]) = i
  BY PlaceOf
<1>2. PICK j \in (i + 1) .. 29 :
        /\ After(Pipeline[i]) = Pipeline[j]
        /\ \A l \in (i + 1) .. (j - 1) : Pipeline[l] \notin WantedOf(cmd)
  BY <1>1, NothingSkipped
<1>3. j \in 1 .. 29 /\ StepOf(PartOf(Pipeline[j])) = j
  <2>1. j \in 1 .. 29
    OBVIOUS
  <2> QED BY <2>1, Whole, PlaceOf
<1>4. Passed(j, cmd, s)
  <2>1. \A l \in 1 .. (j - 1) : l \in 1 .. (i - 1) \/ l = i \/ l \in (i + 1) .. (j - 1)
    OBVIOUS
  <2> QED BY <1>2, <2>1 DEF Passed
<1> QED BY <1>2, <1>3, <1>4, Whole DEF Ready

(* A run that goes through Pipeline, not by Cluster Toolkit.                  *)
Piped == cmd.verb \in {"create", "adapt"} /\ ~ByToolkit

Fails == pc' = "done" /\ rc' # "ok"

(* The steps of Pipeline before the last.                                     *)
Parts ==
  Offered \cup {"server-config", "cluster", "authorize", "identity", "mtc-addons",
                "credentials"}

(* How a step that does not fail goes on: to another part of the same step of  *)
(* Pipeline, or to the next one.                                              *)
Proceeds == PartOf(pc') = PartOf(pc) /\ Half(pc', cmd, Now')
Finishes ==
  /\ pc' = After(PartOf(pc))
  /\ PartOf(pc) \in WantedOf(cmd) => Leaves(PartOf(pc), cmd, Now')
GoesOn == Fails \/ stray' # {} \/ Proceeds \/ Finishes

(* Each way to end a step either fails, goes astray or does what it is for.   *)
LEMMA Outcomes ==
  ASSUME ~ByToolkit
  PROVE
  /\ xpk_exit => Fails
  /\ Breaks => Fails
  /\ \A step : Asks(step) => Fails \/ pc' = step
  /\ \A things, step : Puts(things, step) =>
       Fails \/ (pc' = step /\ has' = has \cup things)
  /\ \A things, step : GcloudPuts(things, step) =>
       Fails \/ (pc' = step /\ has' = has \cup things)
  /\ \A context, step : Elsewhere(context, step) => Fails \/ stray' # {}
  /\ \A context, things, step : KubectlPuts(context, things, step) =>
       Fails \/ stray' # {} \/ (pc' = step /\ has' = has \cup things)
<1>0. Failure = "failed"
  BY DEF Failure
<1>1. xpk_exit => Fails
  BY <1>0 DEF xpk_exit, Ends, Fails
<1>2. Breaks => Fails
  BY <1>0 DEF Breaks, Ends, Fails
<1>3. \A step : Asks(step) => Fails \/ pc' = step
  BY <1>2, Endings DEF Asks
<1>4. \A things, step : Puts(things, step) =>
       Fails \/ (pc' = step /\ has' = has \cup things)
  BY <1>2, Endings DEF Puts
<1>5. \A things, step : GcloudPuts(things, step) =>
       Fails \/ (pc' = step /\ has' = has \cup things)
  BY <1>1, <1>4 DEF GcloudPuts
<1>6. \A context, step : Elsewhere(context, step) => Fails \/ stray' # {}
  BY <1>1 DEF Elsewhere
<1>7. \A context, things, step : KubectlPuts(context, things, step) =>
       Fails \/ stray' # {} \/ (pc' = step /\ has' = has \cup things)
  BY <1>4, <1>6 DEF KubectlPuts
<1> QED BY <1>1, <1>2, <1>3, <1>4, <1>5, <1>6, <1>7

(* Each of them is a step of Pipeline.                                        *)
LEMMA PartPlaces == \A name \in Parts : \E i \in 1 .. 28 : Pipeline[i] = name
<1>1. Pipeline[1] = "server-config" /\ Pipeline[2] = "cluster"
  BY DEF Pipeline
<1> QED BY <1>1, Places DEF Parts

(* What a step keeps.                                                         *)
LEMMA GrownByStep ==
  ASSUME Growth, jobset \in JobSets, faults \in Nat, NEW i \in 1 .. 28,
         PartOf(pc) = Pipeline[i], pc \notin KueueSteps => kueue' = kueue
  PROVE  Grown(i, Now, Now')
<1>1. Pipeline[22] = "kueue" /\ Pipeline[25] = "ray"
  BY DEF Pipeline
<1>2. pc = "ray" => i = 25
  <2>1. pc = "ray" => PartOf(pc) = "ray"
    BY DEF PartOf, KueueSteps
  <2> QED BY <1>1, <2>1, Places
<1>3. pc \in KueueSteps => i = 22
  <2>1. pc \in KueueSteps => PartOf(pc) = "kueue"
    BY DEF PartOf, KueueSteps
  <2> QED BY <1>1, <2>1, Places
<1>4. jobset.image # "none" => jobset'.image # "none"
  BY DEF Growth, JobSets
<1>5. faults' = 0 => faults = 0
  BY DEF Growth
<1> QED BY <1>2, <1>3, <1>4, <1>5 DEF Growth, Grown, Now

(* A step that goes on leaves all that the next one can count on.             *)
LEMMA Advance ==
  ASSUME Growth, jobset \in JobSets, faults \in Nat, Ready(pc, cmd, Now),
         PartOf(pc) \in Parts, pc \notin KueueSteps => kueue' = kueue, GoesOn
  PROVE  Fails \/ stray' # {} \/ Ready(pc', cmd, Now')
<1>1. PICK i \in 1 .. 28 : Pipeline[i] = PartOf(pc)
  BY PartPlaces
<1>2. StepOf(PartOf(pc)) = i
  BY <1>1, PlaceOf
<1>3. Passed(i, cmd, Now')
  <2>1. Passed(i, cmd, Now) /\ Grown(i, Now, Now')
    BY <1>1, <1>2, GrownByStep DEF Ready
  <2> QED BY <2>1, Held
<1>4. CASE Proceeds
  BY <1>2, <1>3, <1>4 DEF Proceeds, Ready
<1>5. CASE Finishes
  <2>1. pc' = After(Pipeline[i])
    BY <1>1, <1>5 DEF Finishes
  <2>2. CASE PartOf(pc) \in WantedOf(cmd)
    <3>1. Leaves(Pipeline[i], cmd, Now')
      BY <1>1, <1>5, <2>2 DEF Finishes
    <3>2. Ready(After(Pipeline[i]), cmd, Now')
      BY <1>3, <3>1, Onward
    <3> QED BY <2>1, <3>2
  <2>3. CASE PartOf(pc) \notin WantedOf(cmd)
    <3>2. Ready(After(Pipeline[i]), cmd, Now')
      BY <1>1, <1>3, <2>3, Onward
    <3> QED BY <2>1, <3>2
  <2> QED BY <2>2, <2>3
<1> QED BY <1>4, <1>5 DEF GoesOn

-----------------------------------------------------------------------------
(* The types of the variables.                                                *)

(* The files of Cluster Toolkit on a machine, and the current contexts.       *)
LocalFiles ==
  {"directory", "blueprint", "staged", "deployment", "backend", "terraform"}
CurrentContexts == {"none", "own", "other"}

TypeInv ==
  /\ scenario \in Scenarios
  /\ cmd \in scenario.commands \cup {NoCommand}
  /\ local \in [Machines -> SUBSET LocalFiles]
  /\ file \in [default : CurrentContexts, sandbox : CurrentContexts]

(* A run is at one of the two machines.                                       *)
LEMMA Machine == TypeInv => cmd.machine \in Machines
BY ScenariosAssumption DEF TypeInv, ScenarioSet, CommandSet, NoCommand, Machines

(* The steps with Cluster Toolkit write its files on the machine of the run.  *)
LEMMA LocalType ==
  ASSUME TypeInv, MakesDeployment \/ Destroys
  PROVE  local' \in [Machines -> SUBSET LocalFiles]
<1>. DEFINE Type(l) == l \in [Machines -> SUBSET LocalFiles]
<1>1. Type(local) /\ cmd.machine \in Machines
  BY Machine DEF TypeInv
<1>2. \A things \in SUBSET LocalFiles : Type(With(things))
  BY <1>1 DEF With
<1>3. CASE prepare_gcluster_manager \/ validate_state_gcs_bucket \/ download_state
  BY <1>1, <1>3 DEF prepare_gcluster_manager, validate_state_gcs_bucket,
     download_state, ToolkitAsks, toolkit
<1>4. CASE generate_blueprint \/ stage_files \/ stage_for_destroy
  BY <1>1, <1>2, <1>4 DEF generate_blueprint, stage_files, stage_for_destroy,
     Writes, LocalFiles
<1>5. CASE _run_create_deployment_cmd
  <2>1. local' = local
        \/ local' = [local EXCEPT ![cmd.machine] =
                       (@ \ {"backend"}) \cup
                       {"deployment"} \cup When(Blueprint.backend, {"backend"})]
    BY <1>5 DEF _run_create_deployment_cmd, run_command
  <2>2. When(Blueprint.backend, {"backend"}) \subseteq LocalFiles
    BY DEF When, LocalFiles
  <2>3. "deployment" \in LocalFiles
    BY DEF LocalFiles
  <2> QED BY <1>1, <2>1, <2>2, <2>3
<1>6. CASE _run_deploy_cmd
  <2>1. local' = local \/ local' = With({"terraform"})
    BY <1>6 DEF _run_deploy_cmd, Learns, toolkit
  <2> QED BY <1>1, <1>2, <2>1 DEF LocalFiles
<1>7. CASE upload_directory_to_gcs \/ upload_state \/ toolkit_credentials
  BY <1>1, <1>7 DEF upload_directory_to_gcs, upload_state, toolkit_credentials,
     Uploads, Elsewise, toolkit
<1>8. CASE destroy_deployment
  <2>1. local' = local
        \/ local' = [local EXCEPT ![cmd.machine] = @ \ {"terraform"}]
    BY <1>8 DEF destroy_deployment, run_command, Forgets, toolkit
  <2> QED BY <1>1, <2>1
<1> QED
  BY <1>3, <1>4, <1>5, <1>6, <1>7, <1>8 DEF MakesDeployment, Destroys

(* No step but those changes them.                                            *)
LEMMA LocalKept ==
  LateEffect \/ EarlyEffect \/ WritesNetworks \/ Delete \/ Others \/ Begin
    => UNCHANGED <<deployment, local, bucket>>
BY DEF LateEffect, EarlyEffect, WritesNetworks, Delete, Others, Begin, toolkit,
   authorize_private_cluster_access_if_necessary,
   update_cluster_authorized_networks, set_cluster_command, get_workload_list,
   run_gke_cluster_delete_command,
   get_all_subnets_programmatic, delete_cluster_subnets, ColleagueReads,
   ColleagueWrites, OtherSwitches, Elsewise

(* A scenario is never left, and a command only for another of its commands.  *)
LEMMA ScenarioKept ==
  /\ Next => scenario' = scenario
  /\ Step \/ Others => cmd' = cmd
<1>1. LateSteps \/ EarlySteps \/ MakesDeployment => UNCHANGED <<scenario, cmd>>
  BY Lately, First, WithToolkit DEF LateEffect, EarlyEffect, ToolkitEffect
<1>2. WritesNetworks \/ Destroys \/ Delete => UNCHANGED <<scenario, cmd>>
  BY DEF WritesNetworks, Destroys, Delete, At, ToolkitAsks, Writes,
     authorize_private_cluster_access_if_necessary,
     update_cluster_authorized_networks, download_state, stage_for_destroy,
     destroy_deployment, set_cluster_command, get_workload_list,
     run_gke_cluster_delete_command, get_all_subnets_programmatic,
     delete_cluster_subnets
<1>3. Others => UNCHANGED <<scenario, cmd>>
  BY DEF Others, ColleagueReads, ColleagueWrites, OtherSwitches, control
<1> QED BY <1>1, <1>2, <1>3, AllSteps DEF Next, Begin

(* What the steps do to the contexts of the kubeconfig.                       *)
ContextEffect ==
  \/ UNCHANGED file
  \/ file' = [file EXCEPT ![File] = "own"]
  \/ file' = [file EXCEPT !["default"] = "other"]
  \/ file' = [file EXCEPT !["sandbox"] = "none"]

(* No step does anything else to them.                                        *)
LEMMA FileKept == Next => ContextEffect
<1>1. LateSteps \/ EarlySteps \/ MakesDeployment => ContextEffect
  BY Lately, First, WithToolkit
  DEF LateEffect, EarlyEffect, ToolkitEffect, ContextEffect
<1>2. WritesNetworks \/ Destroys \/ Delete => ContextEffect
  BY DEF WritesNetworks, Destroys, Delete, ToolkitAsks, Writes, contexts,
     authorize_private_cluster_access_if_necessary,
     update_cluster_authorized_networks, download_state, stage_for_destroy,
     destroy_deployment, set_cluster_command, get_workload_list,
     run_gke_cluster_delete_command, get_all_subnets_programmatic,
     delete_cluster_subnets, ContextEffect
<1>3. Others \/ Begin => ContextEffect
  BY DEF Others, ColleagueReads, ColleagueWrites, OtherSwitches, Begin, contexts,
     ContextEffect
<1> QED BY <1>1, <1>2, <1>3, AllSteps DEF Next

(* Every step keeps the types.                                                *)
LEMMA TypeNext == TypeInv /\ [Next]_vars => TypeInv'
<1>. SUFFICES ASSUME TypeInv, Next PROVE TypeInv'
  BY DEF TypeInv, vars, control, contexts, toolkit
<1>1. scenario' = scenario /\ cmd' \in scenario.commands \cup {NoCommand}
  BY ScenarioKept DEF Next, Begin, TypeInv
<1>2. local' \in [Machines -> SUBSET LocalFiles]
  <2>1. UNCHANGED <<deployment, local, bucket>> \/ MakesDeployment \/ Destroys
    BY AllSteps, Lately, First, LocalKept DEF Next
  <2> QED BY <2>1, LocalType DEF TypeInv
<1>3. file' \in [default : CurrentContexts, sandbox : CurrentContexts]
  <2>1. File \in {"default", "sandbox"}
    BY DEF File
  <2> QED BY <2>1, FileKept DEF ContextEffect, TypeInv, CurrentContexts
<1> QED BY <1>1, <1>2, <1>3 DEF TypeInv

(* The types hold at first.                                                   *)
LEMMA TypeInit == Init => TypeInv
<1>. SUFFICES ASSUME Init PROVE TypeInv
  OBVIOUS
<1>1. scenario \in Scenarios /\ cmd = NoCommand
  BY DEF Init
<1>2. local \in [Machines -> SUBSET LocalFiles]
  BY DEF Init
<1>3. file \in [default : CurrentContexts, sandbox : CurrentContexts]
  BY DEF Init, CurrentContexts
<1> QED BY <1>1, <1>2, <1>3 DEF TypeInv

(* How a command begins.                                                      *)
LEMMA FirstOf ==
  ASSUME TypeInv, NEW c \in scenario.commands
  PROVE  /\ c.verb \in {"create", "adapt", "delete"}
         /\ IF c.verb = "delete"
            THEN FirstStep(c) = IF created_by_gcluster(c) THEN "toolkit-delete"
                                ELSE "delete-credentials"
            ELSE FirstStep(c) \in {"server-config", "identity", "credentials"}
<1>1. c.verb \in {"create", "adapt", "delete"}
  BY ScenariosAssumption DEF TypeInv, ScenarioSet, CommandSet
<1> QED BY <1>1 DEF FirstStep

(* The types of what the proofs below look into hold always.                  *)
LEMMA Typed == Spec => []TypeInv
BY TypeInit, TypeNext, PTL DEF Spec

-----------------------------------------------------------------------------
(* Authorized networks.                                                       *)

(* As long as no two writers overlapped, a list that waits to be written back *)
(* lacks nothing that was promised.                                           *)
AccessInv ==
  /\ AuthorizedUnlessRaced
  /\ theirs.reading =>
       /\ "colleague" \in theirs.list
       /\ ~overlap => authorized \subseteq theirs.list
  /\ list.reading /\ ~overlap =>
       /\ OwnNetwork \subseteq list.list
       /\ ~Asked("networks") => promised \subseteq list.list
  /\ list.reading <=> pc = "write-networks"

(* What leaves the networks alone does not come near their writing.           *)
LEMMA AccessElsewhere ==
  ASSUME AccessInv, UNCHANGED <<cmd, access>>,
         (pc = "write-networks") <=> (pc' = "write-networks")
  PROVE  AccessInv'
BY DEF AccessInv, AuthorizedUnlessRaced, access, OwnNetwork, Asked

(* Neither does the end of the cluster.                                       *)
LEMMA AccessGone ==
  ASSUME AccessInv, Gone \/ Stays, UNCHANGED <<cmd, list, theirs>>,
         pc # "write-networks", pc' # "write-networks"
  PROVE  AccessInv'
BY DEF AccessInv, AuthorizedUnlessRaced, Gone, Stays, OwnNetwork, Asked

(* The run itself reads the list, and writes it back.                         *)
LEMMA AccessWrites == AccessInv /\ WritesNetworks => AccessInv'
<1>1. ASSUME AccessInv, authorize_private_cluster_access_if_necessary
      PROVE  AccessInv'
  <2>. DEFINE new == NewNetworks(authorized)
  <2>1. /\ pc = "read-networks" /\ UNCHANGED <<cmd, authorized, theirs, overlap>>
        /\ \/ Breaks /\ UNCHANGED <<list, promised>>
           \/ /\ GoTo("write-networks") /\ UNCHANGED promised
              /\ list' = [reading |-> TRUE, list |-> new]
           \/ /\ new = authorized /\ GoTo(After("authorize"))
              /\ promised' = promised \cup OwnNetwork /\ UNCHANGED list
    BY <1>1 DEF authorize_private_cluster_access_if_necessary, At
  <2>2. /\ OwnNetwork \subseteq new
        /\ ~Asked("networks") => authorized \subseteq new
    BY DEF NewNetworks, add_current_machine_to_networks,
       check_if_new_authorized_networks_needed
  <2>3. OwnNetwork' = OwnNetwork /\ Asked("networks")' = Asked("networks")
    BY <2>1 DEF OwnNetwork, Asked
  <2>. HIDE DEF new
  <2>4. CASE Breaks /\ UNCHANGED <<list, promised>>
    BY <1>1, <2>1, <2>3, <2>4, Endings DEF AccessInv, AuthorizedUnlessRaced
  <2>5. CASE /\ GoTo("write-networks") /\ UNCHANGED promised
             /\ list' = [reading |-> TRUE, list |-> new]
    BY <1>1, <2>1, <2>2, <2>3, <2>5, Endings DEF AccessInv, AuthorizedUnlessRaced
  <2>6. CASE /\ new = authorized /\ GoTo(After("authorize"))
             /\ promised' = promised \cup OwnNetwork /\ UNCHANGED list
    BY <1>1, <2>1, <2>2, <2>3, <2>6, Endings, AfterEarly
    DEF AccessInv, AuthorizedUnlessRaced
  <2> QED BY <2>1, <2>4, <2>5, <2>6
<1>2. ASSUME AccessInv, update_cluster_authorized_networks
      PROVE  AccessInv'
  <2>. DEFINE kept == IF Asked("networks") THEN {} ELSE promised
  <2>1. /\ pc = "write-networks" /\ UNCHANGED <<cmd, theirs>>
        /\ list' = Idle /\ overlap' = (overlap \/ theirs.reading)
        /\ \/ /\ authorized' = list.list /\ GoTo(After("authorize"))
              /\ promised' = kept \cup OwnNetwork
           \/ authorized' \in {authorized, list.list} /\ Breaks /\ promised' = kept
    BY <1>2 DEF update_cluster_authorized_networks, At
  <2>2. pc' # "write-networks"
    BY <2>1, Endings, AfterEarly
  <2>3. ~overlap => /\ kept \subseteq authorized /\ kept \subseteq list.list
                    /\ OwnNetwork \subseteq list.list
    BY <1>2, <2>1 DEF AccessInv, AuthorizedUnlessRaced
  <2>. HIDE DEF kept
  <2> QED BY <1>2, <2>1, <2>2, <2>3 DEF AccessInv, AuthorizedUnlessRaced, Idle
<1> QED BY <1>1, <1>2 DEF WritesNetworks

(* A colleague's xpk does the same at any time.                               *)
LEMMA AccessColleague == AccessInv /\ Others => AccessInv'
<1>1. ASSUME AccessInv, ColleagueReads PROVE AccessInv'
  BY <1>1 DEF ColleagueReads, control, AccessInv, AuthorizedUnlessRaced, OwnNetwork,
     Asked
<1>2. ASSUME AccessInv, ColleagueWrites PROVE AccessInv'
  BY <1>2 DEF ColleagueWrites, control, AccessInv, AuthorizedUnlessRaced,
     OwnNetwork, Asked, Idle
<1>3. ASSUME AccessInv, OtherSwitches PROVE AccessInv'
  BY <1>3, AccessElsewhere DEF OtherSwitches, Elsewise
<1> QED BY <1>1, <1>2, <1>3 DEF Others

(* All steps of the run.                                                      *)
LEMMA AccessStep == AccessInv /\ Step => AccessInv'
<1>1. ASSUME AccessInv, LateSteps PROVE AccessInv'
  BY <1>1, Lately, AccessElsewhere DEF LateEffect, Late, Offered, KueueSteps
<1>2. ASSUME AccessInv, EarlySteps PROVE AccessInv'
  BY <1>2, First, AccessElsewhere DEF EarlyEffect, Early
<1>3. ASSUME AccessInv, MakesDeployment PROVE AccessInv'
  BY <1>3, WithToolkit, AccessElsewhere DEF ToolkitEffect, ToolkitSteps
<1>4. ASSUME AccessInv, Destroys PROVE AccessInv'
  <2>1. CASE download_state \/ stage_for_destroy
    BY <1>4, <2>1, Endings, AccessElsewhere
    DEF download_state, stage_for_destroy, ToolkitAsks, Writes, At
  <2>2. CASE destroy_deployment
    <3>1. pc' = "done" /\ UNCHANGED <<cmd, list, theirs>> /\ pc = "destroy"
      BY <2>2, Endings DEF destroy_deployment, run_command,
         run_command_with_full_controls, At
    <3>2. Gone \/ Stays
      BY <2>2 DEF destroy_deployment, run_command
    <3> QED BY <1>4, <3>1, <3>2, AccessGone
  <2> QED BY <1>4, <2>1, <2>2 DEF Destroys
<1>5. ASSUME AccessInv, Delete PROVE AccessInv'
  <2>1. CASE run_gke_cluster_delete_command
    <3>1. /\ pc = "delete-cluster" /\ pc' \in {"list-subnets", "done"}
          /\ UNCHANGED <<cmd, list, theirs>>
      BY <2>1, Endings DEF run_gke_cluster_delete_command, At
    <3>2. Gone \/ Stays
      BY <2>1 DEF run_gke_cluster_delete_command
    <3> QED BY <1>5, <3>1, <3>2, AccessGone
  <2>2. CASE set_cluster_command \/ get_workload_list
    BY <1>5, <2>2, Endings, AccessElsewhere
    DEF set_cluster_command, get_workload_list, At, Elsewise
  <2>3. CASE get_all_subnets_programmatic \/ delete_cluster_subnets
    BY <1>5, <2>3, Endings, AccessElsewhere
    DEF get_all_subnets_programmatic, delete_cluster_subnets, At
  <2> QED BY <1>5, <2>1, <2>2, <2>3 DEF Delete
<1> QED BY <1>1, <1>2, <1>3, <1>4, <1>5, AccessWrites, AllSteps

(* All steps.                                                                 *)
LEMMA AccessNext == TypeInv /\ AccessInv /\ [Next]_vars => AccessInv'
<1>1. ASSUME TypeInv, AccessInv, Begin PROVE AccessInv'
  <2>1. PICK c \in scenario.commands :
          pc' = IF /\ c.verb = "adapt" /\ c.device \in Gpus
                   /\ "nodes-given" \notin c.options
                THEN "count-nodes" ELSE FirstStep(c)
    BY <1>1 DEF Begin
  <2>2. pc' # "write-networks"
    BY <2>1, FirstOf, <1>1
  <2> QED BY <1>1, <2>2 DEF AccessInv, AuthorizedUnlessRaced, Begin, Idle
<1>2. ASSUME AccessInv, UNCHANGED vars PROVE AccessInv'
  BY <1>2, AccessElsewhere DEF vars, control
<1> QED BY <1>1, <1>2, AccessStep, AccessColleague DEF Next

(* A machine that was told it has access keeps it, unless two writers of the  *)
(* list overlapped (cluster_private.py:74).                                   *)
THEOREM AccessKept == Spec => []AuthorizedUnlessRaced
<1>1. Init => AccessInv
  BY DEF Init, AccessInv, AuthorizedUnlessRaced, Idle
<1>2. AccessInv => AuthorizedUnlessRaced
  BY DEF AccessInv
<1> QED BY Typed, <1>1, <1>2, AccessNext, PTL DEF Spec

-----------------------------------------------------------------------------
(* Which command is at which of the steps.                                    *)

(* A cluster is deleted with Cluster Toolkit as long as the blueprint is      *)
(* there; the subnets are listed when the cluster is gone, and all of ours are *)
(* on the list. A failure of delete is not taken for success.                 *)
DeleteInv ==
  /\ pc \in {"credentials"} \cup Early \cup Late \cup ToolkitSteps
       => cmd.verb # "delete"
  /\ pc \in DestroySteps => cmd.verb = "delete" /\ created_by_gcluster(cmd)
  /\ pc \in DeleteSteps => cmd.verb = "delete" /\ ~created_by_gcluster(cmd)
  /\ pc \in {"list-subnets", "delete-subnets"} => has = {}
  /\ pc = "delete-subnets" =>
       \A r \in project : r.kind = "subnet" /\ r.of = "us" => r \in pending
  /\ DeletedMeansGone

(* Steps of a create or an adapt that stay with it.                           *)
LEMMA NotDeleting ==
  ASSUME DeleteInv, UNCHANGED cmd, cmd.verb # "delete",
         pc' \notin DestroySteps \cup DeleteSteps
  PROVE  DeleteInv'
BY DEF DeleteInv, DeletedMeansGone, Finished, DeleteSteps

(* A delete that fails does not return 0.                                     *)
LEMMA NotSuccess ==
  cmd.verb = "delete" =>
    /\ Breaks => rc' = "failed" /\ pc' = "done"
    /\ xpk_exit => rc' = "failed" /\ pc' = "done"
    /\ \A step : run_command_with_full_controls(step) =>
                  pc' = step /\ (step = "done" => rc' = "interrupted")
BY DEF Breaks, xpk_exit, Ends, Failure, ByToolkit, Creating, MovesTo,
   run_command_with_full_controls

(* Nothing is deleted at first.                                               *)
LEMMA DeleteInit == Init => DeleteInv
BY DEF Init, DeleteInv, DeletedMeansGone, Finished, NoCommand, Early, Late, Offered,
   KueueSteps, ToolkitSteps, DestroySteps, DeleteSteps

(* A command begins on the side that its blueprint decides.                   *)
LEMMA DeleteBegin == TypeInv /\ Begin => DeleteInv'
<1>. SUFFICES ASSUME TypeInv, Begin PROVE DeleteInv'
  OBVIOUS
<1>1. PICK c \in scenario.commands :
        /\ cmd' = c
        /\ pc' = IF /\ c.verb = "adapt" /\ c.device \in Gpus
                   /\ "nodes-given" \notin c.options
                 THEN "count-nodes" ELSE FirstStep(c)
  BY DEF Begin
<1>2. created_by_gcluster(cmd)' = created_by_gcluster(c)
  BY <1>1 DEF Begin, toolkit, created_by_gcluster
<1>3. rc' = "none"
  BY DEF Begin
<1>4. IF cmd'.verb = "delete"
      THEN pc' = IF created_by_gcluster(cmd)' THEN "toolkit-delete"
                 ELSE "delete-credentials"
      ELSE pc' \in {"count-nodes", "server-config", "identity", "credentials"}
  BY <1>1, <1>2, FirstOf
<1> QED
  BY <1>3, <1>4 DEF DeleteInv, DeletedMeansGone, Finished, Early, Late, Offered,
     KueueSteps, ToolkitSteps, DestroySteps, DeleteSteps

(* The steps that delete with Cluster Toolkit.                                *)
LEMMA DeleteDestroys == TypeInv /\ DeleteInv /\ Destroys => DeleteInv'
<1>. SUFFICES ASSUME TypeInv, DeleteInv, Destroys PROVE DeleteInv'
  OBVIOUS
<1>1. /\ pc \in DestroySteps /\ UNCHANGED cmd
      /\ cmd.verb = "delete" /\ created_by_gcluster(cmd)
  BY DEF Destroys, download_state, stage_for_destroy, destroy_deployment,
     ToolkitAsks, Writes, At, DestroySteps, DeleteInv
<1>2. created_by_gcluster(cmd)'
  <2>1. \/ local' = local \/ local' = With({"staged"})
        \/ local' = [local EXCEPT ![cmd.machine] = @ \ {"terraform"}]
    BY DEF Destroys, download_state, stage_for_destroy, destroy_deployment,
       ToolkitAsks, Writes, toolkit, run_command, Forgets
  <2>2. \/ local' = local
        \/ local' = [local EXCEPT ![cmd.machine] = @ \cup {"staged"}]
        \/ local' = [local EXCEPT ![cmd.machine] = @ \ {"terraform"}]
    BY <2>1 DEF With
  <2>3. "blueprint" \in local'[cmd.machine]
    BY <1>1, <2>2, Machine DEF TypeInv, created_by_gcluster
  <2> QED BY <1>1, <2>3 DEF created_by_gcluster
<1>3. CASE download_state \/ stage_for_destroy
  <2>1. \/ pc' \in DestroySteps
        \/ pc' = "done" /\ rc' = "failed"
    BY <1>1, <1>3, Endings, NotSuccess
    DEF download_state, stage_for_destroy, ToolkitAsks, Writes, Asks, DestroySteps
  <2> QED
    BY <1>1, <1>2, <2>1 DEF DeleteInv, DeletedMeansGone, Finished, Early, Late,
       Offered, KueueSteps, ToolkitSteps, DestroySteps, DeleteSteps
<1>4. CASE destroy_deployment
  <2>1. /\ pc' = "done"
        /\ rc' = "ok" => has' = {} /\ deployment' = "none"
    BY <1>1, <1>4, NotSuccess, Endings
    DEF destroy_deployment, run_command, Gone, Ends
  <2> QED
    BY <1>1, <1>2, <2>1 DEF DeleteInv, DeletedMeansGone, Finished, Early, Late,
       Offered, KueueSteps, ToolkitSteps, DestroySteps, DeleteSteps
<1> QED BY <1>3, <1>4 DEF Destroys

(* The steps that delete without it.                                          *)
LEMMA DeleteDelete == TypeInv /\ DeleteInv /\ Delete => DeleteInv'
<1>. SUFFICES ASSUME TypeInv, DeleteInv, Delete PROVE DeleteInv'
  OBVIOUS
<1>1. /\ pc \in DeleteSteps /\ UNCHANGED cmd
      /\ cmd.verb = "delete" /\ ~created_by_gcluster(cmd)
  BY DEF Delete, set_cluster_command, get_workload_list,
     run_gke_cluster_delete_command, get_all_subnets_programmatic,
     delete_cluster_subnets, At, DeleteSteps, DeleteInv
<1>2. ~created_by_gcluster(cmd)'
  BY <1>1, LocalKept DEF created_by_gcluster
<1>3. CASE set_cluster_command \/ get_workload_list
  <2>1. \/ pc' \in {"list-workloads", "delete-cluster"}
        \/ pc' = "done" /\ rc' \in {"failed", "refused"}
    BY <1>1, <1>3, NotSuccess, Endings
    DEF set_cluster_command, get_workload_list, Ends
  <2> QED
    BY <1>1, <1>2, <2>1 DEF DeleteInv, DeletedMeansGone, Finished, Early, Late,
       Offered, KueueSteps, ToolkitSteps, DestroySteps, DeleteSteps
<1>4. CASE run_gke_cluster_delete_command
  <2>1. \/ pc' = "list-subnets" /\ has' = {}
        \/ pc' = "done" /\ rc' = "failed"
    BY <1>1, <1>4, NotSuccess, Endings DEF run_gke_cluster_delete_command, Gone
  <2> QED
    BY <1>1, <1>2, <2>1 DEF DeleteInv, DeletedMeansGone, Finished, Early, Late,
       Offered, KueueSteps, ToolkitSteps, DestroySteps, DeleteSteps
<1>5. CASE get_all_subnets_programmatic
  <2>1. /\ has' = {} /\ UNCHANGED project
        /\ \/ pc' = "delete-subnets"
              /\ pending' = {r \in project : r.kind = "subnet"}
           \/ pc' = "done" /\ rc' = "failed"
    BY <1>1, <1>5, NotSuccess, Endings
    DEF get_all_subnets_programmatic, At, DeleteInv
  <2> QED
    BY <1>1, <1>2, <2>1 DEF DeleteInv, DeletedMeansGone, Finished, Early, Late,
       Offered, KueueSteps, ToolkitSteps, DestroySteps, DeleteSteps
<1>6. CASE delete_cluster_subnets
  <2>. DEFINE Listed == \A r \in project : r.kind = "subnet" /\ r.of = "us"
                                          => r \in pending
  <2>1. has' = {} /\ Listed
    BY <1>6 DEF delete_cluster_subnets, At, DeleteInv
  <2>2. \/ pending = {} /\ GoTo("done") /\ UNCHANGED net
        \/ /\ \E r \in pending : /\ project' = project \ {r}
                                 /\ pending' = pending \ {r}
           /\ GoTo("delete-subnets")
        \/ xpk_exit \/ Breaks
    BY <1>6 DEF delete_cluster_subnets
  <2>3. CASE pending = {} /\ GoTo("done") /\ UNCHANGED net
    <3>1. \A r \in project' : r.kind = "subnet" => r.of # "us"
      BY <2>1, <2>3 DEF net
    <3> QED
      BY <1>1, <1>2, <2>1, <2>3, <3>1, Endings DEF DeleteInv, DeletedMeansGone,
         Finished, Early, Late, Offered, KueueSteps, ToolkitSteps, DestroySteps,
         DeleteSteps
  <2>4. CASE /\ \E r \in pending : /\ project' = project \ {r}
                                  /\ pending' = pending \ {r}
             /\ GoTo("delete-subnets")
    <3>1. Listed' /\ pc' = "delete-subnets"
      BY <2>1, <2>4, Endings
    <3> QED
      BY <1>1, <1>2, <2>1, <3>1 DEF DeleteInv, DeletedMeansGone, Finished, Early,
         Late, Offered, KueueSteps, ToolkitSteps, DestroySteps, DeleteSteps
  <2>5. CASE xpk_exit \/ Breaks
    <3>1. pc' = "done" /\ rc' = "failed"
      BY <1>1, <2>5, NotSuccess
    <3> QED
      BY <1>1, <1>2, <3>1 DEF DeleteInv, DeletedMeansGone, Finished, Early, Late,
         Offered, KueueSteps, ToolkitSteps, DestroySteps, DeleteSteps
  <2> QED BY <2>2, <2>3, <2>4, <2>5
<1> QED BY <1>3, <1>4, <1>5, <1>6 DEF Delete

(* All steps.                                                                 *)
LEMMA DeleteNext == TypeInv /\ DeleteInv /\ [Next]_vars => DeleteInv'
<1>1. ASSUME DeleteInv, LateSteps PROVE DeleteInv'
  BY <1>1, Lately, NotDeleting DEF LateEffect, Late, Offered, KueueSteps,
     DestroySteps, DeleteSteps, DeleteInv
<1>2. ASSUME DeleteInv, EarlySteps PROVE DeleteInv'
  BY <1>2, First, NotDeleting DEF EarlyEffect, Early, DestroySteps, DeleteSteps,
     DeleteInv
<1>3. ASSUME DeleteInv, MakesDeployment PROVE DeleteInv'
  BY <1>3, WithToolkit, NotDeleting DEF ToolkitEffect, ToolkitSteps, DestroySteps,
     DeleteSteps, DeleteInv
<1>4. ASSUME DeleteInv, WritesNetworks PROVE DeleteInv'
  <2>1. /\ pc \in Early /\ UNCHANGED cmd
        /\ pc' \in {"write-networks", "identity", "mtc-addons", "credentials",
                    "done"}
    BY <1>4, Endings, AfterEarly
    DEF WritesNetworks, authorize_private_cluster_access_if_necessary,
        update_cluster_authorized_networks, At, Early
  <2> QED
    BY <1>4, <2>1, NotDeleting DEF DestroySteps, DeleteSteps, DeleteInv
<1>5. ASSUME DeleteInv, Others PROVE DeleteInv'
  <2>1. UNCHANGED <<cmd, pc, rc, has, project, pending, deployment, local>>
    BY <1>5 DEF Others, ColleagueReads, ColleagueWrites, OtherSwitches, control,
       net, toolkit, Elsewise
  <2> QED
    BY <1>5, <2>1 DEF DeleteInv, DeletedMeansGone, Finished, created_by_gcluster
<1>6. ASSUME DeleteInv, UNCHANGED vars PROVE DeleteInv'
  BY <1>6 DEF vars, control, net, toolkit, DeleteInv, DeletedMeansGone, Finished,
     created_by_gcluster
<1> QED
  BY <1>1, <1>2, <1>3, <1>4, <1>5, <1>6, AllSteps, DeleteBegin, DeleteDestroys,
     DeleteDelete DEF Next

(* A delete that returned 0 leaves nothing of the cluster behind: no object, no *)
(* subnet of its own and no deployment of Cluster Toolkit (commands/cluster.py *)
(* :586, cluster_gcluster.py:178).                                            *)
THEOREM NothingLeft == Spec => []DeletedMeansGone
<1>1. DeleteInv => DeletedMeansGone
  BY DEF DeleteInv
<1> QED BY Typed, DeleteInit, DeleteNext, <1>1, PTL DEF Spec

-----------------------------------------------------------------------------
(* The creator of a deployment can delete it.                                 *)

(* Whether a blueprint says that Terraform's state goes to the bucket.        *)
UsesToolkit(c) ==
  /\ c.verb = "create" /\ c.device \in ToolkitDevices
  /\ "adapt-from-ct" \notin c.options
BackendOf(c) == "bucket" \in c.options /\ c.device # "a4"

(* All clusters that are made of this name on a machine keep it at one place. *)
OneBucket ==
  \A s \in Scenarios : \A c, d \in s.commands :
    UsesToolkit(c) /\ UsesToolkit(d) /\ c.machine = d.machine
      => (BackendOf(c) <=> BackendOf(d))

(* The steps behind the writing of the blueprint.                             *)
Written ==
  {"stage", "gcluster-create", "gcluster-deploy", "upload", "upload-blueprint",
   "toolkit-credentials"}

(* The blueprint is there before the deployment is, and the directory of the  *)
(* deployment goes on pointing to the place of Terraform's state.             *)
CreatorInv ==
  /\ CreatorCanDestroy
  /\ \A c \in scenario.commands :
       UsesToolkit(c) /\ "deployment" \in local[c.machine] =>
         ("backend" \in local[c.machine] <=> BackendOf(c))
  /\ pc \in Written => "blueprint" \in local[cmd.machine]
  /\ pc \in ToolkitSteps => ByToolkit

(* What leaves the files alone leaves the deployment deletable.               *)
LEMMA CreatorKept ==
  ASSUME CreatorInv, UNCHANGED <<scenario, cmd, local, bucket>>,
         deployment' = deployment \/ CreatorCanDestroy',
         pc' \in Written => pc \in Written,
         pc' \in ToolkitSteps => ByToolkit
  PROVE  CreatorInv'
<1>1. CreatorCanDestroy'
  BY DEF CreatorInv, CreatorCanDestroy, Knows
<1> QED
  BY <1>1 DEF CreatorInv, ByToolkit, Creating, Asked

(* What is put on the machine beyond the deployment and its place.            *)
LEMMA CreatorWrites ==
  ASSUME TypeInv, CreatorInv, NEW things, NEW step, NEW next,
         things \in {{"blueprint"}, {"staged"}},
         Writes(step, With(things), next),
         next \in Written => pc \in Written \/ things = {"blueprint"},
         next \in ToolkitSteps => ByToolkit
  PROVE  CreatorInv'
<1>1. /\ UNCHANGED <<scenario, cmd, deployment, bucket>>
      /\ \/ pc' = "done"
         \/ pc' = next /\ local' = With(things)
      /\ local' = local \/ local' = With(things)
  BY Endings DEF Writes, At
<1>2. ASSUME local' = local, pc' = "done" PROVE CreatorInv'
  BY <1>1, <1>2, CreatorKept DEF Written, ToolkitSteps
<1>3. ASSUME local' = With(things) PROVE CreatorInv'
  <2>1. \A m \in Machines :
          local'[m] = IF m = cmd.machine THEN local[m] \cup things ELSE local[m]
    BY <1>3, Machine DEF With, TypeInv
  <2>2. \A m \in Machines : \A f \in {"deployment", "backend", "terraform"} :
          f \in local'[m] <=> f \in local[m]
    BY <2>1
  <2>3. \A m \in Machines : local[m] \subseteq local'[m]
    BY <2>1
  <2>4. CreatorCanDestroy'
    <3>1. \A m \in Machines : Knows(m) => Knows(m)'
      BY <1>1, <2>2 DEF Knows
    <3> QED BY <1>1, <2>3, <3>1 DEF CreatorInv, CreatorCanDestroy
  <2>5. \A c \in scenario.commands : c.machine \in Machines
    BY ScenariosAssumption DEF TypeInv, ScenarioSet, CommandSet
  <2>6. \A c \in scenario.commands :
          UsesToolkit(c) /\ "deployment" \in local'[c.machine] =>
            ("backend" \in local'[c.machine] <=> BackendOf(c))
    BY <2>2, <2>5 DEF CreatorInv
  <2>7. pc' \in Written => "blueprint" \in local'[cmd.machine]
    <3>1. things \subseteq local'[cmd.machine]
      BY <2>1, Machine
    <3>2. pc \in Written => "blueprint" \in local'[cmd.machine]
      BY <2>3, Machine DEF CreatorInv
    <3> QED BY <1>1, <3>1, <3>2 DEF Written
  <2>8. pc' \in ToolkitSteps => ByToolkit
    BY <1>1 DEF ToolkitSteps
  <2> QED
    BY <1>1, <2>4, <2>6, <2>7, <2>8 DEF CreatorInv, ByToolkit, Creating, Asked
<1> QED BY <1>1, <1>2, <1>3

(* The steps of the run itself.                                               *)
LEMMA CreatorStage ==
  ASSUME TypeInv, CreatorInv,
         \/ prepare_gcluster_manager \/ validate_state_gcs_bucket
         \/ generate_blueprint \/ stage_files \/ toolkit_credentials
  PROVE  CreatorInv'
<1>1. CASE generate_blueprint \/ stage_files
  <2>1. PICK things \in {{"blueprint"}, {"staged"}},
             next \in {"stage", "gcluster-create"} :
          /\ \E step : Writes(step, With(things), next)
          /\ pc \in Written \/ things = {"blueprint"}
    BY <1>1 DEF generate_blueprint, stage_files, Writes, At, Written
  <2>2. pc \in ToolkitSteps
    BY <1>1 DEF generate_blueprint, stage_files, Writes, At, ToolkitSteps
  <2> QED BY <2>1, <2>2, CreatorWrites DEF CreatorInv
<1>2. CASE prepare_gcluster_manager \/ validate_state_gcs_bucket
  <2>1. /\ UNCHANGED <<scenario, cmd, deployment, local, bucket>>
        /\ pc \in ToolkitSteps /\ pc' \in {"validate-bucket", "blueprint", "done"}
    BY <1>2, Endings DEF prepare_gcluster_manager, validate_state_gcs_bucket,
       ToolkitAsks, At, toolkit, ToolkitSteps
  <2> QED BY <2>1, CreatorKept DEF CreatorInv, Written
<1>3. CASE toolkit_credentials
  <2>1. /\ UNCHANGED <<scenario, cmd, deployment, local, bucket>>
        /\ pc' \in {"nap", "kueue", "done"}
    BY <1>3, Endings DEF toolkit_credentials, At, Elsewise, toolkit
  <2> QED BY <2>1, CreatorKept DEF Written, ToolkitSteps
<1> QED BY <1>1, <1>2, <1>3

(* What is uploaded adds to the bucket.                                       *)
LEMMA CreatorUploads ==
  ASSUME CreatorInv, upload_directory_to_gcs \/ upload_state
  PROVE  CreatorInv'
<1>1. /\ UNCHANGED <<scenario, cmd, deployment, local>>
      /\ \E thing \in {"directory", "blueprint"} :
           bucket' \in {bucket, bucket \cup {thing}}
      /\ pc \in {"upload", "upload-blueprint"}
      /\ pc' \in {"upload-blueprint", "toolkit-credentials", "done"}
  BY Endings DEF upload_directory_to_gcs, upload_state, Uploads, At, toolkit
<1>2. CreatorCanDestroy'
  BY <1>1 DEF CreatorInv, CreatorCanDestroy, Knows
<1> QED
  BY <1>1, <1>2 DEF CreatorInv, Written, ToolkitSteps, ByToolkit, Creating, Asked

(* A deployment made again keeps the place of its state.                      *)
LEMMA CreatorDeploys ==
  ASSUME OneBucket, TypeInv, CreatorInv, _run_create_deployment_cmd
  PROVE  CreatorInv'
<1>. DEFINE files == {"deployment"} \cup When(Blueprint.backend, {"backend"})
<1>1. /\ UNCHANGED <<scenario, cmd, deployment, bucket>> /\ pc = "gcluster-create"
      /\ pc' \in {"gcluster-deploy", "done"}
      /\ \/ local' = local
         \/ local' = [local EXCEPT ![cmd.machine] = (@ \ {"backend"}) \cup files]
  BY Endings DEF _run_create_deployment_cmd, run_command,
     run_command_with_full_controls, At
<1>2. /\ ByToolkit /\ "blueprint" \in local[cmd.machine]
  BY <1>1 DEF CreatorInv, Written, ToolkitSteps
<1>3. cmd \in scenario.commands /\ UsesToolkit(cmd)
  BY <1>2 DEF ByToolkit, Creating, Asked, TypeInv, NoCommand, UsesToolkit
<1>4. files = {"deployment"} \cup (IF BackendOf(cmd) THEN {"backend"} ELSE {})
  BY <1>3 DEF Blueprint, generate_a3_mega_blueprint, generate_a3_ultra_blueprint,
     generate_a4_blueprint, BackendOf, When, Asked, UsesToolkit, ToolkitDevices
<1>. HIDE DEF files
<1>5. ASSUME local' = local PROVE CreatorInv'
  BY <1>1, <1>2, <1>5, CreatorKept DEF Written
<1>6. ASSUME local' = [local EXCEPT ![cmd.machine] = (@ \ {"backend"}) \cup files]
      PROVE  CreatorInv'
  <2>1. \A m \in Machines :
          local'[m] = IF m = cmd.machine THEN (local[m] \ {"backend"}) \cup files
                      ELSE local[m]
    BY <1>6, Machine DEF TypeInv
  <2>2. \A c \in scenario.commands :
          /\ c.machine \in Machines
          /\ UsesToolkit(c) /\ c.machine = cmd.machine
               => (BackendOf(c) <=> BackendOf(cmd))
    BY <1>3, ScenariosAssumption DEF TypeInv, ScenarioSet, CommandSet, OneBucket
  <2>3. "backend" \in local'[cmd.machine] <=> BackendOf(cmd)
    <3>1. local'[cmd.machine] = (local[cmd.machine] \ {"backend"}) \cup files
      BY <2>1, Machine
    <3>2. CASE BackendOf(cmd)
      BY <1>4, <3>1, <3>2
    <3>3. CASE ~BackendOf(cmd)
      BY <1>4, <3>1, <3>3
    <3> QED BY <3>2, <3>3
  <2>4. \A c \in scenario.commands :
          UsesToolkit(c) /\ "deployment" \in local'[c.machine] =>
            ("backend" \in local'[c.machine] <=> BackendOf(c))
    BY <2>1, <2>2, <2>3 DEF CreatorInv
  <2>5. "blueprint" \in local'[cmd.machine]
    BY <1>2, <2>1, Machine
  <2>6. CreatorCanDestroy'
    <3>1. ASSUME NEW m \in Machines,
                 {"blueprint", "deployment"} \subseteq local[m], Knows(m)
          PROVE  {"blueprint", "deployment"} \subseteq local'[m] /\ Knows(m)'
      <4>1. "backend" \in local'[m] <=> "backend" \in local[m]
        BY <1>3, <2>1, <2>3, <3>1 DEF CreatorInv
      <4>2. /\ {"blueprint", "deployment"} \subseteq local'[m]
            /\ "terraform" \in local[m] => "terraform" \in local'[m]
        BY <2>1, <3>1
      <4> QED BY <1>1, <3>1, <4>1, <4>2 DEF Knows
    <3> QED BY <1>1, <3>1 DEF CreatorInv, CreatorCanDestroy
  <2> QED
    BY <1>1, <1>2, <2>4, <2>5, <2>6 DEF CreatorInv, ByToolkit, Creating, Asked
<1> QED BY <1>1, <1>5, <1>6

(* What Terraform does leaves the files but for its state.                    *)
LEMMA CreatorTerraform ==
  ASSUME TypeInv, CreatorInv, _run_deploy_cmd
  PROVE  CreatorInv'
<1>1. /\ UNCHANGED <<scenario, cmd>> /\ pc = "gcluster-deploy"
      /\ pc' \in {"upload", "done"}
      /\ UNCHANGED <<deployment, local, bucket>> \/ (Has("deployment") /\ Learns)
  BY Endings DEF _run_deploy_cmd, run_command, run_command_with_full_controls, At,
     toolkit
<1>2. ByToolkit /\ "blueprint" \in local[cmd.machine]
  BY <1>1 DEF CreatorInv, Written, ToolkitSteps
<1>3. CASE UNCHANGED <<deployment, local, bucket>>
  BY <1>1, <1>2, <1>3, CreatorKept DEF Written
<1>4. CASE Has("deployment") /\ Learns
  <2>1. \A m \in Machines :
          local'[m] \in {local[m], local[m] \cup {"terraform"}}
    BY <1>4, Machine DEF Learns, With, TypeInv
  <2>2. Knows(cmd.machine)'
    <3>1. CASE Has("backend")
      BY <1>1, <1>4, <3>1 DEF Learns, Has, Knows
    <3>2. CASE ~Has("backend")
      <4>1. local'[cmd.machine] = local[cmd.machine] \cup {"terraform"}
        BY <1>4, <3>2, Machine DEF Learns, With, TypeInv
      <4> QED BY <1>1, <3>2, <4>1 DEF Has, Knows
    <3> QED BY <3>1, <3>2
  <2>3. {"blueprint", "deployment"} \subseteq local'[cmd.machine]
    BY <1>2, <1>4, <2>1, Machine DEF Has
  <2>4. CreatorCanDestroy'
    BY <1>1, <2>2, <2>3, Machine DEF CreatorCanDestroy, Knows
  <2>5. \A c \in scenario.commands : c.machine \in Machines
    BY ScenariosAssumption DEF TypeInv, ScenarioSet, CommandSet
  <2>6. \A c \in scenario.commands :
          UsesToolkit(c) /\ "deployment" \in local'[c.machine] =>
            ("backend" \in local'[c.machine] <=> BackendOf(c))
    BY <2>1, <2>5 DEF CreatorInv
  <2> QED
    BY <1>1, <1>2, <2>3, <2>4, <2>6 DEF CreatorInv, ByToolkit, Creating, Asked
<1> QED BY <1>1, <1>3, <1>4

(* Destroying in part leaves the state, in whole needs it no longer.          *)
LEMMA CreatorDestroys ==
  ASSUME TypeInv, DeleteInv, CreatorInv, Destroys
  PROVE  CreatorInv'
<1>1. CASE download_state
  <2>1. /\ UNCHANGED <<scenario, cmd, deployment, local, bucket>>
        /\ pc' \in {"stage-for-destroy", "destroy", "done"}
    BY <1>1, Endings DEF download_state, ToolkitAsks, At, toolkit
  <2> QED BY <2>1, CreatorKept DEF Written, ToolkitSteps
<1>2. CASE stage_for_destroy
  BY <1>2, CreatorWrites DEF stage_for_destroy, Written, ToolkitSteps
<1>3. CASE destroy_deployment
  <2>1. /\ UNCHANGED <<scenario, cmd>> /\ pc = "destroy" /\ pc' = "done"
        /\ \/ UNCHANGED <<deployment, local, bucket>>
           \/ deployment' = "none" /\ Forgets
           \/ /\ UNCHANGED <<local, bucket>>
              /\ Has("deployment") /\ Knows(cmd.machine)
    BY <1>3, Endings DEF destroy_deployment, run_command,
       run_command_with_full_controls, At, toolkit
  <2>2. pc' \notin Written \cup ToolkitSteps
    BY <2>1 DEF Written, ToolkitSteps
  <2>3. CASE UNCHANGED <<deployment, local, bucket>>
    BY <2>1, <2>2, <2>3, CreatorKept
  <2>4. CASE deployment' = "none" /\ Forgets
    <3>1. \A m \in Machines : local'[m] \in {local[m], local[m] \ {"terraform"}}
      BY <2>4, Machine DEF Forgets, TypeInv
    <3>2. \A c \in scenario.commands : c.machine \in Machines
      BY ScenariosAssumption DEF TypeInv, ScenarioSet, CommandSet
    <3>3. \A c \in scenario.commands :
            UsesToolkit(c) /\ "deployment" \in local'[c.machine] =>
              ("backend" \in local'[c.machine] <=> BackendOf(c))
      BY <3>1, <3>2 DEF CreatorInv
    <3> QED
      BY <2>1, <2>2, <2>4, <3>3 DEF CreatorInv, CreatorCanDestroy
  <2>5. CASE /\ UNCHANGED <<local, bucket>>
             /\ Has("deployment") /\ Knows(cmd.machine)
    <3>1. "blueprint" \in local[cmd.machine]
      BY <2>1 DEF DeleteInv, DestroySteps, created_by_gcluster
    <3>2. CreatorCanDestroy'
      BY <2>1, <2>5, <3>1, Machine DEF CreatorCanDestroy, Knows, Has
    <3> QED BY <2>1, <2>2, <2>5, <3>2, CreatorKept
  <2> QED BY <2>1, <2>3, <2>4, <2>5
<1> QED BY <1>1, <1>2, <1>3 DEF Destroys

(* All steps.                                                                 *)
LEMMA CreatorNext ==
  ASSUME OneBucket, TypeInv, DeleteInv, CreatorInv, [Next]_vars
  PROVE  CreatorInv'
<1>1. CASE LateSteps \/ EarlySteps
  <2>1. UNCHANGED <<scenario, cmd, deployment, local, bucket>>
    BY <1>1, Lately, First DEF LateEffect, EarlyEffect, toolkit
  <2>2. pc' \notin Written /\ (pc' \in ToolkitSteps => ByToolkit)
    BY <1>1, Lately, First DEF LateEffect, EarlyEffect, Late, Offered, KueueSteps,
       Early, Written, ToolkitSteps
  <2> QED BY <2>1, <2>2, CreatorKept
<1>2. CASE MakesDeployment
  BY <1>2, CreatorStage, CreatorUploads, CreatorDeploys, CreatorTerraform
  DEF MakesDeployment, ToolkitSteps
<1>3. CASE WritesNetworks \/ Delete
  <2>1. UNCHANGED <<scenario, cmd, deployment, local, bucket>>
    BY <1>3, LocalKept, ScenarioKept DEF Next, WritesNetworks, Step, Create, Delete
  <2>2. pc' \in {"write-networks", "identity", "mtc-addons", "credentials",
                "list-workloads", "delete-cluster", "list-subnets",
                "delete-subnets", "done"}
    BY <1>3, Endings, AfterEarly DEF WritesNetworks, Delete,
       authorize_private_cluster_access_if_necessary,
       update_cluster_authorized_networks, set_cluster_command, get_workload_list,
       run_gke_cluster_delete_command, get_all_subnets_programmatic,
       delete_cluster_subnets
  <2> QED BY <2>1, <2>2, CreatorKept DEF Written, ToolkitSteps
<1>4. CASE Begin
  <2>1. PICK c \in scenario.commands :
          pc' = IF /\ c.verb = "adapt" /\ c.device \in Gpus
                   /\ "nodes-given" \notin c.options
                THEN "count-nodes" ELSE FirstStep(c)
    BY <1>4 DEF Begin
  <2>2. pc' \in {"count-nodes", "server-config", "identity", "credentials",
                "toolkit-delete", "delete-credentials"}
    BY <2>1, FirstOf
  <2>3. UNCHANGED <<scenario, deployment, local, bucket>>
    BY <1>4 DEF Begin, toolkit
  <2>4. CreatorCanDestroy'
    BY <2>3 DEF CreatorInv, CreatorCanDestroy, Knows
  <2> QED BY <2>2, <2>3, <2>4 DEF CreatorInv, Written, ToolkitSteps
<1>5. CASE Others \/ UNCHANGED vars
  <2>1. UNCHANGED <<scenario, cmd, pc, deployment, local, bucket>>
    BY <1>5 DEF Others, ColleagueReads, ColleagueWrites, OtherSwitches, vars,
       control, toolkit, Elsewise
  <2> QED BY <2>1, CreatorKept DEF CreatorInv
<1>6. CASE Destroys
  BY <1>6, CreatorDestroys
<1> QED BY <1>1, <1>2, <1>3, <1>4, <1>5, <1>6, AllSteps DEF Next

(* If all clusters made with Cluster Toolkit on a machine keep their state at *)
(* one place, what Terraform made can be deleted from a machine at any time,  *)
(* wherever the runs ended (commands/cluster_gcluster.py:61).                 *)
THEOREM CreatorDeletes == OneBucket => (Spec => []CreatorCanDestroy)
<1>. SUFFICES ASSUME OneBucket PROVE Spec => []CreatorCanDestroy
  OBVIOUS
<1>1. Init => CreatorInv
  <2>. SUFFICES ASSUME Init PROVE CreatorInv
    OBVIOUS
  <2>1. /\ deployment = "none" /\ pc = "done" /\ local = [m \in Machines |-> {}]
        /\ scenario \in Scenarios
    BY DEF Init
  <2>2. \A c \in scenario.commands : local[c.machine] = {}
    BY <2>1, ScenariosAssumption DEF ScenarioSet, CommandSet
  <2> QED BY <2>1, <2>2 DEF CreatorInv, CreatorCanDestroy, Written, ToolkitSteps
<1>2. TypeInv /\ DeleteInv /\ CreatorInv /\ [Next]_vars => CreatorInv'
  BY CreatorNext
<1>3. CreatorInv => CreatorCanDestroy
  BY DEF CreatorInv
<1> QED BY Typed, DeleteInit, DeleteNext, <1>1, <1>2, <1>3, PTL DEF Spec

-----------------------------------------------------------------------------
(* The cluster that kubectl reaches.                                          *)

(* The steps behind get-credentials.                                          *)
Guided == Late \cup (DeleteSteps \ {"delete-credentials"})

(* They find the context of their own cluster unless it was lost.             *)
ContextInv == pc \in Guided => lost \/ file[File] = "own"

(* What a step may record as stray: nothing, or itself, as OwnClusterOnly says. *)
Strays ==
  \/ stray' \subseteq stray
  \/ /\ stray' = stray \cup {pc}
     /\ \/ lost \/ pc = "count-nodes"
        \/ Asked("sandbox") /\ pc \in Library

(* get-credentials sets the context of its own cluster or loses it.           *)
LEMMA CredentialsSet ==
  ASSUME TypeInv, UNCHANGED cmd, file' = [file EXCEPT ![File] = "own"]
  PROVE  file'[File'] = "own"
<1>1. File \in {"default", "sandbox"} /\ File' = File
  BY DEF File, Asked
<1>2. file'[File] = "own"
  BY <1>1 DEF TypeInv
<1> QED BY <1>1, <1>2

(* What leaves the contexts alone leaves them right.                          *)
LEMMA ContextKept ==
  ASSUME ContextInv, UNCHANGED <<cmd, file, lost>>, pc' \in Guided => pc \in Guided
  PROVE  ContextInv'
BY DEF ContextInv, File, Asked

(* Another cluster is reached only where OwnClusterOnly says so.              *)
LEMMA StraysLate ==
  ASSUME ContextInv, pc \in Guided,
         Context = "other" \/ (pc \in Library /\ LibraryContext = "other")
  PROVE  lost \/ (Asked("sandbox") /\ pc \in Library)
BY DEF ContextInv, Context, LibraryContext, Reached, File

(* The steps from the credentials on.                                         *)
LEMMA ContextLate == TypeInv /\ ContextInv /\ LateSteps => ContextInv' /\ Strays
<1>. SUFFICES ASSUME TypeInv, ContextInv, LateEffect PROVE ContextInv' /\ Strays
  BY Lately
<1>1. ContextInv'
  <2>1. CASE UNCHANGED <<file, lost>> /\ (pc = "credentials" => pc' = "done")
    <3>1. pc' \in Guided => pc \in Guided
      BY <2>1 DEF LateEffect, Guided, Late, Offered, KueueSteps, DeleteSteps
    <3> QED BY <2>1, <3>1, ContextKept DEF LateEffect
  <2>2. CASE file' = [file EXCEPT ![File] = "own"]
    BY <2>2, CredentialsSet DEF LateEffect, ContextInv
  <2>3. CASE lost' = TRUE
    BY <2>3 DEF ContextInv
  <2> QED BY <2>1, <2>2, <2>3 DEF LateEffect
<1>2. Strays
  BY StraysLate DEF LateEffect, Strays, Guided
<1> QED BY <1>1, <1>2

(* All steps.                                                                 *)
LEMMA ContextNext == TypeInv /\ ContextInv /\ [Next]_vars => ContextInv' /\ Strays
<1>. SUFFICES ASSUME TypeInv, ContextInv, [Next]_vars PROVE ContextInv' /\ Strays
  OBVIOUS
<1>1. CASE LateSteps
  BY <1>1, ContextLate
<1>2. CASE EarlySteps
  BY <1>2, First DEF EarlyEffect, ContextInv, Strays, Guided, Early, Late, Offered,
     KueueSteps, DeleteSteps
<1>3. CASE MakesDeployment
  <2>1. stray' = stray
    BY <1>3, WithToolkit DEF ToolkitEffect
  <2>2. CASE UNCHANGED <<file, lost>> /\ pc' \in ToolkitSteps \cup {"done"}
    BY <2>1, <2>2 DEF ContextInv, Strays, ToolkitSteps, Guided, Late, Offered,
       KueueSteps, DeleteSteps
  <2>3. CASE file' = [file EXCEPT ![File] = "own"]
    BY <1>3, <2>1, <2>3, WithToolkit, CredentialsSet
    DEF ToolkitEffect, ContextInv, Strays
  <2>4. CASE lost' = TRUE
    BY <2>1, <2>4 DEF ContextInv, Strays
  <2> QED
    BY <1>3, <2>1, <2>2, <2>3, <2>4, WithToolkit DEF ToolkitEffect, Strays
<1>4. CASE WritesNetworks \/ Destroys
  <2>1. UNCHANGED <<file, lost, stray>>
    BY <1>4 DEF WritesNetworks, authorize_private_cluster_access_if_necessary,
       update_cluster_authorized_networks, Destroys, download_state,
       stage_for_destroy, destroy_deployment, ToolkitAsks, Writes, contexts
  <2>2. pc' \in {"write-networks", "identity", "mtc-addons", "credentials", "done"}
                \cup DestroySteps
    BY <1>4, Endings, AfterEarly
    DEF WritesNetworks, authorize_private_cluster_access_if_necessary,
        update_cluster_authorized_networks, Destroys, download_state,
        stage_for_destroy, destroy_deployment, ToolkitAsks, Writes, run_command,
        run_command_with_full_controls, DestroySteps
  <2> QED
    BY <2>1, <2>2 DEF ContextInv, Strays, DestroySteps, Guided, Late, Offered,
       KueueSteps, DeleteSteps
<1>5. CASE set_cluster_command
  <2>1. UNCHANGED <<cmd, stray>>
    BY <1>5 DEF set_cluster_command, At
  <2>2. \/ file' = [file EXCEPT ![File] = "own"]
        \/ pc' = "done"
    BY <1>5, Endings DEF set_cluster_command
  <2>3. CASE file' = [file EXCEPT ![File] = "own"]
    BY <2>1, <2>3, CredentialsSet DEF ContextInv, Strays
  <2>4. CASE pc' = "done"
    BY <2>1, <2>4 DEF ContextInv, Strays, Guided, Late, Offered, KueueSteps,
       DeleteSteps
  <2> QED BY <2>2, <2>3, <2>4
<1>6. CASE get_workload_list
  <2>1. pc = "list-workloads" /\ UNCHANGED <<cmd, file, lost>>
    BY <1>6 DEF get_workload_list, At, contexts
  <2>2. pc \in Guided
    BY <2>1 DEF Guided, DeleteSteps
  <2>3. stray' = stray \/ (stray' = stray \cup {pc} /\ Context = "other")
    BY <1>6 DEF get_workload_list, contexts
  <2> QED
    BY <2>1, <2>2, <2>3, StraysLate, ContextKept DEF Strays
<1>7. CASE \/ run_gke_cluster_delete_command \/ get_all_subnets_programmatic
           \/ delete_cluster_subnets
  <2>1. UNCHANGED <<cmd, file, lost, stray>> /\ pc \in Guided
    BY <1>7 DEF run_gke_cluster_delete_command, get_all_subnets_programmatic,
       delete_cluster_subnets, At, contexts, Guided, DeleteSteps
  <2> QED BY <2>1, ContextKept DEF Strays
<1>8. CASE Begin
  <2>1. PICK c \in scenario.commands :
          pc' = IF /\ c.verb = "adapt" /\ c.device \in Gpus
                   /\ "nodes-given" \notin c.options
                THEN "count-nodes" ELSE FirstStep(c)
    BY <1>8 DEF Begin
  <2>2. pc' \in {"count-nodes", "server-config", "identity", "credentials",
                "toolkit-delete", "delete-credentials"}
    BY <2>1, FirstOf
  <2>3. stray' = {}
    BY <1>8 DEF Begin
  <2> QED
    BY <2>2, <2>3 DEF ContextInv, Strays, Guided, Late, Offered, KueueSteps,
       DeleteSteps
<1>9. CASE ColleagueReads \/ ColleagueWrites \/ UNCHANGED vars
  BY <1>9, ContextKept DEF ColleagueReads, ColleagueWrites, control, contexts, vars,
     Strays
<1>10. CASE OtherSwitches
  <2>1. /\ UNCHANGED <<cmd, pc, stray>> /\ File' = File
        /\ file' = [file EXCEPT !["default"] = "other"]
        /\ lost' = (lost \/ File = "default")
    BY <1>10 DEF OtherSwitches, File, Asked
  <2>2. File = "sandbox" => file'[File] = file[File]
    BY <2>1 DEF TypeInv
  <2>3. File \in {"default", "sandbox"}
    BY DEF File
  <2> QED BY <2>1, <2>2, <2>3 DEF ContextInv, Strays
<1> QED
  BY <1>1, <1>2, <1>3, <1>4, <1>5, <1>6, <1>7, <1>8, <1>9, <1>10, AllSteps
  DEF Next, Others, Delete

(* While the context is not switched under a run and get-credentials works, no *)
(* kubectl command of it reaches another cluster, but for the three steps that *)
(* go by the default kubeconfig instead of the sandbox's, and the count of    *)
(* nodes (core/cluster.py:792).                                               *)
THEOREM OwnCluster == Spec => OwnClusterOnly
<1>. DEFINE Keeps ==
       \A step \in stray' \ stray :
         \/ lost \/ step = "count-nodes"
         \/ /\ Asked("sandbox")
            /\ step \in {"storage-crd", "mtc-jobset", "mtc-configuration"}
<1>1. Init => ContextInv
  BY DEF Init, ContextInv, Guided, Late, Offered, KueueSteps, DeleteSteps
<1>2. Strays => Keeps
  BY DEF Strays, Library
<1>3. TypeInv /\ ContextInv /\ [Next]_vars => ContextInv' /\ [Keeps]_vars
  BY <1>2, ContextNext
<1>. HIDE DEF Keeps
<1>4. Spec => [][Keeps]_vars
  BY Typed, <1>1, <1>3, PTL DEF Spec
<1> QED BY <1>4 DEF OwnClusterOnly, Keeps

-----------------------------------------------------------------------------
(* The Kueue of others.                                                       *)

KueueSet ==
  [image : KueueImages, external : BOOLEAN, crds : {"none", "some", "all"},
   objects : {"none", "user", "fixed", "nap"}, tolerant : BOOLEAN]

DeletesKueue ==
  {"delete-kueue-objects", "delete-kueue-crds", "delete-kueue-deployment"}

(* The installed Kueue is what the questions of the run found, as long as they *)
(* were answered and kubectl goes on reaching the run's own cluster.          *)
Found ==
  /\ pc = "kueue-external" => kueue.image \in {"breaking", "older"}
  /\ pc # "kueue-external" => ~kueue.external
  /\ pc \in {"prepare-upgrade"} \cup DeletesKueue => kueue.image = "breaking"
  /\ pc \in DeletesKueue => Consents
  /\ pc = "install-kueue" => kueue.image \in {"none", "older"}

KueueInv ==
  /\ kueue \in KueueSet
  /\ kueue.image = "none" => ~kueue.external
  /\ pc \in UpgradeSteps /\ blind = {} /\ Context = "own" => Found

(* What OthersKueueKept says of a step.                                       *)
KeepsKueue ==
  /\ has' # {} /\ blind = {}
  /\ kueue'.image # kueue.image \/ (kueue'.crds # kueue.crds /\ kueue.crds = "all")
  => /\ ~kueue.external
     /\ kueue.image \in {"none", "breaking", "older"}
     /\ kueue'.crds # "all" => Consents

(* What leaves Kueue alone, or takes it away with its cluster.                *)
LEMMA KueueKept ==
  ASSUME KueueInv, kueue' = kueue \/ kueue' = NoKueue, pc' \notin UpgradeSteps
  PROVE  KueueInv'
<1>1. NoKueue \in KueueSet /\ ~NoKueue.external
  BY DEF KueueSet, NoKueue, KueueImages
<1> QED BY <1>1 DEF KueueInv

(* A question that is answered tells what is there.                           *)
LEMMA Questions ==
  ASSUME NEW step, NEW next, NEW otherwise, NEW answers,
         Question(step, next, otherwise, answers)
  PROVE  /\ UNCHANGED <<cmd, kueue>> /\ pc = step
         /\ blind' = {} => blind = {}
         /\ Context' = "own" =>
              Context = "own" /\ (blind' = {} => pc' \in {next, "done"})
<1>1. UNCHANGED <<cmd, kueue, has, file>> /\ pc = step
  BY DEF Question, At, contexts
<1>2. Context' = Context
  BY <1>1 DEF Context, Reached, File, Asked
<1>3. blind' = {} => blind = {}
  BY DEF Question
<1>4. Context = "own" /\ blind' = {} => pc' \in {next, "done"}
  BY Endings DEF Question
<1> QED BY <1>1, <1>2, <1>3, <1>4

(* A command of kubectl that changes Kueue.                                   *)
LEMMA Changed ==
  ASSUME NEW step, NEW after, NEW partly, NEW next,
         Changes(step, after, partly, next)
  PROVE  /\ UNCHANGED <<cmd, has, blind>> /\ pc = step
         /\ pc' \in {next, "done"}
         /\ Context' = Context
         /\ Context # "own" => kueue' = kueue
         /\ kueue' \in {kueue, after} \cup partly
         /\ Context = "own" => pc' = "done" \/ kueue' = after
<1>1. UNCHANGED <<cmd, has, blind, file>> /\ pc = step
  BY Reaching DEF Changes, At, contexts, Reaches
<1>2. Context' = Context
  BY <1>1 DEF Context, Reached, File, Asked
<1>3. Elsewhere(Context, next) => Context # "own"
  BY DEF Elsewhere
<1>4. pc' \in {next, "done"}
  BY Endings, Reaching DEF Changes
<1>5. /\ Context # "own" => kueue' = kueue
      /\ kueue' \in {kueue, after} \cup partly
      /\ Context = "own" => pc' = "done" \/ kueue' = after
  BY <1>3, Endings DEF Changes
<1> QED BY <1>1, <1>2, <1>4, <1>5

(* The questions decide whether Kueue is touched.                             *)
LEMMA KueueAsks ==
  ASSUME KueueInv, get_installed_kueue_version \/ kueue_managed_externally
  PROVE  KueueInv' /\ KeepsKueue
<1>1. CASE get_installed_kueue_version
  <2>. DEFINE next == CASE kueue.image = "none" -> "install-kueue"
                        [] kueue.image \in {"breaking", "older"} -> "kueue-external"
                        [] OTHER -> "configure-kueue"
  <2>1. Question("kueue", next, "install-kueue", {"configure-kueue"})
    BY <1>1 DEF get_installed_kueue_version
  <2>2. \/ next = "install-kueue" /\ kueue.image = "none"
        \/ next = "kueue-external" /\ kueue.image \in {"breaking", "older"}
        \/ next = "configure-kueue"
    BY DEF KueueInv, KueueSet, KueueImages
  <2>. HIDE DEF next
  <2>3. /\ kueue' = kueue
        /\ blind' = {} /\ Context' = "own" => pc' \in {next, "done"}
    BY <2>1, Questions
  <2> QED
    BY <2>2, <2>3 DEF KueueInv, Found, UpgradeSteps, DeletesKueue, KeepsKueue
<1>2. CASE kueue_managed_externally
  <2>. DEFINE upgrade == IF kueue.image = "older" THEN "install-kueue"
                         ELSE "prepare-upgrade"
              next == IF kueue.external THEN "configure-kueue" ELSE upgrade
  <2>1. Question("kueue-external", next, upgrade, {"configure-kueue"})
    BY <1>2 DEF kueue_managed_externally
  <2>2. \/ next = "configure-kueue"
        \/ next = "install-kueue" /\ kueue.image = "older" /\ ~kueue.external
        \/ next = "prepare-upgrade" /\ kueue.image # "older" /\ ~kueue.external
    BY DEF KueueInv, KueueSet
  <2>. HIDE DEF next, upgrade
  <2>3. /\ kueue' = kueue /\ pc = "kueue-external"
        /\ blind' = {} /\ Context' = "own" =>
             blind = {} /\ Context = "own" /\ pc' \in {next, "done"}
    BY <2>1, Questions
  <2> QED
    BY <2>2, <2>3 DEF KueueInv, Found, UpgradeSteps, DeletesKueue, KeepsKueue
<1> QED BY <1>1, <1>2

(* An upgrade over a breaking change is asked for.                            *)
LEMMA KueuePrepares ==
  ASSUME KueueInv, prepare_for_upgrade
  PROVE  KueueInv' /\ KeepsKueue
<1>1. /\ pc = "prepare-upgrade" /\ UNCHANGED <<cmd, has, kueue, blind, file>>
      /\ pc' = "done" \/ (pc' = "delete-kueue-objects" /\ Consents)
  BY Endings DEF prepare_for_upgrade, At, Elsewise, installed, contexts
<1>2. Context' = Context /\ Consents' = Consents
  BY <1>1 DEF Context, Reached, File, Asked, Consents
<1> QED
  BY <1>1, <1>2 DEF KueueInv, Found, UpgradeSteps, DeletesKueue, KeepsKueue

(* It takes down what was found, in three steps.                              *)
LEMMA KueueDeletes ==
  ASSUME KueueInv, delete_all_kueue_resources
  PROVE  KueueInv' /\ KeepsKueue
<1>. DEFINE objects == [kueue EXCEPT !.objects = "none"]
            crds == [kueue EXCEPT !.crds = "none"]
            some == [kueue EXCEPT !.crds = "some"]
            gone == [kueue EXCEPT !.image = "none", !.external = FALSE]
<1>1. kueue \in KueueSet
  BY DEF KueueInv
<1>2. /\ {objects, crds, some, gone} \subseteq KueueSet
      /\ \A k \in {objects, crds, some} :
           k.image = kueue.image /\ k.external = kueue.external
      /\ objects.crds = kueue.crds /\ gone.crds = kueue.crds
      /\ gone.image = "none" /\ ~gone.external
  BY <1>1 DEF KueueSet, KueueImages
<1>3. \/ Cannot("delete-kueue-objects")
      \/ Changes("delete-kueue-objects", objects, {}, "delete-kueue-crds")
      \/ Changes("delete-kueue-crds", crds, {some}, "delete-kueue-deployment")
      \/ Changes("delete-kueue-deployment", gone, {}, "install-kueue")
  BY DEF delete_all_kueue_resources
<1>. HIDE DEF objects, crds, some, gone
<1>4. CASE Cannot("delete-kueue-objects")
  BY <1>4, KueueKept, Endings DEF Cannot, Elsewise, installed, UpgradeSteps,
     KeepsKueue
<1>5. CASE Changes("delete-kueue-objects", objects, {}, "delete-kueue-crds")
  <2>1. /\ UNCHANGED <<cmd, blind>> /\ Context' = Context
        /\ pc = "delete-kueue-objects" /\ pc' \in {"delete-kueue-crds", "done"}
        /\ kueue' \in {kueue, objects}
    BY <1>5, Changed
  <2>2. Consents' = Consents
    BY <2>1 DEF Consents, Asked
  <2> QED
    BY <1>2, <2>1, <2>2 DEF KueueInv, Found, UpgradeSteps, DeletesKueue, KeepsKueue
<1>6. CASE Changes("delete-kueue-crds", crds, {some}, "delete-kueue-deployment")
  <2>1. /\ UNCHANGED <<cmd, blind>> /\ Context' = Context
        /\ pc = "delete-kueue-crds" /\ pc' \in {"delete-kueue-deployment", "done"}
        /\ Context # "own" => kueue' = kueue
        /\ kueue' \in {kueue, crds, some}
    BY <1>6, Changed
  <2>2. Consents' = Consents
    BY <2>1 DEF Consents, Asked
  <2> QED
    BY <1>2, <2>1, <2>2 DEF KueueInv, Found, UpgradeSteps, DeletesKueue, KeepsKueue
<1>7. CASE Changes("delete-kueue-deployment", gone, {}, "install-kueue")
  <2>1. /\ UNCHANGED blind /\ Context' = Context
        /\ pc = "delete-kueue-deployment" /\ pc' \in {"install-kueue", "done"}
        /\ Context # "own" => kueue' = kueue
        /\ kueue' \in {kueue, gone}
        /\ Context = "own" => pc' = "done" \/ kueue' = gone
    BY <1>7, Changed
  <2> QED
    BY <1>2, <2>1 DEF KueueInv, Found, UpgradeSteps, DeletesKueue, KeepsKueue
<1> QED BY <1>3, <1>4, <1>5, <1>6, <1>7

(* The rest of the installation: the objects of Kueue, and a new deployment.  *)
LEMMA KueueInstalls ==
  ASSUME KueueInv,
         \/ __install_kueue_crs \/ __patch_tolerations \/ __wait_for_kueue_available
         \/ configure_kueue \/ __update_kueue_resources_if_necessary
  PROVE  KueueInv' /\ KeepsKueue
<1>. DEFINE new == [kueue EXCEPT !.image = "current", !.crds = "all"]
            tolerant == [kueue EXCEPT !.tolerant = TRUE]
            queues == [kueue EXCEPT !.objects = Quota]
<1>1. kueue \in KueueSet
  BY DEF KueueInv
<1>2. /\ {new, tolerant, queues} \subseteq KueueSet
      /\ new.image = "current" /\ new.crds = "all"
      /\ \A k \in {tolerant, queues} :
           /\ k.image = kueue.image /\ k.crds = kueue.crds
           /\ k.external = kueue.external
  BY <1>1 DEF KueueSet, KueueImages, Quota
<1>3. CASE __install_kueue_crs
  <2>1. PICK next \in {"patch-tolerations", "wait-for-kueue"} :
          Changes("install-kueue", new, {}, next)
    BY <1>3 DEF __install_kueue_crs
  <2>. HIDE DEF new
  <2>2. /\ UNCHANGED blind /\ pc = "install-kueue" /\ pc' \in {next, "done"}
        /\ Context # "own" => kueue' = kueue
        /\ kueue' \in {kueue, new}
    BY <2>1, Changed
  <2> QED
    BY <1>2, <2>2 DEF KueueInv, Found, UpgradeSteps, DeletesKueue, KeepsKueue
<1>4. CASE __patch_tolerations \/ __wait_for_kueue_available \/ configure_kueue
  <2>1. \/ Changes("patch-tolerations", tolerant, {}, "wait-for-kueue")
        \/ Changes("wait-for-kueue", kueue, {}, "configure-kueue")
        \/ Changes("configure-kueue", queues, {}, "kueue-resources")
        \/ Cannot("configure-kueue")
    BY <1>4 DEF __patch_tolerations, __wait_for_kueue_available, configure_kueue
  <2>. HIDE DEF new, tolerant, queues
  <2>2. Cannot("configure-kueue") => kueue' = kueue /\ pc' = "done"
    BY Endings DEF Cannot, Elsewise, installed
  <2>3. /\ kueue' \in {kueue, tolerant, queues}
        /\ pc' \in {"wait-for-kueue", "configure-kueue", "kueue-resources", "done"}
    BY <2>1, <2>2, Changed
  <2> QED
    BY <1>2, <2>3 DEF KueueInv, UpgradeSteps, KeepsKueue
<1>5. CASE __update_kueue_resources_if_necessary
  <2>1. UNCHANGED kueue /\ pc = "kueue-resources"
    BY <1>5 DEF __update_kueue_resources_if_necessary,
       patch_controller_manager_resources, Kubectl, Elsewise, installed, At
  <2>2. LateSteps
    BY <1>5 DEF LateSteps
  <2>3. pc' \notin UpgradeSteps
    BY <2>1, <2>2, Lately DEF LateEffect, UpgradeSteps
  <2> QED BY <2>1, <2>3, KueueKept DEF KeepsKueue
<1> QED BY <1>3, <1>4, <1>5

(* All steps of the run.                                                      *)
LEMMA KueueStep == KueueInv /\ Step => KueueInv' /\ KeepsKueue
<1>. SUFFICES ASSUME KueueInv, Step PROVE KueueInv' /\ KeepsKueue
  OBVIOUS
<1>1. CASE LateSteps
  <2>1. CASE pc \in KueueSteps
    BY <1>1, <2>1, Lately, KueueAsks, KueuePrepares, KueueDeletes, KueueInstalls
    DEF LateEffect, InstallsKueue
  <2>2. CASE pc \notin KueueSteps
    <3>1. kueue' = kueue /\ pc' \notin UpgradeSteps
      BY <1>1, <2>2, Lately DEF LateEffect, KueueSteps, UpgradeSteps
    <3> QED BY <3>1, KueueKept DEF KeepsKueue
  <2> QED BY <2>1, <2>2
<1>2. CASE EarlySteps \/ MakesDeployment \/ WritesNetworks
  <2>1. kueue' = kueue
    BY <1>2, First, WithToolkit
    DEF EarlyEffect, ToolkitEffect, WritesNetworks, installed,
        authorize_private_cluster_access_if_necessary,
        update_cluster_authorized_networks
  <2>2. WritesNetworks => pc' \notin UpgradeSteps
    BY Endings, AfterEarly
    DEF WritesNetworks, authorize_private_cluster_access_if_necessary,
        update_cluster_authorized_networks, UpgradeSteps
  <2>3. pc' \notin UpgradeSteps
    BY <1>2, <2>2, First, WithToolkit
    DEF EarlyEffect, ToolkitEffect, Early, ToolkitSteps, UpgradeSteps
  <2> QED BY <2>1, <2>3, KueueKept DEF KeepsKueue
<1>3. CASE Destroys \/ Delete
  <2>1. kueue' = kueue \/ (kueue' = NoKueue /\ has' = {})
    BY <1>3 DEF Destroys, Delete, download_state, stage_for_destroy,
       destroy_deployment, run_command, Gone, Stays, ToolkitAsks, Writes,
       set_cluster_command, get_workload_list, run_gke_cluster_delete_command,
       get_all_subnets_programmatic, delete_cluster_subnets, Elsewise, installed
  <2>2. pc' \in {"stage-for-destroy", "destroy", "list-workloads", "delete-cluster",
                "list-subnets", "delete-subnets", "done"}
    BY <1>3, Endings DEF Destroys, Delete, download_state, stage_for_destroy,
       destroy_deployment, run_command, run_command_with_full_controls,
       ToolkitAsks, Writes, set_cluster_command, get_workload_list,
       run_gke_cluster_delete_command, get_all_subnets_programmatic,
       delete_cluster_subnets
  <2>3. pc' \notin UpgradeSteps
    BY <2>2 DEF UpgradeSteps
  <2> QED BY <2>1, <2>3, KueueKept DEF KeepsKueue
<1> QED BY <1>1, <1>2, <1>3, AllSteps

(* All steps.                                                                 *)
LEMMA KueueNext ==
  TypeInv /\ KueueInv /\ [Next]_vars => KueueInv' /\ [KeepsKueue]_vars
<1>. SUFFICES ASSUME TypeInv, KueueInv, [Next]_vars PROVE KueueInv' /\ KeepsKueue
  OBVIOUS
<1>1. CASE Begin
  <2>1. PICK c \in scenario.commands :
          pc' = IF /\ c.verb = "adapt" /\ c.device \in Gpus
                   /\ "nodes-given" \notin c.options
                THEN "count-nodes" ELSE FirstStep(c)
    BY <1>1 DEF Begin
  <2>2. pc' \in {"count-nodes", "server-config", "identity", "credentials",
                "toolkit-delete", "delete-credentials"}
    BY <2>1, FirstOf
  <2>3. kueue' = kueue /\ pc' \notin UpgradeSteps
    BY <1>1, <2>2 DEF Begin, UpgradeSteps
  <2> QED BY <2>3, KueueKept DEF KeepsKueue
<1>2. CASE ColleagueReads \/ ColleagueWrites \/ OtherSwitches \/ UNCHANGED vars
  <2>1. UNCHANGED <<cmd, pc, has, kueue, blind>>
    BY <1>2 DEF ColleagueReads, ColleagueWrites, OtherSwitches, vars, control,
       installed, Elsewise
  <2>2. file' = file \/ file' = [file EXCEPT !["default"] = "other"]
    BY <1>2 DEF ColleagueReads, ColleagueWrites, OtherSwitches, vars, contexts
  <2>3. File \in {"default", "sandbox"} /\ File' = File
    BY <2>1 DEF File, Asked
  <2>4. Context' = "own" => Context = "own"
    BY <2>1, <2>2, <2>3 DEF Context, Reached, TypeInv
  <2>5. Consents' = Consents
    BY <2>1 DEF Consents, Asked
  <2> QED BY <2>1, <2>4, <2>5 DEF KueueInv, Found, KeepsKueue
<1> QED BY <1>1, <1>2, KueueStep DEF Next, Others

(* What is there at first is of its type.                                     *)
LEMMA KueueInit == Init => KueueInv
<1>. SUFFICES ASSUME Init PROVE KueueInv
  OBVIOUS
<1>1. /\ scenario \in Scenarios /\ kueue = scenario.kueue /\ pc = "done"
  BY DEF Init
<1>2. kueue \in KueueSet
  BY <1>1, ScenariosAssumption DEF ScenarioSet, KueueSet
<1> QED BY <1>1, <1>2, KueueAssumption DEF KueueInv, UpgradeSteps

(* Unless kubectl left a question unanswered, a Kueue that is newer, custom or *)
(* managed by others is neither replaced nor removed, and none is taken down  *)
(* without consent (kueue_manager.py:104).                                    *)
THEOREM KueueOfOthers == Spec => OthersKueueKept
<1>1. Spec => [][KeepsKueue]_vars
  BY Typed, KueueInit, KueueNext, PTL DEF Spec
<1> QED BY <1>1 DEF OthersKueueKept, KeepsKueue

-----------------------------------------------------------------------------
(* What a run leaves behind when it has gone through Pipeline.                 *)

(* The nodes serve Lustre where its driver is, as long as nothing failed, but  *)
(* for those of a cluster that lacks a port which all commands ask for.       *)
NodesServe(h, commands) ==
  "lustre" \in h =>
    \/ "lustre-nodes" \in h
    \/ /\ "legacy-port" \notin h
       /\ \A c \in commands : "lustre" \in c.options => "legacy-port" \in c.options

NodesInv ==
  /\ pc = "recreate-nodes" => "cluster" \in has
  /\ faults = 0 /\ pc # "recreate-nodes" => NodesServe(has, scenario.commands)

(* What is known of a run before a step.                                      *)
Before ==
  /\ Piped /\ cmd \in scenario.commands /\ faults \in Nat
  /\ jobset \in JobSets /\ kueue \in KueueSet /\ NodesInv
  /\ Half(pc, cmd, Now)

(* The Storage CRD is always wanted, right after the environment.             *)
LEMMA AfterEnvironment == After("environment") = "storage-crd"
<1>1. Pipeline[8] = "environment" /\ Pipeline[9] = "storage-crd"
  BY DEF Pipeline
<1>2. StepOf("environment") = 8
  BY <1>1, PlaceOf
<1>3. PICK i \in 9 .. 29 :
        /\ After("environment") = Pipeline[i]
        /\ \A j \in 9 .. (i - 1) : Pipeline[j] \notin WantedOf(cmd)
  BY <1>2, NothingSkipped
<1>4. "storage-crd" \in WantedOf(cmd)
  BY DEF WantedOf
<1> QED BY <1>1, <1>3, <1>4

(* Every step from the credentials on fails, goes astray, or goes on.         *)
LEMMA PipedLate == Before /\ LateSteps => GoesOn
<1>. SUFFICES ASSUME Before
     PROVE  LateSteps => GoesOn
  OBVIOUS
<1>f. Fails \/ stray' # {} => GoesOn
  BY DEF GoesOn
<1>. USE DEF At, GoesOn, Proceeds, Finishes, PartOf, Half, Leaves, ObjectsOf,
         ResourcesOf, Now, KueueSteps, Drivers, Frame, Elsewise, contexts, installed,
         net
<1>. DEFINE Known == /\ ~ByToolkit /\ jobset \in JobSets /\ kueue \in KueueSet
                     /\ Half(pc, cmd, Now)
<1>0. Known
  BY DEF Before, Piped
<1>1. get_cluster_credentials => GoesOn
  BY <1>0, Outcomes, Endings DEF get_cluster_credentials
<1>2. update_coredns_if_necessary => GoesOn
  <2>1. coredns_deployment_exists => GoesOn
    BY <1>0, Outcomes, Endings DEF coredns_deployment_exists
  <2>2. \A next : verify_coredns_readiness(pc, next) =>
          Fails \/ stray' # {} \/ (pc' = next /\ has' = has /\ "coredns" \in has)
    <3>. HIDE DEF GoesOn, PartOf, Half, Leaves, Now
    <3> QED
      BY <1>0, Outcomes DEF verify_coredns_readiness, _wait_for_deployment_ready, KubectlPuts
  <2>a. ASSUME pc \in {"coredns-found", "coredns-cleanup"}, pc' = After("coredns"),
               "coredns" \in has'
        PROVE  GoesOn
    <3>1. PartOf(pc) = "coredns"
      BY <2>a
    <3>2. Leaves("coredns", cmd, Now')
      <4>. HIDE DEF PartOf, Half
      <4> QED BY <2>a
    <3>. HIDE DEF PartOf, Half, Leaves, Now
    <3> QED BY <2>a, <3>1, <3>2
  <2>b. pc = "coredns-ready" /\ pc' = "coredns-cleanup" /\ has' = has /\ "coredns" \in has
          => GoesOn
    OBVIOUS
  <2>3. verify_coredns_readiness("coredns-found", After("coredns")) => GoesOn
    <3>1. verify_coredns_readiness("coredns-found", After("coredns")) => pc = "coredns-found"
      BY DEF verify_coredns_readiness, _wait_for_deployment_ready
    <3>. HIDE DEF GoesOn
    <3> QED BY <2>2, <2>a, <1>f, <3>1
  <2>4. verify_coredns_readiness("coredns-ready", "coredns-cleanup") => GoesOn
    <3>1. verify_coredns_readiness("coredns-ready", "coredns-cleanup") => pc = "coredns-ready"
      BY DEF verify_coredns_readiness, _wait_for_deployment_ready
    <3>. HIDE DEF GoesOn
    <3> QED BY <2>2, <2>b, <1>f, <3>1
  <2>5. clone_coredns_deployment_repo => GoesOn
    BY <1>0, Outcomes, Endings DEF clone_coredns_deployment_repo
  <2>6. cleanup_coredns_repo => GoesOn
    <3>1. cleanup_coredns_repo =>
            /\ pc = "coredns-cleanup" /\ has' = has
            /\ Fails \/ pc' = After("coredns")
      BY Endings DEF cleanup_coredns_repo, Ends, Fails
    <3>2. pc = "coredns-cleanup" => "coredns" \in has
      BY <1>0
    <3>. HIDE DEF GoesOn
    <3> QED BY <2>a, <1>f, <3>1, <3>2
  <2>7. deploy_coredns_manifests => GoesOn
    BY <1>0, Outcomes DEF deploy_coredns_manifests
  <2>8. scale_up_coredns => GoesOn
    BY <1>0, Outcomes DEF scale_up_coredns
  <2>. HIDE DEF GoesOn
  <2> QED
    BY <2>1, <2>3, <2>4, <2>5, <2>6, <2>7, <2>8, Zenon
    DEF update_coredns_if_necessary, update_coredns
<1>3. setup_k8s_env => GoesOn
  <2>1. Environment("environment", After("environment")) => GoesOn
    BY <1>0, Outcomes, Endings DEF Environment, Ends, Fails
  <2>2. Environment("mtc-environment", "mtc-bucket") => GoesOn
    BY <1>0, Outcomes, Endings DEF Environment, Ends, Fails
  <2>. HIDE DEF GoesOn
  <2> QED BY <2>1, <2>2, AfterEnvironment DEF setup_k8s_env
<1>4. install_storage_crd => GoesOn
  BY <1>0, Outcomes, Endings DEF install_storage_crd
<1>5. install_storage_csis => GoesOn
  <2>0. \A driver : DriverIfNecessary(driver) =>
          /\ pc = driver
          /\ Fails \/ (pc' = After(driver) /\ driver \in has')
    <3>. HIDE DEF GoesOn, Proceeds, Finishes, PartOf, Half, Leaves, ObjectsOf, ResourcesOf,
              Now
    <3> QED
      BY <1>0, Outcomes DEF DriverIfNecessary, IfNecessary, is_driver_enabled_on_cluster,
         update_gke_cluster_with_addons
  <2>1. \A driver \in {"gcsfuse", "filestore", "parallelstore", "pd"} :
          pc = driver /\ pc' = After(driver) /\ driver \in has' => GoesOn
    <3>. SUFFICES ASSUME NEW driver \in {"gcsfuse", "filestore", "parallelstore", "pd"},
                         pc = driver, pc' = After(driver), driver \in has'
         PROVE  Finishes
      OBVIOUS
    <3>. HIDE DEF Leaves, Now
    <3>1. PartOf(driver) = driver
      OBVIOUS
    <3>2. ObjectsOf(driver) = {driver} /\ ResourcesOf(driver) = {}
      OBVIOUS
    <3>. HIDE DEF PartOf, ObjectsOf, ResourcesOf
    <3>3. Leaves(driver, cmd, Now')
      BY <3>2 DEF Leaves, Now
    <3> QED BY <3>1, <3>3
  <2>2. update_cluster_with_lustre_driver_if_necessary => GoesOn
    <3>. SUFFICES ASSUME update_cluster_with_lustre_driver_if_necessary PROVE GoesOn
      OBVIOUS
    <3>1. NodesInv /\ cmd \in scenario.commands
      BY DEF Before
    <3>2. "lustre" \in WantedOf(cmd) => "lustre" \in cmd.options
      BY <1>0 DEF WantedOf, When
    <3>3. CASE "cluster" \in has /\ "lustre" \in has
               /\ (Asked("legacy-port") => "legacy-port" \in has)
      <4>1. Asks(After("lustre")) /\ has' = has /\ pc = "lustre"
        <5>. HIDE DEF GoesOn, Proceeds, Finishes, PartOf, Half, Leaves, ObjectsOf,
                  ResourcesOf, Now
        <5> QED
          BY <3>3 DEF update_cluster_with_lustre_driver_if_necessary, IfNecessary,
             is_driver_enabled_on_cluster
      <4>2. Fails \/ pc' = After("lustre")
        BY <1>0, <4>1, Outcomes
      <4>3. faults' = 0 => faults = 0
        BY <4>1 DEF Before, Asks, GoTo, Breaks, Fault
      <4>4. "lustre" \in WantedOf(cmd) /\ faults' = 0 => "lustre-nodes" \in has'
        BY <3>1, <3>2, <3>3, <4>1, <4>3 DEF NodesInv, NodesServe, Asked
      <4>5. "lustre" \in has' /\ Port(cmd, Now')
        BY <3>3, <4>1 DEF Port, Asked
      <4>6. "lustre" \in WantedOf(cmd) => Leaves("lustre", cmd, Now')
        <5>. HIDE DEF GoesOn, Proceeds, Finishes, PartOf, Half
        <5> QED BY <4>4, <4>5
      <4>. HIDE DEF Leaves, Now
      <4> QED BY <4>1, <4>2, <4>6
    <3>4. CASE ~("cluster" \in has /\ "lustre" \in has
               /\ (Asked("legacy-port") => "legacy-port" \in has))
      <4>. DEFINE added == {"lustre"} \cup ({"legacy-port"} \cap cmd.options)
      <4>1. pc = "lustre" /\ GcloudPuts(added, "recreate-nodes")
        <5>. HIDE DEF GoesOn, PartOf, Half, Leaves, Now
        <5> QED
          BY <3>4
          DEF update_cluster_with_lustre_driver_if_necessary, IfNecessary,
              is_driver_enabled_on_cluster, update_gke_cluster_with_lustre_driver_enabled
      <4>2. Fails \/ (pc' = "recreate-nodes" /\ added \subseteq has')
        <5>. HIDE DEF GoesOn, PartOf, Half, Leaves, Now, added
        <5> QED BY <1>0, <4>1, Outcomes
      <4>3. added \subseteq has' => "lustre" \in has' /\ Port(cmd, Now')
        BY DEF Port
      <4>4. "lustre" \in has' /\ Port(cmd, Now') => Half("recreate-nodes", cmd, Now')
        OBVIOUS
      <4>5. PartOf("lustre") = "lustre" /\ PartOf("recreate-nodes") = "lustre"
        OBVIOUS
      <4>. HIDE DEF PartOf, Half, Leaves, Now, added
      <4> QED BY <4>1, <4>2, <4>3, <4>4, <4>5
    <3>. HIDE DEF GoesOn
    <3> QED BY <3>3, <3>4
  <2>3. recreate_nodes_in_existing_node_pools => GoesOn
    <3>. SUFFICES ASSUME recreate_nodes_in_existing_node_pools PROVE GoesOn
      OBVIOUS
    <3>1. pc = "recreate-nodes" /\ GcloudPuts({"lustre-nodes"}, After("lustre"))
      <4>. HIDE DEF GoesOn, PartOf, Half, Leaves, Now
      <4> QED
        BY DEF recreate_nodes_in_existing_node_pools, GcloudUpdate, IfNecessary
    <3>2. Fails \/ (pc' = After("lustre") /\ has' = has \cup {"lustre-nodes"})
      <4>. HIDE DEF GoesOn, PartOf, Half, Leaves, Now
      <4> QED BY <1>0, <3>1, Outcomes
    <3>3. "lustre" \in has /\ Port(cmd, Now)
      BY <1>0, <3>1
    <3>4. ASSUME has' = has \cup {"lustre-nodes"} PROVE Leaves("lustre", cmd, Now')
      <4>1. Port(cmd, Now')
        BY <3>3, <3>4 DEF Port
      <4>. HIDE DEF PartOf, Half
      <4> QED BY <3>3, <3>4, <4>1
    <3>5. PartOf("recreate-nodes") = "lustre"
      OBVIOUS
    <3>. HIDE DEF PartOf, Half, Leaves, Now
    <3> QED BY <3>1, <3>2, <3>4, <3>5
  <2>. HIDE DEF GoesOn
  <2> QED
    BY <1>f, <2>0, <2>1, <2>2, <2>3
    DEF install_storage_csis, update_cluster_with_gcsfuse_driver_if_necessary,
        update_cluster_with_gcpfilestore_driver_if_necessary,
        update_cluster_with_parallelstore_driver_if_necessary,
        update_cluster_with_pd_driver_if_necessary
<1>6. create_vertex_tensorboard => GoesOn
  BY <1>0, Outcomes, Endings DEF create_vertex_tensorboard, Makes
<1>7. set_up_cluster_network_for_a3 => GoesOn
  <2>. DEFINE missing == {n \in DOMAIN A3Networks : A3Networks[n] \notin project}
  <2>1. missing = {} => Range(A3Networks) \subseteq project
    BY DEF Range
  <2>2. \A resources, step : Makes(resources, step) =>
          Fails \/ (pc' = step /\ project' = project \cup resources)
    BY <1>0, Outcomes, Endings DEF Makes
  <2>. HIDE DEF missing
  <2>3. At("networks") /\ missing = {} /\ Makes({}, "network-config") => GoesOn
    BY <2>1, <2>2
  <2>4. \A resources : At("networks") /\ Makes(resources, "networks") => GoesOn
    BY <2>2
  <2> QED BY <2>3, <2>4 DEF set_up_cluster_network_for_a3, missing
<1>8. create_cluster_network_config => GoesOn
  BY <1>0, Outcomes DEF create_cluster_network_config, Kubectl, KubectlApply
<1>9. get_gke_node_pool_version => GoesOn
  BY <1>0, Outcomes DEF get_gke_node_pool_version, GcloudUpdate, IfNecessary
<1>10. run_gke_node_pool_create_command => GoesOn
  BY <1>0, Outcomes DEF run_gke_node_pool_create_command, GcloudUpdate, IfNecessary
<1>11. enable_autoprovisioning_on_cluster => GoesOn
  <2>1. At("nap") /\ xpk_exit => GoesOn
    BY <1>0, Outcomes
  <2>2. GcloudUpdate("nap", {"autoprovisioning"}, "nap-profile") => GoesOn
    BY <1>0, Outcomes DEF GcloudUpdate, IfNecessary
  <2>3. GcloudUpdate("nap-profile", {"autoscaling-profile"}, "nap-pools") => GoesOn
    BY <1>0, Outcomes DEF GcloudUpdate, IfNecessary
  <2>4. GcloudUpdate("nap-pools", {"autoscaled-pools"}, After("nap")) => GoesOn
    BY <1>0, Outcomes DEF GcloudUpdate, IfNecessary
  <2>5. ~ByToolkit
    BY <1>0
  <2>. HIDE DEF GoesOn
  <2> QED BY <2>1, <2>2, <2>3, <2>4, <2>5 DEF enable_autoprovisioning_on_cluster
<1>12. create_cluster_configmaps => GoesOn
  BY <1>0, Outcomes DEF create_cluster_configmaps, Kubectl, KubectlApply
<1>13. install_nccl_on_cluster => GoesOn
  BY <1>0, Outcomes DEF install_nccl_on_cluster, Kubectl, KubectlApply
<1>14. install_nri_on_cluster => GoesOn
  BY <1>0, Outcomes DEF install_nri_on_cluster, Kubectl, KubectlApply
<1>15. delete_ray_cluster => GoesOn
  BY <1>0, Outcomes, Endings DEF delete_ray_cluster
<1>16. generate_available_resources => GoesOn
  BY <1>0, Outcomes DEF generate_available_resources
<1>17. install_ray_cluster => GoesOn
  BY <1>0, Outcomes DEF install_ray_cluster, Kubectl, KubectlApply
<1>18. install_mtc_on_cluster => GoesOn
  BY <1>0, Outcomes, Endings DEF install_mtc_on_cluster
<1>19. add_mtc_bucket_iam_member => GoesOn
  BY <1>0, Outcomes, Endings DEF add_mtc_bucket_iam_member, Makes
<1>20. update_jobset_manifest => GoesOn
  BY <1>0, Outcomes, Endings DEF update_jobset_manifest
<1>21. create_mtc_cpc => GoesOn
  <2>1. create_mtc_cpc /\ LibraryContext = "own" => GoesOn
    BY <1>0, Outcomes DEF create_mtc_cpc
  <2>2. create_mtc_cpc /\ LibraryContext # "own" => Elsewhere(LibraryContext, After("mtc"))
    BY DEF create_mtc_cpc, KubectlPuts
  <2>. HIDE DEF GoesOn
  <2> QED BY <1>0, <1>f, <2>1, <2>2, Outcomes
<1>22. grant_compute_default_sa_mldiagnostics_permissions => GoesOn
  BY <1>0, Outcomes, Endings DEF grant_compute_default_sa_mldiagnostics_permissions
<1>23. install_mldiagnostics_prerequisites => GoesOn
  <2>0. \A step, deployed, next :
          _wait_for_deployment_ready(step, deployed, next) =>
            /\ pc = step
            /\ Fails \/ stray' # {} \/ (pc' = next /\ has' = has)
    <3>. HIDE DEF GoesOn, PartOf, Half, Leaves, Now
    <3> QED BY <1>0, Outcomes DEF _wait_for_deployment_ready
  <2>1. pc = "ml-prerequisites" /\ pc' = "cert-manager" => GoesOn
    OBVIOUS
  <2>7. pc = "cert-manager-ready" /\ pc' = "ml-namespace" /\ has' = has => GoesOn
    <3>1. pc = "cert-manager-ready" => "cert-manager" \in has
      BY <1>0
    <3> QED BY <3>1
  <2>2. _install_cert_manager => GoesOn
    BY <1>0, Outcomes DEF _install_cert_manager, Kubectl
  <2>3. Kubectl("ml-namespace", {"diagnostics-namespace"}, "ml-webhook") => GoesOn
    BY <1>0, Outcomes DEF Kubectl
  <2>4. Kubectl("ml-webhook", {"diagnostics-webhook"}, "ml-label") => GoesOn
    BY <1>0, Outcomes DEF Kubectl
  <2>5. _label_default_namespace_mldiagnostics => GoesOn
    BY <1>0, Outcomes DEF _label_default_namespace_mldiagnostics, Kubectl
  <2>6. Kubectl("ml-operator", {"diagnostics-operator"}, After("ml-prerequisites"))
          => GoesOn
    BY <1>0, Outcomes DEF Kubectl
  <2>. HIDE DEF GoesOn, PartOf, Half, Leaves, Now
  <2>9. /\ _wait_for_deployment_ready("ml-prerequisites", kueue.image # "none",
                                      "cert-manager") => GoesOn
        /\ _wait_for_deployment_ready("cert-manager-ready", "cert-manager" \in has,
                                      "ml-namespace") => GoesOn
    BY <1>f, <2>0, <2>1, <2>7
  <2> QED
    BY <2>2, <2>3, <2>4, <2>5, <2>6, <2>9
    DEF install_mldiagnostics_prerequisites, _install_mldiagnostics_yaml
<1>24. _should_install_jobset => GoesOn
  BY <1>0, Outcomes, Endings DEF _should_install_jobset, Question
<1>25. jobset_managed_externally => GoesOn
  BY <1>0, Outcomes, Endings DEF jobset_managed_externally, Question
<1>26. set_jobset_on_cluster => GoesOn
  <2>1. AppliesJobSet("install-jobset", {}, "patch-jobset") => GoesOn
    BY <1>0, Outcomes, Endings DEF AppliesJobSet, JobSets
  <2>2. Kubectl("patch-jobset", {"large-jobset"}, After("jobset")) => GoesOn
    BY <1>0, Outcomes DEF Kubectl
  <2>3. At("patch-jobset") /\ GoTo(After("jobset")) /\ UNCHANGED jobset => GoesOn
    BY <1>0, Endings
  <2>. HIDE DEF GoesOn
  <2> QED
    BY <2>1, <2>2, <2>3 DEF set_jobset_on_cluster, patch_controller_manager_resources
<1>27. update_jobset_resources_if_necessary => GoesOn
  BY <1>0, Outcomes, Endings DEF update_jobset_resources_if_necessary, AppliesJobSet,
     JobSets
<1>28. get_installed_kueue_version => GoesOn
  BY <1>0, Outcomes, Endings DEF get_installed_kueue_version, Question
<1>29. kueue_managed_externally => GoesOn
  BY <1>0, Outcomes, Endings DEF kueue_managed_externally, Question
<1>30. prepare_for_upgrade => GoesOn
  BY <1>0, Outcomes, Endings DEF prepare_for_upgrade
<1>31. delete_all_kueue_resources => GoesOn
  <2>1. Cannot("delete-kueue-objects") => GoesOn
    <3>. HIDE DEF GoesOn
    <3> QED BY <1>0, <1>f, Outcomes DEF Cannot
  <2>2. \A step, after, partly, next :
          Changes(step, after, partly, next) =>
            pc = step /\ (Fails \/ stray' # {} \/ pc' = next)
    <3>. HIDE DEF GoesOn, PartOf, Half, Leaves, Now
    <3> QED BY <1>0, Outcomes, Endings DEF Changes
  <2>3. pc = "delete-kueue-objects" /\ pc' = "delete-kueue-crds" => GoesOn
    OBVIOUS
  <2>4. pc = "delete-kueue-crds" /\ pc' = "delete-kueue-deployment" => GoesOn
    OBVIOUS
  <2>5. pc = "delete-kueue-deployment" /\ pc' = "install-kueue" => GoesOn
    OBVIOUS
  <2>. HIDE DEF GoesOn
  <2> QED
    BY <1>f, <2>1, <2>2, <2>3, <2>4, <2>5 DEF delete_all_kueue_resources
<1>32. __install_kueue_crs => GoesOn
  BY <1>0, Outcomes, Endings DEF __install_kueue_crs, Changes, KueueSet
<1>33. __patch_tolerations => GoesOn
  BY <1>0, Outcomes, Endings DEF __patch_tolerations, Changes, KueueSet
<1>34. __wait_for_kueue_available => GoesOn
  BY <1>0, Outcomes, Endings DEF __wait_for_kueue_available, Changes
<1>35. configure_kueue => GoesOn
  <2>. DEFINE set == [kueue EXCEPT !.objects = Quota]
  <2>1. Cannot("configure-kueue") => GoesOn
    <3>. HIDE DEF GoesOn
    <3> QED BY <1>0, <1>f, Outcomes DEF Cannot
  <2>2. ASSUME kueue.crds = "all" \/ Context # "own",
               Changes("configure-kueue", set, {}, "kueue-resources")
        PROVE  GoesOn
    <3>1. /\ pc = "configure-kueue"
          /\ \/ Fails \/ stray' # {}
             \/ pc' = "kueue-resources" /\ kueue' = set /\ kueue.crds = "all"
      <4>. HIDE DEF GoesOn, PartOf, Half, Leaves, Now, set
      <4> QED BY <1>0, <2>2, Outcomes, Endings DEF Changes
    <3>2. pc = "configure-kueue" => kueue.image # "none"
      BY <1>0
    <3>3. kueue.image # "none" /\ kueue.crds = "all" /\ kueue' = set
            => Queues(cmd, Now')
      BY <1>0 DEF Queues, Quota, Asked, KueueSet
    <3>4. Queues(cmd, Now') => Half("kueue-resources", cmd, Now')
      OBVIOUS
    <3>5. PartOf("configure-kueue") = "kueue" /\ PartOf("kueue-resources") = "kueue"
      OBVIOUS
    <3>. HIDE DEF PartOf, Half, Leaves, Now, set
    <3> QED BY <3>1, <3>2, <3>3, <3>4, <3>5
  <2>. HIDE DEF GoesOn
  <2> QED BY <2>1, <2>2 DEF configure_kueue
<1>36. __update_kueue_resources_if_necessary => GoesOn
  BY <1>0, Outcomes DEF __update_kueue_resources_if_necessary, Kubectl,
         KubectlApply, patch_controller_manager_resources, Queues
<1>. HIDE DEF GoesOn
<1> QED BY <1>1, <1>2, <1>3, <1>4, <1>5, <1>6, <1>7, <1>8, <1>9, <1>10,
           <1>11, <1>12, <1>13, <1>14, <1>15, <1>16, <1>17, <1>18, <1>19,
           <1>20, <1>21, <1>22, <1>23, <1>24, <1>25, <1>26, <1>27, <1>28,
           <1>29, <1>30, <1>31, <1>32, <1>33, <1>34, <1>35, <1>36
    DEF LateSteps

(* Where a run begins, and what of it leaves nothing behind.                  *)
Begins(step, c) ==
  \/ step \in {"server-config", "control-plane-version", "cluster", "authorize"}
  \/ /\ "authorize" \notin WantedOf(c)
     /\ \/ step \in {"count-nodes", "identity"}
        \/ step = "credentials" /\ "identity" \notin WantedOf(c)

(* There, all that was wanted so far is there.                                *)
LEMMA AtFirst ==
  ASSUME NEW step, NEW c, NEW s, Begins(step, c)
  PROVE  Ready(step, c, s)
<1>1. /\ Pipeline[1] = "server-config" /\ Pipeline[2] = "cluster"
      /\ Pipeline[3] = "authorize" /\ Pipeline[4] = "identity"
      /\ Pipeline[5] = "mtc-addons" /\ Pipeline[6] = "credentials"
  BY DEF Pipeline
<1>2. /\ StepOf("server-config") = 1 /\ StepOf("cluster") = 2
      /\ StepOf("authorize") = 3 /\ StepOf("identity") = 4
      /\ StepOf("credentials") = 6
  BY <1>1, PlaceOf
<1>3. \A name \in {"server-config", "cluster", "mtc-addons"} : Leaves(name, c, s)
  BY DEF Leaves, ObjectsOf, ResourcesOf, Drivers
<1>4. /\ Passed(1, c, s) /\ Passed(2, c, s) /\ Passed(3, c, s)
      /\ "authorize" \notin WantedOf(c) => Passed(4, c, s)
  BY <1>1, <1>3 DEF Passed
<1>5. {"authorize", "identity"} \cap WantedOf(c) = {} => Passed(6, c, s)
  <2>. SUFFICES ASSUME {"authorize", "identity"} \cap WantedOf(c) = {}, NEW i \in 1 .. 5
       PROVE  Pipeline[i] \in WantedOf(c) => Leaves(Pipeline[i], c, s)
    BY DEF Passed
  <2>1. i \in {1, 2, 3, 4, 5}
    OBVIOUS
  <2> QED BY <1>1, <1>3, <2>1
<1>6. Half(step, c, s)
  BY DEF Begins, Half
<1>7. \/ PartOf(step) \in {"server-config", "cluster", "authorize"}
      \/ PartOf(step) \in {"server-config", "identity"} /\ "authorize" \notin WantedOf(c)
      \/ /\ PartOf(step) = "credentials"
         /\ {"authorize", "identity"} \cap WantedOf(c) = {}
  BY DEF Begins, PartOf, KueueSteps
<1> QED BY <1>2, <1>4, <1>5, <1>6, <1>7 DEF Ready

(* The steps before the credentials go on, too.                               *)
LEMMA PipedEarly ==
  Before /\ (EarlySteps \/ WritesNetworks) => GoesOn \/ Begins(pc', cmd)
<1>. SUFFICES ASSUME Before
     PROVE  EarlySteps \/ WritesNetworks => GoesOn \/ Begins(pc', cmd)
  OBVIOUS
<1>. USE DEF At, GoesOn, Begins, Elsewise, contexts, installed, net
<1>0. ~ByToolkit
  BY DEF Before, Piped
<1>1. /\ PartOf("authorize") = "authorize" /\ PartOf("mtc-addons") = "mtc-addons"
      /\ \A c, s : Private(c, s) => Leaves("authorize", c, s)
      /\ \A c, s : Leaves("mtc-addons", c, s)
  BY DEF PartOf, KueueSteps, Leaves, ObjectsOf, ResourcesOf, Drivers
<1>2. count_nodes_on_cluster => GoesOn \/ Begins(pc', cmd)
  <2>1. count_nodes_on_cluster => "authorize" \notin WantedOf(cmd)
    BY DEF count_nodes_on_cluster, Before, Half
  <2> QED BY <1>0, <2>1, Outcomes, Endings DEF count_nodes_on_cluster
<1>3. get_gke_server_config => GoesOn \/ Begins(pc', cmd)
  BY <1>0, Outcomes DEF get_gke_server_config
<1>4. get_gke_control_plane_version => GoesOn \/ Begins(pc', cmd)
  BY <1>0, Outcomes, Endings DEF get_gke_control_plane_version
<1>5. create_cluster_if_necessary => GoesOn \/ Begins(pc', cmd)
  BY <1>0, Outcomes DEF create_cluster_if_necessary
<1>6. is_cluster_private => GoesOn
  <2>1. PartOf("read-networks") = "authorize"
    BY DEF PartOf, KueueSteps
  <2>2. ASSUME is_cluster_private
        PROVE  \/ Fails
               \/ pc' = "read-networks" /\ Private(cmd, Now')
               \/ pc' = After("authorize") /\ Private(cmd, Now')
    BY <1>0, <2>2, Outcomes DEF is_cluster_private, Private, Now
  <2>3. Private(cmd, Now') => Half("read-networks", cmd, Now')
    BY DEF Half
  <2>4. is_cluster_private => pc = "authorize"
    BY DEF is_cluster_private
  <2> QED BY <1>1, <2>1, <2>2, <2>3, <2>4 DEF Proceeds, Finishes
<1>7. update_cluster_with_workload_identity_if_necessary => GoesOn
  <2>1. pc = "identity" /\ (Fails \/ (pc' = After("identity") /\ "identity" \in has'))
          => GoesOn
    BY DEF Finishes, PartOf, KueueSteps, Leaves, ObjectsOf, ResourcesOf, Drivers, Now
  <2> QED
    BY <1>0, <2>1, Outcomes DEF update_cluster_with_workload_identity_if_necessary,
       update_gke_cluster_with_workload_identity_enabled, IfNecessary
<1>8. update_cluster_with_mtc_if_necessary => GoesOn
  BY <1>0, <1>1, Outcomes DEF update_cluster_with_mtc_if_necessary, IfNecessary,
     update_gke_cluster_with_addons, Finishes
<1>9. WritesNetworks => GoesOn
  <2>1. PartOf("read-networks") = "authorize" /\ PartOf("write-networks") = "authorize"
    BY DEF PartOf, KueueSteps
  <2>2. ASSUME WritesNetworks
        PROVE  /\ pc \in {"read-networks", "write-networks"} /\ has' = has
               /\ Fails \/ pc' \in {"write-networks", After("authorize")}
    BY <1>0, <2>2, Outcomes, Endings
    DEF WritesNetworks, authorize_private_cluster_access_if_necessary,
        update_cluster_authorized_networks
  <2>3. WritesNetworks => Private(cmd, Now')
    BY <2>2 DEF Before, Half, Private, Now
  <2>4. Private(cmd, Now') => Half("write-networks", cmd, Now')
    BY DEF Half
  <2> QED BY <1>1, <2>1, <2>2, <2>3, <2>4 DEF Proceeds, Finishes
<1> QED BY <1>2, <1>3, <1>4, <1>5, <1>6, <1>7, <1>8, <1>9 DEF EarlySteps

-----------------------------------------------------------------------------
(* All steps of a run that goes through Pipeline.                             *)

(* Whether the run has not failed yet, nor reached another cluster.           *)
Unfailed == stray = {} /\ (pc = "done" => rc = "ok")

OrderInv ==
  /\ faults \in Nat /\ jobset \in JobSets /\ NodesInv
  /\ Piped => PartOf(pc) \in Parts \cup {"done"}
  /\ Piped /\ Unfailed => Ready(pc, cmd, Now)

(* What a run is made of is known when it goes on.                            *)
LEMMA PartsOf ==
  /\ \A step \in (Early \cup {"credentials"} \cup Late) : PartOf(step) \in Parts
  /\ \A step \in ToolkitSteps \cup DestroySteps \cup DeleteSteps :
       PartOf(step) \notin Parts \cup {"done"}
  /\ PartOf("done") = "done"
<1>1. \A step \in Early \cup {"credentials"} : PartOf(step) \in Parts
  BY DEF Early, PartOf, KueueSteps, Parts
<1>2. \A step \in Offered : PartOf(step) \in Parts
  BY DEF Offered, PartOf, KueueSteps, Parts
<1>3. \A step \in KueueSteps : PartOf(step) = "kueue"
  BY DEF PartOf, KueueSteps
<1>4. "kueue" \in Parts
  BY DEF Parts, Offered
<1>5. \A step \in Late \ (Offered \cup KueueSteps) : PartOf(step) \in Parts
  BY DEF Late, Offered, PartOf, KueueSteps, Parts
<1>6. \A step \in ToolkitSteps \cup DestroySteps \cup DeleteSteps \cup {"done"} :
        PartOf(step) = step
  BY DEF ToolkitSteps, DestroySteps, DeleteSteps, PartOf, KueueSteps
<1>7. \A step \in ToolkitSteps \cup DestroySteps \cup DeleteSteps :
        step \notin Parts \cup {"done"}
  BY DEF ToolkitSteps, DestroySteps, DeleteSteps, Parts, Offered
<1> QED BY <1>1, <1>2, <1>3, <1>4, <1>5, <1>6, <1>7

(* The steps of a run through Pipeline.                                       *)
PipedSteps == LateSteps \/ EarlySteps \/ WritesNetworks

(* They carry what was left over to the next step.                            *)
LEMMA PipedStep ==
  ASSUME OrderInv, KueueInv, TypeInv, Piped, PipedSteps
  PROVE  /\ PartOf(pc') \in Parts \cup {"done"}
         /\ Unfailed' => Ready(pc', cmd, Now')
<1>1. /\ pc \in Early \cup {"credentials"} \cup Late
      /\ pc' \in Early \cup {"credentials"} \cup Late \cup {"done"}
  <2>1. LateSteps \/ EarlySteps
          => /\ pc \in Early \cup {"credentials"} \cup Late
             /\ pc' \in Early \cup {"credentials"} \cup Late \cup {"done"}
    BY Lately, First DEF LateEffect, EarlyEffect, Piped
  <2>2. WritesNetworks
          => /\ pc \in Early
             /\ pc' \in Early \cup {"credentials", "done"}
    BY Endings, AfterEarly
    DEF WritesNetworks, authorize_private_cluster_access_if_necessary,
        update_cluster_authorized_networks, At, Early
  <2> QED BY <2>1, <2>2 DEF PipedSteps
<1>2. pc # "done"
  BY <1>1, PartsOf DEF Early, Late, Offered, KueueSteps
<1>3. Growth
  BY GrowingLate, GrowingEarly DEF PipedSteps
<1>4. pc \notin KueueSteps => kueue' = kueue
  <2>1. LateSteps \/ EarlySteps => (pc \notin KueueSteps => kueue' = kueue)
    BY Lately, First DEF LateEffect, EarlyEffect
  <2>2. WritesNetworks => kueue' = kueue
    BY DEF WritesNetworks, authorize_private_cluster_access_if_necessary,
        update_cluster_authorized_networks, installed
  <2> QED BY <2>1, <2>2 DEF PipedSteps
<1>5. ASSUME Unfailed' PROVE Ready(pc', cmd, Now')
  <2>1. Unfailed /\ ~Fails /\ stray' = {}
    BY <1>2, <1>3, <1>5 DEF Unfailed, Growth, Fails
  <2>2. Ready(pc, cmd, Now) /\ PartOf(pc) \in Parts
    BY <1>1, <2>1, PartsOf DEF OrderInv
  <2>3. Before
    <3>1. cmd \in scenario.commands
      BY DEF TypeInv, Piped, NoCommand
    <3> QED BY <2>2, <3>1 DEF Before, OrderInv, KueueInv, Ready
  <2>4. GoesOn \/ Begins(pc', cmd)
    BY <2>3, PipedLate, PipedEarly DEF PipedSteps
  <2>5. CASE GoesOn
    BY <1>3, <1>4, <2>1, <2>2, <2>5, Advance DEF OrderInv
  <2>6. CASE Begins(pc', cmd)
    BY <2>6, AtFirst
  <2> QED BY <2>4, <2>5, <2>6
<1> QED BY <1>1, <1>5, PartsOf

(* Most steps leave the nodes as they are.                                    *)
LEMMA NodesKept ==
  ASSUME NodesInv, Growth, faults \in Nat,
         pc \notin {"cluster", "lustre", "recreate-nodes"}, pc' # "recreate-nodes"
  PROVE  NodesInv'
<1>1. faults' = 0 => faults = 0
  BY DEF Growth
<1>2. scenario' = scenario /\ has \ {"ray", "large-jobset"} \subseteq has'
      /\ has' \cap {"lustre", "legacy-port"} \subseteq has
  BY DEF Growth
<1>3. NodesServe(has, scenario.commands) => NodesServe(has', scenario.commands)
  BY <1>2 DEF NodesServe
<1> QED BY <1>1, <1>2, <1>3 DEF NodesInv

(* What is left of them where nothing is added, or all is taken away.         *)
LEMMA NodesStay ==
  ASSUME NodesInv, faults \in Nat, faults' \in {faults, faults + 1},
         UNCHANGED scenario, has' \in {{}, has},
         pc' = "recreate-nodes" => pc = pc' /\ has' = has,
         pc = "recreate-nodes" => pc' = pc \/ faults' # 0
  PROVE  NodesInv'
<1>1. faults' = 0 => faults = 0
  OBVIOUS
<1>2. NodesServe({}, scenario.commands)
  BY DEF NodesServe
<1> QED BY <1>1, <1>2 DEF NodesInv

(* A new cluster serves Lustre from the start.                                *)
LEMMA NodesMade ==
  ASSUME NodesInv, faults \in Nat, TypeInv, create_cluster_if_necessary
  PROVE  NodesInv'
<1>1. /\ pc = "cluster" /\ scenario' = scenario /\ cmd' = cmd
      /\ faults' \in {faults, faults + 1}
      /\ has' \in {has, has \cup Flags(cmd)}
  BY DEF create_cluster_if_necessary, At, Asks, Puts, GoTo, Breaks, Fault
<1>2. pc' # "recreate-nodes"
  BY Endings DEF create_cluster_if_necessary
<1>3. \/ {"lustre", "lustre-nodes"} \subseteq Flags(cmd)
      \/ {"lustre", "legacy-port"} \cap Flags(cmd) = {}
  <2>1. "lustre" \in cmd.options => {"lustre", "lustre-nodes"} \subseteq Flags(cmd)
    BY DEF Flags, When, Drivers
  <2>2. "lustre" \notin cmd.options => {"lustre", "legacy-port"} \cap Flags(cmd) = {}
    BY DEF Flags, When, Drivers
  <2> QED BY <2>1, <2>2
<1>4. NodesServe(has, scenario.commands) => NodesServe(has', scenario.commands)
  BY <1>1, <1>3 DEF NodesServe
<1>5. faults' = 0 => faults = 0
  BY <1>1
<1> QED BY <1>1, <1>2, <1>4, <1>5 DEF NodesInv

(* The driver is followed by the nodes.                                       *)
LEMMA NodesRecreated ==
  ASSUME NodesInv, faults \in Nat, install_storage_csis,
         pc \in {"lustre", "recreate-nodes"}
  PROVE  NodesInv'
<1>1. CASE pc = "lustre"
  <2>. DEFINE added == {"lustre"} \cup ({"legacy-port"} \cap cmd.options)
  <2>1. update_cluster_with_lustre_driver_if_necessary
    BY <1>1 DEF install_storage_csis, recreate_nodes_in_existing_node_pools,
       GcloudUpdate, IfNecessary, At, DriverIfNecessary,
       update_cluster_with_gcsfuse_driver_if_necessary,
       update_cluster_with_gcpfilestore_driver_if_necessary,
       update_cluster_with_parallelstore_driver_if_necessary,
       update_cluster_with_pd_driver_if_necessary
  <2>2. /\ scenario' = scenario
        /\ (Asks(After("lustre")) /\ has' = has) \/ GcloudPuts(added, "recreate-nodes")
    BY <2>1 DEF update_cluster_with_lustre_driver_if_necessary, IfNecessary, At,
       update_gke_cluster_with_lustre_driver_enabled
  <2>. HIDE DEF added
  <2>3. After("lustre") # "recreate-nodes"
    BY AfterOffered DEF Offered
  <2>4. CASE Asks(After("lustre")) /\ has' = has
    <3>1. pc' # "recreate-nodes" /\ faults' \in {faults, faults + 1}
      BY <2>3, <2>4, Endings DEF Asks, GoTo, Breaks, Fault
    <3> QED BY <1>1, <2>2, <2>4, <3>1, NodesStay
  <2>5. CASE GcloudPuts(added, "recreate-nodes")
    <3>1. \/ pc' = "recreate-nodes" /\ "cluster" \in has'
          \/ pc' # "recreate-nodes" /\ faults' # 0
          \/ pc' # "recreate-nodes" /\ has' = has /\ faults' = faults
      BY <2>5, Endings DEF GcloudPuts, Puts, Breaks, Fault, xpk_exit
    <3> QED BY <1>1, <2>2, <3>1 DEF NodesInv
  <2> QED BY <2>2, <2>4, <2>5
<1>2. CASE pc = "recreate-nodes"
  <2>1. recreate_nodes_in_existing_node_pools
    BY <1>2 DEF install_storage_csis, update_cluster_with_lustre_driver_if_necessary,
       IfNecessary, At, DriverIfNecessary,
       update_cluster_with_gcsfuse_driver_if_necessary,
       update_cluster_with_gcpfilestore_driver_if_necessary,
       update_cluster_with_parallelstore_driver_if_necessary,
       update_cluster_with_pd_driver_if_necessary
  <2>2. GcloudPuts({"lustre-nodes"}, After("lustre")) /\ scenario' = scenario
    BY <2>1 DEF recreate_nodes_in_existing_node_pools, GcloudUpdate, IfNecessary, At
  <2>3. "cluster" \in has
    BY <1>2 DEF NodesInv
  <2>4. "lustre-nodes" \in has' \/ faults' # 0
    BY <2>2, <2>3 DEF GcloudPuts, Puts, Breaks, Fault
  <2>5. pc' # "recreate-nodes"
    BY <2>2, Endings, AfterOffered DEF Offered
  <2> QED BY <2>2, <2>4, <2>5 DEF NodesInv, NodesServe
<1> QED BY <1>1, <1>2

(* Deletions and what others do neither add to a cluster nor take from it, but *)
(* for taking away all of it.                                                 *)
Wholesale ==
  /\ scenario' = scenario /\ faults' \in {faults, faults + 1}
  /\ has' \in {{}, has} /\ jobset' \in {jobset, NoJobSet}
  /\ pc' # "recreate-nodes" \/ (pc' = pc /\ has' = has)
  /\ pc = "recreate-nodes" => pc' = pc

(* Deletions are such steps,                                                  *)
LEMMA Deletions == Destroys \/ Delete => Wholesale
<1>. USE Endings DEF At, Wholesale, Gone, Stays, installed, net, access, toolkit, Elsewise
<1>1. Destroys => Wholesale
  BY DEF Destroys, download_state, stage_for_destroy, destroy_deployment, ToolkitAsks,
     Writes, run_command, run_command_with_full_controls, Asks, GoTo, Breaks, Fault,
     xpk_exit
<1>2. Delete => Wholesale
  BY DEF Delete, set_cluster_command, get_workload_list, run_gke_cluster_delete_command,
     get_all_subnets_programmatic, delete_cluster_subnets, GoTo, Breaks, Fault,
     xpk_exit, Ends
<1> QED BY <1>1, <1>2

(* so is the begin of a run,                                                  *)
LEMMA Begun == TypeInv /\ Begin => Wholesale
<1>. SUFFICES ASSUME TypeInv, Begin PROVE Wholesale
  OBVIOUS
<1>1. PICK c \in scenario.commands :
        pc' = IF /\ c.verb = "adapt" /\ c.device \in Gpus
                 /\ "nodes-given" \notin c.options
              THEN "count-nodes" ELSE FirstStep(c)
  BY DEF Begin
<1>2. pc' # "recreate-nodes"
  BY <1>1, FirstOf
<1> QED BY <1>2 DEF Begin, Wholesale

(* and so is what others do.                                                  *)
LEMMA ByOthers == Others => Wholesale
BY DEF Others, ColleagueReads, ColleagueWrites, OtherSwitches, Wholesale, control,
       Fault, Elsewise, installed

(* The nodes serve Lustre after every step.                                   *)
LEMMA NodesNext ==
  ASSUME TypeInv, NodesInv, faults \in Nat, Next
  PROVE  NodesInv'
<1>1. ASSUME Wholesale PROVE NodesInv'
  BY <1>1, NodesStay DEF Wholesale
<1>2. CASE LateSteps
  <2>1. LateEffect /\ Growth
    BY <1>2, Lately, GrowingLate
  <2>2. CASE pc \in {"lustre", "recreate-nodes"}
    BY <2>1, <2>2, NodesRecreated DEF LateEffect
  <2>3. CASE pc \notin {"lustre", "recreate-nodes"}
    <3>1. pc # "cluster" /\ pc' # "recreate-nodes"
      BY <2>1, <2>3 DEF LateEffect, Late, Offered, KueueSteps
    <3> QED BY <2>1, <2>3, <3>1, NodesKept
  <2> QED BY <2>2, <2>3
<1>3. CASE EarlySteps
  <2>1. CASE create_cluster_if_necessary
    BY <2>1, NodesMade
  <2>2. CASE ~create_cluster_if_necessary
    <3>1. pc # "cluster"
      BY <1>3, <2>2 DEF EarlySteps, count_nodes_on_cluster, get_gke_server_config,
         get_gke_control_plane_version, is_cluster_private, At, IfNecessary,
         update_cluster_with_workload_identity_if_necessary,
         update_cluster_with_mtc_if_necessary
    <3>2. EarlyEffect /\ Growth
      BY <1>3, First, GrowingEarly
    <3>3. pc \notin {"lustre", "recreate-nodes"} /\ pc' # "recreate-nodes"
      BY <3>2 DEF EarlyEffect, Early
    <3> QED BY <3>1, <3>2, <3>3, NodesKept
  <2> QED BY <2>1, <2>2
<1>4. CASE WritesNetworks \/ MakesDeployment
  <2>1. Growth
    BY <1>4, GrowingEarly
  <2>2. WritesNetworks =>
          /\ pc \in {"read-networks", "write-networks"}
          /\ pc' \in {"write-networks", "identity", "mtc-addons", "credentials", "done"}
    BY Endings, AfterEarly DEF WritesNetworks, At,
       authorize_private_cluster_access_if_necessary, update_cluster_authorized_networks
  <2>3. MakesDeployment =>
          /\ pc \in ToolkitSteps /\ pc' \in ToolkitSteps \cup {"nap", "kueue", "done"}
    BY WithToolkit DEF ToolkitEffect
  <2>4. pc \notin {"cluster", "lustre", "recreate-nodes"} /\ pc' # "recreate-nodes"
    BY <1>4, <2>2, <2>3 DEF ToolkitSteps
  <2> QED BY <2>1, <2>4, NodesKept
<1>5. CASE Destroys \/ Delete \/ Begin \/ Others
  BY <1>1, <1>5, Deletions, Begun, ByOthers
<1> QED BY <1>2, <1>3, <1>4, <1>5, AllSteps DEF Next

(* What others do takes nothing away from a run.                              *)
LEMMA OrderOthers ==
  ASSUME OrderInv, Others \/ UNCHANGED vars
  PROVE  OrderInv'
<1>1. /\ UNCHANGED <<scenario, cmd, pc, rc, has, blind, project, jobset, kueue, stray>>
      /\ faults' \in {faults, faults + 1}
  BY DEF Others, ColleagueReads, ColleagueWrites, OtherSwitches, control, Fault,
     Elsewise, installed, net, contexts, vars
<1>2. faults' \in Nat /\ jobset' \in JobSets /\ NodesInv'
  BY <1>1 DEF OrderInv, NodesInv
<1>3. Piped' = Piped /\ Unfailed' = Unfailed
  BY <1>1 DEF Piped, ByToolkit, Creating, Asked, Unfailed
<1>4. ASSUME Piped, Unfailed PROVE Ready(pc, cmd, Now')
  <2>1. Ready(pc, cmd, Now) /\ PartOf(pc) \in Parts \cup {"done"}
    BY <1>4 DEF OrderInv
  <2>2. PICK k \in 1 .. 29 : Pipeline[k] = PartOf(pc)
    BY <2>1, PartPlaces, Places
  <2>3. StepOf(PartOf(pc)) = k
    BY <2>2, PlaceOf
  <2>4. Grown(k, Now, Now')
    BY <1>1 DEF Grown, Now, OrderInv
  <2>5. Passed(k, cmd, Now')
    BY <2>1, <2>3, <2>4, Held DEF Ready
  <2>6. Half(pc, cmd, Now')
    <3>1. /\ UNCHANGED Port(cmd, Now) /\ UNCHANGED Private(cmd, Now)
          /\ UNCHANGED Queues(cmd, Now)
      BY <1>1 DEF Port, Private, Queues, Now
    <3>2. /\ Now'.has = Now.has /\ Now'.project = Now.project
          /\ Now'.jobset = Now.jobset /\ Now'.kueue = Now.kueue
      BY <1>1 DEF Now
    <3> QED BY <1>1, <2>1, <3>1, <3>2 DEF Ready, Half
  <2> QED BY <2>3, <2>5, <2>6 DEF Ready
<1> QED BY <1>1, <1>2, <1>3, <1>4 DEF OrderInv

(* A run begins where nothing is needed yet.                                  *)
LEMMA OrderBegins ==
  ASSUME TypeInv, OrderInv, Begin
  PROVE  /\ Piped' => PartOf(pc') \in Parts \cup {"done"}
         /\ Piped' => Ready(pc', cmd', Now')
<1>1. PICK c \in scenario.commands :
        /\ cmd' = c
        /\ pc' = IF /\ c.verb = "adapt" /\ c.device \in Gpus
                    /\ "nodes-given" \notin c.options
                 THEN "count-nodes" ELSE FirstStep(c)
  BY DEF Begin
<1>2. Piped' => c.verb # "delete"
  BY <1>1 DEF Piped
<1>3. c.verb # "delete" => Begins(pc', c)
  <2>1. c.verb \in {"create", "adapt", "delete"}
    BY FirstOf
  <2>2. c.verb # "create" \/ "adapt-from-ct" \in c.options => "authorize" \notin WantedOf(c)
    BY DEF WantedOf, When, Drivers
  <2> QED BY <1>1, <2>1, <2>2 DEF FirstStep, Begins
<1>4. \A step : Begins(step, c) => step \in Early \cup {"credentials"}
  BY DEF Begins, Early
<1>5. Begins(pc', c) => Ready(pc', c, Now')
  BY AtFirst
<1>6. Begins(pc', c) => PartOf(pc') \in Parts
  BY <1>4, PartsOf
<1> QED BY <1>1, <1>2, <1>3, <1>5, <1>6

(* Whatever a run was asked for is there once its step is past.               *)
LEMMA OrderNext ==
  TypeInv /\ KueueInv /\ OrderInv /\ [Next]_vars => OrderInv'
<1>. SUFFICES ASSUME TypeInv, KueueInv, OrderInv, Next PROVE OrderInv'
  BY OrderOthers
<1>1. NodesInv'
  BY NodesNext DEF OrderInv
<1>2. faults' \in Nat /\ jobset' \in JobSets
  <2>1. Growth => faults' \in Nat /\ jobset' \in JobSets
    BY DEF Growth, OrderInv, JobSets, KueueImages
  <2>2. Wholesale => faults' \in Nat /\ jobset' \in JobSets
    <3>1. NoJobSet \in JobSets
      BY DEF JobSets, KueueImages, NoJobSet
    <3> QED BY <3>1 DEF Wholesale, OrderInv
  <2> QED
    BY <2>1, <2>2, AllSteps, GrowingLate, GrowingEarly, Deletions, Begun, ByOthers
    DEF Next
<1>3. CASE Begin
  BY <1>1, <1>2, <1>3, OrderBegins DEF OrderInv
<1>4. CASE Others
  BY <1>4, OrderOthers
<1>5. CASE Step
  <2>1. cmd' = cmd
    BY <1>5, ScenarioKept
  <2>2. Piped' = Piped
    BY <2>1 DEF Piped, ByToolkit, Creating, Asked
  <2>3. CASE PipedSteps /\ Piped
    BY <1>1, <1>2, <2>1, <2>2, <2>3, PipedStep DEF OrderInv, Piped
  <2>4. CASE MakesDeployment \/ Destroys \/ Delete
    <3>1. pc \in ToolkitSteps \cup DestroySteps \cup DeleteSteps
      <4>1. MakesDeployment => pc \in ToolkitSteps
        BY WithToolkit DEF ToolkitEffect
      <4>2. Destroys \/ Delete => pc \in DestroySteps \cup DeleteSteps
        BY DEF Destroys, download_state, stage_for_destroy, destroy_deployment,
           ToolkitAsks, Writes, At, Delete, set_cluster_command, get_workload_list,
           run_gke_cluster_delete_command, get_all_subnets_programmatic,
           delete_cluster_subnets, DestroySteps, DeleteSteps
      <4> QED BY <2>4, <4>1, <4>2
    <3>2. ~Piped
      BY <3>1, PartsOf DEF OrderInv
    <3> QED BY <1>1, <1>2, <2>2, <3>2 DEF OrderInv
  <2>5. CASE ~Piped
    BY <1>1, <1>2, <2>2, <2>5 DEF OrderInv
  <2> QED BY <1>5, <2>3, <2>4, <2>5, AllSteps DEF PipedSteps
<1> QED BY <1>3, <1>4, <1>5 DEF Next

(* Initially, Lustre's nodes serve it, or all commands ask for the port that   *)
(* is missing.                                                                *)
LustreServed == \A s \in Scenarios : NodesServe(s.has, s.commands)

(* Nothing has been asked for at first.                                       *)
LEMMA OrderInit == LustreServed /\ Init => OrderInv
<1>. SUFFICES ASSUME LustreServed, Init PROVE OrderInv
  OBVIOUS
<1>1. /\ scenario \in Scenarios /\ has = scenario.has /\ jobset = scenario.jobset
      /\ faults = 0 /\ pc = "done" /\ cmd = NoCommand
  BY DEF Init
<1>2. jobset \in JobSets
  BY <1>1, ScenariosAssumption DEF ScenarioSet, JobSets
<1>3. NodesInv
  BY <1>1 DEF NodesInv, LustreServed
<1>4. ~Piped
  BY <1>1 DEF Piped, NoCommand
<1> QED BY <1>1, <1>2, <1>3, <1>4 DEF OrderInv

-----------------------------------------------------------------------------
(* What a cluster was made with, and whether its CoreDNS was scaled.          *)

(* The steps up to the making of the cluster.                                 *)
MakingSteps == {"server-config", "control-plane-version", "cluster"}

AtMaking ==
  /\ pc \in MakingSteps => MakesCluster
  /\ pc \in ToolkitSteps => ByToolkit

HasCreationOnly ==
  \A c \in scenario.commands :
    MadeFor(c) /\ has # {} => CreationOnly(c) \subseteq has

(* Without a failure, CoreDNS is scaled by the step after its deployment.     *)
CoreDnsFollows ==
  faults = 0 /\ "coredns" \in has =>
    "coredns-scaled" \in has \/ (pc = "coredns-scale" /\ Context = "own")

MadeInv == AtMaking /\ HasCreationOnly /\ CoreDnsFollows

(* Only a command that makes a cluster gets to the making of one.             *)
LEMMA MakingNext ==
  ASSUME TypeInv, AtMaking, Next
  PROVE  AtMaking'
<1>1. CASE Begin
  <2>1. PICK c \in scenario.commands :
          /\ cmd' = c
          /\ pc' = IF /\ c.verb = "adapt" /\ c.device \in Gpus
                      /\ "nodes-given" \notin c.options
                   THEN "count-nodes" ELSE FirstStep(c)
    BY <1>1 DEF Begin
  <2>2. pc' \in {"count-nodes", "server-config", "identity", "credentials",
                "toolkit-delete", "delete-credentials"}
    BY <2>1, FirstOf
  <2>3. pc' = "server-config" => c.verb = "create" /\ "adapt-from-ct" \notin c.options
    BY <2>1 DEF FirstStep
  <2>4. pc' = "server-config" => MakesCluster'
    BY <2>1, <2>3 DEF MakesCluster, Creating, Asked
  <2> QED BY <2>2, <2>4 DEF AtMaking, MakingSteps, ToolkitSteps
<1>2. CASE Others
  <2>1. UNCHANGED <<cmd, pc>>
    BY <1>2 DEF Others, ColleagueReads, ColleagueWrites, OtherSwitches, control
  <2> QED BY <2>1 DEF AtMaking, MakesCluster, ByToolkit, Creating, Asked
<1>3. CASE Step
  <2>1. cmd' = cmd
    BY <1>3, ScenarioKept
  <2>2. MakesCluster' = MakesCluster /\ ByToolkit' = ByToolkit
    BY <2>1 DEF MakesCluster, ByToolkit, Creating, Asked
  <2>3. CASE LateSteps
    <3>1. pc' \in Late \cup {"done"}
      BY <2>3, Lately DEF LateEffect
    <3> QED
      BY <3>1 DEF Late, Offered, KueueSteps, AtMaking, MakingSteps, ToolkitSteps
  <2>4. CASE EarlySteps
    <3>1. \/ pc' \in (Early \ {"write-networks"}) \cup {"credentials", "done"}
          \/ pc' = "toolkit" /\ ByToolkit
      BY <2>4, First DEF EarlyEffect
    <3>2. pc' \in ToolkitSteps => ByToolkit'
      BY <2>2, <3>1 DEF Early, ToolkitSteps
    <3>3. pc' \in MakingSteps => pc \in MakingSteps
      <4>. USE Endings, Reaching, AfterEarly DEF At, MakingSteps
      <4>1. count_nodes_on_cluster => pc' \notin MakingSteps
        BY DEF count_nodes_on_cluster
      <4>2. get_gke_server_config \/ get_gke_control_plane_version => pc \in MakingSteps
        BY DEF get_gke_server_config, get_gke_control_plane_version
      <4>3. create_cluster_if_necessary => pc \in MakingSteps
        BY DEF create_cluster_if_necessary
      <4>4. is_cluster_private => pc' \notin MakingSteps
        BY DEF is_cluster_private
      <4>5. update_cluster_with_workload_identity_if_necessary => pc' \notin MakingSteps
        BY DEF update_cluster_with_workload_identity_if_necessary, IfNecessary,
           update_gke_cluster_with_workload_identity_enabled
      <4>6. update_cluster_with_mtc_if_necessary => pc' \notin MakingSteps
        BY DEF update_cluster_with_mtc_if_necessary, IfNecessary,
           update_gke_cluster_with_addons
      <4> QED BY <2>4, <4>1, <4>2, <4>3, <4>4, <4>5, <4>6 DEF EarlySteps
    <3> QED BY <2>2, <3>2, <3>3 DEF AtMaking
  <2>5. CASE WritesNetworks
    <3>1. pc' \in {"write-networks", "identity", "mtc-addons", "credentials", "done"}
      BY <2>5, Endings, AfterEarly DEF WritesNetworks,
         authorize_private_cluster_access_if_necessary, update_cluster_authorized_networks
    <3> QED BY <3>1 DEF AtMaking, MakingSteps, ToolkitSteps
  <2>6. CASE MakesDeployment
    <3>1. pc \in ToolkitSteps /\ pc' \in ToolkitSteps \cup {"nap", "kueue", "done"}
      BY <2>6, WithToolkit DEF ToolkitEffect
    <3> QED BY <2>2, <3>1 DEF AtMaking, MakingSteps, ToolkitSteps
  <2>7. CASE Destroys \/ Delete
    <3>1. pc' \in {"stage-for-destroy", "destroy", "list-workloads", "delete-cluster",
                  "list-subnets", "delete-subnets", "done"}
      BY <2>7, Endings DEF Destroys, Delete, download_state, stage_for_destroy,
         destroy_deployment, run_command, run_command_with_full_controls,
         ToolkitAsks, Writes, set_cluster_command, get_workload_list,
         run_gke_cluster_delete_command, get_all_subnets_programmatic,
         delete_cluster_subnets
    <3> QED BY <3>1 DEF AtMaking, MakingSteps, ToolkitSteps
  <2> QED BY <1>3, <2>3, <2>4, <2>5, <2>6, <2>7, AllSteps
<1> QED BY <1>1, <1>2, <1>3 DEF Next

(* What makes clusters for a command gives them what it asks for.             *)
LEMMA FeaturesNext ==
  ASSUME TypeInv, AtMaking, HasCreationOnly, Next
  PROVE  HasCreationOnly'
<1>0. scenario' = scenario
  BY AllSteps, GrowingLate, GrowingEarly, Deletions, Begun, ByOthers
  DEF Next, Growth, Wholesale
<1>. SUFFICES ASSUME NEW c \in scenario.commands, MadeFor(c), has' # {}
     PROVE  CreationOnly(c) \subseteq has'
  BY <1>0 DEF HasCreationOnly, MadeFor
<1>1. CreationOnly(c) \cap {"ray", "large-jobset"} = {}
  BY DEF CreationOnly
<1>2. has # {} => CreationOnly(c) \subseteq has
  BY DEF HasCreationOnly
<1>3. CASE Growth /\ pc \notin {"cluster", "gcluster-deploy"}
  BY <1>1, <1>2, <1>3 DEF Growth
<1>4. CASE Wholesale
  BY <1>2, <1>4 DEF Wholesale
<1>5. CASE EarlySteps /\ pc = "cluster"
  <2>1. create_cluster_if_necessary
    BY <1>5 DEF EarlySteps, count_nodes_on_cluster, get_gke_server_config,
       get_gke_control_plane_version, is_cluster_private, At, IfNecessary,
       update_cluster_with_workload_identity_if_necessary,
       update_cluster_with_mtc_if_necessary
  <2>2. has' \in {has, has \cup Flags(cmd)}
    BY <2>1 DEF create_cluster_if_necessary, Asks, Puts
  <2>3. MakesCluster
    BY <1>5 DEF AtMaking, MakingSteps
  <2>4. cmd \in scenario.commands
    BY <2>3 DEF TypeInv, MakesCluster, Creating, NoCommand
  <2>5. CreationOnly(c) \subseteq Flags(cmd)
    BY <2>3, <2>4 DEF MadeFor, MakesCluster, Creating, Asked
  <2> QED BY <1>2, <2>2, <2>5
<1>6. CASE MakesDeployment
  <2>1. ByToolkit
    BY <1>6, WithToolkit DEF ToolkitEffect, AtMaking
  <2>2. cmd \in scenario.commands
    BY <2>1 DEF TypeInv, ByToolkit, Creating, NoCommand
  <2> QED BY <2>1, <2>2 DEF MadeFor, ByToolkit, Creating, Asked
<1>7. CASE LateSteps \/ EarlySteps \/ WritesNetworks
  <2>1. Growth
    BY <1>7, GrowingLate, GrowingEarly
  <2>2. LateSteps \/ WritesNetworks => pc # "cluster"
    BY Lately DEF LateEffect, Late, Offered, KueueSteps, WritesNetworks, At,
       authorize_private_cluster_access_if_necessary, update_cluster_authorized_networks
  <2>3. pc # "gcluster-deploy"
    BY <1>7, Lately, First DEF LateEffect, Late, Offered, KueueSteps, EarlyEffect, Early,
       WritesNetworks, At, authorize_private_cluster_access_if_necessary,
       update_cluster_authorized_networks
  <2> QED BY <1>3, <1>5, <1>7, <2>1, <2>2, <2>3
<1> QED BY <1>4, <1>6, <1>7, AllSteps, Deletions, Begun, ByOthers DEF Next

(* CoreDNS is scaled after its deployment.                                    *)
LEMMA ScaledNext ==
  ASSUME TypeInv, CoreDnsFollows, faults \in Nat, Next
  PROVE  CoreDnsFollows'
<1>. SUFFICES ASSUME faults' = 0, "coredns" \in has', "coredns-scaled" \notin has'
     PROVE  pc' = "coredns-scale" /\ Context' = "own"
  BY DEF CoreDnsFollows
<1>0. faults = 0 /\ "coredns" \in has /\ "coredns-scaled" \notin has
        => pc = "coredns-scale" /\ Context = "own"
  BY DEF CoreDnsFollows
<1>1. CASE LateSteps
  <2>1. Growth /\ LateEffect
    BY <1>1, Lately, GrowingLate
  <2>2. faults = 0 /\ "coredns-scaled" \notin has /\ ~Breaks
    BY <2>1 DEF Growth, Breaks, Fault
  <2>3. pc # "coredns-scale"
    <3>. SUFFICES ASSUME pc = "coredns-scale" PROVE FALSE
      OBVIOUS
    <3>1. scale_up_coredns /\ "coredns" \in has
      BY <2>1 DEF LateEffect, Growth
    <3>2. Context = "own"
      BY <1>0, <2>2, <3>1
    <3>3. KubectlPuts(Context, {"coredns-scaled"}, "coredns-ready")
      BY <3>1 DEF scale_up_coredns
    <3>4. has' = has \cup {"coredns-scaled"}
      BY <2>2, <3>2, <3>3 DEF KubectlPuts, Elsewhere, Puts
    <3> QED BY <3>4
  <2>4. "coredns" \notin has
    BY <1>0, <2>2, <2>3
  <2>5. pc = "coredns-deploy" /\ deploy_coredns_manifests
    BY <2>1, <2>4 DEF Growth, LateEffect
  <2>6. has' # has
    BY <2>4
  <2>7. KubectlPuts(Context, {"coredns"}, "coredns-scale")
    BY <2>5, <2>6 DEF deploy_coredns_manifests
  <2>8. Context = "own" /\ UNCHANGED file /\ GoTo("coredns-scale")
    BY <2>2, <2>6, <2>7 DEF KubectlPuts, Puts, contexts
  <2>9. cmd' = cmd /\ has' = has \cup {"coredns"}
    BY <2>1, <2>2, <2>7, <2>8 DEF Growth, KubectlPuts, Puts, Elsewhere
  <2>10. Context' = "own"
    BY <2>8, <2>9 DEF Context, Reached, File, Asked
  <2> QED BY <2>8, <2>10, Endings
<1>2. CASE EarlySteps \/ WritesNetworks \/ MakesDeployment
  <2>1. pc \in Early \cup ToolkitSteps
    BY <1>2, First, WithToolkit DEF EarlyEffect, ToolkitEffect, Early, WritesNetworks, At,
       authorize_private_cluster_access_if_necessary, update_cluster_authorized_networks
  <2>2. pc \notin {"coredns-scale", "coredns-deploy"}
    BY <2>1 DEF Early, ToolkitSteps
  <2> QED BY <1>0, <1>2, <2>2, GrowingEarly DEF Growth
<1>3. CASE Destroys \/ Delete \/ Begin
  <2>1. pc # "coredns-scale"
    BY <1>3 DEF Begin, Destroys, download_state, stage_for_destroy, destroy_deployment,
       ToolkitAsks, Writes, At, Delete, set_cluster_command, get_workload_list,
       run_gke_cluster_delete_command, get_all_subnets_programmatic,
       delete_cluster_subnets
  <2>2. Wholesale
    BY <1>3, Deletions, Begun
  <2> QED BY <1>0, <2>1, <2>2 DEF Wholesale
<1>4. CASE Others
  <2>1. UNCHANGED <<pc, cmd, has>> /\ (UNCHANGED <<faults, file>> \/ faults' = faults + 1)
    BY <1>4 DEF Others, ColleagueReads, ColleagueWrites, OtherSwitches, control, contexts,
       Fault
  <2>2. UNCHANGED file => Context' = Context
    BY <2>1 DEF Context, Reached, File, Asked
  <2> QED BY <1>0, <2>1, <2>2
<1> QED BY <1>1, <1>2, <1>3, <1>4, AllSteps DEF Next

(* All of it.                                                                 *)
LEMMA MadeNext ==
  ASSUME TypeInv, MadeInv, faults \in Nat, [Next]_vars
  PROVE  MadeInv'
<1>1. CASE Next
  BY <1>1, MakingNext, FeaturesNext, ScaledNext DEF MadeInv
<1>2. CASE UNCHANGED vars
  <2>1. UNCHANGED <<scenario, cmd, pc, has, faults, file>>
    BY <1>2 DEF vars, control, contexts
  <2>2. Context' = Context
    BY <2>1 DEF Context, Reached, File, Asked
  <2> QED
    BY <2>1, <2>2 DEF MadeInv, AtMaking, HasCreationOnly, CoreDnsFollows, MadeFor,
       MakesCluster, ByToolkit, Creating, Asked
<1> QED BY <1>1, <1>2

(* Initially, where CoreDNS is, it has been scaled.                           *)
CoreDnsServes == \A s \in Scenarios : "coredns" \in s.has => "coredns-scaled" \in s.has

LEMMA MadeInit == CoreDnsServes /\ Init => MadeInv
<1>. SUFFICES ASSUME CoreDnsServes, Init PROVE MadeInv
  OBVIOUS
<1>1. scenario \in Scenarios /\ has = scenario.has /\ pc = "done"
  BY DEF Init
<1>2. AtMaking
  BY <1>1 DEF AtMaking, MakingSteps, ToolkitSteps
<1>3. HasCreationOnly
  BY <1>1 DEF HasCreationOnly, MadeFor
<1>4. CoreDnsFollows
  BY <1>1 DEF CoreDnsFollows, CoreDnsServes
<1> QED BY <1>2, <1>3, <1>4 DEF MadeInv

(* What SuccessIsComplete says of a run through Pipeline.                     *)
Complete ==
  /\ PromisedObjects \subseteq has \cup blind
  /\ PromisedResources \subseteq project
  /\ jobset.image # "none" /\ QueuesWork
  /\ faults = 0 =>
       When(Asked("lustre"), {"lustre-nodes"})
       \cup When(MakesCluster, {"coredns-scaled"}) \subseteq has

(* At the end, all of it is there.                                            *)
LEMMA OrderEnds ==
  ASSUME OrderInv, MadeInv, TypeInv, Piped, pc = "done", rc = "ok", stray = {}
  PROVE  Complete
<1>1. Passed(29, cmd, Now)
  <2>1. Ready("done", cmd, Now)
    BY DEF OrderInv, Unfailed
  <2>2. StepOf("done") = 29
    BY Places, PlaceOf
  <2> QED BY <2>1, <2>2, PartsOf DEF Ready
<1>2. \A name \in Parts : name \in WantedOf(cmd) => Leaves(name, cmd, Now)
  <2>. SUFFICES ASSUME NEW name \in Parts, name \in WantedOf(cmd)
       PROVE  Leaves(name, cmd, Now)
    OBVIOUS
  <2>1. PICK i \in 1 .. 28 : Pipeline[i] = name
    BY PartPlaces
  <2> QED BY <1>1, <2>1 DEF Passed
<1>. DEFINE Left(name) == ObjectsOf(name) \subseteq has \cup blind
<1>3. \A name \in Parts : name \in WantedOf(cmd) =>
        /\ Left(name) /\ ResourcesOf(name) \subseteq project
        /\ name = "jobset" => jobset.image # "none"
        /\ name = "kueue" => Queues(cmd, Now)
        /\ name = "lustre" /\ faults = 0 => "lustre-nodes" \in has
        /\ name = "lustre" => Port(cmd, Now)
        /\ name = "authorize" => Private(cmd, Now)
  BY <1>2 DEF Leaves, Now
<1>a. MakesCluster => {"authorize", "pool-version", "coredns"} \subseteq WantedOf(cmd) \cap Parts
  BY DEF WantedOf, When, MakesCluster, Creating, Asked, Parts, Offered
<1>b. Asked("lustre") => "lustre" \in WantedOf(cmd) \cap Parts
  BY DEF Asked, WantedOf, Drivers, Parts, Offered
<1>4. PromisedObjects \subseteq has \cup blind
  <2>. SUFFICES ASSUME NEW thing \in PromisedObjects PROVE thing \in has \cup blind
    OBVIOUS
  <2>. DEFINE port == When(Asked("lustre"), {"legacy-port"} \cap cmd.options)
              private == When(MakesCluster /\ PrivateOptions \cap cmd.options # {},
                              {"private"})
              made == When(MakesCluster /\ MadeFor(cmd), CreationOnly(cmd))
  <2>2. port \subseteq has
    BY <1>3, <1>b DEF When, Port, Now
  <2>3. private \subseteq has
    BY <1>3, <1>a DEF When, Private, Now
  <2>4. made \subseteq has
    <3>. SUFFICES ASSUME MakesCluster, MadeFor(cmd) PROVE CreationOnly(cmd) \subseteq has
      BY DEF When
    <3>1. ObjectsOf("pool-version") = {"pools"}
      BY DEF ObjectsOf, Drivers
    <3>2. "pools" \in has
      BY <1>2, <1>a, <3>1 DEF Leaves, Now
    <3>3. cmd \in scenario.commands
      BY DEF TypeInv, MakesCluster, Creating, NoCommand
    <3> QED BY <3>2, <3>3 DEF MadeInv, HasCreationOnly
  <2>1. ASSUME thing \notin port \cup private \cup made
        PROVE  \E name \in Parts : name \in WantedOf(cmd) /\ thing \in ObjectsOf(name)
    <3>1. \A name \in Drivers \cup {"identity", "coredns", "storage-crd", "config-maps",
                                    "nccl", "nri", "ray"} :
            name \in Parts /\ ObjectsOf(name) = {name}
      BY DEF Drivers, ObjectsOf, Parts, Offered
    <3>2. /\ "networks" \in Parts /\ ObjectsOf("networks") = {"network-config"}
          /\ "pool-version" \in Parts /\ ObjectsOf("pool-version") = {"pools"}
          /\ "nap" \in Parts
          /\ ObjectsOf("nap") =
               {"autoprovisioning", "autoscaling-profile", "autoscaled-pools"}
          /\ "mtc" \in Parts
          /\ ObjectsOf("mtc") = {"checkpointing", "checkpoint-configuration"}
          /\ "ml-prerequisites" \in Parts
          /\ ObjectsOf("ml-prerequisites") =
               {"cert-manager", "diagnostics-namespace", "diagnostics-webhook",
                "diagnostics-label", "diagnostics-operator"}
      BY DEF ObjectsOf, Parts, Offered, Drivers
    <3>3. CASE thing \in {"storage-crd", "config-maps"}
                         \cup ((Drivers \cup {"ray"}) \cap cmd.options)
      <4>1. thing \in WantedOf(cmd)
        BY <3>3, Zenon DEF WantedOf
      <4>2. thing \in Drivers \cup {"storage-crd", "config-maps", "ray"}
        BY <3>3
      <4> QED BY <3>1, <4>1, <4>2
    <3>4. CASE thing \in When({"identity", "gcsfuse"} \cap cmd.options # {}
                                /\ (Creating => MakesCluster), {"identity"})
      <4>1. thing = "identity" /\ thing \in WantedOf(cmd)
        BY <3>4 DEF WantedOf, When, Asked, Creating, MakesCluster
      <4> QED BY <3>1, <4>1
    <3>5. CASE thing \in PromisedAutoprovisioning
      <4>1. thing \in ObjectsOf("nap") /\ "nap" \in WantedOf(cmd)
        BY <3>2, <3>5 DEF PromisedAutoprovisioning, WantedOf, When, Asked
      <4> QED BY <3>2, <4>1
    <3>6. CASE \/ thing \in When(cmd.device \in Gpus, {"nccl"})
               \/ thing \in When(cmd.device = "h100", {"nri"})
      <4>1. thing \in {"nccl", "nri"} /\ thing \in WantedOf(cmd)
        BY <3>6 DEF WantedOf, When
      <4> QED BY <3>1, <4>1
    <3>7. CASE thing \in When(MakesCluster, {"coredns", "pools"})
      <4>1. {"coredns", "pool-version"} \subseteq WantedOf(cmd)
        BY <3>7 DEF WantedOf, When, MakesCluster, Creating, Asked
      <4>2. thing \in {"coredns", "pools"}
        BY <3>7 DEF When
      <4> QED BY <3>1, <3>2, <4>1, <4>2
    <3>8. CASE thing \in When(MakesCluster /\ cmd.device = "h100", {"network-config"})
      <4>1. thing = "network-config" /\ "networks" \in WantedOf(cmd)
        BY <3>8 DEF WantedOf, When, MakesCluster, Creating, Asked
      <4> QED BY <3>2, <4>1
    <3>9. CASE thing \in When(Creating /\ Asked("mtc"),
                              {"checkpointing", "checkpoint-configuration"})
      <4>1. thing \in ObjectsOf("mtc") /\ "mtc" \in WantedOf(cmd)
        BY <3>2, <3>9 DEF WantedOf, When, Creating, Asked
      <4> QED BY <3>2, <4>1
    <3>10. CASE thing \in When(MakesCluster /\ {"ml", "old-gke"} \subseteq cmd.options,
                               ObjectsOf("ml-prerequisites"))
      <4>1. /\ thing \in ObjectsOf("ml-prerequisites")
            /\ "ml-prerequisites" \in WantedOf(cmd)
        BY <3>10 DEF WantedOf, When, MakesCluster, Creating, Asked
      <4> QED BY <3>2, <4>1
    <3>11. \/ thing \in {"storage-crd", "config-maps"}
                        \cup ((Drivers \cup {"ray"}) \cap cmd.options)
           \/ thing \in When({"identity", "gcsfuse"} \cap cmd.options # {}
                               /\ (Creating => MakesCluster), {"identity"})
           \/ thing \in PromisedAutoprovisioning
           \/ thing \in When(cmd.device \in Gpus, {"nccl"})
           \/ thing \in When(cmd.device = "h100", {"nri"})
           \/ thing \in When(MakesCluster, {"coredns", "pools"})
           \/ thing \in When(MakesCluster /\ cmd.device = "h100", {"network-config"})
           \/ thing \in When(Creating /\ Asked("mtc"),
                             {"checkpointing", "checkpoint-configuration"})
           \/ thing \in When(MakesCluster /\ {"ml", "old-gke"} \subseteq cmd.options,
                             ObjectsOf("ml-prerequisites"))
      <4>1. thing \notin port /\ thing \notin private /\ thing \notin made
        BY <2>1
      <4> QED BY <3>2, <4>1, Zenon DEF PromisedObjects
    <3> QED BY <3>3, <3>4, <3>5, <3>6, <3>7, <3>8, <3>9, <3>10, <3>11
  <2>. HIDE DEF port, private, made
  <2> QED BY <1>3, <2>1, <2>2, <2>3, <2>4
<1>5. PromisedResources \subseteq project
  <2>1. /\ {"tensorboard", "networks", "ml"} \subseteq Parts
        /\ ResourcesOf("tensorboard") = {Resource("tensorboard", 0)}
        /\ ResourcesOf("networks") = Range(A3Networks)
        /\ ResourcesOf("ml") = {Resource("role-for-diagnostics", i) : i \in 1 .. 3}
    BY DEF ResourcesOf, Parts, Offered
  <2>2. When(Asked("tensorboard"), ResourcesOf("tensorboard")) \subseteq project
    <3>1. Asked("tensorboard") => "tensorboard" \in WantedOf(cmd)
      BY DEF Asked, WantedOf
    <3> QED BY <1>3, <2>1, <3>1 DEF When
  <2>3. When(MakesCluster /\ cmd.device = "h100", ResourcesOf("networks"))
          \subseteq project
    <3>1. MakesCluster /\ cmd.device = "h100" => "networks" \in WantedOf(cmd)
      BY DEF WantedOf, When, MakesCluster, Creating, Asked
    <3> QED BY <1>3, <2>1, <3>1 DEF When
  <2>4. When(MakesCluster /\ Asked("ml"), ResourcesOf("ml")) \subseteq project
    <3>1. MakesCluster /\ Asked("ml") => "ml" \in WantedOf(cmd)
      BY DEF WantedOf, When, MakesCluster, Creating, Asked
    <3> QED BY <1>3, <2>1, <3>1 DEF When
  <2> QED BY <2>1, <2>2, <2>3, <2>4 DEF PromisedResources
<1>6. jobset.image # "none" /\ QueuesWork
  <2>1. {"jobset", "kueue"} \subseteq WantedOf(cmd) \cap Parts
    BY DEF WantedOf, Parts, Offered
  <2>2. jobset.image # "none" /\ Queues(cmd, Now)
    BY <1>3, <2>1
  <2> QED BY <2>2 DEF Queues, Now, QueuesWork, Quota, Asked
<1>7. ASSUME faults = 0
      PROVE  When(Asked("lustre"), {"lustre-nodes"})
             \cup When(MakesCluster, {"coredns-scaled"}) \subseteq has
  <2>1. Asked("lustre") => "lustre-nodes" \in has
    BY <1>3, <1>7, <1>b
  <2>2. ASSUME MakesCluster PROVE "coredns-scaled" \in has
    <3>1. ObjectsOf("coredns") = {"coredns"}
      BY DEF ObjectsOf, Drivers
    <3>2. "coredns" \in has
      BY <1>2, <1>a, <2>2, <3>1 DEF Leaves, Now
    <3> QED BY <1>7, <3>2 DEF MadeInv, CoreDnsFollows
  <2> QED BY <2>1, <2>2 DEF When
<1> QED BY <1>4, <1>5, <1>6, <1>7 DEF Complete

-----------------------------------------------------------------------------
(* The Kueue of a cluster that xpk has made.                                  *)

(* It is xpk's own, and no run finds one to be replaced.                      *)
OwnKueue ==
  /\ kueue \in KueueSet
  /\ kueue.image = "none" \/ (kueue.image = "current" /\ kueue.crds = "all")
  /\ pc \notin UpgradeSteps \ {"install-kueue"}

(* Terraform knows of a cluster.                                              *)
Terraformed ==
  "terraform" \in bucket \/ \E m \in Machines : "terraform" \in local[m]

OwnInv == has = {} \/ Terraformed => OwnKueue

(* Installing leaves it xpk's own.                                            *)
LEMMA OwnInstalls ==
  ASSUME OwnKueue, InstallsKueue
  PROVE  OwnKueue'
<1>. DEFINE Own(k) ==
       k \in KueueSet /\ (k.image = "none" \/ (k.image = "current" /\ k.crds = "all"))
<1>. USE Endings, Reaching, AfterOffered
     DEF At, OwnKueue, UpgradeSteps, Frame, Elsewise, installed, contexts
<1>1. get_installed_kueue_version => OwnKueue'
  BY DEF get_installed_kueue_version, Question
<1>2. pc # "kueue-external" /\ pc # "prepare-upgrade" /\ pc \notin DeletesKueue
  BY DEF DeletesKueue
<1>3. ~kueue_managed_externally /\ ~prepare_for_upgrade /\ ~delete_all_kueue_resources
  BY <1>2 DEF kueue_managed_externally, Question, prepare_for_upgrade,
     delete_all_kueue_resources, Changes, Cannot, DeletesKueue
<1>4. \A step, after, partly, next :
        Changes(step, after, partly, next) =>
          /\ kueue' \in {kueue, after} \cup partly
          /\ pc' \in {next, "done"}
  BY DEF Changes
<1>5. __install_kueue_crs => OwnKueue'
  <2>1. Own([kueue EXCEPT !.image = "current", !.crds = "all"])
    BY DEF KueueSet, KueueImages
  <2>2. ASSUME __install_kueue_crs
        PROVE  /\ kueue' \in {kueue, [kueue EXCEPT !.image = "current", !.crds = "all"]}
               /\ pc' \in {"patch-tolerations", "wait-for-kueue", "done"}
    BY <1>4, <2>2 DEF __install_kueue_crs
  <2> QED BY <2>1, <2>2
<1>6. __patch_tolerations => OwnKueue'
  <2>1. Own([kueue EXCEPT !.tolerant = TRUE])
    BY DEF KueueSet, KueueImages
  <2>2. ASSUME __patch_tolerations
        PROVE  /\ kueue' \in {kueue, [kueue EXCEPT !.tolerant = TRUE]}
               /\ pc' \in {"wait-for-kueue", "done"}
    BY <1>4, <2>2 DEF __patch_tolerations
  <2> QED BY <2>1, <2>2
<1>7. __wait_for_kueue_available => OwnKueue'
  BY <1>4 DEF __wait_for_kueue_available
<1>8. configure_kueue => OwnKueue'
  <2>1. Own([kueue EXCEPT !.objects = Quota])
    BY DEF KueueSet, KueueImages, Quota
  <2>2. Cannot("configure-kueue") => kueue' = kueue /\ pc' = "done"
    BY DEF Cannot
  <2>3. ASSUME configure_kueue
        PROVE  /\ kueue' \in {kueue, [kueue EXCEPT !.objects = Quota]}
               /\ pc' \in {"kueue-resources", "done"}
    BY <1>4, <2>2, <2>3 DEF configure_kueue
  <2> QED BY <2>1, <2>3
<1>9. __update_kueue_resources_if_necessary => OwnKueue'
  <2>1. "done" \notin UpgradeSteps /\ After("kueue") \notin UpgradeSteps
    BY DEF Offered
  <2> QED BY <2>1 DEF __update_kueue_resources_if_necessary,
             patch_controller_manager_resources, Kubectl
<1> QED BY <1>1, <1>3, <1>5, <1>6, <1>7, <1>8, <1>9 DEF InstallsKueue

(* So do all steps from the credentials on.                                   *)
LEMMA OwnLate ==
  ASSUME OwnKueue, LateEffect
  PROVE  OwnKueue'
<1>1. CASE pc \in KueueSteps
  BY <1>1, OwnInstalls DEF LateEffect
<1>2. CASE pc \notin KueueSteps
  <2>1. pc' \notin UpgradeSteps
    BY <1>2 DEF LateEffect, KueueSteps, UpgradeSteps
  <2> QED BY <1>2, <2>1 DEF LateEffect, OwnKueue
<1> QED BY <1>1, <1>2

(* Terraform learns of a cluster where there was none, or it knew of it.      *)
LEMMA Learning ==
  ASSUME TypeInv, MakesDeployment, Terraformed'
  PROVE  has = {} \/ Terraformed
<1>. SUFFICES ASSUME has # {} PROVE Terraformed
  OBVIOUS
<1>0. cmd.machine \in Machines /\ local \in [Machines -> SUBSET LocalFiles]
  BY Machine DEF TypeInv
<1>1. \A things : local' = With(things) /\ "terraform" \notin things /\ bucket' = bucket
                    => Terraformed
  BY <1>0 DEF With, Terraformed
<1>2. UNCHANGED <<local, bucket>> => Terraformed
  BY DEF Terraformed
<1>3. prepare_gcluster_manager \/ validate_state_gcs_bucket \/ toolkit_credentials
        => Terraformed
  BY <1>2 DEF prepare_gcluster_manager, validate_state_gcs_bucket, toolkit_credentials,
     ToolkitAsks, toolkit, Elsewise
<1>4. generate_blueprint \/ stage_files => Terraformed
  BY <1>1, <1>2 DEF generate_blueprint, stage_files, Writes
<1>5. _run_create_deployment_cmd => Terraformed
  <2>1. ASSUME _run_create_deployment_cmd
        PROVE  \A m \in Machines : "terraform" \in local'[m] => "terraform" \in local[m]
    <3>1. \/ local' = local
          \/ local' = [local EXCEPT ![cmd.machine] =
                         (@ \ {"backend"}) \cup
                         {"deployment"} \cup When(Blueprint.backend, {"backend"})]
      BY <2>1 DEF _run_create_deployment_cmd, run_command
    <3>2. "terraform" \notin When(Blueprint.backend, {"backend"})
      BY DEF When
    <3> QED BY <1>0, <3>1, <3>2
  <2> QED BY <2>1 DEF _run_create_deployment_cmd, Terraformed
<1>6. _run_deploy_cmd => Terraformed
  BY <1>0, <1>2 DEF _run_deploy_cmd, toolkit, Knows, Terraformed
<1>7. upload_directory_to_gcs \/ upload_state => Terraformed
  BY DEF upload_directory_to_gcs, upload_state, Uploads, toolkit, Terraformed
<1> QED BY <1>3, <1>4, <1>5, <1>6, <1>7 DEF MakesDeployment

(* Destroying makes it know of no other.                                      *)
LEMMA Destroying ==
  ASSUME TypeInv, Destroys, Terraformed'
  PROVE  Terraformed
<1>0. cmd.machine \in Machines /\ local \in [Machines -> SUBSET LocalFiles]
  BY Machine DEF TypeInv
<1>1. CASE download_state
  BY <1>1 DEF download_state, ToolkitAsks, toolkit, Terraformed
<1>2. CASE stage_for_destroy
  <2>1. bucket' = bucket /\ local' \in {local, With({"staged"})}
    BY <1>2 DEF stage_for_destroy, Writes
  <2> QED BY <1>0, <2>1 DEF With, Terraformed
<1>3. CASE destroy_deployment
  <2>1. UNCHANGED <<local, bucket>> \/ Forgets
    BY <1>3 DEF destroy_deployment, run_command, toolkit
  <2>2. Forgets => bucket' \subseteq bucket
         /\ (local' = local \/ local' = [local EXCEPT ![cmd.machine] = @ \ {"terraform"}])
    BY DEF Forgets
  <2>3. CASE local' = local
    BY <2>1, <2>2, <2>3 DEF Terraformed
  <2>4. CASE local' = [local EXCEPT ![cmd.machine] = @ \ {"terraform"}]
    <3>1. \A m \in Machines : local'[m] \subseteq local[m]
      BY <1>0, <2>4
    <3> QED BY <2>1, <2>2, <3>1 DEF Terraformed
  <2> QED BY <2>1, <2>2, <2>3, <2>4
<1> QED BY <1>1, <1>2, <1>3 DEF Destroys

(* Every Kueue of such a cluster is xpk's own.                                *)
LEMMA OwnNext ==
  ASSUME TypeInv, KueueInv, OwnInv, Next
  PROVE  OwnInv'
<1>. SUFFICES ASSUME (has = {} \/ Terraformed)' PROVE OwnKueue'
  BY DEF OwnInv
<1>1. ASSUME OwnKueue, kueue' = kueue, pc' \notin UpgradeSteps PROVE OwnKueue'
  BY <1>1 DEF OwnKueue
<1>2. ASSUME kueue' = NoKueue, pc' \notin UpgradeSteps PROVE OwnKueue'
  <2>1. NoKueue \in KueueSet /\ NoKueue.image = "none"
    BY DEF NoKueue, KueueSet, KueueImages
  <2> QED BY <1>2, <2>1 DEF OwnKueue
<1>3. CASE LateSteps
  <2>1. LateEffect /\ Growth
    BY <1>3, Lately, GrowingLate
  <2>2. has = {} \/ Terraformed
    BY <2>1 DEF LateEffect, Growth, toolkit, Terraformed
  <2> QED BY <2>1, <2>2, OwnLate DEF OwnInv
<1>4. CASE EarlySteps \/ WritesNetworks
  <2>1. Growth
    BY <1>4, GrowingEarly
  <2>2. UNCHANGED <<local, bucket, kueue>>
    BY <1>4, First, LocalKept
    DEF EarlyEffect, WritesNetworks, authorize_private_cluster_access_if_necessary,
        update_cluster_authorized_networks, installed
  <2>3. pc' \notin UpgradeSteps
    <3>1. EarlySteps => pc' \in Early \cup {"credentials", "done", "toolkit"}
      BY First DEF EarlyEffect
    <3>2. WritesNetworks => pc' \in Early \cup {"credentials", "done"}
      BY Endings, AfterEarly DEF WritesNetworks, Early,
         authorize_private_cluster_access_if_necessary, update_cluster_authorized_networks
    <3> QED BY <1>4, <3>1, <3>2 DEF Early, UpgradeSteps
  <2>4. has = {} \/ Terraformed
    BY <2>1, <2>2 DEF Growth, Terraformed
  <2> QED BY <1>1, <2>2, <2>3, <2>4 DEF OwnInv
<1>5. CASE MakesDeployment
  <2>1. Growth /\ ToolkitEffect
    BY <1>5, GrowingEarly, WithToolkit
  <2>2. has = {} \/ Terraformed
    BY <1>5, <2>1, Learning DEF Growth
  <2>3. kueue' = kueue /\ pc' \notin UpgradeSteps
    BY <2>1 DEF ToolkitEffect, ToolkitSteps, UpgradeSteps
  <2> QED BY <1>1, <2>2, <2>3 DEF OwnInv
<1>6. CASE Destroys
  <2>1. pc' \in DestroySteps \cup {"done"}
    BY <1>6, Endings DEF Destroys, download_state, stage_for_destroy, destroy_deployment,
       ToolkitAsks, Writes, run_command, run_command_with_full_controls, DestroySteps
  <2>2. (UNCHANGED <<has, kueue>>) \/ kueue' = NoKueue
    BY <1>6 DEF Destroys, download_state, stage_for_destroy, destroy_deployment,
       ToolkitAsks, Writes, run_command, run_command_with_full_controls, Gone, Stays,
       installed
  <2>3. pc' \notin UpgradeSteps
    BY <2>1 DEF DestroySteps, UpgradeSteps
  <2>4. UNCHANGED has => has = {} \/ Terraformed
    BY <1>6, Destroying
  <2> QED BY <1>1, <1>2, <2>2, <2>3, <2>4 DEF OwnInv
<1>7. CASE Delete
  <2>1. pc' \in DeleteSteps \cup {"done"}
    BY <1>7, Endings DEF Delete, set_cluster_command, get_workload_list,
       run_gke_cluster_delete_command, get_all_subnets_programmatic,
       delete_cluster_subnets, DeleteSteps
  <2>2. (UNCHANGED <<has, kueue>>) \/ kueue' = NoKueue
    BY <1>7 DEF Delete, set_cluster_command, get_workload_list,
       run_gke_cluster_delete_command, get_all_subnets_programmatic,
       delete_cluster_subnets, Gone, Stays, installed, Elsewise
  <2>3. pc' \notin UpgradeSteps
    BY <2>1 DEF DeleteSteps, UpgradeSteps
  <2>4. UNCHANGED has => has = {} \/ Terraformed
    BY <1>7, LocalKept DEF Terraformed
  <2> QED BY <1>1, <1>2, <2>2, <2>3, <2>4 DEF OwnInv
<1>8. CASE Begin \/ Others
  <2>1. UNCHANGED <<has, kueue, local, bucket>>
    BY <1>8, LocalKept DEF Begin, Others, ColleagueReads, ColleagueWrites, OtherSwitches,
       installed, Elsewise
  <2>2. OwnKueue
    BY <2>1 DEF OwnInv, Terraformed
  <2>3. CASE Others
    <3>1. pc' = pc
      BY <2>3 DEF Others, ColleagueReads, ColleagueWrites, OtherSwitches, control
    <3> QED BY <2>1, <2>2, <3>1 DEF OwnKueue
  <2>4. CASE Begin
    <3>1. PICK c \in scenario.commands :
            pc' = IF /\ c.verb = "adapt" /\ c.device \in Gpus
                     /\ "nodes-given" \notin c.options
                  THEN "count-nodes" ELSE FirstStep(c)
      BY <2>4 DEF Begin
    <3>2. pc' \notin UpgradeSteps
      BY <3>1, FirstOf DEF UpgradeSteps
    <3> QED BY <1>1, <2>1, <2>2, <3>2
  <2> QED BY <1>8, <2>3, <2>4
<1> QED BY <1>3, <1>4, <1>5, <1>6, <1>7, <1>8, AllSteps DEF Next

(* Where there is no cluster, there is no Kueue.                              *)
LEMMA OwnInit == Init => OwnInv
<1>. SUFFICES ASSUME Init PROVE OwnInv
  OBVIOUS
<1>1. /\ scenario \in Scenarios /\ has = scenario.has /\ kueue = scenario.kueue
      /\ pc = "done" /\ bucket = {} /\ local = [m \in Machines |-> {}]
  BY DEF Init
<1>2. kueue \in KueueSet
  BY <1>1, ScenariosAssumption DEF ScenarioSet, KueueSet
<1>3. ~Terraformed
  BY <1>1 DEF Terraformed
<1>4. has = {} => kueue.image = "none"
  BY <1>1, EmptyAssumption
<1> QED BY <1>1, <1>2, <1>3, <1>4 DEF OwnInv, OwnKueue, UpgradeSteps

-----------------------------------------------------------------------------
(* A run by Cluster Toolkit.                                                  *)

NapSteps == {"nap", "nap-profile", "nap-pools"}
Behind == NapSteps \cup KueueSteps
Uploading == {"upload", "upload-blueprint", "toolkit-credentials"}

Deployed == ~scenario.native => Blueprint.deploys \subseteq has
Uploaded == Asked("bucket") => "blueprint" \in bucket
Profiled == PromisedAutoprovisioning \subseteq has

(* As long as nothing failed, Kueue is installed into the cluster that was    *)
(* deployed.                                                                  *)
Undisturbed ==
  /\ pc \in Uploading \cup Behind => OwnKueue /\ "cluster" \in has
  /\ pc \in Behind => file[File] = "own"
  /\ pc \in {"patch-tolerations", "wait-for-kueue", "configure-kueue"}
       => kueue.image # "none"
  /\ pc \in {"kueue-resources", "done"} => QueuesWork

DeployParts ==
  /\ pc \in {"server-config", "control-plane-version", "done"} \cup ToolkitSteps
            \cup Behind
  /\ pc \in Uploading \cup Behind \cup {"done"} => Deployed
  /\ pc \in {"toolkit-credentials", "done"} \cup Behind => Uploaded
  /\ pc \in {"nap-profile", "nap-pools"} => "autoprovisioning" \in has
  /\ pc = "nap-pools" => "autoscaling-profile" \in has
  /\ pc \in KueueSteps \cup {"done"} => Profiled
  /\ faults = 0 => Undisturbed

DeployInv == ByToolkit /\ (pc = "done" => rc = "ok") => DeployParts

(* Only Kueue's installation drops its failures.                              *)
LEMMA Failing ==
  ASSUME pc \notin KueueSteps
  PROVE  /\ xpk_exit => Fails
         /\ Breaks => Fails
         /\ \A step : Asks(step) => Fails \/ GoTo(step)
<1>1. Failure = "failed"
  BY DEF Failure
<1> QED BY <1>1 DEF xpk_exit, Breaks, Ends, Fails, Asks

(* Up to the deployment, nothing is needed.                                   *)
LEMMA DeployFirst ==
  ASSUME Fails \/ pc' \in {"server-config", "control-plane-version"}
                          \cup (ToolkitSteps \ Uploading)
  PROVE  DeployInv'
BY DEF DeployInv, DeployParts, Undisturbed, Fails, ToolkitSteps, Uploading, Behind,
       NapSteps, KueueSteps

(* What is deployed stays, but for what a run by Cluster Toolkit does not     *)
(* touch.                                                                     *)
LEMMA Lasting ==
  ASSUME Growth
  PROVE  /\ Deployed => Deployed'
         /\ Profiled => Profiled'
         /\ Blueprint' = Blueprint
<1>1. UNCHANGED <<scenario, cmd>> /\ has \ {"ray", "large-jobset"} \subseteq has'
  BY DEF Growth
<1>2. Blueprint' = Blueprint
  BY <1>1 DEF Blueprint, generate_a3_mega_blueprint, generate_a3_ultra_blueprint,
     generate_a4_blueprint, Asked
<1>3. Blueprint.deploys \cap {"ray", "large-jobset"} = {}
  BY DEF Blueprint, generate_a3_mega_blueprint, generate_a3_ultra_blueprint,
     generate_a4_blueprint, DeployedByAll
<1>4. PromisedAutoprovisioning \cap {"ray", "large-jobset"} = {}
  BY DEF PromisedAutoprovisioning, When
<1>5. PromisedAutoprovisioning' = PromisedAutoprovisioning
  BY <1>1 DEF PromisedAutoprovisioning, Asked
<1> QED BY <1>1, <1>2, <1>3, <1>4, <1>5 DEF Deployed, Profiled

(* The deployment itself.                                                     *)
LEMMA Deploying ==
  ASSUME TypeInv, KueueInv, OwnInv, faults \in Nat, _run_deploy_cmd
  PROVE  DeployInv'
<1>1. /\ pc = "gcluster-deploy" /\ UNCHANGED <<scenario, cmd, kueue>>
  BY DEF _run_deploy_cmd, At
<1>2. pc \notin KueueSteps /\ Growth /\ ToolkitEffect
  BY <1>1, GrowingEarly, WithToolkit DEF KueueSteps, MakesDeployment
<1>3. \/ Fails
      \/ /\ pc' = "upload"
         /\ has = {} \/ Knows(cmd.machine)
         /\ \/ has' = has \cup Blueprint.deploys
            \/ scenario.native /\ faults' # 0
  BY <1>2, Failing, Endings
  DEF _run_deploy_cmd, run_command, run_command_with_full_controls, MovesTo, Fault
<1>4. CASE Fails
  BY <1>1, <1>4, DeployFirst
<1>5. CASE ~Fails
  <2>1. OwnKueue'
    <3>1. cmd.machine \in Machines /\ local \in [Machines -> SUBSET LocalFiles]
      BY Machine DEF TypeInv
    <3>2. Knows(cmd.machine) => Terraformed
      BY <3>1 DEF Knows, Terraformed
    <3>3. OwnKueue
      BY <1>3, <1>5, <3>2 DEF OwnInv
    <3> QED BY <1>1, <1>3, <1>5, <3>3 DEF OwnKueue, UpgradeSteps
  <2>2. "cluster" \in Blueprint.deploys
    BY DEF Blueprint, generate_a3_mega_blueprint, generate_a3_ultra_blueprint,
       generate_a4_blueprint, DeployedByAll
  <2>3. Deployed'
    <3>1. Blueprint' = Blueprint
      BY <1>2, Lasting
    <3> QED BY <1>1, <1>3, <1>5, <3>1 DEF Deployed
  <2>4. faults' = 0 => "cluster" \in has'
    BY <1>3, <1>5, <2>2
  <2>5. pc' = "upload" /\ "upload" \in ToolkitSteps \cap Uploading
        /\ "upload" \notin Behind \cup {"done", "toolkit-credentials"}
    BY <1>3, <1>5 DEF ToolkitSteps, Uploading, Behind, NapSteps, KueueSteps
  <2>6. Undisturbed' \/ faults' # 0
    BY <2>1, <2>4, <2>5 DEF Undisturbed, Behind, NapSteps, KueueSteps
  <2> QED BY <2>3, <2>5, <2>6 DEF DeployInv, DeployParts, Behind, NapSteps
<1> QED BY <1>4, <1>5

(* What a run has when it goes on from a step.                                *)
Deploys == DeployParts /\ faults \in Nat

(* The upload of its files.                                                   *)
LEMMA DeployUploads ==
  ASSUME Deploys, upload_directory_to_gcs \/ upload_state
  PROVE  DeployInv'
<1>1. /\ pc \in {"upload", "upload-blueprint"}
      /\ UNCHANGED <<scenario, cmd, has, kueue>>
      /\ \/ Fails
         \/ pc' = "upload-blueprint"
         \/ pc' = "toolkit-credentials" /\ Uploaded'
  <2>1. pc \in {"upload", "upload-blueprint"} /\ UNCHANGED <<scenario, cmd, has, kueue>>
    BY DEF upload_directory_to_gcs, upload_state, Uploads, At, installed
  <2>2. pc \notin KueueSteps
    BY <2>1 DEF KueueSteps
  <2>3. \/ Fails
        \/ pc' = "upload-blueprint"
        \/ pc' = "toolkit-credentials" /\ Uploaded'
    BY <2>1, <2>2, Failing, Endings
    DEF upload_directory_to_gcs, upload_state, Uploads, Uploaded, Asked
  <2> QED BY <2>1, <2>3
<1>2. CASE Fails
  BY <1>1, <1>2, DeployFirst
<1>3. CASE ~Fails
  <2>1. /\ pc' \in ToolkitSteps \cap Uploading
        /\ pc' \notin Behind \cup {"done"} \cup UpgradeSteps
        /\ pc' = "toolkit-credentials" => Uploaded'
    BY <1>1, <1>3 DEF ToolkitSteps, Uploading, Behind, NapSteps, KueueSteps, UpgradeSteps
  <2>2. Deployed
    BY <1>1 DEF Deploys, DeployParts, Uploading
  <2>3. Deployed'
    BY <1>1, <2>2 DEF Deployed, Blueprint, generate_a3_mega_blueprint,
       generate_a3_ultra_blueprint, generate_a4_blueprint, Asked
  <2>4. faults' = 0 => faults = 0
    BY GrowingEarly DEF Growth, MakesDeployment, Deploys
  <2>5. Undisturbed => Undisturbed'
    BY <1>1, <2>1 DEF Undisturbed, OwnKueue, Uploading, Behind, NapSteps, KueueSteps
  <2> QED BY <2>1, <2>3, <2>4, <2>5
          DEF DeployInv, DeployParts, Behind, NapSteps, Deploys
<1> QED BY <1>2, <1>3

(* The credentials after it.                                                  *)
LEMMA DeployReaches ==
  ASSUME TypeInv, Deploys, toolkit_credentials
  PROVE  DeployInv'
<1>1. /\ pc = "toolkit-credentials" /\ UNCHANGED <<scenario, cmd, has, kueue, bucket>>
      /\ pc \notin KueueSteps
  BY DEF toolkit_credentials, At, Elsewise, installed, toolkit, KueueSteps
<1>2. \/ Fails
      \/ /\ GetCredentials
         /\ pc' = IF Asked("nap") THEN "nap" ELSE "kueue"
  BY <1>1, Failing, Endings DEF toolkit_credentials
<1>3. CASE Fails
  BY <1>1, <1>3, DeployFirst
<1>4. CASE ~Fails
  <2>1. GetCredentials /\ pc' \in {"nap", "kueue"} /\ (pc' = "kueue" => ~Asked("nap"))
    BY <1>2, <1>4
  <2>2. /\ pc' \in Behind /\ (pc' \in KueueSteps => ~Asked("nap"))
        /\ pc' \notin {"done", "nap-profile", "nap-pools", "kueue-resources",
                       "patch-tolerations", "wait-for-kueue", "configure-kueue"}
                      \cup UpgradeSteps
    BY <2>1 DEF Behind, NapSteps, KueueSteps, UpgradeSteps
  <2>3. Deployed /\ Uploaded
    BY <1>1 DEF Deploys, DeployParts, Uploading
  <2>4. Deployed' /\ Uploaded' /\ (pc' \in KueueSteps => Profiled')
    BY <1>1, <2>2, <2>3 DEF Deployed, Blueprint, generate_a3_mega_blueprint,
       generate_a3_ultra_blueprint, generate_a4_blueprint, Asked, Uploaded, Profiled,
       PromisedAutoprovisioning, When
  <2>5. ASSUME faults' = 0 PROVE Undisturbed'
    <3>1. faults = 0
      BY <2>1, <2>5 DEF GetCredentials, Fault, Deploys
    <3>2. OwnKueue /\ "cluster" \in has
      BY <1>1, <3>1 DEF Deploys, DeployParts, Undisturbed, Uploading
    <3>3. file' = [file EXCEPT ![File] = "own"]
      BY <2>1, <2>5, <3>1, <3>2 DEF GetCredentials, Fault
    <3>4. file'[File'] = "own"
      <4>1. File \in {"default", "sandbox"} /\ File' = File
        BY <1>1 DEF File, Asked
      <4> QED BY <3>3, <4>1 DEF TypeInv
    <3> QED BY <1>1, <2>2, <3>2, <3>4 DEF Undisturbed, OwnKueue
  <2> QED BY <2>2, <2>4, <2>5 DEF DeployInv, DeployParts
<1> QED BY <1>3, <1>4

(* Autoprovisioning, on the cluster that was deployed.                        *)
LEMMA DeployProvisions ==
  ASSUME TypeInv, KueueInv, Deploys, ByToolkit, pc \in NapSteps, LateSteps
  PROVE  DeployInv'
<1>1. LateEffect /\ Growth
  BY Lately, GrowingLate
<1>2. enable_autoprovisioning_on_cluster
  BY <1>1 DEF LateEffect, NapSteps
<1>3. pc \notin KueueSteps
  BY DEF NapSteps, KueueSteps
<1>4. \A step, things, next : GcloudUpdate(step, things, next) =>
        /\ pc = step /\ UNCHANGED file
        /\ Fails \/ (pc' = next /\ has' = has \cup things)
  BY <1>3, Failing, Endings
  DEF GcloudUpdate, IfNecessary, GcloudPuts, Puts, At, contexts
<1>5. \/ Fails
      \/ pc = "nap" /\ pc' = "nap-profile" /\ "autoprovisioning" \in has' /\ file' = file
      \/ /\ pc = "nap-profile" /\ pc' = "nap-pools" /\ file' = file
         /\ has' = has \cup {"autoscaling-profile"}
      \/ /\ pc = "nap-pools" /\ pc' = "kueue" /\ file' = file
         /\ has' = has \cup {"autoscaled-pools"}
  <2>1. GcloudUpdate("nap-pools", {"autoscaled-pools"},
                     IF ByToolkit THEN "kueue" ELSE After("nap"))
          => GcloudUpdate("nap-pools", {"autoscaled-pools"}, "kueue")
    OBVIOUS
  <2> QED
    BY <1>2, <1>3, <1>4, <2>1, Failing DEF enable_autoprovisioning_on_cluster
<1>6. UNCHANGED <<scenario, cmd, bucket, kueue>>
  BY <1>1, <1>3 DEF LateEffect, toolkit
<1>7. CASE Fails
  BY <1>6, <1>7, DeployFirst
<1>8. CASE ~Fails
  <2>1. /\ pc' \in {"nap-profile", "nap-pools", "kueue"} /\ file' = file
        /\ pc' \in {"nap-profile", "nap-pools"} => "autoprovisioning" \in has'
        /\ pc' \in {"nap-pools"} => "autoscaling-profile" \in has'
        /\ pc' = "kueue" => Profiled'
    <3>1. pc = "nap-profile" => "autoprovisioning" \in has
      BY DEF Deploys, DeployParts
    <3>2. pc = "nap-pools" => {"autoprovisioning", "autoscaling-profile"} \subseteq has
      BY DEF Deploys, DeployParts
    <3>3. PromisedAutoprovisioning' \subseteq
            {"autoprovisioning", "autoscaling-profile", "autoscaled-pools"}
      BY DEF PromisedAutoprovisioning, When
    <3> QED BY <1>5, <1>8, <3>1, <3>2, <3>3 DEF Profiled
  <2>2. /\ pc' \in Behind /\ (pc' \in KueueSteps => pc' = "kueue")
        /\ pc' \notin {"done", "kueue-resources", "patch-tolerations", "wait-for-kueue",
                       "configure-kueue"} \cup UpgradeSteps
    BY <2>1 DEF Behind, NapSteps, KueueSteps, UpgradeSteps
  <2>3. Deployed' /\ Uploaded'
    <3>1. Deployed /\ Uploaded
      BY DEF Deploys, DeployParts, Behind
    <3> QED BY <1>1, <1>6, <3>1, Lasting DEF Uploaded, Asked
  <2>4. ASSUME faults' = 0 PROVE Undisturbed'
    <3>1. faults = 0
      BY <1>1, <2>4 DEF Growth, Deploys
    <3>2. OwnKueue /\ "cluster" \in has /\ file[File] = "own"
      BY <3>1 DEF Deploys, DeployParts, Undisturbed, Behind
    <3>3. "cluster" \in has' /\ file'[File'] = "own"
      BY <1>1, <1>6, <2>1, <3>2 DEF Growth, File, Asked
    <3> QED BY <1>6, <2>2, <3>2, <3>3 DEF Undisturbed, OwnKueue
  <2> QED BY <2>1, <2>2, <2>3, <2>4 DEF DeployInv, DeployParts
<1> QED BY <1>7, <1>8

(* What Kueue's steps do to Kueue in a cluster that kubectl reaches, as long  *)
(* as nothing fails.                                                          *)
LEMMA QueuesInstalled ==
  ASSUME OwnKueue, Context = "own", ByToolkit, InstallsKueue, faults \in Nat,
         faults' = faults, Undisturbed, faults = 0
  PROVE  /\ pc' \in KueueSteps \cup {"done"}
         /\ pc' \in {"patch-tolerations", "wait-for-kueue", "configure-kueue"}
              => kueue'.image # "none"
         /\ pc' \in {"kueue-resources", "done"} => QueuesWork'
<1>. DEFINE Goal == /\ pc' \in KueueSteps \cup {"done"}
                    /\ pc' \in {"patch-tolerations", "wait-for-kueue", "configure-kueue"}
                         => kueue'.image # "none"
                    /\ pc' \in {"kueue-resources", "done"} => QueuesWork'
<1>1. ~Fault
  BY DEF Fault
<1>2. ~Breaks
  BY <1>1 DEF Breaks
<1>3. \A step, after, partly, next :
        Changes(step, after, partly, next) =>
          pc = step /\ kueue' = after /\ pc' = next /\ UNCHANGED cmd
  BY <1>2, Endings DEF Changes, Elsewhere, At
<1>4. get_installed_kueue_version => Goal
  <2>1. \A step, next, otherwise, answers :
          Question(step, next, otherwise, answers) =>
            pc = step /\ pc' = next /\ kueue' = kueue
    BY <1>1, <1>2, Endings DEF Question, At
  <2> QED BY <2>1 DEF get_installed_kueue_version, KueueSteps, OwnKueue
<1>5. ~kueue_managed_externally /\ ~prepare_for_upgrade /\ ~delete_all_kueue_resources
  BY DEF kueue_managed_externally, Question, prepare_for_upgrade, At, OwnKueue,
     delete_all_kueue_resources, Changes, Cannot, UpgradeSteps
<1>6. __install_kueue_crs => Goal
  <2>1. __install_kueue_crs =>
          /\ kueue' = [kueue EXCEPT !.image = "current", !.crds = "all"]
          /\ pc' \in {"patch-tolerations", "wait-for-kueue"}
    BY <1>3 DEF __install_kueue_crs
  <2> QED BY <2>1 DEF KueueSteps, OwnKueue, KueueSet
<1>7. __patch_tolerations => Goal
  <2>1. __patch_tolerations =>
          /\ pc = "patch-tolerations" /\ kueue' = [kueue EXCEPT !.tolerant = TRUE]
          /\ pc' = "wait-for-kueue"
    BY <1>3 DEF __patch_tolerations
  <2> QED BY <2>1 DEF KueueSteps, OwnKueue, KueueSet, Undisturbed
<1>8. __wait_for_kueue_available => Goal
  BY <1>3 DEF __wait_for_kueue_available, KueueSteps, Undisturbed
<1>9. configure_kueue => Goal
  <2>. SUFFICES ASSUME configure_kueue PROVE Goal
    OBVIOUS
  <2>1. pc = "configure-kueue"
    BY DEF configure_kueue, Cannot, Changes, At
  <2>2. kueue.image = "current" /\ kueue.crds = "all"
    BY <2>1 DEF Undisturbed, OwnKueue
  <2>3. Changes("configure-kueue", [kueue EXCEPT !.objects = Quota], {},
                "kueue-resources")
    BY <2>2 DEF configure_kueue, Cannot
  <2>4. /\ kueue' = [kueue EXCEPT !.objects = Quota] /\ pc' = "kueue-resources"
        /\ Quota' = Quota
    BY <1>3, <2>3 DEF Quota, Asked
  <2>5. kueue'.image = "current" /\ kueue'.crds = "all" /\ kueue'.objects = Quota
    BY <2>2, <2>4 DEF OwnKueue, KueueSet
  <2> QED BY <2>4, <2>5 DEF QueuesWork, KueueSteps
<1>10. __update_kueue_resources_if_necessary => Goal
  <2>. SUFFICES ASSUME __update_kueue_resources_if_necessary PROVE Goal
    OBVIOUS
  <2>1. /\ pc = "kueue-resources" /\ UNCHANGED <<cmd, kueue>>
        /\ KubectlPuts(Context, {}, "done")
    BY DEF __update_kueue_resources_if_necessary, patch_controller_manager_resources,
       Kubectl, At, Elsewise, installed
  <2>2. pc' = "done"
    BY <1>2, <2>1, Endings, Reaching
  <2>3. QueuesWork /\ Quota' = Quota
    BY <2>1 DEF Undisturbed, Quota, Asked
  <2> QED BY <2>1, <2>2, <2>3 DEF QueuesWork
<1> QED BY <1>4, <1>5, <1>6, <1>7, <1>8, <1>9, <1>10 DEF InstallsKueue

(* Kueue, whose failures are dropped.                                         *)
LEMMA DeployQueues ==
  ASSUME TypeInv, KueueInv, Deploys, ByToolkit, pc \in KueueSteps, LateSteps
  PROVE  DeployInv'
<1>1. LateEffect /\ Growth /\ InstallsKueue
  BY Lately, GrowingLate DEF LateEffect
<1>2. UNCHANGED <<scenario, cmd, bucket>>
  BY <1>1 DEF LateEffect, toolkit
<1>3. /\ UNCHANGED file
      /\ pc' \in KueueSteps \cup {"done"}
  <2>1. \A step, after, partly, next :
          Changes(step, after, partly, next) =>
            pc' \in {next, "done"} /\ UNCHANGED file
    BY Endings, Reaching DEF Changes, contexts, Reaches
  <2>2. \A step, next, otherwise, answers :
          Question(step, next, otherwise, answers) =>
            pc' \in {next, otherwise, "done"} \cup answers /\ UNCHANGED file
    BY Endings DEF Question, contexts
  <2>3. \A step, things, next :
          Kubectl(step, things, next) => pc' \in {next, "done"} /\ UNCHANGED file
    BY Reaching DEF Kubectl, Reaches
  <2>4. \A step : Cannot(step) => pc' = "done" /\ UNCHANGED file
    BY Endings DEF Cannot, contexts
  <2>5. prepare_for_upgrade => pc' \in KueueSteps \cup {"done"} /\ UNCHANGED file
    BY Endings DEF prepare_for_upgrade, contexts, KueueSteps
  <2> QED
    BY <1>1, <2>1, <2>2, <2>3, <2>4, <2>5
    DEF InstallsKueue, get_installed_kueue_version, kueue_managed_externally,
        delete_all_kueue_resources, __install_kueue_crs, __patch_tolerations,
        __wait_for_kueue_available, configure_kueue, patch_controller_manager_resources,
        __update_kueue_resources_if_necessary, KueueSteps
<1>4. /\ pc' \in Behind \cup {"done"} /\ pc' \notin NapSteps /\ pc' \notin Uploading
      /\ pc \in Behind
  BY <1>3 DEF Behind, NapSteps, KueueSteps, Uploading
<1>5. Deployed' /\ Uploaded' /\ Profiled'
  <2>1. Deployed /\ Uploaded /\ Profiled
    BY <1>4 DEF Deploys, DeployParts
  <2> QED BY <1>1, <1>2, <2>1, Lasting DEF Uploaded, Asked
<1>6. ASSUME faults' = 0 PROVE Undisturbed'
  <2>1. faults = 0 /\ Undisturbed
    BY <1>1, <1>6 DEF Growth, Deploys, DeployParts
  <2>2. OwnKueue /\ "cluster" \in has /\ file[File] = "own" /\ Context = "own"
    BY <1>4, <2>1 DEF Undisturbed, Context, Reached
  <2>3. OwnKueue' /\ "cluster" \in has' /\ file'[File'] = "own"
    BY <1>1, <1>2, <1>3, <2>2, OwnLate DEF Growth, File, Asked
  <2>4. /\ pc' \in {"patch-tolerations", "wait-for-kueue", "configure-kueue"}
             => kueue'.image # "none"
        /\ pc' \in {"kueue-resources", "done"} => QueuesWork'
    BY <1>1, <1>6, <2>1, <2>2, QueuesInstalled DEF Deploys
  <2> QED BY <1>4, <2>3, <2>4 DEF Undisturbed
<1> QED BY <1>4, <1>5, <1>6 DEF DeployInv, DeployParts, NapSteps

(* Others do not disturb it, but for a switch of the context, a fault.        *)
LEMMA DeployOthers ==
  ASSUME DeployInv, faults \in Nat, Others \/ UNCHANGED vars
  PROVE  DeployInv'
<1>1. UNCHANGED <<scenario, cmd, pc, rc, has, kueue, bucket>>
  BY DEF Others, ColleagueReads, ColleagueWrites, OtherSwitches, vars, control, installed,
     toolkit, Elsewise
<1>2. faults' # 0 \/ UNCHANGED <<faults, file>>
  BY DEF Others, ColleagueReads, ColleagueWrites, OtherSwitches, vars, control, contexts,
     Fault
<1>3. /\ ByToolkit' = ByToolkit /\ Deployed' = Deployed /\ Uploaded' = Uploaded
      /\ Profiled' = Profiled
  BY <1>1 DEF ByToolkit, Creating, Asked, Deployed, Blueprint, Uploaded, Profiled,
     PromisedAutoprovisioning, generate_a3_mega_blueprint, generate_a3_ultra_blueprint,
     generate_a4_blueprint
<1>4. UNCHANGED file => Undisturbed' = Undisturbed
  BY <1>1 DEF Undisturbed, OwnKueue, QueuesWork, Quota, File, Asked
<1> QED BY <1>1, <1>2, <1>3, <1>4 DEF DeployInv, DeployParts

(* It begins with the first step.                                             *)
LEMMA DeployBegins ==
  ASSUME TypeInv, Begin
  PROVE  DeployInv'
<1>1. PICK c \in scenario.commands :
        /\ cmd' = c
        /\ pc' = IF /\ c.verb = "adapt" /\ c.device \in Gpus
                    /\ "nodes-given" \notin c.options
                 THEN "count-nodes" ELSE FirstStep(c)
  BY DEF Begin
<1>2. ByToolkit' => c.verb = "create" /\ "adapt-from-ct" \notin c.options
  BY <1>1 DEF ByToolkit, Creating, Asked
<1>3. ByToolkit' => pc' = "server-config"
  BY <1>1, <1>2 DEF FirstStep
<1> QED BY <1>3, DeployFirst DEF DeployInv

(* Each step of a run by Cluster Toolkit.                                     *)
LEMMA DeployStep ==
  ASSUME TypeInv, KueueInv, OwnInv, Deploys, ByToolkit, Step
  PROVE  DeployInv'
<1>1. pc \in {"server-config", "control-plane-version", "done"} \cup ToolkitSteps
            \cup Behind
  BY DEF Deploys, DeployParts
<1>2. CASE LateSteps
  <2>1. pc \in {"credentials"} \cup Late
    BY <1>2, Lately DEF LateEffect
  <2>2. pc \in Behind
    BY <1>1, <2>1 DEF Late, Offered, KueueSteps, ToolkitSteps
  <2> QED BY <1>2, <2>2, DeployProvisions, DeployQueues DEF Behind
<1>3. CASE EarlySteps
  <2>1. pc \in Early
    BY <1>3, First DEF EarlyEffect
  <2>2. pc \in {"server-config", "control-plane-version"}
    BY <1>1, <2>1 DEF Early, ToolkitSteps, Behind, NapSteps, KueueSteps
  <2>3. get_gke_server_config \/ get_gke_control_plane_version
    BY <1>3, <2>2 DEF EarlySteps, count_nodes_on_cluster, create_cluster_if_necessary,
       is_cluster_private, update_cluster_with_workload_identity_if_necessary,
       update_cluster_with_mtc_if_necessary, IfNecessary, At
  <2>4. pc \notin KueueSteps
    BY <2>2 DEF KueueSteps
  <2>5. Fails \/ pc' \in {"control-plane-version", "toolkit"}
    BY <2>3, <2>4, Failing, Endings
    DEF get_gke_server_config, get_gke_control_plane_version
  <2>6. "toolkit" \in ToolkitSteps \ Uploading
    BY DEF ToolkitSteps, Uploading
  <2> QED BY <2>5, <2>6, DeployFirst
<1>4. CASE WritesNetworks \/ Destroys \/ Delete
  <2>1. pc \in {"read-networks", "write-networks"} \cup DestroySteps \cup DeleteSteps
    BY <1>4 DEF WritesNetworks, authorize_private_cluster_access_if_necessary,
       update_cluster_authorized_networks, At,
       Destroys, download_state, stage_for_destroy, destroy_deployment,
       ToolkitAsks, Writes, Delete, set_cluster_command, get_workload_list,
       run_gke_cluster_delete_command, get_all_subnets_programmatic,
       delete_cluster_subnets, DestroySteps, DeleteSteps
  <2> QED
    BY <1>1, <2>1 DEF DestroySteps, DeleteSteps, ToolkitSteps, Behind, NapSteps,
       KueueSteps
<1>5. CASE MakesDeployment
  <2>1. CASE _run_deploy_cmd
    BY <2>1, Deploying DEF Deploys
  <2>2. CASE upload_directory_to_gcs \/ upload_state
    BY <2>2, DeployUploads
  <2>3. CASE toolkit_credentials
    BY <2>3, DeployReaches
  <2>4. CASE \/ prepare_gcluster_manager \/ validate_state_gcs_bucket
             \/ generate_blueprint \/ stage_files \/ _run_create_deployment_cmd
    <3>1. pc \in {"toolkit", "validate-bucket", "blueprint", "stage", "gcluster-create"}
      BY <2>4 DEF prepare_gcluster_manager, validate_state_gcs_bucket,
         generate_blueprint, stage_files, _run_create_deployment_cmd, ToolkitAsks,
         Writes, At
    <3>2. pc \notin KueueSteps
      BY <3>1 DEF KueueSteps
    <3>3. Fails \/ pc' \in {"validate-bucket", "blueprint", "stage", "gcluster-create",
                            "gcluster-deploy"}
      BY <2>4, <3>2, Failing, Endings
      DEF prepare_gcluster_manager, validate_state_gcs_bucket, generate_blueprint,
          stage_files, _run_create_deployment_cmd, ToolkitAsks, Writes, run_command,
          run_command_with_full_controls
    <3>4. {"validate-bucket", "blueprint", "stage", "gcluster-create",
           "gcluster-deploy"} \subseteq ToolkitSteps \ Uploading
      BY DEF ToolkitSteps, Uploading
    <3> QED BY <3>3, <3>4, DeployFirst
  <2> QED BY <1>5, <2>1, <2>2, <2>3, <2>4 DEF MakesDeployment
<1> QED BY <1>2, <1>3, <1>4, <1>5, AllSteps

(* A step has a name.                                                         *)
LEMMA NotDone == Step => pc # "done"
<1>1. LateSteps \/ EarlySteps \/ MakesDeployment => pc # "done"
  <2>1. "done" \notin {"credentials"} \cup Late \cup Early \cup ToolkitSteps
    BY DEF Late, Offered, KueueSteps, Early, ToolkitSteps
  <2> QED BY <2>1, Lately, First, WithToolkit DEF LateEffect, EarlyEffect, ToolkitEffect
<1>2. WritesNetworks \/ Destroys \/ Delete => pc # "done"
  BY DEF WritesNetworks, authorize_private_cluster_access_if_necessary,
     update_cluster_authorized_networks, At,
     Destroys, download_state, stage_for_destroy, destroy_deployment,
     ToolkitAsks, Writes, Delete, set_cluster_command, get_workload_list,
     run_gke_cluster_delete_command, get_all_subnets_programmatic,
     delete_cluster_subnets
<1> QED BY <1>1, <1>2, AllSteps

(* All steps.                                                                 *)
LEMMA DeployNext ==
  ASSUME TypeInv, KueueInv, OwnInv, DeployInv, faults \in Nat, [Next]_vars
  PROVE  DeployInv'
<1>1. CASE Step
  <2>1. ByToolkit' = ByToolkit
    BY <1>1, ScenarioKept DEF ByToolkit, Creating, Asked
  <2>2. CASE ByToolkit
    BY <1>1, <2>2, NotDone, DeployStep DEF DeployInv, Deploys
  <2> QED BY <2>1, <2>2 DEF DeployInv
<1> QED BY <1>1, DeployBegins, DeployOthers DEF Next

-----------------------------------------------------------------------------
(* The theorem.                                                               *)
CompleteInv ==
  TypeInv /\ KueueInv /\ OrderInv /\ MadeInv /\ OwnInv /\ DeployInv

(* All of that holds at first,                                                *)
LEMMA CompleteInit == LustreServed /\ CoreDnsServes /\ Init => CompleteInv
<1>1. Init => DeployInv
  BY DEF Init, DeployInv, ByToolkit, Creating, NoCommand
<1> QED BY <1>1, TypeInit, KueueInit, OrderInit, MadeInit, OwnInit DEF CompleteInv

(* and after each step.                                                       *)
LEMMA CompleteNext == CompleteInv /\ [Next]_vars => CompleteInv'
<1>. SUFFICES ASSUME CompleteInv, [Next]_vars PROVE CompleteInv'
  OBVIOUS
<1>1. TypeInv' /\ KueueInv' /\ OrderInv'
  BY TypeNext, KueueNext, OrderNext DEF CompleteInv
<1>2. DeployInv' /\ MadeInv'
  BY DeployNext, MadeNext DEF CompleteInv, OrderInv
<1>3. OwnInv'
  <2>1. CASE UNCHANGED vars
    BY <2>1 DEF CompleteInv, OwnInv, OwnKueue, Terraformed, vars, control, installed,
       toolkit
  <2> QED BY <2>1, OwnNext DEF CompleteInv
<1> QED BY <1>1, <1>2, <1>3 DEF CompleteInv

(* What a run that returned 0 was asked for is there.                         *)
LEMMA CompleteEnds == CompleteInv => SuccessIsComplete
<1>. SUFFICES ASSUME CompleteInv, Finished({"create", "adapt"}), stray = {}
     PROVE  IF ByToolkit
            THEN /\ ~scenario.native => Blueprint.deploys \subseteq has
                 /\ PromisedAutoprovisioning \subseteq has
                 /\ Asked("bucket") => "blueprint" \in bucket
                 /\ faults = 0 => QueuesWork
            ELSE Complete
  BY DEF SuccessIsComplete, Complete
<1>1. pc = "done" /\ rc = "ok" /\ cmd.verb \in {"create", "adapt"}
  BY DEF Finished
<1>2. CASE ByToolkit
  <2>1. DeployParts
    BY <1>1, <1>2 DEF CompleteInv, DeployInv
  <2> QED BY <1>1, <1>2, <2>1 DEF DeployParts, Deployed, Uploaded, Profiled, Undisturbed
<1>3. CASE ~ByToolkit
  BY <1>1, <1>3, OrderEnds DEF CompleteInv, Piped
<1> QED BY <1>2, <1>3

(* A create or adapt that returned 0 and reached no other cluster leaves what  *)
(* SuccessIsComplete promises, however often earlier runs were broken off, and *)
(* wherever. That leaves out what it loses with status 0: what only a cluster  *)
(* gets that is made with it (cluster.py:1226-1228), the nodes of Lustre and   *)
(* the scaling of CoreDNS after a failure, a Storage CRD after an error of the *)
(* API, and on Cluster Toolkit's path Kueue and what Ctrl-C broke off. The     *)
(* assumptions are about clusters that are there before the first command.     *)
THEOREM NothingMissing ==
  LustreServed /\ CoreDnsServes => (Spec => []SuccessIsComplete)
<1>. SUFFICES ASSUME LustreServed, CoreDnsServes PROVE Spec => []SuccessIsComplete
  OBVIOUS
<1>1. Init => CompleteInv
  BY CompleteInit
<1> QED BY <1>1, CompleteNext, CompleteEnds, PTL DEF Spec
=============================================================================
