--------------------------- MODULE ClusterObjects ---------------------------
(***************************************************************************)
(* The steps that put objects into the cluster and into the project: the      *)
(* Storage CRD, the networks of H100 clusters, plugins, Ray, multi-tier        *)
(* checkpointing and managed ML diagnostics; and what `cluster delete` does  *)
(* with the networks (core/network.py).                                    *)
(***************************************************************************)
EXTENDS ClusterSetup

Kubectl(step, things, next) ==
  /\ At(step) /\ KubectlPuts(Context, things, next)
  /\ UNCHANGED Elsewise

KubectlApply(thing) == Kubectl(thing, {thing}, After(thing))

(* A deployment has to be there to become ready.                            *)
_wait_for_deployment_ready(step, deployed, next) ==
  /\ At(step)
  /\ IF Context = "own" /\ ~deployed THEN xpk_exit /\ UNCHANGED <<has, contexts>>
     ELSE KubectlPuts(Context, {}, next)
  /\ UNCHANGED Elsewise

create_cluster_configmaps == KubectlApply("config-maps")
install_nccl_on_cluster == KubectlApply("nccl")
install_nri_on_cluster == KubectlApply("nri")
create_cluster_network_config ==
  Kubectl("network-config", {"network-config"}, After("networks"))

(* An API error while the CRD is created is taken for "already exists".      *)
install_storage_crd ==
  /\ At("storage-crd")
  /\ \/ /\ KubectlPuts(LibraryContext, {"storage-crd"}, After("storage-crd"))
        /\ UNCHANGED blind
     \/ /\ LibraryContext = "own" /\ Fault /\ MovesTo(After("storage-crd"))
        /\ blind' = blind \cup {pc} /\ UNCHANGED <<has, contexts>>
  /\ UNCHANGED <<kueue, jobset, net, access, toolkit>>

-----------------------------------------------------------------------------
(***************************************************************************)
(* CoreDNS. Module CoreDns has the replicas, and the runs for other clusters   *)
(* on the machine; here is what an interrupted setup leaves behind: a clone   *)
(* of the repository, or a deployment that was never scaled.                *)
(***************************************************************************)

CloneBecomes(state) == clone' = [clone EXCEPT ![cmd.machine] = state]

(* A query that fails is taken for "not found".                             *)
coredns_deployment_exists ==
  LET answer(there) ==
        GoTo(IF there THEN "coredns-found" ELSE "coredns-clone")
  IN  /\ At("coredns")
      /\ \/ /\ Context = "own" /\ UNCHANGED contexts
            /\ \/ answer("coredns" \in has) \/ Breaks
               \/ Fault /\ MovesTo("coredns-clone")
         \/ /\ Context = "other" /\ stray' = stray \cup {pc}
            /\ \E there \in BOOLEAN : answer(there)
            /\ UNCHANGED <<file, lost>>
         \/ Context = "none" /\ answer(FALSE) /\ UNCHANGED contexts
      /\ UNCHANGED <<has, Elsewise>>

(* A directory that is there is taken for the clone.                        *)
clone_coredns_deployment_repo ==
  /\ At("coredns-clone")
  /\ IF clone[cmd.machine] # "absent"
     THEN Asks("coredns-deploy") /\ UNCHANGED clone
     ELSE \/ CloneBecomes("complete") /\ GoTo("coredns-deploy")
          \/ Breaks /\ \E state \in Clones : CloneBecomes(state)
  /\ UNCHANGED <<has, installed, net, access, contexts, deployment, local, bucket>>

deploy_coredns_manifests ==
  /\ At("coredns-deploy")
  /\ IF clone[cmd.machine] # "complete"
     THEN xpk_exit /\ UNCHANGED <<has, contexts>>
     ELSE KubectlPuts(Context, {"coredns"}, "coredns-scale")
  /\ UNCHANGED Elsewise

(* kube-dns and its autoscaler down, and then CoreDNS up, if it is there.      *)
scale_up_coredns ==
  /\ At("coredns-scale")
  /\ IF Context = "own" /\ "coredns" \notin has
     THEN xpk_exit /\ UNCHANGED <<has, contexts>>
     ELSE KubectlPuts(Context, {"coredns-scaled"}, "coredns-ready")
  /\ UNCHANGED Elsewise

(* Errors are only printed. *)
cleanup_coredns_repo ==
  /\ At("coredns-cleanup")
  /\ \/ CloneBecomes("absent") /\ GoTo(After("coredns"))
     \/ /\ Fault /\ \E state \in Clones : CloneBecomes(state)
        /\ MovesTo(After("coredns")) \/ Ends("failed")
  /\ UNCHANGED <<has, installed, net, access, contexts, deployment, local, bucket>>

verify_coredns_readiness(step, next) ==
  _wait_for_deployment_ready(step, "coredns" \in has, next)

update_coredns ==
  \/ clone_coredns_deployment_repo \/ deploy_coredns_manifests
  \/ scale_up_coredns \/ verify_coredns_readiness("coredns-ready", "coredns-cleanup")
  \/ cleanup_coredns_repo

update_coredns_if_necessary ==
  \/ coredns_deployment_exists
  \/ verify_coredns_readiness("coredns-found", After("coredns"))
  \/ update_coredns

-----------------------------------------------------------------------------
(* The networks of the project. `of`: ours ("us"), or of a cluster whose name  *)
(* ends with ours: "in-use" or "idle".                                      *)

Resource(kind, i) == [kind |-> kind, index |-> i, of |-> "us"]

(* In the order in which they are visited: each network, its subnet and its     *)
(* firewall rule.                                                          *)
A3Networks ==
  [n \in 1 .. 3 * Networks |->
     Resource(<<"network", "subnet", "firewall-rule">>[((n - 1) % 3) + 1],
              (n + 2) \div 3)]

Makes(resources, next) ==
  /\ \/ project' = project \cup resources /\ GoTo(next)
     \/ project' \in {project, project \cup resources} /\ Breaks
  /\ UNCHANGED <<has, installed, pending, access, contexts, toolkit>>

\* WRONG: stops at the first network there is.
UpToTheFirst ==
  /\ At("networks")
  /\ LET missing == {n \in DOMAIN A3Networks : A3Networks[n] \notin project}
     IN  IF 1 \notin missing THEN Makes({}, "network-config")
         ELSE Makes({A3Networks[1]}, "networks")

(* Each is looked for and made if it is missing, one after the other.         *)
set_up_cluster_network_for_a3 ==
  /\ At("networks")
  /\ LET missing == {n \in DOMAIN A3Networks : A3Networks[n] \notin project}
     IN  IF missing = {} THEN Makes({}, "network-config")
         ELSE Makes({A3Networks[Min(missing)]}, "networks")

create_vertex_tensorboard ==
  /\ At("tensorboard")
  /\ Makes({Resource("tensorboard", 0)}, After("tensorboard"))

(* The name of a subnet is sought anywhere in the names that are there.       *)
get_all_subnets_programmatic ==
  /\ At("list-subnets")
  /\ \/ /\ pending' = {r \in project : r.kind = "subnet"}
        /\ GoTo("delete-subnets")
     \/ Breaks /\ UNCHANGED pending
  /\ UNCHANGED <<has, installed, project, access, contexts, toolkit>>

\* WRONG: only the first is deleted.
OneSubnet ==
  /\ At("delete-subnets")
  /\ GoTo("done")
  /\ \/ \E r \in pending : project' = project \ {r}
     \/ pending = {} /\ UNCHANGED project
  /\ UNCHANGED <<has, installed, pending, access, contexts, toolkit>>

(* A subnet in use, by the nodes of another cluster, cannot be deleted.       *)
delete_cluster_subnets ==
  /\ At("delete-subnets")
  /\ \/ pending = {} /\ GoTo("done") /\ UNCHANGED net
     \/ \E r \in pending :
          \/ r.of = "in-use" /\ xpk_exit /\ pending' = {} /\ UNCHANGED project
          \/ /\ r.of # "in-use" /\ project' = project \ {r}
             /\ pending' = pending \ {r} /\ GoTo("delete-subnets")
          \/ /\ r.of # "in-use" /\ project' \in {project, project \ {r}}
             /\ pending' = {} /\ Breaks
  /\ UNCHANGED <<has, installed, access, contexts, toolkit>>

-----------------------------------------------------------------------------
(* Ray, checkpointing and diagnostics.                                     *)

(* Only the operator knows the resource. *)
delete_ray_cluster ==
  /\ At("ray")
  /\ \/ /\ Context = "own" /\ UNCHANGED contexts
        /\ IF "ray-operator" \notin has THEN xpk_exit /\ UNCHANGED has
           ELSE \/ has' = has \ {"ray"} /\ GoTo("ray-resources")
                \/ has' \in {has, has \ {"ray"}} /\ Breaks
     \/ Elsewhere(Context, "ray-resources") /\ UNCHANGED has
  /\ UNCHANGED Elsewise

(* Of a node of the accelerator; without one, the answer cannot be read.      *)
generate_available_resources ==
  /\ At("ray-resources")
  /\ IF Context = "own" /\ "pools" \notin has
     THEN xpk_exit /\ UNCHANGED <<has, contexts>>
     ELSE KubectlPuts(Context, {}, "ray-apply")
  /\ UNCHANGED Elsewise

install_ray_cluster == Kubectl("ray-apply", {"ray"}, After("ray"))

(* The bucket and the RAM disk are asked for only now.                      *)
install_mtc_on_cluster ==
  /\ At("mtc")
  /\ IF Asked("no-mtc-bucket") THEN xpk_exit ELSE GoTo("mtc-environment")
  /\ UNCHANGED <<has, contexts, Elsewise>>

add_mtc_bucket_iam_member ==
  /\ At("mtc-bucket")
  /\ Makes({Resource("role-of-the-checkpoint-nodes", 0)}, "mtc-jobset")

(* The JobSet controller is applied again, of xpk's version and with more memory. *)
update_jobset_manifest ==
  LET applied == [jobset EXCEPT !.image = "current"]
  IN  /\ At("mtc-jobset")
      /\ \/ /\ LibraryContext = "own" /\ UNCHANGED contexts
            /\ \/ jobset' = applied /\ GoTo("mtc-configuration")
               \/ jobset' \in {jobset, applied} /\ Breaks
         \/ Elsewhere(LibraryContext, "mtc-configuration") /\ UNCHANGED jobset
      /\ UNCHANGED <<has, kueue, blind, net, access, toolkit>>

create_mtc_cpc ==
  /\ At("mtc-configuration")
  /\ IF LibraryContext = "own" /\ "checkpointing" \notin has
     THEN xpk_exit /\ UNCHANGED <<has, contexts>>
     ELSE KubectlPuts(LibraryContext, {"checkpoint-configuration"}, After("mtc"))
  /\ UNCHANGED Elsewise

grant_compute_default_sa_mldiagnostics_permissions ==
  /\ At("ml")
  /\ \E n \in 0 .. 3 :
       /\ project' = project \cup {Resource("role-for-diagnostics", i) : i \in 1 .. n}
       /\ IF n = 3 THEN GoTo(After("ml")) ELSE Breaks
  /\ UNCHANGED <<has, installed, pending, access, contexts, toolkit>>

_install_cert_manager ==
  Kubectl("cert-manager", {"cert-manager"}, "cert-manager-ready")

_install_mldiagnostics_yaml ==
  \/ Kubectl("ml-webhook", {"diagnostics-webhook"}, "ml-label")
  \/ Kubectl("ml-operator", {"diagnostics-operator"}, After("ml-prerequisites"))

_label_default_namespace_mldiagnostics ==
  Kubectl("ml-label", {"diagnostics-label"}, "ml-operator")

install_mldiagnostics_prerequisites ==
  \/ _wait_for_deployment_ready("ml-prerequisites", kueue.image # "none",
                                "cert-manager")
  \/ _install_cert_manager
  \/ _wait_for_deployment_ready("cert-manager-ready", "cert-manager" \in has,
                                "ml-namespace")
  \/ Kubectl("ml-namespace", {"diagnostics-namespace"}, "ml-webhook")
  \/ _install_mldiagnostics_yaml \/ _label_default_namespace_mldiagnostics
=============================================================================
