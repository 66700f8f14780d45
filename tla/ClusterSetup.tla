---------------------------- MODULE ClusterSetup ----------------------------
(***************************************************************************)
(* The steps of `xpk cluster create` and `adapt` that make and update the    *)
(* GKE cluster and what surrounds it: core/cluster.py, cluster_private.py,   *)
(* network.py, nap.py, mtc.py, ray.py and managed_ml_diagnostics.py. Each    *)
(* asks whether its feature is there and adds it if it is not, which is what *)
(* makes a repeated run go on where the last one ended.                     *)
(***************************************************************************)
EXTENDS ClusterRun

Elsewise == <<installed, net, access, toolkit>>

(* The features a new cluster gets from the flags of its creation. gcloud      *)
(* takes the last --addons only: RayOperator is dropped if others follow.    *)
Flags(c) ==
  LET o == c.options
      addons == (Drivers \cap o) \cup When("mtc" \in o, {"checkpointing"})
  IN  {"cluster"} \cup addons \cup ({"private-endpoint"} \cap o)
      \cup When("lustre" \in o, {"lustre-nodes"} \cup ({"legacy-port"} \cap o))
      \cup When({"identity", "gcsfuse"} \cap o # {}, {"identity"})
      \cup When(PrivateOptions \cap o # {}, {"private"})
      \cup When("ray" \in o /\ addons = {}, {"ray-operator"})
      \cup When("super-slicing" \in o, {"slice-controller"})
      \cup When("ml" \in o /\ "old-gke" \notin o, {"managed-diagnostics"})

get_gke_server_config ==
  /\ At("server-config") /\ Asks("control-plane-version")
  /\ UNCHANGED <<has, contexts, Elsewise>>

get_gke_control_plane_version ==
  /\ At("control-plane-version")
  /\ IF Asked("bad-version") THEN xpk_exit
     ELSE GoTo(IF ByToolkit THEN "toolkit" ELSE "cluster")
  /\ UNCHANGED <<has, contexts, Elsewise>>

\* WRONG: does not look whether it is there.
CreatesCluster ==
  /\ At("cluster")
  /\ IF "cluster" \in has THEN xpk_exit /\ UNCHANGED has
     ELSE Puts(Flags(cmd), "authorize")
  /\ UNCHANGED <<contexts, Elsewise>>

create_cluster_if_necessary ==
  /\ At("cluster")
  /\ IF "cluster" \in has THEN Asks("authorize") /\ UNCHANGED has
     ELSE Puts(Flags(cmd), "authorize")
  /\ UNCHANGED <<contexts, Elsewise>>

-----------------------------------------------------------------------------
(* Authorized networks of a private cluster.                               *)

is_cluster_private ==
  LET asked == PrivateOptions \cap cmd.options # {}
  IN  /\ At("authorize")
      /\ \/ "private" \in has /\ Asks("read-networks")
         \/ "private" \notin has /\ ~asked /\ Asks(After("authorize"))
         \/ "private" \notin has /\ asked /\ xpk_exit
      /\ UNCHANGED <<has, contexts, Elsewise>>

(* With a private endpoint the address of the machine is not added.          *)
OwnNetwork == IF Asked("private-endpoint") THEN {} ELSE {cmd.machine}

check_if_new_authorized_networks_needed == Asked("networks")

add_current_machine_to_networks(networks) == networks \cup OwnNetwork

\* WRONG: forgets the networks that are there.
OwnNetworkOnly(current) ==
  IF check_if_new_authorized_networks_needed THEN {"given"} ELSE OwnNetwork

NewNetworks(current) ==
  add_current_machine_to_networks(
    IF check_if_new_authorized_networks_needed THEN {"given"} ELSE current)

authorize_private_cluster_access_if_necessary ==
  LET new == NewNetworks(authorized)
      write == check_if_new_authorized_networks_needed \/ new # authorized
  IN  /\ At("read-networks")
      /\ \/ Breaks /\ UNCHANGED <<list, promised>>
         \/ /\ write /\ GoTo("write-networks")
            /\ list' = [reading |-> TRUE, list |-> new] /\ UNCHANGED promised
         \/ /\ ~write /\ GoTo(After("authorize"))
            /\ promised' = promised \cup OwnNetwork /\ UNCHANGED list
      /\ UNCHANGED <<has, contexts, installed, net, toolkit, authorized, theirs,
                     overlap>>

(* A given list replaces the one that is there, on the user's word.          *)
update_cluster_authorized_networks ==
  LET kept == IF Asked("networks") THEN {} ELSE promised
  IN  /\ At("write-networks")
      /\ \/ /\ authorized' = list.list /\ GoTo(After("authorize"))
            /\ promised' = kept \cup OwnNetwork
         \/ authorized' \in {authorized, list.list} /\ Breaks /\ promised' = kept
      /\ list' = Idle /\ overlap' = (overlap \/ theirs.reading)
      /\ UNCHANGED <<has, contexts, installed, net, toolkit, theirs>>

(* The same by the xpk of a colleague, on a machine of theirs.              *)
ColleagueReads ==
  /\ "private" \in has /\ ~theirs.reading /\ "colleague" \notin authorized
  /\ theirs' = [reading |-> TRUE, list |-> authorized \cup {"colleague"}]
  /\ UNCHANGED <<control, has, contexts, installed, net, toolkit, authorized,
                 list, overlap, promised>>

ColleagueWrites ==
  /\ theirs.reading /\ theirs' = Idle
  /\ IF "private" \notin has THEN UNCHANGED <<authorized, promised, overlap>>
     ELSE /\ authorized' = theirs.list
          /\ promised' = promised \cup {"colleague"}
          /\ overlap' = (overlap \/ list.reading)
  /\ UNCHANGED <<control, has, contexts, installed, net, toolkit, list>>

-----------------------------------------------------------------------------
(* Features that are added if they are not there.                          *)

is_driver_enabled_on_cluster(driver) == driver \in has

update_gke_cluster_with_addons(addons, next) == GcloudPuts(addons, next)

IfNecessary(step, enabled, next, update) ==
  /\ At(step)
  /\ IF "cluster" \in has /\ enabled THEN Asks(next) /\ UNCHANGED has ELSE update
  /\ UNCHANGED <<contexts, Elsewise>>

update_gke_cluster_with_workload_identity_enabled(next) ==
  GcloudPuts({"identity"}, next)

update_cluster_with_workload_identity_if_necessary ==
  LET next == After("identity")
  IN  IfNecessary("identity", "identity" \in has, next,
                  update_gke_cluster_with_workload_identity_enabled(next))

update_cluster_with_mtc_if_necessary ==
  LET next == After("mtc-addons")
  IN  IfNecessary("mtc-addons", is_driver_enabled_on_cluster("checkpointing"), next,
                  update_gke_cluster_with_addons({"checkpointing", "gcsfuse"}, next))

DriverIfNecessary(driver) ==
  LET next == After(driver)
  IN  IfNecessary(driver, is_driver_enabled_on_cluster(driver), next,
                  update_gke_cluster_with_addons({driver}, next))

update_cluster_with_gcsfuse_driver_if_necessary == DriverIfNecessary("gcsfuse")
update_cluster_with_gcpfilestore_driver_if_necessary == DriverIfNecessary("filestore")
update_cluster_with_parallelstore_driver_if_necessary ==
  DriverIfNecessary("parallelstore")
update_cluster_with_pd_driver_if_necessary == DriverIfNecessary("pd")

update_gke_cluster_with_lustre_driver_enabled ==
  GcloudPuts({"lustre"} \cup ({"legacy-port"} \cap cmd.options), "recreate-nodes")

update_cluster_with_lustre_driver_if_necessary ==
  IfNecessary("lustre",
              /\ is_driver_enabled_on_cluster("lustre")
              /\ Asked("legacy-port") => is_driver_enabled_on_cluster("legacy-port"),
              After("lustre"), update_gke_cluster_with_lustre_driver_enabled)

GcloudUpdate(step, things, next) ==
  IfNecessary(step, FALSE, next, GcloudPuts(things, next))

recreate_nodes_in_existing_node_pools ==
  GcloudUpdate("recreate-nodes", {"lustre-nodes"}, After("lustre"))

install_storage_csis ==
  \/ update_cluster_with_gcsfuse_driver_if_necessary
  \/ update_cluster_with_gcpfilestore_driver_if_necessary
  \/ update_cluster_with_parallelstore_driver_if_necessary
  \/ update_cluster_with_pd_driver_if_necessary
  \/ update_cluster_with_lustre_driver_if_necessary
  \/ recreate_nodes_in_existing_node_pools

-----------------------------------------------------------------------------
(* Node pools, created and deleted as in module NodePools.                   *)

get_gke_node_pool_version == GcloudUpdate("pool-version", {}, "pools")

run_gke_node_pool_create_command ==
  GcloudUpdate("pools", {"pools"}, After("pool-version"))

(* The quota has to exceed the minimum. *)
create_autoprovisioning_config == ~Asked("quota-too-small")

enable_autoprovisioning_on_cluster ==
  LET config == cmd.device # "cpu" /\ create_autoprovisioning_config
  IN  \/ /\ At("nap") /\ ~config /\ xpk_exit
         /\ UNCHANGED <<has, contexts, Elsewise>>
      \/ config /\ GcloudUpdate("nap", {"autoprovisioning"}, "nap-profile")
      \/ GcloudUpdate("nap-profile", {"autoscaling-profile"}, "nap-pools")
      \/ GcloudUpdate("nap-pools", {"autoscaled-pools"},
                      IF ByToolkit THEN "kueue" ELSE After("nap"))

(* The nodes are listed before the credentials are fetched, on whatever        *)
(* cluster the kubeconfig points to, and then counted only of H200.         *)
count_nodes_on_cluster ==
  LET next == IF "identity" \in WantedOf(cmd) THEN "identity" ELSE "credentials"
      counts == cmd.device = "a3ultra"
  IN  /\ At("count-nodes")
      /\ \/ /\ Context = "own" /\ UNCHANGED contexts
            /\ \/ counts /\ "pools" \in has /\ GoTo(next)
               \/ ~(counts /\ "pools" \in has) /\ xpk_exit
               \/ Breaks
         \/ Elsewhere(Context, next) /\ (counts \/ pc' = "done")
      /\ UNCHANGED <<has, Elsewise>>

-----------------------------------------------------------------------------
(* The kubeconfig.                                                         *)

\* WRONG: keeps a context that is there.
KeepsContext ==
  \/ /\ "cluster" \in has /\ lost' = FALSE /\ UNCHANGED faults
     /\ file' = [file EXCEPT ![File] = IF @ = "none" THEN "own" ELSE @]
  \/ /\ Fault \/ ("cluster" \notin has /\ UNCHANGED faults)
     /\ lost' = TRUE /\ UNCHANGED file

(* Failure is ignored by most callers: the context stays what it was.        *)
GetCredentials ==
  \/ /\ "cluster" \in has /\ file' = [file EXCEPT ![File] = "own"]
     /\ lost' = FALSE /\ UNCHANGED faults
  \/ /\ Fault \/ ("cluster" \notin has /\ UNCHANGED faults)
     /\ lost' = TRUE /\ UNCHANGED file

get_cluster_credentials ==
  /\ At("credentials")
  /\ \/ GetCredentials /\ MovesTo(After("credentials"))
     \/ Breaks /\ UNCHANGED <<file, lost>>
  /\ UNCHANGED <<has, stray, Elsewise>>

Environment(step, next) ==
  /\ At(step)
  /\ \/ /\ GetCredentials
        /\ IF file'["default"] = "none" THEN Ends("failed") ELSE MovesTo(next)
     \/ Breaks /\ UNCHANGED <<file, lost>>
  /\ UNCHANGED <<has, stray, Elsewise>>

setup_k8s_env ==
  \/ Environment("environment", "storage-crd")
  \/ Environment("mtc-environment", "mtc-bucket")

(* Any other process that sets the current context of the default kubeconfig. *)
OtherSwitches ==
  /\ Fault /\ file' = [file EXCEPT !["default"] = "other"]
  /\ lost' = (lost \/ File = "default")
  /\ UNCHANGED <<scenario, cmd, pc, rc, has, stray, Elsewise>>
=============================================================================
