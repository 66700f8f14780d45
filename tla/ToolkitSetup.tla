---------------------------- MODULE ToolkitSetup ----------------------------
(***************************************************************************)
(* Clusters made by Cluster Toolkit (commands/cluster_gcluster.py): the        *)
(* blueprint is written to the machine, staged and made a deployment there,  *)
(* deployed, and its files are uploaded to a bucket if one is given. Terraform *)
(* keeps its state in the deployment on the machine, or in the bucket.        *)
(*                                                                         *)
(* Whether a cluster is deleted by Cluster Toolkit is decided by whether its *)
(* blueprint is on the machine that deletes it.                             *)
(***************************************************************************)
EXTENDS KueueSetup

Has(what) == what \in local[cmd.machine]
With(things) == [local EXCEPT ![cmd.machine] = @ \cup things]

Writes(step, files, next) ==
  /\ At(step)
  /\ \/ local' = files /\ GoTo(next)
     \/ local' \in {local, files} /\ Breaks
  /\ UNCHANGED <<has, installed, net, access, contexts, deployment, bucket, clone>>

ToolkitAsks(step, next) ==
  /\ At(step) /\ Asks(next)
  /\ UNCHANGED <<has, installed, net, access, contexts, toolkit>>

(* The image is built, or gcluster downloaded, if it is not there. *)
prepare_gcluster_manager ==
  ToolkitAsks("toolkit", IF Asked("bucket") THEN "validate-bucket" ELSE "blueprint")

validate_state_gcs_bucket == ToolkitAsks("validate-bucket", "blueprint")

-----------------------------------------------------------------------------
(* Blueprints: what they deploy, and whether Terraform's state goes to the      *)
(* bucket. B200 is not given the bucket, nor the option for Filestore.       *)

DeployedByAll == {"cluster", "pools", "gcsfuse", "storage-crd", "config-maps"}

generate_a3_mega_blueprint ==
  [deploys |-> DeployedByAll \cup {"filestore"}, backend |-> Asked("bucket")]
generate_a3_ultra_blueprint ==
  [deploys |-> DeployedByAll \cup {"nccl"} \cup ({"filestore"} \cap cmd.options),
   backend |-> Asked("bucket")]
generate_a4_blueprint ==
  [deploys |-> DeployedByAll \cup {"nccl"}, backend |-> FALSE]

Blueprint ==
  CASE cmd.device = "a3mega" -> generate_a3_mega_blueprint
    [] cmd.device = "a3ultra" -> generate_a3_ultra_blueprint
    [] OTHER -> generate_a4_blueprint

\* WRONG: the blueprint is written after the deployment.
BlueprintLast ==
  \/ Writes("blueprint", With({"directory"}), "stage")
  \/ Writes("upload", With({"blueprint"}), "toolkit-credentials")

generate_blueprint == Writes("blueprint", With({"blueprint"}), "stage")
stage_files == Writes("stage", With({"staged"}), "gcluster-create")

-----------------------------------------------------------------------------
(* gcluster and Terraform.                                                 *)

(* A gcluster that runs natively and is interrupted returns 0. *)
run_command_with_full_controls(next) ==
  Fault /\ IF next = "done" THEN Ends("interrupted") ELSE MovesTo(next)

(* In a container, which may go on when xpk has ended. *)
run_command(done, partly, next) ==
  \/ done /\ GoTo(next)
  \/ partly /\ Breaks
  \/ partly /\ scenario.native /\ run_command_with_full_controls(next)

_run_create_deployment_cmd ==
  LET files == {"deployment"} \cup When(Blueprint.backend, {"backend"})
  IN  /\ At("gcluster-create")
      /\ run_command(
           local' = [local EXCEPT ![cmd.machine] = (@ \ {"backend"}) \cup files],
           UNCHANGED local, "gcluster-deploy")
      /\ UNCHANGED <<has, installed, net, access, contexts, deployment, bucket,
                     clone>>

Knows(machine) ==
  "terraform" \in IF "backend" \in local[machine] THEN bucket ELSE local[machine]

Learns ==
  IF Has("backend") THEN bucket' = bucket \cup {"terraform"} /\ UNCHANGED local
  ELSE local' = With({"terraform"}) /\ UNCHANGED bucket

Forgets ==
  IF Has("backend") THEN bucket' = bucket \ {"terraform"} /\ UNCHANGED local
  ELSE /\ local' = [local EXCEPT ![cmd.machine] = @ \ {"terraform"}]
       /\ UNCHANGED bucket

(* A cluster or a deployment that Terraform does not know is in its way.      *)
_run_deploy_cmd ==
  LET fresh == has = {} /\ deployment = "none"
      deploys == Has("deployment") /\ (Knows(cmd.machine) \/ fresh)
      made == has \cup Blueprint.deploys
  IN  /\ At("gcluster-deploy")
      /\ \/ ~deploys /\ xpk_exit /\ UNCHANGED <<has, jobset, toolkit>>
         \/ /\ deploys /\ Learns
            /\ run_command(/\ has' = made /\ deployment' = "whole"
                           /\ jobset' = [jobset EXCEPT !.image = "current"],
                           /\ has' \in {has, has \cup {"cluster"}, made}
                           /\ deployment' = "partial" /\ UNCHANGED jobset,
                           "upload")
      /\ UNCHANGED <<kueue, blind, net, access, contexts, clone>>

Uploads(step, thing, next) ==
  /\ At(step)
  /\ \/ bucket' = bucket \cup {thing} /\ GoTo(next)
     \/ bucket' \in {bucket, bucket \cup {thing}} /\ Breaks
  /\ UNCHANGED <<has, installed, net, access, contexts, deployment, local, clone>>

(* Single files of the directory may fail unnoticed.                        *)
upload_directory_to_gcs ==
  \/ Asked("bucket") /\ Uploads("upload", "directory", "upload-blueprint")
  \/ /\ At("upload")
     /\ IF Asked("bucket") THEN Fault /\ MovesTo("upload-blueprint")
        ELSE GoTo("toolkit-credentials")
     /\ UNCHANGED <<has, installed, net, access, contexts, toolkit>>

upload_state == Uploads("upload-blueprint", "blueprint", "toolkit-credentials")

toolkit_credentials ==
  /\ At("toolkit-credentials")
  /\ \/ /\ GetCredentials
        /\ MovesTo(IF Asked("nap") THEN "nap" ELSE "kueue")
     \/ Breaks /\ UNCHANGED <<file, lost>>
  /\ UNCHANGED <<has, stray, Elsewise>>

-----------------------------------------------------------------------------
(* Deleting.                                                               *)

(* With a cluster, what is in it goes. *)
Gone ==
  /\ has' = {} /\ kueue' = NoKueue /\ jobset' = NoJobSet
  /\ authorized' = {} /\ promised' = {} /\ overlap' = FALSE

Stays == UNCHANGED <<has, kueue, jobset, authorized, promised, overlap>>

(* The dependencies are copied from the bucket, next to where they are used;   *)
(* the blueprint is not. What is on the machine is staged again.            *)
download_state ==
  ToolkitAsks("toolkit-delete",
              IF Asked("bucket") THEN "stage-for-destroy" ELSE "destroy")

stage_for_destroy == Writes("stage-for-destroy", With({"staged"}), "destroy")

(* The blueprint stays on the machine. *)
destroy_deployment ==
  /\ At("destroy")
  /\ \/ ~Has("deployment") /\ xpk_exit /\ Stays /\ UNCHANGED toolkit
     \/ /\ Has("deployment") /\ ~Knows(cmd.machine) /\ Ends("nothing-known")
        /\ Stays /\ UNCHANGED <<toolkit, faults>>
     \/ /\ Has("deployment") /\ Knows(cmd.machine)
        /\ run_command(Gone /\ deployment' = "none" /\ Forgets,
                       /\ Gone \/ Stays
                       /\ deployment' = "partial" /\ UNCHANGED <<local, bucket>>,
                       "done")
  /\ UNCHANGED <<blind, net, list, theirs, contexts, clone>>
=============================================================================
