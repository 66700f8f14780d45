----------------------------- MODULE KueueSetup -----------------------------
(***************************************************************************)
(* The installation of JobSet (core/cluster.py, core/jobset.py) and of Kueue  *)
(* (core/kueue_manager.py): what is there is asked for, left alone if it is   *)
(* custom, newer or managed by others, upgraded if it is older, and, for      *)
(* versions before the last breaking one, deleted with all its objects first. *)
(***************************************************************************)
EXTENDS ClusterObjects

Frame == <<net, access, toolkit>>

(* A question to the cluster: `next` follows from what is there. One that is   *)
(* not answered leads to `otherwise`, another cluster may answer anything.    *)
Question(step, next, otherwise, answers) ==
  /\ At(step)
  /\ \/ Context = "own" /\ GoTo(next) /\ UNCHANGED <<contexts, blind>>
     \/ Context = "own" /\ Breaks /\ UNCHANGED <<contexts, blind>>
     \/ /\ Context = "own" /\ Fault /\ MovesTo(otherwise)
        /\ blind' = blind \cup {pc} /\ UNCHANGED contexts
     \/ Context = "none" /\ GoTo(otherwise) /\ UNCHANGED <<contexts, blind>>
     \/ /\ Context = "other" /\ stray' = stray \cup {pc}
        /\ \E s \in answers \cup {otherwise} : GoTo(s)
        /\ UNCHANGED <<file, lost, blind>>
  /\ UNCHANGED <<has, kueue, jobset, Frame>>

-----------------------------------------------------------------------------
(* JobSet.                                                                 *)

_should_install_jobset ==
  Question("jobset",
           CASE jobset.image = "none" -> "install-jobset"
             [] jobset.image = "older" -> "jobset-external"
             [] OTHER -> "patch-jobset",
           "install-jobset", {"patch-jobset"})

jobset_managed_externally ==
  Question("jobset-external",
           IF jobset.external THEN "patch-jobset" ELSE "install-jobset",
           "install-jobset", {"patch-jobset"})

AppliesJobSet(step, removed, next) ==
  /\ At(step)
  /\ \/ /\ Context = "own" /\ UNCHANGED contexts
        /\ \/ /\ GoTo(next) /\ jobset' = [jobset EXCEPT !.image = "current"]
              /\ has' = has \ removed
           \/ /\ Breaks /\ UNCHANGED has
              /\ jobset' \in {jobset, [jobset EXCEPT !.image = "current"]}
     \/ Elsewhere(Context, next) /\ UNCHANGED <<has, jobset>>
  /\ UNCHANGED <<kueue, blind, Frame>>

patch_controller_manager_resources(step, things, next) ==
  Kubectl(step, things, next)

set_jobset_on_cluster ==
  \/ AppliesJobSet("install-jobset", {}, "patch-jobset")
  \/ IF Asked("super-slicing")
     THEN patch_controller_manager_resources("patch-jobset", {"large-jobset"},
                                             After("jobset"))
     ELSE /\ At("patch-jobset") /\ GoTo(After("jobset"))
          /\ UNCHANGED <<has, contexts, Elsewise>>

(* Applied whatever is there, with the memory its own number of nodes needs.  *)
update_jobset_resources_if_necessary ==
  AppliesJobSet("jobset-resources", {"large-jobset"}, After("jobset-resources"))

-----------------------------------------------------------------------------
(* Kueue.                                                                  *)

Consents == Asked("quiet") \/ Asked("agrees")

get_installed_kueue_version ==
  Question("kueue",
           CASE kueue.image = "none" -> "install-kueue"
             [] kueue.image \in {"breaking", "older"} -> "kueue-external"
             [] OTHER -> "configure-kueue",
           "install-kueue", {"configure-kueue"})

\* WRONG: upgrades what others manage.
UpgradesAny ==
  Question("kueue-external",
           IF kueue.image = "older" THEN "install-kueue" ELSE "prepare-upgrade",
           IF kueue.image = "older" THEN "install-kueue" ELSE "prepare-upgrade",
           {"configure-kueue"})

kueue_managed_externally ==
  LET upgrade == IF kueue.image = "older" THEN "install-kueue"
                 ELSE "prepare-upgrade"
  IN  Question("kueue-external",
               IF kueue.external THEN "configure-kueue" ELSE upgrade,
               upgrade, {"configure-kueue"})

prepare_for_upgrade ==
  /\ At("prepare-upgrade")
  /\ IF Consents THEN GoTo("delete-kueue-objects") ELSE xpk_exit
  /\ UNCHANGED <<has, contexts, Elsewise>>

Changes(step, after, partly, next) ==
  /\ At(step)
  /\ \/ /\ Context = "own" /\ UNCHANGED contexts
        /\ \/ kueue' = after /\ GoTo(next)
           \/ kueue' \in {kueue, after} \cup partly /\ Breaks
     \/ Elsewhere(Context, next) /\ UNCHANGED kueue
  /\ UNCHANGED <<has, jobset, blind, Frame>>

Cannot(step) ==
  /\ At(step) /\ Context = "own" /\ xpk_exit
  /\ UNCHANGED <<has, contexts, Elsewise>>

(* Without CRDs, grep finds none and fails. *)
delete_all_kueue_resources ==
  \/ kueue.crds = "none" /\ Cannot("delete-kueue-objects")
  \/ /\ Context # "own" \/ kueue.crds # "none"
     /\ Changes("delete-kueue-objects", [kueue EXCEPT !.objects = "none"], {},
                "delete-kueue-crds")
  \/ Changes("delete-kueue-crds", [kueue EXCEPT !.crds = "none"],
             {[kueue EXCEPT !.crds = "some"]}, "delete-kueue-deployment")
  \/ Changes("delete-kueue-deployment",
             [kueue EXCEPT !.image = "none", !.external = FALSE], {},
             "install-kueue")

__install_kueue_crs ==
  Changes("install-kueue", [kueue EXCEPT !.image = "current", !.crds = "all"], {},
          IF ByToolkit THEN "patch-tolerations" ELSE "wait-for-kueue")

__patch_tolerations ==
  Changes("patch-tolerations", [kueue EXCEPT !.tolerant = TRUE], {}, "wait-for-kueue")

__wait_for_kueue_available ==
  Changes("wait-for-kueue", kueue, {}, "configure-kueue")

Quota == IF Asked("nap") THEN "nap" ELSE "fixed"

configure_kueue ==
  \/ kueue.crds # "all" /\ Cannot("configure-kueue")
  \/ /\ Context # "own" \/ kueue.crds = "all"
     /\ Changes("configure-kueue", [kueue EXCEPT !.objects = Quota], {},
                "kueue-resources")

__update_kueue_resources_if_necessary ==
  patch_controller_manager_resources("kueue-resources", {},
                                     IF ByToolkit THEN "done" ELSE After("kueue"))
=============================================================================
