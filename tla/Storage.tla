------------------------------- MODULE Storage -------------------------------
(***************************************************************************)
(* `xpk storage create | attach | detach | delete` (commands/storage.py) on *)
(* one cluster, one command after the other.  A storage is a Storage        *)
(* object, a persistent volume, a claim and, for Filestore, a storage class;*)
(* volumes of one Filestore instance may be attached under several names.   *)
(* A command that fails or is killed stops where it is.  Meanwhile pods     *)
(* mount claims and Kubernetes finishes deletions in its own time.          *)
(*                                                                         *)
(*   pc        code                                                        *)
(*   check     check_instance_exists of create and attach                  *)
(*   instance  create_instance                                             *)
(*   object    create_storage_crds                                         *)
(*   driver    enable_csi_drivers_if_necessary                             *)
(*   apply..   apply_kubectl_manifest                                      *)
(*   get       get_storage of detach                                       *)
(*   list      list_storages and check_instance_exists of delete           *)
(*   consent   ask_for_user_consent of delete                              *)
(*   pvc, pv, sc, crd, finalizers      delete_storage_resources            *)
(*   destroy   delete_filestore_instance                                   *)
(***************************************************************************)
EXTENDS Naturals

CONSTANTS
  Names,       \* of storages
  Instances,   \* Filestore instances, by name
  Extending,   \* pairs <<i, j>>: the name j begins with the name i
  Bucket,      \* any volume that is not on a Filestore instance
  Commands,    \* the command lines users try
  Absent,
  MaxFaults,   \* bound: failing calls and crashes
  FlakyReads   \* reading a volume may fail in a run that goes on

Filestore == "gcpfilestore"
Types == {Filestore, "gcsfuse"}
Volumes == Instances \cup {Bucket}

(* A volume is bound by its claim, once: when the claim has gone it is       *)
(* "released", and no claim of the same name can bind it any more.  Deleted, *)
(* it waits while it is bound ("dying"), then for the controller ("leaving"). *)
PvStates == {"available", "bound", "released", "dying", "leaving"}
PersistentVolume == [volume : Volumes, state : PvStates]

(* `name` is what create, attach and detach are about; `volume` the instance *)
(* of create, attach and delete, or the bucket.                            *)
CommandLines ==
  [cmd : {"create", "attach", "detach", "delete"}, name : Names,
   type : Types, volume : Volumes]

Attaching == {"create", "attach"}

ASSUME StorageAssumption ==
  /\ Extending \subseteq Instances \X Instances
  /\ Bucket \notin Instances
  /\ Commands \subseteq CommandLines
  /\ \A c \in Commands :
       /\ c.cmd = "create" => c.type = Filestore
       /\ c.cmd \in Attaching => (c.type = Filestore <=> c.volume # Bucket)
       /\ c.cmd = "delete" => c.volume # Bucket
  /\ Absent \notin Types /\ Absent \notin PersistentVolume
  /\ MaxFaults \in Nat /\ FlakyReads \in BOOLEAN

VARIABLES
  instances,  \* Filestore instances that exist
  stored,     \* the type in each Storage object
  pv,         \* persistent volumes
  pvc,        \* their claims
  sc,         \* names with a storage class
  drivers,    \* types whose CSI driver is enabled
  mounted,    \* names whose claim a pod uses
  pc, args,   \* where the current command is, and its arguments
  victim,     \* the storage whose resources are being deleted
  victims,    \* children that come after it
  consent,    \* the user was asked and agreed
  held,       \* history: volumes of its instance when delete looked for them
  faults

objects == <<stored, pv, pvc, sc>>
local == <<args, victim, victims, consent, held>>
vars == <<instances, stored, pv, pvc, sc, drivers, mounted, pc, args, victim,
          victims, consent, held, faults>>

PvcStates == {"live", "dying", "absent"}

Stopped == {"idle", "ok", "failed"}
Applying == {"apply_pv", "apply_pvc", "apply_sc"}
Running == {"check", "instance", "object", "driver", "get", "list", "consent",
            "pvc", "pv", "sc", "crd", "finalizers", "destroy"} \cup Applying

PvIs(n, state) == pv[n] # Absent /\ pv[n].state = state
Live(n) == pv[n] # Absent /\ pv[n].state \in {"available", "bound", "released"}
LiveOn(i) == {n \in Names : Live(n) /\ pv[n].volume = i}

(* Only Kubernetes knows of such a volume: it is being deleted, and its       *)
(* Storage object is gone.                                                 *)
Forgotten(n) == ~ Live(n) /\ stored[n] = Absent

Goto(label) == pc' = label
Fault == faults > 0 /\ faults' = faults - 1
-----------------------------------------------------------------------------
(* A definition whose comment starts with WRONG is a plausible mistake in   *)
(* the one after it; no specification uses it.                             *)

FirstStep(c) ==
  CASE c.cmd \in Attaching /\ c.type = Filestore -> "check"
    [] c.cmd \in Attaching /\ c.type # Filestore -> "object"
    [] c.cmd = "detach" -> "get"
    [] c.cmd = "delete" -> "list"

Start ==
  /\ pc \in Stopped
  /\ \E c \in Commands : args' = c /\ Goto(FirstStep(c))
  /\ victim' = args'.name /\ victims' = {} /\ consent' = FALSE
  /\ held' = {}
  /\ UNCHANGED <<instances, objects, drivers, mounted, faults>>

(* create wants no instance of that name, attach wants one.                 *)
CheckInstance ==
  /\ pc = "check"
  /\ IF args.cmd = "create"
       THEN Goto(IF args.volume \in instances THEN "failed" ELSE "instance")
       ELSE Goto(IF args.volume \in instances THEN "object" ELSE "failed")
  /\ UNCHANGED <<instances, objects, drivers, mounted, local, faults>>

(* WRONG: the instance gets the name of the storage.                        *)
InstanceNamedAfterStorage ==
  /\ pc = "instance"
  /\ instances' = instances \cup {args.name}
  /\ Goto("object")
  /\ UNCHANGED <<objects, drivers, mounted, local, faults>>

CreateInstance ==
  /\ pc = "instance"
  /\ instances' = instances \cup {args.volume}
  /\ Goto("object")
  /\ UNCHANGED <<objects, drivers, mounted, local, faults>>

(* WRONG: a Storage object that exists is an error.                         *)
CreateNewObject ==
  /\ pc = "object"
  /\ IF stored[args.name] = Absent
       THEN stored' = [stored EXCEPT ![args.name] = args.type] /\ Goto("driver")
       ELSE stored' = stored /\ Goto("failed")
  /\ UNCHANGED <<instances, pv, pvc, sc, drivers, mounted, local, faults>>

(* 409: "already exists. Skipping its creation".                            *)
CreateObject ==
  /\ pc = "object"
  /\ stored' = [stored EXCEPT ![args.name] = IF @ = Absent THEN args.type ELSE @]
  /\ Goto("driver")
  /\ UNCHANGED <<instances, pv, pvc, sc, drivers, mounted, local, faults>>

EnableDriver ==
  /\ pc = "driver"
  /\ drivers' = drivers \cup {args.type}
  /\ Goto("apply_pv")
  /\ UNCHANGED <<instances, objects, mounted, local, faults>>

(* What exists is patched: to no effect if the manifest is the same, and    *)
(* with an error that is only printed if it is not, for the fields that     *)
(* matter are immutable.                                                   *)
ApplyPv ==
  /\ pc = "apply_pv"
  /\ pv' = [pv EXCEPT ![args.name] =
              IF @ = Absent THEN [volume |-> args.volume, state |-> "available"]
                            ELSE @]
  /\ Goto("apply_pvc")
  /\ UNCHANGED <<instances, stored, pvc, sc, drivers, mounted, local, faults>>

AfterPvc == IF args.type = Filestore THEN "apply_sc" ELSE "ok"

ApplyPvc ==
  /\ pc = "apply_pvc"
  /\ pvc' = [pvc EXCEPT ![args.name] = IF @ = "absent" THEN "live" ELSE @]
  /\ Goto(AfterPvc)
  /\ UNCHANGED <<instances, stored, pv, sc, drivers, mounted, local, faults>>

ApplySc ==
  /\ pc = "apply_sc"
  /\ sc' = sc \cup {args.name}
  /\ Goto("ok")
  /\ UNCHANGED <<instances, stored, pv, pvc, drivers, mounted, local, faults>>

(* A failing get or patch is printed, and the status code is dropped.       *)
ApplySkipped ==
  /\ pc \in Applying
  /\ Fault
  /\ Goto(CASE pc = "apply_pv" -> "apply_pvc"
            [] pc = "apply_pvc" -> AfterPvc
            [] OTHER -> "ok")
  /\ UNCHANGED <<instances, objects, drivers, mounted, local>>
-----------------------------------------------------------------------------
(* detach and delete.                                                      *)

GetStorage ==
  /\ pc = "get"
  /\ Goto(IF stored[args.name] = Absent THEN "failed" ELSE "pvc")
  /\ UNCHANGED <<instances, objects, drivers, mounted, local, faults>>

(* storage.bucket.startswith(filestore_instance_name); the bucket of a       *)
(* Storage without a volume is "".                                         *)
Children(i) ==
  {n \in Names : /\ stored[n] # Absent /\ pv[n] # Absent
                 /\ pv[n].volume = i \/ <<i, pv[n].volume>> \in Extending}

(* WRONG: only one of the children is deleted.                              *)
OneVictim(left) ==
  \E n \in left : victim' = n /\ victims' = {}

NextVictim(left) ==
  \E n \in left : victim' = n /\ victims' = left \ {n}

ListStorages ==
  /\ pc = "list"
  /\ \/ victims' = Children(args.volume) /\ UNCHANGED faults
     \/ FlakyReads /\ Fault /\ victims' \in SUBSET Children(args.volume)
  /\ Goto(IF args.volume \notin instances THEN "failed"
          ELSE IF victims' = {} THEN "destroy" ELSE "consent")
  /\ held' = {n \in Names : /\ pv[n] # Absent /\ pv[n].volume = args.volume
                            /\ ~ Forgotten(n)}
  /\ UNCHANGED <<instances, objects, drivers, mounted, args, victim, consent>>

(* WRONG: whatever the answer is, the resources are deleted.                *)
AnyAnswer ==
  /\ pc = "consent"
  /\ consent' \in BOOLEAN
  /\ NextVictim(victims) /\ Goto("pvc")
  /\ UNCHANGED <<instances, objects, drivers, mounted, args, held, faults>>

Agree ==
  /\ pc = "consent"
  /\ consent' = TRUE
  /\ NextVictim(victims) /\ Goto("pvc")
  /\ UNCHANGED <<instances, objects, drivers, mounted, args, held, faults>>

(* "Deleting storage canceled." is exit 0.                                  *)
Refuse ==
  /\ pc = "consent"
  /\ Goto("ok")
  /\ UNCHANGED <<instances, objects, drivers, mounted, local, faults>>

DeletePvc ==
  /\ pc = "pvc"
  /\ pvc' = [pvc EXCEPT ![victim] = IF @ = "live" THEN "dying" ELSE @]
  /\ Goto("pv")
  /\ UNCHANGED <<instances, stored, pv, sc, drivers, mounted, local, faults>>

(* WRONG: the volume is kept while its claim is still there.                *)
DeletePvIfFree ==
  /\ pc = "pv"
  /\ pv' = IF Live(victim) /\ pvc[victim] = "absent"
             THEN [pv EXCEPT ![victim].state = "leaving"] ELSE pv
  /\ Goto(IF stored[victim] = Filestore THEN "sc" ELSE "crd")
  /\ UNCHANGED <<instances, stored, pvc, sc, drivers, mounted, local, faults>>

DeletePv ==
  /\ pc = "pv"
  /\ pv' = IF Live(victim)
             THEN [pv EXCEPT ![victim].state =
                     IF @ = "bound" THEN "dying" ELSE "leaving"]
             ELSE pv
  /\ Goto(IF stored[victim] = Filestore THEN "sc" ELSE "crd")
  /\ UNCHANGED <<instances, stored, pvc, sc, drivers, mounted, local, faults>>

DeleteSc ==
  /\ pc = "sc"
  /\ sc' = sc \ {victim}
  /\ Goto("crd")
  /\ UNCHANGED <<instances, stored, pv, pvc, drivers, mounted, local, faults>>

DeleteObject ==
  /\ pc = "crd"
  /\ stored' = [stored EXCEPT ![victim] = Absent]
  /\ Goto("finalizers")
  /\ UNCHANGED <<instances, pv, pvc, sc, drivers, mounted, local, faults>>

(* Without its claim, a volume that is being deleted is free to go, and one   *)
(* that is not is retained, with a reference to the claim that is gone.     *)
ClaimGone(n) ==
  /\ pvc' = [pvc EXCEPT ![n] = "absent"]
  /\ pv' = IF PvIs(n, "dying") THEN [pv EXCEPT ![n].state = "leaving"]
           ELSE IF PvIs(n, "bound") THEN [pv EXCEPT ![n].state = "released"]
           ELSE pv

(* The claim goes although pods use it.                                     *)
RemoveFinalizers ==
  /\ pc = "finalizers"
  /\ IF pvc[victim] = "dying" THEN ClaimGone(victim) ELSE UNCHANGED <<pv, pvc>>
  /\ IF victims # {} THEN NextVictim(victims) /\ Goto("pvc")
     ELSE /\ Goto(IF args.cmd = "delete" THEN "destroy" ELSE "ok")
          /\ UNCHANGED <<victim, victims>>
  /\ UNCHANGED <<instances, stored, sc, drivers, mounted, args, consent, held,
                 faults>>

Destroy ==
  /\ pc = "destroy"
  /\ instances' = instances \ {args.volume}
  /\ Goto("ok")
  /\ UNCHANGED <<objects, drivers, mounted, local, faults>>

(* A call fails or xpk is killed; a call that failed for the client may have *)
(* had its effect, which is the step followed by this one.                 *)
Abort ==
  /\ pc \in Running
  /\ Fault
  /\ Goto("failed")
  /\ UNCHANGED <<instances, objects, drivers, mounted, local>>
-----------------------------------------------------------------------------
(* Pods and controllers.                                                   *)

Bind(n) ==
  /\ PvIs(n, "available") /\ pvc[n] = "live"
  /\ pv' = [pv EXCEPT ![n].state = "bound"]
  /\ UNCHANGED <<instances, stored, pvc, sc, drivers, mounted, pc, local,
                 faults>>

(* A workload mounts what get_storages_to_mount returns.                    *)
PodStarts(n) ==
  /\ n \notin mounted /\ stored[n] # Absent /\ PvIs(n, "bound") /\ pvc[n] = "live"
  /\ mounted' = mounted \cup {n}
  /\ UNCHANGED <<instances, objects, drivers, pc, local, faults>>

PodEnds(n) ==
  /\ n \in mounted
  /\ mounted' = mounted \ {n}
  /\ UNCHANGED <<instances, objects, drivers, pc, local, faults>>

PvcGone(n) ==
  /\ pvc[n] = "dying" /\ n \notin mounted
  /\ ClaimGone(n)
  /\ UNCHANGED <<instances, stored, sc, drivers, mounted, pc, local, faults>>

PvGone(n) ==
  /\ PvIs(n, "leaving")
  /\ pv' = [pv EXCEPT ![n] = Absent]
  /\ UNCHANGED <<instances, stored, pvc, sc, drivers, mounted, pc, local,
                 faults>>

Init ==
  /\ instances \in SUBSET Instances
  /\ stored = [n \in Names |-> Absent] /\ pv = [n \in Names |-> Absent]
  /\ pvc = [n \in Names |-> "absent"] /\ sc = {} /\ drivers = {}
  /\ mounted = {}
  /\ pc = "idle" /\ args \in Commands
  /\ victim = args.name /\ victims = {} /\ consent = FALSE /\ held = {}
  /\ faults = MaxFaults

RunStep ==
  \/ CheckInstance \/ CreateInstance \/ CreateObject \/ EnableDriver
  \/ ApplyPv \/ ApplyPvc \/ ApplySc
  \/ GetStorage \/ ListStorages \/ Agree \/ Refuse
  \/ DeletePvc \/ DeletePv \/ DeleteSc \/ DeleteObject \/ RemoveFinalizers
  \/ Destroy

Controllers(n) == Bind(n) \/ PvcGone(n) \/ PvGone(n) \/ PodEnds(n)

Next ==
  \/ Start \/ RunStep \/ ApplySkipped \/ Abort
  \/ \E n \in Names : PodStarts(n) \/ Controllers(n)

Spec == Init /\ [][Next]_vars

(* Commands go on, users go on, claims are bound, deletions end and so do     *)
(* pods.                                                                   *)
FairSpec ==
  /\ Spec
  /\ WF_vars(RunStep) /\ WF_vars(Start)
  /\ \A n \in Names : /\ WF_vars(Bind(n)) /\ WF_vars(PvcGone(n))
                      /\ WF_vars(PvGone(n)) /\ WF_vars(PodEnds(n))
-----------------------------------------------------------------------------
TypeOK ==
  /\ instances \subseteq Instances
  /\ stored \in [Names -> Types \cup {Absent}]
  /\ pv \in [Names -> PersistentVolume \cup {Absent}]
  /\ pvc \in [Names -> PvcStates]
  /\ sc \subseteq Names /\ drivers \subseteq Types /\ mounted \subseteq Names
  /\ pc \in Stopped \cup Running
  /\ args \in Commands
  /\ victim \in Names /\ victims \subseteq Names
  /\ consent \in BOOLEAN /\ held \subseteq Names
  /\ faults \in 0 .. MaxFaults

(* No volume points to an instance that is gone: whatever was interrupted,   *)
(* delete finds the volumes of its instance by way of their Storage objects *)
(* and deletes them first.                                                 *)
VolumesHaveInstances ==
  \A n \in Names : Live(n) /\ pv[n].volume # Bucket => pv[n].volume \in instances

(* An instance with volumes is destroyed only after the user agreed, also    *)
(* by retries of a delete or a detach that were interrupted, and also if all *)
(* of its volumes are being deleted.  Volumes that are Forgotten do not      *)
(* count, though pods may still use them: what a detach or delete leaves     *)
(* that ended, in whatever way, after it had removed the Storage object.     *)
(* A later delete finds no child, and destroys the instance unasked.        *)
AskedBeforeDestroyed ==
  [][instances \ instances' # {} /\ held # {} => consent]_vars

(* detach that returns 0 leaves neither Storage object, volume nor claim,   *)
(* whatever attempts, types and instances the name has seen before.         *)
DetachLeavesNothing ==
  pc = "ok" /\ args.cmd = "detach" =>
    /\ stored[args.name] = Absent
    /\ ~ Live(args.name)
    /\ pvc[args.name] = "absent"

(* A storage that can be used: a workload that mounts it finds its volume.  *)
Usable(n, type) ==
  /\ stored[n] # Absent /\ PvIs(n, "bound") /\ pvc[n] = "live"
  /\ type \in drivers
  /\ type = Filestore => n \in sc

(* attach repairs: repeated for an instance that exists, it makes the        *)
(* storage usable in the end, whatever an interrupted create, attach or     *)
(* detach has left, dying volumes and claims included.  The one exception is *)
(* a detach or delete interrupted between claim and volume: a volume that    *)
(* lost its claim is found, patched and never bound again.                 *)
AttachRepairs ==
  \A c \in Commands :
    c.cmd = "attach" =>
      (<>[](args = c /\ (c.type = Filestore => c.volume \in instances))
         => <>[]Usable(c.name, c.type) \/ <>[]PvIs(c.name, "released"))

(* "Deleting a filestore storage will destroy your filestore instance and    *)
(* all its data": detach deletes the volume of its storage, delete those of  *)
(* its instance, and no command any other.                                 *)
DeletesOwnVolumes ==
  [][\A n \in Names :
       Live(n) /\ ~ Live(n)' =>
         \/ args.cmd = "detach" /\ args.name = n
         \/ args.cmd = "delete" /\ args.volume = pv[n].volume]_vars
=============================================================================
