--------------------------- MODULE StorageProofs ---------------------------
(***************************************************************************)
(* Proofs about Storage for any storages, instances, names of instances,    *)
(* command lines and number of faults.                                     *)
(***************************************************************************)
EXTENDS Storage, TLAPS

(* Volumes that are read when they are listed.                              *)
Readable == ~ FlakyReads

Deleting == {"pvc", "pv", "sc", "crd", "finalizers"}
Deleted == {"sc", "crd", "finalizers"}

(* A volume is found by way of its Storage object, which is made first and   *)
(* deleted last.                                                           *)
ObjectInv ==
  /\ \A n \in Names : Live(n) => stored[n] # Absent
  /\ pc \in {"driver"} \cup Applying => stored[args.name] # Absent
  /\ pc \in Deleted => ~ Live(victim)

(* A volume is applied only for an instance that exists.                    *)
TargetInv ==
  pc \in {"object", "driver"} \cup Applying =>
    args.volume \in instances \/ args.volume = Bucket

(* Where delete is, and the volumes it still has to delete.                 *)
VictimInv ==
  /\ pc = "consent" => LiveOn(args.volume) \subseteq victims
  /\ pc \in {"pvc", "pv"} /\ args.cmd = "delete" =>
       LiveOn(args.volume) \subseteq victims \cup {victim}
  /\ pc \in Deleted /\ args.cmd = "delete" => LiveOn(args.volume) \subseteq victims
  /\ pc = "destroy" => LiveOn(args.volume) = {}

(* Which commands take which steps.                                        *)
PhaseInv ==
  /\ pc \in {"check", "instance", "object", "driver"} \cup Applying =>
       args.cmd \in Attaching
  /\ pc \in {"list", "consent", "destroy"} => args.cmd = "delete"
  /\ pc = "get" => args.cmd = "detach" /\ victim = args.name /\ victims = {}
  /\ pc \in Deleting => args.cmd \in {"detach", "delete"}

(* What detach has deleted so far.                                         *)
DetachInv ==
  /\ pc \in Deleting /\ args.cmd = "detach" =>
       victim = args.name /\ victims = {}
  /\ pc \in Deleting \ {"pvc"} => pvc[victim] # "live"
  /\ pc = "finalizers" => stored[victim] = Absent

(* What the user was asked.                                                *)
ConsentInv ==
  /\ pc \in Deleting /\ args.cmd = "delete" => consent
  /\ pc = "destroy" /\ held # {} => consent

StorageInv ==
  /\ ObjectInv /\ TargetInv /\ VictimInv /\ PhaseInv /\ DetachInv
  /\ ConsentInv /\ VolumesHaveInstances /\ DetachLeavesNothing

(* What the command lines of StorageAssumption have in common.               *)
LEMMA CommandFacts ==
  ASSUME NEW c \in Commands
  PROVE  /\ c.cmd \in {"create", "attach", "detach", "delete"}
         /\ c.name \in Names /\ c.type \in Types /\ c.volume \in Volumes
         /\ c.cmd = "create" => c.type = Filestore
         /\ c.cmd \in Attaching => (c.type = Filestore <=> c.volume # Bucket)
         /\ c.cmd = "delete" => c.volume # Bucket
BY StorageAssumption DEF CommandLines

(* Only a Filestore command asks for an instance.                           *)
TypeInv ==
  /\ TypeOK
  /\ pc \in {"check", "instance"} => args.volume \in Instances

(* TypeInv holds at first.                                                   *)
LEMMA TypeInit == Init => TypeInv
<1> SUFFICES ASSUME Init PROVE TypeInv
  OBVIOUS
<1>1. args.name \in Names
  BY CommandFacts DEF Init
<1>2. args \in Commands /\ victim = args.name /\ faults = MaxFaults /\ pc = "idle"
  BY DEF Init
<1>3. /\ instances \subseteq Instances
      /\ stored \in [Names -> Types \cup {Absent}]
      /\ pv \in [Names -> PersistentVolume \cup {Absent}]
      /\ pvc \in [Names -> PvcStates]
  BY DEF Init, PvcStates
<1>4. /\ sc \subseteq Names /\ drivers \subseteq Types /\ mounted \subseteq Names
      /\ victims \subseteq Names /\ consent \in BOOLEAN /\ held \subseteq Names
  BY DEF Init
<1>5. faults \in 0 .. MaxFaults
  BY <1>2, StorageAssumption
<1> QED BY <1>1, <1>2, <1>3, <1>4, <1>5 DEF TypeInv, TypeOK, Stopped

(* Every step keeps TypeInv.                                                 *)
LEMMA TypeNext == TypeInv /\ [Next]_vars => TypeInv'
<1> SUFFICES ASSUME TypeInv, [Next]_vars PROVE TypeInv'
  OBVIOUS
<1>c. /\ args.name \in Names /\ args.type \in Types /\ args.volume \in Volumes
      /\ args.cmd = "create" => args.type = Filestore
      /\ args.cmd \in Attaching => (args.type = Filestore <=> args.volume # Bucket)
  BY CommandFacts DEF TypeInv, TypeOK
<1> USE DEF TypeInv, TypeOK, Goto, Stopped, Running, Applying, objects, local, PvStates,
        PvcStates, PersistentVolume
<1>1. ASSUME UNCHANGED vars PROVE TypeInv'
  BY <1>1 DEF vars
<1>2. ASSUME Start PROVE TypeInv'
  <2>1. PICK c \in Commands : args' = c /\ pc' = FirstStep(c)
    BY <1>2 DEF Start
  <2>2. args' \in Commands /\ args'.name \in Names
    BY <2>1, CommandFacts
  <2>3. pc' \in {"check", "object", "get", "list"}
    BY <2>1, CommandFacts DEF FirstStep, Attaching
  <2>4. pc' = "check" => c.cmd \in Attaching /\ c.type = Filestore
    BY <2>1, CommandFacts DEF FirstStep, Attaching
  <2>5. pc' = "check" => args'.volume \in Instances
    BY <2>1, <2>4, CommandFacts DEF Volumes
  <2> QED BY <1>2, <2>2, <2>3, <2>5 DEF Start
<1>3. ASSUME CheckInstance \/ EnableDriver \/ ApplySc \/ GetStorage \/ Refuse
             \/ Destroy
      PROVE  TypeInv'
  BY <1>3, <1>c
  DEF CheckInstance, EnableDriver, ApplySc, GetStorage, Refuse, Destroy
<1>4. ASSUME CreateObject \/ ApplyPvc PROVE TypeInv'
  BY <1>4, <1>c DEF CreateObject, ApplyPvc, AfterPvc
<1>5. ASSUME ApplyPv PROVE TypeInv'
  BY <1>5, <1>c DEF ApplyPv
<1>6. ASSUME ListStorages PROVE TypeInv'
  <2>1. victims' \subseteq Names
    BY <1>6 DEF ListStorages, Children
  <2>2. faults' \in 0 .. MaxFaults
    BY <1>6, StorageAssumption DEF ListStorages, Fault
  <2>3. held' \subseteq Names
    BY <1>6 DEF ListStorages
  <2> QED BY <1>6, <2>1, <2>2, <2>3 DEF ListStorages
<1>7. ASSUME Agree PROVE TypeInv'
  BY <1>7 DEF Agree, NextVictim
<1>8. ASSUME DeletePvc \/ DeletePv \/ DeleteSc \/ DeleteObject PROVE TypeInv'
  BY <1>8 DEF DeletePvc, DeletePv, DeleteSc, DeleteObject, Live
<1>9. ASSUME NEW n \in Names, ClaimGone(n)
      PROVE  /\ pvc' \in [Names -> PvcStates]
             /\ pv' \in [Names -> PersistentVolume \cup {Absent}]
  BY <1>9 DEF ClaimGone, PvIs
<1>10. ASSUME RemoveFinalizers PROVE TypeInv'
  <2>1. /\ pvc' \in [Names -> PvcStates]
        /\ pv' \in [Names -> PersistentVolume \cup {Absent}]
    BY <1>9, <1>10 DEF RemoveFinalizers
  <2> QED BY <1>10, <2>1 DEF RemoveFinalizers, NextVictim
<1>11. ASSUME ApplySkipped \/ Abort PROVE TypeInv'
  BY <1>11, StorageAssumption DEF ApplySkipped, Abort, Fault, AfterPvc
<1>12. ASSUME NEW n \in Names, PodStarts(n) \/ PodEnds(n) \/ PvGone(n) \/ Bind(n)
       PROVE  TypeInv'
  BY <1>12 DEF PodStarts, PodEnds, PvGone, Bind, PvIs
<1>13. ASSUME NEW n \in Names, PvcGone(n) PROVE TypeInv'
  BY <1>9, <1>13 DEF PvcGone
<1>14. ASSUME CreateInstance PROVE TypeInv'
  BY <1>14, <1>c DEF CreateInstance
<1> QED
  BY <1>1, <1>2, <1>3, <1>4, <1>5, <1>6, <1>7, <1>8, <1>10, <1>11, <1>12, <1>13,
     <1>14
  DEF Next, RunStep, Controllers

(* A volume whose state changes stays a volume, and stays on its instance.   *)
LEMMA VolumeFacts ==
  ASSUME TypeOK, NEW n \in Names, pv[n] # Absent, NEW state \in PvStates
  PROVE  /\ [pv[n] EXCEPT !.state = state] # Absent
         /\ [pv[n] EXCEPT !.state = state].volume = pv[n].volume
         /\ [pv[n] EXCEPT !.state = state].state = state
<1>1. pv[n] \in PersistentVolume
  BY DEF TypeOK
<1> QED BY <1>1, StorageAssumption DEF PersistentVolume

(* Nothing but a new volume and the deletion of one matters to the rest.    *)
LEMMA SameVolumes ==
  ASSUME pv' = pv
  PROVE  /\ \A n : Live(n)' <=> Live(n)
         /\ \A i : LiveOn(i)' = LiveOn(i)
BY DEF Live, LiveOn

(* A claim that goes takes no volume with it that was not deleted.          *)
LEMMA ClaimGoneFacts ==
  ASSUME TypeOK, NEW n \in Names, ClaimGone(n)
  PROVE  /\ \A m \in Names : (Live(m)' <=> Live(m))
                             /\ (Live(m) => pv'[m].volume = pv[m].volume)
         /\ \A i : LiveOn(i)' = LiveOn(i)
         /\ \A m \in Names : pvc'[m] = IF m = n THEN "absent" ELSE pvc[m]
<1>1. ASSUME NEW m \in Names
      PROVE  /\ Live(m)' <=> Live(m)
             /\ Live(m) => pv'[m].volume = pv[m].volume
  <2>1. CASE pv'[m] = pv[m]
    BY <2>1 DEF Live
  <2>2. CASE PvIs(n, "dying") /\ pv'[m] = [pv[m] EXCEPT !.state = "leaving"] /\ m = n
    BY <2>2, VolumeFacts DEF Live, PvIs, PvStates
  <2>3. CASE PvIs(n, "bound") /\ pv'[m] = [pv[m] EXCEPT !.state = "released"] /\ m = n
    BY <2>3, VolumeFacts DEF Live, PvIs, PvStates
  <2> QED BY <2>1, <2>2, <2>3 DEF ClaimGone, TypeOK
<1>2. \A i : LiveOn(i)' = LiveOn(i)
  BY <1>1 DEF LiveOn
<1>3. \A m \in Names : pvc'[m] = IF m = n THEN "absent" ELSE pvc[m]
  BY DEF ClaimGone, TypeOK
<1> QED BY <1>1, <1>2, <1>3

(* A volume that goes, or is bound, leaves all live volumes where they were.  *)
LEMMA PvGoneFacts ==
  ASSUME TypeOK, NEW n \in Names, PvGone(n) \/ Bind(n)
  PROVE  /\ \A m \in Names : (Live(m)' <=> Live(m))
                             /\ (Live(m) => pv'[m].volume = pv[m].volume)
         /\ \A i : LiveOn(i)' = LiveOn(i)
<1>1. ASSUME NEW m \in Names
      PROVE  /\ Live(m)' <=> Live(m)
             /\ Live(m) => pv'[m].volume = pv[m].volume
  <2>1. CASE pv'[m] = pv[m]
    BY <2>1 DEF Live
  <2>2. CASE PvIs(n, "leaving") /\ pv'[m] = Absent /\ m = n
    BY <2>2 DEF Live, PvIs
  <2>3. CASE PvIs(n, "available") /\ pv'[m] = [pv[m] EXCEPT !.state = "bound"] /\ m = n
    BY <2>3, VolumeFacts DEF Live, PvIs, PvStates
  <2> QED BY <2>1, <2>2, <2>3 DEF PvGone, Bind, TypeOK
<1>2. \A i : LiveOn(i)' = LiveOn(i)
  BY <1>1 DEF LiveOn
<1> QED BY <1>1, <1>2

(* StorageInv holds at first.                                                *)
LEMMA StorageInit == Init => StorageInv
<1> SUFFICES ASSUME Init PROVE StorageInv
  OBVIOUS
<1>1. pc = "idle" /\ \A n \in Names : ~ Live(n)
  BY DEF Init, Live
<1> QED
  BY <1>1
  DEF StorageInv, ObjectInv, TargetInv, VictimInv, PhaseInv, DetachInv,
      ConsentInv, VolumesHaveInstances, DetachLeavesNothing, Applying,
      Deleting, Deleted

(* Every step keeps StorageInv.                                              *)
LEMMA StorageNext ==
  ASSUME Readable, TypeInv, StorageInv, [Next]_vars
  PROVE  StorageInv'
<1>a. /\ TypeOK /\ args.name \in Names /\ args.volume \in Volumes /\ args.type \in Types
      /\ args.cmd \in {"create", "attach", "detach", "delete"}
      /\ args.cmd \in Attaching => (args.type = Filestore <=> args.volume # Bucket)
      /\ args.cmd = "delete" => args.volume # Bucket
  BY CommandFacts DEF TypeInv, TypeOK
<1>b. /\ pv \in [Names -> PersistentVolume \cup {Absent}]
      /\ stored \in [Names -> Types \cup {Absent}]
      /\ pvc \in [Names -> PvcStates]
      /\ victim \in Names /\ victims \subseteq Names
  BY <1>a DEF TypeOK
<1> USE DEF Goto, objects, local, StorageInv, ObjectInv, TargetInv, VictimInv,
        PhaseInv, DetachInv, ConsentInv, VolumesHaveInstances,
        DetachLeavesNothing, Applying, Deleting, Deleted, Attaching
<1>1. ASSUME UNCHANGED vars PROVE StorageInv'
  BY <1>1, SameVolumes DEF vars
<1>2. ASSUME Start PROVE StorageInv'
  <2>1. PICK c \in Commands : args' = c /\ pc' = FirstStep(c)
    BY <1>2 DEF Start
  <2>2. \/ c.cmd \in {"create", "attach"} /\ pc' = "check"
        \/ c.cmd = "attach" /\ pc' = "object" /\ c.type # Filestore
        \/ c.cmd = "detach" /\ pc' = "get"
        \/ c.cmd = "delete" /\ pc' = "list"
    BY <2>1, CommandFacts DEF FirstStep
  <2>3. c.cmd = "attach" /\ c.type # Filestore => c.volume = Bucket
    BY CommandFacts
  <2>4. \A i : LiveOn(i)' = LiveOn(i)
    BY <1>2, SameVolumes DEF Start
  <2>5. \A n \in Names : Live(n)' <=> Live(n)
    BY <1>2, SameVolumes DEF Start
  <2> QED BY <1>2, <2>1, <2>2, <2>3, <2>4, <2>5 DEF Start
<1>3. ASSUME CheckInstance PROVE StorageInv'
  BY <1>3, <1>a, SameVolumes DEF CheckInstance
<1>4. ASSUME CreateInstance PROVE StorageInv'
  BY <1>4, <1>a, SameVolumes DEF CreateInstance
<1>5. ASSUME CreateObject PROVE StorageInv'
  BY <1>5, <1>a, <1>b, SameVolumes, StorageAssumption DEF CreateObject
<1>6. ASSUME EnableDriver \/ ApplySc \/ GetStorage \/ Refuse PROVE StorageInv'
  BY <1>6, <1>a, SameVolumes DEF EnableDriver, ApplySc, GetStorage, Refuse
<1>7. ASSUME ApplyPv PROVE StorageInv'
  BY <1>7, <1>a, <1>b DEF ApplyPv, Live, LiveOn
<1>8. ASSUME ApplyPvc PROVE StorageInv'
  BY <1>8, <1>a, <1>b, SameVolumes DEF ApplyPvc, AfterPvc
<1>9. ASSUME ListStorages PROVE StorageInv'
  <2>1. victims' = Children(args.volume)
    BY <1>9 DEF ListStorages, Readable
  <2>2. LiveOn(args.volume) \subseteq victims'
    BY <2>1 DEF Children, LiveOn, Live
  <2>3. held' \subseteq victims'
    BY <1>9, <2>1 DEF ListStorages, Children, Forgotten
  <2> QED BY <1>9, <1>a, <2>2, <2>3, SameVolumes DEF ListStorages
<1>10. ASSUME Agree PROVE StorageInv'
  BY <1>10, <1>a, SameVolumes DEF Agree, NextVictim
<1>11. ASSUME DeletePvc PROVE StorageInv'
  BY <1>11, <1>a, <1>b, SameVolumes DEF DeletePvc
<1>12. ASSUME DeletePv PROVE StorageInv'
  <2>1. ~ Live(victim)' /\ \A n \in Names : Live(n)' => Live(n) /\ pv'[n] = pv[n]
    BY <1>12, <1>b DEF DeletePv, Live
  <2>2. victim' = victim /\ args' = args
    BY <1>12 DEF DeletePv
  <2>3. LiveOn(args.volume)' \subseteq LiveOn(args.volume) \ {victim}
    BY <2>1, <2>2 DEF LiveOn
  <2> QED BY <1>12, <1>a, <1>b, <2>1, <2>2, <2>3 DEF DeletePv
<1>13. ASSUME DeleteSc PROVE StorageInv'
  BY <1>13, <1>a, SameVolumes DEF DeleteSc
<1>14. ASSUME DeleteObject PROVE StorageInv'
  BY <1>14, <1>a, <1>b, SameVolumes DEF DeleteObject
<1>15. ASSUME RemoveFinalizers PROVE StorageInv'
  <2>1. /\ \A m \in Names : /\ Live(m)' <=> Live(m)
                            /\ Live(m) => pv'[m].volume = pv[m].volume
        /\ \A i : LiveOn(i)' = LiveOn(i)
        /\ pvc'[victim] = "absent"
    <3>1. CASE pvc[victim] = "dying"
      BY <1>15, <3>1, <1>a, <1>b, ClaimGoneFacts DEF RemoveFinalizers
    <3>2. CASE pvc[victim] # "dying"
      <4>1. pv' = pv /\ pvc' = pvc
        BY <1>15, <3>2 DEF RemoveFinalizers
      <4>2. pvc[victim] = "absent"
        BY <1>15, <1>b, <3>2 DEF RemoveFinalizers, PvcStates
      <4> QED BY <4>1, <4>2, SameVolumes
    <3> QED BY <3>1, <3>2
  <2>2. CASE victims # {}
    BY <1>15, <2>2, <1>a, <1>b, <2>1 DEF RemoveFinalizers, NextVictim
  <2>3. CASE victims = {}
    BY <1>15, <2>3, <1>a, <1>b, <2>1 DEF RemoveFinalizers
  <2> QED BY <2>2, <2>3
<1>16. ASSUME Destroy PROVE StorageInv'
  <2>1. \A n \in Names : Live(n) => pv[n].volume # args.volume
    BY <1>16 DEF Destroy, LiveOn
  <2>2. \A n \in Names : (Live(n)' <=> Live(n)) /\ pv'[n] = pv[n]
    BY <1>16, SameVolumes DEF Destroy
  <2> QED BY <1>16, <1>a, <2>1, <2>2, SameVolumes DEF Destroy
<1>17. ASSUME ApplySkipped PROVE StorageInv'
  BY <1>17, <1>a, SameVolumes DEF ApplySkipped, AfterPvc
<1>18. ASSUME Abort PROVE StorageInv'
  BY <1>18, <1>a, SameVolumes DEF Abort
<1>19. ASSUME NEW n \in Names, PodStarts(n) \/ PodEnds(n) PROVE StorageInv'
  BY <1>19, SameVolumes DEF PodStarts, PodEnds
<1>20. ASSUME NEW n \in Names, PvcGone(n) PROVE StorageInv'
  <2>1. /\ \A m \in Names : /\ Live(m)' <=> Live(m)
                            /\ Live(m) => pv'[m].volume = pv[m].volume
        /\ \A i : LiveOn(i)' = LiveOn(i)
        /\ \A m \in Names : pvc[m] # "live" => pvc'[m] # "live"
        /\ \A m \in Names : pvc[m] = "absent" => pvc'[m] = "absent"
    BY <1>20, <1>a, ClaimGoneFacts DEF PvcGone
  <2>2. UNCHANGED <<instances, stored, pc, args, victim, victims, consent, held>>
    BY <1>20 DEF PvcGone
  <2> QED BY <1>a, <1>b, <2>1, <2>2
<1>21. ASSUME NEW n \in Names, PvGone(n) \/ Bind(n) PROVE StorageInv'
  <2>1. /\ \A m \in Names : /\ Live(m)' <=> Live(m)
                            /\ Live(m) => pv'[m].volume = pv[m].volume
        /\ \A i : LiveOn(i)' = LiveOn(i)
        /\ \A m \in Names : pvc[m] # "live" => pvc'[m] # "live"
        /\ \A m \in Names : pvc[m] = "absent" => pvc'[m] = "absent"
    BY <1>21, <1>a, PvGoneFacts DEF PvGone, Bind
  <2>2. UNCHANGED <<instances, stored, pc, args, victim, victims, consent, held>>
    BY <1>21 DEF PvGone, Bind
  <2> QED BY <1>a, <1>b, <2>1, <2>2
<1> QED
  BY <1>1, <1>2, <1>3, <1>4, <1>5, <1>6, <1>7, <1>8, <1>9, <1>10, <1>11, <1>12,
     <1>13, <1>14, <1>15, <1>16, <1>17, <1>18, <1>19, <1>20, <1>21
  DEF Next, RunStep, Controllers

(* Every variable has its type, in every state.                            *)
THEOREM TypeCorrect == Spec => []TypeOK
<1>1. TypeInv => TypeOK
  BY DEF TypeInv
<1> QED BY TypeInit, TypeNext, <1>1, PTL DEF Spec

(* StorageInv always holds.                                                  *)
LEMMA StorageInvariant ==
  ASSUME Readable
  PROVE  Spec => [](TypeInv /\ StorageInv)
BY TypeInit, TypeNext, StorageInit, StorageNext, PTL DEF Spec

(* No volume points to an instance that is gone, as long as volumes can be  *)
(* read when they are listed.                                              *)
THEOREM NoDanglingVolume ==
  ASSUME Readable
  PROVE  Spec => []VolumesHaveInstances
<1>1. StorageInv => VolumesHaveInstances
  BY DEF StorageInv
<1> QED BY StorageInvariant, <1>1, PTL

(* detach that returns 0 has left nothing.                                  *)
THEOREM CompleteDetach ==
  ASSUME Readable
  PROVE  Spec => []DetachLeavesNothing
<1>1. StorageInv => DetachLeavesNothing
  BY DEF StorageInv
<1> QED BY StorageInvariant, <1>1, PTL

(* An instance is destroyed only with the user's consent, if it has a volume *)
(* that lives or has a Storage object when delete looks for them.           *)
THEOREM Consent ==
  ASSUME Readable
  PROVE  Spec => AskedBeforeDestroyed
<1>1. TypeInv /\ StorageInv /\ [Next]_vars
        => [instances \ instances' # {} /\ held # {} => consent]_vars
  <2> SUFFICES ASSUME TypeInv, StorageInv, Next,
                      instances \ instances' # {}, held # {}
               PROVE  consent
    BY DEF vars
  <2>1. CASE Destroy
    BY <2>1 DEF Destroy, StorageInv, ConsentInv
  <2>2. CASE CreateInstance
    BY <2>2 DEF CreateInstance
  <2>3. CASE Next /\ ~ Destroy /\ ~ CreateInstance
    <3>1. instances' = instances
      BY <2>3
      DEF Next, RunStep, Controllers, Start, CheckInstance, CreateObject,
          EnableDriver, ApplyPv, ApplyPvc, ApplySc, GetStorage, ListStorages,
          Agree, Refuse, DeletePvc, DeletePv, DeleteSc, DeleteObject,
          RemoveFinalizers, ApplySkipped, Abort, PodStarts, Bind, PvcGone, PvGone,
          PodEnds
    <3> QED BY <3>1
  <2> QED BY <2>1, <2>2, <2>3
<1> QED BY StorageInvariant, <1>1, PTL DEF Spec, AskedBeforeDestroyed
=============================================================================
