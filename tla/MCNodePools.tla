---------------------------- MODULE MCNodePools ----------------------------
(***************************************************************************)
(* Instances of NodePools for TLC.  Three pool names are enough for a list  *)
(* with a hole, for growing past and shrinking below it; two device types   *)
(* for a switch and a switch back.                                         *)
(***************************************************************************)
EXTENDS NodePools

MCNpNames == <<"c-np-0", "c-np-1", "c-np-2">>
MCNpNames2 == <<"c-np-0", "c-np-1">>

(* "xl" is another name of x.                                              *)
MCDeviceTypeOf == [n \in {"x", "xl", "y"} |-> IF n = "xl" THEN "x" ELSE n]

Consistent == {a \in Args : a.type = DeviceTypeOf[a.name] /\ a.capacity = "known"}

(* Resizing and switching the device type, with Workload Identity, Pathways *)
(* and ignored creation errors.  The long name is used with Pathways.       *)
OptionChoices == {a \in Consistent : a.type = "x" => a.pathways = (a.name = "xl")}

(* A single zone and no permanent mistake by the user.  Workload Identity,   *)
(* without which no record is reset, comes with x and its long name.         *)
RetryChoices ==
  {a \in Consistent : a.wi = (a.name = "xl") /\ a.name # "x" /\ ~ a.pathways
                      /\ ~ a.ignore}

(* The capacity flag may be forgotten; Workload Identity comes with one of   *)
(* the device types: every disjunct of every command's end.                 *)
FaultyChoices ==
  {a \in Args : /\ a.type = DeviceTypeOf[a.name] /\ a.name # "x"
                /\ a.count # 2 /\ a.wi = (a.type = "x")
                /\ ~ a.pathways /\ ~ a.ignore}
=============================================================================
