---------------------------- MODULE SliceRequest ----------------------------
(***************************************************************************)
(* What `xpk cluster create` promises about slices, without saying how:    *)
(* between Begin and the end of a run the fleet may take any shape, but    *)
(* only slices of the requested type are added and the record only ever    *)
(* changes to the request, or to no slices under the name the user wrote;  *)
(* the run may fail at any time; if it succeeds, the fleet is the request.  *)
(* Outside a run nothing changes.                                          *)
(***************************************************************************)
EXTENDS Naturals

CONSTANTS DeviceTypes, TypeNames, MaxSlices, NoRecord

Request == [name : TypeNames, type : DeviceTypes, count : 1 .. MaxSlices,
            exact : BOOLEAN]
Fleet == [DeviceTypes -> 0 .. MaxSlices]

VARIABLES status, request, fleet, recorded

vars == <<status, request, fleet, recorded>>

Stopped == {"idle", "failed", "ok"}

Init ==
  /\ status = "idle" /\ request \in Request
  /\ fleet \in Fleet
  /\ recorded \in [type : TypeNames, slices : 0 .. MaxSlices] \cup {NoRecord}

Begin ==
  /\ status \in Stopped /\ status' = "running"
  /\ request' \in Request
  /\ UNCHANGED <<fleet, recorded>>

ResizeFleet ==
  /\ status = "running"
  /\ fleet' \in Fleet
  /\ \A t \in DeviceTypes : fleet'[t] > fleet[t] => t = request.type
  /\ UNCHANGED <<status, request, recorded>>

WriteRecord ==
  /\ status = "running"
  /\ recorded' \in {[type |-> request.name, slices |-> 0],
                    [type |-> request.type, slices |-> request.count]}
  /\ UNCHANGED <<status, request, fleet>>

Fail ==
  /\ status = "running" /\ status' = "failed"
  /\ UNCHANGED <<request, fleet, recorded>>

Succeed ==
  /\ status = "running" /\ status' = "ok"
  /\ recorded = [type |-> request.type, slices |-> request.count]
  /\ \A t \in DeviceTypes \ {request.type} : fleet[t] = 0
  /\ request.exact => fleet[request.type] = request.count
  /\ UNCHANGED <<request, fleet, recorded>>

Next == Begin \/ ResizeFleet \/ WriteRecord \/ Fail \/ Succeed

Spec == Init /\ [][Next]_vars
=============================================================================
