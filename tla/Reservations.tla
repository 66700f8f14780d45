---------------------------- MODULE Reservations ----------------------------
(***************************************************************************)
(* How `xpk cluster create --reservation=A,B,...` assigns a reservation to   *)
(* every new node pool (core/nodepool.py _prepare_reservation_iterator,     *)
(* core/capacity.py assess_available_slices).  Links name a reservation, a  *)
(* block or a sub-block and may overlap.  Each block and sub-block link     *)
(* costs a gcloud call of its own, and other users of the reservation take  *)
(* and return hosts between two calls.                                     *)
(***************************************************************************)
EXTENDS Naturals, Sequences, SequencesExt, FiniteSetsExt

CONSTANTS
  Blocks,      \* the reservation: a function from blocks to sets of sub-blocks
  FreeHosts,   \* numbers of free hosts a sub-block may have
  Required,    \* hosts of one slice (vms_per_slice)
  MaxNeeded,   \* bound: node pools to create
  MaxLinks,    \* bound: links on the command line
  Modes,       \* records [force |-> super-slicing, validate |-> feature flag]
  MaxChanges   \* bound: changes by other users while xpk reads

ASSUME ReservationsAssumption ==
  /\ IsFiniteSet(DOMAIN Blocks) /\ \A b \in DOMAIN Blocks : IsFiniteSet(Blocks[b])
  /\ Required \in Nat \ {0} /\ FreeHosts \subseteq Nat
  /\ MaxNeeded \in Nat /\ MaxLinks \in Nat /\ MaxChanges \in Nat
  /\ Modes \subseteq [force : BOOLEAN, validate : BOOLEAN]

SubBlocks == UNION {Blocks[b] : b \in DOMAIN Blocks}
Whole == [kind |-> "reservation", name |-> "reservation"]
BlockLink(b) == [kind |-> "block", name |-> b]
SubBlockLink(s) == [kind |-> "sub-block", name |-> s]
Links == {Whole} \cup {BlockLink(b) : b \in DOMAIN Blocks}
           \cup {SubBlockLink(s) : s \in SubBlocks}

(* The sub-blocks a link covers.                                           *)
Under(link) ==
  CASE link.kind = "reservation" -> SubBlocks
    [] link.kind = "block" -> Blocks[link.name]
    [] OTHER -> {link.name}

VARIABLES
  free, healthy, \* of each sub-block (server side)
  whole,         \* free hosts of the reservation when it was first described
  mode, needed,  \* the run's flags and number of new node pools
  args,          \* the links of the command line
  links,         \* links that have not been assessed
  queue,         \* gcloud calls left for the current link
  part, found,   \* capacities of the current link, and of the links before
  targets,       \* the link of every new node pool
  pc, changes

inputs == <<healthy, whole, mode, needed, args>>
vars == <<free, healthy, whole, mode, needed, args, links, queue, part, found,
          targets, pc, changes>>

Entry(link, slices) == [link |-> link, slices |-> slices]
Total(entries) == SumFunction([i \in DOMAIN entries |-> entries[i].slices])
-----------------------------------------------------------------------------
(* A definition whose comment starts with WRONG is a plausible mistake in   *)
(* the one after it; no specification uses it.                             *)

(* WRONG: hosts that do not fill a slice count as a slice.                  *)
RoundedUp(hosts) == (hosts + Required - 1) \div Required

Slices(hosts) == hosts \div Required

(* WRONG: sub-blocks without room for a slice are kept.                     *)
HealthySubBlockEntries(link) ==
  LET usable == {s \in Under(link) : healthy[s]} IN
  [i \in 1 .. Cardinality(usable) |->
     LET s == SetToSeq(usable)[i] IN Entry(SubBlockLink(s), Slices(free[s]))]

(* list_healthy_sub_blocks, and the filter on fitting ones.                 *)
SubBlockEntries(link) ==
  LET fitting == {s \in Under(link) : healthy[s] /\ Slices(free[s]) > 0} IN
  [i \in 1 .. Cardinality(fitting) |->
     LET s == SetToSeq(fitting)[i] IN Entry(SubBlockLink(s), Slices(free[s]))]

(* _get_reservation_slices_count: of the reservation the link belongs to.   *)
WholeEntry(link) ==
  IF Slices(whole) > 0 THEN <<Entry(link, Slices(whole))>> ELSE <<>>

TargetsSubBlocks(link) ==
  link.kind = "sub-block" \/ (mode.force /\ link.kind = "block")

Capacities(link) ==
  IF TargetsSubBlocks(link) THEN SubBlockEntries(link) ELSE WholeEntry(link)

(* A reservation is flattened to its blocks if sub-blocks are required.     *)
Calls(link) ==
  IF mode.force /\ link.kind = "reservation"
    THEN SetToSeq({BlockLink(b) : b \in DOMAIN Blocks})
    ELSE <<link>>

(* WRONG: overlapping links are counted twice.                              *)
KeepDuplicates(entries) == entries

(* dict.fromkeys: equal entries are those with equal link and slices.       *)
Dedup(entries) ==
  FoldLeft(LAMBDA seen, e : IF Contains(seen, e) THEN seen ELSE Append(seen, e),
           <<>>, entries)

(* WRONG: a link without capacity is no error if others have some.          *)
EmptyLinkTolerated == FALSE

NothingFound == part = <<>>

(* WRONG: one fitting slice is enough.                                      *)
AnyCapacity == Total(found) > 0

EnoughCapacity == Total(found) >= needed

(* chain.from_iterable(repeat(...)), as far as it is read.                  *)
FirstNeeded(entries) ==
  LET repeated == [i \in DOMAIN entries |->
                     [j \in 1 .. entries[i].slices |-> entries[i].link]]
      all == FlattenSeq(repeated)
  IN SubSeq(all, 1, IF Len(all) < needed THEN Len(all) ELSE needed)
-----------------------------------------------------------------------------
Init ==
  /\ free \in [SubBlocks -> FreeHosts] /\ healthy \in [SubBlocks -> BOOLEAN]
  /\ whole = SumFunction(free)
  /\ mode \in Modes /\ needed \in 1 .. MaxNeeded
  /\ args \in UNION {[1 .. n -> Links] : n \in 1 .. MaxLinks}
  /\ links = args /\ queue = <<>> /\ part = <<>> /\ found = <<>>
  /\ targets = <<>>
  /\ pc = IF mode.validate THEN "next" ELSE "count"
  /\ changes = MaxChanges

(* With the feature flag off, only the number of links is checked.          *)
CountLinks ==
  /\ pc = "count"
  /\ IF Len(args) > 1 /\ Len(args) # needed
       THEN pc' = "refused" /\ targets' = <<>>
       ELSE /\ pc' = "planned"
            /\ targets' = [i \in 1 .. needed |->
                             args[IF Len(args) = 1 THEN 1 ELSE i]]
  /\ UNCHANGED <<free, inputs, links, queue, part, found, changes>>

OpenLink ==
  /\ pc = "next" /\ links # <<>>
  /\ queue' = Calls(Head(links)) /\ links' = Tail(links)
  /\ part' = <<>>
  /\ pc' = "read"
  /\ UNCHANGED <<free, inputs, found, targets, changes>>

ReadCapacity ==
  /\ pc = "read" /\ queue # <<>>
  /\ part' = part \o Capacities(Head(queue))
  /\ queue' = Tail(queue)
  /\ UNCHANGED <<free, inputs, links, found, targets, pc, changes>>

(* Describing the reservation, or listing its blocks or sub-blocks, fails.  *)
ReadFails ==
  /\ pc = "read" /\ queue # <<>>
  /\ pc' = "error"
  /\ UNCHANGED <<free, inputs, links, queue, part, found, targets, changes>>

CloseLink ==
  /\ pc = "read" /\ queue = <<>>
  /\ IF NothingFound THEN pc' = "refused" /\ found' = found
                     ELSE pc' = "next" /\ found' = found \o part
  /\ UNCHANGED <<free, inputs, links, queue, part, targets, changes>>

LastLink ==
  /\ pc = "next" /\ links = <<>>
  /\ found' = Dedup(found)
  /\ pc' = "choose"
  /\ UNCHANGED <<free, inputs, links, queue, part, targets, changes>>

ChooseTargets ==
  /\ pc = "choose"
  /\ IF EnoughCapacity
       THEN pc' = "planned" /\ targets' = FirstNeeded(found)
       ELSE pc' = "refused" /\ targets' = <<>>
  /\ UNCHANGED <<free, inputs, links, queue, part, found, changes>>

(* Other users of the reservation start and stop instances.                 *)
OthersChange ==
  /\ changes > 0 /\ changes' = changes - 1
  /\ pc \in {"next", "read"}
  /\ \E s \in SubBlocks, n \in FreeHosts : free' = [free EXCEPT ![s] = n]
  /\ UNCHANGED <<inputs, links, queue, part, found, targets, pc>>

Next ==
  \/ CountLinks \/ OpenLink \/ ReadCapacity \/ ReadFails \/ CloseLink
  \/ LastLink \/ ChooseTargets \/ OthersChange

Spec == Init /\ [][Next]_vars
-----------------------------------------------------------------------------
TypeOK ==
  /\ free \in [SubBlocks -> FreeHosts] /\ healthy \in [SubBlocks -> BOOLEAN]
  /\ whole \in Nat /\ mode \in Modes /\ needed \in 1 .. MaxNeeded
  /\ \A i \in DOMAIN found : found[i].link \in Links /\ found[i].slices > 0
  /\ \A i \in DOMAIN targets : targets[i] \in Links
  /\ pc \in {"count", "next", "read", "choose", "planned", "refused",
             "error"}
  /\ changes \in 0 .. MaxChanges

(* Nobody else has used the reservation since the run began.                *)
Undisturbed == changes = MaxChanges

Targeting(link) == Quantify(DOMAIN targets, LAMBDA i : targets[i] = link)

(* Every new node pool gets a target: the iterator of reservations never    *)
(* runs dry while the create commands are built.                           *)
EveryPoolHasTarget == pc = "planned" => Len(targets) = needed

(* "Deduplicate reservation_capacities": with super-slicing no sub-block is *)
(* counted twice, however the links overlap, if it does not change between   *)
(* the calls that read it (entries with different counts are different).    *)
NoDoubleCounting ==
  pc = "choose" /\ mode.force /\ Undisturbed =>
    \A i, j \in DOMAIN found : found[i].link = found[j].link => i = j

(* With super-slicing, pools are only put where they fit: on healthy        *)
(* sub-blocks, no more than their free hosts hold.                         *)
PoolsFit ==
  pc = "planned" /\ mode.force /\ mode.validate /\ Undisturbed =>
    \A s \in SubBlocks :
      LET pools == Targeting(SubBlockLink(s)) IN
      pools > 0 => healthy[s] /\ pools * Required <= free[s]

(* What super-slicing can offer: one number per link and one in all.        *)
Room == [s \in SubBlocks |-> IF healthy[s] THEN free[s] \div Required ELSE 0]
Fits(S) == SumFunctionOnSet(Room, S)
Covered == UNION {Under(args[i]) : i \in DOMAIN args}
Offered ==
  /\ \A i \in DOMAIN args : Fits(Under(args[i])) > 0
  /\ Fits(Covered) >= needed

(* A run with super-slicing goes on exactly if every link has room for a    *)
(* slice and the sub-blocks they cover, each counted once, have enough.     *)
RefusesOnlyWhatDoesNotFit ==
  pc \in {"planned", "refused"} /\ mode.force /\ mode.validate /\ Undisturbed =>
    (pc = "planned" <=> Offered)
=============================================================================
