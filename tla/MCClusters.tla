----------------------------- MODULE MCClusters -----------------------------
(***************************************************************************)
(* Clusters of every kind, made from nothing, from what others left, adapted  *)
(* and deleted, each with the commands of one or two users.                  *)
(***************************************************************************)
EXTENDS Clusters

Command(verb, device, options) ==
  [verb |-> verb, device |-> device, options |-> options, machine |-> "us"]

(* An existing cluster, and none. *)
Given(commands, things) ==
  [commands |-> commands, has |-> things, busy |-> FALSE, kueue |-> NoKueue,
   jobset |-> NoJobSet, authorized |-> {}, native |-> FALSE, others |-> {}]
New(device, options) == Given({Command("create", device, options)}, {})

CreateAndDelete(device, options, bye) ==
  Given({Command("create", device, options), Command("delete", device, bye)}, {})

WithKueue(image, external, options) ==
  [Given({Command("adapt", "tpu", options)}, {"cluster"}) EXCEPT
     !.kueue = [image |-> image, external |-> external, crds |-> "all",
                objects |-> "user", tolerant |-> FALSE],
     !.jobset = [image |-> IF image = "breaking" THEN "older" ELSE image,
                 external |-> external]]

Features ==
  {New("tpu", Drivers \cup {"legacy-port"}),
   New("tpu", {"nap", "tensorboard", "ml", "old-gke"}),
   New("cpu", {"nap"}), New("tpu", {"nap", "quota-too-small"}),
   New("tpu", {"ray"}), New("tpu", {"ray", "mtc"}),
   New("tpu", {"mtc", "no-mtc-bucket"}),
   New("tpu", {"super-slicing", "ml"}), New("h100", {}),
   New("tpu", {"private"}), New("tpu", {"networks", "private-endpoint"}),
   New("tpu", {"sandbox", "mtc"}), New("tpu", {"bad-version"})}

Existing ==
  {Given({Command("adapt", "gpu", {"identity"})}, {"cluster"}),
   Given({Command("adapt", "gpu", {"nodes-given"})}, {"cluster"}),
   Given({Command("adapt", "gpu", {})}, {"cluster"}),
   Given({Command("adapt", "a3ultra", {})}, {"cluster", "pools"}),
   Given({Command("adapt", "a3ultra", {"identity"})}, {"cluster"}),
   Given({Command("create", "a4", {"adapt-from-ct", "identity"})},
         {"cluster", "pools", "storage-crd", "nccl", "config-maps"}),
   Given({Command("adapt", "tpu", {"lustre", "legacy-port"})}, {"cluster", "lustre"}),
   Given({Command("adapt", "tpu", {"ray"})}, {"cluster", "ray-operator", "pools"}),
   Given({Command("adapt", "tpu", {"identity"})}, {}),
   Given({Command("adapt", "tpu", {})}, {}),
   Given({Command("create", "tpu", {"private"})}, {"cluster"}),
   Given({Command("create", "tpu", {"mtc"})}, {"cluster", "pools"}),
   Given({Command("create", "tpu", {"super-slicing", "ml"})}, {"cluster"}),
   [Given({Command("create", "tpu", {"private"}),
           [Command("create", "tpu", {"networks"}) EXCEPT !.machine = "colleague"]},
          {"cluster", "private"}) EXCEPT !.authorized = {"colleague"}]}

Kueues ==
  {WithKueue("breaking", FALSE, {"agrees"}), WithKueue("breaking", FALSE, {}),
   WithKueue("breaking", FALSE, {"quiet", "nap"}), WithKueue("breaking", TRUE, {"agrees"}),
   WithKueue("older", FALSE, {}), WithKueue("older", TRUE, {}),
   WithKueue("newer", FALSE, {}), WithKueue("custom", FALSE, {}),
   [WithKueue("older", TRUE, {}) EXCEPT !.kueue.crds = "none"]}

Deleted ==
  {[CreateAndDelete("h100", {}, {"agrees"}) EXCEPT !.busy = TRUE, !.others = {"idle"}],
   [CreateAndDelete("h100", {}, {"quiet"}) EXCEPT !.others = {"in-use", "idle"}],
   [CreateAndDelete("tpu", {}, {}) EXCEPT !.busy = TRUE]}

Toolkits ==
  {CreateAndDelete("a3mega", {}, {}),
   [CreateAndDelete("a3mega", {"nap"}, {}) EXCEPT !.native = TRUE],
   CreateAndDelete("a3ultra", {"bucket", "filestore"}, {"bucket"}),
   CreateAndDelete("a4", {"bucket"}, {"bucket"}),
   Given({Command("create", "a3ultra", {"bucket"}),
          [Command("create", "a3ultra", {"bucket"}) EXCEPT !.machine = "colleague"],
          [Command("delete", "a3ultra", {"bucket", "quiet"}) EXCEPT
             !.machine = "colleague"]}, {})}

MCScenarios == Features \cup Existing \cup Kueues \cup Deleted \cup Toolkits

=============================================================================
