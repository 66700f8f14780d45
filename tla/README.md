# A TLA+ model of xpk

xpk is a command line program: each invocation reads what GKE, Compute Engine,
Kubernetes and Cloud Storage hold, runs `gcloud`, `kubectl` and `gcluster`
commands, and exits at the first failure. It keeps no state of its own between
invocations. What can go wrong is therefore in *sequences of invocations*: what a
failed, refused or killed run leaves on the servers is what the next run starts
from; children run in parallel and survive their parent; several xpk processes
share a machine (`/tmp/deployment`, the kubeconfig, `~/.config/xpk`) or a
cluster. The models are of these sequences. Source paths below are relative to
`src/src/xpk` unless they start with `docs/`.

## Inventory

| part | state it depends on | operations | what is hard | what makes it correct |
|---|---|---|---|---|
| Node pools (`core/nodepool.py`, `core/resources.py`) | node pools, two ConfigMaps | one long plan-and-execute function per `cluster create` | partial failure of parallel batches, crashes between steps, plans from stale records, arbitrary listing order | success means exactly the request; nothing is deleted that was asked for; one zone; retry gets there |
| Command runner (`core/commands.py`) | child processes, log files | batches, polling, collecting failures | order of endings, signals, Ctrl-C | batches do not overlap, the report is complete |
| CoreDNS setup (`commands/cluster.py`) | deployments in kube-system, a clone in `/tmp` | check, clone, deploy, scale, wait, clean up | shared directory, leftovers, controllers acting meanwhile | the cluster never loses its DNS deployment; success means available |
| Reservations (`core/capacity.py`, `core/reservation.py`) | counts and health of sub-blocks, read call by call | flatten, filter, count, deduplicate, hand out | counts change between calls, links overlap | accepted exactly when it fits, never counted twice |
| Cluster pipeline (`commands/cluster.py`) | everything above | some twenty steps | every step may be the last | a rerun completes what is missing |
| Scheduling (`core/scheduling.py`, `core/system_characteristics.py`) | resources ConfigMap, tables of systems | six checks | their order; what the record overstates; resizes in between | what is admitted can run, what is refused could not |
| Workloads (`commands/workload.py`, `core/workload.py`) | JobSets, Workloads | create with overwrite, delete, list, wait | rows that lag behind the objects, a prompt and other processes in between, names that are prefixes of others | nothing goes without consent; success means gone; 0 means completed |
| Storage (`commands/storage.py`, `core/storage.py`, `core/filestore.py`) | Filestore instance, Storage objects, PV, PVC, SC | create, attach, detach, delete | crashes between API calls, create-if-absent | no instance is destroyed without consent; no orphans |
| Kueue, JobSet (`core/kueue_manager.py`, `core/jobset.py`, `core/cluster.py`) | CRDs, controllers, versions | install, breaking upgrade, configure, retry | crash in an upgrade, installations of others | what others manage is kept; a run that returns 0 leaves working queues |
| Cluster Toolkit (`commands/cluster_gcluster.py`, `core/gcluster_manager.py`, `core/remote_state`) | blueprint, deployment directory, bucket | stage, deploy, upload, download, destroy | crash between deploy and upload | what exists can be destroyed |
| Cluster delete, networks (`core/network.py`) | networks, subnets, firewall rules | create if absent, delete | partial creation and deletion | reruns converge; deleted means gone |
| Kubeconfig (`core/cluster.py`) | the current context | get-credentials | other processes switch it | commands reach the cluster they are for |
| Private access (`core/cluster_private.py`) | authorized networks | read, extend, write back | lost updates | an authorized machine stays authorized |
| Autoprovisioning (`core/nap.py`) | autoscaling settings of pools | enable | its idea of pool names | every pool is updated |
| Configuration, telemetry, dependencies | files under `$HOME` | read-modify-write, detached upload, download | concurrent processes | no value is lost |
| Blueprints (`core/blueprint`) | none | translation of arguments into what Terraform deploys | three branches that should pass the same options | the state bucket is passed on |
| Templates, decorators, parsers, docker text, inspector, info | none | pure translation | none | not modelled |

`PROJECT.json` lists every part with its status, and under `hazards` each place
where the behaviour is hard to test, with the properties that cover it or the
module planned for it.

## Modules

| module | models | code |
|---|---|---|
| `NodePools` | repeated runs of `cluster create` on one cluster | `core/nodepool.py`, `core/resources.py`, steps of `commands/cluster.py` |
| `SliceRequest` | what such runs promise, without the plan | abstract specification |
| `NodePoolsProofs` | proofs about `NodePools` | |
| `MCNodePools` | instances for TLC | |
| `CommandRunner` | one call of `run_commands` | `core/commands.py`, `utils/objects.py` |
| `ParallelCommands` | what callers rely on, without batches | abstract specification |
| `CommandRunnerProofs` | proofs, the refinement among them | |
| `CoreDns` | runs of the CoreDNS setup on several clusters and one machine | `commands/cluster.py` 952-1203 |
| `CoreDnsProofs` | proofs about `CoreDns` | |
| `Reservations` | assignment of reservations to new pools | `core/capacity.py`, `core/reservation.py`, `_prepare_reservation_iterator` |
| `ReservationsProofs` | proofs about `Reservations`, and about sums, duplicates and sequences put one after the other | |
| `MCReservations` | instances for TLC | |
| `Storage` | storage commands on one cluster, with Kubernetes' own deletions | `commands/storage.py`, `core/storage.py`, `core/filestore.py`, `utils/kubectl.py` |
| `StorageProofs` | proofs about `Storage` | |
| `MCStorage` | instances for TLC | |
| `Workloads` | several processes that create, delete and wait for workloads of one cluster | `commands/workload.py`, `core/workload.py`, `core/pathways.py` |
| `WorkloadsProofs` | proofs about `Workloads` | |
| `MCWorkloads` | instances for TLC | |
| `Systems` | the tables and generators of TPU, GPU and CPU systems, as functions | `core/system_characteristics.py`, `utils/topology.py` |
| `Scheduling` | clusters and their records, workloads, the checks between them, and a reference definition of what can run | `core/scheduling.py`, `core/resources.py`, `commands/workload.py`, `core/nap.py` |
| `SchedulingProofs` | proofs about `Systems` and `Scheduling` | |
| `MCScheduling` | clusters and workloads for TLC | |
| `ClusterRun` | state and control of a `cluster` command: the order of its steps and how steps end | `commands/cluster.py`, `core/commands.py`, `parser/cluster.py` |
| `ClusterSetup` | cluster, authorized networks, features, node pools, credentials | `core/cluster.py`, `core/cluster_private.py`, `core/nap.py` |
| `ClusterObjects` | objects in the cluster and the project | `core/network.py`, `core/mtc.py`, `core/ray.py`, `commands/managed_ml_diagnostics.py` |
| `KueueSetup` | JobSet and Kueue | `core/kueue_manager.py`, `core/jobset.py`, `core/kubectl_common.py` |
| `ToolkitSetup` | Cluster Toolkit | `commands/cluster_gcluster.py`, `core/gcluster_manager.py`, `core/remote_state`, `core/blueprint` |
| `Clusters` | delete, and the composition of all of these | `commands/cluster.py` |
| `ClustersProofs` | proofs about `Clusters`: which steps follow which and what most of them leave alone, then networks, deletion, deployments, kubeconfig, Kueue, completeness | |
| `MCClusters` | clusters and users for TLC | |

### NodePools

`pools`, `clusterWI`, `recorded` and `capacity` are the server's state: the pools
with their device type, zone and metadata mode, Workload Identity on the cluster,
the resources ConfigMap (one device type and a number of slices) and the
capacity type in the metadata ConfigMap. `plan`, `pending`, `reported` and
`refused` are local variables of the current run and are lost with it. `pc` walks
through the run; the table at the head of the module gives the lines of each
label. An action is the code from one command or prompt to the next, and the
commands of a batch are actions of their own that interleave.

* A gcloud or kubectl child that does not exit 0 leaves open whether it had its
  effect: the client may time out while the operation goes on. Only a positive
  status is seen by the caller; `Killable` adds children ended by a signal.
* `Abort` is every other failing command of the run and the death of xpk at any
  point. Operations of orphaned children are counted at the moment xpk dies; an
  effect that comes later, during the next run, is *not* modelled.
* gcloud lists pools in no particular order, so `DesiredSets` is the set of
  results of `get_desired_node_pool_names` over all orders, and `ZoneAccepted`
  and `ZoneRejected` may both hold if pools were in two zones.
* A device type has names: users write `v6e-4x4`, the system is called `v6e-16`.
  `args.name` is what was written, `args.type` what it means (`DeviceTypeOf`).
  `ResetRecord` writes the name, the ConfigMap at the end the type, and
  `OtherTypeRecorded` compares with the type, as the code does.
* `wi` stands for `--enable-workload-identity` and `--enable-gcsfuse-csi-driver`,
  which the code treats alike. New pools of a cluster with Workload Identity use
  the GKE metadata server by default.
* An older release of xpk may have left Pathways pools and a recorded cluster
  (`InitServer`).
* Not in this module: GPU pools (one pool, same path), autoprovisioning,
  placement policies, the assignment of reservations (`Reservations`), and two
  xpk processes working on one cluster at once (the code has no lock and
  nothing promises anything about it).

The refinement `KeepsPromise` maps the plan away: what remains is that between
begin and end only slices of the requested type are added, the record only
changes to the request or to no slices under the name the user wrote, and success
means that fleet and record are the request.

### CommandRunner

One call of `run_commands`: `status` is what `poll` would return for each child,
`first` the batch, `failures` the list. Children end at any time and in any way,
also after xpk is gone (`Vanish`: Ctrl-C or a failing `Popen`). Log files and
progress lines are left out. The dry run returns at once and is left out.

### CoreDns

Each run has a cluster of its own and all share `repo`, the directory
`/tmp/deployment`. `partial` is a clone without a `kubernetes` directory, which is
what an interrupted `git clone` (files are checked out last) or `rmtree` leaves.
The test for the directory (`NeedClone`) and `git clone` (`BeginClone`) are two steps,
so that two runs may both find it absent and the second one's git fails.
The controllers are external: the autoscaler sets the number of kube-dns
replicas as long as it has a pod, deployments follow their replica counts.
`kubectl scale --replicas=0` returns before that pod has ended, and nothing waits for it:
after `ScaleAutoscaler` the autoscaler is `ending`, and may still act, until
`AutoscalerEnds`. `install_jq` can only fail, which is `Abort` at `clone`.

### Reservations

One reservation with blocks and sub-blocks; `free` and `healthy` are the server's
state and `OthersChange` is any other user of the reservation between two calls.
`whole` is the count of the reservation as first described, which `lru_cache`
keeps for the process. `ReadFails` stands for failing calls and for the
configuration check. Aggregate reservations count accelerators instead of hosts
and are left out.

### Storage

`instances`, `stored`, `pv`, `pvc`, `sc` and `drivers` are the servers' state,
`mounted` the pods that use a claim. `victim` and `victims` are the loop over
children in `storage_delete`. A volume is `available`, then `bound` by its claim (`Bind`); when the
claim goes it is `released` and, its reclaim policy being Retain
(`templates/filestore-pv.yaml:10`), no other claim binds it. A deleted claim stays
while a pod uses it, a deleted volume while it is bound (`dying`, then `leaving`).
`RemoveFinalizers` is the last call of `delete_storage_resources`: it forces the
claim, and so frees a volume that was deleted before. A volume that is being deleted
and has no Storage object any more is `Forgotten`: no command of xpk finds it.
`held` are the volumes of the instance that are not, live or being deleted, when
delete looks for them; only a property reads it. Every step may be the last one
(`Abort`): a call that fails after it had its effect is the step followed by
`Abort`. `ApplySkipped` is the error that `apply_kubectl_manifest` only prints.
An instance stands for its full name; zonal and regional instances with one name
are not told apart. `Extending` says which names begin with which others.
Volumes from a manifest of the user, whose resources may have any names, are
left out, as are commands of two processes at the same time. The two API servers
are external.

### Workloads

A workload is a JobSet. `name`, `life`, `outcome`, `owner` and `queue` are the
server's state of each: its name, whether it exists, its condition, its
PathwaysJob (made by releases that still created them) and the latest
condition of its Workload object, which Kueue makes after the JobSet and the
garbage collector removes after it (`Enqueue`, `Collect`, external like the
other steps of the controllers). Each process has its command line and its
position; the table at the head of the module gives the code of each label.
`todo` counts the `kubectl delete` children of a batch by name, since a list may
hold one name twice, and `bad` is their common result.

* `seen` holds the JobSets whose rows a process found. For a deletion by name,
  which looks nothing up, it holds the ones the name had when the command
  started, so that `SuccessMeansGone` can speak of them. `agreed` holds the names
  the user typed or said yes to; neither guides a deletion except through
  `Commands`, which is what the code does.
* A quiet run (`-q`) is one in which the user agrees.
* `Reject` stands for all checks between the overwrite and `kubectl apply`.
* `StartWith` and `Contain` say which names begin with or contain which others.
* `timedOut` may come at any time: the timeout is the user's, or a week.
* Left out: Workload objects without a condition (which no filter finds), children of
  a batch ended by a signal (see `CommandRunner`), and manifests.

### Systems and Scheduling

`Systems` computes the tables of `UserFacingNameToSystemCharacteristics` from
their generators: topologies, chips per VM, VMs per slice, the names a user may
give. A system is a record of what the checks tell apart. `Scheduling` has one
cluster, recorded in its ConfigMap by the last `cluster create` and perhaps being
resized (`Resize`, `WriteRecord`, `WriteQueue`, in the order of
`commands/cluster.py:493`), and `workload create` step by step: delete the old
workload (`Overwrite`), read the record, `check_if_workload_can_schedule`, the
node selectors of autoprovisioning, the JobSet. `CanRun` is the reference, and
external: nodes of the right machine, room for all slices, whole cubes, the
quota Kueue was given. It is compared with the answer (`AcceptedCanRun`,
`RefusedCannotRun`); the conditions of the two properties name what the record
does not tell (see the limits below).

### ClusterRun to Clusters

`cluster create`, `adapt` and `delete` are sequences of some thirty steps.
`Pipeline` is their order, `WantedOf` what the command asks for, `After` the next
step. One action is one operation of the code, named like it, from its first
command to its last: `Asks` is a command without effect, `Puts` one that puts
things into the cluster, `Breaks` the failure of either. The three kinds of
commands differ in what they need: gcloud names the cluster, kubectl goes by the
kubeconfig's current context, the kubernetes library by the default kubeconfig
even if the run is sandboxed (`KubectlPuts(LibraryContext, ...)`).

* `has` is what is in the cluster, by name; `project` the networks, subnets,
  firewall rules and roles of the project; `authorized` the networks that reach
  the control plane; `kueue` and `jobset` what is installed, by whom, which CRDs and
  objects there are; `local`, `bucket` and `deployment` the files of Cluster Toolkit
  on two machines, in the bucket, and what Terraform made.
* Any command may fail or be the last of the run, with its effect done or not
  (`Breaks`). `MaxFaults` bounds these, and the switches of other processes; runs
  are not bounded.
* CoreDNS is set up in five steps that can each be the last (`update_coredns`). `clone`
  is the clone of its repository on each machine, which an interrupted run may leave `partial`.
  The replicas of kube-dns and runs for several clusters at once are in `CoreDns`.
* `count_nodes_on_cluster` lists the nodes for every GPU before it looks at the
  device, as the code does.
* `CreationOnly` are the flags only the command that makes the cluster passes (slice
  controller, managed diagnostics, private endpoint). `MadeFor` says that every
  create of the scenario passes them. The legacy port of Lustre is not among them: an
  existing cluster is updated (`core/cluster.py:306-330` and 611), so it is promised
  wherever Lustre is. Flags that change how a cluster is reached or sized (global
  access, machine types, custom arguments) are left out.
* `blind` holds the questions of the run that were not answered and whose
  caller took the silence for an answer (`Question`), `stray` its commands that
  reached another cluster, `lost` whether get-credentials failed or somebody
  else switched the context since. They are only read by properties.
* `promised` holds the machines whose xpk was told that they have access,
  `overlap` whether two lists of networks were ever read before either was
  written.
* External: GKE, Compute Engine and Terraform. An operation of gcloud is done
  or not; gcloud's own retries are left out. A Terraform that does not know of a
  cluster cannot create it again.

## Runs

| run | shows | states |
|---|---|---|
| `np_runs` | success is exact, the metadata server is everywhere, `SliceRequest` is implemented; 3 pool names, 2 types, one of them with 2 names, 2 faults | 2.3 million |
| `np_faulty` | types, one zone, only surplus is deleted unless the record says otherwise, with every kind of fault | 575 882 |
| `np_recover` | the command eventually succeeds again and again | 7 887 |
| `commands` | batches, report, termination, refinement; 5 commands by 2 | 2 443 |
| `coredns_shared` | DNS is kept, only an ending autoscaler brings kube-dns back, success means available, clusters are served; two runs and two faults with leftovers | 678 900 |
| `reservations` | accepted exactly when it fits, every pool has a target; 2 blocks, 3 sub-blocks, 2 links, up to 4 pools | 4.3 million |
| `storage` | no dangling volume, no destruction without consent where a volume can be found, complete detach, repair by attach; 2 storages, 1 instance, a bucket, 2 faults | 1.1 million |
| `storage_prefix` | disagreement 1 | |
| `workloads` | one live JobSet per name, nothing goes without consent, success means gone, 0 means completed; 2 processes, 2 names, 2 JobSets, 1 fault, with PathwaysJobs | 3.0 million |
| `scheduling` | what is accepted can run, what is refused could not, one record per system; every family of systems, resizes, old Kueue, missing records | 1.2 million |
| `clusters` | success is complete but for what `SuccessIsComplete` lists, deleted means gone, others' Kueue and context are kept, access stays, deployments can be destroyed, repeating gets there but from three points; 44 kinds of clusters and users, 2 networks, 2 faults | 452 941 |
| `clusters_bucket` | disagreement 2 | |

Bounds. Three names suffice for a list with a hole, for growing past it and for
shrinking below it; two types for a switch and a switch back; a second name of one
type for a record that is reset under it (in `np_recover` with two pools); two zones for a
wrong one. Two faults (`MaxFaults`) allow a fault in a run that repairs an
earlier fault. The number of runs is not bounded. Five commands in batches of two
give two full batches and a rest. Two clusters are enough for every interference
through one directory. Two links can
be equal, nested or disjoint; sub-blocks with 0, 3 or 4 hosts for slices of 2 hosts have
room for none, for one with a host left over, and for two. `MaxChanges = 1` is
enough to make two reads of one sub-block differ. Two storages on one instance
are enough for a child that is forgotten, and one of them may first have been
attached to a bucket. Two processes, two names of which
one begins with the other, and two JobSets that are ever made: enough for a
workload that is replaced or looks like another while a process waits, asks or
deletes. Larger numbers are covered by the proofs. In `clusters` two faults let a
repaired run be broken again, two networks give six resources of which any
prefix may be there, and two machines are enough for one that knows and one that
does not; what a scenario does not contain (a TPU cluster with an H100's networks)
the code does not either.

Deadlock is checked except in `CommandRunner` and `Reservations`, which end.

Fairness. A process that is not killed goes on (`RunStep`, `XpkStep`), gcloud and
kubectl end some day (`ChildEnds`; in `NodePools` they are part of `RunStep`),
controllers act; in `Clusters` a run goes on (`Step`) and
the user starts the next one (`Begin`). That the user repeats the command is an assumption about the
user, and the content of the documentation's "retry failed steps". Faults are
never fair; they are finitely many, which is the usual reading of "eventually".

## Disagreements of code and documents

Each of these is a run that ends in a counterexample and an entry under `findings`:

1. `storage_prefix`: deleting the instance `fs` deletes the volumes of `fs2`.
2. `clusters_bucket`: the B200 branch of `generate_blueprint` does not pass the
   bucket (`commands/cluster_gcluster.py:414`), so the Terraform state of these
   clusters stays on the machine that made them, whatever
   `--cluster-state-gcs-bucket` says.

Three more were met in the same way; their properties need a sentence only and
are not kept as runs:

* The record is reset to the new device type only if some pool also needed a
  metadata update (`core/nodepool.py:247` is nested under 218), so a retried
  switch deletes the new pools it had already made, which is neither of the two
  reasons `core/nodepool.py:495` gives for deleting one.
* Without super-slicing a block is credited with the whole reservation
  (`core/capacity.py:447`).
* Waiting for `train` returns 125 while it runs, because `train-2` has finished
  (`grep jobset-NAME`, first line; `docs/usage/workloads.md:289`).

Further limits are conditions of the properties, and each can be seen by
removing the condition, or follow from a line of the code:

* `SameTypeRetry = FALSE` in `NodePoolsRuns.cfg`: a user who goes back after an
  interrupted switch gets 0 with pools of the other type among the requested ones.
* `FlakyReads = TRUE` there: a ConfigMap that cannot be read counts as missing
  (`core/resources.py:87`), and pools of the wrong type are kept.
* `Killable = TRUE` there: pools whose command was killed are missing.
* `DeletesOnlySurplus` without `HalfwayReset`: `core/nodepool.py:253` resets the record to
  the name the user wrote and `core/resources.py:251` looks for the system's device
  type. If the two differ (`v6e-4x4`, `v6e-16`) and the run ends in between, every
  retry takes the pools for another system's and deletes them all, before it makes
  them again. A retry that gets to 0 is exact (`SuccessIsExact`, `Recovers`).
* `OnlyLastActScalesUp` without `ending`: the last acts of the autoscaler may come
  after kube-dns was scaled down, which then serves beside CoreDNS for good;
  `commands/cluster.py:1142-1145` does not wait, and the check that could
  notice is inverted (`CheckKubeDns`).
* `EveryClusterServed` and `Clusters!Recovers` without their exceptions: an interrupted
  clone in `/tmp/deployment` is never replaced (`commands/cluster.py:967`), so that every
  later setup on the machine fails at 988, and `cluster create` with it.
* `AskedBeforeDestroyed` without `Forgotten`: a detach or delete that ended after it had
  removed the Storage object leaves a volume that is being deleted, perhaps still used
  by pods; the next delete finds no child and destroys the instance unasked.
* `AttachRepairs` without `released`: a detach or delete that ended between claim and
  volume leaves a volume without its claim. attach finds and patches it, returns 0,
  and the new claim never binds.
* `NoDoubleCounting` without `Undisturbed`: deduplication compares counts that
  were read at different times (`core/capacity.py:244`).
* `FlakyReads = TRUE` in `StorageShared.cfg`: a volume that cannot be read does
  not count as a child, and its instance is destroyed unasked.
* `DetachLeavesNothing` says nothing of storage classes: if a name was attached
  with another type first, detach keeps the class.
* A CoreDNS setup that failed after the deployment is taken for a finished one
  (`commands/cluster.py:1176`): kube-dns is then never scaled down, and CoreDNS never
  up. `SuccessIsComplete` asks for the scaling only if nothing failed.
* A child ended by a signal has a negative status and is not among the failures
  (`core/commands.py:132`): `ReportIsComplete` speaks of positive ones.
* `check_deployment_exists` is false whenever `kubectl --ignore-not-found` works
  (`commands/cluster.py:1054`), so the wait for kube-dns to be scaled down is
  skipped (`CheckKubeDns`).
* A refused `workload create` after an overwrite has already lost the old
  workload (`commands/workload.py:406`), and an `apply` over a JobSet that waits
  for the garbage collector, its PathwaysJob being deleted, changes a workload that
  is about to go.
* `--filter-by-job` selects names that contain the text (`core/workload.py:289`),
  where `docs/usage/workloads.md:215` says that they start with it; the prompt
  shows the names.
* A run without capacity type reports an error and goes on
  (`core/nodepool.py:81`).

Of scheduling (conditions of `AcceptedCanRun` and `RefusedCannotRun`):

* The ConfigMap records device type and size only. A v5p-4x4x16 cluster accepts
  v5p-512 workloads of another shape, which never schedule; sub-slicing never
  checks that the topology is contained in the slice (`ShapeUnknown`).
* A super-slicing cluster whose Kueue is older than super-slicing needs, as one
  that others manage may be, takes workloads of the type of one cube as ordinary ones;
  its node pools carry another placement policy (`PolicyUnknown`).
* The maximum of autoprovisioning is Kueue's quota, and nothing keeps a GPU cluster
  from being given a maximum below its size (`QuotaBelowSize`).
* GPU clusters with autoprovisioning are recorded by their size, so larger
  workloads are refused that would make them grow (`GrowsUnseen`).
* An unreadable ConfigMap means no checks; an unknown version of Kueue counts as
  sufficient; a resize changes nodes, record and quota one after the other.

Of the cluster commands:

* Kueue: an upgrade that was interrupted once the CRDs are gone never gets on, and an
  external Kueue whose manager was asked for in vain may be dismantled; `Recovers`
  names both. JobSet's deployment is applied over newer, custom and external ones
  (`core/jobset.py:112`), and over the memory super-slicing gave it.
* Cluster Toolkit's path drops Kueue's result and, natively, Ctrl-C: exit status 0
  with an incomplete cluster. A second machine without the Terraform state
  "deletes" the cluster with 0 and destroys nothing; a blueprint that a deleted
  cluster left does the same to a later one. `download_state` fetches neither
  the blueprint nor to where it is looked for.
* A container of gcluster goes on when xpk is killed, a lock of Terraform
  stays after a hard kill, and a user may change the bucket between two runs: not
  modelled.
* The Toolkit ignores most options of create, B200 also Filestore.
* An interruption between the deletion of a cluster and of its subnets is not
  repaired: the next delete finds no cluster and stops. Firewall rules and networks
  are never deleted. The filter for subnets also finds those of clusters whose name
  ends with ours.
* Features that only a new cluster can get (slice controller, managed diagnostics of
  new GKE versions, the private endpoint) are neither added to an existing one nor
  refused, and the run returns 0: `SuccessIsComplete` promises them only under
  `MadeFor`. Ray's operator and private networks are not added either, but the run then
  fails; and Ray's operator is lost if other `--addons` follow.
* `--adapt-from-ct` makes nothing, so what only making a cluster provides (CoreDNS,
  pools, networks, Workload Identity, diagnostics) is not promised with it.
* `adapt` of a cluster that is missing, or with credentials that cannot be fetched,
  goes on against whatever the kubeconfig points to; for GPUs it counts the nodes
  there before it fetches credentials (`commands/cluster.py:133`), and can do that
  only for H200. `delete` may ask about workloads of another cluster.
* `--sandbox-kubeconfig` does not reach the kubernetes library, which was loaded before
  (`utils/kubectl.py:88` says that xpk leaves the default kubeconfig alone).
* Nodes that a run interrupted after enabling Lustre did not recreate are never
  recreated; any API error in `install_storage_crd` counts as "exists"; the
  arguments of multi-tier checkpointing are checked at the end.
* `run_command_for_value` polls its child without reading its pipes
  (`core/commands.py:265`): output that exceeds a pipe's buffer blocks both.
* `core/config.py` truncates its file before writing: a crash there loses the
  settings.

## Proofs

tlapm proves, for all values of the constants that satisfy the named assumptions:

* `NodePoolsProofs!TypeCorrect`, by the invariant `TypeInv`: `TypeOK` and that
  `pending` holds pools while pools are created or deleted and ConfigMaps while
  those are applied, without which an `EXCEPT` could leave the domain.
* `OneZone`, by `ZoneInv`: `ZonesAgree` alone is not inductive, because a pool is
  created in the zone of the arguments long after the check. The invariant adds
  that from planning on the pools that exist are in the zone of the arguments.
* `SuccessExact`, assuming `OrderlyUse` (`SameTypeRetry`, no killed children,
  readable ConfigMaps): `SuccessInv` relates the plan to the pools at every
  label. Its parts say which types can exist, given the record (`KnownTypes`),
  what the plan was made from (`PlanInv`), and what has been done of it while
  deletions, creations and records are under way (`DeleteInv`, `CreateInv`,
  `RecordInv`). Each of the three assumptions is necessary, as the
  list above says.
* `ImplementsSliceRequest`, under the same assumptions and from the same
  `SuccessInv`: deletions and creations are `ResizeFleet`, `reset` and the ConfigMaps
  `WriteRecord`, the end of a run `Succeed` or `Fail`, everything else a stutter.
* `SparesRequested`, without assumptions, by `SurplusInv`: a plan for the recorded
  type deletes no "-np-" pool at all, or the pools it wants all exist and are not
  among those it deletes. By `SpelledInv` a record is of a device type, or has no
  slices and is the name of a system: the two exceptions of the property are all
  that a record that is not the requested type can be (`OtherTypeFacts`). Its core is `DesiredOrAll`: the desired pools are among
  the existing ones, or the existing ones among the desired.
* `EveryPoolMoved`, assuming no killed children, by `MetadataInv`: at every label, where
  the pools are that are not on the metadata server yet (to be deleted, to be
  updated, or nowhere).
* `CommandRunnerProofs!AtMostBatch`, `CompleteReport`, `OrderedBatches` and
  `ImplementsParallelCommands`, by `RunnerInv`: commands before the batch have
  ended, those after it have not started, and `failures` is exactly what ended
  with a positive status before the batch. Collecting a batch is a stutter of
  the abstract specification.
* `CoreDnsProofs!Replacement`, `Available` and `LastActs`, by `DnsInv`: a run past
  `deploy` has a deployment, the autoscaler was told to stop before and whenever kube-dns
  is at zero. That nothing at all scales kube-dns up is not so, and not claimed.

* `ReservationsProofs!TypeCorrect`, `TargetsSuffice`, `PlacedWhereTheyFit`, `CountsOnce`
  and `RefusesRightly`, assuming that a reservation has finitely many sub-blocks.
  `ScanInv` says what a run with super-slicing knows while nobody else interferes: with
  the links it has opened (`Seen`) and the calls still in its queue, the entries it
  kept are exactly the offers of the sub-blocks covered so far, and each opened link
  offered something; from the choice on there is one entry per sub-block (`Chosen`).
  The counts are folds; the module first shows that they satisfy their recursion (a
  list with one element more) and then uses induction over a *set* of numbers (the
  least counterexample), since the library's induction theorems take operators.
* `StorageProofs!TypeCorrect`, and `NoDanglingVolume`, `Consent` and `CompleteDetach`, assuming
  `Readable` (volumes can be read when they are listed) and nothing about names,
  command lines or faults. `StorageInv` says that a volume has a Storage object
  as long as it lives (`ObjectInv`: made first, deleted last), which is why delete
  finds every volume of its instance; which of them are left at each label
  (`VictimInv`); and what the user was asked (`ConsentInv`). `Consent` speaks of the volumes in `held`, live or
  being deleted: a live one has a Storage object by `ObjectInv`, one that is being deleted
  by the definition of `held`, so delete finds it and asks; forgotten ones it cannot find.

* `WorkloadsProofs!TypeCorrect`, `OnlyAgreedHolds`, `SuccessMeansGoneHolds` and
  `ZeroMeansCompletedHolds`, from `WorkloadsAssumption` alone: any number of
  processes, names and faults, with or without PathwaysJobs. One live JobSet per
  name is part of `TypeOK` and inductive, because `apply` does not make a second.
  `WorkloadsInv` says for each process what it may still delete (`ConsentInv`),
  which of the JobSets it saw are gone or have a command to come (`GoneInv`) and
  what a wait has seen (`DoneInv`). Steps of others do not disturb it: `Keeps` is
  what no step of anybody undoes, and `Frame` carries `ProcInv` over such a step.
  The three action properties then follow from `WorkloadsInv` and `Keeps`.

* `SchedulingProofs!RecordsNameTheSystem`, `WhatIsAcceptedCanRun` and
  `WhatIsRefusedCannotRun`, for all names in the tables, all sizes, clusters, requests,
  interleavings and failing queries, assuming what the parser and
  `validate_sub_slicing_system` check: names that exist, and slicing only for systems
  that support it. The proof has three layers.
  * The tables, without evaluating them: every topology has one chip or a multiple of
    four (`Product`), prefix and size tell the row (`RowByPrefix`), a short name stands for a
    topology of its size (`ShortTopologies`, by an order of topologies that is
    one of numbers), names of hosts are no names of TPUs. `RecordedSystem` is what
    the rest needs: the recorded device type names the system itself, or one of
    the same row and size, and then neither can be sliced.
  * The decision against `CanRun`, for a settled cluster: `DecisionSound`, by the
    branch that answered, and `DecisionComplete`, by the mode that could run. The
    two exceptions to the former that TLC's instances had not contained,
    `PolicyUnknown` and `QuotaBelowSize`, were found by this proof; the instances
    contain them now.
  * `RunInv`: a run that has read a record of a settled cluster and goes on while
    nothing is resized has the cluster's record, and the mode the decision gives it.

* `ClustersProofs!AccessKept`, `NothingLeft`, `CreatorDeletes`, `OwnCluster`,
  `KueueOfOthers` and `NothingMissing`, for all scenarios in
  `ScenarioSet`, any number of networks and of faults. The first part of the module
  proves once what the sixty operations have in common, so that an invariant has to look only
  at the few that touch what it is about: `NextWanted` (the step after a given one
  is a later one of `Pipeline`, and none skips the credentials), and for each part of a run an
  effect its steps have (`Lately`, `First`, `WithToolkit`).
  * `AccessInv`: a list that waits to be written back, ours or a colleague's, lacks
    nothing that was promised, unless the two overlapped.
  * `DeleteInv`: from the listing on the cluster is gone and all its subnets are
    on the list; which command is at which step, so that no other step ends a delete.
  * `CreatorInv`: the blueprint is on the machine before the deployment is, and a
    deployment made again points to the same place of Terraform's state. The latter
    needs `OneBucket`, and is false without it.
  * `ContextInv`: behind get-credentials the context is the cluster's or lost.
  * `KueueInv`: what the questions of this run found is what is installed, as long
    as they were answered and kubectl still reaches the run's cluster. Needs
    `KueueAssumption`: a Kueue that is not installed is managed by nobody.
  * `CompleteInv`, for `NothingMissing`: whatever was wanted of the steps of `Pipeline` before the current
    one is there (`OrderInv`), also if an earlier run made it and this one skipped the
    step; nodes serve Lustre if its driver is there (`NodesInv`); the Kueue of a
    cluster xpk made is xpk's own (`OwnInv`); and the same for Cluster Toolkit's
    path (`DeployInv`). Needs `EmptyAssumption` (no Kueue where there is no
    cluster) and `LustreServed`: a cluster that starts with Lustre's driver has
    nodes that serve it, or lacks a port that all Lustre commands ask for; a cluster
    without either is what the limit about Lustre above leaves. `MadeInv` adds where
    CoreDNS and its scaling are in the course of a run, and that a cluster all of whose
    creates ask for the same flags was made with them; it needs `CoreDnsServes`: a
    cluster that starts with CoreDNS has it scaled. The theorem has the exceptions of
    the property: flags only a new cluster gets (unless `MadeFor`), Lustre's nodes and
    CoreDNS's scaling after a failure, a Storage CRD the API failed on, and the
    failures Cluster Toolkit's path drops.

All parts of the invariants were checked with TLC before they were proved.

Only model-checked: liveness (`Recovers`, `Returns`, `EveryClusterServed`, `AttachRepairs`,
`Clusters!Recovers`), which needs fairness and ENABLED. The invariants and action
properties of all passing runs are stated by theorems.

## Not modelled

* Docker images and containers, decorators, manifests, the inspector, `info`,
  `version`, `list` and `describe`: text, reports and linear calls without state.
* Configuration, telemetry and dependencies: files under `$HOME` that no property
  of a cluster depends on.
* Two `cluster create` of one cluster at the same time: the code has no lock and
  nothing promises anything about it. Colleagues appear where the code does
  expect them, in the authorized networks, and between runs.
* Effects of orphaned children that come during the next run.

## Plan

Done: the modules above and the proofs listed above. Next:

1. Late effects of orphaned children in `NodePools`.
2. `UserConfig`, the unlocked read-modify-write of `core/config.py`.
