# IBM Spectrum Scale CSI: specifications

TLA+ specifications of the Spectrum Scale CSI driver (`driver/csiplugin`) and of what
it interacts with, model-checked with TLC and proved with TLAPS.

## The system

| Part | Source | State | Operations |
|---|---|---|---|
| Controller: volumes | `controllerserver.go` | `reqmap`, an in-memory map of the creations in process | `CreateVolume`, `DeleteVolume` |
| Controller: publishing | `controllerserver.go` | none | `ControllerPublishVolume`, `ControllerUnpublishVolume`, `ValidateVolumeCapabilities` |
| REST connector | `connectors/rest_v2.go` | none; each changing call starts a job in the GUI and polls it | `CreateFileset`, `LinkFileset`, `SetFilesetQuota`, `MakeDirectory`, `CreateSymLink`, `DeleteFileset`, `DeleteDirectory`, `DeleteSymLnk`, `MountFilesystem`, GETs |
| Node service | `nodeserver.go` | the target paths on the node | `NodePublishVolume` (stat, rmdir, `ln -sf`), `NodeUnpublishVolume` (`RemoveAll`), empty Stage/Unstage |
| Plugin start-up | `gpfs.go` | connectors, primary fileset, symlink directory | `PluginInitialize`, `CreatePrimaryFileset`, `CreateSymlinkPath`, `ValidateHostpath` |
| Configuration | `gpfs.go`, `settings/scale_config.go` | config map and secrets, read once | `LoadScaleConfigSettings`, `ValidateScaleConfigParameters` |
| Storage class options, sizes | `gpfs_util.go` | none | `getScaleVolumeOptions`, `ConvertToBytes` |
| Volume IDs | `controllerserver.go`, `nodeserver.go` | none; an ID is kept by Kubernetes | `generateVolID`, `GetVolIdMembers` |
| gRPC server, identity | `server.go`, `identityserver.go` | none | one goroutine per call |
| Operator role | `operator/roles/csi-scale`, `operator/watches.yaml` | cluster objects, the trigger in the custom resource | reconciliation, watch of secrets, finalizer |
| External: provisioner, attacher, kubelet, Spectrum Scale GUI, Ansible operator, Kubernetes | | | |

How they interact. The provisioner calls `CreateVolume` and `DeleteVolume` with a
timeout of two minutes and repeats a call until it succeeds. gRPC runs each call in
its own goroutine; no handler looks at its context, so a call whose caller gave up
keeps running beside its own retry. Handlers change storage only through the GUI,
which accepts a request with a job number and carries the job out on its own: a job
outlives a handler that failed to poll it and a driver that died. The driver runs on
every node (DaemonSet); when the provisioner moves, it talks to another process with
an empty `reqmap`. What a creation decided (cluster, file system, fileset or directory,
symlink) goes to the deletion through the volume ID alone. The operator deploys the
ConfigMap and the DaemonSet whose pods are the drivers; a driver reads its configuration and
secrets when it starts, and only a change of the pod template, which carries checksums of
both, restarts it.

What is hard here, and the properties that make each part correct:

* *Creation.* Attempts at one volume overlap (timeout, restart, fail-over) and fail at
  any point without cleanup. A volume reported as created must be complete and stay so
  (`BoundIsComplete`); attempts must not undo each other (`NothingLost`); an attempt must
  recognise what an earlier one left (`OwnFilesetRecognised`); retries must converge
  (`CreationConverges`).
* *`reqmap`.* It must not outlive its handler (`NoStaleEntry`) and should keep creations of
  one volume apart (`AtMostOneCreation`, which it does not).
* *Deletion.* What is reported deleted is gone and stays gone (`GoneIsClean`,
  `ContractKept`); a retried deletion gets to the end (`DeletionConverges`).
* *Node service.* A pod that was told its volume is published finds the link at its target
  path (`PublishedIsLinked`), a pod torn down leaves nothing (`GoneIsRemoved`), the volume itself
  is not written (`VolumeUntouched`), and both operations converge (`PublishConverges`,
  `UnpublishConverges`), while stat, rmdir and `ln` of several calls interleave.
* *Publishing.* A volume is attached only where its file system and the primary one are
  mounted (`AttachedIsMounted`), and attachments converge (`AttachConverges`).
* *Start-up.* Drivers that start at the same time all come up (`AllStart`) on one linked primary
  fileset with its directory (`UpIsReady`), which the primary cluster knows (`UpIsVisible`).
* *Options and IDs.* A volume ID leads to data that are what the class asked for
  (`LeadsToItsData`), deletion finds all of them again (`GoneLeavesNothing`) and takes nothing of
  another volume (`DeletesOnlyItsOwn`), though names differ between clusters and fileset ids are
  given again. *Sizes*: a quota that is listed is never changed (`QuotaKept`); conversions invert
  each other where they must and do not wrap.
* *Operator.* Runs die between templates, secrets come, change and go, and nothing tells a driver:
  a DaemonSet has its configuration (`DaemonHasItsConfig`), no driver serves with an older one than
  its template (`NoPodBehind`) or with one that lacks a connector it uses (`ServingHasConnectors`),
  all of them end up with what was written last (`DriversConverge`), and wherever all has come to
  rest, they have (`SettledIsCurrent`); a resource that is gone has left nothing (`NothingLeft`), and
  labelling secrets comes to an end (`OperatorSettles`). Seen from outside, versions are rolled out one
  after the other and never taken back (`RolloutKept`).

## Modules

| Module | Content |
|---|---|
| `VolumeController` | `CreateVolume`, `DeleteVolume`, `reqmap`, the GUI's jobs, the provisioner; its properties |
| `VolumeContract` | what the controller promises the provisioner, without handlers, jobs or maps |
| `VolumeInvariant` | the inductive invariants `IndInv` and `DeletionInv` |
| `VolumeControllerProofs` | `IndInv` and what follows from it |
| `VolumeContractProofs` | `DeletionInv`, and that `VolumeController` implements `VolumeContract` |
| `NodePublish` | `NodePublishVolume`, `NodeUnpublishVolume` and the kubelet |
| `PluginStart` | what `PluginInitialize` changes, in the drivers of all nodes, and the GUI's jobs |
| `ControllerPublish` | `ControllerPublishVolume`, the GUI's mount jobs, the attacher |
| `SizeConversion` | sizes, quotas and inode limits in machine words |
| `VolumePlacement` | from a storage class to fileset, directory, symlink and volume ID, and back |
| `PluginConfig` | loading and validating the clusters section, the connectors made of it; operators only |
| `OperatorReconcile` | the operator's runs, its watch of secrets, users, and the driver pods |
| `Rollout` | what operator and drivers promise the author of the resource: versions, without tasks, templates, secrets or checksums |
| `OperatorCurrent` | what the drivers end up with: `SettledIsCurrent` and the inductive invariant `CurrentInv` |
| `OperatorCurrentProofs` | proofs about `OperatorCurrent` |
| `NodePublishProofs`, `PluginStartProofs`, `ControllerPublishProofs`, `VolumePlacementProofs`, `OperatorReconcileProofs` | theorems and proofs |
| `MC...` | constants for TLC |

The components meet in storage and not in memory: `PluginStart` ends where a driver serves, and
what it establishes (the linked primary fileset, the directory for symlinks) is what
`VolumeController` takes for granted; `ControllerPublish` and `NodePublish` use volumes that are
bound. They are checked on their own. `VolumeController` and `VolumePlacement` are two views of the
same handlers: the first has those of one volume overlap, with one class and file system, the
second has them follow one another, with all options, clusters and IDs. `OperatorReconcile` uses
`PluginConfig` and stops where `PluginStart` begins.

### VolumeController

State and code:

| Variable | In the code |
|---|---|
| `pc[c]` | where the handler of call `c` is, named after the connector call it makes there |
| `req[c]` | its request: operation, volume, size, driver process |
| `job[c]` | the GUI job of its last changing REST call; stays when the handler has gone |
| `reqmap[d]` | `ScaleDriver.reqmap` of driver process `d` |
| `fset`, `quota`, `dir`, `slink` | the volume's fileset, its quota as listed, its directory, its symlink under the primary fileset |
| `claim`, `waiting`, `prov` | the provisioner: what it knows of the volume, the call it waits for, the driver it is connected to |

A handler's actions follow the code line by line: `PassInProcess`/`RefuseInProcess`
(`IfSameVolReqInProcess`), `Mark` (line 497), `ListFileset` ... `CheckSymLink` (the GETs that
decide), `Submit`/`JobOk`/`JobError` (a changing call: accepted, polled to its end). The
deferred `delete` is part of every `Return`. `Run...` actions are the GUI carrying out
jobs. The GETs and checks that only read configuration (primary fileset linked, file
system mounted, quota enabled, node names) are folded into the next step; they appear as
`ReadFails`.

Faults, each a kind a configuration may allow, at most `MaxFaults` in a behaviour: a GET
fails (`read`), a request is refused (`refused`) or accepted with the response lost
(`lost`), a poll fails (`poll`), a job fails (`jobfail`), the provisioner times out
(`timeout`), a driver dies (`crash`), the provisioner changes driver (`failover`).

Assumptions on the GUI, which is not in this repository: a created fileset may come linked
or unlinked; it answers a changing request it accepts with 201 or 202, so that the job is polled (after another accepted status
`rest_v2.go:75-86` takes the request for done); a quota is listed rounded up to its unit; deleting the fileset takes the
directory and the quota along; deleting an absent directory succeeds or fails
(`AbsentDirOk`). Volume IDs are those `generateVolID` makes, so the fileset name always
matches and `GetFileSetNameFromId` is not reached.

### NodePublish

| Variable | In the code |
|---|---|
| `pc[c]`, `tgt[c]` | the step of a handler and its target path |
| `target[t]` | what is at a path: nothing, a directory, a directory with a link in it, the link |
| `stray[t]` | whether `ln` was run through the link and wrote into the volume |
| `mounted` | whether the node has the volume's file system, on which `os.Stat` of a link depends |
| `pod`, `waiting` | the kubelet: what it knows of the pod, the call it waits for |

`Stat`, `Rmdir`, `Ln` are `nodeserver.go:80`, `82`, `90`; `RemoveAll` is `113`; `Answer` is `97` and `116`, a step
of its own, so that the driver may die between what it did and what it says. The server's mutex is
taken by the Stage handlers only, so steps of different calls interleave. `rmdir` refuses
anything but an empty directory; `ln -sf` without `-n` puts the link inside when the target is
a directory or a link to one. Faults: `timeout` (the kubelet gives up, the handler goes on),
`republish` (a kubelet that restarted publishes again), `command`, `crash`, `mount`.
`late[t]` records that a tear-down was requested while a publish still ran, `unsettled` which targets had a caller
that gave up or saw the mount change; they are history variables and decide nothing.

### PluginStart

| Variable | In the code |
|---|---|
| `pc[n]`, `link[n]` | where `PluginInitialize` of the driver on node `n` is, and `fsetlinkpath` |
| `mine[n]`, `job[s]` | the job it polls; the GUI's jobs, some of them nobody's |
| `fset`, `volumes` | the primary fileset and its `.volumes` directory |
| `seen`, `refresh` | the primary cluster's view of a remote fileset, and a refresh task under way |

The behaviours begin with any state of the fileset. A driver that meets an error exits
(`main.go`, `glog.Fatalf`) and is started again. `Remote` is `primary.remoteCluster` being set.
Assumed of the GUI: a fileset job may link what it created or leave it unlinked; `mkdir` makes no
parent directories; a fileset is linked once.

### ControllerPublish

| Variable | In the code |
|---|---|
| `pc[c]`, `req[c]`, `saw[c]` | a handler's step, file system and node, `ispFsMounted` and `isFsMounted` |
| `job[c]` | the mount job of its last REST call |
| `mounted` | which node has mounted what |
| `attach`, `waiting` | the attacher |

`GetPrimary` and `GetVolume` are the two GETs, `Decide` is `controllerserver.go:813-834`.
`known` are the nodes the GUI knows under the name the mapping gives, `skip` is
`SKIP_MOUNT_UNMOUNT`; both are fixed for a behaviour. `lost` remembers which nodes lost a file
system and decides nothing. A mount of what is mounted may succeed or fail.

### VolumePlacement

| Variable | In the code |
|---|---|
| `primary` | `primary.primaryFs` of the configuration; `moved` remembers that it changed |
| `pc[v]`, `class[v]` | the handler's step, and `scaleVolume` as `getScaleVolumeOptions` filled it |
| `found[v]` | the fileset `GetFileSetNameFromId` answered in `DeleteVolume` |
| `fileset`, `dirs`, `links` | what is on the file systems: filesets with id, inode space, owner, limit, quota; directories; symlinks |
| `claim`, `volId` | what the provisioner keeps: the ID as a record, with the class's cluster, the UUID of the file system, the fileset and the link's home |
| `quotaJobs` | quota jobs that nobody waits for and that have yet to write |
| `asked[v]`, `overtaken` | all classes its creations were asked with; filesets whose quota was set while a write of the driver was on its way; history |

A step is a REST call that writes, with the decision before it: `CreateFileset` to `CreateSymLink`
are `controllerserver.go:270-526`; `setQuota` is two, the call that lists (`ListFilesetQuota`, line 173) and the one
that writes (`SetFilesetQuota`, line 195), between which an administrator may set a quota (`AdminSetsQuota`). Its job may also
lose its handler (`AbandonQuotaJob`) and write later (`LateQuotaJob`). `LookUp` to `DeleteSymLnk` are `597-674`. The defaults the code
fills in on the way are operators: `FilesetType`, `Uid`, `FilesetOwner`, `InodeSpace`, `InodeLimit`,
`ClusterId`. `Accepted` are the requests `CreateVolume` lets pass. `IdDevice` finds the file system
by UUID at the cluster in the ID; `IsOwn` compares the name that the fileset id has now with the
volume's (`648-658`). `CallFails` ends a handler before or after the call took effect. `Legacy`
volumes have an ID with the number of a fileset, as earlier releases wrote them.

### OperatorReconcile and PluginConfig

| Variable | In the code |
|---|---|
| `cr`, `crEvent` | the custom resource (version of its clusters section, trigger, deletion mark), an event of it in the queue |
| `secret`, `events` | data and label of each secret; those with an event queued |
| `run` | the playbook run: task, version read, cluster or template it is at, what it read |
| `bump[s]` | the trigger a watch run has read and not yet written |
| `deployed`, `config`, `daemon` | what is applied, the ConfigMap's version, the pod template with its checksums |
| `pod` | the driver pods: template, and the configuration and secrets they read |
| `written[s]` | what the user wrote last; history |

`CheckCluster`, `RemoveSecret`, `CreateSecret` are `cluster_check.yml` and the two tasks of
`password_label.yml`, with other actors in between; `ApplyTemplate` and `ClearTemplate` are one
round of `main.yml:100`; `StartWatch` and `BumpTrigger` are the read and the write of
`secret_watch.yml`. `RemoveSecret` names no namespace: whether it reaches the operator's secret is a
choice. `SecretUnread` is the failed read of a secret that is there: `cluster_check.yml:8` ignores the error and
`10-13` end the run, without an event. `run.unread` keeps that the last run ended so. `StartDriver` reads configuration and secrets and passes `Valid`
(`ValidateScaleConfigParameters`) or does not start. Faults: that read, any other task that fails and has the run repeated,
the operator restarts and hears of everything again, a driver dies. The Ansible operator has
one run at a time per resource; a periodic reconciliation is not assumed.

`Deployment` is `Rollout` with the mapping

| `Rollout` | `OperatorReconcile` |
|---|---|
| `life` | `cr.st` |
| `target` | `Newest`, the version the run works on, or the resource's when there is no run |
| `published`, `template` | the version of the ConfigMap, of the DaemonSet's template |
| `expected[p]`, `serving[p]` | the version of the pod's template, the one its driver runs with |

Labelling, the watch of secrets and failed runs map to stutters or to `Retarget`.

## Runs

| Run | Instance | Shows |
|---|---|---|
| `creation` | 1 fileset volume, 3 calls, 2 drivers, 3 faults of all kinds, symmetry | `TypeOK`, `NoStaleEntry`, `BoundIsComplete`, `OwnFilesetRecognised`, `IndInv`, `NothingLost` |
| `deletion` | fileset volume with two request sizes and lightweight volume, 2 calls, 1 driver, 2 faults, `LateCreates = FALSE` | `DeletionInv`; `ContractKept`: `VolumeController` implements `VolumeContract` |
| `liveness` | a fileset volume or a lightweight one, 2 calls, 2 drivers, 2 faults, no symmetry | `CreationConverges`, `DeletionConverges` |
| `race` | 1 driver, 1 timeout | `AtMostOneCreation` is violated |
| `late_creation` | 1 driver, 1 timeout | `GoneIsClean` is violated |
| `unaligned_size` | quota unit 2, size 3, 1 failed job | `CreationConverges` is violated |
| `publish` | 2 targets, 3 calls, 2 faults of all kinds | `TypeOK`, `PublishedIsLinked`, `GoneIsRemoved`, `VolumeUntouched`, `NodeInv`, `PublishConverges`, `UnpublishConverges` |
| `start` | 2 drivers, 3 job slots, remote, links at 3 places, one of them invalid, 2 faults | `TypeOK`, `UpIsReady`, `UpIsVisible`, `StartInv`, `AllStart` |
| `attach` | 2 file systems, a node that is known or not, 2 calls, each setting, 3 faults with unmounts | `AttachedIsMounted`, `AttachInv`, `AttachConverges` |
| `placement` | 2 volumes, 5 classes over 2 clusters, 2 fileset ids, 2 primary file systems, 2 faults | `LeadsToItsData`, `GoneLeavesNothing`, `PlacementInv`, `DeletesOnlyItsOwn`, `QuotaKept` |
| `operator` | 3 versions of the clusters section, 2 secrets, 1 pod, 1 fault | `DaemonHasItsConfig`, `NoPodBehind`, `ServingHasConnectors`, `NothingLeft`, `OperatorInv`, `SettledIsCurrent`, `CurrentInv`, `DriversConverge`, `OperatorSettles`; `RolloutKept`: `OperatorReconcile` implements `Rollout` |
| `secret_update` | 1 secret without label, 1 version, no fault | `UpdateApplied` is violated |

`TypeOK` is the first conjunct of each of `IndInv`, `NodeInv`, `StartInv`, `AttachInv`, `PlacementInv` and
`OperatorInv`.

Bounds. Three calls are a live attempt, an older one still running, and a slot with an
orphaned job; three faults let an attempt time out, its retry lose a response and a driver
die. Volumes interact through nothing but call slots, so two of them, one of each kind,
cover side effects between volumes. `KB = 2` keeps sizes small: 4 is a multiple of the unit,
3 is not. On a node, three calls are one that is waited for and two that are late, which two
faults allow (its safety properties are proved for any number); in
`PluginStart` one slot more than drivers leaves room for an orphaned job; attachments interact
on one node only. `Claimed` says which volumes a behaviour asks for: both together in `deletion`,
one of either kind in `liveness`.

In `placement`, two clusters call their file system `fs1`, and the primary one mounts the other's
as `rfs`: the least in which a name may lead astray. The classes of the first volume are a local default, a dependent
fileset at the named owner, one that names no owner, and a lightweight one; that of the second is an independent
fileset with a user and an inode limit of its own. `MaxClasses = 2` lets a class be changed once. The second volume is there to be given the first
one's fileset id. The machine word has 2^16 values, sizes are 2 KiB and none, the least inode limit
is 3. In `operator`, the versions are a lone cluster, one whose remote cluster is not defined (the
driver refuses it), and both clusters; `S1Twice` lets one secret be rewritten once; the trigger
counts modulo `Triggers = 5`, so that a livelock is a cycle TLC can find; the code's counter does not wrap.
Of it the proofs use only that a value differs from its successor (`Triggers >= 2`).

Symmetry: calls and drivers are interchangeable in the safety runs; no temporal property
but `[][...]_vars` and the contract (safety) is checked with it.

Fairness (`FairSpec`): each handler's goroutine and each GUI job makes progress, and the
provisioner keeps issuing calls for a claim that is not settled, as its queue does. The same
holds of the kubelet and the attacher; drivers that exited are started again, as the
DaemonSet does. With `SKIP_MOUNT_UNMOUNT=yes` the administrator,
who was given the task, mounts. In `OperatorReconcile` (`Spec` contains it) the operator's queue goes on with
its run and with each secret's watch, and the DaemonSet's controller and the kubelet with each
pod; users need not act. `VolumePlacement` states safety only and assumes no fairness. Faults,
`Release` and the order of calls are not fair. Faults are bounded, so liveness says: once
faults stop, retries converge.

### What the violated runs say

* `race`: a call times out between its look into `reqmap` (line 485) and its entry (line
  497); the retry finds no entry either. Both create the volume, and the first to return
  removes the other's entry. `creation` and the proofs show that the volume comes out
  complete all the same, because each REST call tolerates the other attempt's work.
* `late_creation`: `DeleteVolume` neither waits for nor stops a creation still running. Its
  symlink job runs after the deletion answered OK and leaves a symlink nobody deletes. With
  `LateCreates = FALSE` this cannot happen (`deletion`).
* `unaligned_size`: `setQuota` compares bytes with a quota listed in KiB. A claim for `1G`
  (10^9 bytes) whose first attempt fails after its quota was set is refused for ever.

* `secret_update`: a run reads a secret without its label, deletes it, and creates it again with the
  label and the data it read. A user who does what `docs/source/maintenance/secrets.rst` says
  (delete, apply with the label) between the two has the new data replaced by the old. Since
  the secret is there again and labelled, nothing looks at it any more.

### What holds only under a restriction

* `PublishConverges` holds for a target as long as the answers to its calls are heard and no mount changes
  (`unsettled`), and unless the driver dies between `ln` and the answer (`Unheard`: the link is there and no
  call). A publish that succeeded unheard is refused when repeated: the target is a link to a directory,
  `rmdir` fails on it, and so every retry while the volume can be reached. With late publishes, a link may
  also end up in a directory the kubelet made for the retry, which `rmdir` then refuses.
* `GoneIsRemoved` holds if no publish ran when the tear-down was requested: otherwise an `ln` that runs after
  `RemoveAll` brings the link back and nobody removes it.
* `VolumeUntouched` holds for the same targets: without overlapping publishes and mounts between stat and
  `ln`.
* `AttachedIsMounted` holds on nodes that have lost no file system, and for the settings `yes` and `no`;
  another value of `SKIP_MOUNT_UNMOUNT` mounts nothing and answers OK.
* `LeadsToItsData` and `GoneLeavesNothing` hold for volumes all of whose attempts used one class: otherwise
  what the first class made stays, with its owner, and `DeleteVolume` looks only where the ID leads. When the
  primary file system was changed (`moved`), `GoneLeavesNothing` says of fileset volumes that fileset and
  directory are gone, and nothing of the rest: a symlink made under the earlier one is not found under the new
  one's path, and with it the directory of a lightweight volume. `LeadsToItsData` also wants a class that
  names the owning cluster or none.
* `QuotaKept` holds but for a quota that is set after an attempt listed none and before the write it asked for
  is done (`overtaken`): `SetFilesetQuota` (`controllerserver.go:195`) writes whatever is set by then, also
  from a job whose handler has gone. The comment, `controllerserver.go:170` "Set quota if not set", is true of
  what was listed.
* `SettledIsCurrent` and `DriversConverge` hold unless the last run could not read a secret that is there
  (`run.unread`). The error is ignored, the run ends as if the secret were missing and has not failed
  (`cluster_check.yml:8-13`): nothing repeats it, and without a periodic reconciliation, which is not assumed,
  the drivers stay on the old version until the next event. Without the restriction TLC finds both violated.
* `UpdateApplied` holds for secrets that have the label (`DriversConverge` speaks of the secrets as they are,
  not as they were written). An update of a secret without deleting it raises no event and is no step here:
  the document excludes it. A secret whose run died after `RemoveSecret` is lost until its user applies it
  again.
* `SettledIsCurrent` and `DriversConverge` hold as long as no version of the clusters section repeats an
  earlier one (`Reverts`). If the resource is changed from A to B and back to A, and the run for B fails after
  the ConfigMap (`main.yml:102`), a driver that starts before the run is repeated reads B under a pod template
  for A. The run for A writes the ConfigMap of A again, but its DaemonSet has the checksum
  (`csi-plugin.yaml.j2:79-80`) that is there already: nothing restarts the driver, and it goes on with B. TLC
  shows it with the versions `<<Alone, Other, Alone>>` and two faults. The run has three different versions.
* `UpIsVisible` says "knows the fileset", not "knows its link": the refresh task is enqueued only when the
  primary cluster's GUI does not list the fileset at all (`gpfs.go:285`). If it lists it as unlinked,
  `CreateVolume` refuses (`controllerserver.go:406`) until the GUI refreshes by itself.

`DeletionConverges` for lightweight volumes is checked with `AbsentDirOk = TRUE` only: with
`FALSE` a deletion whose first attempt removed the directory and then erred fails for ever,
since `DeleteDirectory` tolerates no error. What the GUI answers is not in this repository.

## Proofs

`VolumeControllerProofs` proves, for every number of volumes, calls, drivers, faults, every
set of sizes and quota unit (the `ASSUME`s of `VolumeController`):

* `TypeCorrect`: `Spec => []TypeOK`
* `BoundComplete`: `Spec => []BoundIsComplete`
* `NothingIsLost`: `Spec => NothingLost`
* `NoStale`: `Spec => []NoStaleEntry`
* `OwnRecognised`: `Spec => []OwnFilesetRecognised`, if the requests of a volume agree on a size
  that is a whole number of units
* `UnalignedStuck`: `Spec => [](Stuck(v) => []Stuck(v))`, if no size of `v` is: a claim whose quota is set, and
  all of whose creations have yet to compare it, stays a claim, whatever is retried and however often.
  Run `unaligned_size` shows the way into such a state; the theorem, that there is none out of it.

The argument. `BoundIsComplete` is not inductive: that the answer OK finds a complete volume
depends on what the handler did on its way. `IndInv` (`VolumeInvariant`) adds, for every
creation, that the pieces it has passed are there as long as the claim is not being deleted
(`ProgressInv`); that nothing is deleted before (`PhaseInv`); that the call waited for is
live and fits the claim (`WaitInv`), so that a late answer changes nothing; that a quota is one
of the volume's own requests (`QuotaInv`); and that steps, requests and jobs agree
(`SlotInv`). `Grows` (nothing of a kept volume is lost in a step) carries `ProgressInv` and
`BoundIsComplete` over the steps of other handlers. Each part has a lemma, `...Step`, with a
case per action; shared parts of actions (`Proceed`, `Return`, `Ends`) have lemmas of their
own. `NoStaleEntry` is inductive relative to `IndInv`. TLC checks `IndInv` in run `creation`.
Both theorems on sizes rest on lemmas about `Listed`: it rounds up, to a positive whole number of units, and
gives back what was one.

`VolumeContractProofs` proves, from `~LateCreates`, that is, for claims that are released only when no
creation is under way:

* `DeletionInvariance`: `Spec => []DeletionInv`
* `GoneClean`: `Spec => []GoneIsClean`
* `Implementation`: `Spec => ContractKept`

Run `late_creation` shows that without the hypothesis the second and so the third are false. The
argument. That nothing is left when `DeleteVolume` answers OK depends on the order of its calls and on what
each finds: `DeletionInv` says that what a deletion finds a volume by (the fileset, or the symlink of a
lightweight one) is there as long as its directory is (`PlacedInv`), that handlers and jobs do not take a
volume for the other kind (`KindInv`), that no creation and no job of one is left at a released claim
(`ReleasedInv`; here the hypothesis is needed), and that a deletion that has come to the symlink has nothing else
left before it (`ClearedInv`). For the refinement, `stored` is `"all"`, `"some"` or `"nothing"` of a volume
(`Extent`); each step of a handler or a job is a step of the contract for its volume or leaves `Stored` as it
is. `NothingLost`, as a step of `IndInv`, gives that a kept volume only grows; `DeletionInv` that a
released one only shrinks, and that a claim is forgotten with `"nothing"` left.

The other proofs are of the same kind; each begins with an inductive invariant that a run
checks, and also gives `[]TypeOK`:

* `NodePublishProofs`: `Spec => []NodeInv`, and from it `[]PublishedIsLinked`, `[]GoneIsRemoved` and
  `[]VolumeUntouched`. What carries them: a call that is waited for and has come to `ln` has
  no directory before it, because directories are made only together with a call nobody
  else is waited for; no unpublish runs at a path whose pod runs; and a settled target has one call.
* `PluginStartProofs`: `Spec => []StartInv`, `[]UpIsReady`, `[]UpIsVisible`. `StartInv` adds what a driver on its
  way has established; the fileset is never unlinked or deleted, so it lasts.
* `ControllerPublishProofs`: `Spec => []AttachInv` and `[]AttachedIsMounted`. `AttachInv` says that
  what was seen, or mounted by a completed job, is mounted on a node that lost nothing.
* `VolumePlacementProofs`: for any clusters, devices, classes and volumes, `Spec => []PlacementInv`,
  and from it `[]LeadsToItsData`, `[]GoneLeavesNothing`, `DeletesOnlyItsOwn` and `QuotaKept`.
  `PlacementInv` says what a handler at a step has behind it (`HandlerInv`), that all that is
  there was made for some class that was asked with (`MadeInv`), that an ID is of one of these
  classes and its parts are there until the deletion (`IdInv`), how far a deletion has come
  (`GoneInv`), that a device gives an id to one fileset at a time (`UniqueIds`), and that where a write is on
  its way there is no quota yet, the driver's own, or one that was set meanwhile (`QuotaInv`).
  `GoneInv` needs `MadeInv`: with one class there is one device and one directory to look at.
  `QuotaReadsBack` is about `SizeConversion`: a whole number of KiB is listed and read back as itself,
  for every word size.
* `OperatorReconcileProofs`: for any nodes, secrets, versions, triggers and faults, `Spec => []OperatorInv`,
  and from it `[]DaemonHasItsConfig`, `[]NothingLeft`, `[]NoPodBehind`, `[]ServingHasConnectors`.
  `OperatorInv` says which templates a run has behind it, in either order (`RunInv`), and that the
  ConfigMap is at least as new as any template a pod was made of, and a serving driver's
  configuration was validated (`PodInv`). That pods are never ahead of the newest version a run works on (`Newest`)
  is what keeps `PodInv` when the ConfigMap is replaced. `ValidHasConnectors` is about `PluginConfig` alone.
  `RolloutImplemented` (`Spec => RolloutKept`) has a lemma for each group of actions that says which step of
  `Rollout` it is: `ApplyTemplate` at `config` is `Publish`, at the driver's template `Roll`; `ClearTemplate` is
  `Withdraw`, `Unpublish` or, the last one, `Forget`; `ReplacePod` is `Place`, `StartDriver` `Serve`. `Roll`
  wants the published version to be the one rolled out, which is what `RunInv` says of a run that has the ConfigMap
  behind it; `Serve` wants a version not behind the pod's, which is `PodInv`.
* `OperatorCurrentProofs`: `Spec => []CurrentInv` and, from `~Reverts`, `Spec => []SettledIsCurrent`. The latter is
  what makes `DriversConverge` true beyond the coming to rest, for which fairness is needed: no interleaving
  of runs, watches and starts, and no failure but the ignored one of `SecretUnread`, makes a change go unnoticed. `CurrentInv` carries it with four facts. A secret
  is labelled before anything mounts it (`LabelInv`), so that its changes are watched. Data are never read
  backwards: checksums are at most as new as what a driver mounts (`DataInv`, `ReadInv`), so that equal checksums mean
  equal data. And what the run that is under way has read, or the one that ended has applied, is what is there,
  or a watch is about to raise the trigger, or an event of the resource is queued, or the run ended unread (`NoticeInv`); a watch that has
  read the trigger counts only as long as nobody else has written it (`Noticed`), which is why two that
  write the same value lose nothing. The assumptions it adds: `None` is neither a number nor a template, and a trigger
  differs from its successor.

Only model-checked: liveness (`CreationConverges`, `DeletionConverges`, `PublishConverges`, `UnpublishConverges`,
`AllStart`, `AttachConverges`, `DriversConverge`, `OperatorSettles`), which TLAPS cannot treat under fairness.
All invariants, action properties and refinements the passing runs check are theorems.

## Plan

What is left, in this order:

1. Abstract specifications of `NodePublish` and `ControllerPublish`, what the kubelet and the attacher
   are promised, with proofs that they are implemented.
2. A composition of `PluginStart` and `VolumeController` over one primary fileset: a driver that
   starts beside one that serves.
3. The wait for a job in `VolumePlacement`, so that calls of several classes overlap for one volume.

## Not modelled

* The identity service (constant answers), the gRPC server beyond "one goroutine per call" (it
  runs until it is killed; `Stop` is never called), HTTP and command helpers (I/O).
* Splitting and joining of strings: volume IDs, paths, quota listings and REST paths are
  records, and `ConvertToBytes` is modelled for the unit the GUI lists. An ID the driver wrote
  always splits into the parts it was made of.
* Unmount, node-class and cluster calls of the connector, which no handler makes.
* The provisioner's queue, leader election and back-off beyond "one call at a time per volume,
  repeated".
* The operator's OpenShift security context tasks (`main.yml:32-82`), which edit a list of users,
  and deployment scripts, functional tests and documentation.
