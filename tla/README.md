# TLA+ specification of the IBM Cloud Object Storage plugin

The plugin gives Kubernetes claims a volume that is a bucket of IBM Cloud Object
Storage (COS).  It has two programs: a *provisioner*, one process per cluster
(two during a rolling update), that creates and deletes buckets and persistent
volumes, and a *FlexVolume driver*, started by kubelet for every single call,
that mounts a bucket with s3fs on a node.

## The system

| Component | Source | State it keeps | Operations | Hard parts |
|---|---|---|---|---|
| Provision | `src/provisioner/ibm-s3fs-provisioner.go` 459-863 | locals of the call; bucket in COS; PV | validate, credentials, policy, create, version, firewall, quota, check, build PV | fails between steps, reverts, runs twice, process stops |
| validateAnnotations | same, 228-456 | none (but writes the CA bundle, 155-176) | defaults, checks, storage class fallback | three-way texts, checks on one source only |
| Delete | same, 866-907 | annotations in the PV | delete the bucket, or leave it | must be resumable, order bucket / volume |
| COS session | `src/utils/backend/backend.go` | none (session) | create, head, list, delete, versioning | error codes, paging, hidden versions |
| Access policy, quota | `src/utils/backend/access_policy.go` | bucket configuration | patch firewall, patch quota | own API key, may be missing |
| UUID generator | `src/utils/uuid/uuid.go` | none | fresh bucket names | |
| Parser | `src/utils/parser/parser.go` | none | map to struct and back, IP lists | absent fields |
| Provisioner process | `src/cmd/provisioner/main.go` | controller queues | configure and run the sig-storage controller | no leader election, resync 30 s, retry threshold 1 |
| gRPC client, provider stubs | `src/utils/grpc-client`, `src/ibm-provider` | connection | cluster type, endpoints | blocks without timeout |
| FlexVolume driver | `src/driver/driver.go` | node: mounts, data path, password and CA files | mount, unmount | processes interleave, swallowed errors, crash in mid-mount |
| Driver command | `src/cmd/driver/main.go` | none | init, mount, unmount calls | |
| Cluster configuration | `src/utils/config/config.go` | map of cluster data | load, look up | |
| Logger, constants | `src/utils/logger`, `consts` | none | | |
| Diagnostic tool | `src/tools/IBM` | work queue (Python) | collect logs, check mounts | |

Interaction: the controller library calls `Provision` for a pending claim and
stores the volume it returns; it calls `Delete` for a volume whose claim is gone
and removes the volume when that succeeds.  Both talk to COS through a session;
`Provision` also asks the provider over gRPC and patches the bucket through the
resource configuration API.  What `Delete` knows comes from the annotations
`Provision` wrote into the volume.  The driver reads the volume's options and
the secret on the node; the two programs share nothing else.

## Modules

* `Annotations` - a claim's request and what `validateAnnotations` resolves it
  to.  A boolean annotation is one of six texts, because the code compares texts
  with `"true"` in one place and `"false"` in another.  Everything else that can
  only make validation fail is the field `wellFormed`.
* `CosService` - one bucket of the (external) service and the effect of a
  request on it: who owns it, its objects, the hidden versions, whether it has
  versioning, a firewall, a quota.
* `Provisioner` - `Provision`, `Delete`, the session operations and the
  controller around them.  `op[p, c]` is the running call of process `p` for
  claim `c`: `pc` is the next request, the other fields are the locals of the
  same name in the code (`own` is `deleteBucket`, `val` is `valBucket`, `sess`
  says whether the session is nil, `keys` is the rest of `resp.Contents`);
  `made` is history.  `tries[p, c]` is how often process `p` has failed for the
  pending claim `c`: `Remember` keeps it at every step, `GivenUp` keeps
  `StartProvision` from a third attempt (below, *Fairness*).  Every request to COS is one action, so two calls
  interleave between any two requests.  `Call` is a request: granted, refused,
  or failed, and a failed one may have taken effect with its answer lost.
  `ToVersion` ... `ToBuilt` skip the stages that have nothing to do, in the
  order of the code; `AfterError` is the revert.  `ListObjects`, `DeleteObject`
  and `DeleteBucket` are the steps of `backend.DeleteBucket`, used by a revert
  and by `Delete`.
* `VolumeLifecycle` - what the user of a claim is promised, whatever the
  provisioner does to keep it: pending, bound with an empty bucket of its own,
  bound with what its pods have written, released, gone, and no claim ever
  touched by another one.  `Provisioner` instantiates it as `Lifecycle` with
  `Life` and `Data` for its two variables: a claim that is deleted is `released`
  as long as it has a volume, and its data are the objects in its generated
  bucket.  Names, processes, failures, settings and reverts do not exist there.
* `MCProvisioner` and its `.cfg` files - instances for TLC.
* `ProvisionerProofs`, `LifecycleProofs`, `BoundaryProofs`, `ReclaimProofs` - the
  theorems, each module on top of the one before.

* `VolumeOptions` - mount options on their way from annotations and storage
  class to the command line of s3fs: `ValidBefore` and `ValidAfter` are
  `validateAnnotations` before and behind the writing of the CA bundle,
  `Resolved` which of two texts counts, `Volume` the options stored in the
  volume, `DriverAccepts` and `S3fsArgs` what `mountInternal` checks and makes of
  them.  A text is an element of a constant set; which texts are numbers, have a
  scheme or are addresses are constants too, so that the theorems are about every
  text.  `AsAsked` says independently of all that what every option of s3fs has to
  be: the text of the claim, else that of its class, else a fixed one (`Chosen`),
  with the exceptions the code makes - a service inside of the cluster, the cipher
  suite `"default"`, and switches, which a claim cannot turn off when its class
  has them on.  Four counts that the code treats alike are one option.  (`wellFormed` in
  `Annotations` is what `Valid` is here.)
* `ProvisionerProcess` - one process: its start (`LoadClusterInfoMap`), its two
  pools of threads, and what its calls share: the files with CA bundles, the
  environment variable that names one of them, the socket of the provider.
  `call[j]` is the thread that works on claim or volume `j`; the bundle is
  written in the steps the code has (truncate, write, set the variable, read it
  back in a new session), and the dial of the provider blocks.  `up` says whether
  the process runs, `info` whether cluster-info can be read; `tries[j]` counts the
  failed attempts for a claim, as in `Provisioner`, and is lost with the process.  The requests to
  the object storage are one step, `Finish`: `Provisioner` has them.  Composed
  with `VolumeOptions`, which it extends: a claim may be refused before or after
  its bundle has been written.  `own` is history: no call with another bundle, or
  for another service, has run beside this one.
* `MCProvisionerProcess` and its `.cfg` file - the instance for TLC.
* `ProcessProofs` - the theorems about both.

* `NodePaths` - a path of a node: a directory, the password file in it, and the
  stack of filesystems mounted on it, with what mount, unmount, `RemoveAll`, a
  write of the password file do to it.  All of it is external.
* `S3fsDriver` - `Mount` and `Unmount`, each call a process.  `call[p]` is the
  running call of process `p`: `pc` is its next system call, `phase` says from
  where `unmountPath` was called (`createEmptyMountpoint`, the deferred cleanup,
  the two calls of `Unmount`), `chkErr` is `checkMountErr`, `logged` says
  that the cleanup's `mounterr` was not nil, `ok` is the answer.
  Each system call is one action, which may fail; a process may be killed
  between any two.  `Returned` is where `unmountPath` returns to.  `Check`
  stands for everything `Mount` does before the target directory: it touches
  nothing that later steps read, so its only outcome is to go on or to fail.
* `VolumeMounts` - what the driver promises whoever looks at a target directory
  only: a `Mount` adds the bucket it names and succeeds, or leaves all as it was; an
  `Unmount` takes off at most one mount; nobody's call is seen elsewhere.
  `S3fsDriver` instantiates it as `Volumes`: the mounts of the target, and with
  `Work` how far a call has come (`Stage`): begun, released (an Unmount that is at
  the data path), succeeded or failed.  The data path, the password and all
  cleaning up do not exist there.
* `MCS3fsDriver` and its `.cfg` files - instances for TLC.
* `S3fsDriverProofs`, `MountProofs` - the theorems about the driver.

kubelet is external too: it mounts for a running pod until it is told that this
succeeded, unmounts for a pod that is gone likewise, and starts no call for a
target while it waits for one; `Restart` makes it forget calls and answers, and
the old processes go on.  `alone` is a history variable: no other call for the
target has run during this one.

External, modelled from its use: the controller's choice of what to do next
(`Submit`, `ShouldDelete`, `RemovePV`), COS, pods that write (`WriteObject`),
the end of a process (`Crash`; `Panic` is one the code causes itself).  A
process that began a `Provision` may go on with it long after the claim was
bound by another, or deleted: that is also what a stale informer cache amounts
to.  Operators whose comment begins with *mutant* are slips that the properties
have to notice; nothing in the specification uses them.

## What is checked

| Run | Instance | Shows |
|---|---|---|
| `races` | 2 processes, 2 claims, 3 generated names, 1 failure | `BoundBucketLives`, `BoundBucketConfigured`, `BoundDataKept`: no revert, retry or delete of anybody touches the bucket of a bound claim; `ImplementsLifecycle`: the refinement; `BucketGoesBeforeVolume`: two Deletes for one volume do not part it from its bucket |
| `requests` | 1 process, 10 kinds of request, 4 kinds of existing bucket, 2 failures | `TypeOK`, `NamedBeforeUse`, `RevertSparesOthers`, `BucketGoesBeforeVolume` |
| `no_orphans` | 1 process, 2 claims, 5 kinds of request, own bucket or none, 2 failures of the settings, the credentials or Delete | `NoOrphanBuckets`: the reverts are complete, from its creation until it has gone a generated bucket is held by a call or a volume |
| `recovery` | 2 processes, 1 claim, generated, own, shared and static buckets, page of 1, 2 objects, 2 failures or crashes | `ReleasedEventuallyGone`: a deletion that was cut off is completed; `PendingEventuallyBound`: after a first attempt that was cut off anywhere one more is enough |
| `driver_overlaps` | 2 driver processes, 1 target, 2 credentials, 3 failures, crashes or restarts | `TypeOK`, `MountServesRequest`, `UnmountClearsData`, `ObjectsKept`, `FailedMountForgets`: answers are true, the cleanup covers every exit, no object is lost; `ImplementsMounts`: the refinement |
| `driver_gone` | 1 process, 4 failures or crashes, fairness | `SecretOnlyInTmpfs`, `GoneEventuallyCleared`: the password stays off the disk, repeated Unmount succeeds in the end |
| `process` | 1 process, 2 threads per queue, up to 3 jobs, 2 bundles, every option in all pairs of the texts its kind tells apart, 2 faults, fairness | `TypeOK`, `OwnBundleTrusted`: nothing stale in file or environment reaches a session; `AcceptedMounts`, `MountsAsAsked`: provisioner and driver agree about options; `OutageLosesNobody`, `OthersGoOn`: the dial without a timeout loses no claim that has an attempt left, and stops nobody who does not dial |

Five runs show a disagreement of the code with its own comments, messages or
tests, and are expected to fail: `revert_finding`, `autodelete_finding`,
`nil_session_finding`, `versions_finding`, `unmount_finding`.  `PROJECT.json`
quotes the lines.  `versions_finding` is a property of `recovery`, which holds
for buckets without versioning.  In `recovery` the bucket with a user's name
needs no settings: two processes whose settings fail on the same named bucket
revert each other's creation until both have given the claim up.

Bounds.  `MaxFaults` bounds failed calls and crashes together; the only other
counter is `tries`, which the code itself bounds by giving up.  `Generated` bounds how often a name is drawn: when the names are used
up, claims that need one wait.  Two processes are what a rolling update runs; a
claim's calls only interact through a bucket or a volume, so two calls and one
that started earlier (three names) meet in every way the code has.  With three processes `BucketGoesBeforeVolume`
would not hold: while two Deletes remove a volume, a late `Provision` in the third
saves it again, and the second Delete removes it by its name.  A page of
one key and two objects give a listing that is not complete.  Calls of the
driver meet only on the two paths of one target, so one target is enough for
TLC; one process does for calls that cannot overlap, and after a restart the old
process and a new one do (`driver_overlaps`).  Two credentials tell the password
of an earlier mount from that of this one.  Three failures are what a stack of
two mounts on a path, left by a restart, and a failure in clearing it take.
In `process` two jobs are what a conflict takes, and three what it takes to fill
a pool of two and have one over; options vary one at a time, for no check or
resolution reads two of them (the two caches are one option here).  A process
that finds a bundle in the moment between truncation and writing dies of it;
this is one of the faults (`collision`), or two claims could stop the process for
ever.
User-named buckets are shared by whoever names them, so the data properties are
about generated names.  `CHECK_DEADLOCK FALSE`: when all claims are settled and
the failures are used up, nothing is left to do.

Fairness.  `FairSpec` of `Provisioner` asks each call of each process to go on
(worker threads), and a claim or volume whose last attempt failed to be taken up
again for as long as the controller does so.  How long that is comes from the
library (sig-storage-lib v6.3.0, not under `src/`) and what `main.go` passes it:

* A claim has two attempts in each process.  `FailedProvisionThreshold(1)` (35,
  167) queues it again after its first failure; after the second the controller
  gives up without forgetting the count, and the resync every 30 s leaves a claim
  alone that has one.  A new process starts from zero.  This is in the model
  (`GivenUp`), so no fairness asks for a third attempt.  `PendingEventuallyBound`,
  `OutageLosesNobody` and `OthersGoOn` are therefore about a claim that has an
  attempt left (`AttemptLeft`) when nothing fails any more.  They still say
  something of the code: whatever the attempts before have left behind, in the
  bucket, in another process, in the bundle's file or in a dial, does not fail
  that one.
* A volume has sixteen: the delete threshold keeps its default of 15.  With at most two
  failures in a run it is not reached, and it is not in the model.
  `ReleasedEventuallyGone` holds up to there; after a sixteenth failure the
  volume stays until the process is restarted.

In `ProvisionerProcess` a thread goes on, the container is restarted, and a job
that is not given up is taken in the end (`SF`: its queue is first in, first out);
the provider's return is an assumption of `OutageLosesNobody` alone, and a blocked
dial is never forced to end.  `faults` may start anywhere up to `MaxFaults`, so
that "nothing else fails from now on" (`faults = MaxFaults`) is a state that is
reached with any number of failures behind it.
For the driver, a process goes on and kubelet calls `Unmount` for a volume whose
pod is gone until it succeeds, which is what its reconciler does; neither
`Mount` nor the end of a pod is under fairness.  Users, pods, failures and
crashes are under no fairness.  Failures end because `MaxFaults` is finite: what
is shown is recovery after the last failure.

## What is proved

`ProvisionerProofs`, for all values of the constants, from the assumptions
`RequestsAssumption`, `ExistingAssumption`, `NamesAssumption` (generated names
differ from user names and from the empty name) and `MaxFaultsAssumption`:

* `TypeCorrect`, `BucketAlwaysNamed` - `TypeOK` and `NamedBeforeUse`.  Neither
  is inductive by itself: a listing is a set of objects only if there is a bucket
  to list.
* `BucketLives` - `BoundBucketLives`.  The invariant `LifeInv` says who may
  hold a generated name: it is drawn once (`Drawn`); until its volume is saved
  only the drawing call has it (`Exclusive`, `Unsaved`); then it belongs to one
  volume (`Distinct`); a `Delete` has it only for its own volume after the claim
  is gone (`DeletingOwn`); and a call that is past the access check knows the
  bucket exists (`Checked`).  `GoesOn` covers every step in which calls only go
  on or end; drawing a name, saving a volume, starting and finishing a delete
  have cases of their own.

`LifecycleProofs`, from the same assumptions and with `LifeInv`:

* `BucketConfigured`, `OthersSpared`, `DataKept` - `BoundBucketConfigured`,
  `RevertSparesOthers`, `BoundDataKept`.  The second is about reverts only: a
  claim that names a bucket of another instance and asks for auto-delete has it
  deleted by `Delete`, which looks at annotations and not at owners (866-907).
* `LifecycleImplemented` - `ImplementsLifecycle`.  Initial states map to initial
  states (`InitSimulates`) and every step to a step of one claim's life or to none
  (`NextSimulates`); binding needs that a generated bucket is empty until then,
  and everything else that nobody touches the bucket of another claim.

The invariant `StateInv` adds to `LifeInv` what state the buckets are in: a name
that is not drawn yet has no bucket, and one that a `Provision` works on is empty
and has the settings of the stages already passed (`Unspoilt`); a claim is bound
exactly while it has a volume (`Saved`); a call that would revert its creation has
not met a bucket of somebody else (`Spared`); and only a claim that exists has
calls (`Standing`).

`BoundaryProofs`, from the same assumptions: how far three of the
disagreements above go.  `AskedInv` says what a call has found out about its request at each
stage (`Asked`), and what of it its volume carries (`Carries`).

* `NilSessionConfined` - a session is missing only for a claim that is not
  validated, has no bucket created, and wants versioning or an object path;
  `SessionsMade` - without such claims `SessionBeforeUse` holds.
* `AutoDeleteOfCreated` - `AutoDeleteImpliesAutoCreate`, if auto-create is
  spelled `"true"` or `"false"` wherever it is spelled.
* `RevertsConfined` - a revert deletes what its call did not create only under a
  user's name; `RevertsOwn` - `RevertOnlyOwnCreation`, if every created bucket gets
  a generated name.

`ReclaimProofs`, with all of these:

* `BucketGoesFirst` - `BucketGoesBeforeVolume`, with at most two processes
  (`AtMostTwo`).  A running `Delete` follows its volume, or another `Delete` has
  removed it and no `Provision` for the claim is left that could save it again
  (`Following`); one about to remove the volume has deleted the bucket (`Gone`).
  Nobody creates the bucket anew in between because the claim is gone, its own
  late `Provision` draws another name, and a user's name is taken only if no
  other claim has it (`Sole`).
* `NothingForgotten` - `NoOrphanBuckets`, under four hypotheses.  None can be
  dropped: without any one of them, or of the four kinds of failure, TLC finds a
  behaviour that leaves a bucket behind.  They are: one process (`Single`); no failure that
  `Provision` does not revert (`Reverting`: creation whose answer is lost, the access
  check, the revert itself, the end of the process); one access mode (`OneMode`,
  refused at 773 when the bucket is there); no panic (`Sessioned`).  `TendInv` says
  that a `Provision` with a generated bucket that is there owns it and can delete
  it, for no version of an object is in it (`Tended`), and that only one saves a
  volume for its claim (`Unsettled`).

TLC has checked `AskedInv` and `ReclaimInv` as invariants of the instances of
`requests`, `races` and `no_orphans`, and `TendInv` of the last.

`ProcessProofs`, for all texts, jobs, threads, bundles and faults, from
`TextAssumption` (trimming a text twice is trimming it once, and the texts the
code itself uses are texts), `WorldsAssumption`, `BundlesAssumption`,
`ThreadsAssumption`:

* `AcceptedClaimMounts`, `ArgsAsAsked` - the two facts about options, for every
  request: the driver accepts what the provisioner has accepted, and the command
  line is `AsAsked` in every option.  The timeouts of a storage class have to be
  numbers for the first (`ClassTimeoutsFine`): the provisioner does not look at
  them, so a class with another text has its claims bound and every mount refused.
* `ProcessTypeCorrect`, `BundleTrusted`, `ProvisionedMounts`,
  `ProvisionedAsAsked` - `TypeOK`, `OwnBundleTrusted`, `AcceptedMounts`,
  `MountsAsAsked`.  `ProcessInv` follows the bundle of an undisturbed call: into
  the file, then into the environment, then into the session (`CallOK`).
  `TouchesOK` is the step of another thread in between: either it wants the same,
  or the call is no longer undisturbed.

`S3fsDriverProofs`, for any number of processes, targets, buckets and failures,
from `RequestsAssumption`, `MaxFaultsAssumption` and the two assumptions of
`NodePaths`:

* `DriverTypeCorrect`, `MountServes`, `UnmountClears`, `MountForgets`,
  `ObjectsSafe` - `TypeOK`, `MountServesRequest`, `UnmountClearsData`,
  `FailedMountForgets`, `ObjectsKept`.  Their
  invariant `DriverInv` says that a data path carries tmpfs mounts only
  (`IsData`), that a `RemoveAll` is only ever on its way to a data path
  (`CallOK`), that of two calls for a target neither is alone, and what a call
  that is alone has reached at each step (`Reached`): a tmpfs before the
  password is written, its password before s3fs is run.  `LocalStep` covers a
  step of a process on the paths of its own target; `Quiet` the steps that end
  where nothing is relied upon.
* `SecretStaysInTmpfs` - `SecretOnlyInTmpfs`, when `Faults` has no `"restart"`.
  The invariant adds `OneByOne`: kubelet knows every running call, so each is
  alone, and `Reached` says that the password is written into a tmpfs.  With a
  restart the property does not hold: an `Unmount` may detach the tmpfs between
  mount and write.

`MountProofs`, with `DriverInv`:

* `MountsImplemented` - `ImplementsMounts`.  Most steps are not seen at the target
  (`UnseenMaps`): they work on the data path, or only take the call to another
  stage.  Those that are seen are s3fs, which serves and succeeds in one step
  (`S3fsMaps`), the unmount of a target (`DetachMaps`), and an s3fs that dies.  Of
  the invariant it needs that `RemoveAll` is never on its way to a target.

Only model-checked: the liveness properties `ReleasedEventuallyGone`,
`PendingEventuallyBound`, `GoneEventuallyCleared`, `OutageLosesNobody` and
`OthersGoOn`, for fairness is out of the prover's reach.

## Not modelled

The driver's CA file; how kubelet itself looks at a mount point before it calls
the driver (the model allows the call in any case); `Split` of the additional
mount parameters; overflow of a number, which is a text that is no number.  How
the provider's answers are formed beyond coming in time, IAM and namespaces are a
failure of `Authorize`.  What the controller library does when saving a volume
fails for good.  A `Provision` and a `Delete` for the same claim do not run in one
process at once (they may in two).  The look-ups of `config.go` that only the log
level uses, the generated stubs, the logger, the deployment files.  The diagnostic
tool is a set of Python scripts that somebody runs by hand; it shares nothing
with the two programs but their logs.

What the model has and no property forbids, because the code has nothing against
it: overlapping claims with different CA bundles may get each other's; a claim
without a bundle gets the last one instead of the default; a broken cluster-info
keeps the process down; as many dialling claims as there are threads keep all
other claims waiting as long as the provider is away.  A claim whose two attempts
fail stays pending until the process is restarted, and a single outage may be
both: the first attempt comes out of the dial with an expired context, and if the
provider is away again the second one may end the same way.  A claim cannot turn
off a switch that its class has on.

## Plan

Done: `Provisioner` and `S3fsDriver` with an abstract specification each,
`VolumeOptions`, `ProvisionerProcess`, their instances and theorems.

1. The driver's CA file beside the overlapping calls of `S3fsDriver`.
2. The provider's answers: cluster type and service endpoints.
