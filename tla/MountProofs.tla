---------------------------- MODULE MountProofs ----------------------------
(***************************************************************************)
(* S3fsDriver implements VolumeMounts.  A step of a call maps to what its  *)
(* stage and the mounts of its target become (StepMaps); most steps leave  *)
(* the latter alone (UnseenMaps), because they work on the data path.      *)
(***************************************************************************)
EXTENDS S3fsDriverProofs

Views == [t \in Targets |-> TargetPath(t).mounts]

Works == [p \in Procs |-> Work(call[p])]

VolumeStep == [Volumes!Next]_(Volumes!vars)

\* The same call, another step.
SameCall(o, n) ==
  /\ n.pc # "idle"
  /\ n.kind = o.kind
  /\ n.target = o.target
  /\ n.req = o.req

\* From one stage a call may come to these, without anything seen at its target.
Unseen(o, n) ==
  /\ SameCall(o, n)
  /\ \/ Stage(n) = Stage(o)
     \/ Stage(o) \in {"begun", "released"} /\ Stage(n) = "failed"
     \/ o.kind = "unmount" /\ Stage(o) = "begun" /\ Stage(n) = "released"
     \/ o.kind = "unmount" /\ Stage(o) = "released" /\ Stage(n) = "succeeded"
-----------------------------------------------------------------------------
(* What a step changes. *)

\* The bucket of a call, if it has one.
BucketOf(o) == IF o.kind = "mount" THEN o.req.bucket ELSE "none"

\* A running call is at work.
LEMMA AtWork ==
  ASSUME NEW o, o.pc # "idle"
  PROVE  Work(o) = [ stage |-> Stage(o), kind |-> o.kind, target |-> o.target,
                     bucket |-> BucketOf(o) ]
BY DEF Work, BucketOf

\* What becomes of the work when one call becomes n.
LEMMA WorkGoes ==
  ASSUME DriverInv, NEW p \in Procs, NEW n, Go(p, n)
  PROVE  Works' = [Works EXCEPT ![p] = Work(n)]
BY DEF Works, Go, DriverInv, TypeOK

\* The same call at another stage.
LEMMA StageGoes ==
  ASSUME NEW o, o.pc # "idle", NEW n, SameCall(o, n)
  PROVE  Work(n) = [Work(o) EXCEPT !.stage = Stage(n)]
<1>1. Work(n) = [ stage |-> Stage(n), kind |-> o.kind, target |-> o.target,
                  bucket |-> BucketOf(o) ]
  BY AtWork DEF SameCall, BucketOf
<1> HIDE DEF SameCall
<1> QED
  BY <1>1, AtWork

\* The data path is not seen, the target is.
LEMMA ViewGoes ==
  ASSUME DriverInv
  PROVE  /\ UNCHANGED node => Views' = Views
         /\ \A t \in Targets : \A x :
              /\ node' = [node EXCEPT ![<<t, "data">>] = x] => Views' = Views
              /\ node' = [node EXCEPT ![<<t, "target">>] = x]
                   => Views' = [Views EXCEPT ![t] = x.mounts]
<1>1. ASSUME NEW t \in Targets, NEW x,
             node' = [node EXCEPT ![<<t, "data">>] = x]
      PROVE  Views' = Views
  <2>1. \A u \in Targets : TargetPath(u)' = TargetPath(u)
    BY <1>1 DEF TargetPath, DriverInv, TypeOK
  <2> QED
    BY <2>1 DEF Views
<1>2. ASSUME NEW t \in Targets, NEW x,
             node' = [node EXCEPT ![<<t, "target">>] = x]
      PROVE  Views' = [Views EXCEPT ![t] = x.mounts]
  <2>1. \A u \in Targets : TargetPath(u)' = IF u = t THEN x ELSE TargetPath(u)
    BY <1>2 DEF TargetPath, DriverInv, TypeOK
  <2> QED
    BY <2>1 DEF Views
<1>3. UNCHANGED node => Views' = Views
  BY DEF Views, TargetPath
<1> QED
  BY <1>1, <1>2, <1>3
-----------------------------------------------------------------------------
(* What a step maps to. *)

\* Nothing seen.
LEMMA UnseenMaps ==
  ASSUME DriverInv, NEW p \in Procs, Running(p), NEW n, Go(p, n),
         n = Idle \/ Unseen(call[p], n), Views' = Views
  PROVE  VolumeStep
<1> DEFINE o == call[p]
<1>1. /\ Works[p] = Work(o)
      /\ Work(o).stage = Stage(o) /\ Work(o).kind = o.kind
      /\ o.kind \in {"mount", "unmount"} /\ Stage(o) # "free"
  <2>1. o.pc # "idle" /\ o.kind \in {"mount", "unmount"}
    BY PathsOfCall DEF Running, CallOK, CallRecord
  <2>2. Stage(o) # "free"
    BY DEF Stage
  <2> QED
    BY <2>1, <2>2, AtWork DEF Works
<1>2. CASE n = Idle
  <2>1. Works' = [Works EXCEPT ![p] = Volumes!Free]
    BY <1>2, WorkGoes DEF Work, Idle, Volumes!Free
  <2>2. Works[p] # Volumes!Free
    BY <1>1 DEF Volumes!Free
  <2>3. Volumes!End(p)
    BY <2>1, <2>2 DEF Volumes!End, Works, Views
  <2> QED
    BY <2>3 DEF VolumeStep, Volumes!Next
<1>3. CASE Unseen(o, n)
  <2>1. Works' = [Works EXCEPT ![p].stage = Stage(n)]
    <3>1. Work(n) = [Work(o) EXCEPT !.stage = Stage(n)]
      BY <1>3, StageGoes DEF Unseen, Running
    <3> QED
      BY <1>1, <3>1, WorkGoes
  <2>2. CASE Stage(n) = Stage(o)
    <3>1. Works' = Works
      <4>1. Work(n) = Work(o)
        BY <1>3, <2>2 DEF Unseen, SameCall, Running, Work
      <4> QED
        BY <1>1, <4>1, WorkGoes DEF Works
    <3> QED
      BY <3>1 DEF VolumeStep, Volumes!vars, Works, Views
  <2>3. CASE Stage(o) \in {"begun", "released"} /\ Stage(n) = "failed"
    <3>1. Volumes!Fail(p)
      BY <1>1, <2>1, <2>3 DEF Volumes!Fail, Volumes!Comes, Works, Views
    <3> QED
      BY <3>1 DEF VolumeStep, Volumes!Next
  <2>4. CASE o.kind = "unmount" /\ Stage(o) = "begun" /\ Stage(n) = "released"
    <3>1. Volumes!Release(p)
      BY <1>1, <2>1, <2>4 DEF Volumes!Release, Volumes!Comes, Works, Views
    <3> QED
      BY <3>1 DEF VolumeStep, Volumes!Next
  <2>5. CASE o.kind = "unmount" /\ Stage(o) = "released" /\ Stage(n) = "succeeded"
    <3>1. Volumes!Succeed(p)
      BY <1>1, <2>1, <2>5 DEF Volumes!Succeed, Volumes!Comes, Works, Views
    <3> QED
      BY <3>1 DEF VolumeStep, Volumes!Next
  <2> QED
    BY <1>3, <2>2, <2>3, <2>4, <2>5 DEF Unseen
<1> QED
  BY <1>2, <1>3

\* The ways on within unmountPath and out of it are not seen.
LEMMA WaysUnseen ==
  ASSUME NEW o, CallOK(o), o.pc # "answer"
  PROVE  /\ \A pc : pc \notin {"idle", "answer"} => Unseen(o, At(o, pc))
         /\ Unseen(o, Answered(o, FALSE))
         /\ Unseen(o, Returned(o, FALSE))
         /\ Unseen(o, Returned(o, TRUE))
         /\ Unseen(o, AfterUnmount(o))
         /\ Unseen(o, DetachFailed(o))
         /\ o.kind = "mount" => Unseen(o, Cleanup(o))
<1> USE DEF CallOK, CallRecord, PhaseOfKind, Unseen, SameCall, Stage
<1>1. ASSUME NEW pc, pc \notin {"idle", "answer"}
      PROVE  Unseen(o, At(o, pc))
  BY <1>1 DEF At
<1>2. Unseen(o, Answered(o, FALSE))
  BY DEF Answered
<1>3. Unseen(o, [Answered(o, FALSE) EXCEPT !.logged = TRUE])
  BY DEF Answered
<1>4. Unseen(o, [Answered(o, FALSE) EXCEPT !.logged = FALSE])
  BY DEF Answered
<1>5. o.phase = "target" => Unseen(o, UnmountPath(o, "data"))
  BY DEF UnmountPath
<1>6. o.phase = "data" => Unseen(o, Answered(o, TRUE))
  BY DEF Answered
<1>7. o.kind = "mount" => Unseen(o, Cleanup(o))
  BY DEF Cleanup, UnmountPath
<1>8. o.phase \in {"empty", "cleanup", "target", "data"}
  OBVIOUS
<1> HIDE DEF CallOK, CallRecord, PhaseOfKind, Unseen, SameCall, Stage
<1>9. Unseen(o, Returned(o, FALSE)) /\ Unseen(o, Returned(o, TRUE))
  BY <1>1, <1>2, <1>3, <1>4, <1>5, <1>6, <1>8 DEF Returned
<1>10. Unseen(o, AfterUnmount(o))
  BY <1>1, <1>9 DEF AfterUnmount
<1>11. Unseen(o, DetachFailed(o))
  BY <1>1, <1>10 DEF DetachFailed
<1> QED
  BY <1>1, <1>2, <1>7, <1>9, <1>10, <1>11

\* unmountPath detaches a path: only that of the target is seen, and then it
\* is an Unmount that has not come to the data path.
LEMMA DetachMaps ==
  ASSUME DriverInv, NEW p \in Procs, Running(p), call[p].pc # "answer",
         Mounted(node[PathOf(call[p])]),
         node' = [node EXCEPT ![PathOf(call[p])] =
                    Unmounting(node[PathOf(call[p])])],
         Go(p, AfterUnmount(call[p]))
  PROVE  VolumeStep
<1> DEFINE o == call[p]
           tgt == TargetPath(o.target)
<1>1. CallOK(o) /\ o.target \in Targets /\ tgt \in Path
  BY PathsOfCall
<1>2. CASE o.phase = "target"
  <2>1. /\ Views' = [Views EXCEPT ![o.target] = Tail(@)]
        /\ Views[o.target] # <<>>
    <3>1. PathOf(o) = <<o.target, "target">> /\ node[PathOf(o)] = tgt
      BY <1>2 DEF PathOf, TargetPath
    <3>2. Unmounting(tgt).mounts = Tail(tgt.mounts) /\ tgt.mounts # <<>>
      BY <1>1, <3>1 DEF Unmounting, Path, Mounted
    <3>3. Views[o.target] = tgt.mounts
      BY <1>1 DEF Views
    <3>4. Views' = [Views EXCEPT ![o.target] = Unmounting(tgt).mounts]
      BY <1>1, <3>1, ViewGoes
    <3> QED
      BY <3>2, <3>3, <3>4
  <2>2. AfterUnmount(o) = UnmountPath(o, "data")
    BY <1>2 DEF AfterUnmount, Deletes, Returned
  <2>3. /\ SameCall(o, AfterUnmount(o))
        /\ Stage(o) = "begun" /\ Stage(AfterUnmount(o)) = "released"
        /\ o.kind = "unmount"
    BY <1>1, <1>2, <2>2
    DEF UnmountPath, SameCall, Stage, CallOK, CallRecord, PhaseOfKind
  <2>4. /\ Works[p] = [stage |-> "begun", kind |-> "unmount",
                       target |-> o.target, bucket |-> "none"]
        /\ Works' = [Works EXCEPT ![p].stage = "released"]
    <3>1. Works[p] = Work(o)
      BY DEF Works
    <3>2. Work(o) = [stage |-> "begun", kind |-> "unmount",
                     target |-> o.target, bucket |-> "none"]
      BY <2>3, AtWork DEF Running, BucketOf
    <3>3. Work(AfterUnmount(o)) = [Work(o) EXCEPT !.stage = "released"]
      BY <2>3, StageGoes DEF Running
    <3> QED
      BY <3>1, <3>2, <3>3, WorkGoes
  <2>5. /\ Works[p].stage = "begun" /\ Works[p].kind = "unmount"
        /\ Works[p].target = o.target
    BY <2>4
  <2> HIDE DEF o
  <2>6. Volumes!Comes(p, {"unmount"}, {"begun"}, "released")
    BY <2>4, <2>5 DEF Volumes!Comes, Works
  <2>7. /\ Views[Works[p].target] # <<>>
        /\ Views' = [Views EXCEPT ![Works[p].target] = Tail(@)]
    BY <2>1, <2>5
  <2>8. Volumes!Release(p)
    BY <2>6, <2>7 DEF Volumes!Release, Works, Views
  <2> QED
    BY <2>8 DEF VolumeStep, Volumes!Next
<1>3. CASE o.phase # "target"
  <2>1. PathOf(o) = <<o.target, "data">>
    BY <1>3 DEF PathOf
  <2>2. Views' = Views
    BY <1>1, <2>1, ViewGoes
  <2> QED
    BY <1>1, <2>2, WaysUnseen, UnseenMaps
<1> QED
  BY <1>2, <1>3

\* What unmountPath does.
LEMMA UnmountPathMaps ==
  ASSUME DriverInv, NEW p \in Procs,
         \/ PathExists(p) \/ IsMountpoint(p) \/ Detach(p) \/ ForceUnmount(p)
         \/ RemoveAll(p)
  PROVE  VolumeStep
<1> DEFINE o == call[p]
<1>1. Running(p) /\ o.pc # "answer" /\ CallOK(o) /\ o.target \in Targets
  <2>1. o.pc \in {"stat", "mountpoint", "detach", "force", "remove"}
    BY DEF PathExists, IsMountpoint, Detach, ForceUnmount, RemoveAll
  <2>2. Running(p)
    BY <2>1 DEF Running
  <2> QED
    BY <2>1, <2>2, PathsOfCall
<1>2. ASSUME NEW n, Go(p, n), Unseen(o, n), UNCHANGED node
      PROVE  VolumeStep
  BY <1>1, <1>2, ViewGoes, UnseenMaps
<1>3. CASE PathExists(p)
  <2>1. /\ UNCHANGED node
        /\ \/ Go(p, Returned(o, TRUE)) \/ Go(p, At(o, "mountpoint"))
           \/ Go(p, Returned(o, FALSE))
    BY <1>3 DEF PathExists
  <2> QED
    BY <1>1, <1>2, <2>1, WaysUnseen
<1>4. CASE IsMountpoint(p)
  <2>1. /\ UNCHANGED node
        /\ \/ Go(p, AfterUnmount(o))
           \/ \E err : Go(p, [o EXCEPT !.pc = "detach", !.chkErr = err])
    BY <1>4 DEF IsMountpoint
  <2>2. \A err : Unseen(o, [o EXCEPT !.pc = "detach", !.chkErr = err])
    BY <1>1 DEF Unseen, SameCall, Stage, CallOK, CallRecord
  <2> QED
    BY <1>1, <1>2, <2>1, <2>2, WaysUnseen
<1>5. CASE Detach(p)
  BY <1>1, <1>2, <1>5, WaysUnseen, DetachMaps DEF Detach
<1>6. CASE ForceUnmount(p)
  BY <1>1, <1>2, <1>6, WaysUnseen, DetachMaps DEF ForceUnmount
<1>7. CASE RemoveAll(p)
  <2>1. PathOf(o) = <<o.target, "data">>
    BY <1>1, <1>7 DEF RemoveAll, CallOK, Deletes, PathOf
  <2>2. /\ UNCHANGED node \/ \E x : node' = [node EXCEPT ![PathOf(o)] = x]
        /\ Go(p, Returned(o, TRUE)) \/ Go(p, Returned(o, FALSE))
    BY <1>7 DEF RemoveAll, RemoveFailed
  <2>3. CASE UNCHANGED node
    BY <1>1, <1>2, <2>2, <2>3, WaysUnseen
  <2>4. CASE \E x : node' = [node EXCEPT ![PathOf(o)] = x]
    <3>1. Views' = Views
      BY <1>1, <2>1, <2>4, ViewGoes
    <3> QED
      BY <1>1, <2>2, <3>1, WaysUnseen, UnseenMaps
  <2> QED
    BY <2>2, <2>3, <2>4
<1> QED
  BY <1>3, <1>4, <1>5, <1>6, <1>7

\* What Mount does on the data path and before.
LEMMA PrepareMaps ==
  ASSUME DriverInv, NEW p \in Procs,
         \/ Check(p) \/ CreateTarget(p) \/ MkdirAll(p) \/ MountTmpfs(p)
         \/ WritePassword(p)
  PROVE  VolumeStep
<1> DEFINE o == call[p]
<1>1. /\ Running(p) /\ o.pc # "answer" /\ CallOK(o) /\ o.target \in Targets
      /\ o.kind = "mount"
  <2>1. o.pc \in {"check", "target", "mkdir", "tmpfs", "passwd"}
    BY DEF Check, CreateTarget, MkdirAll, MountTmpfs, WritePassword
  <2>2. Running(p)
    BY <2>1 DEF Running
  <2> QED
    BY <2>1, <2>2, PathsOfCall DEF CallOK, PhaseOfKind
<1>2. Unseen(o, Deferred(At(o, "passwd")))
  BY <1>1
  DEF Unseen, SameCall, Stage, At, Deferred, CallOK, CallRecord, PhaseOfKind
<1>3. ASSUME NEW n, Go(p, n), Unseen(o, n),
             \/ UNCHANGED node
             \/ \E x : node' = [node EXCEPT ![<<o.target, "data">>] = x]
      PROVE  VolumeStep
  BY <1>1, <1>3, ViewGoes, UnseenMaps
<1>4. CASE Check(p)
  BY <1>1, <1>3, <1>4, WaysUnseen DEF Check
<1>5. CASE CreateTarget(p)
  <2>1. CASE /\ node' = [node EXCEPT ![<<o.target, "target">>].dir = TRUE]
             /\ Go(p, At(o, "stat"))
    <3> DEFINE x == [TargetPath(o.target) EXCEPT !.dir = TRUE]
    <3>1. node' = [node EXCEPT ![<<o.target, "target">>] = x]
      BY <2>1 DEF TargetPath
    <3>2. x.mounts = TargetPath(o.target).mounts
      BY <1>1, PathsOfCall DEF Path
    <3> HIDE DEF x
    <3>3. Views' = Views
      BY <1>1, <3>1, <3>2, ViewGoes DEF Views
    <3> QED
      BY <1>1, <2>1, <3>3, WaysUnseen, UnseenMaps
  <2>2. CASE UNCHANGED node /\ Go(p, Answered(o, FALSE))
    BY <1>1, <1>3, <2>2, WaysUnseen
  <2> QED
    BY <1>5, <2>1, <2>2 DEF CreateTarget
<1>6. CASE MkdirAll(p)
  <2>1. CASE /\ node' = [node EXCEPT ![<<o.target, "data">>].dir = TRUE]
             /\ Go(p, At(o, "tmpfs"))
    BY <1>1, <1>3, <2>1, WaysUnseen
  <2>2. CASE UNCHANGED node /\ Go(p, Answered(o, FALSE))
    BY <1>1, <1>3, <2>2, WaysUnseen
  <2> QED
    BY <1>6, <2>1, <2>2 DEF MkdirAll
<1>7. CASE MountTmpfs(p)
  <2>1. CASE /\ node' = [node EXCEPT ![<<o.target, "data">>] =
                           Mounting(@, EmptyTmpfs)]
             /\ Go(p, Deferred(At(o, "passwd")))
    BY <1>2, <1>3, <2>1
  <2>2. CASE UNCHANGED node /\ Go(p, Answered(o, FALSE))
    BY <1>1, <1>3, <2>2, WaysUnseen
  <2> QED
    BY <1>7, <2>1, <2>2 DEF MountTmpfs, TmpfsFailed
<1>8. CASE WritePassword(p)
  <2>1. CASE /\ node' = [node EXCEPT ![<<o.target, "data">>] =
                           WithPassword(@, o.req.secret)]
             /\ Go(p, At(o, "s3fs"))
    BY <1>1, <1>3, <2>1, WaysUnseen
  <2>2. CASE UNCHANGED node /\ Go(p, Cleanup(o))
    BY <1>1, <1>3, <2>2, WaysUnseen
  <2> QED
    BY <1>8, <2>1, <2>2 DEF WritePassword
<1> QED
  BY <1>4, <1>5, <1>6, <1>7, <1>8

\* s3fs is the one step of Mount that is seen, and then it has succeeded.
LEMMA S3fsMaps ==
  ASSUME DriverInv, NEW p \in Procs, RunS3fs(p)
  PROVE  VolumeStep
<1> DEFINE o == call[p]
           secret == Password(DataPath(o.target))
           m == [bucket |-> o.req.bucket, secret |-> secret, live |-> TRUE]
           tgt == TargetPath(o.target)
<1>1. /\ Running(p) /\ o.pc = "s3fs" /\ CallOK(o) /\ o.target \in Targets
      /\ o.kind = "mount" /\ o.phase = "cleanup" /\ tgt \in Path
  <2>1. Running(p) /\ o.pc = "s3fs"
    BY DEF RunS3fs, Running
  <2> QED
    BY <2>1, PathsOfCall DEF CallOK, PhaseOfKind
<1>2. CASE /\ secret # NoSecret
           /\ node' = [node EXCEPT ![<<o.target, "target">>] = Mounting(@, m)]
           /\ Go(p, Answered(o, TRUE))
  <2>1. secret \in Secrets
    <3>1. IsData(DataPath(o.target))
      BY <1>1, PathsOfCall
    <3>2. secret \in Secrets \cup {NoSecret}
      BY <3>1, DataMounts DEF Password, TmpfsMount, IsData, Path
    <3> QED
      BY <1>2, <3>2
  <2> HIDE DEF secret
  <2>2. Views' = [Views EXCEPT ![o.target] = <<m>> \o @]
    <3>1. node' = [node EXCEPT ![<<o.target, "target">>] = Mounting(tgt, m)]
      BY <1>2 DEF TargetPath
    <3>2. Mounting(tgt, m).mounts = <<m>> \o tgt.mounts
      BY <1>1 DEF Mounting, Path
    <3>3. Views[o.target] = tgt.mounts
      BY <1>1 DEF Views
    <3>4. Views' = [Views EXCEPT ![o.target] = Mounting(tgt, m).mounts]
      BY <1>1, <3>1, ViewGoes
    <3> QED
      BY <3>2, <3>3, <3>4
  <2> DEFINE n == Answered(o, TRUE)
  <2>3. SameCall(o, n) /\ Stage(o) = "begun" /\ Stage(n) = "succeeded"
    BY <1>1 DEF Answered, SameCall, Stage, CallOK, CallRecord
  <2>4. /\ Works[p] = [stage |-> "begun", kind |-> "mount",
                       target |-> o.target, bucket |-> o.req.bucket]
        /\ Works' = [Works EXCEPT ![p].stage = "succeeded"]
    <3>0. Go(p, n)
      BY <1>2
    <3> HIDE DEF n
    <3>1. Works[p] = Work(o)
      BY DEF Works
    <3>2. Work(o) = [stage |-> "begun", kind |-> "mount",
                     target |-> o.target, bucket |-> o.req.bucket]
      BY <1>1, <2>3, AtWork DEF BucketOf
    <3>3. Work(n) = [Work(o) EXCEPT !.stage = "succeeded"]
      BY <1>1, <2>3, StageGoes
    <3>4. Works' = [Works EXCEPT ![p].stage = "succeeded"]
      BY <3>0, <3>1, <3>3, WorkGoes
    <3> QED
      BY <3>1, <3>2, <3>4
  <2> HIDE DEF o
  <2>5. /\ Works[p].stage = "begun" /\ Works[p].kind = "mount"
        /\ Works[p].target = o.target /\ Works[p].bucket = o.req.bucket
    BY <2>4
  <2>6. Volumes!Comes(p, {"mount"}, {"begun"}, "succeeded")
    BY <2>4, <2>5 DEF Volumes!Comes, Works
  <2>7. Views' = [Views EXCEPT ![Works[p].target] =
                    <<[bucket |-> Works[p].bucket, secret |-> secret,
                       live |-> TRUE]>> \o @]
    BY <2>2, <2>5
  <2>8. Volumes!Serve(p)
    BY <2>1, <2>6, <2>7 DEF Volumes!Serve, Works, Views
  <2> QED
    BY <2>8 DEF VolumeStep, Volumes!Next
<1>3. CASE UNCHANGED node /\ Go(p, S3fsFailed(o))
  BY <1>1, <1>3, WaysUnseen, ViewGoes, UnseenMaps DEF S3fsFailed
<1> QED
  BY <1>2, <1>3 DEF RunS3fs

\* Who waits for a call and who runs beside it is not seen either.
LEMMA LabelsUnseen ==
  ASSUME NEW o, CallOK(o), NEW b \in BOOLEAN
  PROVE  /\ Work([o EXCEPT !.alone = b]) = Work(o)
         /\ Work([o EXCEPT !.known = b]) = Work(o)
<1> USE DEF Work, Stage, CallOK, CallRecord
<1>1. Work([o EXCEPT !.alone = b]) = Work(o)
  OBVIOUS
<1>2. Work([o EXCEPT !.known = b]) = Work(o)
  OBVIOUS
<1> QED
  BY <1>1, <1>2

\* kubelet starts a call.
LEMMA StartMaps ==
  ASSUME DriverInv, NEW p \in Procs, NEW t \in Targets, NEW first,
         CallOK(first), first.target = t, first.pc \in {"check", "stat"},
         first.phase # "data",
         first.kind = "mount" => first.req.bucket \in Buckets,
         Start(p, t, first)
  PROVE  VolumeStep
<1> DEFINE alone == \A x \in Procs : ~ RunningOn(x, t)
<1>1. /\ call' = [q \in Procs |->
                    CASE q = p -> [first EXCEPT !.alone = alone]
                      [] RunningOn(q, t) -> [call[q] EXCEPT !.alone = FALSE]
                      [] OTHER -> call[q]]
      /\ ~ Running(p)
      /\ UNCHANGED node
  BY DEF Start
<1>2. Works' = [Works EXCEPT ![p] = Work(first)]
  <2>1. alone \in BOOLEAN
    OBVIOUS
  <2> HIDE DEF alone
  <2>2. Work(call'[p]) = Work(first)
    <3>1. call'[p] = [first EXCEPT !.alone = alone]
      BY <1>1 DEF RunningOn
    <3> QED
      BY <2>1, <3>1, LabelsUnseen
  <2>3. ASSUME NEW q \in Procs, q # p
        PROVE  Work(call'[q]) = Work(call[q])
    <3>1. CASE RunningOn(q, t)
      <4>1. call'[q] = [call[q] EXCEPT !.alone = FALSE]
        BY <1>1, <2>3, <3>1
      <4>2. CallOK(call[q])
        BY <3>1 DEF RunningOn, DriverInv
      <4> QED
        BY <4>1, <4>2, LabelsUnseen
    <3>2. CASE ~ RunningOn(q, t)
      BY <1>1, <2>3, <3>2
    <3> QED
      BY <3>1, <3>2
  <2> QED
    BY <2>2, <2>3 DEF Works
<1>3. Works[p] = Volumes!Free
  BY <1>1 DEF Works, Work, Running, Volumes!Free
<1>4. Work(first) = [ stage |-> "begun", kind |-> first.kind, target |-> t,
                      bucket |-> BucketOf(first) ]
  <2>1. Stage(first) = "begun"
    BY DEF Stage
  <2> QED
    BY <2>1, AtWork
<1>5. Views' = Views
  BY <1>1, ViewGoes
<1>6. CASE first.kind = "mount"
  <2>1. Work(first) = Volumes!Begun("mount", t, first.req.bucket)
    BY <1>4, <1>6 DEF BucketOf, Volumes!Begun
  <2>2. \E b \in Buckets :
          Works' = [Works EXCEPT ![p] = Volumes!Begun("mount", t, b)]
    BY <1>2, <1>6, <2>1
  <2>3. Volumes!Begin(p)
    BY <1>3, <1>5, <2>2 DEF Volumes!Begin, Works, Views
  <2> QED
    BY <2>3 DEF VolumeStep, Volumes!Next
<1>7. CASE first.kind = "unmount"
  <2>1. Work(first) = Volumes!Begun("unmount", t, Volumes!NoBucket)
    BY <1>4, <1>7 DEF BucketOf, Volumes!Begun, Volumes!NoBucket
  <2>2. Volumes!Begin(p)
    BY <1>2, <1>3, <1>5, <2>1 DEF Volumes!Begin, Works, Views
  <2> QED
    BY <2>2 DEF VolumeStep, Volumes!Next
<1> QED
  BY <1>6, <1>7 DEF CallOK, CallRecord

\* An s3fs dies.
LEMMA DeathMaps ==
  ASSUME DriverInv, NEW t \in Targets, S3fsDies(t)
  PROVE  VolumeStep
<1> DEFINE tgt == TargetPath(t)
           m == [Top(tgt) EXCEPT !.live = FALSE]
<1>1. /\ tgt \in Path /\ Mounted(tgt) /\ UNCHANGED call
      /\ node' = [node EXCEPT ![<<t, "target">>] =
                    Mounting(Unmounting(tgt), m)]
  BY DEF S3fsDies, DriverInv, TypeOK, TargetPath
<1>2. Mounting(Unmounting(tgt), m).mounts = <<m>> \o Tail(tgt.mounts)
  BY <1>1 DEF Mounting, Unmounting, Path
<1>3. Views[t] = tgt.mounts /\ Views[t] # <<>>
  BY <1>1 DEF Views, Mounted
<1>4. Views' = [Views EXCEPT ![t] = Mounting(Unmounting(tgt), m).mounts]
  BY <1>1, ViewGoes
<1>5. Views' = [Views EXCEPT ![t] = <<[Head(@) EXCEPT !.live = FALSE]>> \o Tail(@)]
  BY <1>2, <1>3, <1>4 DEF Top
<1>6. Works' = Works
  BY <1>1 DEF Works
<1>7. Volumes!Die(t)
  BY <1>3, <1>5, <1>6 DEF Volumes!Die, Works, Views
<1> QED
  BY <1>7 DEF VolumeStep, Volumes!Next

\* A step that changes no mount and no work.
LEMMA Stutters ==
  ASSUME Views' = Views, Works' = Works
  PROVE  VolumeStep
BY DEF VolumeStep, Volumes!vars, Views, Works

\* Every step of the driver, of kubelet, and of what fails beside them.
LEMMA NextMaps == DriverInv /\ [Next]_vars => VolumeStep
<1> SUFFICES ASSUME DriverInv, [Next]_vars PROVE VolumeStep
  OBVIOUS
<1>1. ASSUME NEW p \in Procs, Answer(p) \/ Crash(p)
      PROVE  VolumeStep
  <2>1. Running(p) /\ Go(p, Idle) /\ UNCHANGED node
    BY <1>1 DEF Answer, Crash, Running
  <2> QED
    BY <2>1, ViewGoes, UnseenMaps
<1>2. ASSUME NEW p \in Procs, Step(p)
      PROVE  VolumeStep
  BY <1>1, <1>2, UnmountPathMaps, PrepareMaps, S3fsMaps DEF Step
<1>3. ASSUME NEW p \in Procs, NEW t \in Targets, StartMount(p, t)
      PROVE  VolumeStep
  <2>1. PICK r \in Requests :
          Start(p, t, [ pc |-> "check", kind |-> "mount", phase |-> "empty",
                        target |-> t, req |-> r, chkErr |-> FALSE,
                        ok |-> FALSE, logged |-> FALSE, known |-> TRUE, alone |-> TRUE ])
    BY <1>3 DEF StartMount
  <2> DEFINE first ==
        [ pc |-> "check", kind |-> "mount", phase |-> "empty",
          target |-> t, req |-> r, chkErr |-> FALSE, ok |-> FALSE,
          logged |-> FALSE, known |-> TRUE, alone |-> TRUE ]
  <2>2. /\ CallOK(first) /\ first.target = t /\ first.pc \in {"check", "stat"}
        /\ first.phase # "data" /\ first.req = r
    BY DEF CallOK, CallRecord, PhaseOfKind, Deletes
  <2>3. r.bucket \in Buckets
    BY RequestsAssumption DEF Request
  <2> HIDE DEF first
  <2>4. Start(p, t, first)
    BY <2>1 DEF first
  <2> QED
    BY <2>2, <2>3, <2>4, StartMaps
<1>4. ASSUME NEW p \in Procs, NEW t \in Targets, StartUnmount(p, t)
      PROVE  VolumeStep
  <2> DEFINE first ==
        [ pc |-> "stat", kind |-> "unmount", phase |-> "target",
          target |-> t, req |-> NoRequest, chkErr |-> FALSE, ok |-> FALSE,
          logged |-> FALSE, known |-> TRUE, alone |-> TRUE ]
  <2>1. /\ CallOK(first) /\ first.target = t /\ first.pc \in {"check", "stat"}
        /\ first.phase # "data" /\ first.kind = "unmount"
    BY DEF CallOK, CallRecord, PhaseOfKind, Deletes
  <2>2. Start(p, t, first)
    BY <1>4 DEF StartUnmount
  <2> HIDE DEF first
  <2> QED
    BY <2>1, <2>2, StartMaps
<1>5. CASE Restart
  <2>1. Works' = Works
    <3>1. ASSUME NEW q \in Procs
          PROVE  Work(call'[q]) = Work(call[q])
      <4>1. CASE Running(q)
        <5>1. call'[q] = [call[q] EXCEPT !.known = FALSE] /\ CallOK(call[q])
          BY <1>5, <4>1 DEF Restart, DriverInv
        <5> QED
          BY <5>1, LabelsUnseen
      <4>2. CASE ~ Running(q)
        <5>1. call'[q] = Idle
          BY <1>5, <4>2 DEF Restart
        <5> QED
          BY <4>2, <5>1 DEF Running, Idle, Work
      <4> QED
        BY <4>1, <4>2
    <3> QED
      BY <3>1 DEF Works
  <2>2. Views' = Views
    BY <1>5, ViewGoes DEF Restart
  <2> QED
    BY <2>1, <2>2, Stutters
<1>6. ASSUME UNCHANGED <<node, call>>
      PROVE  VolumeStep
  BY <1>6, ViewGoes, Stutters DEF Works
<1>7. ASSUME NEW t \in Targets, PodStarts(t) \/ PodGone(t)
      PROVE  VolumeStep
  BY <1>6, <1>7 DEF PodStarts, PodGone
<1>8. CASE UNCHANGED vars
  BY <1>6, <1>8 DEF vars
<1> QED
  BY <1>1, <1>2, <1>3, <1>4, <1>5, <1>7, <1>8, DeathMaps DEF Next

LEMMA InitMaps == Init => Volumes!Init
<1> SUFFICES ASSUME Init PROVE Volumes!Init
  OBVIOUS
<1>1. \A t \in Targets : TargetPath(t).mounts = <<>>
  BY DEF Init, TargetPath, NoPath
<1>2. \A p \in Procs : Work(call[p]) = Volumes!Free
  BY DEF Init, Idle, Work, Volumes!Free
<1> QED
  BY <1>1, <1>2 DEF Volumes!Init

\* The driver implements VolumeMounts: however calls overlap, fail, are killed
\* or are forgotten, each changes the mounts of its own target at most once, a
\* Mount exactly when it succeeds.
THEOREM MountsImplemented == Spec => ImplementsMounts
<1>1. Init => Volumes!Init
  BY InitMaps
<1>2. DriverInv /\ [Next]_vars => [Volumes!Next]_(Volumes!vars)
  BY NextMaps DEF VolumeStep
<1> QED
  BY <1>1, <1>2, DriverInvariant, PTL DEF Spec, ImplementsMounts, Volumes!Spec
=============================================================================
