----------------------------- MODULE S3fsDriver -----------------------------
(***************************************************************************)
(* The FlexVolume driver on one node: Mount and Unmount of                 *)
(* src/driver/driver.go, each call a process of its own started by kubelet *)
(* through src/cmd/driver/main.go.                                         *)
(*                                                                         *)
(* A volume mounted for a pod has two paths: the target directory kubelet  *)
(* names, where s3fs mounts the bucket, and a data path derived from it, a *)
(* small tmpfs that holds the password file of that s3fs.  Every system    *)
(* call is a step.  kubelet does not start a call for a target while one   *)
(* it knows of is running, but a restarted kubelet knows of none.          *)
(***************************************************************************)
EXTENDS NodePaths, Naturals

CONSTANTS
  Procs,       \* driver processes
  Targets,     \* directories kubelet has volumes mounted on, one per pod
  Requests,    \* what a mount call may ask for
  Faults,      \* the system calls that may fail
  MaxFaults    \* bound: failed calls, crashes and restarts in a behaviour

Request == [bucket : Buckets, secret : Secrets]

\* An unmount call is told the target and nothing else.
NoRequest == [bucket |-> Tmpfs, secret |-> NoSecret]

ASSUME RequestsAssumption == Requests \subseteq Request
ASSUME MaxFaultsAssumption == MaxFaults \in Nat

VARIABLES
  pod,       \* pod[t]: the pod that uses target t
  answer,    \* answer[t]: the last answer kubelet remembers about t
  node,      \* node[<<t, "target">>] and node[<<t, "data">>]: the two paths
  wiped,     \* buckets whose objects a driver has deleted
  call,      \* call[p]: the call process p runs
  faults     \* failed calls, crashes and restarts so far

vars == <<pod, answer, node, wiped, call, faults>>

\* A running call.  `phase` is which call of unmountPath it is in or has next:
\* of createEmptyMountpoint, of Mount's deferred cleanup, or Unmount's two.
\* `known` says kubelet waits for the answer; `alone` is a history variable:
\* no other call for the same target has run at the same time.
CallRecord ==
  [ pc     : {"check", "target", "stat", "mountpoint", "detach",
              "force", "remove", "mkdir", "tmpfs", "passwd", "s3fs", "answer"},
    kind   : {"mount", "unmount"},
    phase  : {"empty", "cleanup", "target", "data"},
    target : Targets,
    req    : Requests \cup {NoRequest},
    chkErr : BOOLEAN,     \* checkMountErr # nil
    ok     : BOOLEAN,     \* the answer's status
    logged : BOOLEAN,     \* mounterr # nil: the cleanup's error was logged
    known  : BOOLEAN,
    alone  : BOOLEAN ]

Idle == [pc |-> "idle"]

Running(p) == call[p].pc # "idle"

\* Mount and Unmount each have their own phases.
PhaseOfKind(o) == o.kind = "mount" <=> o.phase \in {"empty", "cleanup"}

TypeOK ==
  /\ pod \in [Targets -> {"none", "running", "gone"}]
  /\ answer \in [Targets -> {"none", "mounted", "failed", "unmounted"}]
  /\ node \in [Targets \X {"target", "data"} -> Path]
  /\ wiped \subseteq Buckets
  /\ call \in [Procs -> CallRecord \cup {Idle}]
  /\ \A p \in Procs : Running(p) => PhaseOfKind(call[p])
  /\ faults \in 0 .. MaxFaults

TargetPath(t) == node[<<t, "target">>]

DataPath(t) == node[<<t, "data">>]

Init ==
  /\ pod = [t \in Targets |-> "none"]
  /\ answer = [t \in Targets |-> "none"]
  /\ node = [k \in Targets \X {"target", "data"} |-> NoPath]
  /\ wiped = {}
  /\ call = [p \in Procs |-> Idle]
  /\ faults = 0

RunningOn(p, t) == Running(p) /\ call[p].target = t

Fault(what) ==
  /\ what \in Faults
  /\ faults < MaxFaults
  /\ faults' = faults + 1

\* Process p takes its next step as `next`; the operands leave all else alone.
Go(p, next) == call' = [call EXCEPT ![p] = next]
-----------------------------------------------------------------------------
(* kubelet *)

PodStarts(t) ==
  /\ pod[t] = "none"
  /\ pod' = [pod EXCEPT ![t] = "running"]
  /\ UNCHANGED <<answer, node, wiped, call, faults>>

PodGone(t) ==
  /\ pod[t] = "running"
  /\ pod' = [pod EXCEPT ![t] = "gone"]
  /\ UNCHANGED <<answer, node, wiped, call, faults>>

Start(p, t, first) ==
  /\ ~ Running(p)
  /\ \A q \in Procs : RunningOn(q, t) => ~ call[q].known
  /\ call' = [q \in Procs |->
                CASE q = p -> [first EXCEPT !.alone =
                                 \A x \in Procs : ~ RunningOn(x, t)]
                  [] RunningOn(q, t) -> [call[q] EXCEPT !.alone = FALSE]
                  [] OTHER -> call[q]]
  /\ UNCHANGED <<pod, answer, node, wiped, faults>>

StartMount(p, t) ==
  /\ pod[t] = "running"
  /\ answer[t] # "mounted"
  /\ \E r \in Requests :
        Start(p, t, [ pc |-> "check", kind |-> "mount", phase |-> "empty",
                      target |-> t, req |-> r, chkErr |-> FALSE,
                      ok |-> FALSE, logged |-> FALSE, known |-> TRUE, alone |-> TRUE ])

StartUnmount(p, t) ==
  /\ pod[t] = "gone"
  /\ answer[t] # "unmounted"
  /\ Start(p, t, [ pc |-> "stat", kind |-> "unmount", phase |-> "target",
                   target |-> t, req |-> NoRequest, chkErr |-> FALSE,
                   ok |-> FALSE, logged |-> FALSE, known |-> TRUE, alone |-> TRUE ])

\* printResponse: nobody reads it if kubelet has been restarted meanwhile.
Answer(p) ==
  LET o == call[p]
      said == IF ~ o.ok THEN "failed"
              ELSE IF o.kind = "mount" THEN "mounted" ELSE "unmounted"
  IN /\ o.pc = "answer"
     /\ answer' = IF o.known THEN [answer EXCEPT ![o.target] = said] ELSE answer
     /\ Go(p, Idle)
     /\ UNCHANGED <<pod, node, wiped, faults>>

\* A restarted kubelet remembers nothing; the processes it started go on.
Restart ==
  /\ Fault("restart")
  /\ answer' = [t \in Targets |-> "none"]
  /\ call' = [p \in Procs |->
                IF Running(p) THEN [call[p] EXCEPT !.known = FALSE] ELSE Idle]
  /\ UNCHANGED <<pod, node, wiped>>

\* A killed process runs no deferred function.
Crash(p) ==
  /\ Running(p)
  /\ Fault("crash")
  /\ Go(p, Idle)
  /\ UNCHANGED <<pod, answer, node, wiped>>

\* An s3fs dies and leaves its mount behind.
S3fsDies(t) ==
  LET path == TargetPath(t)
  IN /\ Mounted(path)
     /\ Top(path).live
     /\ Fault("dies")
     /\ node' = [node EXCEPT ![<<t, "target">>] =
                   Mounting(Unmounting(path), [Top(path) EXCEPT !.live = FALSE])]
     /\ UNCHANGED <<pod, answer, wiped, call>>
-----------------------------------------------------------------------------
(* unmountPath(mountPath, delete) *)

\* mutant: the cleanup is given the target
PathOfCleanup(o) ==
  <<o.target, IF o.phase \in {"target", "cleanup"} THEN "target" ELSE "data">>
PathOf(o) == <<o.target, IF o.phase = "target" THEN "target" ELSE "data">>

At(o, pc) == [o EXCEPT !.pc = pc]

\* A call of unmountPath.
UnmountPath(o, phase) == [o EXCEPT !.pc = "stat", !.phase = phase]

Answered(o, ok) == [o EXCEPT !.pc = "answer", !.ok = ok]

\* unmountPath returns nil (`ok`) or an error to the phase that called it.
Returned(o, ok) ==
  CASE o.phase = "empty" /\ ok  -> At(o, "mkdir")
    [] o.phase = "target" /\ ok -> UnmountPath(o, "data")
    [] o.phase = "data" /\ ok   -> Answered(o, TRUE)
    [] o.phase = "cleanup"      -> [Answered(o, FALSE) EXCEPT !.logged = ~ ok]
    [] OTHER                    -> Answered(o, FALSE)

\* Everything but the target directory is deleted as well.
DeletesTarget(o) == TRUE             \* mutant: that is deleted, too
Deletes(o) == o.phase # "target"

AfterUnmount(o) ==
  IF Deletes(o) THEN At(o, "remove") ELSE Returned(o, TRUE)

\* pathExists: of the errors, only that of a corrupted mount is good enough.
PathExists(p) ==
  LET o == call[p]
      path == node[PathOf(o)]
  IN /\ o.pc = "stat"
     /\ \/ /\ ~ path.dir
           /\ Go(p, Returned(o, TRUE))
           /\ UNCHANGED faults
        \/ /\ path.dir
           /\ Go(p, At(o, "mountpoint"))
           /\ UNCHANGED faults
        \/ /\ Fault("stat")
           /\ Go(p, Returned(o, FALSE))
     /\ UNCHANGED <<pod, answer, node, wiped>>

\* isMountpoint, by the exit status of mountpoint(1) and the end of its
\* output.  Of a directory that is none, the status may be an error or not.
IsMountpoint(p) ==
  LET o == call[p]
      path == node[PathOf(o)]
      Found(isMount, err) ==
        IF isMount \/ err THEN [o EXCEPT !.pc = "detach", !.chkErr = err]
                          ELSE AfterUnmount(o)
  IN /\ o.pc = "mountpoint"
     /\ \/ /\ Mounted(path)
           /\ Go(p, Found(TRUE, Corrupted(path)))
           /\ UNCHANGED faults
        \/ /\ ~ Mounted(path)
           /\ \E err \in BOOLEAN : Go(p, Found(FALSE, err))
           /\ UNCHANGED faults
        \/ /\ Fault("mountpoint")
           /\ Go(p, Found(FALSE, TRUE))
     /\ UNCHANGED <<pod, answer, node, wiped>>

\* An error of unmount counts only if mountpoint(1) had none.
DetachFailedStrict(o) == At(o, "force")   \* mutant: it counts
DetachFailed(o) ==
  IF o.chkErr THEN AfterUnmount(o) ELSE At(o, "force")

\* unmount(MNT_DETACH)
Detach(p) ==
  LET o == call[p]
      path == node[PathOf(o)]
  IN /\ o.pc = "detach"
     /\ \/ /\ Mounted(path)
           /\ node' = [node EXCEPT ![PathOf(o)] = Unmounting(path)]
           /\ Go(p, AfterUnmount(o))
           /\ UNCHANGED faults
        \/ /\ \/ ~ Mounted(path) /\ UNCHANGED faults
              \/ Fault("detach")
           /\ Go(p, DetachFailed(o))
           /\ UNCHANGED node
     /\ UNCHANGED <<pod, answer, wiped>>

\* unmount(MNT_FORCE)
ForceUnmount(p) ==
  LET o == call[p]
      path == node[PathOf(o)]
  IN /\ o.pc = "force"
     /\ \/ /\ Mounted(path)
           /\ node' = [node EXCEPT ![PathOf(o)] = Unmounting(path)]
           /\ Go(p, AfterUnmount(o))
           /\ UNCHANGED faults
        \/ /\ \/ ~ Mounted(path) /\ UNCHANGED faults
              \/ Fault("force")
           /\ Go(p, Returned(o, FALSE))
           /\ UNCHANGED node
     /\ UNCHANGED <<pod, answer, wiped>>

RemoveFailedIgnored(o) == Returned(o, TRUE)     \* mutant: error swallowed
RemoveFailed(o) == Returned(o, FALSE)

\* removeAll(mountPath).  It cannot remove a mount point, only what is in it; any
\* other failure may leave everything in place.
RemoveAll(p) ==
  LET o == call[p]
      path == node[PathOf(o)]
  IN /\ o.pc = "remove"
     /\ \/ /\ ~ Mounted(path)
           /\ node' = [node EXCEPT ![PathOf(o)] = NoPath]
           /\ Go(p, Returned(o, TRUE))
           /\ UNCHANGED <<wiped, faults>>
        \/ /\ \/ Mounted(path) /\ UNCHANGED faults
              \/ Fault("remove")
           /\ node' = [node EXCEPT ![PathOf(o)] = Emptied(path)]
           /\ wiped' = wiped \cup Wiped(path)
           /\ Go(p, RemoveFailed(o))
        \/ /\ Fault("remove")
           /\ Go(p, RemoveFailed(o))
           /\ UNCHANGED <<node, wiped>>
     /\ UNCHANGED <<pod, answer>>
-----------------------------------------------------------------------------
(* Mount *)

\* The options, the CA file, the bucket and the object path.  Nothing the
\* other steps depend on has been touched by then: any failure is the end.
Check(p) ==
  LET o == call[p]
  IN /\ o.pc = "check"
     /\ \/ Go(p, At(o, "target")) /\ UNCHANGED faults
        \/ Fault("check") /\ Go(p, Answered(o, FALSE))
     /\ UNCHANGED <<pod, answer, node, wiped>>

\* createDirectoryIfNotExists: unlike pathExists it takes a corrupted mount
\* for an error.
CreateTarget(p) ==
  LET o == call[p]
      path == TargetPath(o.target)
  IN /\ o.pc = "target"
     /\ \/ /\ ~ Corrupted(path)
           /\ node' = [node EXCEPT ![<<o.target, "target">>].dir = TRUE]
           /\ Go(p, At(o, "stat"))
           /\ UNCHANGED faults
        \/ /\ \/ Corrupted(path) /\ UNCHANGED faults
              \/ Fault("target")
           /\ Go(p, Answered(o, FALSE))
           /\ UNCHANGED node
     /\ UNCHANGED <<pod, answer, wiped>>

\* createEmptyMountpoint after its unmountPath: mkdirAll ...
MkdirAll(p) ==
  LET o == call[p]
  IN /\ o.pc = "mkdir"
     /\ \/ /\ node' = [node EXCEPT ![<<o.target, "data">>].dir = TRUE]
           /\ Go(p, At(o, "tmpfs"))
           /\ UNCHANGED faults
        \/ /\ Fault("mkdir")
           /\ Go(p, Answered(o, FALSE))
           /\ UNCHANGED node
     /\ UNCHANGED <<pod, answer, wiped>>

\* ... and mount; the deferred cleanup is not yet in place when it fails, and
\* is from then on.
TmpfsFailedIgnored(o) == At(o, "passwd")  \* mutant: swallowed
TmpfsFailed(o) == Answered(o, FALSE)

Deferred(o) == [o EXCEPT !.phase = "cleanup"]

MountTmpfs(p) ==
  LET o == call[p]
      path == DataPath(o.target)
  IN /\ o.pc = "tmpfs"
     /\ \/ /\ path.dir
           /\ node' = [node EXCEPT ![<<o.target, "data">>] = Mounting(@, EmptyTmpfs)]
           /\ Go(p, Deferred(At(o, "passwd")))
           /\ UNCHANGED faults
        \/ /\ \/ ~ path.dir /\ UNCHANGED faults
              \/ Fault("tmpfs")
           /\ Go(p, TmpfsFailed(o))
           /\ UNCHANGED node
     /\ UNCHANGED <<pod, answer, wiped>>

\* The deferred cleanup of a Mount that is not done: unmountPath(data, true).
CleanupMissing(o) == Answered(o, FALSE)     \* mutant: no cleanup
CleanupResult(o) == UnmountPath(o, "data")  \* mutant: its nil is returned
Cleanup(o) == UnmountPath(o, "cleanup")

WritePassword(p) ==
  LET o == call[p]
      path == DataPath(o.target)
  IN /\ o.pc = "passwd"
     /\ \/ /\ path.dir
           /\ node' = [node EXCEPT ![<<o.target, "data">>] =
                         WithPassword(@, o.req.secret)]
           /\ Go(p, At(o, "s3fs"))
           /\ UNCHANGED faults
        \/ /\ \/ ~ path.dir /\ UNCHANGED faults
              \/ Fault("passwd")
           /\ Go(p, Cleanup(o))
           /\ UNCHANGED node
     /\ UNCHANGED <<pod, answer, wiped>>

S3fsFailedIgnored(o) == Answered(o, TRUE)  \* mutant: status not looked at
S3fsFailed(o) == Cleanup(o)

\* s3fs needs the password file and, unless the bucket mounted there already
\* shows no object, a target that is not mounted.
RunS3fs(p) ==
  LET o == call[p]
      path == TargetPath(o.target)
      secret == Password(DataPath(o.target))
  IN /\ o.pc = "s3fs"
     /\ \/ /\ secret # NoSecret
           /\ ~ Corrupted(path)
           /\ node' = [node EXCEPT ![<<o.target, "target">>] =
                         Mounting(@, [bucket |-> o.req.bucket,
                                      secret |-> secret, live |-> TRUE])]
           /\ Go(p, Answered(o, TRUE))
           /\ UNCHANGED faults
        \/ /\ \/ secret = NoSecret \/ Mounted(path)
              /\ UNCHANGED faults
           /\ Go(p, S3fsFailed(o))
           /\ UNCHANGED node
        \/ /\ Fault("s3fs")
           /\ Go(p, S3fsFailed(o))
           /\ UNCHANGED node
     /\ UNCHANGED <<pod, answer, wiped>>
-----------------------------------------------------------------------------
Step(p) ==
  \/ PathExists(p) \/ IsMountpoint(p) \/ Detach(p) \/ ForceUnmount(p) \/ RemoveAll(p)
  \/ Check(p) \/ CreateTarget(p) \/ MkdirAll(p) \/ MountTmpfs(p)
  \/ WritePassword(p) \/ RunS3fs(p) \/ Answer(p)

Next ==
  \/ \E p \in Procs : Step(p) \/ Crash(p)
  \/ \E p \in Procs, t \in Targets : StartMount(p, t) \/ StartUnmount(p, t)
  \/ \E t \in Targets : PodStarts(t) \/ PodGone(t) \/ S3fsDies(t)
  \/ Restart

Spec == Init /\ [][Next]_vars

\* A process goes on; kubelet calls Unmount for a pod that is gone until it
\* is told that it succeeded.
Fairness ==
  /\ \A p \in Procs : WF_vars(Step(p))
  /\ \A t \in Targets : WF_vars(\E p \in Procs : StartUnmount(p, t))

FairSpec == Spec /\ Fairness
-----------------------------------------------------------------------------
(* Properties. *)

\* Process p is about to give its answer and nothing else has run meanwhile.
Answering(p, kind, ok) ==
  /\ call[p].pc = "answer"
  /\ call[p].kind = kind
  /\ call[p].ok = ok
  /\ call[p].alone

\* A password is never written to the node's disk, only into a tmpfs: no
\* failure or crash between unmount, removeAll, mkdirAll and mount opens a
\* way to the directory underneath (createEmptyMountpoint 236-267, 569-575).
SecretOnlyInTmpfs == \A t \in Targets : DataPath(t).file = NoSecret

\* A Mount that ran alone and reports success has put an s3fs on the target
\* that serves the requested bucket with the requested credentials, whatever
\* earlier calls, dead processes or restarts left on both paths (542-708).
MountServesRequest ==
  \A p \in Procs : Answering(p, "mount", TRUE) =>
    LET path == TargetPath(call[p].target)
    IN /\ Mounted(path)
       /\ Top(path).bucket = call[p].req.bucket
       /\ Top(path).secret = call[p].req.secret

\* An Unmount that ran alone and reports success has removed the data path
\* and with it the password, though calls that overlapped earlier may have
\* left several mounts there, and errors of unmount are ignored (762-780).
UnmountClearsData ==
  \A p \in Procs : Answering(p, "unmount", TRUE) =>
    DataPath(call[p].target) = NoPath

\* Whatever is mounted where, and whichever calls overlap, no RemoveAll ever
\* runs into an s3fs and deletes the bucket's objects (unmountPath 222-231).
ObjectsKept == wiped = {}

\* A Mount that ran alone and fails once it may have written the password has
\* removed the data path, or logged that it could not: comment at 558, "try
\* to delete cache upon error or panic".
FailedMountForgets ==
  \A p \in Procs :
    Answering(p, "mount", FALSE) /\ call[p].phase = "cleanup" =>
      call[p].logged \/ DataPath(call[p].target) = NoPath

\* When its pod is gone a volume is unmounted in the end and its data path
\* removed, from whatever state crashes and failures left it in: kubelet's
\* repeated Unmount never gets stuck on what an earlier call did or undid.
GoneEventuallyCleared ==
  \A t \in Targets :
    pod[t] = "gone" ~> answer[t] = "unmounted" /\ DataPath(t) = NoPath

\* An Unmount that reports success has unmounted the target: message at 757,
\* "Volume unmounted successfully".
UnmountedMeansUnmounted ==
  \A p \in Procs : Answering(p, "unmount", TRUE) =>
    ~ Mounted(TargetPath(call[p].target))

-----------------------------------------------------------------------------
(* VolumeMounts is implemented. *)

\* How far a call has come for those who see nothing but the target.
Stage(o) ==
  CASE o.pc = "answer" -> IF o.ok THEN "succeeded" ELSE "failed"
    [] o.pc # "answer" /\ o.phase = "data" -> "released"
    [] OTHER -> "begun"

Work(o) ==
  IF o.pc = "idle" THEN [stage |-> "free"]
  ELSE [ stage |-> Stage(o), kind |-> o.kind, target |-> o.target,
         bucket |-> IF o.kind = "mount" THEN o.req.bucket ELSE "none" ]

Volumes == INSTANCE VolumeMounts
             WITH Callers <- Procs,
                  view <- [t \in Targets |-> TargetPath(t).mounts],
                  work <- [p \in Procs |-> Work(call[p])]

\* The driver does what VolumeMounts promises.  Both paths go through the same
\* unmountPath, and the cleanup of a failing Mount unmounts and deletes as well:
\* even so, a Mount that fails or is killed before s3fs leaves its target as it
\* was, one that succeeds has added just the bucket it was asked for (542-708),
\* an Unmount takes off one mount at most (762-780), and no call is seen at the
\* target of another, whatever overlaps, fails or has died.
ImplementsMounts == Volumes!Spec
=============================================================================
