-------------------------- MODULE S3fsDriverProofs --------------------------
(***************************************************************************)
(* Proofs about S3fsDriver.  One invariant, DriverInv, says what a call    *)
(* that runs alone has reached (Reached), that two calls for a target are  *)
(* never both alone, and what a data path looks like whoever works on it.  *)
(* LocalStep covers a step of one process on the paths of its own target.  *)
(***************************************************************************)
EXTENDS S3fsDriver, SequenceTheorems, TLAPS

TmpfsMount ==
  [bucket : {Tmpfs}, secret : Secrets \cup {NoSecret}, live : {TRUE}]

\* A data path carries tmpfs mounts only, and none if there is no directory.
IsData(d) ==
  /\ d \in Path
  /\ d.mounts \in Seq(TmpfsMount)
  /\ ~ d.dir => d = NoPath

Serves(tgt, r) ==
  /\ Mounted(tgt)
  /\ Top(tgt).bucket = r.bucket
  /\ Top(tgt).secret = r.secret

\* What a call that is alone relies on, at the step it is about to take.
Reached(o, tgt, data) ==
  /\ o.pc = "passwd" => Mounted(data)
  /\ o.pc = "s3fs" => Password(data) = o.req.secret
  /\ o.pc = "answer" /\ o.ok /\ o.kind = "mount" => Serves(tgt, o.req)
  /\ o.pc = "answer" /\ o.ok /\ o.kind = "unmount" => data = NoPath
  /\ o.pc = "answer" /\ ~ o.ok /\ o.phase = "cleanup" => o.logged \/ data = NoPath

\* A call record as a step of process p leaves it.
CallOK(o) ==
  /\ o \in CallRecord
  /\ PhaseOfKind(o)
  /\ o.pc = "remove" => Deletes(o)
  /\ o.pc \in {"check", "target", "mkdir", "tmpfs"} => o.phase = "empty"
  /\ o.pc \in {"passwd", "s3fs"} => o.phase = "cleanup"

DriverInv ==
  /\ TypeOK
  /\ wiped = {}
  /\ \A t \in Targets : IsData(DataPath(t))
  /\ \A p \in Procs : Running(p) => CallOK(call[p])
  /\ \A p, q \in Procs :
       p # q /\ Running(p) /\ Running(q) /\ call[p].target = call[q].target
         => ~ call[p].alone
  /\ \A p \in Procs : Running(p) /\ call[p].alone =>
       Reached(call[p], TargetPath(call[p].target),
                        DataPath(call[p].target))
-----------------------------------------------------------------------------
(* Paths *)

\* Pushing on a sequence and popping off it.
LEMMA PushPop ==
  ASSUME NEW S, NEW s \in Seq(S)
  PROVE  /\ s # <<>> => Head(s) \in S /\ Tail(s) \in Seq(S)
         /\ \A m \in S : /\ <<m>> \o s \in Seq(S)
                         /\ <<m>> \o s # <<>>
                         /\ Head(<<m>> \o s) = m
<1>1. s # <<>> => Head(s) \in S /\ Tail(s) \in Seq(S)
  OBVIOUS
<1>2. ASSUME NEW m \in S
      PROVE  <<m>> \o s \in Seq(S) /\ <<m>> \o s # <<>> /\ Head(<<m>> \o s) = m
  <2>1. <<m>> \in Seq(S) /\ Len(<<m>>) = 1 /\ <<m>>[1] = m
    OBVIOUS
  <2>2. <<m>> \o s \in Seq(S) /\ Len(<<m>> \o s) = 1 + Len(s)
    BY <2>1
  <2>3. (<<m>> \o s)[1] = m
    BY <2>1
  <2> QED
    BY <2>2, <2>3
<1> QED
  BY <1>1, <1>2

\* Mounts and unmounts of a path give a path.
LEMMA MountPath ==
  ASSUME NEW path \in Path
  PROVE  /\ Mounted(path) => Top(path) \in Mount /\ Unmounting(path) \in Path
         /\ \A m \in Mount : /\ Mounting(path, m) \in Path
                             /\ Mounted(Mounting(path, m))
                             /\ Top(Mounting(path, m)) = m
<1> path.mounts \in Seq(Mount)
  BY DEF Path
<1>1. Mounted(path) => Top(path) \in Mount /\ Unmounting(path) \in Path
  BY PushPop DEF Path, Mounted, Top, Unmounting
<1>2. ASSUME NEW m \in Mount
      PROVE  /\ Mounting(path, m) \in Path
             /\ Mounted(Mounting(path, m))
             /\ Top(Mounting(path, m)) = m
  <2>1. /\ <<m>> \o path.mounts \in Seq(Mount)
        /\ <<m>> \o path.mounts # <<>>
        /\ Head(<<m>> \o path.mounts) = m
    BY PushPop
  <2>2. /\ Mounting(path, m) \in Path
        /\ Mounting(path, m).mounts = <<m>> \o path.mounts
    BY <2>1 DEF Path, Mounting
  <2> QED
    BY <2>1, <2>2 DEF Mounted, Top
<1> QED
  BY <1>1, <1>2

\* The same of a data path, which stays a data path.
LEMMA DataMounts ==
  ASSUME NEW d, IsData(d)
  PROVE  /\ Mounted(d) => /\ Top(d) \in TmpfsMount
                          /\ d.dir
                          /\ IsData(Unmounting(d))
         /\ d.dir => \A m \in TmpfsMount :
              /\ IsData(Mounting(d, m))
              /\ Mounted(Mounting(d, m))
              /\ Top(Mounting(d, m)) = m
<1> d \in Path /\ d.mounts \in Seq(TmpfsMount)
  BY DEF IsData
<1>1. TmpfsMount \subseteq Mount
  BY DEF TmpfsMount, Mount
<1>2. ASSUME Mounted(d)
      PROVE  Top(d) \in TmpfsMount /\ d.dir /\ IsData(Unmounting(d))
  <2>1. d.dir
    BY <1>2 DEF IsData, Mounted, NoPath
  <2>2. Top(d) \in TmpfsMount /\ Tail(d.mounts) \in Seq(TmpfsMount)
    BY <1>2, PushPop DEF Mounted, Top
  <2>3. Unmounting(d) \in Path
    BY <1>2, MountPath
  <2>4. Unmounting(d).mounts = Tail(d.mounts) /\ Unmounting(d).dir
    BY <2>1 DEF Unmounting, Path
  <2> QED
    BY <2>1, <2>2, <2>3, <2>4 DEF IsData
<1>3. ASSUME d.dir, NEW m \in TmpfsMount
      PROVE  /\ IsData(Mounting(d, m))
             /\ Mounted(Mounting(d, m))
             /\ Top(Mounting(d, m)) = m
  <2>1. m \in Mount
    BY <1>1
  <2>2. /\ Mounting(d, m) \in Path
        /\ Mounted(Mounting(d, m))
        /\ Top(Mounting(d, m)) = m
    BY <2>1, MountPath
  <2>3. /\ Mounting(d, m).mounts = <<m>> \o d.mounts
        /\ Mounting(d, m).dir
    BY <1>3 DEF Mounting, Path
  <2>4. <<m>> \o d.mounts \in Seq(TmpfsMount)
    BY PushPop
  <2> QED
    BY <2>2, <2>3, <2>4 DEF IsData
<1> QED
  BY <1>2, <1>3

\* Writing the password file of a data path.
LEMMA DataPassword ==
  ASSUME NEW d, IsData(d), d.dir, NEW s \in Secrets \cup {NoSecret}
  PROVE  /\ IsData(WithPassword(d, s))
         /\ Password(WithPassword(d, s)) = s
         /\ Mounted(d) => WithPassword(d, s).file = d.file
<1> d \in Path
  BY DEF IsData
<1>1. CASE Mounted(d)
  <2> DEFINE u == Unmounting(d)
             m == [Top(d) EXCEPT !.secret = s]
  <2>1. IsData(u) /\ u.dir /\ u.file = d.file
    BY <1>1, DataMounts DEF Unmounting, Path
  <2>2. m \in TmpfsMount /\ m.secret = s
    <3>1. Top(d) \in TmpfsMount
      BY <1>1, DataMounts
    <3> QED
      BY <3>1 DEF TmpfsMount
  <2>3. /\ IsData(Mounting(u, m))
        /\ Mounted(Mounting(u, m))
        /\ Top(Mounting(u, m)) = m
    BY <2>1, <2>2, DataMounts
  <2>4. Mounting(u, m).file = u.file
    BY <2>1 DEF Mounting, IsData, Path
  <2>5. WithPassword(d, s) = Mounting(u, m)
    BY <1>1 DEF WithPassword
  <2> QED
    BY <2>1, <2>2, <2>3, <2>4, <2>5 DEF Password
<1>2. CASE ~ Mounted(d)
  <2>1. WithPassword(d, s) = [d EXCEPT !.file = s]
    BY <1>2 DEF WithPassword
  <2>2. /\ WithPassword(d, s) \in Path
        /\ WithPassword(d, s).file = s
        /\ WithPassword(d, s).dir
        /\ WithPassword(d, s).mounts = d.mounts
    BY <2>1 DEF Path
  <2> QED
    BY <1>2, <2>2 DEF IsData, Password, Mounted
<1> QED
  BY <1>1, <1>2

\* A RemoveAll of a data path deletes no object of a bucket.
LEMMA DataEmptied ==
  ASSUME NEW d, IsData(d)
  PROVE  /\ IsData(Emptied(d))
         /\ Wiped(d) = {}
         /\ Emptied(d).file \in {d.file, NoSecret}
<1> d \in Path
  BY DEF IsData
<1>1. Wiped(d) = {}
  BY DataMounts DEF Wiped, TmpfsMount
<1>2. CASE ~ d.dir
  <2>1. d = NoPath /\ ~ Mounted(d)
    BY <1>2 DEF IsData, NoPath, Mounted
  <2>2. Emptied(d) = [d EXCEPT !.file = NoSecret]
    BY <2>1 DEF Emptied, WithPassword, Corrupted
  <2>3. Emptied(d) = d
    BY <2>1, <2>2 DEF NoPath
  <2> QED
    BY <1>1, <2>3
<1>3. CASE d.dir
  <2>1. Emptied(d) = WithPassword(d, NoSecret)
    BY DataMounts DEF Emptied, Corrupted, TmpfsMount
  <2>2. IsData(WithPassword(d, NoSecret))
    BY <1>3, DataPassword
  <2>3. WithPassword(d, NoSecret).file \in {d.file, NoSecret}
    <3>1. CASE Mounted(d)
      BY <3>1, <1>3, DataPassword
    <3>2. CASE ~ Mounted(d)
      BY <3>2 DEF WithPassword, Path
    <3> QED
      BY <3>1, <3>2
  <2> QED
    BY <1>1, <2>1, <2>2, <2>3
<1> QED
  BY <1>2, <1>3

\* A missing path is a data path.
LEMMA NoDataPath == IsData(NoPath) /\ NoPath \in Path
BY DEF IsData, NoPath, Path
-----------------------------------------------------------------------------
(* Steps *)

\* What a step makes of the call it runs in.
Continues(o, n, tgt, data) ==
  /\ CallOK(n)
  /\ n.target = o.target
  /\ n.alone = o.alone
  /\ n.alone => Reached(n, tgt, data)

\* A process takes a step, or ends, and changes only its target's two paths.
LEMMA LocalStep ==
  ASSUME DriverInv, NEW p \in Procs, Running(p),
         NEW n, NEW tgt \in Path, NEW data, IsData(data),
         n = Idle \/ Continues(call[p], n, tgt, data),
         Go(p, n),
         node' = [node EXCEPT ![<<call[p].target, "target">>] = tgt,
                              ![<<call[p].target, "data">>] = data],
         pod' = pod,
         answer' \in [Targets -> {"none", "mounted", "failed", "unmounted"}],
         wiped' = wiped,
         faults' \in 0 .. MaxFaults
  PROVE  DriverInv'
<1> DEFINE t == call[p].target
<1>0. /\ call[p] \in CallRecord /\ t \in Targets
      /\ call \in [Procs -> CallRecord \cup {Idle}]
      /\ node \in [Targets \X {"target", "data"} -> Path]
  BY DEF DriverInv, TypeOK, CallOK, CallRecord
<1>1. /\ call' = [call EXCEPT ![p] = n]
      /\ n \in CallRecord \cup {Idle}
      /\ call'[p] = n
      /\ \A q \in Procs : q # p => call'[q] = call[q]
  BY <1>0 DEF Go, Continues, CallOK
<1>2. data \in Path
  BY DEF IsData
<1>3. /\ node' \in [Targets \X {"target", "data"} -> Path]
      /\ \A u \in Targets :
           /\ TargetPath(u)' = IF u = t THEN tgt ELSE TargetPath(u)
           /\ DataPath(u)' = IF u = t THEN data ELSE DataPath(u)
  <2> DEFINE Keys == Targets \X {"target", "data"}
             one == [node EXCEPT ![<<t, "target">>] = tgt]
  <2>1. /\ one \in [Keys -> Path]
        /\ \A k \in Keys : one[k] = IF k = <<t, "target">> THEN tgt ELSE node[k]
    BY <1>0
  <2>2. node' = [one EXCEPT ![<<t, "data">>] = data]
    OBVIOUS
  <2>3. /\ node' \in [Keys -> Path]
        /\ \A k \in Keys : node'[k] = IF k = <<t, "data">> THEN data ELSE one[k]
    BY <1>2, <2>1, <2>2
  <2>4. \A u \in Targets : <<u, "target">> \in Keys /\ <<u, "data">> \in Keys
    OBVIOUS
  <2>5. \A u \in Targets : /\ <<u, "target">> # <<t, "data">>
                          /\ <<u, "data">> # <<t, "target">>
                          /\ u # t => /\ <<u, "target">> # <<t, "target">>
                                       /\ <<u, "data">> # <<t, "data">>
    OBVIOUS
  <2> HIDE DEF Keys, one
  <2>6. ASSUME NEW u \in Targets
        PROVE  /\ TargetPath(u)' = IF u = t THEN tgt ELSE TargetPath(u)
               /\ DataPath(u)' = IF u = t THEN data ELSE DataPath(u)
    BY <2>1, <2>3, <2>4, <2>5 DEF TargetPath, DataPath
  <2> QED
    BY <2>3, <2>6 DEF Keys
<1>4. Running(p)' <=> n # Idle
  <2>1. n # Idle => n.pc # "idle"
    BY DEF Continues, CallOK, CallRecord
  <2> QED
    BY <1>1, <2>1 DEF Running, Idle
<1>5. \A q \in Procs : q # p => (Running(q)' <=> Running(q))
  BY <1>1 DEF Running
<1>6. \A q \in Procs : Running(q)' => CallOK(call'[q])
  BY <1>1, <1>4, <1>5 DEF DriverInv, Continues
<1>7. TypeOK'
  <2>1. call' \in [Procs -> CallRecord \cup {Idle}]
    BY <1>0, <1>1
  <2>2. \A q \in Procs : Running(q)' => PhaseOfKind(call'[q])
    BY <1>6 DEF CallOK
  <2>3. pod' \in [Targets -> {"none", "running", "gone"}] /\ wiped' \subseteq Buckets
    BY DEF DriverInv, TypeOK
  <2> QED
    BY <1>3, <2>1, <2>2, <2>3 DEF TypeOK
<1>8. wiped' = {}
  BY DEF DriverInv
<1>9. \A u \in Targets : IsData(DataPath(u)')
  <2>1. ASSUME NEW u \in Targets
        PROVE  IsData(DataPath(u)')
    <3>1. CASE u = t
      BY <1>3, <3>1
    <3>2. CASE u # t
      BY <1>3, <3>2 DEF DriverInv
    <3> QED
      BY <3>1, <3>2
  <2> QED
    BY <2>1
<1>10. \A x, y \in Procs :
         x # y /\ Running(x)' /\ Running(y)' /\ call'[x].target = call'[y].target
           => ~ call'[x].alone
  <2>1. n # Idle => n.target = t /\ n.alone = call[p].alone
    BY DEF Continues
  <2>2. SUFFICES ASSUME NEW x \in Procs, NEW y \in Procs, x # y,
                        Running(x)', Running(y)',
                        call'[x].target = call'[y].target
                 PROVE  ~ call'[x].alone
    OBVIOUS
  <2>3. Running(x) /\ Running(y)
    BY <1>5, <2>2
  <2>4. \A z \in {x, y} : call'[z].target = call[z].target
                          /\ call'[z].alone = call[z].alone
    BY <1>1, <1>4, <2>1, <2>2
  <2> QED
    BY <2>2, <2>3, <2>4 DEF DriverInv
<1>11. \A q \in Procs : Running(q)' /\ call'[q].alone =>
         Reached(call'[q], TargetPath(call[q].target)',
                           DataPath(call[q].target)')
  <2>1. SUFFICES ASSUME NEW q \in Procs, Running(q)', call'[q].alone
                 PROVE  Reached(call'[q], TargetPath(call[q].target)',
                                          DataPath(call[q].target)')
    OBVIOUS
  <2>2. CASE q = p
    <3>1. n # Idle /\ call'[q] = n /\ n.alone /\ n.target = t
      BY <2>1, <2>2, <1>1, <1>4 DEF Continues
    <3>2. Reached(n, tgt, data)
      BY <3>1 DEF Continues
    <3>3. TargetPath(call[q].target)' = tgt /\ DataPath(call[q].target)' = data
      BY <3>1, <1>0, <1>3
    <3> QED
      BY <3>1, <3>2, <3>3
  <2>3. CASE q # p
    <3>1. Running(q) /\ call'[q] = call[q] /\ call[q].alone
      BY <2>1, <2>3, <1>1, <1>5
    <3>2. call[q].target # t
      BY <2>3, <3>1 DEF DriverInv
    <3>3. call[q].target \in Targets
      BY <3>1 DEF DriverInv, CallOK, CallRecord
    <3>4. Reached(call[q], TargetPath(call[q].target),
                           DataPath(call[q].target))
      BY <3>1 DEF DriverInv
    <3> QED
      BY <1>3, <3>1, <3>2, <3>3, <3>4
  <2> QED
    BY <2>2, <2>3
<1> QED
  BY <1>6, <1>7, <1>8, <1>9, <1>10, <1>11 DEF DriverInv

\* The same when a step touches one of the two paths, or none.
LEMMA TargetStep ==
  ASSUME DriverInv, NEW p \in Procs, Running(p), NEW n, NEW tgt \in Path,
         n = Idle \/ Continues(call[p], n, tgt, DataPath(call[p].target)),
         Go(p, n),
         node' = [node EXCEPT ![<<call[p].target, "target">>] = tgt],
         UNCHANGED <<pod, answer, wiped>>, faults' \in 0 .. MaxFaults
  PROVE  DriverInv'
<1> DEFINE t == call[p].target
           data == DataPath(call[p].target)
           one == [node EXCEPT ![<<t, "target">>] = tgt]
<1>1. /\ t \in Targets
      /\ node \in [Targets \X {"target", "data"} -> Path]
      /\ answer \in [Targets -> {"none", "mounted", "failed", "unmounted"}]
  BY DEF DriverInv, TypeOK, CallOK, CallRecord
<1>2. IsData(data)
  BY <1>1 DEF DriverInv
<1>3. one[<<t, "data">>] = data
  BY <1>1 DEF DataPath
<1>4. one = [one EXCEPT ![<<t, "data">>] = one[<<t, "data">>]]
  BY <1>1
<1>5. node' = [node EXCEPT ![<<call[p].target, "target">>] = tgt,
                           ![<<call[p].target, "data">>] = data]
  BY <1>3, <1>4
<1> HIDE DEF data
<1> QED
  BY <1>1, <1>2, <1>5, LocalStep DEF data

LEMMA DataStep ==
  ASSUME DriverInv, NEW p \in Procs, Running(p), NEW n, NEW data, IsData(data),
         n = Idle \/ Continues(call[p], n, TargetPath(call[p].target), data),
         Go(p, n),
         node' = [node EXCEPT ![<<call[p].target, "data">>] = data],
         UNCHANGED <<pod, answer, wiped>>, faults' \in 0 .. MaxFaults
  PROVE  DriverInv'
<1> DEFINE t == call[p].target
           tgt == TargetPath(call[p].target)
<1>1. /\ t \in Targets
      /\ node \in [Targets \X {"target", "data"} -> Path]
      /\ answer \in [Targets -> {"none", "mounted", "failed", "unmounted"}]
  BY DEF DriverInv, TypeOK, CallOK, CallRecord
<1>2. tgt \in Path
  BY <1>1 DEF TargetPath
<1>3. node = [node EXCEPT ![<<t, "target">>] = tgt]
  BY <1>1 DEF TargetPath
<1>4. node' = [node EXCEPT ![<<call[p].target, "target">>] = tgt,
                           ![<<call[p].target, "data">>] = data]
  BY <1>3
<1> HIDE DEF tgt
<1> QED
  BY <1>1, <1>2, <1>4, LocalStep DEF tgt

LEMMA CallStep ==
  ASSUME DriverInv, NEW p \in Procs, Running(p), NEW n,
         n = Idle \/ Continues(call[p], n, TargetPath(call[p].target),
                                          DataPath(call[p].target)),
         Go(p, n),
         answer' \in [Targets -> {"none", "mounted", "failed", "unmounted"}],
         UNCHANGED <<pod, node, wiped>>, faults' \in 0 .. MaxFaults
  PROVE  DriverInv'
<1> DEFINE t == call[p].target
           tgt == TargetPath(call[p].target)
           data == DataPath(call[p].target)
           one == [node EXCEPT ![<<t, "target">>] = tgt]
<1>1. /\ t \in Targets
      /\ node \in [Targets \X {"target", "data"} -> Path]
  BY DEF DriverInv, TypeOK, CallOK, CallRecord
<1>2. IsData(data) /\ tgt \in Path
  BY <1>1 DEF DriverInv, TargetPath
<1>3. node = one
  BY <1>1 DEF TargetPath
<1>4. node = [node EXCEPT ![<<t, "data">>] = data]
  BY <1>1 DEF DataPath
<1>5. node' = [node EXCEPT ![<<call[p].target, "target">>] = tgt,
                           ![<<call[p].target, "data">>] = data]
  BY <1>3, <1>4
<1> HIDE DEF data, tgt
<1> QED
  BY <1>2, <1>5, LocalStep DEF data, tgt

\* A step that leaves the call where it relies on nothing.
Quiet(o, n) ==
  /\ CallOK(n)
  /\ n.target = o.target
  /\ n.alone = o.alone
  /\ n.pc \notin {"passwd", "s3fs"}
  /\ n.pc = "answer" => ~ n.ok /\ (n.phase = "cleanup" => n.logged)

LEMMA QuietContinues ==
  ASSUME NEW o, NEW n, Quiet(o, n), NEW tgt, NEW data
  PROVE  Continues(o, n, tgt, data)
BY DEF Quiet, Continues, Reached

\* The ways out of unmountPath: it relies on nothing after an error, and on
\* a path that is gone if it has succeeded on the data path.
LEMMA QuietReturns ==
  ASSUME NEW o, CallOK(o)
  PROVE  /\ Quiet(o, Returned(o, FALSE))
         /\ o.phase = "target" => Quiet(o, Returned(o, TRUE))
         /\ o.phase # "target" =>
              \A tgt : Continues(o, Returned(o, TRUE), tgt, NoPath)
         /\ Quiet(o, AfterUnmount(o))
         /\ Quiet(o, DetachFailed(o))
         /\ o.phase # "cleanup" => Quiet(o, Answered(o, FALSE))
         /\ o.kind = "mount" => Quiet(o, Cleanup(o))
<1> USE DEF Quiet, CallOK, CallRecord, PhaseOfKind, Deletes
<1>1. o.phase # "cleanup" => Quiet(o, Answered(o, FALSE))
  BY DEF Answered
<1>2. Quiet(o, Returned(o, FALSE))
  <2>1. CASE o.phase = "cleanup"
    <3>1. Returned(o, FALSE) = [Answered(o, FALSE) EXCEPT !.logged = TRUE]
      BY <2>1 DEF Returned
    <3> QED
      BY <2>1, <3>1 DEF Answered
  <2>2. CASE o.phase # "cleanup"
    <3>1. Returned(o, FALSE) = Answered(o, FALSE)
      BY <2>2 DEF Returned
    <3> QED
      BY <1>1, <2>2, <3>1
  <2> QED
    BY <2>1, <2>2
<1>3. o.phase = "target" => Quiet(o, Returned(o, TRUE))
  <2>1. o.phase = "target" => Returned(o, TRUE) = UnmountPath(o, "data")
    BY DEF Returned
  <2> QED
    BY <2>1 DEF UnmountPath
<1>4. ASSUME o.phase # "target", NEW tgt
      PROVE  Continues(o, Returned(o, TRUE), tgt, NoPath)
  <2>1. CASE o.phase = "empty"
    <3>1. Returned(o, TRUE) = At(o, "mkdir")
      BY <2>1 DEF Returned
    <3> QED
      BY <2>1, <3>1 DEF At, Continues, Reached
  <2>2. CASE o.phase = "data"
    <3>1. Returned(o, TRUE) = Answered(o, TRUE)
      BY <2>2 DEF Returned
    <3> QED
      BY <2>2, <3>1 DEF Answered, Continues, Reached
  <2>3. CASE o.phase = "cleanup"
    <3>1. Returned(o, TRUE) = [Answered(o, FALSE) EXCEPT !.logged = FALSE]
      BY <2>3 DEF Returned
    <3> QED
      BY <2>3, <3>1 DEF Answered, Continues, Reached
  <2>4. o.phase \in {"empty", "data", "cleanup"}
    BY <1>4
  <2> HIDE DEF CallOK, CallRecord, PhaseOfKind, Deletes, Quiet
  <2> QED
    BY <2>1, <2>2, <2>3, <2>4
<1>5. Quiet(o, AfterUnmount(o))
  <2>1. CASE o.phase = "target"
    <3>1. AfterUnmount(o) = Returned(o, TRUE)
      BY <2>1 DEF AfterUnmount
    <3> HIDE DEF Quiet
    <3> QED
      BY <2>1, <3>1, <1>3
  <2>2. CASE o.phase # "target"
    BY <2>2 DEF AfterUnmount, At
  <2> QED
    BY <2>1, <2>2
<1>6. Quiet(o, DetachFailed(o))
  <2>1. CASE o.chkErr
    BY <2>1, <1>5 DEF DetachFailed
  <2>2. CASE ~ o.chkErr
    BY <2>2 DEF DetachFailed, At
  <2> QED
    BY <2>1, <2>2
<1>7. o.kind = "mount" => Quiet(o, Cleanup(o))
  BY DEF Cleanup, UnmountPath
<1> HIDE DEF Quiet
<1> QED
  BY <1>1, <1>2, <1>3, <1>4, <1>5, <1>6, <1>7

\* A fault counts within its bound.
LEMMA FaultBound ==
  ASSUME DriverInv, NEW what, UNCHANGED faults \/ Fault(what)
  PROVE  faults' \in 0 .. MaxFaults
BY MaxFaultsAssumption DEF DriverInv, TypeOK, Fault

\* The paths a running call works on.
LEMMA PathsOfCall ==
  ASSUME DriverInv, NEW p \in Procs, Running(p)
  PROVE  /\ CallOK(call[p])
         /\ call[p].target \in Targets
         /\ TargetPath(call[p].target) \in Path
         /\ IsData(DataPath(call[p].target))
         /\ node[PathOf(call[p])] = IF call[p].phase = "target"
                                    THEN TargetPath(call[p].target)
                                    ELSE DataPath(call[p].target)
<1>1. CallOK(call[p]) /\ call[p].target \in Targets
  BY DEF DriverInv, CallOK, CallRecord
<1>2. /\ TargetPath(call[p].target) \in Path
      /\ IsData(DataPath(call[p].target))
  BY <1>1 DEF DriverInv, TypeOK, TargetPath
<1> QED
  BY <1>1, <1>2 DEF PathOf, TargetPath, DataPath

\* unmountPath detaches a path, of either kind, and goes on.
LEMMA PathUnmounted ==
  ASSUME DriverInv, NEW p \in Procs, Running(p), Mounted(node[PathOf(call[p])]),
         node' = [node EXCEPT ![PathOf(call[p])] =
                    Unmounting(node[PathOf(call[p])])],
         Go(p, AfterUnmount(call[p])),
         UNCHANGED <<pod, answer, wiped, faults>>
  PROVE  DriverInv'
<1> DEFINE o == call[p]
           tgt == TargetPath(o.target)
           data == DataPath(o.target)
<1>1. Quiet(o, AfterUnmount(o)) /\ faults' \in 0 .. MaxFaults
  BY PathsOfCall, QuietReturns DEF DriverInv, TypeOK
<1>2. CASE o.phase = "target"
  <2>1. PathOf(o) = <<o.target, "target">> /\ node[PathOf(o)] = tgt
    BY <1>2, PathsOfCall DEF PathOf
  <2>2. Unmounting(tgt) \in Path
    BY <2>1, PathsOfCall, MountPath
  <2>3. Continues(o, AfterUnmount(o), Unmounting(tgt), data)
    BY <1>1, QuietContinues
  <2> QED
    BY <1>1, <2>1, <2>2, <2>3, TargetStep
<1>3. CASE o.phase # "target"
  <2>1. PathOf(o) = <<o.target, "data">> /\ node[PathOf(o)] = data
    BY <1>3, PathsOfCall DEF PathOf
  <2>2. IsData(Unmounting(data))
    BY <2>1, PathsOfCall, DataMounts
  <2>3. Continues(o, AfterUnmount(o), tgt, Unmounting(data))
    BY <1>1, QuietContinues
  <2> QED
    BY <1>1, <2>1, <2>2, <2>3, DataStep
<1> QED
  BY <1>2, <1>3

\* A step that changes nothing but the call, to one that relies on nothing.
LEMMA QuietStep ==
  ASSUME DriverInv, NEW p \in Procs, Running(p), NEW n, Quiet(call[p], n),
         Go(p, n), UNCHANGED <<pod, answer, node, wiped>>,
         NEW what, UNCHANGED faults \/ Fault(what)
  PROVE  DriverInv'
<1>1. Continues(call[p], n, TargetPath(call[p].target), DataPath(call[p].target))
  BY QuietContinues
<1>2. answer' \in [Targets -> {"none", "mounted", "failed", "unmounted"}]
  BY DEF DriverInv, TypeOK
<1> QED
  BY <1>1, <1>2, FaultBound, CallStep

LEMMA StepPathExists ==
  ASSUME DriverInv, NEW p \in Procs, PathExists(p)
  PROVE  DriverInv'
<1> DEFINE o == call[p]
           path == node[PathOf(o)]
<1>1. Running(p) /\ CallOK(o) /\ UNCHANGED <<pod, answer, node, wiped>>
  BY PathsOfCall DEF PathExists, Running
<1>2. CASE ~ path.dir /\ Go(p, Returned(o, TRUE)) /\ UNCHANGED faults
  <2>1. CASE o.phase = "target"
    BY <1>1, <1>2, <2>1, QuietReturns, QuietStep
  <2>2. CASE o.phase # "target"
    <3>1. DataPath(o.target) = NoPath
      BY <1>1, <1>2, <2>2, PathsOfCall DEF IsData
    <3>2. Continues(o, Returned(o, TRUE), TargetPath(o.target), DataPath(o.target))
      BY <1>1, <2>2, <3>1, QuietReturns
    <3>3. answer' \in [Targets -> {"none", "mounted", "failed", "unmounted"}]
      BY <1>1 DEF DriverInv, TypeOK
    <3> QED
      BY <1>1, <1>2, <3>2, <3>3, FaultBound, CallStep
  <2> QED
    BY <2>1, <2>2
<1>3. CASE path.dir /\ Go(p, At(o, "mountpoint")) /\ UNCHANGED faults
  <2>1. Quiet(o, At(o, "mountpoint"))
    BY <1>1 DEF Quiet, CallOK, CallRecord, PhaseOfKind, At
  <2> QED
    BY <1>1, <1>3, <2>1, QuietStep
<1>4. CASE Fault("stat") /\ Go(p, Returned(o, FALSE))
  BY <1>1, <1>4, QuietReturns, QuietStep
<1> QED
  BY <1>2, <1>3, <1>4 DEF PathExists

LEMMA StepIsMountpoint ==
  ASSUME DriverInv, NEW p \in Procs, IsMountpoint(p)
  PROVE  DriverInv'
<1> DEFINE o == call[p]
           Found(isMount, err) ==
             IF isMount \/ err THEN [o EXCEPT !.pc = "detach", !.chkErr = err]
                               ELSE AfterUnmount(o)
<1>1. Running(p) /\ CallOK(o) /\ UNCHANGED <<pod, answer, node, wiped>>
  BY PathsOfCall DEF IsMountpoint, Running
<1>2. /\ UNCHANGED faults \/ Fault("mountpoint")
      /\ \E isMount, err \in BOOLEAN : Go(p, Found(isMount, err))
  BY DEF IsMountpoint, Corrupted, Mounted
<1>3. ASSUME NEW isMount \in BOOLEAN, NEW err \in BOOLEAN
      PROVE  Quiet(o, Found(isMount, err))
  <2>1. CASE isMount \/ err
    BY <1>1, <2>1 DEF Quiet, CallOK, CallRecord, PhaseOfKind
  <2>2. CASE ~ (isMount \/ err)
    BY <1>1, <2>2, QuietReturns
  <2> QED
    BY <2>1, <2>2
<1> HIDE DEF Found
<1> QED
  BY <1>1, <1>2, <1>3, QuietStep

LEMMA StepDetach ==
  ASSUME DriverInv, NEW p \in Procs, Detach(p)
  PROVE  DriverInv'
<1> DEFINE o == call[p]
           path == node[PathOf(o)]
<1>1. Running(p) /\ CallOK(o) /\ UNCHANGED <<pod, answer, wiped>>
  BY PathsOfCall DEF Detach, Running
<1>2. CASE /\ Mounted(path)
           /\ node' = [node EXCEPT ![PathOf(o)] = Unmounting(path)]
           /\ Go(p, AfterUnmount(o))
           /\ UNCHANGED faults
  BY <1>1, <1>2, PathUnmounted
<1>3. CASE /\ UNCHANGED faults \/ Fault("detach")
           /\ Go(p, DetachFailed(o))
           /\ UNCHANGED node
  BY <1>1, <1>3, QuietReturns, QuietStep
<1> QED
  BY <1>2, <1>3 DEF Detach

LEMMA StepForce ==
  ASSUME DriverInv, NEW p \in Procs, ForceUnmount(p)
  PROVE  DriverInv'
<1> DEFINE o == call[p]
           path == node[PathOf(o)]
<1>1. Running(p) /\ CallOK(o) /\ UNCHANGED <<pod, answer, wiped>>
  BY PathsOfCall DEF ForceUnmount, Running
<1>2. CASE /\ Mounted(path)
           /\ node' = [node EXCEPT ![PathOf(o)] = Unmounting(path)]
           /\ Go(p, AfterUnmount(o))
           /\ UNCHANGED faults
  BY <1>1, <1>2, PathUnmounted
<1>3. CASE /\ UNCHANGED faults \/ Fault("force")
           /\ Go(p, Returned(o, FALSE))
           /\ UNCHANGED node
  BY <1>1, <1>3, QuietReturns, QuietStep
<1> QED
  BY <1>2, <1>3 DEF ForceUnmount

LEMMA StepRemoveAll ==
  ASSUME DriverInv, NEW p \in Procs, RemoveAll(p)
  PROVE  DriverInv'
<1> DEFINE o == call[p]
           path == node[PathOf(o)]
<1>1. Running(p) /\ CallOK(o) /\ UNCHANGED <<pod, answer>>
  BY PathsOfCall DEF RemoveAll, Running
<1>2. PathOf(o) = <<o.target, "data">> /\ path = DataPath(o.target)
  BY <1>1 DEF RemoveAll, CallOK, Deletes, PathOf, DataPath
<1>3. CASE /\ node' = [node EXCEPT ![PathOf(o)] = NoPath]
           /\ Go(p, Returned(o, TRUE))
           /\ UNCHANGED <<wiped, faults>>
  <2>1. Continues(o, Returned(o, TRUE), TargetPath(o.target), NoPath)
    BY <1>1, QuietReturns DEF RemoveAll, CallOK, Deletes
  <2>2. faults' \in 0 .. MaxFaults
    BY <1>3 DEF DriverInv, TypeOK
  <2> QED
    BY <1>1, <1>2, <1>3, <2>1, <2>2, NoDataPath, DataStep
<1>4. CASE /\ UNCHANGED faults \/ Fault("remove")
           /\ node' = [node EXCEPT ![PathOf(o)] = Emptied(path)]
           /\ wiped' = wiped \cup Wiped(path)
           /\ Go(p, RemoveFailed(o))
  <2>1. IsData(Emptied(path)) /\ Wiped(path) = {}
    BY <1>1, <1>2, PathsOfCall, DataEmptied
  <2>2. Continues(o, RemoveFailed(o), TargetPath(o.target), Emptied(path))
    BY <1>1, QuietReturns, QuietContinues DEF RemoveFailed
  <2>3. wiped' = wiped /\ faults' \in 0 .. MaxFaults
    BY <1>4, <2>1, FaultBound
  <2> QED
    BY <1>1, <1>2, <1>4, <2>1, <2>2, <2>3, DataStep
<1>5. CASE /\ Fault("remove")
           /\ Go(p, RemoveFailed(o))
           /\ UNCHANGED <<node, wiped>>
  BY <1>1, <1>5, QuietReturns, QuietStep DEF RemoveFailed
<1> QED
  BY <1>3, <1>4, <1>5 DEF RemoveAll

LEMMA StepCheck ==
  ASSUME DriverInv, NEW p \in Procs, Check(p)
  PROVE  DriverInv'
<1> DEFINE o == call[p]
<1>1. Running(p) /\ CallOK(o) /\ UNCHANGED <<pod, answer, node, wiped>>
  BY PathsOfCall DEF Check, Running
<1>2. Quiet(o, At(o, "target"))
  BY <1>1 DEF Quiet, CallOK, CallRecord, PhaseOfKind, At, Check
<1>3. Quiet(o, Answered(o, FALSE))
  BY <1>1, QuietReturns DEF Check, CallOK
<1>4. \/ Go(p, At(o, "target")) /\ UNCHANGED faults
      \/ Fault("check") /\ Go(p, Answered(o, FALSE))
  BY DEF Check
<1> QED
  BY <1>1, <1>2, <1>3, <1>4, QuietStep

LEMMA StepCreateTarget ==
  ASSUME DriverInv, NEW p \in Procs, CreateTarget(p)
  PROVE  DriverInv'
<1> DEFINE o == call[p]
           tgt == [TargetPath(o.target) EXCEPT !.dir = TRUE]
<1>1. Running(p) /\ CallOK(o) /\ UNCHANGED <<pod, answer, wiped>>
  BY PathsOfCall DEF CreateTarget, Running
<1>2. CASE /\ node' = [node EXCEPT ![<<o.target, "target">>].dir = TRUE]
           /\ Go(p, At(o, "stat"))
           /\ UNCHANGED faults
  <2>1. node' = [node EXCEPT ![<<o.target, "target">>] = tgt]
    BY <1>2 DEF TargetPath
  <2>2. tgt \in Path
    BY <1>1, PathsOfCall DEF Path
  <2>3. Quiet(o, At(o, "stat"))
    BY <1>1 DEF Quiet, CallOK, CallRecord, PhaseOfKind, At
  <2>4. Continues(o, At(o, "stat"), tgt, DataPath(o.target))
    BY <2>3, QuietContinues
  <2>5. faults' \in 0 .. MaxFaults
    BY <1>2, FaultBound
  <2> HIDE DEF tgt
  <2> QED
    BY <1>1, <1>2, <2>1, <2>2, <2>4, <2>5, TargetStep
<1>3. CASE /\ UNCHANGED faults \/ Fault("target")
           /\ Go(p, Answered(o, FALSE))
           /\ UNCHANGED node
  <2>1. o.phase # "cleanup"
    BY <1>1 DEF CreateTarget, CallOK
  <2> QED
    BY <1>1, <1>3, <2>1, QuietReturns, QuietStep
<1> QED
  BY <1>2, <1>3 DEF CreateTarget

LEMMA StepMkdirAll ==
  ASSUME DriverInv, NEW p \in Procs, MkdirAll(p)
  PROVE  DriverInv'
<1> DEFINE o == call[p]
           data == [DataPath(o.target) EXCEPT !.dir = TRUE]
<1>1. Running(p) /\ CallOK(o) /\ UNCHANGED <<pod, answer, wiped>>
  BY PathsOfCall DEF MkdirAll, Running
<1>2. CASE /\ node' = [node EXCEPT ![<<o.target, "data">>].dir = TRUE]
           /\ Go(p, At(o, "tmpfs"))
           /\ UNCHANGED faults
  <2>1. node' = [node EXCEPT ![<<o.target, "data">>] = data]
    BY <1>2 DEF DataPath
  <2>2. IsData(data)
    BY <1>1, PathsOfCall DEF IsData, Path
  <2>3. Quiet(o, At(o, "tmpfs"))
    BY <1>1 DEF Quiet, CallOK, CallRecord, PhaseOfKind, At, MkdirAll
  <2>4. Continues(o, At(o, "tmpfs"), TargetPath(o.target), data)
    BY <2>3, QuietContinues
  <2>5. faults' \in 0 .. MaxFaults
    BY <1>2, FaultBound
  <2> HIDE DEF data
  <2> QED
    BY <1>1, <1>2, <2>1, <2>2, <2>4, <2>5, DataStep
<1>3. CASE /\ Fault("mkdir")
           /\ Go(p, Answered(o, FALSE))
           /\ UNCHANGED node
  <2>1. o.phase # "cleanup"
    BY <1>1 DEF MkdirAll, CallOK
  <2> QED
    BY <1>1, <1>3, <2>1, QuietReturns, QuietStep
<1> QED
  BY <1>2, <1>3 DEF MkdirAll

LEMMA StepMountTmpfs ==
  ASSUME DriverInv, NEW p \in Procs, MountTmpfs(p)
  PROVE  DriverInv'
<1> DEFINE o == call[p]
           data == Mounting(DataPath(o.target), EmptyTmpfs)
<1>1. Running(p) /\ CallOK(o) /\ UNCHANGED <<pod, answer, wiped>>
  BY PathsOfCall DEF MountTmpfs, Running
<1>2. CASE /\ DataPath(o.target).dir
           /\ node' = [node EXCEPT ![<<o.target, "data">>] = Mounting(@, EmptyTmpfs)]
           /\ Go(p, Deferred(At(o, "passwd")))
           /\ UNCHANGED faults
  <2>1. node' = [node EXCEPT ![<<o.target, "data">>] = data]
    BY <1>2 DEF DataPath
  <2>2. IsData(data) /\ Mounted(data)
    BY <1>1, <1>2, PathsOfCall, DataMounts DEF EmptyTmpfs, TmpfsMount
  <2>3. Continues(o, Deferred(At(o, "passwd")), TargetPath(o.target), data)
    BY <1>1, <2>2
    DEF Continues, CallOK, CallRecord, PhaseOfKind, At, Deferred, MountTmpfs,
        Reached
  <2>4. faults' \in 0 .. MaxFaults
    BY <1>2, FaultBound
  <2> HIDE DEF data
  <2> QED
    BY <1>1, <1>2, <2>1, <2>2, <2>3, <2>4, DataStep
<1>3. CASE /\ UNCHANGED faults \/ Fault("tmpfs")
           /\ Go(p, TmpfsFailed(o))
           /\ UNCHANGED node
  <2>1. o.phase # "cleanup"
    BY <1>1 DEF MountTmpfs, CallOK
  <2> QED
    BY <1>1, <1>3, <2>1, QuietReturns, QuietStep DEF TmpfsFailed
<1> QED
  BY <1>2, <1>3 DEF MountTmpfs

LEMMA StepWritePassword ==
  ASSUME DriverInv, NEW p \in Procs, WritePassword(p)
  PROVE  DriverInv'
<1> DEFINE o == call[p]
           data == WithPassword(DataPath(o.target), o.req.secret)
<1>1. Running(p) /\ CallOK(o) /\ UNCHANGED <<pod, answer, wiped>>
  BY PathsOfCall DEF WritePassword, Running
<1>2. o.kind = "mount"
  BY <1>1 DEF WritePassword, CallOK, PhaseOfKind
<1>3. CASE /\ DataPath(o.target).dir
           /\ node' = [node EXCEPT ![<<o.target, "data">>] =
                         WithPassword(@, o.req.secret)]
           /\ Go(p, At(o, "s3fs"))
           /\ UNCHANGED faults
  <2>1. node' = [node EXCEPT ![<<o.target, "data">>] = data]
    BY <1>3 DEF DataPath
  <2>2. o.req.secret \in Secrets \cup {NoSecret}
    BY <1>1, RequestsAssumption DEF CallOK, CallRecord, Request, NoRequest
  <2>3. IsData(data) /\ Password(data) = o.req.secret
    BY <1>1, <1>3, <2>2, PathsOfCall, DataPassword
  <2>4. Continues(o, At(o, "s3fs"), TargetPath(o.target), data)
    BY <1>1, <1>2, <2>3
    DEF Continues, CallOK, CallRecord, PhaseOfKind, At, Reached, WritePassword
  <2>5. faults' \in 0 .. MaxFaults
    BY <1>3, FaultBound
  <2> HIDE DEF data
  <2> QED
    BY <1>1, <1>3, <2>1, <2>3, <2>4, <2>5, DataStep
<1>4. CASE /\ UNCHANGED faults \/ Fault("passwd")
           /\ Go(p, Cleanup(o))
           /\ UNCHANGED node
  BY <1>1, <1>2, <1>4, QuietReturns, QuietStep
<1> QED
  BY <1>3, <1>4 DEF WritePassword

LEMMA StepRunS3fs ==
  ASSUME DriverInv, NEW p \in Procs, RunS3fs(p)
  PROVE  DriverInv'
<1> DEFINE o == call[p]
           secret == Password(DataPath(o.target))
           m == [bucket |-> o.req.bucket, secret |-> secret, live |-> TRUE]
           tgt == Mounting(TargetPath(o.target), m)
<1>1. Running(p) /\ CallOK(o) /\ UNCHANGED <<pod, answer, wiped>>
  BY PathsOfCall DEF RunS3fs, Running
<1>2. o.kind = "mount"
  BY <1>1 DEF RunS3fs, CallOK, PhaseOfKind
<1>3. CASE /\ node' = [node EXCEPT ![<<o.target, "target">>] = Mounting(@, m)]
           /\ Go(p, Answered(o, TRUE))
           /\ UNCHANGED faults
  <2>1. node' = [node EXCEPT ![<<o.target, "target">>] = tgt]
    BY <1>3 DEF TargetPath
  <2>2. o.req.bucket \in Buckets \cup {Tmpfs}
    BY <1>1, RequestsAssumption DEF CallOK, CallRecord, Request, NoRequest
  <2>3. secret \in Secrets \cup {NoSecret}
    <3>1. IsData(DataPath(o.target))
      BY <1>1, PathsOfCall
    <3> QED
      BY <3>1, DataMounts DEF Password, TmpfsMount, IsData, Path
  <2> HIDE DEF secret
  <2>4. m \in Mount /\ m.bucket = o.req.bucket /\ m.secret = secret
    BY <2>2, <2>3 DEF Mount
  <2>5. tgt \in Path /\ Mounted(tgt) /\ Top(tgt) = m
    <3> HIDE DEF m
    <3> QED
      BY <1>1, <2>4, PathsOfCall, MountPath
  <2>6. o.alone => secret = o.req.secret
    BY <1>1 DEF DriverInv, Reached, RunS3fs, secret
  <2> HIDE DEF tgt, m
  <2>7. o.alone => Serves(tgt, o.req)
    BY <2>4, <2>5, <2>6 DEF Serves
  <2>8. Continues(o, Answered(o, TRUE), tgt, DataPath(o.target))
    BY <1>1, <1>2, <2>7
    DEF Continues, CallOK, CallRecord, PhaseOfKind, Answered, Reached
  <2>9. faults' \in 0 .. MaxFaults
    BY <1>3, FaultBound
  <2> QED
    BY <1>1, <1>3, <2>1, <2>5, <2>8, <2>9, TargetStep
<1>4. CASE /\ UNCHANGED faults \/ Fault("s3fs")
           /\ Go(p, S3fsFailed(o))
           /\ UNCHANGED node
  BY <1>1, <1>2, <1>4, QuietReturns, QuietStep DEF S3fsFailed
<1> QED
  BY <1>3, <1>4 DEF RunS3fs

LEMMA StepAnswer ==
  ASSUME DriverInv, NEW p \in Procs, Answer(p)
  PROVE  DriverInv'
<1>1. Running(p) /\ call[p].target \in Targets
  BY PathsOfCall DEF Answer, Running
<1>2. answer' \in [Targets -> {"none", "mounted", "failed", "unmounted"}]
  BY <1>1 DEF Answer, DriverInv, TypeOK
<1>3. faults' \in 0 .. MaxFaults
  BY DEF Answer, DriverInv, TypeOK
<1> QED
  BY <1>1, <1>2, <1>3, CallStep DEF Answer

LEMMA StepCrash ==
  ASSUME DriverInv, NEW p \in Procs, Crash(p)
  PROVE  DriverInv'
<1>1. answer' \in [Targets -> {"none", "mounted", "failed", "unmounted"}]
  BY DEF Crash, DriverInv, TypeOK
<1>2. faults' \in 0 .. MaxFaults
  BY FaultBound DEF Crash
<1> QED
  BY <1>1, <1>2, CallStep DEF Crash

\* A step that changes of the running calls only the history and what
\* kubelet knows, and starts at most one, leaves the invariant.
LEMMA RelabelStep ==
  ASSUME DriverInv, UNCHANGED <<node, wiped>>,
         pod' \in [Targets -> {"none", "running", "gone"}],
         answer' \in [Targets -> {"none", "mounted", "failed", "unmounted"}],
         faults' \in 0 .. MaxFaults,
         call' \in [Procs -> CallRecord \cup {Idle}],
         \A q \in Procs : Running(q)' =>
           /\ CallOK(call'[q])
           /\ call'[q].alone => \A x \in Procs :
                x # q /\ Running(x)' => call'[x].target # call'[q].target
           /\ call'[q].alone => Reached(call'[q], TargetPath(call[q].target)',
                                                 DataPath(call[q].target)')
  PROVE  DriverInv'
<1>1. TypeOK'
  <2>1. node' \in [Targets \X {"target", "data"} -> Path] /\ wiped' \subseteq Buckets
    BY DEF DriverInv, TypeOK
  <2>2. \A q \in Procs : Running(q)' => PhaseOfKind(call'[q])
    BY DEF CallOK
  <2> QED
    BY <2>1, <2>2 DEF TypeOK
<1>2. wiped' = {} /\ \A u \in Targets : IsData(DataPath(u)')
  BY DEF DriverInv, DataPath
<1>3. \A x, y \in Procs :
        x # y /\ Running(x)' /\ Running(y)' /\ call'[x].target = call'[y].target
          => ~ call'[x].alone
  OBVIOUS
<1> QED
  BY <1>1, <1>2, <1>3 DEF DriverInv

LEMMA StepStart ==
  ASSUME DriverInv, NEW p \in Procs, NEW t \in Targets, NEW first,
         CallOK(first), first.target = t, first.pc \in {"check", "stat"},
         Start(p, t, first)
  PROVE  DriverInv'
<1> DEFINE new == [first EXCEPT !.alone = \A x \in Procs : ~ RunningOn(x, t)]
<1>1. /\ call' = [q \in Procs |->
                    CASE q = p -> new
                      [] RunningOn(q, t) -> [call[q] EXCEPT !.alone = FALSE]
                      [] OTHER -> call[q]]
      /\ ~ Running(p)
      /\ UNCHANGED <<pod, answer, node, wiped, faults>>
  BY DEF Start
<1>2. /\ call'[p] = new
      /\ \A q \in Procs : q # p /\ RunningOn(q, t) =>
                            call'[q] = [call[q] EXCEPT !.alone = FALSE]
      /\ \A q \in Procs : q # p /\ ~ RunningOn(q, t) => call'[q] = call[q]
  <2> HIDE DEF new
  <2>1. \A q \in Procs : ~ (q = p /\ RunningOn(q, t))
    BY <1>1 DEF RunningOn
  <2> QED
    BY <1>1, <2>1
<1>3. /\ CallOK(new)
      /\ new.target = t
      /\ new.pc = first.pc
      /\ new.alone <=> \A x \in Procs : ~ RunningOn(x, t)
  BY DEF CallOK, CallRecord, PhaseOfKind, Deletes
<1> HIDE DEF new
<1>4. ASSUME NEW q \in Procs, q # p
      PROVE  /\ Running(q)' <=> Running(q)
             /\ Running(q) => /\ CallOK(call'[q])
                              /\ call'[q].target = call[q].target
                              /\ call'[q].alone => /\ call'[q] = call[q]
                                                   /\ call[q].target # t
             /\ ~ Running(q) => call'[q] = call[q]
  <2>1. CASE RunningOn(q, t)
    <3>1. Running(q) /\ CallOK(call[q])
      BY <2>1 DEF RunningOn, DriverInv
    <3>2. call'[q] = [call[q] EXCEPT !.alone = FALSE]
      BY <1>2, <1>4, <2>1
    <3>3. /\ CallOK(call'[q])
          /\ call'[q].target = call[q].target
          /\ call'[q].pc = call[q].pc
          /\ ~ call'[q].alone
      BY <3>1, <3>2 DEF CallOK, CallRecord, PhaseOfKind, Deletes
    <3> QED
      BY <3>1, <3>3 DEF Running
  <2>2. CASE ~ RunningOn(q, t)
    BY <1>2, <1>4, <2>2 DEF RunningOn, Running, DriverInv
  <2> QED
    BY <2>1, <2>2
<1>5. call' \in [Procs -> CallRecord \cup {Idle}]
  <2>1. ASSUME NEW q \in Procs
        PROVE  call'[q] \in CallRecord \cup {Idle}
    <3>1. CASE q = p
      BY <1>2, <1>3, <3>1 DEF CallOK
    <3>2. CASE q # p
      <4>1. CASE Running(q)
        BY <1>4, <3>2, <4>1 DEF CallOK
      <4>2. CASE ~ Running(q)
        BY <1>4, <3>2, <4>2 DEF DriverInv, TypeOK
      <4> QED
        BY <4>1, <4>2
    <3> QED
      BY <3>1, <3>2
  <2> QED
    BY <1>1, <2>1
<1>6. ASSUME NEW q \in Procs, Running(q)'
      PROVE  /\ CallOK(call'[q])
             /\ call'[q].alone => \A x \in Procs :
                  x # q /\ Running(x)' => call'[x].target # call'[q].target
             /\ call'[q].alone => Reached(call'[q], TargetPath(call[q].target)',
                                                   DataPath(call[q].target)')
  <2>1. CASE q = p
    <3>1. CallOK(call'[q]) /\ call'[q].target = t
      BY <1>2, <1>3, <2>1
    <3>2. call'[q].alone => \A x \in Procs :
            x # q /\ Running(x)' => call'[x].target # t
      BY <1>2, <1>3, <1>4, <2>1 DEF RunningOn
    <3>3. call'[q].pc \in {"check", "stat"}
      BY <1>2, <1>3, <2>1
    <3> QED
      BY <3>1, <3>2, <3>3 DEF Reached
  <2>2. CASE q # p
    <3>1. Running(q) /\ CallOK(call'[q])
      BY <1>4, <1>6, <2>2
    <3>2. ASSUME call'[q].alone
          PROVE  \A x \in Procs :
                   x # q /\ Running(x)' => call'[x].target # call'[q].target
      <4>1. call'[q] = call[q] /\ call[q].target # t
        BY <1>4, <2>2, <3>1, <3>2
      <4>2. ASSUME NEW x \in Procs, x # q, Running(x)'
            PROVE  call'[x].target # call'[q].target
        <5>1. CASE x = p
          BY <1>2, <1>3, <4>1, <5>1
        <5>2. CASE x # p
          <6>1. Running(x) /\ call'[x].target = call[x].target
            BY <1>4, <4>2, <5>2
          <6>2. call[q].alone
            BY <3>2, <4>1
          <6> QED
            BY <3>1, <4>1, <4>2, <6>1, <6>2 DEF DriverInv
        <5> QED
          BY <5>1, <5>2
      <4> QED
        BY <4>2
    <3>3. ASSUME call'[q].alone
          PROVE  Reached(call'[q], TargetPath(call[q].target)',
                                   DataPath(call[q].target)')
      <4>1. call'[q] = call[q]
        BY <1>4, <2>2, <3>1, <3>3
      <4>2. Reached(call[q], TargetPath(call[q].target), DataPath(call[q].target))
        BY <3>1, <3>3, <4>1 DEF DriverInv
      <4> QED
        BY <1>1, <4>1, <4>2 DEF TargetPath, DataPath
    <3> QED
      BY <3>1, <3>2, <3>3
  <2> QED
    BY <2>1, <2>2
<1>7. /\ pod' \in [Targets -> {"none", "running", "gone"}]
      /\ answer' \in [Targets -> {"none", "mounted", "failed", "unmounted"}]
      /\ faults' \in 0 .. MaxFaults
  BY <1>1 DEF DriverInv, TypeOK
<1> QED
  BY <1>1, <1>5, <1>6, <1>7, RelabelStep

LEMMA StepRestart ==
  ASSUME DriverInv, Restart
  PROVE  DriverInv'
<1>1. ASSUME NEW q \in Procs
      PROVE  /\ Running(q)' <=> Running(q)
             /\ Running(q) => /\ CallOK(call'[q])
                              /\ call'[q].target = call[q].target
                              /\ call'[q].alone = call[q].alone
                              /\ call'[q].pc = call[q].pc
                              /\ call'[q].ok = call[q].ok
                              /\ call'[q].kind = call[q].kind
                              /\ call'[q].phase = call[q].phase
                              /\ call'[q].logged = call[q].logged
                              /\ call'[q].req = call[q].req
             /\ ~ Running(q) => call'[q] = Idle
  <2>1. CASE Running(q)
    <3>1. call'[q] = [call[q] EXCEPT !.known = FALSE]
      BY <2>1 DEF Restart
    <3>2. CallOK(call[q])
      BY <2>1 DEF DriverInv
    <3> QED
      BY <2>1, <3>1, <3>2 DEF CallOK, CallRecord, PhaseOfKind, Deletes, Running
  <2>2. CASE ~ Running(q)
    BY <2>2 DEF Restart, Running, Idle
  <2> QED
    BY <2>1, <2>2
<1>2. call' \in [Procs -> CallRecord \cup {Idle}]
  <2>1. call' = [q \in Procs |-> call'[q]]
    BY DEF Restart
  <2>2. \A q \in Procs : call'[q] \in CallRecord \cup {Idle}
    BY <1>1 DEF CallOK
  <2> QED
    BY <2>1, <2>2
<1>3. ASSUME NEW q \in Procs, Running(q)'
      PROVE  /\ CallOK(call'[q])
             /\ call'[q].alone => \A x \in Procs :
                  x # q /\ Running(x)' => call'[x].target # call'[q].target
             /\ call'[q].alone => Reached(call'[q], TargetPath(call[q].target)',
                                                   DataPath(call[q].target)')
  <2>1. Running(q) /\ CallOK(call'[q])
    BY <1>1, <1>3
  <2>2. call'[q].alone => \A x \in Procs :
          x # q /\ Running(x)' => call'[x].target # call'[q].target
    BY <1>1, <2>1 DEF DriverInv
  <2>3. ASSUME call'[q].alone
        PROVE  Reached(call'[q], TargetPath(call[q].target)',
                                 DataPath(call[q].target)')
    <3>1. Reached(call[q], TargetPath(call[q].target), DataPath(call[q].target))
      BY <1>1, <2>1, <2>3 DEF DriverInv
    <3>2. /\ TargetPath(call[q].target)' = TargetPath(call[q].target)
          /\ DataPath(call[q].target)' = DataPath(call[q].target)
      BY <1>1, <2>1 DEF Restart, TargetPath, DataPath
    <3> QED
      BY <1>1, <2>1, <3>1, <3>2 DEF Reached
  <2> QED
    BY <2>1, <2>2, <2>3
<1>4. /\ UNCHANGED <<node, wiped>>
      /\ pod' \in [Targets -> {"none", "running", "gone"}]
      /\ answer' \in [Targets -> {"none", "mounted", "failed", "unmounted"}]
      /\ faults' \in 0 .. MaxFaults
  BY FaultBound DEF DriverInv, TypeOK, Restart
<1> QED
  BY <1>2, <1>3, <1>4, RelabelStep

LEMMA StepS3fsDies ==
  ASSUME DriverInv, NEW t \in Targets, S3fsDies(t)
  PROVE  DriverInv'
<1> DEFINE old == TargetPath(t)
           m == [Top(old) EXCEPT !.live = FALSE]
           tgt == Mounting(Unmounting(old), m)
<1>1. /\ Mounted(old)
      /\ node' = [node EXCEPT ![<<t, "target">>] = tgt]
      /\ UNCHANGED <<pod, answer, wiped, call>>
      /\ faults' \in 0 .. MaxFaults
  BY FaultBound DEF S3fsDies
<1>2. node \in [Targets \X {"target", "data"} -> Path] /\ old \in Path
  BY DEF DriverInv, TypeOK, TargetPath
<1>3. Top(old) \in Mount /\ Unmounting(old) \in Path
  BY <1>1, <1>2, MountPath
<1>4. m \in Mount /\ m.bucket = Top(old).bucket /\ m.secret = Top(old).secret
  BY <1>3 DEF Mount
<1>5. tgt \in Path /\ Mounted(tgt) /\ Top(tgt) = m
  <2> HIDE DEF m
  <2> QED
    BY <1>3, <1>4, MountPath
<1> HIDE DEF tgt
<1>6. ASSUME NEW r
      PROVE  Serves(old, r) => Serves(tgt, r)
  BY <1>4, <1>5 DEF Serves
<1>7. node' \in [Targets \X {"target", "data"} -> Path]
  BY <1>1, <1>2, <1>5
<1>8. ASSUME NEW u \in Targets
      PROVE  /\ TargetPath(u)' = IF u = t THEN tgt ELSE TargetPath(u)
             /\ DataPath(u)' = DataPath(u)
  BY <1>1, <1>2 DEF TargetPath, DataPath
<1>9. ASSUME NEW q \in Procs, Running(q), call[q].alone
      PROVE  Reached(call[q], TargetPath(call[q].target)',
                              DataPath(call[q].target)')
  <2>1. Reached(call[q], TargetPath(call[q].target), DataPath(call[q].target))
    BY <1>9 DEF DriverInv
  <2>2. call[q].target \in Targets
    BY <1>9, PathsOfCall
  <2>3. \A r : Serves(TargetPath(call[q].target), r) =>
                Serves(TargetPath(call[q].target)', r)
    BY <1>1, <1>6, <1>8, <2>2
  <2> QED
    BY <1>1, <1>8, <2>1, <2>2, <2>3 DEF Reached
<1>10. TypeOK'
  BY <1>1, <1>7 DEF DriverInv, TypeOK, Running
<1>11. \A u \in Targets : IsData(DataPath(u)')
  BY <1>8 DEF DriverInv
<1> QED
  BY <1>1, <1>9, <1>10, <1>11 DEF DriverInv, Running
-----------------------------------------------------------------------------
(* Theorems *)

LEMMA DriverInit == Init => DriverInv
<1> SUFFICES ASSUME Init PROVE DriverInv
  OBVIOUS
<1> USE DEF Init
<1>1. \A p \in Procs : ~ Running(p)
  BY DEF Running, Idle
<1>2. TypeOK
  BY <1>1, NoDataPath, MaxFaultsAssumption DEF TypeOK
<1>3. \A t \in Targets : IsData(DataPath(t))
  BY NoDataPath DEF DataPath
<1> QED
  BY <1>1, <1>2, <1>3 DEF DriverInv

LEMMA DriverNext == DriverInv /\ [Next]_vars => DriverInv'
<1> SUFFICES ASSUME DriverInv, [Next]_vars PROVE DriverInv'
  OBVIOUS
<1>1. ASSUME NEW p \in Procs, Step(p)
      PROVE  DriverInv'
  BY <1>1, StepPathExists, StepIsMountpoint, StepDetach, StepForce,
     StepRemoveAll, StepCheck, StepCreateTarget, StepMkdirAll, StepMountTmpfs,
     StepWritePassword, StepRunS3fs, StepAnswer DEF Step
<1>2. ASSUME NEW p \in Procs, NEW t \in Targets, StartMount(p, t)
      PROVE  DriverInv'
  <2>1. PICK r \in Requests :
          Start(p, t, [ pc |-> "check", kind |-> "mount", phase |-> "empty",
                        target |-> t, req |-> r, chkErr |-> FALSE,
                        ok |-> FALSE, logged |-> FALSE, known |-> TRUE, alone |-> TRUE ])
    BY <1>2 DEF StartMount
  <2> DEFINE first ==
        [ pc |-> "check", kind |-> "mount", phase |-> "empty",
          target |-> t, req |-> r, chkErr |-> FALSE, ok |-> FALSE,
          logged |-> FALSE, known |-> TRUE, alone |-> TRUE ]
  <2>2. CallOK(first) /\ first.target = t /\ first.pc \in {"check", "stat"}
    BY DEF CallOK, CallRecord, PhaseOfKind, Deletes
  <2> HIDE DEF first
  <2>3. Start(p, t, first)
    BY <2>1 DEF first
  <2> QED
    BY <2>2, <2>3, StepStart
<1>3. ASSUME NEW p \in Procs, NEW t \in Targets, StartUnmount(p, t)
      PROVE  DriverInv'
  <2> DEFINE first ==
        [ pc |-> "stat", kind |-> "unmount", phase |-> "target",
          target |-> t, req |-> NoRequest, chkErr |-> FALSE, ok |-> FALSE,
          logged |-> FALSE, known |-> TRUE, alone |-> TRUE ]
  <2>1. CallOK(first) /\ first.target = t /\ first.pc \in {"check", "stat"}
    BY DEF CallOK, CallRecord, PhaseOfKind, Deletes
  <2>2. Start(p, t, first)
    BY <1>3 DEF StartUnmount
  <2> HIDE DEF first
  <2> QED
    BY <2>1, <2>2, StepStart
<1>4. ASSUME NEW t \in Targets, PodStarts(t) \/ PodGone(t)
      PROVE  DriverInv'
  BY <1>4
  DEF PodStarts, PodGone, DriverInv, TypeOK, Running, TargetPath, DataPath
<1>5. CASE UNCHANGED vars
  BY <1>5 DEF vars, DriverInv, TypeOK, Running, TargetPath, DataPath
<1> QED
  BY <1>1, <1>2, <1>3, <1>4, <1>5, StepCrash, StepRestart, StepS3fsDies DEF Next

\* DriverInv, the invariant that the other theorems follow from: whatever
\* overlaps, crashes or fails, a call that is alone has reached what its next
\* step relies on, and a data path carries nothing but tmpfs mounts.
THEOREM DriverInvariant == Spec => []DriverInv
BY DriverInit, DriverNext, PTL DEF Spec

\* Every state of the driver has its type (TypeOK), whatever fails, crashes
\* or overlaps.
THEOREM DriverTypeCorrect == Spec => []TypeOK
<1>1. DriverInv => TypeOK
  BY DEF DriverInv
<1> QED
  BY <1>1, DriverInvariant, PTL

\* A Mount that ran alone and reports success serves what was asked for.
THEOREM MountServes == Spec => []MountServesRequest
<1>1. DriverInv => MountServesRequest
  BY DEF DriverInv, MountServesRequest, Answering, Running, Reached, Serves
<1> QED
  BY <1>1, DriverInvariant, PTL

\* An Unmount that ran alone and reports success has cleared the data path,
\* though several calls may have left their mounts on it before.
THEOREM UnmountClears == Spec => []UnmountClearsData
<1>1. DriverInv => UnmountClearsData
  BY DEF DriverInv, UnmountClearsData, Answering, Running, Reached
<1> QED
  BY <1>1, DriverInvariant, PTL

\* A Mount that ran alone and fails behind its password file has removed it
\* with the data path, unless the cleanup's own error was logged.
THEOREM MountForgets == Spec => []FailedMountForgets
<1>1. DriverInv => FailedMountForgets
  BY DEF DriverInv, FailedMountForgets, Answering, Running, Reached
<1> QED
  BY <1>1, DriverInvariant, PTL

\* No RemoveAll of the driver deletes an object of a bucket.
THEOREM ObjectsSafe == Spec => []ObjectsKept
<1>1. DriverInv => ObjectsKept
  BY DEF DriverInv, ObjectsKept
<1> QED
  BY <1>1, DriverInvariant, PTL
-----------------------------------------------------------------------------
(* Without a restart of kubelet, the calls for a target come one by one. *)

OneByOne ==
  /\ \A p \in Procs : Running(p) => call[p].known /\ call[p].alone
  /\ SecretOnlyInTmpfs

\* Operators on a call leave what kubelet knows and the history alone.
LEMMA SameLabels ==
  ASSUME NEW o, CallOK(o), NEW b \in BOOLEAN
  PROVE  /\ \A pc : At(o, pc).known = o.known /\ At(o, pc).alone = o.alone
         /\ Answered(o, b).known = o.known /\ Answered(o, b).alone = o.alone
         /\ Returned(o, b).known = o.known /\ Returned(o, b).alone = o.alone
         /\ AfterUnmount(o).known = o.known /\ AfterUnmount(o).alone = o.alone
         /\ DetachFailed(o).known = o.known /\ DetachFailed(o).alone = o.alone
         /\ Cleanup(o).known = o.known /\ Cleanup(o).alone = o.alone
         /\ \A pc : /\ Deferred(At(o, pc)).known = o.known
                    /\ Deferred(At(o, pc)).alone = o.alone
<1> DEFINE Same(n) == n.known = o.known /\ n.alone = o.alone
<1>1. \A pc : Same(At(o, pc))
  BY DEF At, CallOK, CallRecord
<1>2. \A phase : Same(UnmountPath(o, phase))
  BY DEF UnmountPath, CallOK, CallRecord
<1>3. \A c \in BOOLEAN : Same(Answered(o, c))
  BY DEF Answered, CallOK, CallRecord
<1> HIDE DEF Same
<1>4. \A c \in BOOLEAN : Same(Returned(o, c))
  <2>1. ASSUME NEW c \in BOOLEAN
        PROVE  Same(Returned(o, c))
    <3>1. \/ Returned(o, c) = At(o, "mkdir")
          \/ Returned(o, c) = UnmountPath(o, "data")
          \/ Returned(o, c) = Answered(o, TRUE)
          \/ Returned(o, c) = Answered(o, FALSE)
          \/ Returned(o, c) = [Answered(o, FALSE) EXCEPT !.logged = ~ c]
      BY DEF Returned
    <3>2. Same([Answered(o, FALSE) EXCEPT !.logged = ~ c])
      BY DEF Same, Answered, CallOK, CallRecord
    <3> QED
      BY <3>1, <3>2, <1>1, <1>2, <1>3
  <2> QED
    BY <2>1
<1>5. Same(AfterUnmount(o))
  BY <1>1, <1>4 DEF AfterUnmount
<1>6. Same(DetachFailed(o))
  BY <1>1, <1>5 DEF DetachFailed
<1>7. Same(Cleanup(o))
  BY <1>2 DEF Cleanup
<1>8. \A pc : Same(Deferred(At(o, pc)))
  BY DEF Same, At, Deferred, CallOK, CallRecord
<1> QED
  BY <1>1, <1>3, <1>4, <1>5, <1>6, <1>7, <1>8 DEF Same

\* A step of a running call leaves these labels of every call alone.
LEMMA StepLabels ==
  ASSUME DriverInv, NEW p \in Procs, Step(p) \/ Crash(p)
  PROVE  \A q \in Procs : Running(q)' =>
           /\ Running(q)
           /\ call'[q].known = call[q].known
           /\ call'[q].alone = call[q].alone
<1> DEFINE o == call[p]
           Same(n) == n = Idle \/ (n.known = o.known /\ n.alone = o.alone)
<1>1. Running(p)
  BY DEF Step, Crash, PathExists, IsMountpoint, Detach, ForceUnmount, RemoveAll,
     Check, CreateTarget, MkdirAll, MountTmpfs, WritePassword, RunS3fs, Answer,
     Running
<1>2. CallOK(o) /\ call \in [Procs -> CallRecord \cup {Idle}]
  BY <1>1 DEF DriverInv, TypeOK
<1>3. \E n : Go(p, n) /\ Same(n)
  <2>1. CASE IsMountpoint(p)
    <3> DEFINE Found(isMount, err) ==
          IF isMount \/ err THEN [o EXCEPT !.pc = "detach", !.chkErr = err]
                            ELSE AfterUnmount(o)
    <3>1. \E isMount, err \in BOOLEAN : Go(p, Found(isMount, err))
      BY <2>1 DEF IsMountpoint, Corrupted, Mounted
    <3>2. ASSUME NEW isMount \in BOOLEAN, NEW err \in BOOLEAN
          PROVE  Same(Found(isMount, err))
      <4>1. CASE isMount \/ err
        BY <1>2, <4>1 DEF CallOK, CallRecord
      <4>2. CASE ~ (isMount \/ err)
        BY <1>2, <4>2, SameLabels
      <4> QED
        BY <4>1, <4>2
    <3> HIDE DEF Found, Same
    <3> QED
      BY <3>1, <3>2
  <2>2. CASE PathExists(p) \/ Detach(p) \/ ForceUnmount(p) \/ RemoveAll(p)
    <3>1. \/ \E b \in BOOLEAN : Go(p, Returned(o, b))
          \/ Go(p, At(o, "mountpoint"))
          \/ Go(p, AfterUnmount(o))
          \/ Go(p, DetachFailed(o))
      BY <2>2 DEF PathExists, Detach, ForceUnmount, RemoveAll, RemoveFailed
    <3>2. /\ \A b \in BOOLEAN : Same(Returned(o, b))
          /\ Same(At(o, "mountpoint"))
          /\ Same(AfterUnmount(o))
          /\ Same(DetachFailed(o))
      BY <1>2, SameLabels
    <3> HIDE DEF Same
    <3> QED
      BY <3>1, <3>2
  <2>3. CASE \/ Check(p) \/ CreateTarget(p) \/ MkdirAll(p) \/ MountTmpfs(p)
             \/ WritePassword(p) \/ RunS3fs(p)
    <3>1. \/ \E pc : Go(p, At(o, pc)) \/ Go(p, Deferred(At(o, pc)))
          \/ \E b \in BOOLEAN : Go(p, Answered(o, b))
          \/ Go(p, Cleanup(o))
      BY <2>3
      DEF Check, CreateTarget, MkdirAll, MountTmpfs, TmpfsFailed, WritePassword,
          RunS3fs, S3fsFailed
    <3>2. /\ \A pc : Same(At(o, pc)) /\ Same(Deferred(At(o, pc)))
          /\ \A b \in BOOLEAN : Same(Answered(o, b))
          /\ Same(Cleanup(o))
      BY <1>2, SameLabels
    <3> HIDE DEF Same
    <3> QED
      BY <3>1, <3>2
  <2>4. CASE Answer(p) \/ Crash(p)
    BY <2>4 DEF Answer, Crash
  <2> QED
    BY <2>1, <2>2, <2>3, <2>4 DEF Step
<1>4. PICK n : Go(p, n) /\ Same(n)
  BY <1>3
<1>5. call'[p] = n /\ \A q \in Procs : q # p => call'[q] = call[q]
  BY <1>2, <1>4 DEF Go
<1>6. n = Idle => ~ Running(p)'
  BY <1>5 DEF Running, Idle
<1> QED
  BY <1>1, <1>4, <1>5, <1>6 DEF Running

\* Nothing is put on a disk by a step that changes one path like this.
LEMMA OnePath ==
  ASSUME DriverInv, NEW u \in Targets, NEW which \in {"target", "data"}, NEW new,
         node' = [node EXCEPT ![<<u, which>>] = new],
         which = "data" => new.file \in {DataPath(u).file, NoSecret}
  PROVE  \A t \in Targets : DataPath(t)'.file \in {DataPath(t).file, NoSecret}
<1>1. node \in [Targets \X {"target", "data"} -> Path]
  BY DEF DriverInv, TypeOK
<1>2. ASSUME NEW t \in Targets
      PROVE  DataPath(t)' = IF <<t, "data">> = <<u, which>> THEN new ELSE DataPath(t)
  BY <1>1 DEF DataPath
<1>3. ASSUME NEW t \in Targets
      PROVE  DataPath(t)'.file \in {DataPath(t).file, NoSecret}
  <2>1. CASE <<t, "data">> = <<u, which>>
    BY <1>2, <2>1
  <2>2. CASE <<t, "data">> # <<u, which>>
    BY <1>2, <2>2
  <2> QED
    BY <2>1, <2>2
<1> QED
  BY <1>3

\* A running call that is alone puts no password on a disk.
LEMMA StepDisk ==
  ASSUME DriverInv, NEW p \in Procs, Step(p) \/ Crash(p), call[p].alone
  PROVE  \A t \in Targets : DataPath(t)'.file \in {DataPath(t).file, NoSecret}
<1> DEFINE o == call[p]
           data == DataPath(o.target)
           path == node[PathOf(o)]
<1>1. Running(p)
  BY DEF Step, Crash, PathExists, IsMountpoint, Detach, ForceUnmount, RemoveAll,
     Check, CreateTarget, MkdirAll, MountTmpfs, WritePassword, RunS3fs, Answer,
     Running
<1>2. CallOK(o) /\ o.target \in Targets /\ IsData(data) /\ data \in Path
  BY <1>1, PathsOfCall DEF IsData
<1>3. CASE UNCHANGED node
  BY <1>3 DEF DataPath
<1>4. CASE node' = [node EXCEPT ![PathOf(o)] = Unmounting(path)]
  <2>1. PICK which \in {"target", "data"} :
          /\ PathOf(o) = <<o.target, which>>
          /\ which = "data" => path = data
    BY <1>1, PathsOfCall DEF PathOf
  <2>2. Unmounting(data).file = data.file
    BY <1>2 DEF Unmounting, Path
  <2> HIDE DEF data, path
  <2> QED
    BY <1>2, <1>4, <2>1, <2>2, OnePath DEF data
<1>5. CASE RemoveAll(p) /\ ~ UNCHANGED node
  <2>1. PathOf(o) = <<o.target, "data">> /\ path = data
    BY <1>2, <1>5 DEF RemoveAll, CallOK, Deletes, PathOf, DataPath
  <2>2. /\ NoPath.file = NoSecret
        /\ Emptied(data).file \in {data.file, NoSecret}
    BY <1>2, DataEmptied DEF NoPath
  <2>3. \/ node' = [node EXCEPT ![<<o.target, "data">>] = NoPath]
        \/ node' = [node EXCEPT ![<<o.target, "data">>] = Emptied(data)]
    BY <1>5, <2>1 DEF RemoveAll
  <2> QED
    BY <1>2, <2>2, <2>3, OnePath
<1>6. CASE CreateTarget(p) /\ ~ UNCHANGED node
  <2>1. node' = [node EXCEPT ![<<o.target, "target">>] =
                   [TargetPath(o.target) EXCEPT !.dir = TRUE]]
    BY <1>6 DEF CreateTarget, TargetPath
  <2> QED
    BY <1>2, <2>1, OnePath
<1>7. CASE MkdirAll(p) /\ ~ UNCHANGED node
  <2>1. node' = [node EXCEPT ![<<o.target, "data">>] = [data EXCEPT !.dir = TRUE]]
    BY <1>7 DEF MkdirAll, DataPath
  <2>2. [data EXCEPT !.dir = TRUE].file = data.file
    BY <1>2 DEF Path
  <2> QED
    BY <1>2, <2>1, <2>2, OnePath
<1>8. CASE MountTmpfs(p) /\ ~ UNCHANGED node
  <2>1. node' = [node EXCEPT ![<<o.target, "data">>] = Mounting(data, EmptyTmpfs)]
    BY <1>8 DEF MountTmpfs, DataPath
  <2>2. Mounting(data, EmptyTmpfs).file = data.file
    BY <1>2 DEF Mounting, Path
  <2> QED
    BY <1>2, <2>1, <2>2, OnePath
<1>9. CASE WritePassword(p) /\ ~ UNCHANGED node
  <2>1. /\ node' = [node EXCEPT ![<<o.target, "data">>] =
                      WithPassword(data, o.req.secret)]
        /\ data.dir
    BY <1>9 DEF WritePassword, DataPath
  <2>2. Mounted(data)
    BY <1>1, <1>9 DEF DriverInv, Reached, WritePassword
  <2>3. o.req.secret \in Secrets \cup {NoSecret}
    BY <1>2, RequestsAssumption DEF CallOK, CallRecord, Request, NoRequest
  <2>4. WithPassword(data, o.req.secret).file = data.file
    BY <1>2, <2>1, <2>2, <2>3, DataPassword
  <2> QED
    BY <1>2, <2>1, <2>4, OnePath
<1>10. CASE RunS3fs(p) /\ ~ UNCHANGED node
  <2>1. \E new : node' = [node EXCEPT ![<<o.target, "target">>] = new]
    BY <1>10 DEF RunS3fs
  <2> QED
    BY <1>2, <2>1, OnePath
<1>11. \/ UNCHANGED node
       \/ node' = [node EXCEPT ![PathOf(o)] = Unmounting(path)]
       \/ RemoveAll(p) \/ CreateTarget(p) \/ MkdirAll(p) \/ MountTmpfs(p)
       \/ WritePassword(p) \/ RunS3fs(p)
  BY DEF Step, Crash, PathExists, IsMountpoint, Detach, ForceUnmount, Check, Answer
<1> QED
  BY <1>3, <1>4, <1>5, <1>6, <1>7, <1>8, <1>9, <1>10, <1>11

\* A call that kubelet starts is alone when no other is forgotten.
LEMMA StartLabels ==
  ASSUME DriverInv, OneByOne, NEW p \in Procs, NEW t \in Targets, NEW first,
         CallOK(first), first.known, Start(p, t, first)
  PROVE  OneByOne'
<1>1. \A q \in Procs : ~ RunningOn(q, t)
  BY DEF Start, OneByOne, RunningOn
<1>2. \A q \in Procs : call'[q] = IF q = p THEN [first EXCEPT !.alone = TRUE]
                                          ELSE call[q]
  BY <1>1 DEF Start
<1>3. [first EXCEPT !.alone = TRUE].known /\ [first EXCEPT !.alone = TRUE].alone
  BY DEF CallOK, CallRecord
<1>4. \A q \in Procs : Running(q)' => call'[q].known /\ call'[q].alone
  BY <1>2, <1>3 DEF OneByOne, Running
<1>5. SecretOnlyInTmpfs'
  BY DEF OneByOne, Start, SecretOnlyInTmpfs, DataPath
<1> QED
  BY <1>4, <1>5 DEF OneByOne

LEMMA OneByOneNext ==
  ASSUME "restart" \notin Faults
  PROVE  DriverInv /\ OneByOne /\ [Next]_vars => OneByOne'
<1> SUFFICES ASSUME DriverInv, OneByOne, [Next]_vars PROVE OneByOne'
  OBVIOUS
<1>1. ASSUME NEW p \in Procs, Step(p) \/ Crash(p)
      PROVE  OneByOne'
  <2>1. Running(p)
    BY <1>1
    DEF Step, Crash, PathExists, IsMountpoint, Detach, ForceUnmount, RemoveAll,
        Check, CreateTarget, MkdirAll, MountTmpfs, WritePassword, RunS3fs, Answer,
        Running
  <2>2. \A q \in Procs : Running(q)' => call'[q].known /\ call'[q].alone
    BY <1>1, StepLabels DEF OneByOne
  <2>3. SecretOnlyInTmpfs'
    BY <1>1, <2>1, StepDisk DEF OneByOne, SecretOnlyInTmpfs
  <2> QED
    BY <2>2, <2>3 DEF OneByOne
<1>2. ASSUME NEW p \in Procs, NEW t \in Targets, StartMount(p, t)
      PROVE  OneByOne'
  <2>1. PICK r \in Requests :
          Start(p, t, [ pc |-> "check", kind |-> "mount", phase |-> "empty",
                        target |-> t, req |-> r, chkErr |-> FALSE,
                        ok |-> FALSE, logged |-> FALSE, known |-> TRUE, alone |-> TRUE ])
    BY <1>2 DEF StartMount
  <2> DEFINE first ==
        [ pc |-> "check", kind |-> "mount", phase |-> "empty",
          target |-> t, req |-> r, chkErr |-> FALSE, ok |-> FALSE,
          logged |-> FALSE, known |-> TRUE, alone |-> TRUE ]
  <2>2. CallOK(first) /\ first.known
    BY DEF CallOK, CallRecord, PhaseOfKind, Deletes
  <2> HIDE DEF first
  <2>3. Start(p, t, first)
    BY <2>1 DEF first
  <2> QED
    BY <2>2, <2>3, StartLabels
<1>3. ASSUME NEW p \in Procs, NEW t \in Targets, StartUnmount(p, t)
      PROVE  OneByOne'
  <2> DEFINE first ==
        [ pc |-> "stat", kind |-> "unmount", phase |-> "target",
          target |-> t, req |-> NoRequest, chkErr |-> FALSE, ok |-> FALSE,
          logged |-> FALSE, known |-> TRUE, alone |-> TRUE ]
  <2>1. CallOK(first) /\ first.known
    BY DEF CallOK, CallRecord, PhaseOfKind, Deletes
  <2>2. Start(p, t, first)
    BY <1>3 DEF StartUnmount
  <2> HIDE DEF first
  <2> QED
    BY <2>1, <2>2, StartLabels
<1>4. ASSUME NEW t \in Targets, PodStarts(t) \/ PodGone(t)
      PROVE  OneByOne'
  BY <1>4 DEF PodStarts, PodGone, OneByOne, Running, SecretOnlyInTmpfs, DataPath
<1>5. ASSUME NEW t \in Targets, S3fsDies(t)
      PROVE  OneByOne'
  <2>1. \E new : node' = [node EXCEPT ![<<t, "target">>] = new]
    BY <1>5 DEF S3fsDies
  <2>2. SecretOnlyInTmpfs'
    BY <2>1, OnePath DEF OneByOne, SecretOnlyInTmpfs
  <2> QED
    BY <1>5, <2>2 DEF S3fsDies, OneByOne, Running
<1>6. ~ Restart
  BY DEF Restart, Fault
<1>7. CASE UNCHANGED vars
  BY <1>7 DEF vars, OneByOne, Running, SecretOnlyInTmpfs, DataPath
<1> QED
  BY <1>1, <1>2, <1>3, <1>4, <1>5, <1>6, <1>7 DEF Next

\* As long as kubelet is not restarted, no password ever reaches a disk,
\* whatever else fails: each mkdirAll is followed by a mount, or by the end.
THEOREM SecretStaysInTmpfs ==
  ASSUME "restart" \notin Faults
  PROVE  Spec => []SecretOnlyInTmpfs
<1>1. Init => OneByOne
  BY DEF Init, OneByOne, Running, Idle, SecretOnlyInTmpfs, DataPath, NoPath
<1>2. OneByOne => SecretOnlyInTmpfs
  BY DEF OneByOne
<1> QED
  BY <1>1, <1>2, OneByOneNext, DriverInvariant, PTL DEF Spec
=============================================================================
