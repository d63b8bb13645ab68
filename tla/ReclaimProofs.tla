--------------------------- MODULE ReclaimProofs ---------------------------
(***************************************************************************)
(* Buckets go when they should: a Delete removes the bucket before the     *)
(* volume, and no bucket is forgotten by a Provision that fails.           *)
(*                                                                         *)
(* The first holds as long as at most two processes run at once, which is  *)
(* what a rolling update of one replica starts.  A third could save a      *)
(* volume under the name of one that two others are removing (TLC finds    *)
(* the behaviour with three).  The second is about a single process, and   *)
(* about the failures that Provision answers with a revert.                *)
(***************************************************************************)
EXTENDS BoundaryProofs

AtMostTwo == \A p, q, s \in Procs : p = q \/ q = s \/ p = s

Single == \A p, q \in Procs : p = q

\* The volume a Delete was started for is still there, or another Delete for
\* the claim has removed it, and then nobody provisions for it any more.
Following ==
  \A k \in Calls :
    op[k].cause = "delete" =>
      \/ pv[k[2]] # NoVolume /\ pv[k[2]].bucket = op[k].bucket
      \/ /\ pv[k[2]] = NoVolume
         /\ \E l \in Calls : l # k /\ l[2] = k[2]
         /\ \A l \in Calls :
              l[2] = k[2] => op[l].pc = "idle" \/ op[l].cause = "delete"

\* A Delete that is about to give the volume up has deleted the bucket.
Gone ==
  \A k \in Calls :
    /\ op[k].cause = "delete" /\ op[k].pc = "remove"
    /\ pv[k[2]].bucket = op[k].bucket
    /\ pv[k[2]].autoDelete = "true"
    /\ Sole(k[2])
    => ~ Exists(store[op[k].bucket])

ReclaimInv == Following /\ Gone

Base == TypeInv /\ LifeInv /\ StateInv /\ AskedInv
-----------------------------------------------------------------------------
(* What one step of a call does. *)

\* Where the call is taken to.
Turns(k) ==
  /\ op'[k].cause = "delete" =>
       \/ op[k].cause = "delete" /\ op'[k].bucket = op[k].bucket
       \/ pv[k[2]] # NoVolume /\ op'[k].bucket = pv[k[2]].bucket
  /\ op'[k].pc # "idle" => UNCHANGED pv
  /\ op'[k].pc # "idle" /\ op'[k].cause # "delete" =>
       \/ op[k].pc # "idle" /\ op[k].cause # "delete"
       \/ claim[k[2]] = "pending"
  /\ op'[k].pc = "remove" =>
       \/ pv[k[2]].autoDelete # "true"
       \/ ~ Exists(store'[op'[k].bucket])

\* Which bucket it may create.
Creates(k) ==
  \A n \in Names :
    Exists(store'[n]) /\ ~ Exists(store[n]) =>
      /\ CreateBucket(k) /\ op[k].cause = "provision"
      /\ n = op[k].bucket \/ n \in Generated \ used

\* The stages of Provision go on with the bucket and towards the same end.
LEMMA StageTurns ==
  ASSUME NEW r, NEW o \in Operation, o.cause = "provision"
  PROVE  \A x \in {ToVersion(r, o), ToAccess(r, o), ToQuota(r, o),
                   ToCheck(r, o), ToPath(r, o), ToBuilt(r, o), AfterError(r, o)} :
           x.cause # "delete" /\ x.pc # "remove"
<1> DEFINE P(x) == x.cause # "delete" /\ x.pc # "remove"
<1>1. P(Idle)
  BY DEF Idle
<1>2. \A step \in Late : P([o EXCEPT !.pc = step])
  BY DEF Operation, Late
<1>3. P([o EXCEPT !.pc = "list", !.cause = "revert"])
  BY DEF Operation
<1> HIDE DEF P
<1>4. P(ToBuilt(r, o)) /\ P(ToPath(r, o))
  BY <1>1, <1>2 DEF ToBuilt, ToPath, Late
<1>5. P(ToCheck(r, o))
  BY <1>2, <1>4 DEF ToCheck, Late
<1>6. P(ToQuota(r, o))
  BY <1>2, <1>5 DEF ToQuota, Late
<1>7. P(ToAccess(r, o))
  BY <1>2, <1>6 DEF ToAccess, Late
<1>8. P(ToVersion(r, o))
  BY <1>2, <1>7 DEF ToVersion, Late
<1>9. P(AfterError(r, o))
  BY <1>1, <1>3 DEF AfterError
<1> QED
  BY <1>4, <1>5, <1>6, <1>7, <1>8, <1>9 DEF P

\* A request to the service creates nothing.
LEMMA CallCreates ==
  ASSUME TypeInv, NEW k \in Calls, NEW call, NEW granted, NEW effect,
         NEW done, NEW failed, op[k].bucket \in Names,
         Call(k, call, granted, effect, done, failed),
         granted => (Exists(effect) => Exists(store[op[k].bucket]))
  PROVE  /\ Creates(k) /\ op'[k] \in {done, failed}
         /\ op'[k] = failed \/ store'[op[k].bucket] = effect
<1> DEFINE changed == [store EXCEPT ![op[k].bucket] = effect]
<1>1. store \in [Names -> Bucket] /\ op \in [Calls -> NamedOperation]
  BY TypeInvOp DEF TypeOK
<1>2. \/ op' = [op EXCEPT ![k] = done] /\ store' = changed /\ granted
      \/ /\ op' = [op EXCEPT ![k] = failed]
         /\ store' = store \/ (store' = changed /\ granted)
  BY DEF Call
<1>3. \A n \in Names : \/ store'[n] = store[n]
                       \/ n = op[k].bucket /\ store'[n] = effect /\ granted
  BY <1>1, <1>2
<1>4. Creates(k)
  BY <1>3 DEF Creates
<1>5. \/ op'[k] = done /\ store'[op[k].bucket] = effect
      \/ op'[k] = failed
  BY <1>1, <1>2
<1> QED
  BY <1>4, <1>5

\* What requests leave behind exists only if the bucket did.
LEMMA EffectExists ==
  ASSUME NEW b \in Bucket
  PROVE  /\ ~ Exists(Absent)
         /\ Reachable(b) => Exists(b)
         /\ \A v : Exists([b EXCEPT !.ver = v]) <=> Exists(b)
         /\ Exists([b EXCEPT !.policy = TRUE]) <=> Exists(b)
         /\ Exists([b EXCEPT !.quota = TRUE]) <=> Exists(b)
         /\ \A key : Exists(WithoutObject(b, key)) <=> Exists(b)
         /\ \A key : Exists(WithObject(b, key)) <=> Exists(b)
BY DEF Exists, Reachable, Bucket, Absent, WithoutObject, WithObject

\* The beginning of Provision, up to the creation of the bucket, and its end.
LEMMA BeginTurns ==
  ASSUME Base, NEW k \in Calls,
         StartProvision(k) \/ Authorize(k) \/ CreateBucket(k) \/ SavePV(k)
  PROVE  Turns(k) /\ Creates(k)
<1> DEFINE r == req[k[2]]
           n == op[k].bucket
<1>0. /\ op[k] \in Operation /\ op \in [Calls -> NamedOperation]
      /\ store \in [Names -> Bucket] /\ Idle.pc = "idle"
      /\ Idle.cause = "provision"
      /\ op[k].pc \in {"authorize", "create"} => op[k].cause = "provision"
  BY TypeInvOp, IdleFits DEF Base, TypeOK, NamedOperation, LifeInv, Checked, Sound
<1>1. CASE StartProvision(k)
  <2>1. PICK m : op' = [op EXCEPT ![k] = [Idle EXCEPT !.pc = "authorize",
                                     !.bucket = m, !.val = ValBucket(r)]]
    BY <1>1 DEF StartProvision
  <2> DEFINE x == [Idle EXCEPT !.pc = "authorize", !.bucket = m,
                               !.val = ValBucket(r)]
  <2>2. x.pc = "authorize" /\ x.cause = "provision"
    BY DEF Idle
  <2> HIDE DEF x
  <2>3. op'[k] = x
    BY <2>1, TakesUp DEF Base, x
  <2>4. store' = store /\ UNCHANGED pv /\ claim[k[2]] = "pending"
    BY <1>1 DEF StartProvision
  <2> QED
    BY <2>2, <2>3, <2>4 DEF Turns, Creates
<1>2. CASE Authorize(k)
  <2> DEFINE o == [op[k] EXCEPT !.sess = op[k].val]
             y == [o EXCEPT !.pc = "create", !.own = TRUE]
  <2>1. /\ op[k].pc = "authorize" /\ op[k].cause = "provision"
        /\ store' = store /\ UNCHANGED pv
        /\ \/ op' = [op EXCEPT ![k] = Idle]
           \/ op' = [op EXCEPT ![k] = y]
           \/ op' = [op EXCEPT ![k] = ToVersion(r, o)]
    BY <1>0, <1>2 DEF Authorize
  <2>2. /\ o \in Operation /\ o.cause = "provision"
        /\ y.cause = "provision" /\ y.pc = "create"
    BY <1>0, <2>1 DEF Operation
  <2> HIDE DEF o, y
  <2>3. op'[k] \in {Idle, y, ToVersion(r, o)}
    BY <2>1, TakesUp DEF Base
  <2>4. op'[k].cause # "delete" /\ op'[k].pc # "remove"
    BY <1>0, <2>2, <2>3, StageTurns
  <2> QED
    BY <2>1, <2>4 DEF Turns, Creates
<1>3. CASE CreateBucket(k)
  <2> DEFINE After(m) == [op[k] EXCEPT !.bucket = m,
                                       !.own  = OwnAfterCreate(store[m]),
                                       !.val  = TRUE,
                                       !.made = ~ Exists(store[m])]
             Created(m) == [store EXCEPT ![m] = IF Exists(@) THEN @ ELSE Fresh]
  <2>1. PICK m \in IF n = NoBucket THEN FreshNames ELSE {n} :
          /\ op' \in {[op EXCEPT ![k] = ToVersion(r, After(m))],
                      [op EXCEPT ![k] = Idle]}
          /\ store' \in {store, Created(m)}
    BY <1>3 DEF CreateBucket
  <2>2. /\ op[k].pc = "create" /\ op[k].cause = "provision"
        /\ UNCHANGED pv
    BY <1>0, <1>3 DEF CreateBucket
  <2>3. m = n \/ m \in Generated \ used
    BY <2>1 DEF FreshNames
  <2>4. m \in Names
    BY <1>0, <2>1 DEF FreshNames, Names, Operation
  <2>5. After(m) \in Operation /\ After(m).cause = "provision"
    BY <1>0, <2>2, <2>4 DEF OwnAfterCreate, Exists, Operation
  <2> HIDE DEF After
  <2>6. op'[k] \in {ToVersion(r, After(m)), Idle}
    BY <2>1, TakesUp DEF Base
  <2>7. op'[k].cause # "delete" /\ op'[k].pc # "remove"
    BY <1>0, <2>5, <2>6, StageTurns
  <2>8. \A l \in Names : l # m => store'[l] = store[l]
    BY <1>0, <2>1
  <2> QED
    BY <1>3, <2>2, <2>3, <2>7, <2>8 DEF Turns, Creates
<1>4. CASE SavePV(k)
  <2>1. op'[k] = Idle /\ store' = store
    BY <1>0, <1>4 DEF SavePV
  <2> QED
    BY <1>0, <2>1 DEF Turns, Creates
<1> QED
  BY <1>1, <1>2, <1>3, <1>4

\* The requests that Provision makes of a bucket it has created or found.
LEMMA LateTurns ==
  ASSUME Base, NEW k \in Calls,
         \/ SetBucketVersioning(k) \/ UpdateAccessPolicy(k) \/ UpdateQuotaLimit(k)
         \/ CheckBucketAccess(k) \/ CheckObjectPathExistence(k)
  PROVE  Turns(k) /\ Creates(k)
<1> DEFINE r == req[k[2]]
           n == op[k].bucket
           b == store[n]
           o == [op[k] EXCEPT !.val = TRUE]
<1>0. /\ op[k].pc \in {"version", "access", "quota", "check", "path"}
      /\ UNCHANGED pv
  BY DEF SetBucketVersioning, UpdateAccessPolicy, UpdateQuotaLimit,
         CheckBucketAccess, CheckObjectPathExistence
<1>1. /\ n \in Names /\ b \in Bucket /\ op[k] \in Operation
      /\ op[k].cause = "provision" /\ op[k].pc # "idle" /\ TypeInv
  BY <1>0, TypeInvOp
     DEF Base, TypeOK, NamedOperation, Named, LifeInv, Checked, Sound
<1>2. o \in Operation /\ o.cause = "provision"
  BY <1>1 DEF Operation
<1> DEFINE Onward == {ToAccess(r, op[k]), ToQuota(r, o), ToCheck(r, op[k]),
                      ToPath(r, op[k]), ToBuilt(r, op[k]), AfterError(r, op[k]),
                      Idle}
<1> HIDE DEF o
<1>3. \A x \in Onward : x.cause # "delete" /\ x.pc # "remove"
  <2>1. Idle.cause # "delete" /\ Idle.pc # "remove"
    BY DEF Idle
  <2> QED
    BY <1>1, <1>2, <2>1, StageTurns
<1>4. ASSUME NEW call, NEW e, NEW done \in Onward, NEW failed \in Onward,
             Call(k, call, Reachable(b), e, done, failed),
             Reachable(b) => (Exists(e) => Exists(b))
      PROVE  Turns(k) /\ Creates(k)
  <2>1. Creates(k) /\ op'[k] \in {done, failed}
    BY <1>1, <1>4, CallCreates
  <2> QED
    BY <1>0, <1>1, <1>3, <2>1 DEF Turns
<1>5. /\ Reachable(b) => Exists(b)
      /\ \A v : Exists([b EXCEPT !.ver = v]) <=> Exists(b)
      /\ Exists([b EXCEPT !.policy = TRUE]) <=> Exists(b)
      /\ Exists([b EXCEPT !.quota = TRUE]) <=> Exists(b)
  BY <1>1, EffectExists
<1>6. CASE SetBucketVersioning(k)
  BY <1>4, <1>5, <1>6 DEF SetBucketVersioning
<1>7. CASE UpdateAccessPolicy(k)
  BY <1>4, <1>5, <1>7 DEF UpdateAccessPolicy, o
<1>8. CASE UpdateQuotaLimit(k)
  BY <1>4, <1>5, <1>8 DEF UpdateQuotaLimit
<1>9. CASE CheckBucketAccess(k)
  BY <1>4, <1>5, <1>9 DEF CheckBucketAccess
<1>10. CASE CheckObjectPathExistence(k)
  <2>1. PICK found \in BOOLEAN :
          Call(k, "path", Reachable(b), b,
               IF found THEN ToBuilt(r, op[k]) ELSE Idle, Idle)
    BY <1>10 DEF CheckObjectPathExistence
  <2>2. (IF found THEN ToBuilt(r, op[k]) ELSE Idle) \in Onward
    OBVIOUS
  <2> HIDE DEF Onward
  <2>3. Idle \in Onward
    BY DEF Onward
  <2> QED
    BY <1>4, <2>1, <2>2, <2>3
<1> QED
  BY <1>6, <1>7, <1>8, <1>9, <1>10

\* A call that is in DeleteBucket, or goes on to it, and the end of a call.
LEMMA DeleteTurns ==
  ASSUME Base, NEW k \in Calls,
         \/ StartDelete(k) \/ DeleteCredentials(k) \/ RemovePV(k)
         \/ ListObjects(k) \/ DeleteObject(k) \/ DeleteBucket(k) \/ Panic(k)
  PROVE  Turns(k) /\ Creates(k)
<1> DEFINE n == op[k].bucket
           b == store[n]
<1>0. /\ op[k] \in Operation /\ op \in [Calls -> NamedOperation] /\ TypeInv
      /\ store \in [Names -> Bucket]
      /\ op[k].pc \in {"list", "objects"} => n \in Names
  BY TypeInvOp DEF Base, TypeOK, NamedOperation, Named
<1>1. Idle.pc = "idle" /\ Idle.cause = "provision"
  BY DEF Idle
\* What is left of the call has its bucket and its cause, until it gives up.
<1>2. ASSUME UNCHANGED pv, Creates(k),
             op[k].pc \in {"credentials", "list", "objects"},
             NEW x, op'[k] = x, x.bucket = n, x.cause = op[k].cause,
             x.pc = "remove" => ~ Exists(store'[n])
      PROVE  Turns(k) /\ Creates(k)
  BY <1>2 DEF Turns
<1>3. ASSUME UNCHANGED pv, Creates(k), op'[k] = Idle
      PROVE  Turns(k) /\ Creates(k)
  BY <1>1, <1>3 DEF Turns
<1>4. NotDeleted(op[k]) = Idle
  BY DEF NotDeleted
<1>5. CASE RemovePV(k) \/ Panic(k)
  <2>1. op'[k] = Idle /\ store' = store
    BY <1>0, <1>5 DEF RemovePV, Panic, Stopped
  <2> QED
    BY <1>1, <2>1 DEF Turns, Creates
<1>6. CASE StartDelete(k)
  <2>1. PICK step \in {"credentials", "remove"} :
          /\ op' = [op EXCEPT ![k] = [Idle EXCEPT !.pc = step, !.cause = "delete",
                                               !.bucket = pv[k[2]].bucket]]
          /\ step = "remove" => pv[k[2]].autoDelete # "true"
    BY <1>6 DEF StartDelete
  <2> DEFINE x == [Idle EXCEPT !.pc = step, !.cause = "delete",
                               !.bucket = pv[k[2]].bucket]
  <2>2. x.cause = "delete" /\ x.pc = step /\ x.bucket = pv[k[2]].bucket
    BY DEF Idle
  <2>3. op'[k] = x
    BY <1>0, <2>1
  <2> HIDE DEF x
  <2>4. pv[k[2]] # NoVolume /\ UNCHANGED <<pv, store>>
    BY <1>6 DEF StartDelete, ShouldDelete
  <2> QED
    BY <2>1, <2>2, <2>3, <2>4 DEF Turns, Creates
<1>7. CASE DeleteCredentials(k)
  <2> DEFINE x == [op[k] EXCEPT !.pc = "list", !.sess = TRUE]
  <2>1. /\ op' = [op EXCEPT ![k] = x] \/ op' = [op EXCEPT ![k] = Idle]
        /\ op[k].pc = "credentials" /\ UNCHANGED <<pv, store>>
    BY <1>4, <1>7 DEF DeleteCredentials
  <2>2. x.bucket = n /\ x.cause = op[k].cause /\ x.pc = "list"
    BY <1>0 DEF Operation
  <2> HIDE DEF x
  <2>3. op'[k] \in {x, Idle} /\ Creates(k)
    BY <1>0, <2>1 DEF Creates
  <2> QED
    BY <1>2, <1>3, <2>1, <2>2, <2>3
<1>8. CASE ListObjects(k)
  <2>0. op[k].pc = "list" /\ n \in Names /\ b \in Bucket /\ UNCHANGED pv
    BY <1>0, <1>8 DEF ListObjects
  <2>1. CASE ~ Exists(b)
    <3> DEFINE x == [op[k] EXCEPT !.pc = "remove"]
    <3>1. op' = [op EXCEPT ![k] = AlreadyDeleted(op[k])] /\ store' = store
      BY <1>8, <2>1 DEF ListObjects
    <3>2. x.bucket = n /\ x.cause = op[k].cause
      BY <1>0 DEF Operation
    <3> HIDE DEF x
    <3>3. op'[k] \in {x, Idle} /\ Creates(k)
      BY <1>0, <3>1 DEF AlreadyDeleted, Deleted, Creates, x
    <3> QED
      BY <1>2, <1>3, <2>0, <2>1, <3>1, <3>2, <3>3
  <2>2. ASSUME NEW page,
               Call(k, op[k].cause, Reachable(b), b,
                    [op[k] EXCEPT !.pc = "objects", !.keys = page],
                    NotDeleted(op[k]))
        PROVE  Turns(k) /\ Creates(k)
    <3> DEFINE x == [op[k] EXCEPT !.pc = "objects", !.keys = page]
    <3>1. x.bucket = n /\ x.cause = op[k].cause /\ x.pc = "objects"
      BY <1>0 DEF Operation
    <3> HIDE DEF x
    <3>2. Call(k, op[k].cause, Reachable(b), b, x, Idle)
      BY <1>4, <2>2 DEF x
    <3>3. Creates(k) /\ op'[k] \in {x, Idle}
      BY <1>0, <2>0, <3>2, CallCreates
    <3> QED
      BY <1>2, <1>3, <2>0, <3>1, <3>3
  <2> QED
    BY <1>8, <2>1, <2>2 DEF ListObjects
<1>9. CASE DeleteObject(k)
  <2>0. op[k].pc = "objects" /\ n \in Names /\ b \in Bucket /\ UNCHANGED pv
    BY <1>0, <1>9 DEF DeleteObject
  <2>1. PICK key : Call(k, op[k].cause, Reachable(b), WithoutObject(b, key),
                        [op[k] EXCEPT !.keys = @ \ {key}], NotDeleted(op[k]))
    BY <1>9 DEF DeleteObject
  <2> DEFINE x == [op[k] EXCEPT !.keys = @ \ {key}]
  <2>2. x.bucket = n /\ x.cause = op[k].cause /\ x.pc = "objects"
    BY <1>0, <2>0 DEF Operation
  <2> HIDE DEF x
  <2>3. Call(k, op[k].cause, Reachable(b), WithoutObject(b, key), x, Idle)
    BY <1>4, <2>1 DEF x
  <2>4. Exists(WithoutObject(b, key)) <=> Exists(b)
    BY <2>0, EffectExists
  <2>5. Creates(k) /\ op'[k] \in {x, Idle}
    BY <1>0, <2>0, <2>3, <2>4, CallCreates
  <2> QED
    BY <1>2, <1>3, <2>0, <2>2, <2>5
<1>10. CASE DeleteBucket(k)
  <2> DEFINE x == [op[k] EXCEPT !.pc = "remove"]
             y == Deleted(op[k])
  <2>0. /\ op[k].pc = "objects" /\ n \in Names /\ b \in Bucket /\ UNCHANGED pv
        /\ Call(k, op[k].cause, Deletable(b), Absent, y, Idle)
    BY <1>0, <1>4, <1>10 DEF DeleteBucket
  <2>1. y \in {x, Idle} /\ ~ Exists(Absent)
    BY EffectExists DEF Deleted, Absent, Exists
  <2>2. x.bucket = n /\ x.cause = op[k].cause
    BY <1>0 DEF Operation
  <2> HIDE DEF x, y
  <2>3. /\ Creates(k) /\ op'[k] \in {y, Idle}
        /\ op'[k] = Idle \/ store'[n] = Absent
    BY <1>0, <2>0, <2>1, CallCreates
  <2> QED
    BY <1>2, <1>3, <2>0, <2>1, <2>2, <2>3
<1> QED
  BY <1>5, <1>6, <1>7, <1>8, <1>9, <1>10

\* Every step of a call.
LEMMA StepTurns ==
  ASSUME Base, NEW k \in Calls, Step(k)
  PROVE  Turns(k) /\ Creates(k)
BY BeginTurns, LateTurns, DeleteTurns DEF Step
-----------------------------------------------------------------------------
(* The bucket goes before the volume. *)

\* A step in which calls only end, or go on as they are.
LEMMA OnlyEnds ==
  ASSUME ReclaimInv, UNCHANGED <<req, pv>>,
         \A l \in Calls : op'[l] \in {op[l], Idle},
         \A k \in Calls : op[k].pc = "remove" =>
           (Exists(store'[op[k].bucket]) => Exists(store[op[k].bucket]))
  PROVE  ReclaimInv'
<1>1. Idle.pc = "idle" /\ Idle.cause = "provision"
  BY DEF Idle
<1>2. Following'
  <2> SUFFICES ASSUME NEW k \in Calls, op'[k].cause = "delete"
               PROVE  \/ pv[k[2]] # NoVolume /\ pv[k[2]].bucket = op'[k].bucket
                      \/ /\ pv[k[2]] = NoVolume
                         /\ \E l \in Calls : l # k /\ l[2] = k[2]
                         /\ \A l \in Calls : l[2] = k[2] =>
                              op'[l].pc = "idle" \/ op'[l].cause = "delete"
    BY DEF Following, Calls
  <2>1. op'[k] = op[k]
    BY <1>1
  <2> QED
    BY <1>1, <2>1 DEF ReclaimInv, Following
<1>3. Gone'
  <2> SUFFICES ASSUME NEW k \in Calls, op'[k].cause = "delete",
                      op'[k].pc = "remove", pv[k[2]].bucket = op'[k].bucket,
                      pv[k[2]].autoDelete = "true", Sole(k[2])'
               PROVE  ~ Exists(store'[op'[k].bucket])
    BY DEF Gone, Calls
  <2>1. op'[k] = op[k]
    BY <1>1
  <2>2. Sole(k[2])
    BY DEF Sole
  <2> QED
    BY <2>1, <2>2 DEF ReclaimInv, Gone
<1> QED
  BY <1>2, <1>3 DEF ReclaimInv

\* Nothing is being deleted at the start.
LEMMA ReclaimInit == Init => ReclaimInv
<1> SUFFICES ASSUME Init PROVE ReclaimInv
  OBVIOUS
<1>1. \A k \in Calls : op[k] = Idle
  BY DEF Init, Calls
<1> QED
  BY <1>1 DEF ReclaimInv, Following, Gone, Idle

\* A step of a call leaves the volume that another Delete follows alone, or
\* removes it.
LEMMA FollowedKept ==
  ASSUME Base, Following, NEW k \in Calls, Step(k), NEW j \in Calls, j # k,
         op[j].cause = "delete"
  PROVE  \/ pv'[j[2]] = pv[j[2]]
         \/ /\ RemovePV(k) /\ k[2] = j[2] /\ pv'[j[2]] = NoVolume
            /\ op'[k] = Idle
<1>1. pv \in [Claims -> Volume \cup {NoVolume}] /\ j[2] \in Claims
      /\ op \in [Calls -> NamedOperation]
  BY TypeInvOp DEF Base, TypeOK, Calls
<1>2. CASE SavePV(k) /\ pv[k[2]] = NoVolume /\ op[k].cause = "provision"
           /\ op[k].pc = "built" /\ pv' = [pv EXCEPT ![k[2]] = pv'[k[2]]]
  <2>1. k[2] # j[2]
    BY <1>2 DEF Following
  <2> QED
    BY <1>1, <1>2, <2>1
<1>3. CASE RemovePV(k) /\ pv' = [pv EXCEPT ![k[2]] = NoVolume]
  BY <1>1, <1>3 DEF RemovePV
<1> QED
  BY <1>2, <1>3, VolumeStep DEF Base

\* Every step of a call keeps Following.
LEMMA FollowingStep ==
  ASSUME AtMostTwo, Base, Following, NEW k \in Calls, Step(k)
  PROVE  Following'
<1> SUFFICES ASSUME NEW j \in Calls, op'[j].cause = "delete"
             PROVE  \/ pv'[j[2]] # NoVolume /\ pv'[j[2]].bucket = op'[j].bucket
                    \/ /\ pv'[j[2]] = NoVolume
                       /\ \E l \in Calls : l # j /\ l[2] = j[2]
                       /\ \A l \in Calls : l[2] = j[2] =>
                            op'[l].pc = "idle" \/ op'[l].cause = "delete"
  BY DEF Following, Calls
<1>0. /\ op \in [Calls -> NamedOperation] /\ Turns(k)
      /\ Idle.pc = "idle" /\ Idle.cause = "provision"
      /\ \A l \in Calls : l # k => op'[l] \in {op[l], Idle}
  BY TypeInvOp, StepTurns, StepsFacts DEF Base, StepFacts, Reaches, Idle
\* Nobody begins to provision for a claim that is being deleted.
<1>1. ASSUME op[j].cause = "delete",
             \A l \in Calls :
               l[2] = j[2] => op[l].pc = "idle" \/ op[l].cause = "delete"
      PROVE  \A l \in Calls :
               l[2] = j[2] => op'[l].pc = "idle" \/ op'[l].cause = "delete"
  <2>1. claim[j[2]] = "deleted"
    BY <1>1 DEF Base, LifeInv, DeletingOwn
  <2> QED
    BY <1>0, <1>1, <2>1 DEF Turns
<1>2. CASE j = k
  <2>1. UNCHANGED pv
    <3>1. SavePV(k) \/ RemovePV(k) => op'[k] = Idle
      BY <1>0 DEF SavePV, RemovePV
    <3> QED
      BY <1>0, <1>2, <3>1, VolumeStep DEF Base
  <2> QED
    BY <1>0, <1>1, <1>2, <2>1 DEF Turns, Following
<1>3. CASE j # k
  <2>1. op'[j] = op[j] /\ op[j].cause = "delete"
    BY <1>0, <1>3
  <2>2. CASE pv'[j[2]] = pv[j[2]]
    BY <1>1, <2>1, <2>2 DEF Following
  <2>3. CASE k[2] = j[2] /\ pv'[j[2]] = NoVolume /\ op'[k] = Idle
    <3>1. \A l \in Calls : l[2] = j[2] => l = j \/ l = k
      BY <1>3, <2>3 DEF AtMostTwo, Calls
    <3> QED
      BY <1>0, <1>3, <2>1, <2>3, <3>1
  <2> QED
    BY <1>3, <2>1, <2>2, <2>3, FollowedKept
<1> QED
  BY <1>2, <1>3

\* Every step of a call keeps Gone: only a Provision for the same claim could
\* create the bucket again, and there is none.
LEMMA GoneStep ==
  ASSUME Base, ReclaimInv, NEW k \in Calls, Step(k)
  PROVE  Gone'
<1> SUFFICES ASSUME NEW j \in Calls, op'[j].cause = "delete",
                    op'[j].pc = "remove", pv'[j[2]].bucket = op'[j].bucket,
                    pv'[j[2]].autoDelete = "true", Sole(j[2])'
             PROVE  ~ Exists(store'[op'[j].bucket])
  BY DEF Gone, Calls
<1>0. /\ Turns(k) /\ Creates(k) /\ req' = req
      /\ Idle.pc = "idle" /\ NoVolume.autoDelete = ""
      /\ \A l \in Calls : l # k => op'[l] \in {op[l], Idle}
  BY StepTurns, StepsFacts, VolumeStep
     DEF Base, StepFacts, Reaches, Idle, NoVolume
<1>1. CASE j = k
  BY <1>0, <1>1 DEF Turns
<1>2. CASE j # k
  <2> DEFINE n == op[j].bucket
  <2>1. op'[j] = op[j]
    BY <1>0, <1>2
  <2>2. pv'[j[2]] = pv[j[2]]
    BY <1>0, <1>2, <2>1, FollowedKept DEF ReclaimInv
  <2>3. Sole(j[2])
    BY <1>0, <2>2 DEF Sole
  <2>4. ~ Exists(store[n])
    BY <2>1, <2>2, <2>3 DEF ReclaimInv, Gone
  <2>5. n \in Names
    BY <2>1, TypeInvOp DEF Base, NamedOperation, Named
  <2>6. SUFFICES ASSUME Exists(store'[n]) PROVE FALSE
    BY <2>1
  <2>7. /\ CreateBucket(k) /\ op[k].cause = "provision"
        /\ n = op[k].bucket \/ n \in Generated \ used
    BY <1>0, <2>4, <2>5, <2>6 DEF Creates
  <2>8. n \notin Generated \ used
    BY DEF Base, LifeInv, Drawn
  <2>9. n \notin Generated
    BY <1>2, <2>7, <2>8 DEF Base, LifeInv, Exclusive
  <2>10. \A p, q \in Procs : p = q
    BY <2>1, <2>2, <2>3, <2>9 DEF Sole
  <2>11. req[k[2]].bucket = n
    <3>1. op[k].pc = "create"
      BY <2>7 DEF CreateBucket
    <3>2. Asked(op[k], req[k[2]])
      BY DEF Base, AskedInv
    <3> QED
      BY <2>7, <2>8, <2>9, <3>1, <3>2 DEF Asked
  <2>12. k[2] = j[2]
    BY <2>1, <2>2, <2>3, <2>9, <2>11 DEF Sole, Calls
  <2> QED
    BY <1>2, <2>10, <2>12 DEF Calls
<1> QED
  BY <1>1, <1>2

\* Every step of the system keeps the invariant.
LEMMA ReclaimNext ==
  ASSUME AtMostTwo
  PROVE  Base /\ ReclaimInv /\ [Next]_vars => ReclaimInv'
<1> SUFFICES ASSUME Base, ReclaimInv, [Next]_vars PROVE ReclaimInv'
  OBVIOUS
<1>1. ASSUME NEW k \in Calls, Step(k) PROVE ReclaimInv'
  BY <1>1, FollowingStep, GoneStep DEF ReclaimInv
<1>2. ASSUME NEW c \in Claims, WriteObject(c) PROVE ReclaimInv'
  <2>1. UNCHANGED <<req, pv, op>>
    BY <1>2 DEF WriteObject
  <2>2. ASSUME NEW n \in Names
        PROVE  Exists(store'[n]) => Exists(store[n])
    <3>1. PICK key : pv[c].bucket \in Names =>
            store'[pv[c].bucket] = WithObject(store[pv[c].bucket], key)
      BY <1>2, WriteReaches DEF Base
    <3>2. store[n] \in Bucket
      BY DEF Base, TypeInv, TypeOK
    <3>3. n # pv[c].bucket => store'[n] = store[n]
      BY <1>2, WriteReaches DEF Base
    <3>4. Exists(WithObject(store[n], key)) <=> Exists(store[n])
      BY <3>2, EffectExists
    <3> QED
      BY <3>1, <3>3, <3>4
  <2>3. \A k \in Calls : op[k].pc = "remove" => op[k].bucket \in Names
    BY TypeInvOp DEF Base, NamedOperation, Named
  <2> QED
    BY <2>1, <2>2, <2>3, OnlyEnds
<1>3. ASSUME NEW p \in Procs, Crash(p) PROVE ReclaimInv'
  <2>1. /\ \A l \in Calls : op'[l] \in {op[l], Idle}
        /\ UNCHANGED <<req, pv, store>>
    BY <1>3 DEF Crash, Stopped, Base, TypeInv, TypeOK, Calls
  <2> QED
    BY <2>1, OnlyEnds
<1>4. CASE UNCHANGED <<req, pv, op, store>>
  BY <1>4, OnlyEnds
<1> QED
  BY <1>1, <1>2, <1>3, <1>4 DEF Next, Calls, Submit, DeleteClaim, vars

\* A volume with auto-delete goes only after its bucket, with at most two
\* processes: however often Delete fails, is cut off, or runs in both.
THEOREM BucketGoesFirst ==
  ASSUME AtMostTwo
  PROVE  Spec => BucketGoesBeforeVolume
<1> DEFINE First ==
             \A c \in Claims :
               /\ pv[c] # NoVolume
               /\ pv'[c] = NoVolume
               /\ pv[c].autoDelete = "true"
               /\ Sole(c)
               => ~ Exists(store'[pv[c].bucket])
<1>1. Base /\ ReclaimInv /\ [Next]_vars => [First]_vars
  <2> SUFFICES ASSUME Base, ReclaimInv, [Next]_vars, NEW c \in Claims,
                      pv[c] # NoVolume, pv'[c] = NoVolume,
                      pv[c].autoDelete = "true", Sole(c)
               PROVE  ~ Exists(store'[pv[c].bucket])
    OBVIOUS
  <2>1. PICK k \in Calls : Step(k)
    BY DEF Next, Calls, Submit, DeleteClaim, WriteObject, Crash, vars
  <2>2. /\ RemovePV(k) /\ op[k].cause = "delete" /\ c = k[2]
        /\ store' = store
    BY <2>1, VolumeStep DEF Base, TypeInv, TypeOK
  <2>3. pv[c].bucket = op[k].bucket
    BY <2>2 DEF ReclaimInv, Following
  <2> QED
    BY <2>2, <2>3 DEF RemovePV, ReclaimInv, Gone
<1>2. Init => ReclaimInv
  BY ReclaimInit
<1>3. Base /\ ReclaimInv /\ [Next]_vars => ReclaimInv'
  BY ReclaimNext
<1>4. Spec => []Base
  BY AskedAlways DEF Base
<1> QED
  BY <1>1, <1>2, <1>3, <1>4, PTL DEF Spec, BucketGoesBeforeVolume
-----------------------------------------------------------------------------
(* No bucket is forgotten.                                                 *)
(*                                                                         *)
(* One process; every failure that can happen is one that Provision        *)
(* reverts or Delete retries; and no claim asks for a second access mode,  *)
(* which is refused when the bucket is there.  Without one of the three, a *)
(* bucket is left behind (line 773, and a call that fails after another).  *)

Reverting == Faults \cap {"create", "check", "revert", "crash"} = {}

OneMode == \A r \in Requests : r.accessModes = 1

Sessioned ==
  \A r \in Requests :
    ValBucket(r) \/ (BucketVersioning(r) = "off" /\ ~ r.objectPath)

\* A Provision with a generated bucket b that is there will revert it, and
\* can: there is no version of an object in it.
Tended(o, b) ==
  o.cause # "delete" /\ o.bucket \in Generated =>
    /\ b.old = {}
    /\ Exists(b) /\ o.pc \in Late => o.own

\* A volume is saved once, by the last Provision for its claim.
Unsettled ==
  \A k \in Calls :
    op[k].pc # "idle" /\ op[k].cause # "delete" => pv[k[2]] = NoVolume

TendInv ==
  /\ \A n \in Generated : store[n].owner \in {"none", "us"}
  /\ \A k \in Calls : Tended(op[k], store[op[k].bucket])
  /\ Unsettled

Holds(o, n) == o.pc # "idle" /\ o.bucket = n

\* A step of call k keeps its bucket tended, and lets go of it only when it is
\* gone or has a volume.
Tends(k) ==
  LET n == op[k].bucket
  IN /\ Tended(op'[k], store'[op'[k].bucket])
     /\ Holds(op[k], n) /\ op[k].cause # "delete" /\ n \in Generated
          /\ Exists(store[n]) =>
          Holds(op'[k], n) \/ ~ Exists(store'[n]) \/ pv'[k[2]].bucket = n

\* The call goes on as x, with the bucket it has.
Follows(o, x) ==
  \/ x = Idle
  \/ /\ x.bucket = o.bucket
     /\ x.cause = "delete" <=> o.cause = "delete"
     /\ x.pc \in Late => o.pc \in Late /\ x.own = o.own

\* The stages of Provision keep the bucket and what is known of it, and end
\* the call only for a second access mode.
LEMMA StageKeeps ==
  ASSUME NEW r, NEW o \in Operation, o.cause = "provision"
  PROVE  \A x \in {ToVersion(r, o), ToAccess(r, o), ToQuota(r, o),
                   ToCheck(r, o), ToPath(r, o), ToBuilt(r, o)} :
           \/ x = Idle /\ r.accessModes > 1
           \/ /\ x.pc \in Late /\ x.cause = "provision"
              /\ x.bucket = o.bucket /\ x.own = o.own
<1> DEFINE P(x) == \/ x = Idle /\ r.accessModes > 1
                   \/ /\ x.pc \in Late /\ x.cause = "provision"
                      /\ x.bucket = o.bucket /\ x.own = o.own
<1>1. \A step \in Late : P([o EXCEPT !.pc = step])
  BY DEF Operation, Late
<1>2. P(ToBuilt(r, o))
  BY <1>1 DEF ToBuilt, Late
<1> HIDE DEF P
<1>3. P(ToPath(r, o))
  BY <1>1, <1>2 DEF ToPath, Late
<1>4. P(ToCheck(r, o))
  BY <1>1, <1>3 DEF ToCheck, Late
<1>5. P(ToQuota(r, o))
  BY <1>1, <1>4 DEF ToQuota, Late
<1>6. P(ToAccess(r, o))
  BY <1>1, <1>5 DEF ToAccess, Late
<1>7. P(ToVersion(r, o))
  BY <1>1, <1>6 DEF ToVersion, Late
<1> QED
  BY <1>2, <1>3, <1>4, <1>5, <1>6, <1>7 DEF P

\* So what they make of a call goes on with it.
LEMMA StageFollows ==
  ASSUME NEW r, NEW o \in Operation, o.cause = "provision", o.pc \in Late
  PROVE  /\ \A x \in {ToVersion(r, o), ToAccess(r, o), ToQuota(r, o),
                      ToCheck(r, o), ToPath(r, o), ToBuilt(r, o)} :
              /\ Follows(o, x)
              /\ ~ (r.accessModes > 1) => Holds(x, o.bucket)
         /\ Follows(o, AfterError(r, o))
         /\ AutoCreateBucket(r) = "true" /\ o.own
              => Holds(AfterError(r, o), o.bucket)
<1>1. ASSUME NEW x,
             \/ x = Idle /\ r.accessModes > 1
             \/ /\ x.pc \in Late /\ x.cause = "provision"
                /\ x.bucket = o.bucket /\ x.own = o.own
      PROVE  /\ Follows(o, x)
             /\ ~ (r.accessModes > 1) => Holds(x, o.bucket)
  BY <1>1 DEF Follows, Holds, Late
<1>2. /\ Follows(o, [o EXCEPT !.pc = "list", !.cause = "revert"])
      /\ Holds([o EXCEPT !.pc = "list", !.cause = "revert"], o.bucket)
      /\ Follows(o, Idle)
  BY DEF Operation, Late, Follows, Holds
<1>3. /\ Follows(o, AfterError(r, o))
      /\ AutoCreateBucket(r) = "true" /\ o.own
           => Holds(AfterError(r, o), o.bucket)
  BY <1>2 DEF AfterError
<1>4. \A x \in {ToVersion(r, o), ToAccess(r, o), ToQuota(r, o),
                ToCheck(r, o), ToPath(r, o), ToBuilt(r, o)} :
        /\ Follows(o, x)
        /\ ~ (r.accessModes > 1) => Holds(x, o.bucket)
  BY <1>1, StageKeeps
<1> QED
  BY <1>3, <1>4

\* What follows a tended bucket is tended.
LEMMA FollowsTended ==
  ASSUME NEW o, NEW x, NEW b, NEW e, Tended(o, b), Follows(o, x),
         Exists(e) => Exists(b),
         o.cause # "delete" /\ o.bucket \in Generated /\ b.old = {}
           => e.old = {}
  PROVE  Tended(x, e)
<1>1. Idle.bucket \notin Generated
  BY NamesAssumption DEF Idle
<1> QED
  BY <1>1 DEF Tended, Follows

\* A request to the service, answered or failed.
LEMMA CallTends ==
  ASSUME TypeInv, NEW k \in Calls, NEW call, NEW granted, NEW effect,
         NEW done, NEW failed, op[k].bucket \in Names,
         Call(k, call, granted, effect, done, failed),
         Tended(op[k], store[op[k].bucket]),
         Follows(op[k], done), Follows(op[k], failed),
         granted => (Exists(effect) => Exists(store[op[k].bucket])),
         op[k].cause # "delete" /\ op[k].bucket \in Generated
           /\ store[op[k].bucket].old = {} => effect.old = {},
         op[k].cause # "delete" /\ op[k].bucket \in Generated
           /\ Exists(store[op[k].bucket]) =>
             /\ Holds(done, op[k].bucket) \/ ~ Exists(effect)
             /\ Holds(failed, op[k].bucket) \/ (granted /\ call \notin Faults)
  PROVE  Tends(k)
<1> DEFINE n == op[k].bucket
           b == store[n]
           changed == [store EXCEPT ![n] = effect]
<1>1. store \in [Names -> Bucket] /\ op \in [Calls -> NamedOperation]
  BY TypeInvOp DEF TypeOK
<1>2. \/ op' = [op EXCEPT ![k] = done] /\ store' = changed /\ granted
      \/ /\ op' = [op EXCEPT ![k] = failed]
         /\ \/ store' = store /\ ~ granted
            \/ store' \in {store, changed} /\ granted /\ call \in Faults
  BY DEF Call, Fault
<1>3. \/ op'[k] = done /\ store'[n] = effect /\ granted
      \/ /\ op'[k] = failed
         /\ \/ store'[n] = b /\ ~ granted
            \/ store'[n] \in {b, effect} /\ granted /\ call \in Faults
  BY <1>1, <1>2
<1>4. Tended(op'[k], store'[op'[k].bucket])
  <2>1. Follows(op[k], op'[k])
    BY <1>3
  <2>2. Tended(op'[k], store'[n])
    BY <1>3, <2>1, FollowsTended
  <2>3. CASE op'[k] = Idle
    BY <2>3, NamesAssumption DEF Tended, Idle
  <2>4. CASE op'[k].bucket = n
    BY <2>2, <2>4
  <2> QED
    BY <2>1, <2>3, <2>4 DEF Follows
<1>5. ASSUME op[k].cause # "delete", n \in Generated, Exists(b)
      PROVE  Holds(op'[k], n) \/ ~ Exists(store'[n])
  BY <1>3, <1>5
<1> QED
  BY <1>4, <1>5 DEF Tends
-----------------------------------------------------------------------------
(* Every step of a call, action by action. *)

\* The beginning of Provision, up to the creation of the bucket, and its end.
LEMMA BeginTends ==
  ASSUME Base, TendInv, NEW k \in Calls,
         StartProvision(k) \/ Authorize(k) \/ CreateBucket(k) \/ SavePV(k)
  PROVE  Tends(k)
<1> DEFINE r == req[k[2]]
           n == op[k].bucket
           b == store[n]
<1>0. /\ op[k] \in Operation /\ op \in [Calls -> NamedOperation]
      /\ store \in [Names -> Bucket] /\ k[2] \in Claims /\ r \in Request
      /\ pv \in [Claims -> Volume \cup {NoVolume}]
      /\ op[k].pc \in {"authorize", "create"} => op[k].cause = "provision"
      /\ Prepared(op[k], r, b)
  BY TypeInvOp, RequestsAssumption
     DEF Base, TypeOK, NamedOperation, LifeInv, Checked, Sound, StateInv,
         Unspoilt, Calls
<1>1. /\ ~ Exists(Absent) /\ Absent.old = {} /\ Fresh.old = {}
      /\ CreateError(Absent) = "" /\ OwnAfterCreate(Absent)
      /\ Idle.bucket \notin Generated
  BY NamesAssumption
     DEF Exists, Absent, Fresh, CreateError, OwnAfterCreate, Idle
\* A generated bucket is not there yet.
<1>2. /\ op[k].pc \in {"authorize", "create"} /\ n \in Generated => b = Absent
      /\ \A m \in FreshNames : m \in Generated /\ store[m] = Absent
  BY <1>0 DEF Prepared, FreshNames, Base, StateInv, Unspoilt
<1>3. CASE StartProvision(k)
  <2>1. PICK m \in FreshNames \cup {r.bucket} :
          op' = [op EXCEPT ![k] = [Idle EXCEPT !.pc = "authorize",
                                     !.bucket = m, !.val = ValBucket(r)]]
    BY <1>3 DEF StartProvision
  <2> DEFINE x == [Idle EXCEPT !.pc = "authorize", !.bucket = m,
                               !.val = ValBucket(r)]
  <2>2. x.bucket = m
    BY DEF Idle
  <2>3. op'[k] = x /\ store' = store /\ op[k].pc = "idle"
    BY <1>0, <1>3, <2>1 DEF StartProvision, Busy
  <2> HIDE DEF x
  <2>4. m \in Generated => store[m] = Absent
    BY <1>0, <1>2, NamesAssumption DEF Request
  <2> QED
    BY <1>1, <2>2, <2>3, <2>4 DEF Tends, Tended, Holds
<1>4. CASE Authorize(k)
  <2> DEFINE o == [op[k] EXCEPT !.sess = op[k].val]
             y == [o EXCEPT !.pc = "create", !.own = TRUE]
  <2>1. /\ op[k].pc = "authorize" /\ op[k].cause = "provision"
        /\ store' = store
        /\ \/ op' = [op EXCEPT ![k] = Idle]
           \/ op' = [op EXCEPT ![k] = y]
           \/ op' = [op EXCEPT ![k] = ToVersion(r, o)]
    BY <1>0, <1>4 DEF Authorize
  <2>2. o \in Operation /\ o.cause = "provision" /\ o.bucket = n /\ y.bucket = n
    BY <1>0, <2>1 DEF Operation
  <2> HIDE DEF o, y
  <2>3. op'[k] \in {Idle, y, ToVersion(r, o)}
    BY <1>0, <2>1
  <2>4. op'[k] = Idle \/ op'[k].bucket = n
    BY <2>2, <2>3, StageKeeps
  <2> QED
    BY <1>1, <1>2, <2>1, <2>4 DEF Tends, Tended
<1>5. CASE CreateBucket(k)
  <2> DEFINE After(m) == [op[k] EXCEPT !.bucket = m,
                                       !.own  = OwnAfterCreate(store[m]),
                                       !.val  = TRUE,
                                       !.made = ~ Exists(store[m])]
             Created(m) == [store EXCEPT ![m] = IF Exists(@) THEN @ ELSE Fresh]
  <2>1. op[k].pc = "create" /\ op[k].cause = "provision"
    BY <1>0, <1>5 DEF CreateBucket
  <2>2. PICK m \in IF n = NoBucket THEN FreshNames ELSE {n} :
          \/ /\ store' = Created(m)
             /\ op' = [op EXCEPT ![k] = ToVersion(r, After(m))]
          \/ op' = [op EXCEPT ![k] = Idle]
    BY <1>5 DEF CreateBucket
  <2>3. m \in Names /\ (m \in Generated => store[m] = Absent)
    BY <1>0, <1>2, <2>1, <2>2 DEF Names, Operation
  <2>4. /\ After(m) \in Operation /\ After(m).cause = "provision"
        /\ After(m).bucket = m /\ After(m).own = OwnAfterCreate(store[m])
    BY <1>0, <2>1, <2>3 DEF OwnAfterCreate, Exists, Operation
  <2>5. m \in Generated /\ store' = Created(m) => store'[m] = Fresh
    BY <1>0, <1>1, <2>3
  <2> HIDE DEF After, Created
  <2>6. op'[k] = Idle \/ (op'[k] = ToVersion(r, After(m)) /\ store' = Created(m))
    BY <1>0, <2>2
  <2>7. \/ op'[k] = Idle
        \/ /\ op'[k].bucket = m /\ store' = Created(m)
           /\ op'[k].own = OwnAfterCreate(store[m])
    BY <2>4, <2>6, StageKeeps
  <2>8. Tended(op'[k], store'[op'[k].bucket])
    BY <1>1, <2>3, <2>5, <2>7 DEF Tended
  <2> QED
    BY <1>1, <1>2, <2>1, <2>8 DEF Tends
<1>6. CASE SavePV(k)
  <2>1. op'[k] = Idle /\ op[k].pc = "built"
    BY <1>0, <1>6 DEF SavePV
  <2>2. op[k].cause # "delete" => pv'[k[2]].bucket = n
    BY <1>0, <1>6, <2>1 DEF SavePV, TendInv, Unsettled
  <2> QED
    BY <1>1, <2>1, <2>2 DEF Tends, Tended
<1> QED
  BY <1>3, <1>4, <1>5, <1>6

\* The requests that Provision makes of a bucket it has created or found: it
\* reverts a generated one when a setting fails, and the two checks of it can
\* only fail by a fault.
LEMMA LateTends ==
  ASSUME Reverting, OneMode, Base, TendInv, NEW k \in Calls,
         \/ SetBucketVersioning(k) \/ UpdateAccessPolicy(k) \/ UpdateQuotaLimit(k)
         \/ CheckBucketAccess(k) \/ CheckObjectPathExistence(k)
  PROVE  Tends(k)
<1> DEFINE r == req[k[2]]
           n == op[k].bucket
           b == store[n]
           o == [op[k] EXCEPT !.val = TRUE]
           Ours == n \in Generated /\ Exists(b)
<1>0. op[k].pc \in {"version", "access", "quota", "check", "path"}
  BY DEF SetBucketVersioning, UpdateAccessPolicy, UpdateQuotaLimit,
         CheckBucketAccess, CheckObjectPathExistence
<1>1. /\ n \in Names /\ b \in Bucket /\ op[k] \in Operation /\ TypeInv
      /\ op[k].cause = "provision" /\ op[k].pc \in Late
      /\ r \in Requests /\ ~ (r.accessModes > 1)
      /\ Tended(op[k], b) /\ Working(op[k], r) /\ Asked(op[k], r)
  BY <1>0, TypeInvOp
     DEF Base, TypeOK, NamedOperation, Named, LifeInv, Checked, Sound, AskedInv,
         Asked, Late, OneMode, TendInv, Calls
<1>2. Ours => op[k].own /\ AutoCreateBucket(r) = "true" /\ Reachable(b)
  BY <1>1 DEF Tended, Working, TendInv, Exists, Reachable
<1>3. /\ \A x \in {ToAccess(r, op[k]), ToCheck(r, op[k]), ToPath(r, op[k]),
                   ToBuilt(r, op[k])} : Follows(op[k], x) /\ Holds(x, n)
      /\ Follows(op[k], AfterError(r, op[k])) /\ Follows(op[k], Idle)
      /\ Ours => Holds(AfterError(r, op[k]), n)
  <2>1. Follows(op[k], Idle)
    BY DEF Follows
  <2> QED
    BY <1>1, <1>2, <2>1, StageFollows
<1>4. Follows(op[k], ToQuota(r, o)) /\ Holds(ToQuota(r, o), n)
  <2>1. /\ o \in Operation /\ o.cause = "provision" /\ o.bucket = n
        /\ o.pc = op[k].pc /\ o.own = op[k].own
    BY <1>1 DEF Operation
  <2> HIDE DEF o
  <2>2. Follows(o, ToQuota(r, o)) /\ Holds(ToQuota(r, o), n)
    BY <1>1, <2>1, StageFollows
  <2> QED
    BY <1>1, <2>1, <2>2 DEF Follows
<1>5. /\ \A v : Exists([b EXCEPT !.ver = v]) <=> Exists(b)
      /\ Exists([b EXCEPT !.policy = TRUE]) <=> Exists(b)
      /\ Exists([b EXCEPT !.quota = TRUE]) <=> Exists(b)
      /\ \A v : [b EXCEPT !.ver = v].old = b.old
      /\ [b EXCEPT !.policy = TRUE].old = b.old
      /\ [b EXCEPT !.quota = TRUE].old = b.old
  BY <1>1, EffectExists DEF Bucket
<1>6. ASSUME NEW call, NEW e, NEW done, NEW failed,
             Call(k, call, Reachable(b), e, done, failed),
             Exists(e) => Exists(b), e.old = b.old,
             Follows(op[k], done), Follows(op[k], failed),
             Ours => /\ Holds(done, n)
                     /\ Holds(failed, n) \/ call \notin Faults
      PROVE  Tends(k)
  BY <1>1, <1>2, <1>6, CallTends
<1> HIDE DEF o
<1>7. CASE SetBucketVersioning(k)
  <2> DEFINE e == [b EXCEPT !.ver = BucketVersioning(r)]
  <2>1. Call(k, "version", Reachable(b), e, ToAccess(r, op[k]),
             AfterError(r, op[k]))
    BY <1>7 DEF SetBucketVersioning
  <2>2. (Exists(e) => Exists(b)) /\ e.old = b.old
    BY <1>5
  <2> HIDE DEF e
  <2> QED
    BY <1>3, <1>6, <2>1, <2>2
<1>8. CASE UpdateAccessPolicy(k)
  <2> DEFINE e == [b EXCEPT !.policy = TRUE]
  <2>1. Call(k, "access", Reachable(b), e, ToQuota(r, o), AfterError(r, op[k]))
    BY <1>8 DEF UpdateAccessPolicy, o
  <2>2. (Exists(e) => Exists(b)) /\ e.old = b.old
    BY <1>5
  <2> HIDE DEF e
  <2> QED
    BY <1>3, <1>4, <1>6, <2>1, <2>2
<1>9. CASE UpdateQuotaLimit(k)
  <2> DEFINE e == [b EXCEPT !.quota = TRUE]
  <2>1. Call(k, "quota", Reachable(b), e, ToCheck(r, op[k]),
             AfterError(r, op[k]))
    BY <1>9 DEF UpdateQuotaLimit
  <2>2. (Exists(e) => Exists(b)) /\ e.old = b.old
    BY <1>5
  <2> HIDE DEF e
  <2> QED
    BY <1>3, <1>6, <2>1, <2>2
<1>10. CASE CheckBucketAccess(k)
  <2>1. Call(k, "check", Reachable(b), b, ToPath(r, op[k]), Idle)
    BY <1>10 DEF CheckBucketAccess
  <2>2. "check" \notin Faults
    BY DEF Reverting
  <2> QED
    BY <1>3, <1>6, <2>1, <2>2
\* A bucket created for the claim is not looked through for an object.
<1>11. CASE CheckObjectPathExistence(k)
  <2>1. PICK found \in BOOLEAN :
          Call(k, "path", Reachable(b), b,
               IF found THEN ToBuilt(r, op[k]) ELSE Idle, Idle)
    BY <1>11 DEF CheckObjectPathExistence
  <2>2. ~ Ours
    <3>1. r.objectPath
      BY <1>1, <1>11 DEF CheckObjectPathExistence, Asked
    <3> QED
      BY <1>1, <1>2, <3>1 DEF Working, Valid
  <2>3. Follows(op[k], IF found THEN ToBuilt(r, op[k]) ELSE Idle)
    BY <1>3
  <2> QED
    BY <1>3, <1>6, <2>1, <2>2, <2>3
<1> QED
  BY <1>7, <1>8, <1>9, <1>10, <1>11

\* A call that is in DeleteBucket, or goes on to it, and the end of a call: a
\* revert of a generated bucket finds nothing in it and succeeds.
LEMMA DeleteTends ==
  ASSUME Reverting, Base, TendInv, NEW k \in Calls,
         \/ StartDelete(k) \/ DeleteCredentials(k) \/ RemovePV(k)
         \/ ListObjects(k) \/ DeleteObject(k) \/ DeleteBucket(k)
  PROVE  Tends(k)
<1> DEFINE n == op[k].bucket
           b == store[n]
           Ours == n \in Generated /\ Exists(b) /\ op[k].cause # "delete"
<1>0. /\ op[k] \in Operation /\ op \in [Calls -> NamedOperation] /\ TypeInv
      /\ store \in [Names -> Bucket]
      /\ op[k].pc \in {"list", "objects"} => n \in Names /\ b \in Bucket
      /\ Tended(op[k], b) /\ Prepared(op[k], req[k[2]], b)
      /\ Asked(op[k], req[k[2]])
  BY TypeInvOp
     DEF Base, TypeOK, NamedOperation, Named, TendInv, StateInv, Unspoilt,
         AskedInv
<1>1. /\ op[k].pc \in {"credentials", "remove"} => op[k].cause = "delete"
      /\ op[k].pc \in {"list", "objects"} /\ op[k].cause # "delete"
           => op[k].cause = "revert"
  BY <1>0 DEF Asked, Late, Operation
<1>2. Ours => /\ Reachable(b) /\ b.cur = {} /\ b.old = {}
              /\ "revert" \notin Faults
  BY <1>0 DEF Reverting, TendInv, Exists, Reachable, Prepared, Tended
<1>3. /\ NotDeleted(op[k]) = Idle /\ Idle.bucket \notin Generated
      /\ Follows(op[k], Idle) /\ ~ Exists(Absent) /\ Absent.old = {}
  BY NamesAssumption DEF NotDeleted, Idle, Follows, Exists, Absent
<1>4. /\ Follows(op[k], Deleted(op[k])) /\ Follows(op[k], AlreadyDeleted(op[k]))
  BY <1>0 DEF Deleted, AlreadyDeleted, Follows, Operation, Late
<1>5. CASE RemovePV(k)
  <2>1. op'[k] = Idle /\ op[k].cause = "delete"
    BY <1>0, <1>1, <1>5 DEF RemovePV
  <2> QED
    BY <1>3, <2>1 DEF Tends, Tended
<1>6. CASE StartDelete(k)
  <2>1. PICK step :
          op' = [op EXCEPT ![k] = [Idle EXCEPT !.pc = step, !.cause = "delete",
                                               !.bucket = pv[k[2]].bucket]]
    BY <1>6 DEF StartDelete
  <2> DEFINE x == [Idle EXCEPT !.pc = step, !.cause = "delete",
                               !.bucket = pv[k[2]].bucket]
  <2>2. x.cause = "delete"
    BY DEF Idle
  <2>3. op'[k] = x /\ op[k].pc = "idle"
    BY <1>0, <1>6, <2>1 DEF StartDelete, Busy
  <2> HIDE DEF x
  <2> QED
    BY <2>2, <2>3 DEF Tends, Tended, Holds
<1>7. CASE DeleteCredentials(k)
  <2> DEFINE x == [op[k] EXCEPT !.pc = "list", !.sess = TRUE]
  <2>1. /\ op' = [op EXCEPT ![k] = x] \/ op' = [op EXCEPT ![k] = Idle]
        /\ op[k].cause = "delete"
    BY <1>1, <1>3, <1>7 DEF DeleteCredentials
  <2>2. x.cause = "delete"
    BY <1>0, <2>1 DEF Operation
  <2> HIDE DEF x
  <2>3. op'[k] \in {x, Idle}
    BY <1>0, <2>1
  <2> QED
    BY <1>3, <2>1, <2>2, <2>3 DEF Tends, Tended
<1>8. CASE ListObjects(k)
  <2>0. op[k].pc = "list"
    BY <1>8 DEF ListObjects
  <2>1. CASE ~ Exists(b)
    <3> DEFINE x == AlreadyDeleted(op[k])
    <3>1. op'[k] = x /\ store' = store
      BY <1>0, <1>8, <2>1 DEF ListObjects
    <3>2. Follows(op[k], x)
      BY <1>4
    <3> HIDE DEF x
    <3>3. Tended(x, b)
      BY <1>0, <3>2, FollowsTended
    <3> QED
      BY <1>3, <2>1, <3>1, <3>2, <3>3 DEF Tends, Tended, Follows
  <2>2. ASSUME NEW page,
               Call(k, op[k].cause, Reachable(b), b,
                    [op[k] EXCEPT !.pc = "objects", !.keys = page],
                    NotDeleted(op[k]))
        PROVE  Tends(k)
    <3> DEFINE x == [op[k] EXCEPT !.pc = "objects", !.keys = page]
    <3>1. Follows(op[k], x) /\ Holds(x, n)
      BY <1>0 DEF Operation, Follows, Holds, Late
    <3> HIDE DEF x
    <3>2. Call(k, op[k].cause, Reachable(b), b, x, Idle)
      BY <1>3, <2>2 DEF x
    <3> QED
      BY <1>0, <1>1, <1>2, <1>3, <2>0, <3>1, <3>2, CallTends
  <2> QED
    BY <1>8, <2>1, <2>2 DEF ListObjects
<1>9. CASE DeleteObject(k)
  <2>0. op[k].pc = "objects"
    BY <1>9 DEF DeleteObject
  <2>1. PICK key : Call(k, op[k].cause, Reachable(b), WithoutObject(b, key),
                        [op[k] EXCEPT !.keys = @ \ {key}], NotDeleted(op[k]))
    BY <1>9 DEF DeleteObject
  <2> DEFINE x == [op[k] EXCEPT !.keys = @ \ {key}]
             e == WithoutObject(b, key)
  <2>2. Follows(op[k], x) /\ Holds(x, n)
    BY <1>0, <2>0 DEF Operation, Follows, Holds, Late
  <2>3. /\ Exists(e) <=> Exists(b)
        /\ b.cur = {} => e.old = b.old
    BY <1>0, <2>0, EffectExists DEF WithoutObject, Bucket
  <2>4. op[k].cause # "delete" /\ n \in Generated => b.cur = {}
    BY <1>0 DEF Prepared
  <2> HIDE DEF x, e
  <2>5. Call(k, op[k].cause, Reachable(b), e, x, Idle)
    BY <1>3, <2>1 DEF x, e
  <2> QED
    BY <1>0, <1>1, <1>2, <1>3, <2>0, <2>2, <2>3, <2>4, <2>5, CallTends
<1>10. CASE DeleteBucket(k)
  <2>0. op[k].pc = "objects"
    BY <1>10 DEF DeleteBucket
  <2>1. Call(k, op[k].cause, Deletable(b), Absent, Deleted(op[k]), Idle)
    BY <1>3, <1>10 DEF DeleteBucket
  <2>2. Ours => Deletable(b)
    BY <1>2 DEF Deletable
  <2> QED
    BY <1>0, <1>1, <1>2, <1>3, <1>4, <2>0, <2>1, <2>2, CallTends
<1> QED
  BY <1>5, <1>6, <1>7, <1>8, <1>9, <1>10

\* Every step of a call.
LEMMA StepTends ==
  ASSUME Reverting, OneMode, Base, TendInv, SessionBeforeUse,
         NEW k \in Calls, Step(k)
  PROVE  Tends(k) /\ ~ Panic(k)
<1>1. ~ Panic(k)
  BY TypeInvOp DEF Base, SessionBeforeUse, Panic
<1> QED
  BY <1>1, BeginTends, LateTends, DeleteTends DEF Step

\* Only a panic reaches the other calls of a process.
LEMMA OthersStay ==
  ASSUME TypeInv, NEW k \in Calls, Step(k), ~ Panic(k)
  PROVE  \A l \in Calls : l # k => op'[l] = op[l]
<1>1. op \in [Calls -> NamedOperation]
  BY TypeInvOp
<1>2. SUFFICES \E x : op' = [op EXCEPT ![k] = x]
  BY <1>1
<1>3. ASSUME NEW call, NEW granted, NEW effect, NEW done, NEW failed,
             Call(k, call, granted, effect, done, failed)
      PROVE  \E x : op' = [op EXCEPT ![k] = x]
  BY <1>3 DEF Call
<1>4. CASE \/ SetBucketVersioning(k) \/ UpdateAccessPolicy(k)
           \/ UpdateQuotaLimit(k) \/ CheckBucketAccess(k)
  BY <1>3, <1>4 DEF SetBucketVersioning, UpdateAccessPolicy, UpdateQuotaLimit,
                    CheckBucketAccess
<1>5. CASE CheckObjectPathExistence(k)
  BY <1>3, <1>5 DEF CheckObjectPathExistence
<1>6. CASE ListObjects(k)
  BY <1>3, <1>6 DEF ListObjects
<1>7. CASE DeleteObject(k) \/ DeleteBucket(k)
  BY <1>3, <1>7 DEF DeleteObject, DeleteBucket
<1>8. CASE StartProvision(k)
  BY <1>8 DEF StartProvision
<1>9. CASE Authorize(k)
  BY <1>9 DEF Authorize
<1>10. CASE CreateBucket(k)
  BY <1>10 DEF CreateBucket
<1>11. CASE SavePV(k) \/ StartDelete(k) \/ DeleteCredentials(k) \/ RemovePV(k)
  BY <1>11 DEF SavePV, StartDelete, DeleteCredentials, RemovePV
<1> QED
  BY <1>4, <1>5, <1>6, <1>7, <1>8, <1>9, <1>10, <1>11 DEF Step

\* The call that has created a generated bucket goes on with it.
LEMMA CreatedHeld ==
  ASSUME OneMode, Base, NEW k \in Calls, CreateBucket(k), Reverting,
         NEW n \in Generated, ~ Exists(store[n]), Exists(store'[n])
  PROVE  Holds(op'[k], n)
<1> DEFINE r == req[k[2]]
           After(m) == [op[k] EXCEPT !.bucket = m,
                                     !.own  = OwnAfterCreate(store[m]),
                                     !.val  = TRUE,
                                     !.made = ~ Exists(store[m])]
           Created(m) == [store EXCEPT ![m] = IF Exists(@) THEN @ ELSE Fresh]
<1>0. /\ op[k] \in Operation /\ op \in [Calls -> NamedOperation]
      /\ store \in [Names -> Bucket] /\ n \in Names
      /\ op[k].cause = "provision" /\ r \in Requests /\ ~ (r.accessModes > 1)
  <2>1. op[k].pc = "create"
    BY DEF CreateBucket
  <2> QED
    BY <2>1, TypeInvOp DEF Base, TypeOK, NamedOperation, LifeInv, Checked,
                           Sound, OneMode, Names, Calls
<1>1. PICK m \in IF op[k].bucket = NoBucket THEN FreshNames
                                            ELSE {op[k].bucket} :
        /\ store' \in {store, Created(m)}
        /\ \/ op' = [op EXCEPT ![k] = ToVersion(r, After(m))]
           \/ CreateError(store[m]) # ""
  BY DEF CreateBucket, Reverting, Fault
<1>2. m = n
  BY <1>0, <1>1
<1>3. CreateError(store[n]) = ""
  BY DEF CreateError, Exists
<1>4. /\ After(n) \in Operation /\ After(n).cause = "provision"
      /\ After(n).bucket = n
  BY <1>0 DEF OwnAfterCreate, Exists, Operation
<1> HIDE DEF After
<1>5. op'[k] = ToVersion(r, After(n))
  BY <1>0, <1>1, <1>2, <1>3
<1> QED
  BY <1>0, <1>4, <1>5, StageKeeps DEF Holds, Late
-----------------------------------------------------------------------------
(* The invariant, and what it is for. *)

\* Nothing has been created at the start.
LEMMA TendInit == Init => TendInv
<1> SUFFICES ASSUME Init PROVE TendInv
  OBVIOUS
<1>1. \A k \in Calls : op[k] = Idle
  BY DEF Init, Calls
<1>2. \A n \in Generated : store[n] = Absent
  BY NamesAssumption DEF Init, Names
<1>3. Absent.owner = "none" /\ Idle.bucket \notin Generated /\ Idle.pc = "idle"
  BY NamesAssumption DEF Absent, Idle
<1> QED
  BY <1>1, <1>2, <1>3 DEF TendInv, Tended, Unsettled

\* Every step of a call keeps it.
LEMMA TendStep ==
  ASSUME Single, Reverting, OneMode, Base, TendInv, SessionBeforeUse,
         NEW k \in Calls, Step(k)
  PROVE  TendInv'
<1>0. /\ Tends(k) /\ Turns(k) /\ Reaches(k)
      /\ \A l \in Calls : l # k => op'[l] = op[l]
      /\ pv \in [Claims -> Volume \cup {NoVolume}]
  BY StepTends, StepTurns, StepsFacts, OthersStay
     DEF Base, StepFacts, TypeInv, TypeOK
<1>1. ASSUME NEW n \in Generated PROVE store'[n].owner \in {"none", "us"}
  BY <1>0 DEF Reaches, Keeps, TendInv, Names
<1>2. ASSUME NEW l \in Calls PROVE Tended(op'[l], store'[op'[l].bucket])
  <2>1. l # k /\ op[l].cause # "delete" /\ op[l].bucket \in Generated
          => store'[op[l].bucket] = store[op[l].bucket]
    BY <1>0, OthersUntouched DEF Base
  <2> QED
    BY <1>0, <2>1 DEF Tends, TendInv, Tended
<1>3. ASSUME NEW l \in Calls, op'[l].pc # "idle", op'[l].cause # "delete"
      PROVE  pv'[l[2]] = NoVolume
  <2>1. CASE l = k
    <3>1. pv[k[2]] = NoVolume
      BY <1>0, <1>3, <2>1 DEF Turns, TendInv, Unsettled, Base, StateInv, Saved,
                              Calls
    <3> QED
      BY <1>0, <1>3, <2>1, <3>1 DEF Turns
  <2>2. CASE l # k
    <3>1. l[2] # k[2]
      BY <2>2 DEF Single, Calls
    <3>2. pv[l[2]] = NoVolume
      BY <1>0, <1>3, <2>2 DEF TendInv, Unsettled
    <3>3. \/ UNCHANGED pv
          \/ \E v : pv' = [pv EXCEPT ![k[2]] = v]
      BY VolumeStep DEF Base
    <3>4. l[2] \in Claims
      BY DEF Calls
    <3> QED
      BY <1>0, <3>1, <3>2, <3>3, <3>4
  <2> QED
    BY <2>1, <2>2
<1> QED
  BY <1>1, <1>2, <1>3 DEF TendInv, Unsettled, Calls

\* Every step of the system keeps it.
LEMMA TendNext ==
  ASSUME Single, Reverting, OneMode
  PROVE  Base /\ SessionBeforeUse /\ TendInv /\ [Next]_vars => TendInv'
<1> SUFFICES ASSUME Base, SessionBeforeUse, TendInv, [Next]_vars PROVE TendInv'
  OBVIOUS
<1>1. ASSUME NEW k \in Calls, Step(k) PROVE TendInv'
  BY <1>1, TendStep
<1>2. ASSUME NEW c \in Claims, WriteObject(c) PROVE TendInv'
  <2>1. /\ UNCHANGED <<pv, op>>
        /\ \A n \in Names : n # pv[c].bucket => store'[n] = store[n]
        /\ pv[c].bucket \in Generated =>
             \A k \in Calls :
               op[k].cause # "delete" => op[k].bucket # pv[c].bucket
    BY <1>2, WriteReaches DEF Base
  <2>2. ASSUME NEW n \in Generated PROVE store'[n].owner \in {"none", "us"}
    <3>1. store[n] \in Bucket /\ store[n].owner \in {"none", "us"} /\ n \in Names
      BY DEF Base, TypeInv, TypeOK, TendInv, Names
    <3>2. \E key : pv[c].bucket \in Names =>
            store'[pv[c].bucket] = WithObject(store[pv[c].bucket], key)
      BY <1>2, WriteReaches DEF Base
    <3>3. \A key : WithObject(store[n], key).owner = store[n].owner
      BY <3>1 DEF WithObject, Bucket
    <3> QED
      BY <2>1, <3>1, <3>2, <3>3
  <2>3. \A k \in Calls : Tended(op[k], store'[op[k].bucket])
    BY <2>1 DEF TendInv, Tended, Names
  <2> QED
    BY <2>1, <2>2, <2>3 DEF TendInv, Unsettled
<1>3. CASE UNCHANGED <<store, pv, op>>
  BY <1>3 DEF TendInv, Unsettled
<1>4. ~ \E p \in Procs : Crash(p)
  BY DEF Crash, Fault, Reverting
<1> QED
  BY <1>1, <1>2, <1>3, <1>4 DEF Next, Calls, Submit, DeleteClaim, vars

\* A step of a call loses no bucket.
LEMMA StepHolds ==
  ASSUME Single, Reverting, OneMode, Base, ReclaimInv, TendInv,
         SessionBeforeUse, NEW k \in Calls, Step(k), NEW g \in Generated,
         Exists(store'[g]), ~ Held(g)'
  PROVE  \/ Exists(store[g]) /\ ~ Held(g)
         \/ \E c \in Claims : /\ pv[c].bucket = g
                             /\ pv[c].autoDelete # "true"
                             /\ claim[c] = "deleted"
<1>0. /\ Tends(k) /\ Creates(k) /\ ~ Panic(k) /\ g \in Names /\ TypeInv /\ TypeInv'
      /\ \A l \in Calls : l # k => op'[l] = op[l]
      /\ DOMAIN op = Calls /\ DOMAIN op' = Calls
      /\ pv \in [Claims -> Volume \cup {NoVolume}] /\ k[2] \in Claims
      /\ NoVolume.bucket \notin Generated
  BY StepTends, StepTurns, OthersStay, TypeStep, TypeInvOp, NamesAssumption
     DEF Base, TypeInv, TypeOK, Names, Calls, NoVolume
\* Nobody has it afterwards.
<1>1. /\ \A l \in Calls : ~ Holds(op'[l], g)
      /\ \A c \in Claims : pv'[c].bucket # g
  BY <1>0 DEF Held, Busy, Holds
<1>2. Exists(store[g])
  <2> SUFFICES ASSUME ~ Exists(store[g]) PROVE FALSE
    OBVIOUS
  <2>1. CreateBucket(k)
    BY <1>0 DEF Creates
  <2> QED
    BY <1>1, <2>1, CreatedHeld
<1>3. CASE \E c \in Claims : pv[c].bucket = g
  <2>1. PICK c \in Claims : pv[c].bucket = g
    BY <1>3
  <2>2. pv'[c] # pv[c] /\ pv[c] # NoVolume
    BY <1>0, <1>1, <2>1
  <2>3. /\ RemovePV(k) /\ op[k].cause = "delete" /\ claim[k[2]] = "deleted"
        /\ c = k[2] /\ store' = store
    BY <1>0, <2>2, VolumeStep DEF Base
  <2>4. op[k].pc = "remove" /\ pv[c].bucket = op[k].bucket
    BY <2>2, <2>3 DEF RemovePV, ReclaimInv, Following
  <2>5. pv[c].autoDelete # "true"
    BY <2>1, <2>3, <2>4 DEF ReclaimInv, Gone, Sole
  <2> QED
    BY <2>1, <2>3, <2>5
<1>4. CASE ~ \E c \in Claims : pv[c].bucket = g
  <2> SUFFICES ASSUME Held(g) PROVE FALSE
    BY <1>2
  <2>1. PICK l \in Calls : Holds(op[l], g)
    BY <1>0, <1>4 DEF Held, Busy, Holds
  <2>2. op[l].cause # "delete"
    <3>1. ~ \E j \in Calls : j # l /\ j[2] = l[2]
      BY DEF Single, Calls
    <3> QED
      BY <1>4, <2>1, <3>1 DEF ReclaimInv, Following, Holds, Calls
  <2>3. CASE l = k
    BY <1>0, <1>1, <1>2, <2>1, <2>2, <2>3 DEF Tends, Holds
  <2>4. CASE l # k
    BY <1>0, <1>1, <2>1, <2>4
  <2> QED
    BY <2>3, <2>4
<1> QED
  BY <1>3, <1>4

\* No failing Provision and no Delete leaves a generated bucket behind that
\* no call and no volume knows of: with one process, one access mode, and no
\* failures but those of the settings after creation and of Delete.
THEOREM NothingForgotten ==
  ASSUME Single, Reverting, OneMode, Sessioned
  PROVE  Spec => NoOrphanBuckets
<1> DEFINE Remembered ==
             \A g \in Generated :
               Exists(store'[g]) /\ ~ Held(g)' =>
                 \/ Exists(store[g]) /\ ~ Held(g)
                 \/ \E c \in Claims : /\ pv[c].bucket = g
                                     /\ pv[c].autoDelete # "true"
                                     /\ claim[c] = "deleted"
<1>1. Base /\ ReclaimInv /\ TendInv /\ SessionBeforeUse /\ [Next]_vars
        => [Remembered]_vars
  <2> SUFFICES ASSUME Base, ReclaimInv, TendInv, SessionBeforeUse, [Next]_vars,
                      NEW g \in Generated, Exists(store'[g]), ~ Held(g)'
               PROVE  \/ Exists(store[g]) /\ ~ Held(g)
                      \/ \E c \in Claims : /\ pv[c].bucket = g
                                          /\ pv[c].autoDelete # "true"
                                          /\ claim[c] = "deleted"
    OBVIOUS
  <2>1. ASSUME NEW k \in Calls, Step(k)
        PROVE  \/ Exists(store[g]) /\ ~ Held(g)
               \/ \E c \in Claims : /\ pv[c].bucket = g
                                   /\ pv[c].autoDelete # "true"
                                   /\ claim[c] = "deleted"
    BY <2>1, StepHolds
  <2>2. UNCHANGED <<op, pv>> => (Held(g)' <=> Held(g))
    BY DEF Held, Busy
  <2>3. ASSUME NEW c \in Claims, WriteObject(c)
        PROVE  Exists(store[g]) /\ ~ Held(g)
    <3>1. UNCHANGED <<op, pv>> /\ store[g] \in Bucket /\ g \in Names
      BY <2>3 DEF WriteObject, Base, TypeInv, TypeOK, Names
    <3>2. /\ g # pv[c].bucket => store'[g] = store[g]
          /\ \E key : pv[c].bucket \in Names =>
               store'[pv[c].bucket] = WithObject(store[pv[c].bucket], key)
      BY <2>3, <3>1, WriteReaches DEF Base
    <3>3. \A key : Exists(WithObject(store[g], key)) <=> Exists(store[g])
      BY <3>1, EffectExists
    <3> QED
      BY <2>2, <3>1, <3>2, <3>3
  <2>4. CASE UNCHANGED <<store, op, pv>>
    BY <2>2, <2>4
  <2>5. ~ \E p \in Procs : Crash(p)
    BY DEF Crash, Fault, Reverting
  <2> QED
    BY <2>1, <2>3, <2>4, <2>5 DEF Next, Calls, Submit, DeleteClaim, vars
<1>2. AtMostTwo
  BY DEF Single, AtMostTwo
<1>3. /\ Init => ReclaimInv /\ TendInv
      /\ Base /\ ReclaimInv /\ [Next]_vars => ReclaimInv'
      /\ Base /\ SessionBeforeUse /\ TendInv /\ [Next]_vars => TendInv'
  BY <1>2, ReclaimInit, ReclaimNext, TendInit, TendNext
<1>4. Spec => []Base
  BY AskedAlways DEF Base
<1>5. Spec => []SessionBeforeUse
  BY SessionsMade DEF Sessioned
<1> QED
  BY <1>1, <1>3, <1>4, <1>5, PTL DEF Spec, NoOrphanBuckets
=============================================================================
