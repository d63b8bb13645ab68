--------------------------- MODULE BoundaryProofs ---------------------------
(***************************************************************************)
(* Three properties of Provisioner do not hold of every claim; runs of     *)
(* MCProvisioner show it.  Here is how far the disagreements go: for which *)
(* claims the properties do hold, for any number of claims, processes and  *)
(* faults.                                                                 *)
(*                                                                         *)
(* The invariant says what a call has found out about the request it       *)
(* works for at each stage (Asked), and what of that its volume carries.   *)
(***************************************************************************)
EXTENDS LifecycleProofs

Late == {"version", "access", "quota", "check", "path", "built"}

\* Of a Provision that is behind its authorization, at whatever stage.
Working(o, r) ==
  /\ Valid(r) /\ AutoDeleteNeedsAutoCreate(r) /\ ~ ResConfKeyMissing(r)
  /\ o.cause = "provision"
  /\ o.bucket \in Generated \cup {r.bucket}
  /\ o.val => ValBucket(r)
  /\ o.sess = ValBucket(r)
  /\ o.own => /\ AutoCreateBucket(r) = "true"
              /\ o.bucket \in Generated => o.made

\* Of any call for a claim with request r.
Asked(o, r) ==
  /\ o.pc # "idle" => o.bucket \in Generated \cup {r.bucket}
  /\ o.pc # "idle" /\ o.cause # "delete"
       => Valid(r) /\ AutoDeleteNeedsAutoCreate(r)
  /\ o.pc = "authorize" => o.val = ValBucket(r) /\ ~ o.own
  /\ o.pc = "create" => /\ AutoCreateBucket(r) = "true"
                        /\ ~ ResConfKeyMissing(r)
                        /\ o.sess = ValBucket(r)
  /\ o.pc \in Late => Working(o, r)
  /\ o.pc = "version" => BucketVersioning(r) # "off"
  /\ o.pc = "access" => SetBucketAccessPolicy(r)
  /\ o.pc = "check" => o.val
  /\ o.pc = "path" => r.objectPath
  /\ o.cause = "provision" => o.pc \in {"idle", "authorize", "create"} \cup Late
  /\ o.cause = "revert" => /\ o.pc \in {"list", "objects"}
                           /\ AutoCreateBucket(r) = "true"
                           /\ o.bucket \in Generated => o.made

\* Of the volume v of such a claim.
Carries(v, r) ==
  v # NoVolume => /\ v.bucket \in Generated \cup {r.bucket}
                  /\ v.autoDelete = AutoDeleteBucket(r)
                  /\ AutoDeleteNeedsAutoCreate(r)

AskedInv ==
  /\ \A k \in Calls : Asked(op[k], req[k[2]])
  /\ \A c \in Claims : Carries(pv[c], req[c])

-----------------------------------------------------------------------------
(* The stages of Provision. *)

\* Idle knows nothing.
LEMMA IdleAsked == \A r : Asked(Idle, r)
BY DEF Asked, Idle, Late

\* Passing on to a later stage keeps what is known of the request.
LEMMA StageAsked ==
  ASSUME NEW r, NEW o \in Operation, Working(o, r)
  PROVE  /\ Asked(ToVersion(r, o), r) /\ Asked(ToAccess(r, o), r)
         /\ Asked(ToQuota(r, o), r) /\ Asked(ToCheck(r, o), r)
         /\ Asked(ToPath(r, o), r) /\ Asked(ToBuilt(r, o), r)
         /\ Asked(AfterError(r, o), r)
<1>1. \A step \in Late : /\ Working([o EXCEPT !.pc = step], r)
                         /\ [o EXCEPT !.pc = step].pc = step
                         /\ [o EXCEPT !.pc = step].val = o.val
  BY DEF Working, Operation, Late
<1>2. \A x : Working(x, r) /\ x.pc \in {"quota", "built"} => Asked(x, r)
  BY DEF Working, Asked, Late
<1>3. \A x : Working(x, r) /\ x.pc = "version" /\ BucketVersioning(r) # "off"
               => Asked(x, r)
  BY DEF Working, Asked, Late
<1>4. \A x : Working(x, r) /\ x.pc = "access" /\ SetBucketAccessPolicy(r)
               => Asked(x, r)
  BY DEF Working, Asked, Late
<1>5. \A x : Working(x, r) /\ x.pc = "check" /\ x.val => Asked(x, r)
  BY DEF Working, Asked, Late
<1>6. \A x : Working(x, r) /\ x.pc = "path" /\ r.objectPath => Asked(x, r)
  BY DEF Working, Asked, Late
<1>7. Asked(ToBuilt(r, o), r)
  BY <1>1, <1>2, IdleAsked DEF ToBuilt, Late
<1>8. Asked(ToPath(r, o), r)
  BY <1>1, <1>6, <1>7 DEF ToPath, Late
<1>9. Asked(ToCheck(r, o), r)
  BY <1>1, <1>5, <1>8 DEF ToCheck, Late
<1>10. Asked(ToQuota(r, o), r)
  BY <1>1, <1>2, <1>9 DEF ToQuota, Late
<1>11. Asked(ToAccess(r, o), r)
  BY <1>1, <1>4, <1>10 DEF ToAccess, Late
<1>12. Asked(ToVersion(r, o), r)
  BY <1>1, <1>3, <1>11 DEF ToVersion, Late
<1>13. Asked(AfterError(r, o), r)
  <2>1. o.own => Asked([o EXCEPT !.pc = "list", !.cause = "revert"], r)
    BY DEF Working, Asked, Operation, Late
  <2> QED
    BY <2>1, IdleAsked DEF AfterError
<1> QED
  BY <1>7, <1>8, <1>9, <1>10, <1>11, <1>12, <1>13
-----------------------------------------------------------------------------
(* Every step of a call, action by action. *)

\* A call that takes x up next.
LEMMA TakesUp ==
  ASSUME TypeInv, NEW k \in Calls, NEW x, op' = [op EXCEPT ![k] = x]
  PROVE  op'[k] = x
BY TypeInvOp

\* A request to the service is answered, or it fails.
LEMMA CallAsked ==
  ASSUME TypeInv, NEW k \in Calls, NEW r, NEW call, NEW granted, NEW effect,
         NEW done, NEW failed, Call(k, call, granted, effect, done, failed),
         Asked(done, r), Asked(failed, r)
  PROVE  Asked(op'[k], r)
<1>1. op' = [op EXCEPT ![k] = done] \/ op' = [op EXCEPT ![k] = failed]
  BY DEF Call
<1> QED
  BY <1>1, TakesUp

\* The beginning of Provision, up to the creation of the bucket.
LEMMA BeginAsked ==
  ASSUME TypeInv, LifeInv, StateInv, AskedInv, NEW k \in Calls,
         StartProvision(k) \/ Authorize(k) \/ CreateBucket(k)
  PROVE  Asked(op'[k], req[k[2]])
<1> DEFINE r == req[k[2]]
           n == op[k].bucket
<1>0. /\ op[k] \in Operation /\ r \in Request /\ Asked(op[k], r)
      /\ store \in [Names -> Bucket]
      /\ op[k].pc \in {"authorize", "create"} => op[k].cause = "provision"
      /\ Prepared(op[k], r, store[n])
  BY TypeInvOp, RequestsAssumption
     DEF TypeOK, Calls, NamedOperation, LifeInv, Checked, Sound, AskedInv,
         StateInv, Unspoilt
<1>1. CASE StartProvision(k)
  <2>1. PICK m \in FreshNames \cup {r.bucket} :
          op' = [op EXCEPT ![k] = [Idle EXCEPT !.pc = "authorize",
                                     !.bucket = m, !.val = ValBucket(r)]]
    BY <1>1 DEF StartProvision
  <2> DEFINE x == [Idle EXCEPT !.pc = "authorize", !.bucket = m,
                               !.val = ValBucket(r)]
  <2>2. /\ x.pc = "authorize" /\ x.bucket = m /\ x.val = ValBucket(r)
        /\ x.own = FALSE /\ x.cause = "provision"
    BY DEF Idle
  <2> HIDE DEF x
  <2>3. Valid(r) /\ AutoDeleteNeedsAutoCreate(r)
    BY <1>1 DEF StartProvision
  <2>4. Asked(x, r)
    BY <2>2, <2>3 DEF Asked, FreshNames, Late
  <2> QED
    BY <2>1, <2>4, TakesUp DEF x
<1>2. CASE Authorize(k)
  <2> DEFINE o == [op[k] EXCEPT !.sess = op[k].val]
             y == [o EXCEPT !.pc = "create", !.own = TRUE]
  <2>1. op[k].pc = "authorize" /\ op[k].cause = "provision"
    BY <1>0, <1>2 DEF Authorize
  <2>2. \/ op' = [op EXCEPT ![k] = Idle]
        \/ /\ op' = [op EXCEPT ![k] = y] /\ AutoCreateBucket(r) = "true"
           /\ ~ ResConfKeyMissing(r)
        \/ op' = [op EXCEPT ![k] = ToVersion(r, o)] /\ ~ ResConfKeyMissing(r)
    BY <1>2 DEF Authorize
  <2>3. /\ o \in Operation /\ o.cause = "provision" /\ o.bucket = n
        /\ o.val = op[k].val /\ o.sess = op[k].val /\ o.own = op[k].own
        /\ y.cause = "provision" /\ y.bucket = n /\ y.pc = "create"
        /\ y.sess = op[k].val
    BY <1>0, <2>1 DEF Operation
  <2> HIDE DEF o, y
  <2>4. ~ ResConfKeyMissing(r) => Working(o, r)
    BY <1>0, <2>1, <2>3 DEF Asked, Working
  <2>5. ~ ResConfKeyMissing(r) => Asked(ToVersion(r, o), r)
    BY <2>3, <2>4, StageAsked
  <2>6. AutoCreateBucket(r) = "true" /\ ~ ResConfKeyMissing(r) => Asked(y, r)
    BY <1>0, <2>1, <2>3 DEF Asked, Late
  <2> QED
    BY <2>2, <2>5, <2>6, IdleAsked, TakesUp
<1>3. CASE CreateBucket(k)
  <2> DEFINE After(m) == [op[k] EXCEPT !.bucket = m,
                                       !.own  = OwnAfterCreate(store[m]),
                                       !.val  = TRUE,
                                       !.made = ~ Exists(store[m])]
  <2>1. PICK m \in IF n = NoBucket THEN FreshNames ELSE {n} :
          \/ op' = [op EXCEPT ![k] = ToVersion(r, After(m))]
          \/ op' = [op EXCEPT ![k] = Idle]
    BY <1>3 DEF CreateBucket
  <2>2. op[k].pc = "create" /\ op[k].cause = "provision"
    BY <1>0, <1>3 DEF CreateBucket
  <2>3. m \in Names /\ (m # n => m \in Generated \ used)
    BY <1>0, <2>1 DEF FreshNames, Names, Operation
  <2>4. m \in Generated => store[m] = Absent
    BY <1>0, <2>2, <2>3 DEF Prepared, StateInv, Unspoilt
  <2>5. /\ After(m) \in Operation /\ After(m).cause = "provision"
        /\ After(m).bucket = m /\ After(m).val = TRUE
        /\ After(m).sess = op[k].sess
        /\ ~ Exists(store[m]) => After(m).made = TRUE
    BY <1>0, <2>2, <2>3 DEF OwnAfterCreate, Exists, Operation
  <2>6. AutoCreateBucket(r) = "true" => ValBucket(r)
    BY DEF ValBucket
  <2>7. m \in Generated \cup {r.bucket}
    BY <1>0, <2>2, <2>3 DEF Asked
  <2> HIDE DEF After
  <2>8. Working(After(m), r)
    <3>1. m \in Generated => After(m).made = TRUE
      BY <2>4, <2>5 DEF Exists, Absent
    <3> QED
      BY <1>0, <2>2, <2>5, <2>6, <2>7, <3>1 DEF Asked, Working
  <2>9. Asked(ToVersion(r, After(m)), r)
    BY <2>5, <2>8, StageAsked
  <2> QED
    BY <2>1, <2>9, IdleAsked, TakesUp
<1> QED
  BY <1>1, <1>2, <1>3

\* The requests that Provision makes of a bucket it has created or found.
LEMMA LateAsked ==
  ASSUME TypeInv, LifeInv, StateInv, AskedInv, NEW k \in Calls,
         \/ SetBucketVersioning(k) \/ UpdateAccessPolicy(k) \/ UpdateQuotaLimit(k)
         \/ CheckBucketAccess(k) \/ CheckObjectPathExistence(k)
  PROVE  Asked(op'[k], req[k[2]])
<1> DEFINE r == req[k[2]]
           b == store[op[k].bucket]
           o == [op[k] EXCEPT !.val = TRUE]
<1>1. op[k] \in Operation /\ Asked(op[k], r)
  BY TypeInvOp DEF NamedOperation, AskedInv
<1>2. op[k].pc \in Late
  BY DEF SetBucketVersioning, UpdateAccessPolicy, UpdateQuotaLimit,
         CheckBucketAccess, CheckObjectPathExistence, Late
<1>3. Working(op[k], r)
  BY <1>1, <1>2 DEF Asked
<1>4. Asked(AfterError(r, op[k]), r)
  BY <1>1, <1>3, StageAsked
<1>5. CASE SetBucketVersioning(k)
  <2>1. Asked(ToAccess(r, op[k]), r)
    BY <1>1, <1>3, StageAsked
  <2> QED
    BY <1>4, <1>5, <2>1, CallAsked DEF SetBucketVersioning
<1>6. CASE UpdateAccessPolicy(k)
  <2>1. ValBucket(r)
    BY <1>1, <1>3, <1>6 DEF UpdateAccessPolicy, Asked, Working, ResConfKeyMissing
  <2>2. o \in Operation /\ Working(o, r)
    BY <1>1, <1>3, <2>1 DEF Working, Operation
  <2>3. Asked(ToQuota(r, o), r)
    BY <2>2, StageAsked
  <2> QED
    BY <1>4, <1>6, <2>3, CallAsked DEF UpdateAccessPolicy
<1>7. CASE UpdateQuotaLimit(k)
  <2>1. Asked(ToCheck(r, op[k]), r)
    BY <1>1, <1>3, StageAsked
  <2> QED
    BY <1>4, <1>7, <2>1, CallAsked DEF UpdateQuotaLimit
<1>8. CASE CheckBucketAccess(k)
  <2>1. Asked(ToPath(r, op[k]), r)
    BY <1>1, <1>3, StageAsked
  <2> QED
    BY <1>8, <2>1, IdleAsked, CallAsked DEF CheckBucketAccess
<1>9. CASE CheckObjectPathExistence(k)
  <2>1. Asked(ToBuilt(r, op[k]), r)
    BY <1>1, <1>3, StageAsked
  <2>2. PICK found \in BOOLEAN :
          Call(k, "path", Reachable(b), b,
               IF found THEN ToBuilt(r, op[k]) ELSE Idle, Idle)
    BY <1>9 DEF CheckObjectPathExistence
  <2>3. Asked(IF found THEN ToBuilt(r, op[k]) ELSE Idle, r)
    BY <2>1, IdleAsked
  <2> QED
    BY <2>2, <2>3, IdleAsked, CallAsked
<1> QED
  BY <1>5, <1>6, <1>7, <1>8, <1>9

\* A call that is in DeleteBucket, or goes on to it, and the end of a call.
LEMMA DeleteAsked ==
  ASSUME TypeInv, LifeInv, StateInv, AskedInv, NEW k \in Calls,
         \/ SavePV(k) \/ StartDelete(k) \/ DeleteCredentials(k) \/ RemovePV(k)
         \/ ListObjects(k) \/ DeleteObject(k) \/ DeleteBucket(k) \/ Panic(k)
  PROVE  Asked(op'[k], req[k[2]])
<1> DEFINE r == req[k[2]]
           n == op[k].bucket
           b == store[n]
<1>0. /\ op[k] \in Operation /\ Asked(op[k], r) /\ k[2] \in Claims
      /\ Carries(pv[k[2]], r) /\ op \in [Calls -> NamedOperation]
  BY TypeInvOp DEF NamedOperation, AskedInv, Calls
\* What is left of a call has the bucket and the cause that the call has.
<1>1. ASSUME NEW x, op[k].pc \in {"credentials", "list", "objects"},
             x.bucket = n, x.cause = op[k].cause, x.made = op[k].made,
             \/ x.pc \in {"list", "objects"}
             \/ x.pc = "remove" /\ op[k].cause = "delete"
      PROVE  Asked(x, r)
  BY <1>0, <1>1 DEF Asked, Late
<1>2. /\ Asked(NotDeleted(op[k]), r)
      /\ op[k].pc \in {"list", "objects"} =>
           Asked(Deleted(op[k]), r) /\ Asked(AlreadyDeleted(op[k]), r)
  <2> DEFINE x == [op[k] EXCEPT !.pc = "remove"]
  <2>1. /\ x.bucket = n /\ x.cause = op[k].cause /\ x.pc = "remove"
        /\ x.made = op[k].made
    BY <1>0 DEF Operation
  <2> HIDE DEF x
  <2>2. op[k].pc \in {"list", "objects"} /\ op[k].cause = "delete" => Asked(x, r)
    BY <1>1, <2>1
  <2> QED
    BY <2>2, IdleAsked DEF NotDeleted, Deleted, AlreadyDeleted, x
<1>3. CASE SavePV(k) \/ RemovePV(k) \/ Panic(k)
  <2>1. op'[k] = Idle
    BY <1>0, <1>3 DEF SavePV, RemovePV, Panic, Stopped
  <2> QED
    BY <2>1, IdleAsked
<1>4. CASE StartDelete(k)
  <2>1. PICK step \in {"credentials", "remove"} :
          op' = [op EXCEPT ![k] = [Idle EXCEPT !.pc = step, !.cause = "delete",
                                               !.bucket = pv[k[2]].bucket]]
    BY <1>4 DEF StartDelete
  <2> DEFINE x == [Idle EXCEPT !.pc = step, !.cause = "delete",
                               !.bucket = pv[k[2]].bucket]
  <2>2. /\ x.cause = "delete" /\ x.pc \in {"credentials", "remove"}
        /\ x.bucket = pv[k[2]].bucket
    BY DEF Idle
  <2> HIDE DEF x
  <2>3. pv[k[2]] # NoVolume
    BY <1>4 DEF StartDelete, ShouldDelete
  <2>4. Asked(x, r)
    BY <1>0, <2>2, <2>3 DEF Asked, Carries, Late
  <2> QED
    BY <2>1, <2>4, TakesUp DEF x
<1>5. CASE DeleteCredentials(k)
  <2> DEFINE x == [op[k] EXCEPT !.pc = "list", !.sess = TRUE]
  <2>1. /\ op' = [op EXCEPT ![k] = x] \/ op' = [op EXCEPT ![k] = NotDeleted(op[k])]
        /\ op[k].pc = "credentials"
    BY <1>5 DEF DeleteCredentials
  <2>2. /\ x.bucket = n /\ x.cause = op[k].cause /\ x.pc = "list"
        /\ x.made = op[k].made
    BY <1>0 DEF Operation
  <2> HIDE DEF x
  <2>3. Asked(x, r)
    BY <1>1, <2>1, <2>2
  <2> QED
    BY <1>2, <2>1, <2>3, TakesUp
<1>6. CASE ListObjects(k)
  <2>0. op[k].pc = "list"
    BY <1>6 DEF ListObjects
  <2>1. CASE op' = [op EXCEPT ![k] = AlreadyDeleted(op[k])]
    BY <1>2, <2>0, <2>1, TakesUp
  <2>2. ASSUME NEW page,
               Call(k, op[k].cause, Reachable(b), b,
                    [op[k] EXCEPT !.pc = "objects", !.keys = page],
                    NotDeleted(op[k]))
        PROVE  Asked(op'[k], r)
    <3> DEFINE x == [op[k] EXCEPT !.pc = "objects", !.keys = page]
    <3>1. /\ x.bucket = n /\ x.cause = op[k].cause /\ x.pc = "objects"
          /\ x.made = op[k].made
      BY <1>0 DEF Operation
    <3> HIDE DEF x
    <3>2. Asked(x, r)
      BY <1>1, <2>0, <3>1
    <3> QED
      BY <1>2, <2>2, <3>2, CallAsked DEF x
  <2> QED
    BY <1>6, <2>1, <2>2 DEF ListObjects
<1>7. CASE DeleteObject(k)
  <2>0. op[k].pc = "objects"
    BY <1>7 DEF DeleteObject
  <2>1. PICK key : Call(k, op[k].cause, Reachable(b), WithoutObject(b, key),
                        [op[k] EXCEPT !.keys = @ \ {key}], NotDeleted(op[k]))
    BY <1>7 DEF DeleteObject
  <2> DEFINE x == [op[k] EXCEPT !.keys = @ \ {key}]
  <2>2. /\ x.bucket = n /\ x.cause = op[k].cause /\ x.pc = "objects"
        /\ x.made = op[k].made
    BY <1>0, <2>0 DEF Operation
  <2> HIDE DEF x
  <2>3. Asked(x, r)
    BY <1>1, <2>0, <2>2
  <2> QED
    BY <1>2, <2>1, <2>3, CallAsked DEF x
<1>8. CASE DeleteBucket(k)
  <2>1. /\ op[k].pc = "objects"
        /\ Call(k, op[k].cause, Deletable(b), Absent, Deleted(op[k]),
                NotDeleted(op[k]))
    BY <1>8 DEF DeleteBucket
  <2> QED
    BY <1>2, <2>1, CallAsked
<1> QED
  BY <1>3, <1>4, <1>5, <1>6, <1>7, <1>8
-----------------------------------------------------------------------------
(* The invariant. *)

\* Nothing is known, and nothing is claimed, at the start.
LEMMA AskedInit == Init => AskedInv
<1> SUFFICES ASSUME Init PROVE AskedInv
  OBVIOUS
<1>1. \A k \in Calls : op[k] = Idle
  BY DEF Init, Calls
<1>2. \A c \in Claims : pv[c] = NoVolume
  BY DEF Init
<1> QED
  BY <1>1, <1>2, IdleAsked DEF AskedInv, Carries

\* A saved volume carries what its Provision was asked for.
LEMMA SavedCarries ==
  ASSUME TypeInv, LifeInv, StateInv, AskedInv, NEW k \in Calls, Step(k),
         NEW c \in Claims
  PROVE  Carries(pv'[c], req[c])
<1>1. Carries(pv[c], req[c]) /\ pv \in [Claims -> Volume \cup {NoVolume}]
  BY DEF AskedInv, TypeInv, TypeOK
<1>2. CASE UNCHANGED pv
  BY <1>1, <1>2
<1>3. CASE RemovePV(k)
  <2>1. pv'[c] = pv[c] \/ pv'[c] = NoVolume
    BY <1>1, <1>3 DEF RemovePV
  <2> QED
    BY <1>1, <2>1 DEF Carries
<1>4. CASE SavePV(k) /\ ~ UNCHANGED pv
  <2>1. /\ op[k].pc = "built"
        /\ pv' = [pv EXCEPT ![k[2]] =
                    [bucket |-> op[k].bucket,
                     autoDelete |-> AutoDeleteBucket(req[k[2]])]]
    BY <1>4 DEF SavePV
  <2>2. Working(op[k], req[k[2]])
    BY <2>1 DEF AskedInv, Asked, Late
  <2>3. CASE c = k[2]
    <3>1. pv'[c] = [bucket |-> op[k].bucket,
                    autoDelete |-> AutoDeleteBucket(req[c])]
      BY <1>1, <2>1, <2>3
    <3> QED
      BY <2>2, <2>3, <3>1 DEF Carries, Working
  <2>4. CASE c # k[2]
    <3>1. pv'[c] = pv[c]
      BY <1>1, <2>1, <2>4
    <3> QED
      BY <1>1, <3>1
  <2> QED
    BY <2>3, <2>4
<1> QED
  BY <1>2, <1>3, <1>4, VolumeStep

\* Every step of the system keeps what calls and volumes are asked for.
LEMMA AskedNext ==
  TypeInv /\ LifeInv /\ StateInv /\ AskedInv /\ [Next]_vars => AskedInv'
<1> SUFFICES ASSUME TypeInv, LifeInv, StateInv, AskedInv, [Next]_vars
             PROVE  AskedInv'
  OBVIOUS
<1>1. ASSUME NEW k \in Calls, Step(k) PROVE AskedInv'
  <2>1. Asked(op'[k], req[k[2]])
    BY <1>1, BeginAsked, LateAsked, DeleteAsked DEF Step
  <2>2. \A l \in Calls : l # k => op'[l] \in {op[l], Idle}
    BY <1>1, StepsFacts DEF StepFacts, Reaches
  <2>3. \A l \in Calls : Asked(op'[l], req[l[2]])
    BY <2>1, <2>2, IdleAsked DEF AskedInv
  <2>4. req' = req
    BY <1>1, VolumeStep
  <2> QED
    BY <1>1, <2>3, <2>4, SavedCarries DEF AskedInv
<1>2. ASSUME NEW p \in Procs, Crash(p) PROVE AskedInv'
  <2>1. /\ \A l \in Calls : op'[l] \in {op[l], Idle}
        /\ UNCHANGED <<req, pv>>
    BY <1>2 DEF Crash, Stopped, TypeInv, TypeOK, Calls
  <2> QED
    BY <2>1, IdleAsked DEF AskedInv
<1>3. CASE UNCHANGED <<req, pv, op>>
  BY <1>3 DEF AskedInv
<1> QED
  BY <1>1, <1>2, <1>3
     DEF Next, Calls, Submit, DeleteClaim, WriteObject, vars

\* The invariants together.
LEMMA AskedAlways == Spec => [](TypeInv /\ LifeInv /\ StateInv /\ AskedInv)
<1>1. Init => AskedInv
  BY AskedInit
<1>2. TypeInv /\ LifeInv /\ StateInv /\ AskedInv /\ [Next]_vars => AskedInv'
  BY AskedNext
<1> QED
  BY <1>1, <1>2, Invariants, PTL DEF Spec
-----------------------------------------------------------------------------
(* How far the three disagreements go. *)

\* A session is missing only where the claim has its bucket not validated, does
\* not have it created, and yet wants versioning or an object path (515-523,
\* 660, 745).
NilSessionOnly ==
  \A k \in Calls : UsesNilSession(k) =>
    LET r == req[k[2]]
    IN ~ ValBucket(r) /\ (BucketVersioning(r) # "off" \/ r.objectPath)

\* No other claim can make Provision panic, whatever fails or runs beside it.
THEOREM NilSessionConfined == Spec => []NilSessionOnly
<1>1. AskedInv => NilSessionOnly
  <2> SUFFICES ASSUME AskedInv, NEW k \in Calls, UsesNilSession(k)
               PROVE  LET r == req[k[2]]
                      IN /\ ~ ValBucket(r)
                         /\ BucketVersioning(r) # "off" \/ r.objectPath
    BY DEF NilSessionOnly
  <2>1. op[k].pc \in {"version", "check", "path"} /\ ~ op[k].sess
    BY DEF UsesNilSession
  <2>2. Asked(op[k], req[k[2]]) /\ Working(op[k], req[k[2]])
    BY <2>1 DEF AskedInv, Asked, Late
  <2> QED
    BY <2>1, <2>2 DEF Asked, Working
<1> QED
  BY <1>1, AskedAlways, PTL

\* So the process never panics if every claim that is not validated does
\* without the two.
THEOREM SessionsMade ==
  ASSUME \A r \in Requests :
           ValBucket(r) \/ (BucketVersioning(r) = "off" /\ ~ r.objectPath)
  PROVE  Spec => []SessionBeforeUse
<1>1. TypeInv /\ NilSessionOnly => SessionBeforeUse
  <2> SUFFICES ASSUME TypeInv, NilSessionOnly, NEW k \in DOMAIN op
               PROVE  ~ UsesNilSession(k)
    BY DEF SessionBeforeUse
  <2>1. k \in Calls
    BY TypeInvOp
  <2>2. req[k[2]] \in Requests
    BY <2>1 DEF TypeInv, TypeOK, Calls
  <2> QED
    BY <2>1, <2>2 DEF NilSessionOnly
<1>2. TypeInv /\ LifeInv /\ StateInv /\ AskedInv => TypeInv
  OBVIOUS
<1> QED
  BY <1>1, <1>2, NilSessionConfined, AskedAlways, PTL

\* A volume that goes with its bucket is one whose bucket was created for it,
\* if auto-create is spelled "true" or "false" wherever it is spelled (491,
\* 508, 626): another text is neither created from nor refused.
THEOREM AutoDeleteOfCreated ==
  ASSUME \A r \in Requests : AutoCreateBucket(r) \in {"true", "false"}
  PROVE  Spec => []AutoDeleteImpliesAutoCreate
<1>1. TypeInv /\ AskedInv => AutoDeleteImpliesAutoCreate
  <2> SUFFICES ASSUME TypeInv, AskedInv, NEW c \in Claims,
                      pv[c].autoDelete = "true"
               PROVE  AutoCreateBucket(req[c]) = "true"
    BY DEF AutoDeleteImpliesAutoCreate
  <2>1. pv[c] # NoVolume /\ req[c] \in Requests
    <3>1. NoVolume.autoDelete = ""
      BY DEF NoVolume
    <3>2. req \in [Claims -> Requests]
      BY DEF TypeInv, TypeOK
    <3> QED
      BY <3>1, <3>2
  <2>2. /\ AutoDeleteBucket(req[c]) = "true"
        /\ AutoDeleteNeedsAutoCreate(req[c])
    BY <2>1 DEF AskedInv, Carries
  <2> QED
    BY <2>1, <2>2 DEF AutoDeleteNeedsAutoCreate
<1> QED
  BY <1>1, AskedAlways, PTL

\* What a revert deletes is its own creation, unless the bucket has a name
\* that a user chose: only there is success of CreateBucket no proof of it
\* (backend.go 174).
ForeignRevertsNamed ==
  \A k \in Calls :
    op[k].cause = "revert" /\ ~ op[k].made =>
      /\ op[k].bucket = req[k[2]].bucket
      /\ AutoCreateBucket(req[k[2]]) = "true"

\* The comments at 679 and 694 hold for every bucket with a generated name.
THEOREM RevertsConfined == Spec => []ForeignRevertsNamed
<1>1. AskedInv /\ LifeInv /\ TypeInv => ForeignRevertsNamed
  <2> SUFFICES ASSUME AskedInv, LifeInv, TypeInv, NEW k \in Calls,
                      op[k].cause = "revert", ~ op[k].made
               PROVE  /\ op[k].bucket = req[k[2]].bucket
                      /\ AutoCreateBucket(req[k[2]]) = "true"
    BY DEF ForeignRevertsNamed
  <2>1. Asked(op[k], req[k[2]])
    BY DEF AskedInv
  <2> QED
    BY <2>1 DEF Asked
<1> QED
  BY <1>1, AskedAlways, PTL

\* So every revert undoes the call's own creation if created buckets are
\* always named by the provisioner.
THEOREM RevertsOwn ==
  ASSUME \A r \in Requests : AutoCreateBucket(r) = "true" => r.bucket = NoBucket
  PROVE  Spec => []RevertOnlyOwnCreation
<1>1. TypeInv /\ AskedInv => RevertOnlyOwnCreation
  <2> SUFFICES ASSUME TypeInv, AskedInv, NEW k \in DOMAIN op,
                      op[k].cause = "revert"
               PROVE  op[k].made
    BY DEF RevertOnlyOwnCreation
  <2>1. k \in Calls /\ op[k] \in NamedOperation
    BY TypeInvOp
  <2>2. req[k[2]] \in Requests /\ Asked(op[k], req[k[2]])
    BY <2>1 DEF TypeInv, TypeOK, Calls, AskedInv
  <2>3. op[k].bucket # NoBucket
    <3>1. op[k].bucket \in Names
      BY <2>1, <2>2 DEF NamedOperation, Named, Asked
    <3> QED
      BY <3>1, NamesAssumption, NoBucketAssumption DEF Names
  <2> QED
    BY <2>2, <2>3 DEF Asked
<1> QED
  BY <1>1, AskedAlways, PTL
=============================================================================
