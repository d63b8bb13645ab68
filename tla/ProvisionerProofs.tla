------------------------- MODULE ProvisionerProofs -------------------------
(***************************************************************************)
(* Proofs about Provisioner, for any number of claims, processes, names,   *)
(* requests and faults.                                                    *)
(***************************************************************************)
EXTENDS Provisioner, TLAPS

Calls == Procs \X Claims

Named(o) == o.pc \notin {"idle", "authorize", "create"} => o.bucket \in Names

\* A list page is a set of objects only if there is a bucket to list: the
\* types need NamedBeforeUse to be inductive, and the two are proved together.
NamedOperation == {o \in Operation : Named(o)}

TypeInv == TypeOK /\ NamedBeforeUse

\* The invariant says where each operation is taken from.
LEMMA TypeInvOp ==
  TypeInv <=> TypeOK /\ op \in [Calls -> NamedOperation]
BY DEF TypeInv, TypeOK, NamedBeforeUse, NamedOperation, Named, Calls

-----------------------------------------------------------------------------
(* What the operators return. *)

\* The idle record is an operation.
LEMMA IdleType == Idle \in NamedOperation
BY DEF Idle, Operation, NamedOperation, Named

\* The values that the annotations resolve to.
LEMMA RequestTypes ==
  ASSUME NEW r \in Request
  PROVE  /\ r.bucket \in Names \cup {NoBucket}
         /\ AutoDeleteBucket(r) \in BoolText
         /\ BucketVersioning(r) \in {"off", "Enabled", "Suspended"}
         /\ ValBucket(r) \in BOOLEAN
BY DEF Request, Names, AutoDeleteBucket, FirstOf, BoolText, BucketVersioning,
       ToLower, ValBucket

\* Skipping stages of Provision, and ending a call, yields an operation.
LEMMA StageTypes ==
  ASSUME NEW r, NEW o \in Operation, o.bucket \in Names
  PROVE  /\ ToBuilt(r, o) \in NamedOperation
         /\ ToPath(r, o) \in NamedOperation
         /\ ToCheck(r, o) \in NamedOperation
         /\ ToQuota(r, o) \in NamedOperation
         /\ ToAccess(r, o) \in NamedOperation
         /\ ToVersion(r, o) \in NamedOperation
         /\ AfterError(r, o) \in NamedOperation
         /\ Deleted(o) \in NamedOperation
         /\ AlreadyDeleted(o) \in NamedOperation
<1>0. /\ \A step \in {"version", "access", "quota", "check", "path", "built",
                      "remove"} : [o EXCEPT !.pc = step] \in NamedOperation
      /\ [o EXCEPT !.pc = "list", !.cause = "revert"] \in NamedOperation
  BY DEF NamedOperation, Named, Operation
<1>1. ToBuilt(r, o) \in NamedOperation
  BY <1>0, IdleType DEF ToBuilt
<1>2. ToPath(r, o) \in NamedOperation
  BY <1>0, <1>1 DEF ToPath
<1>3. ToCheck(r, o) \in NamedOperation
  BY <1>0, <1>2 DEF ToCheck
<1>4. ToQuota(r, o) \in NamedOperation
  BY <1>0, <1>3 DEF ToQuota
<1>5. ToAccess(r, o) \in NamedOperation
  BY <1>0, <1>4 DEF ToAccess
<1>6. ToVersion(r, o) \in NamedOperation
  BY <1>0, <1>5 DEF ToVersion
<1>7. AfterError(r, o) \in NamedOperation
  BY <1>0, IdleType DEF AfterError
<1>8. Deleted(o) \in NamedOperation /\ AlreadyDeleted(o) \in NamedOperation
  BY <1>0, IdleType DEF Deleted, AlreadyDeleted
<1> QED
  BY <1>1, <1>2, <1>3, <1>4, <1>5, <1>6, <1>7, <1>8

\* The buckets that requests leave behind are buckets.
LEMMA BucketTypes ==
  /\ Absent \in Bucket /\ Fresh \in Bucket
  /\ \A b \in Bucket :
       /\ [b EXCEPT !.policy = TRUE] \in Bucket
       /\ [b EXCEPT !.quota = TRUE] \in Bucket
       /\ \A v \in {"off", "Enabled", "Suspended"} :
             [b EXCEPT !.ver = v] \in Bucket
       /\ \A key \in Objects :
             WithObject(b, key) \in Bucket /\ WithoutObject(b, key) \in Bucket
<1>1. Absent \in Bucket /\ Fresh \in Bucket
  BY DEF Absent, Fresh, Bucket, Owner
<1>2. ASSUME NEW b \in Bucket, NEW key \in Objects
      PROVE  WithObject(b, key) \in Bucket /\ WithoutObject(b, key) \in Bucket
  BY DEF WithObject, WithoutObject, Bucket
<1>3. ASSUME NEW b \in Bucket
      PROVE  /\ [b EXCEPT !.policy = TRUE] \in Bucket
             /\ [b EXCEPT !.quota = TRUE] \in Bucket
             /\ \A v \in {"off", "Enabled", "Suspended"} :
                   [b EXCEPT !.ver = v] \in Bucket
  BY DEF Bucket
<1> QED
  BY <1>1, <1>2, <1>3

\* A request changes the store, the calling operation and the fault count.
LEMMA CallTypes ==
  ASSUME TypeInv, NEW k \in Calls, NEW call, NEW granted, NEW effect \in Bucket,
         NEW done \in NamedOperation, NEW failed \in NamedOperation,
         Call(k, call, granted, effect, done, failed)
  PROVE  /\ store' \in [Names -> Bucket]
         /\ op' \in [Calls -> NamedOperation]
         /\ faults' \in 0 .. MaxFaults
<1> DEFINE changed == [store EXCEPT ![op[k].bucket] = effect]
<1>1. /\ store \in [Names -> Bucket] /\ op \in [Calls -> NamedOperation]
      /\ faults \in 0 .. MaxFaults
  BY TypeInvOp DEF TypeOK
<1>2. changed \in [Names -> Bucket]
  BY <1>1
<1>3. store' \in {store, changed}
  BY DEF Call
<1>4. op' = [op EXCEPT ![k] = done] \/ op' = [op EXCEPT ![k] = failed]
  BY DEF Call
<1>5. faults' \in 0 .. MaxFaults
  BY <1>1, MaxFaultsAssumption DEF Call, Fault
<1> QED
  BY <1>1, <1>2, <1>3, <1>4, <1>5
-----------------------------------------------------------------------------
(* Type correctness. *)

\* Every initial state is well typed.
LEMMA TypeInit == Init => TypeInv
<1> SUFFICES ASSUME Init PROVE TypeInv
  OBVIOUS
<1>1. store \in [Names -> Bucket]
  BY BucketTypes, ExistingAssumption DEF Init
<1>2. op \in [Calls -> NamedOperation]
  BY IdleType DEF Init, Calls
<1>3. op \in [Procs \X Claims -> Operation]
  BY <1>2 DEF NamedOperation, Calls
<1>4. TypeOK
  BY <1>1, <1>3, MaxFaultsAssumption DEF Init, TypeOK
<1> QED
  BY <1>2, <1>4, TypeInvOp

\* The types of the primed variables, put together.
LEMMA TypePrimed ==
  ASSUME TypeInv, req' = req,
         store' \in [Names -> Bucket],
         claim' \in [Claims -> {"none", "pending", "bound", "deleted"}],
         pv' \in [Claims -> Volume \cup {NoVolume}],
         op' \in [Calls -> NamedOperation],
         used' \subseteq Generated,
         faults' \in 0 .. MaxFaults,
         tries' \in [Calls -> Nat]
  PROVE  TypeInv'
BY DEF TypeInv, TypeOK, NamedBeforeUse, NamedOperation, Named, Calls

\* The counts of the claim queues are numbers after every step.
LEMMA TriesTyped ==
  ASSUME TypeOK, NEW ended, Remember(ended)
  PROVE  tries' \in [Calls -> Nat]
BY DEF TypeOK, Remember, Calls

\* Every step of a Provision or a Delete keeps the types.
LEMMA TypeStep ==
  ASSUME TypeInv, NEW k \in Calls, Step(k)
  PROVE  TypeInv'
<1> DEFINE c == k[2]
           r == req[c]
           b == store[op[k].bucket]
           Typed == /\ store' \in [Names -> Bucket]
                    /\ op' \in [Calls -> NamedOperation]
                    /\ faults' \in 0 .. MaxFaults
<1>0. /\ c \in Claims /\ r \in Request
      /\ op[k] \in Operation /\ Named(op[k]) /\ op \in [Calls -> NamedOperation]
      /\ op[k].bucket \in Names => b \in Bucket
      /\ store \in [Names -> Bucket]
      /\ claim \in [Claims -> {"none", "pending", "bound", "deleted"}]
      /\ pv \in [Claims -> Volume \cup {NoVolume}]
      /\ used \subseteq Generated
      /\ faults \in 0 .. MaxFaults
      /\ tries' \in [Calls -> Nat]
  <2>1. tries' \in [Calls -> Nat]
    BY TriesTyped, TypeInvOp DEF Step
  <2> QED
    BY <2>1, TypeInvOp, RequestsAssumption DEF TypeOK, Calls, NamedOperation
<1>1. CASE StartProvision(k)
  <2>1. PICK n \in Names \cup {NoBucket} :
          /\ op' = [op EXCEPT ![k] = [Idle EXCEPT !.pc = "authorize",
                                       !.bucket = n, !.val = ValBucket(r)]]
          /\ used' \in {used, used \cup ({n} \cap Generated)}
    <3>1. CASE AutoDeleteBucket(r) = "true" /\ r.bucket = NoBucket
      <4>1. PICK n \in FreshNames :
              /\ op' = [op EXCEPT ![k] = [Idle EXCEPT !.pc = "authorize",
                                           !.bucket = n, !.val = ValBucket(r)]]
              /\ used' = used \cup {n}
        BY <1>1, <3>1 DEF StartProvision
      <4> QED
        BY <4>1 DEF FreshNames, Names
    <3>2. CASE ~ (AutoDeleteBucket(r) = "true" /\ r.bucket = NoBucket)
      BY <1>0, <1>1, <3>2, RequestTypes DEF StartProvision
    <3> QED
      BY <3>1, <3>2
  <2>2. [Idle EXCEPT !.pc = "authorize", !.bucket = n, !.val = ValBucket(r)]
           \in NamedOperation
    BY <1>0, RequestTypes DEF Idle, Operation, NamedOperation, Named
  <2>3. op' \in [Calls -> NamedOperation] /\ used' \subseteq Generated
    BY <1>0, <2>1, <2>2
  <2> QED
    BY <1>0, <1>1, <2>3, TypePrimed DEF StartProvision
<1>2. CASE Authorize(k)
  <2> DEFINE o == [op[k] EXCEPT !.sess = op[k].val]
  <2>1. /\ o \in Operation /\ o.bucket = op[k].bucket
        /\ [o EXCEPT !.pc = "create", !.own = TRUE] \in NamedOperation
    BY <1>0 DEF Operation, NamedOperation, Named
  <2>2. BucketNamed(o) => ToVersion(r, o) \in NamedOperation
    <3>1. BucketNamed(o) => o.bucket \in Names
      BY <2>1 DEF BucketNamed, Operation
    <3> QED
      BY <2>1, <3>1, StageTypes
  <2>3. \/ op' = [op EXCEPT ![k] = Idle]
        \/ op' = [op EXCEPT ![k] = [o EXCEPT !.pc = "create", !.own = TRUE]]
        \/ BucketNamed(o) /\ op' = [op EXCEPT ![k] = ToVersion(r, o)]
    BY <1>2 DEF Authorize
  <2>4. op' \in [Calls -> NamedOperation]
    BY <1>0, <2>1, <2>2, <2>3, IdleType
  <2>5. faults' \in 0 .. MaxFaults
    BY <1>0, <1>2, MaxFaultsAssumption DEF Authorize, Fault
  <2> QED
    BY <1>0, <1>2, <2>4, <2>5, TypePrimed DEF Authorize
<1>3. CASE CreateBucket(k)
  <2> DEFINE After(n) == [op[k] EXCEPT !.bucket = n,
                                       !.own  = OwnAfterCreate(store[n]),
                                       !.val  = TRUE,
                                       !.made = ~ Exists(store[n])]
             Created(n) == [store EXCEPT ![n] = IF Exists(@) THEN @ ELSE Fresh]
  <2>1. PICK n \in IF op[k].bucket = NoBucket THEN FreshNames
                                              ELSE {op[k].bucket} :
          /\ used' = used \cup ({n} \cap Generated)
          /\ store' \in {store, Created(n)}
          /\ \/ op' = [op EXCEPT ![k] = ToVersion(r, After(n))]
             \/ op' = [op EXCEPT ![k] = Idle]
          /\ faults' = faults \/ Fault("create")
    BY <1>3 DEF CreateBucket
  <2>2. n \in Names
    BY <1>0 DEF FreshNames, Names, Operation
  <2>3. After(n) \in Operation /\ After(n).bucket \in Names
    BY <1>0, <2>2 DEF OwnAfterCreate, Exists, Operation
  <2>4. Created(n) \in [Names -> Bucket]
    BY <1>0, <2>2, BucketTypes
  <2>5. op' \in [Calls -> NamedOperation]
    <3>1. ToVersion(r, After(n)) \in NamedOperation
      BY <2>3, StageTypes
    <3> HIDE DEF After
    <3> QED
      BY <1>0, <2>1, <3>1, IdleType
  <2>6. faults' \in 0 .. MaxFaults
    BY <1>0, <2>1, MaxFaultsAssumption DEF Fault
  <2>7. used' \subseteq Generated
    BY <1>0, <2>1
  <2> QED
    BY <1>0, <1>3, <2>1, <2>4, <2>5, <2>6, <2>7, TypePrimed DEF CreateBucket
<1>4. CASE SetBucketVersioning(k)
  <2>1. op[k].bucket \in Names
    BY <1>0, <1>4 DEF SetBucketVersioning, Named
  <2>2. [b EXCEPT !.ver = BucketVersioning(r)] \in Bucket
    BY <1>0, <2>1, BucketTypes, RequestTypes
  <2>3. Call(k, "version", Reachable(b), [b EXCEPT !.ver = BucketVersioning(r)],
             ToAccess(r, op[k]), AfterError(r, op[k]))
    BY <1>4 DEF SetBucketVersioning
  <2>4. Typed
    BY <1>0, <2>1, <2>2, <2>3, CallTypes, StageTypes
  <2> QED
    BY <1>0, <1>4, <2>4, TypePrimed DEF SetBucketVersioning
<1>5. CASE UpdateAccessPolicy(k)
  <2> DEFINE o == [op[k] EXCEPT !.val = TRUE]
  <2>1. op[k].bucket \in Names
    BY <1>0, <1>5 DEF UpdateAccessPolicy, Named
  <2>2. o \in Operation /\ o.bucket \in Names
    BY <1>0, <2>1 DEF Operation
  <2>3. [b EXCEPT !.policy = TRUE] \in Bucket
    BY <1>0, <2>1, BucketTypes
  <2>4. Call(k, "access", Reachable(b), [b EXCEPT !.policy = TRUE],
             ToQuota(r, o), AfterError(r, op[k]))
    BY <1>5 DEF UpdateAccessPolicy
  <2>5. Typed
    BY <1>0, <2>1, <2>2, <2>3, <2>4, CallTypes, StageTypes
  <2> QED
    BY <1>0, <1>5, <2>5, TypePrimed DEF UpdateAccessPolicy
<1>6. CASE UpdateQuotaLimit(k)
  <2>1. op[k].bucket \in Names
    BY <1>0, <1>6 DEF UpdateQuotaLimit, Named
  <2>2. [b EXCEPT !.quota = TRUE] \in Bucket
    BY <1>0, <2>1, BucketTypes
  <2>3. Call(k, "quota", Reachable(b), [b EXCEPT !.quota = TRUE],
             ToCheck(r, op[k]), AfterError(r, op[k]))
    BY <1>6 DEF UpdateQuotaLimit
  <2>4. Typed
    BY <1>0, <2>1, <2>2, <2>3, CallTypes, StageTypes
  <2> QED
    BY <1>0, <1>6, <2>4, TypePrimed DEF UpdateQuotaLimit
<1>7. CASE CheckBucketAccess(k)
  <2>1. op[k].bucket \in Names
    BY <1>0, <1>7 DEF CheckBucketAccess, Named
  <2>2. Call(k, "check", Reachable(b), b, ToPath(r, op[k]), Idle)
    BY <1>7 DEF CheckBucketAccess
  <2>3. Typed
    BY <1>0, <2>1, <2>2, CallTypes, StageTypes, IdleType
  <2> QED
    BY <1>0, <1>7, <2>3, TypePrimed DEF CheckBucketAccess
<1>8. CASE CheckObjectPathExistence(k)
  <2>1. op[k].bucket \in Names
    BY <1>0, <1>8 DEF CheckObjectPathExistence, Named
  <2>2. PICK found \in BOOLEAN :
          Call(k, "path", Reachable(b), b,
               IF found THEN ToBuilt(r, op[k]) ELSE Idle, Idle)
    BY <1>8 DEF CheckObjectPathExistence
  <2>3. (IF found THEN ToBuilt(r, op[k]) ELSE Idle) \in NamedOperation
    BY <1>0, <2>1, StageTypes, IdleType
  <2>4. Typed
    BY <1>0, <2>1, <2>2, <2>3, CallTypes, IdleType
  <2> QED
    BY <1>0, <1>8, <2>4, TypePrimed DEF CheckObjectPathExistence
<1>9. CASE SavePV(k)
  <2>1. [bucket |-> op[k].bucket, autoDelete |-> AutoDeleteBucket(r)] \in Volume
    BY <1>0, <1>9, RequestTypes DEF SavePV, Volume, Named
  <2>2. pv' \in [Claims -> Volume \cup {NoVolume}]
    BY <1>0, <1>9, <2>1 DEF SavePV
  <2>3. claim' \in [Claims -> {"none", "pending", "bound", "deleted"}]
    BY <1>0, <1>9 DEF SavePV
  <2>4. op' \in [Calls -> NamedOperation]
    BY <1>0, <1>9, IdleType DEF SavePV
  <2> QED
    BY <1>0, <1>9, <2>2, <2>3, <2>4, TypePrimed DEF SavePV
<1>10. CASE StartDelete(k)
  <2>1. pv[c] \in Volume
    BY <1>0, <1>10 DEF StartDelete, ShouldDelete
  <2>2. \A step \in {"credentials", "remove"} :
          [Idle EXCEPT !.pc = step, !.cause = "delete", !.bucket = pv[c].bucket]
             \in NamedOperation
    BY <2>1 DEF Idle, Operation, NamedOperation, Named, Volume
  <2>3. op' \in [Calls -> NamedOperation]
    BY <1>0, <1>10, <2>2 DEF StartDelete
  <2> QED
    BY <1>0, <1>10, <2>3, TypePrimed DEF StartDelete
<1>11. CASE DeleteCredentials(k)
  <2>1. /\ op[k].bucket \in Names
        /\ [op[k] EXCEPT !.pc = "list", !.sess = TRUE] \in NamedOperation
        /\ NotDeleted(op[k]) \in NamedOperation
    BY <1>0, <1>11, IdleType
       DEF DeleteCredentials, Named, NamedOperation, Operation, NotDeleted
  <2>2. op' \in [Calls -> NamedOperation]
    BY <1>0, <1>11, <2>1 DEF DeleteCredentials
  <2>3. faults' \in 0 .. MaxFaults
    BY <1>0, <1>11, MaxFaultsAssumption DEF DeleteCredentials, Fault
  <2> QED
    BY <1>0, <1>11, <2>2, <2>3, TypePrimed DEF DeleteCredentials
<1>12. CASE RemovePV(k)
  <2>1. op' \in [Calls -> NamedOperation] /\ pv' \in [Claims -> Volume \cup {NoVolume}]
    BY <1>0, <1>12, IdleType DEF RemovePV
  <2> QED
    BY <1>0, <1>12, <2>1, TypePrimed DEF RemovePV
<1>13. CASE ListObjects(k)
  <2>0. op[k].bucket \in Names
    BY <1>0, <1>13 DEF ListObjects, Named
  <2>1. CASE ~ Exists(b)
    <3>1. op' = [op EXCEPT ![k] = AlreadyDeleted(op[k])] /\ store' = store
          /\ faults' = faults
      BY <1>13, <2>1 DEF ListObjects
    <3>2. Typed
      BY <1>0, <2>0, <3>1, StageTypes
    <3> QED
      BY <1>0, <1>13, <3>2, TypePrimed DEF ListObjects
  <2>2. CASE Exists(b)
    <3>1. PICK page \in Pages(b) :
            Call(k, op[k].cause, Reachable(b), b,
                 [op[k] EXCEPT !.pc = "objects", !.keys = page],
                 NotDeleted(op[k]))
      BY <1>13, <2>2 DEF ListObjects
    <3>2. page \subseteq Objects
      BY <1>0, <2>0 DEF Pages, kSubset, Bucket
    <3>3. /\ [op[k] EXCEPT !.pc = "objects", !.keys = page] \in NamedOperation
          /\ NotDeleted(op[k]) \in NamedOperation
      BY <1>0, <2>0, <3>2, IdleType
         DEF Operation, NamedOperation, Named, NotDeleted
    <3>4. Typed
      BY <1>0, <2>0, <3>1, <3>3, CallTypes
    <3> QED
      BY <1>0, <1>13, <3>4, TypePrimed DEF ListObjects
  <2> QED
    BY <2>1, <2>2
<1>14. CASE DeleteObject(k)
  <2>0. op[k].bucket \in Names
    BY <1>0, <1>14 DEF DeleteObject, Named
  <2>1. PICK key \in op[k].keys :
          Call(k, op[k].cause, Reachable(b), WithoutObject(b, key),
               [op[k] EXCEPT !.keys = @ \ {key}], NotDeleted(op[k]))
    BY <1>14 DEF DeleteObject
  <2>2. /\ key \in Objects
        /\ [op[k] EXCEPT !.keys = @ \ {key}] \in NamedOperation
        /\ NotDeleted(op[k]) \in NamedOperation
    BY <1>0, <2>0, IdleType DEF Operation, NamedOperation, Named, NotDeleted
  <2>3. WithoutObject(b, key) \in Bucket
    BY <1>0, <2>0, <2>2, BucketTypes
  <2>4. Typed
    BY <1>0, <2>1, <2>2, <2>3, CallTypes
  <2> QED
    BY <1>0, <1>14, <2>4, TypePrimed DEF DeleteObject
<1>15. CASE DeleteBucket(k)
  <2>0. op[k].bucket \in Names
    BY <1>0, <1>15 DEF DeleteBucket, Named
  <2>1. Call(k, op[k].cause, Deletable(b), Absent,
             Deleted(op[k]), NotDeleted(op[k]))
    BY <1>15 DEF DeleteBucket
  <2>2. NotDeleted(op[k]) \in NamedOperation
    BY IdleType DEF NotDeleted
  <2>3. Typed
    BY <1>0, <2>0, <2>1, <2>2, CallTypes, StageTypes, BucketTypes
  <2> QED
    BY <1>0, <1>15, <2>3, TypePrimed DEF DeleteBucket
<1>16. CASE Panic(k)
  <2>1. op' \in [Calls -> NamedOperation]
    BY <1>0, <1>16, IdleType DEF Panic, Stopped
  <2> QED
    BY <1>0, <1>16, <2>1, TypePrimed DEF Panic
<1> QED
  BY <1>1, <1>2, <1>3, <1>4, <1>5, <1>6, <1>7, <1>8, <1>9, <1>10, <1>11,
     <1>12, <1>13, <1>14, <1>15, <1>16 DEF Step

\* So does every step of the system.
LEMMA TypeNext == TypeInv /\ [Next]_vars => TypeInv'
<1> SUFFICES ASSUME TypeInv, [Next]_vars PROVE TypeInv'
  OBVIOUS
<1>0. /\ TypeOK /\ op \in [Calls -> NamedOperation]
      /\ tries' \in [Calls -> Nat]
  <2>1. TypeOK /\ op \in [Calls -> NamedOperation]
    BY TypeInvOp
  <2>2. CASE \E ended : Remember(ended)
    BY <2>1, <2>2, TriesTyped
  <2>3. CASE UNCHANGED vars
    BY <2>1, <2>3 DEF vars, TypeOK, Calls
  <2> QED
    BY <2>1, <2>2, <2>3 DEF Next, Step
<1>1. ASSUME NEW c \in Claims, Submit(c) \/ DeleteClaim(c) PROVE TypeInv'
  <2>1. claim' \in [Claims -> {"none", "pending", "bound", "deleted"}]
    BY <1>0, <1>1 DEF Submit, DeleteClaim, TypeOK
  <2> QED
    BY <1>0, <1>1, <2>1, TypePrimed DEF Submit, DeleteClaim, TypeOK
<1>2. ASSUME NEW c \in Claims, WriteObject(c) PROVE TypeInv'
  <2>1. PICK key \in Objects :
          store' = [store EXCEPT ![pv[c].bucket] = WithObject(@, key)]
    BY <1>2 DEF WriteObject
  <2>2. store' \in [Names -> Bucket]
    BY <1>0, <2>1, BucketTypes DEF TypeOK
  <2> QED
    BY <1>0, <1>2, <2>2, TypePrimed DEF WriteObject, TypeOK
<1>3. ASSUME NEW k \in Calls, Step(k) PROVE TypeInv'
  BY <1>3, TypeStep
<1>4. ASSUME NEW p \in Procs, Crash(p) PROVE TypeInv'
  <2>1. op' \in [Calls -> NamedOperation]
    BY <1>0, <1>4, IdleType DEF Crash, Stopped
  <2>2. faults' \in 0 .. MaxFaults
    BY <1>0, <1>4, MaxFaultsAssumption DEF Crash, Fault, TypeOK
  <2> QED
    BY <1>0, <1>4, <2>1, <2>2, TypePrimed DEF Crash, TypeOK
<1>5. CASE UNCHANGED vars
  BY <1>0, <1>5, TypePrimed DEF vars, TypeOK
<1> QED
  BY <1>1, <1>2, <1>3, <1>4, <1>5 DEF Next, Calls

\* TypeInv is an inductive invariant.
LEMMA TypeAlways == Spec => []TypeInv
BY TypeInit, TypeNext, PTL DEF Spec

\* The variables keep their types.
THEOREM TypeCorrect == Spec => []TypeOK
<1>1. TypeInv => TypeOK
  BY DEF TypeInv
<1> QED
  BY <1>1, TypeAlways, PTL

\* Every request that is about a bucket names one.
THEOREM BucketAlwaysNamed == Spec => []NamedBeforeUse
<1>1. TypeInv => NamedBeforeUse
  BY DEF TypeInv
<1> QED
  BY <1>1, TypeAlways, PTL
-----------------------------------------------------------------------------
(* A claim's generated bucket is there as long as the claim is bound.      *)
(*                                                                         *)
(* The invariant says who may hold a generated name.  A name is drawn once *)
(* (Drawn).  Until its volume is saved, only the call that drew it knows   *)
(* it (Exclusive, Unsaved); then it belongs to one volume (Distinct), and  *)
(* only a Delete of that volume takes it up again, once the claim is gone  *)
(* (DeletingOwn).  So nobody can delete it between the check of Provision  *)
(* and the end of the claim (Checked).                                     *)

Drawn ==
  /\ \A k \in Calls : op[k].bucket \in Generated => op[k].bucket \in used
  /\ \A c \in Claims : pv[c].bucket \in Generated => pv[c].bucket \in used

Exclusive ==
  \A k, l \in Calls :
    k # l /\ op[k].cause # "delete" /\ op[k].bucket \in Generated
      => op[l].bucket # op[k].bucket

Unsaved ==
  \A k \in Calls, c \in Claims :
    op[k].cause # "delete" /\ op[k].bucket \in Generated
      => pv[c].bucket # op[k].bucket

Distinct ==
  \A c, d \in Claims :
    c # d /\ pv[c].bucket \in Generated => pv[d].bucket # pv[c].bucket

DeletingOwn ==
  \A k \in Calls :
    op[k].cause = "delete" =>
      /\ claim[k[2]] = "deleted"
      /\ \A c \in Claims :
            c # k[2] /\ op[k].bucket \in Generated
              => pv[c].bucket # op[k].bucket

\* What an operation knows of its bucket in the store s.
Sound(o, s) ==
  /\ o.pc \in {"authorize", "create", "version", "access", "quota", "check",
               "path", "built"} => o.cause = "provision"
  /\ o.cause = "provision" /\ o.bucket \in Generated =>
       /\ o.val = TRUE
       /\ o.pc \in {"path", "built"} => Exists(s[o.bucket])

Checked == \A k \in Calls : Sound(op[k], store)

LifeInv ==
  /\ Drawn /\ Exclusive /\ Unsaved /\ Distinct /\ DeletingOwn /\ Checked
  /\ BoundBucketLives

\* Operation x takes nothing up that o did not have.
Continues(o, x) ==
  /\ x.bucket \in Generated =>
       x.bucket = o.bucket /\ (x.cause = "delete" <=> o.cause = "delete")
  /\ x.cause = "delete" => o.cause = "delete"

\* Idle holds no name.
LEMMA IdleFacts ==
  /\ \A o : Continues(o, Idle)
  /\ \A s : Sound(Idle, s)
BY NamesAssumption DEF Idle, Continues, Sound

\* The stages of Provision hand on the name they have, and reach the last
\* ones only past the check of the bucket.
LEMMA StageFacts ==
  ASSUME NEW r, NEW o \in Operation, NEW s, o.cause = "provision",
         o.bucket \in Generated => o.val = TRUE
  PROVE  /\ \A x \in {ToVersion(r, o), ToAccess(r, o), ToQuota(r, o),
                      ToCheck(r, o), AfterError(r, o)} :
               Continues(o, x) /\ Sound(x, s)
         /\ (o.bucket \in Generated => Exists(s[o.bucket])) =>
               \A x \in {ToPath(r, o), ToBuilt(r, o)} :
                  Continues(o, x) /\ Sound(x, s)
<1>1. \A step \in {"version", "access", "quota", "check"} :
        /\ Continues(o, [o EXCEPT !.pc = step])
        /\ Sound([o EXCEPT !.pc = step], s)
  BY DEF Operation, Continues, Sound
<1>2. (o.bucket \in Generated => Exists(s[o.bucket])) =>
        \A step \in {"path", "built"} :
          /\ Continues(o, [o EXCEPT !.pc = step])
          /\ Sound([o EXCEPT !.pc = step], s)
  BY DEF Operation, Continues, Sound
<1>3. /\ Continues(o, [o EXCEPT !.pc = "list", !.cause = "revert"])
      /\ Sound([o EXCEPT !.pc = "list", !.cause = "revert"], s)
  BY DEF Operation, Continues, Sound
<1>4. (o.bucket \in Generated => Exists(s[o.bucket])) =>
        /\ Continues(o, ToBuilt(r, o)) /\ Sound(ToBuilt(r, o), s)
        /\ Continues(o, ToPath(r, o)) /\ Sound(ToPath(r, o), s)
  BY <1>2, IdleFacts DEF ToBuilt, ToPath
<1>5. Continues(o, ToCheck(r, o)) /\ Sound(ToCheck(r, o), s)
  <2>1. CASE o.val
    BY <1>1, <2>1 DEF ToCheck
  <2>2. CASE ~ o.val
    <3>1. o.bucket \notin Generated
      BY <2>2
    <3> QED
      BY <1>4, <2>2, <3>1 DEF ToCheck
  <2> QED
    BY <2>1, <2>2
<1>6. Continues(o, ToQuota(r, o)) /\ Sound(ToQuota(r, o), s)
  BY <1>1, <1>5 DEF ToQuota
<1>7. Continues(o, ToAccess(r, o)) /\ Sound(ToAccess(r, o), s)
  BY <1>1, <1>6 DEF ToAccess
<1>8. Continues(o, ToVersion(r, o)) /\ Sound(ToVersion(r, o), s)
  BY <1>1, <1>7 DEF ToVersion
<1>9. Continues(o, AfterError(r, o)) /\ Sound(AfterError(r, o), s)
  BY <1>3, IdleFacts DEF AfterError
<1> QED
  BY <1>4, <1>5, <1>6, <1>7, <1>8, <1>9

\* So do the last stages by themselves.
LEMMA PathContinues ==
  ASSUME NEW r, NEW o \in Operation
  PROVE  Continues(o, ToPath(r, o)) /\ Continues(o, ToBuilt(r, o))
<1>1. \A step \in {"path", "built"} : Continues(o, [o EXCEPT !.pc = step])
  BY DEF Operation, Continues
<1> QED
  BY <1>1, IdleFacts DEF ToPath, ToBuilt

\* A step in which calls go on or end, volumes and claims go away, and a
\* generated bucket is deleted only when no claim is bound to it and no
\* Provision has it.
LEMMA GoesOn ==
  ASSUME TypeInv, TypeInv', LifeInv,
         \A k \in Calls : Continues(op[k], op'[k]) /\ Sound(op'[k], store'),
         \A c \in Claims :
           /\ pv'[c].bucket \in Generated => pv'[c].bucket = pv[c].bucket
           /\ claim[c] = "deleted" => claim'[c] = "deleted"
           /\ claim'[c] = "bound" => claim[c] = "bound",
         used \subseteq used',
         \A n \in Generated :
           Exists(store[n]) /\ ~ Exists(store'[n]) =>
             \A c \in Claims : Bound(c) => pv[c].bucket # n
  PROVE  LifeInv'
<1>1. Drawn'
  BY DEF LifeInv, Drawn, Continues
<1>2. Exclusive'
  BY DEF LifeInv, Exclusive, Continues
<1>3. Unsaved'
  BY DEF LifeInv, Unsaved, Continues
<1>4. Distinct'
  BY DEF LifeInv, Distinct
<1>5. DeletingOwn'
  <2> SUFFICES ASSUME NEW k \in Calls, op'[k].cause = "delete",
                      NEW c \in Claims
               PROVE  /\ claim'[k[2]] = "deleted"
                      /\ c # k[2] /\ op'[k].bucket \in Generated
                           => pv'[c].bucket # op'[k].bucket
    BY DEF DeletingOwn, Calls
  <2>1. op[k].cause = "delete" /\ k[2] \in Claims
    BY DEF Continues, Calls
  <2> QED
    BY <2>1 DEF LifeInv, DeletingOwn, Continues
<1>6. Checked'
  BY DEF Checked
<1>7. BoundBucketLives'
  BY DEF LifeInv, BoundBucketLives, Bound, TypeInv, TypeOK, Names
<1> QED
  BY <1>1, <1>2, <1>3, <1>4, <1>5, <1>6, <1>7 DEF LifeInv

\* The same for a step of one call that deletes no bucket.
LEMMA GoesOnAlone ==
  ASSUME TypeInv, TypeInv', LifeInv, NEW k \in Calls, NEW x,
         op' = [op EXCEPT ![k] = x], Continues(op[k], x), Sound(x, store'),
         \A n \in Names : Exists(store[n]) => Exists(store'[n]),
         UNCHANGED <<pv, claim>>, used \subseteq used'
  PROVE  LifeInv'
<1>1. \A l \in Calls : Continues(op[l], op[l])
  BY DEF Continues
<1>2. \A l \in Calls : Sound(op[l], store')
  BY DEF LifeInv, Checked, Sound, Names
<1>3. \A l \in Calls : op'[l] = IF l = k THEN x ELSE op[l]
  BY TypeInvOp
<1>4. \A l \in Calls : Continues(op[l], op'[l]) /\ Sound(op'[l], store')
  BY <1>1, <1>2, <1>3
<1>5. \A n \in Generated : Exists(store[n]) => Exists(store'[n])
  BY DEF Names
<1> QED
  BY <1>4, <1>5, GoesOn

\* A call draws a fresh name.
LEMMA Draws ==
  ASSUME TypeInv, LifeInv, NEW k \in Calls, NEW x,
         op' = [op EXCEPT ![k] = x], x.bucket \in FreshNames,
         x.cause = "provision", Sound(x, store'),
         \A n \in Names : Exists(store[n]) => Exists(store'[n]),
         UNCHANGED <<pv, claim>>, used \cup {x.bucket} \subseteq used'
  PROVE  LifeInv'
<1>1. \A l \in Calls : op'[l] = IF l = k THEN x ELSE op[l]
  BY TypeInvOp
<1>2. x.bucket \in Generated /\ x.bucket \notin used
  BY DEF FreshNames
<1>3. \A l \in Calls : op[l].bucket # x.bucket
  BY <1>2 DEF LifeInv, Drawn
<1>4. \A c \in Claims : pv[c].bucket # x.bucket
  BY <1>2 DEF LifeInv, Drawn
<1>5. Drawn'
  BY <1>1 DEF LifeInv, Drawn
<1>6. Exclusive'
  BY <1>1, <1>3 DEF LifeInv, Exclusive
<1>7. Unsaved'
  BY <1>1, <1>4 DEF LifeInv, Unsaved
<1>8. Distinct'
  BY DEF LifeInv, Distinct
<1>9. DeletingOwn'
  BY <1>1 DEF LifeInv, DeletingOwn
<1>10. Checked'
  BY <1>1 DEF LifeInv, Checked, Sound, Names
<1>11. BoundBucketLives'
  BY DEF LifeInv, BoundBucketLives, Bound, Names
<1> QED
  BY <1>5, <1>6, <1>7, <1>8, <1>9, <1>10, <1>11 DEF LifeInv

\* A request that leaves the bucket in existence.
LEMMA CallGoesOn ==
  ASSUME TypeInv, TypeInv', LifeInv, NEW k \in Calls, NEW call,
         NEW granted \in BOOLEAN, NEW effect, NEW done, NEW failed,
         Call(k, call, granted, effect, done, failed),
         op[k].bucket \in Names, granted => Exists(effect),
         Continues(op[k], done), Continues(op[k], failed),
         \A s : Exists(s[op[k].bucket]) => Sound(done, s),
         \A s : Sound(failed, s),
         UNCHANGED <<pv, claim, used>>
  PROVE  LifeInv'
<1> DEFINE changed == [store EXCEPT ![op[k].bucket] = effect]
<1>1. store \in [Names -> Bucket]
  BY DEF TypeInv, TypeOK
<1>2. granted => \A n \in Names : Exists(store[n]) => Exists(changed[n])
  BY <1>1
<1>3. CASE granted /\ op' = [op EXCEPT ![k] = done] /\ store' = changed
  <2>1. Exists(changed[op[k].bucket])
    BY <1>1, <1>3
  <2>2. Sound(done, store')
    BY <1>3, <2>1
  <2> QED
    BY <1>2, <1>3, <2>2, GoesOnAlone
<1>4. CASE /\ op' = [op EXCEPT ![k] = failed]
           /\ store' = store \/ (granted /\ store' = changed)
  <2>1. \A n \in Names : Exists(store[n]) => Exists(store'[n])
    BY <1>2, <1>4
  <2> QED
    BY <1>4, <2>1, GoesOnAlone
<1>5. \/ granted /\ op' = [op EXCEPT ![k] = done] /\ store' = changed
      \/ /\ op' = [op EXCEPT ![k] = failed]
         /\ store' = store \/ (granted /\ store' = changed)
  BY DEF Call
<1> QED
  BY <1>3, <1>4, <1>5, Zenon

\* Every step of a Provision or a Delete keeps the invariant.
LEMMA LifeStep ==
  ASSUME TypeInv, TypeInv', LifeInv, NEW k \in Calls, Step(k)
  PROVE  LifeInv'
<1> DEFINE c == k[2]
           r == req[c]
           b == store[op[k].bucket]
<1>0. /\ c \in Claims /\ r \in Request
      /\ op[k] \in Operation /\ Named(op[k]) /\ op \in [Calls -> Operation]
      /\ op[k].bucket \in Names => b \in Bucket
      /\ store \in [Names -> Bucket]
      /\ Sound(op[k], store)
  BY TypeInvOp, RequestsAssumption
     DEF TypeOK, Calls, NamedOperation, LifeInv, Checked
<1>00. /\ Reachable(b) => Exists(b)
       /\ Reachable(b) \in BOOLEAN /\ Deletable(b) \in BOOLEAN
  BY DEF Sound, Reachable, Exists, Deletable
<1>1. CASE StartProvision(k)
  <2>1. CASE AutoDeleteBucket(r) = "true" /\ r.bucket = NoBucket
    <3>1. PICK n \in FreshNames :
            /\ op' = [op EXCEPT ![k] = [Idle EXCEPT !.pc = "authorize",
                                         !.bucket = n, !.val = ValBucket(r)]]
            /\ used' = used \cup {n}
      BY <1>1, <2>1 DEF StartProvision
    <3> DEFINE x == [Idle EXCEPT !.pc = "authorize", !.bucket = n,
                                 !.val = ValBucket(r)]
    <3>2. x.bucket = n /\ x.cause = "provision"
      BY DEF Idle
    <3>3. ValBucket(r) = TRUE
      BY <1>1, <2>1 DEF StartProvision, AutoDeleteNeedsAutoCreate, ValBucket
    <3>4. Sound(x, store')
      BY <3>3 DEF Idle, Sound
    <3> HIDE DEF x
    <3> QED
      BY <1>1, <3>1, <3>2, <3>4, Draws DEF StartProvision, x
  <2>2. CASE ~ (AutoDeleteBucket(r) = "true" /\ r.bucket = NoBucket)
    <3> DEFINE x == [Idle EXCEPT !.pc = "authorize", !.bucket = r.bucket,
                                 !.val = ValBucket(r)]
    <3>1. r.bucket \notin Generated
      BY <1>0, NamesAssumption DEF Request
    <3>2. Continues(op[k], x) /\ Sound(x, store')
      BY <3>1 DEF Idle, Continues, Sound
    <3>3. op' = [op EXCEPT ![k] = x] /\ used' = used
      BY <1>1, <2>2 DEF StartProvision
    <3> HIDE DEF x
    <3> QED
      BY <1>1, <3>2, <3>3, GoesOnAlone DEF StartProvision
  <2> QED
    BY <2>1, <2>2
<1>2. CASE Authorize(k)
  <2> DEFINE o == [op[k] EXCEPT !.sess = op[k].val]
             y == [o EXCEPT !.pc = "create", !.own = TRUE]
  <2>1. /\ o \in Operation /\ o.bucket = op[k].bucket
        /\ o.cause = "provision" /\ op[k].cause = "provision"
        /\ o.bucket \in Generated => o.val = TRUE
        /\ Continues(op[k], y) /\ Sound(y, store')
    BY <1>0, <1>2 DEF Authorize, Operation, Sound, Continues
  <2>2. Continues(o, ToVersion(r, o)) /\ Sound(ToVersion(r, o), store')
    BY <2>1, StageFacts
  <2>3. Continues(op[k], ToVersion(r, o))
    BY <2>1, <2>2 DEF Continues
  <2>4. \/ op' = [op EXCEPT ![k] = Idle]
        \/ op' = [op EXCEPT ![k] = y]
        \/ op' = [op EXCEPT ![k] = ToVersion(r, o)]
    BY <1>2 DEF Authorize
  <2> HIDE DEF o, y
  <2>5. UNCHANGED <<store, pv, claim, used>>
    BY <1>2 DEF Authorize
  <2>6. CASE op' = [op EXCEPT ![k] = Idle]
    BY <2>5, <2>6, IdleFacts, GoesOnAlone
  <2>7. CASE op' = [op EXCEPT ![k] = y]
    BY <2>1, <2>5, <2>7, GoesOnAlone
  <2>8. CASE op' = [op EXCEPT ![k] = ToVersion(r, o)]
    BY <2>2, <2>3, <2>5, <2>8, GoesOnAlone
  <2> QED
    BY <2>4, <2>6, <2>7, <2>8
<1>3. CASE CreateBucket(k)
  <2> DEFINE After(n) == [op[k] EXCEPT !.bucket = n,
                                       !.own  = OwnAfterCreate(store[n]),
                                       !.val  = TRUE,
                                       !.made = ~ Exists(store[n])]
             Created(n) == [store EXCEPT ![n] = IF Exists(@) THEN @ ELSE Fresh]
  <2>1. PICK n \in IF op[k].bucket = NoBucket THEN FreshNames
                                              ELSE {op[k].bucket} :
          /\ used' = used \cup ({n} \cap Generated)
          /\ store' \in {store, Created(n)}
          /\ \/ op' = [op EXCEPT ![k] = ToVersion(r, After(n))]
             \/ op' = [op EXCEPT ![k] = Idle]
    BY <1>3 DEF CreateBucket
  <2>2. UNCHANGED <<pv, claim>> /\ op[k].cause = "provision"
    BY <1>0, <1>3 DEF CreateBucket, Sound
  <2>3. n \in Names
    BY <1>0 DEF FreshNames, Names, Operation
  <2>4. \A m \in Names : Exists(store[m]) => Exists(store'[m])
    BY <1>0, <2>1, <2>3
  <2>5. /\ After(n) \in Operation /\ After(n).bucket = n
        /\ After(n).cause = "provision" /\ After(n).val = TRUE
    BY <1>0, <2>2, <2>3 DEF OwnAfterCreate, Exists, Operation
  <2> DEFINE x == ToVersion(r, After(n))
  <2>6. Continues(After(n), x) /\ Sound(x, store')
    <3> HIDE DEF After
    <3> QED
      BY <2>5, StageFacts
  <2>7. x.bucket \in Generated => x.bucket = n /\ x.cause # "delete"
    BY <2>5, <2>6 DEF Continues
  <2>8. x.cause # "delete"
    BY <2>5, <2>6 DEF Continues
  <2> HIDE DEF x, After, Created
  <2>9. CASE op' = [op EXCEPT ![k] = Idle]
    BY <2>1, <2>2, <2>4, <2>9, IdleFacts, GoesOnAlone
  <2>10. CASE op' = [op EXCEPT ![k] = x] /\ op[k].bucket # NoBucket
    <3>1. n = op[k].bucket
      BY <2>10
    <3>2. Continues(op[k], x)
      BY <2>2, <2>7, <2>8, <3>1 DEF Continues
    <3> QED
      BY <2>1, <2>2, <2>4, <2>6, <2>10, <3>2, GoesOnAlone
  <2>11. CASE op' = [op EXCEPT ![k] = x] /\ op[k].bucket = NoBucket
    <3>1. n \in FreshNames /\ n \in Generated
      BY <2>11 DEF FreshNames
    <3>2. CASE x.bucket \in Generated
      <4>1. x.bucket = n
        BY <2>7, <3>2
      <4>2. x.cause = "provision"
        <5>1. x \in {Idle} \/ x.cause = "provision"
          BY <2>5 DEF x, ToVersion, ToAccess, ToQuota, ToCheck, Operation
        <5> QED
          BY <5>1 DEF Idle
      <4> QED
        BY <2>1, <2>2, <2>4, <2>6, <2>11, <3>1, <4>1, <4>2, Draws
    <3>3. CASE x.bucket \notin Generated
      <4>1. Continues(op[k], x)
        BY <2>8, <3>3 DEF Continues
      <4> QED
        BY <2>1, <2>2, <2>4, <2>6, <2>11, <4>1, GoesOnAlone
    <3> QED
      BY <3>2, <3>3
  <2> QED
    BY <2>1, <2>9, <2>10, <2>11 DEF x
<1>4. CASE SetBucketVersioning(k)
  <2> DEFINE e == [b EXCEPT !.ver = BucketVersioning(r)]
  <2>1. /\ op[k].bucket \in Names /\ op[k].cause = "provision"
        /\ op[k].bucket \in Generated => op[k].val = TRUE
    BY <1>0, <1>4 DEF SetBucketVersioning, Named, Sound
  <2>2. Reachable(b) => Exists(e)
    BY <1>0, <1>00, <2>1 DEF Exists, Bucket
  <2>3. /\ Call(k, "version", Reachable(b), e, ToAccess(r, op[k]),
                AfterError(r, op[k]))
        /\ UNCHANGED <<pv, claim, used>>
    BY <1>4 DEF SetBucketVersioning
  <2> HIDE DEF e
  <2>4. /\ Continues(op[k], ToAccess(r, op[k]))
        /\ Continues(op[k], AfterError(r, op[k]))
        /\ \A s : Sound(ToAccess(r, op[k]), s) /\ Sound(AfterError(r, op[k]), s)
    BY <1>0, <2>1, StageFacts
  <2> QED
    BY <1>00, <2>1, <2>2, <2>3, <2>4, CallGoesOn
<1>5. CASE UpdateAccessPolicy(k)
  <2> DEFINE e == [b EXCEPT !.policy = TRUE]
             o == [op[k] EXCEPT !.val = TRUE]
  <2>1. /\ op[k].bucket \in Names /\ op[k].cause = "provision"
        /\ op[k].bucket \in Generated => op[k].val = TRUE
    BY <1>0, <1>5 DEF UpdateAccessPolicy, Named, Sound
  <2>2. Reachable(b) => Exists(e)
    BY <1>0, <1>00, <2>1 DEF Exists, Bucket
  <2>3. /\ Call(k, "access", Reachable(b), e, ToQuota(r, o),
                AfterError(r, op[k]))
        /\ UNCHANGED <<pv, claim, used>>
    BY <1>5 DEF UpdateAccessPolicy
  <2>4. /\ o \in Operation /\ o.val = TRUE
        /\ o.bucket = op[k].bucket /\ o.cause = op[k].cause
    BY <1>0 DEF Operation
  <2> HIDE DEF e, o
  <2>5. /\ Continues(o, ToQuota(r, o))
        /\ \A s : Sound(ToQuota(r, o), s)
    BY <2>1, <2>4, StageFacts
  <2>6. Continues(op[k], ToQuota(r, o))
    BY <2>4, <2>5 DEF Continues
  <2>7. /\ Continues(op[k], AfterError(r, op[k]))
        /\ \A s : Sound(AfterError(r, op[k]), s)
    BY <1>0, <2>1, StageFacts
  <2> QED
    BY <1>00, <2>1, <2>2, <2>3, <2>5, <2>6, <2>7, CallGoesOn
<1>6. CASE UpdateQuotaLimit(k)
  <2> DEFINE e == [b EXCEPT !.quota = TRUE]
  <2>1. /\ op[k].bucket \in Names /\ op[k].cause = "provision"
        /\ op[k].bucket \in Generated => op[k].val = TRUE
    BY <1>0, <1>6 DEF UpdateQuotaLimit, Named, Sound
  <2>2. Reachable(b) => Exists(e)
    BY <1>0, <1>00, <2>1 DEF Exists, Bucket
  <2>3. /\ Call(k, "quota", Reachable(b), e, ToCheck(r, op[k]),
                AfterError(r, op[k]))
        /\ UNCHANGED <<pv, claim, used>>
    BY <1>6 DEF UpdateQuotaLimit
  <2> HIDE DEF e
  <2>4. /\ Continues(op[k], ToCheck(r, op[k]))
        /\ Continues(op[k], AfterError(r, op[k]))
        /\ \A s : Sound(ToCheck(r, op[k]), s) /\ Sound(AfterError(r, op[k]), s)
    BY <1>0, <2>1, StageFacts
  <2> QED
    BY <1>00, <2>1, <2>2, <2>3, <2>4, CallGoesOn
<1>7. CASE CheckBucketAccess(k)
  <2>1. /\ op[k].bucket \in Names /\ op[k].cause = "provision"
        /\ op[k].bucket \in Generated => op[k].val = TRUE
    BY <1>0, <1>7 DEF CheckBucketAccess, Named, Sound
  <2>2. /\ Call(k, "check", Reachable(b), b, ToPath(r, op[k]), Idle)
        /\ UNCHANGED <<pv, claim, used>>
    BY <1>7 DEF CheckBucketAccess
  <2>3. \A s : Exists(s[op[k].bucket]) =>
          Continues(op[k], ToPath(r, op[k])) /\ Sound(ToPath(r, op[k]), s)
    BY <1>0, <2>1, StageFacts
  <2>4. Continues(op[k], ToPath(r, op[k]))
    BY <1>0, PathContinues
  <2> QED
    BY <1>00, <2>1, <2>2, <2>3, <2>4, IdleFacts, CallGoesOn
<1>8. CASE CheckObjectPathExistence(k)
  <2>1. /\ op[k].bucket \in Names /\ op[k].cause = "provision"
        /\ op[k].bucket \in Generated => op[k].val = TRUE
    BY <1>0, <1>8 DEF CheckObjectPathExistence, Named, Sound
  <2>2. PICK found \in BOOLEAN :
          Call(k, "path", Reachable(b), b,
               IF found THEN ToBuilt(r, op[k]) ELSE Idle, Idle)
    BY <1>8 DEF CheckObjectPathExistence
  <2>3. UNCHANGED <<pv, claim, used>>
    BY <1>8 DEF CheckObjectPathExistence
  <2>4. \A s : Exists(s[op[k].bucket]) => Sound(ToBuilt(r, op[k]), s)
    BY <1>0, <2>1, StageFacts
  <2>5. Continues(op[k], ToBuilt(r, op[k]))
    BY <1>0, PathContinues
  <2>6. CASE found = TRUE
    BY <1>00, <2>1, <2>2, <2>3, <2>4, <2>5, <2>6, IdleFacts, CallGoesOn
  <2>7. CASE found = FALSE
    BY <1>00, <2>1, <2>2, <2>3, <2>7, IdleFacts, CallGoesOn
  <2> QED
    BY <2>6, <2>7
<1>9. CASE SavePV(k)
  <2>1. /\ op[k].bucket \in Names /\ op[k].cause = "provision"
        /\ op[k].bucket \in Generated => Exists(store[op[k].bucket])
    BY <1>0, <1>9 DEF SavePV, Named, Sound
  <2>2. /\ op' = [op EXCEPT ![k] = Idle] /\ store' = store /\ used' = used
    BY <1>9 DEF SavePV
  <2>3. CASE pv[c] # NoVolume
    <3>1. UNCHANGED <<pv, claim>>
      BY <1>9, <2>3 DEF SavePV
    <3> QED
      BY <2>2, <3>1, IdleFacts, GoesOnAlone
  <2>4. CASE pv[c] = NoVolume
    <3>1. /\ \A d \in Claims : pv'[d] =
                 IF d = c THEN [bucket |-> op[k].bucket,
                                autoDelete |-> AutoDeleteBucket(r)]
                          ELSE pv[d]
          /\ \A d \in Claims : claim'[d] =
                 IF d = c /\ claim[d] = "pending" THEN "bound" ELSE claim[d]
      BY <1>0, <1>9, <2>4 DEF SavePV, TypeInv, TypeOK
    <3>2. \A d \in Claims : d # c => pv'[d] = pv[d]
      BY <3>1
    <3>3. pv'[c].bucket = op[k].bucket
      BY <1>0, <3>1
    <3>4. \A l \in Calls : op'[l] = IF l = k THEN Idle ELSE op[l]
      BY <1>0, <2>2
    <3>5. Idle.bucket \notin Generated /\ Idle.cause = "provision"
      BY NamesAssumption DEF Idle
    <3>6. op[k].bucket \in Generated =>
            /\ op[k].bucket \in used
            /\ \A l \in Calls : l # k => op[l].bucket # op[k].bucket
            /\ \A d \in Claims : pv[d].bucket # op[k].bucket
      BY <2>1 DEF LifeInv, Drawn, Exclusive, Unsaved
    <3>7. Drawn'
      BY <2>2, <3>2, <3>3, <3>4, <3>5, <3>6 DEF LifeInv, Drawn
    <3>8. Exclusive'
      BY <3>4, <3>5 DEF LifeInv, Exclusive
    <3>9. Unsaved'
      BY <3>2, <3>3, <3>4, <3>5, <3>6 DEF LifeInv, Unsaved
    <3>10. Distinct'
      BY <3>2, <3>3, <3>6 DEF LifeInv, Distinct
    <3>11. DeletingOwn'
      <4> SUFFICES ASSUME NEW l \in Calls, op'[l].cause = "delete",
                          NEW d \in Claims
                   PROVE  /\ claim'[l[2]] = "deleted"
                          /\ d # l[2] /\ op'[l].bucket \in Generated
                               => pv'[d].bucket # op'[l].bucket
        BY DEF DeletingOwn, Calls
      <4>1. l # k /\ op'[l] = op[l] /\ l[2] \in Claims
        BY <3>4, <3>5 DEF Calls
      <4>2. claim[l[2]] = "deleted" /\ claim'[l[2]] = "deleted"
        BY <3>1, <4>1 DEF LifeInv, DeletingOwn
      <4>3. d # l[2] /\ op[l].bucket \in Generated
              => pv[d].bucket # op[l].bucket
        BY <4>1 DEF LifeInv, DeletingOwn
      <4> QED
        BY <3>2, <3>3, <3>6, <4>1, <4>2, <4>3
    <3>12. Checked'
      BY <2>2, <3>4, IdleFacts DEF LifeInv, Checked
    <3>13. BoundBucketLives'
      <4> SUFFICES ASSUME NEW d \in Claims, claim'[d] = "bound",
                          pv'[d].bucket \in Generated
                   PROVE  Exists(store'[pv'[d].bucket])
        BY DEF BoundBucketLives, Bound
      <4>1. CASE d = c
        BY <2>1, <2>2, <3>3, <4>1
      <4>2. CASE d # c
        BY <2>2, <3>1, <3>2, <4>2 DEF LifeInv, BoundBucketLives, Bound
      <4> QED
        BY <4>1, <4>2
    <3> QED
      BY <3>7, <3>8, <3>9, <3>10, <3>11, <3>12, <3>13 DEF LifeInv
  <2> QED
    BY <2>3, <2>4
<1>10. CASE StartDelete(k)
  <2>1. PICK step \in {"credentials", "remove"} :
          op' = [op EXCEPT ![k] = [Idle EXCEPT !.pc = step, !.cause = "delete",
                                               !.bucket = pv[c].bucket]]
    BY <1>10 DEF StartDelete
  <2> DEFINE x == [Idle EXCEPT !.pc = step, !.cause = "delete",
                               !.bucket = pv[c].bucket]
  <2>2. /\ x.bucket = pv[c].bucket /\ x.cause = "delete"
        /\ \A s : Sound(x, s)
    BY DEF Idle, Sound
  <2> HIDE DEF x
  <2>3. \A l \in Calls : op'[l] = IF l = k THEN x ELSE op[l]
    BY <1>0, <2>1 DEF x
  <2>4. claim[c] = "deleted" /\ UNCHANGED <<store, claim, pv, used>>
    BY <1>10 DEF StartDelete, ShouldDelete
  <2>5. x.bucket \in Generated =>
          /\ x.bucket \in used
          /\ \A l \in Calls : op[l].cause # "delete" => op[l].bucket # x.bucket
          /\ \A d \in Claims : d # c => pv[d].bucket # x.bucket
    BY <1>0, <2>2 DEF LifeInv, Drawn, Unsaved, Distinct
  <2>6. Drawn'
    BY <2>3, <2>4, <2>5 DEF LifeInv, Drawn
  <2>7. Exclusive'
    BY <2>2, <2>3, <2>5 DEF LifeInv, Exclusive
  <2>8. Unsaved'
    BY <2>2, <2>3, <2>4 DEF LifeInv, Unsaved
  <2>9. Distinct'
    BY <2>4 DEF LifeInv, Distinct
  <2>10. DeletingOwn'
    BY <2>2, <2>3, <2>4, <2>5 DEF LifeInv, DeletingOwn
  <2>11. Checked'
    BY <2>2, <2>3, <2>4 DEF LifeInv, Checked
  <2>12. BoundBucketLives'
    BY <2>4 DEF LifeInv, BoundBucketLives, Bound
  <2> QED
    BY <2>6, <2>7, <2>8, <2>9, <2>10, <2>11, <2>12 DEF LifeInv
<1>11. CASE DeleteCredentials(k)
  <2> DEFINE x == [op[k] EXCEPT !.pc = "list", !.sess = TRUE]
  <2>1. UNCHANGED <<store, pv, claim, used>>
    BY <1>11 DEF DeleteCredentials
  <2>2. op' = [op EXCEPT ![k] = x] \/ op' = [op EXCEPT ![k] = Idle]
    BY <1>11 DEF DeleteCredentials, NotDeleted
  <2>3. Continues(op[k], x) /\ Sound(x, store')
    BY <1>0 DEF Continues, Sound, Operation
  <2> HIDE DEF x
  <2> QED
    BY <2>1, <2>2, <2>3, IdleFacts, GoesOnAlone
<1>12. CASE RemovePV(k)
  <2>1. /\ \A l \in Calls : op'[l] = IF l = k THEN Idle ELSE op[l]
        /\ \A d \in Claims : pv'[d] = IF d = c THEN NoVolume ELSE pv[d]
        /\ UNCHANGED <<store, claim, used>>
    BY <1>0, <1>12 DEF RemovePV, TypeInv, TypeOK
  <2>2. NoVolume.bucket \notin Generated
    BY NamesAssumption DEF NoVolume
  <2>3. \A l \in Calls : Continues(op[l], op'[l]) /\ Sound(op'[l], store')
    BY <2>1, IdleFacts DEF LifeInv, Checked, Continues
  <2> QED
    BY <2>1, <2>2, <2>3, GoesOn
<1>13. CASE ListObjects(k)
  <2>0. op[k].bucket \in Names /\ UNCHANGED <<pv, claim, used>>
    BY <1>0, <1>13 DEF ListObjects, Named
  <2>1. /\ Continues(op[k], AlreadyDeleted(op[k]))
        /\ \A s : Sound(AlreadyDeleted(op[k]), s)
    BY <1>0, IdleFacts DEF AlreadyDeleted, Deleted, Continues, Sound, Operation
  <2>2. CASE ~ Exists(b)
    <3>1. op' = [op EXCEPT ![k] = AlreadyDeleted(op[k])] /\ store' = store
      BY <1>13, <2>2 DEF ListObjects
    <3> QED
      BY <2>0, <2>1, <3>1, GoesOnAlone
  <2>3. CASE Exists(b)
    <3>1. PICK page \in Pages(b) :
            Call(k, op[k].cause, Reachable(b), b,
                 [op[k] EXCEPT !.pc = "objects", !.keys = page],
                 NotDeleted(op[k]))
      BY <1>13, <2>3 DEF ListObjects
    <3> DEFINE x == [op[k] EXCEPT !.pc = "objects", !.keys = page]
    <3>2. /\ Continues(op[k], x)
          /\ \A s : Exists(s[op[k].bucket]) => Sound(x, s)
      BY <1>0, <1>13 DEF ListObjects, Operation, Continues, Sound
    <3> HIDE DEF x
    <3> QED
      BY <1>00, <2>0, <2>3, <3>1, <3>2, IdleFacts, CallGoesOn DEF x, NotDeleted
  <2> QED
    BY <2>2, <2>3
<1>14. CASE DeleteObject(k)
  <2>0. op[k].bucket \in Names /\ UNCHANGED <<pv, claim, used>>
    BY <1>0, <1>14 DEF DeleteObject, Named
  <2>1. PICK key \in op[k].keys :
          Call(k, op[k].cause, Reachable(b), WithoutObject(b, key),
               [op[k] EXCEPT !.keys = @ \ {key}], NotDeleted(op[k]))
    BY <1>14 DEF DeleteObject
  <2> DEFINE x == [op[k] EXCEPT !.keys = @ \ {key}]
             e == WithoutObject(b, key)
  <2>2. /\ Continues(op[k], x)
        /\ \A s : Exists(s[op[k].bucket]) => Sound(x, s)
    BY <1>0, <1>14 DEF DeleteObject, Operation, Continues, Sound
  <2>3. Reachable(b) => Exists(e)
    BY <1>0, <1>00, <2>0 DEF WithoutObject, Exists, Bucket
  <2>4. Call(k, op[k].cause, Reachable(b), e, x, Idle)
    BY <2>1 DEF NotDeleted
  <2> HIDE DEF x, e
  <2> QED
    BY <1>00, <2>0, <2>2, <2>3, <2>4, IdleFacts, CallGoesOn
<1>15. CASE DeleteBucket(k)
  <2> DEFINE n == op[k].bucket
             x == Deleted(op[k])
  <2>0. n \in Names /\ UNCHANGED <<pv, claim, used>>
    BY <1>0, <1>15 DEF DeleteBucket, Named
  <2>1. /\ store' \in {store, [store EXCEPT ![n] = Absent]}
        /\ op' = [op EXCEPT ![k] = x] \/ op' = [op EXCEPT ![k] = Idle]
    BY <1>15 DEF DeleteBucket, Call, NotDeleted
  <2>2. /\ Continues(op[k], x) /\ Continues(op[k], Idle)
        /\ \A s : Sound(x, s) /\ Sound(Idle, s)
    BY <1>0, IdleFacts DEF Deleted, Continues, Sound, Operation
  <2> HIDE DEF x, n
  <2>3. \A m \in Names : m # n => store'[m] = store[m]
    BY <1>0, <2>1
  <2>4. \A l \in Calls : l # k => op'[l] = op[l]
    BY <1>0, <2>1
  <2>5. op'[k] \in {x, Idle}
    BY <1>0, <2>1
  <2>6. \A l \in Calls : l # k /\ op[l].cause = "provision"
                           /\ op[l].bucket \in Generated => op[l].bucket # n
    BY DEF n, LifeInv, Exclusive
  <2>7. \A l \in Calls : Sound(op[l], store)
    BY DEF LifeInv, Checked
  <2>8. \A l \in Calls : l # k => Sound(op[l], store')
    BY <2>3, <2>6, <2>7 DEF Sound, Names
  <2>9. \A l \in Calls : Continues(op[l], op'[l]) /\ Sound(op'[l], store')
    BY <2>2, <2>4, <2>5, <2>8 DEF Continues
  <2>10. n \in Generated => \A d \in Claims : Bound(d) => pv[d].bucket # n
    BY <1>0 DEF n, LifeInv, Unsaved, DeletingOwn, Bound
  <2> QED
    BY <2>0, <2>3, <2>9, <2>10, GoesOn DEF Names
<1>16. CASE Panic(k)
  <2>1. /\ \A l \in Calls : op'[l] \in {op[l], Idle}
        /\ UNCHANGED <<store, claim, pv, used>>
    BY <1>0, <1>16 DEF Panic, Stopped
  <2>2. \A l \in Calls : Continues(op[l], op'[l]) /\ Sound(op'[l], store')
    BY <2>1, IdleFacts DEF LifeInv, Checked, Continues
  <2> QED
    BY <2>1, <2>2, GoesOn
<1> QED
  BY <1>1, <1>2, <1>3, <1>4, <1>5, <1>6, <1>7, <1>8, <1>9, <1>10, <1>11,
     <1>12, <1>13, <1>14, <1>15, <1>16 DEF Step

\* Nothing holds a generated name at the start.
LEMMA LifeInit == Init => LifeInv
<1> SUFFICES ASSUME Init PROVE LifeInv
  OBVIOUS
<1>1. \A k \in Calls : op[k] = Idle
  BY DEF Init, Calls
<1>2. \A c \in Claims : pv[c] = NoVolume /\ claim[c] = "none"
  BY DEF Init
<1>3. Idle.bucket \notin Generated /\ Idle.cause = "provision"
      /\ NoVolume.bucket \notin Generated
  BY NamesAssumption DEF Idle, NoVolume
<1> QED
  BY <1>1, <1>2, <1>3, IdleFacts
     DEF LifeInv, Drawn, Exclusive, Unsaved, Distinct, DeletingOwn, Checked,
         BoundBucketLives, Bound

\* Every step of the system keeps the invariant.
LEMMA LifeNext == TypeInv /\ LifeInv /\ [Next]_vars => LifeInv'
<1> SUFFICES ASSUME TypeInv, LifeInv, [Next]_vars PROVE LifeInv'
  OBVIOUS
<1>0. TypeInv'
  BY TypeNext
<1>1. \A l \in Calls : Continues(op[l], op[l]) /\ Sound(op[l], store)
  BY DEF LifeInv, Checked, Continues
<1>2. ASSUME NEW c \in Claims, Submit(c) \/ DeleteClaim(c) PROVE LifeInv'
  <2>1. /\ UNCHANGED <<store, pv, op, used>>
        /\ \A d \in Claims : /\ claim[d] = "deleted" => claim'[d] = "deleted"
                             /\ claim'[d] = "bound" => claim[d] = "bound"
    BY <1>2 DEF Submit, DeleteClaim, TypeInv, TypeOK
  <2> QED
    BY <1>0, <1>1, <2>1, GoesOn
<1>3. ASSUME NEW c \in Claims, WriteObject(c) PROVE LifeInv'
  <2> DEFINE n == pv[c].bucket
  <2>1. PICK key \in Objects :
          store' = [store EXCEPT ![n] = WithObject(@, key)]
    BY <1>3 DEF WriteObject
  <2>2. UNCHANGED <<claim, pv, op, used>>
    BY <1>3 DEF WriteObject
  <2>3. \A m \in Names : Exists(store[m]) => Exists(store'[m])
    BY <2>1 DEF WithObject, Exists, Bucket, TypeInv, TypeOK
  <2>4. \A l \in Calls : Sound(op[l], store')
    BY <1>1, <2>3 DEF Sound, Names
  <2> QED
    BY <1>0, <1>1, <2>2, <2>3, <2>4, GoesOn DEF Names
<1>4. ASSUME NEW k \in Calls, Step(k) PROVE LifeInv'
  BY <1>0, <1>4, LifeStep
<1>5. ASSUME NEW p \in Procs, Crash(p) PROVE LifeInv'
  <2>1. /\ \A l \in Calls : op'[l] \in {op[l], Idle}
        /\ UNCHANGED <<store, claim, pv, used>>
    BY <1>5 DEF Crash, Stopped, TypeInv, TypeOK, Calls
  <2>2. \A l \in Calls : Continues(op[l], op'[l]) /\ Sound(op'[l], store')
    BY <1>1, <2>1, IdleFacts
  <2> QED
    BY <1>0, <2>1, <2>2, GoesOn
<1>6. CASE UNCHANGED vars
  BY <1>0, <1>1, <1>6, GoesOn DEF vars
<1> QED
  BY <1>2, <1>3, <1>4, <1>5, <1>6 DEF Next, Calls

\* While a claim is bound to a bucket the provisioner named, the bucket is
\* there: for every number of processes, claims and failures, and wherever a
\* process stops.
THEOREM BucketLives == Spec => []BoundBucketLives
<1>1. TypeInv /\ LifeInv => BoundBucketLives
  BY DEF LifeInv
<1>2. Init => TypeInv /\ LifeInv
  BY TypeInit, LifeInit
<1>3. (TypeInv /\ LifeInv) /\ [Next]_vars => (TypeInv /\ LifeInv)'
  BY TypeNext, LifeNext
<1> QED
  BY <1>1, <1>2, <1>3, PTL DEF Spec
=============================================================================
